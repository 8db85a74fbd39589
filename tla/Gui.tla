----------------------------------- MODULE Gui ------------------------------------
(***************************************************************************)
(* The way of an input event from the gui service to a view:                *)
(* applications/services/gui, gui.c, view_port.c and view_dispatcher.c. The *)
(* gui's thread gives each event to one view port. The view port of an      *)
(* application is that of its view dispatcher, whose callback puts the      *)
(* event into a queue that the application's thread reads. Both keep which  *)
(* keys are down and who got the first of them, so that whoever got a Press *)
(* gets the Release, and both may wait for each other: the gui for room in  *)
(* the queue, the application for the mutexes the gui then holds.           *)
(*                                                                         *)
(* "Short" stands for Short, Long and Repeat, which are treated alike.      *)
(***************************************************************************)
EXTENDS Naturals, Sequences, SequencesExt

CONSTANTS
    Keys,         \* the keys that are used
    Flipped,      \* the views that are shown upside down
    Vertical,     \* the views that are shown upright
    AppQueueSize, \* the size of ViewDispatcher.queue
    MaxRpc,       \* (bound) how many events come from rpc clients
    Locks,        \* whether the desktop is locked
    DirectDraws   \* whether an application draws by itself

Key == {"Up", "Down", "Right", "Left", "Ok", "Back"}
ASSUME KeyAssumption == Keys \subseteq Key

View == {"v1", "v2"}
ASSUME ViewAssumption == Flipped \subseteq View /\ Vertical \subseteq View
ASSUME SizeAssumption == AppQueueSize \in Nat \ {0} /\ MaxRpc \in Nat
ASSUME SwitchAssumption == Locks \in BOOLEAN /\ DirectDraws \in BOOLEAN

(* The application's view port, that of the desktop, and one that another thread
   shows above all and takes away again. The desktop has a dispatcher too, but here
   its callback returns at once: its queue is modelled in Loader.tla. *)
ViewPort == {"app", "desk", "pop"}
Fullscreen == {"app", "pop"}
None == "none"

Type == {"Press", "Short", "Release"}
Event == [key : Key, type : Type, source : {"hw", "rpc"}]
Message == [what : {"Input"}, event : Event] \union [what : {"Stop"}]

(* ViewPortOrientation, and that of a view. *)
Orientation == {"Horizontal", "HorizontalFlip", "Vertical", "VerticalFlip"}
OrientationOf(v) == IF v \in Vertical THEN IF v \in Flipped THEN "VerticalFlip" ELSE "Vertical"
                                      ELSE IF v \in Flipped THEN "HorizontalFlip" ELSE "Horizontal"

VARIABLES
    held,        \* the keys that the user holds
    rpcs,        \* how many events have come from rpc clients
    gui,         \* the gui's thread, Gui.ongoing_input and ongoing_input_view_port
    mutex,       \* who holds Gui.mutex
    stack,       \* Gui.layers: the view ports of the layer Fullscreen, the last on top
    enabled,     \* ViewPort.is_enabled of the application's
    orientation, \* ViewPort.orientation of the application's
    hand,        \* FuriHalRtcFlagHandOrient: the device is held in the left hand
    mode,        \* Gui.lockdown and Gui.direct_draw
    app,         \* the application's thread and its view dispatcher
    queue,       \* ViewDispatcher.queue
    owed,        \* (observed) for each view port, the keys it got a Press of
    odd          \* (observed) "twice": a key was pressed by two at once. "turned": a key
                 \* of which the application got the Press was given another direction
                 \* before its Release, or a client of the rpc, whose keys are not mapped,
                 \* sent one that would have been

vars == <<held, rpcs, gui, mutex, stack, enabled, orientation, hand, mode, app, queue, owed, odd>>

NoEvent == [key |-> "Ok", type |-> "Short", source |-> "hw"]

(* view_dispatcher_alloc, with both views added and the first one shown. *)
NewApp == [pc |-> "get", ongoing |-> {}, current |-> "v1", first |-> None, views |-> View,
           arg |-> None]

Init ==
    /\ held = {}
    /\ rpcs = 0
    /\ gui = [pc |-> "get", event |-> NoEvent, ongoing |-> {}, first |-> None]
    /\ mutex = None
    /\ stack = <<"app">>
    /\ enabled = TRUE
    /\ orientation = OrientationOf("v1")
    /\ hand \in BOOLEAN
    /\ mode = [lockdown |-> FALSE, direct |-> FALSE]
    /\ app = NewApp
    /\ queue = <<>>
    /\ owed = [v \in ViewPort |-> {}]
    /\ odd = {}

--------------------------------------------------------------------------------
(* gui_input: an event is taken from input_queue. It comes from the input service,
   whose sequences are a Press, any number of Short, Long and Repeat, and a Release,
   or from a client of the rpc, which sends what it likes. How long it
   has been in the queue makes no difference here. *)

(* Input complementarity: what comes between a Press and a Release is dropped
   without the Press. *)
Ongoing(keys, e) == CASE e.type = "Press"   -> keys \union {e.key}
                      [] e.type = "Release" -> keys \ {e.key}
                      [] OTHER              -> keys
Complementary(keys, e) == e.type = "Short" => e.key \in keys

GuiTakes(e) ==
    /\ gui.pc = "get"
    /\ gui' = IF Complementary(gui.ongoing, e)
              THEN [gui EXCEPT !.ongoing = Ongoing(@, e), !.event = e, !.pc = "lock"]
              ELSE gui
    /\ odd' = IF e.type = "Press" /\ e.key \in gui.ongoing THEN odd \union {"twice"} ELSE odd
    /\ UNCHANGED <<mutex, stack, enabled, orientation, hand, mode, app, queue, owed>>

KeyMoves(k) ==
    /\ \E type \in Type :
        /\ (type = "Press") = (k \notin held)
        /\ held' = Ongoing(held, [key |-> k, type |-> type])
        /\ GuiTakes([key |-> k, type |-> type, source |-> "hw"])
    /\ UNCHANGED rpcs

RpcSends ==
    /\ rpcs < MaxRpc
    /\ rpcs' = rpcs + 1
    /\ \E k \in Keys, type \in Type : GuiTakes([key |-> k, type |-> type, source |-> "rpc"])
    /\ UNCHANGED held

(* gui_view_port_find_enabled, of the layers in their order: the desktop is always
   there. *)
IsEnabled(v) == v = "app" => enabled
Shown == {i \in DOMAIN stack : IsEnabled(stack[i])}
TopFault == IF Shown = {} THEN "desk" ELSE stack[Max(Shown)]  \* lockdown is forgotten
Top == IF mode.lockdown \/ Shown = {} THEN "desk" ELSE stack[Max(Shown)]

(* The first key that goes down decides who gets the input. *)
FirstFault == Top  \* whatever else is held
First == IF gui.ongoing \ {gui.event.key} = {} /\ gui.event.type = "Press" THEN Top ELSE gui.first

Dispatched == ~(mode.direct /\ gui.first = None)

(* Who gets the event: the one that got the first key, if it is on top; a Release
   in any case. *)
Target == IF Dispatched /\ (First = Top \/ gui.event.type = "Release") THEN First ELSE None

(* view_port_map_input: the key of a view that key k of the device is. The table for
   the left hand is that of HorizontalFlip. *)
InputMapping ==
    [Horizontal     |-> [Up |-> "Up",    Down |-> "Down",  Right |-> "Right", Left |-> "Left"],
     HorizontalFlip |-> [Up |-> "Down",  Down |-> "Up",    Right |-> "Left",  Left |-> "Right"],
     Vertical       |-> [Up |-> "Right", Down |-> "Left",  Right |-> "Down",  Left |-> "Up"],
     VerticalFlip   |-> [Up |-> "Left",  Down |-> "Right", Right |-> "Up",    Left |-> "Down"]]
MapKey(o, k) == IF k \in {"Ok", "Back"} THEN k ELSE InputMapping[o][k]
MapInput(o, h, k) ==
    MapKey(o, IF h /\ o \in {"Horizontal", "HorizontalFlip"} THEN MapKey("HorizontalFlip", k)
                                                             ELSE k)

(* Only the keys of the device are mapped. *)
Mapped(e) == IF e.source = "hw" THEN [e EXCEPT !.key = MapInput(orientation, hand, @)] ELSE e

(* view_port_input: the callback of a view port that is not a dispatcher's returns
   at once. The dispatcher's is given the mapped event and waits for room, with both
   mutexes held. *)
GuiRoutes ==
    /\ gui.pc = "lock" /\ mutex = None
    /\ gui' = [gui EXCEPT !.pc = IF Target = "app" THEN "put" ELSE "get",
                          !.event = IF Target = "app" THEN Mapped(@) ELSE NoEvent,
                          !.first = IF Dispatched THEN First ELSE @]
    /\ mutex' = IF Target = "app" THEN "gui" ELSE None
    /\ owed' = IF Target = None THEN owed ELSE [owed EXCEPT ![Target] = Ongoing(@, gui.event)]
    /\ odd' = IF /\ Target = "app"
                 /\ Mapped(gui.event).key /= MapInput(orientation, hand, gui.event.key)
              THEN odd \union {"turned"} ELSE odd
    /\ UNCHANGED <<held, rpcs, stack, enabled, orientation, hand, mode, app, queue>>

(* view_dispatcher_input_callback. *)
GuiPutsFault ==  \* a full queue is not waited for
    /\ gui.pc = "put"
    /\ queue' = IF Len(queue) < AppQueueSize
                THEN Append(queue, [what |-> "Input", event |-> gui.event]) ELSE queue
    /\ gui' = [gui EXCEPT !.pc = "get", !.event = NoEvent]
    /\ mutex' = None
    /\ UNCHANGED <<held, rpcs, stack, enabled, orientation, hand, mode, app, owed, odd>>

GuiPuts ==
    /\ gui.pc = "put" /\ Len(queue) < AppQueueSize
    /\ queue' = Append(queue, [what |-> "Input", event |-> gui.event])
    /\ gui' = [gui EXCEPT !.pc = "get", !.event = NoEvent]
    /\ mutex' = None
    /\ UNCHANGED <<held, rpcs, stack, enabled, orientation, hand, mode, app, owed, odd>>

GuiStep == GuiRoutes \/ GuiPuts

--------------------------------------------------------------------------------
(* Other threads: they show a view port, move it and take it away, and set the
   modes of the gui. Each takes Gui.mutex and lets it go. *)

(* A view port is in the layer once. *)
Without(v) == RemoveAt(stack, CHOOSE i \in DOMAIN stack : stack[i] = v)

(* gui_remove_view_port. *)
ForgetsFault(v) == gui.first  \* ongoing_input_view_port is left as it is
Forgets(v) == IF gui.first = v THEN None ELSE gui.first

Popup ==
    /\ mutex = None
    /\ \/ /\ "pop" \notin ToSet(stack)
          /\ stack' = Append(stack, "pop")
          /\ UNCHANGED <<gui, owed>>
       \/ /\ "pop" \in ToSet(stack)
          /\ \/ stack' = Append(Without("pop"), "pop") /\ UNCHANGED <<gui, owed>>
             \/ stack' = <<"pop">> \o Without("pop") /\ UNCHANGED <<gui, owed>>
             \/ /\ stack' = Without("pop")
                /\ gui' = [gui EXCEPT !.first = Forgets("pop")]
                /\ owed' = [owed EXCEPT !["pop"] = {}]
    /\ UNCHANGED <<held, rpcs, mutex, enabled, orientation, hand, mode, app, queue, odd>>

SetMode ==
    /\ mutex = None
    /\ \/ Locks /\ mode' = [mode EXCEPT !.lockdown = ~@]
       \/ DirectDraws /\ mode' = [mode EXCEPT !.direct = ~@]
    /\ UNCHANGED <<held, rpcs, gui, mutex, stack, enabled, orientation, hand, app, queue, owed, odd>>

(* The keys are mapped by o and h from now on: a Release that the application is
   still to be given may not be the one that it expects. *)
Turns(o, h) ==
    odd' = IF \E k \in owed["app"] : MapInput(o, h, k) /= MapInput(orientation, hand, k)
           THEN odd \union {"turned"} ELSE odd

(* "Left Handed" is set or reset, in the menu of the locked desktop or by an
   application, whatever is held. Nobody is told. *)
HandTurns ==
    /\ hand' = ~hand
    /\ Turns(orientation, ~hand)
    /\ UNCHANGED <<held, rpcs, gui, mutex, stack, enabled, orientation, mode, app, queue, owed>>

--------------------------------------------------------------------------------
(* The application: view_dispatcher_run, and what a callback of a view may do. *)

AppUnchanged == UNCHANGED <<held, rpcs, stack, hand, mode>>

(* view_dispatcher_handle_input. *)
HandleInput(e) ==
    LET keys  == Ongoing(app.ongoing, e)
        first == IF keys \ {e.key} = {} /\ e.type = "Press" THEN app.current ELSE app.first
        given == \/ app.current /= None /\ first = app.current
                 \/ first /= None /\ e.type = "Release"
    IN  IF Complementary(app.ongoing, e)
        THEN app' = [app EXCEPT !.ongoing = keys, !.first = first,
                                !.pc = IF given THEN "callback" ELSE "get"]
        ELSE UNCHANGED app

RunGets ==
    /\ app.pc = "get" /\ queue /= <<>>
    /\ queue' = Tail(queue)
    /\ LET m == Head(queue)
       IN  \/ m.what = "Stop" /\ app' = [app EXCEPT !.pc = "drain"]
           \/ m.what = "Input" /\ HandleInput(m.event)
    /\ UNCHANGED <<gui, mutex, enabled, orientation, owed, odd>> /\ AppUnchanged

(* After the Stop: all that is pressed must be released before run returns. *)
Drained == app.ongoing = {}

RunDrains ==
    /\ app.pc = "drain"
    /\ \/ /\ Drained
          /\ app' = [app EXCEPT !.pc = "returned"]
          /\ UNCHANGED queue
       \/ /\ ~Drained
          /\ queue /= <<>>
          /\ queue' = Tail(queue)
          /\ app' = IF Head(queue).what = "Input"
                    THEN [app EXCEPT !.ongoing = Ongoing(@, Head(queue).event)] ELSE app
    /\ UNCHANGED <<gui, mutex, enabled, orientation, owed, odd>> /\ AppUnchanged

(* A callback returns, stops the dispatcher, or shows another view or none. *)
Callback ==
    /\ app.pc = "callback"
    /\ \/ \E pc \in {"get", "stop"} : app' = [app EXCEPT !.pc = pc]
       \/ \E v \in View \union {None} : app' = [app EXCEPT !.pc = "switch", !.arg = v]
    /\ UNCHANGED <<gui, mutex, enabled, orientation, queue, owed, odd>> /\ AppUnchanged

(* view_dispatcher_stop, called by the thread that reads the queue. *)
Stops ==
    /\ app.pc = "stop" /\ Len(queue) < AppQueueSize
    /\ queue' = Append(queue, [what |-> "Stop"])
    /\ app' = [app EXCEPT !.pc = "get"]
    /\ UNCHANGED <<gui, mutex, enabled, orientation, owed, odd>> /\ AppUnchanged

(* The mutex of the application's view port: the gui has it while it waits. *)
PortFree == gui.pc /= "put"

(* view_dispatcher_set_current_view. *)
Switches ==
    /\ app.pc = "switch" /\ PortFree
    /\ \/ /\ app.arg /= None
          /\ orientation' = OrientationOf(app.arg)
          /\ Turns(orientation', hand)
          /\ app' = [app EXCEPT !.pc = "get", !.current = app.arg, !.arg = None,
                                !.ongoing = IF orientation' = orientation THEN @ ELSE {}]
          /\ enabled' = TRUE
       \/ /\ app.arg = None
          /\ app' = [app EXCEPT !.pc = "stop", !.current = None]
          /\ enabled' = FALSE
          /\ UNCHANGED <<orientation, odd>>
    /\ UNCHANGED <<gui, mutex, queue, owed>> /\ AppUnchanged

(* view_dispatcher_remove_view, as the application does for each view when run has
   returned: what is shown is taken away, and the dispatcher stopped, under
   Gui.mutex. *)
WithoutView(v) == [app EXCEPT !.views = @ \ {v}, !.first = IF @ = v THEN None ELSE @]

RemovesView ==
    /\ app.pc = "remove" /\ mutex = None
    /\ \/ /\ app.current /= app.arg
          /\ app' = [WithoutView(app.arg) EXCEPT !.pc = "returned", !.arg = None]
          /\ UNCHANGED <<mutex, enabled>>
       \/ /\ app.current = app.arg
          /\ app' = [app EXCEPT !.current = None, !.pc = "removeStop"]
          /\ mutex' = "app"
          /\ enabled' = FALSE
    /\ UNCHANGED <<gui, orientation, queue, owed, odd>> /\ AppUnchanged

RemovedStop ==
    /\ app.pc = "removeStop" /\ Len(queue) < AppQueueSize
    /\ queue' = Append(queue, [what |-> "Stop"])
    /\ app' = [WithoutView(app.arg) EXCEPT !.pc = "returned", !.arg = None]
    /\ mutex' = None
    /\ UNCHANGED <<gui, enabled, orientation, owed, odd>> /\ AppUnchanged

(* run has returned: the views are removed, then the view port, and all is freed. *)
TearsDown ==
    /\ app.pc = "returned"
    /\ \/ /\ \E v \in app.views : app' = [app EXCEPT !.pc = "remove", !.arg = v]
          /\ UNCHANGED <<gui, stack, queue, owed>>
       \/ /\ app.views = {} /\ mutex = None
          /\ stack' = Without("app")
          /\ gui' = [gui EXCEPT !.first = Forgets("app")]
          /\ app' = [app EXCEPT !.pc = "gone", !.ongoing = {}, !.first = None]
          /\ owed' = [owed EXCEPT !["app"] = {}]
          /\ queue' = <<>>
    /\ UNCHANGED <<held, rpcs, mutex, enabled, orientation, hand, mode, odd>>

(* The next application. *)
Starts ==
    /\ app.pc = "gone" /\ mutex = None
    /\ app' = NewApp
    /\ stack' = Append(stack, "app")
    /\ enabled' = TRUE
    /\ orientation' = OrientationOf("v1")
    /\ UNCHANGED <<held, rpcs, gui, mutex, hand, mode, queue, owed, odd>>

AppStep ==
    \/ RunGets \/ RunDrains \/ Callback \/ Stops \/ Switches \/ RemovesView \/ RemovedStop
    \/ TearsDown

(* The gui waits for room in the queue, and the application, which alone makes it,
   for a mutex that the gui holds. *)
MutualWait ==
    /\ gui.pc = "put" /\ Len(queue) = AppQueueSize
    /\ app.pc \in {"switch", "remove", "returned"}

(* view_dispatcher_stop, called by the thread that reads the queue, waits for room
   that only this thread makes. *)
SelfWait == app.pc \in {"stop", "removeStop"} /\ Len(queue) = AppQueueSize

(* The application never goes on. *)
Frozen == (MutualWait \/ SelfWait) /\ UNCHANGED vars

Next ==
    \/ Frozen \/ GuiStep \/ AppStep \/ Starts \/ Popup \/ SetMode \/ HandTurns \/ RpcSends
    \/ \E k \in Keys : KeyMoves(k)

Spec == Init /\ [][Next]_vars

--------------------------------------------------------------------------------
(* Properties. *)

(* (bound) A behaviour is followed up to the first odd thing. *)
UpToTheFirstOddThing == odd = {}

(* The types of the gui, of the dispatcher and of their queues. *)
TypeOK ==
    /\ held \subseteq Keys /\ rpcs \in 0..MaxRpc
    /\ gui \in [pc : {"get", "lock", "put"}, event : Event, ongoing : SUBSET Key,
                first : ViewPort \union {None}]
    /\ mutex \in {None, "gui", "app"}
    /\ stack \in Seq(Fullscreen) /\ Len(stack) <= 2
    /\ enabled \in BOOLEAN /\ orientation \in Orientation /\ hand \in BOOLEAN
    /\ mode \in [lockdown : BOOLEAN, direct : BOOLEAN]
    /\ app \in [pc : {"get", "drain", "returned", "gone", "callback", "stop", "switch",
                      "remove", "removeStop"},
                ongoing : SUBSET Key, current : View \union {None}, first : View \union {None},
                views : SUBSET View, arg : View \union {None}]
    /\ queue \in Seq(Message) /\ Len(queue) <= AppQueueSize
    /\ owed \in [ViewPort -> SUBSET Key]
    /\ odd \subseteq {"twice", "turned"}

(* Input is given only to a view port that the gui has, and to a view that the
   dispatcher has: a removed one is forgotten though its keys are still held. *)
InputToTheLiving ==
    /\ gui.first \in ToSet(stack) \union {"desk", None}
    /\ gui.pc = "put" => "app" \in ToSet(stack)
    /\ app.first \in app.views \union {None}

(* While the desktop is locked, the application's view port is given nothing but
   the Release of a key, whatever was on top and held when it was locked. *)
LockdownHolds == gui.pc = "put" /\ mode.lockdown => gui.event.type = "Release"

(* Whoever got a Press gets the Release, even when it is covered, disabled or no
   longer first: its keys are still counted, and it is still the one to be given
   what follows. *)
ReleaseIsKept ==
    "twice" \notin odd => \A v \in ViewPort : \A k \in owed[v] :
        /\ gui.first = v
        /\ k \in gui.ongoing \/ (gui.pc = "lock" /\ gui.event.type = "Release" /\ gui.event.key = k)

(* run can return: every key that the dispatcher waits for is either held still, with
   the dispatcher's view port as the one that gets its Release, or the Release is
   on its way in the queue. It holds unless a key was turned while it was held: its
   Release is then that of another key, and run waits until this one is pressed and
   released. *)
ReleaseIsOnItsWay ==
    odd = {} => \A k \in app.ongoing :
        \/ \E h \in owed["app"] : MapInput(orientation, hand, h) = k
        \/ gui.pc = "put" /\ gui.event.type = "Release" /\ gui.event.key = k
        \/ \E i \in DOMAIN queue : queue[i].what = "Input" /\ queue[i].event.type = "Release"
                                   /\ queue[i].event.key = k
================================================================================
