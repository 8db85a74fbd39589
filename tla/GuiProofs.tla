------------------------------- MODULE GuiProofs -------------------------------
(***************************************************************************)
(* Proofs about the way of an input event from the gui to a view (Gui.tla), *)
(* for any keys, any views that are turned, any size of the dispatcher's    *)
(* queue and any number of events from rpc clients.                         *)
(***************************************************************************)
EXTENDS Gui, TLAPS

USE KeyAssumption, ViewAssumption, SizeAssumption, SwitchAssumption

GuiRecord == [pc : {"get", "lock", "put"}, event : Event, ongoing : SUBSET Key,
              first : ViewPort \union {None}]
AppRecord == [pc : {"get", "drain", "returned", "gone", "callback", "stop", "switch",
                    "remove", "removeStop"},
              ongoing : SUBSET Key, current : View \union {None}, first : View \union {None},
              views : SUBSET View, arg : View \union {None}]
ModeRecord == [lockdown : BOOLEAN, direct : BOOLEAN]
Odd == {"twice", "turned"}

(* Each view port is in the layer once; the application's from its start to its end.
   Whoever waits for room in the dispatcher's queue inside a call of the gui holds
   Gui.mutex. *)
StackInv ==
    /\ \A i, j \in DOMAIN stack : stack[i] = stack[j] => i = j
    /\ app.pc = "gone" <=> "app" \notin ToSet(stack)
    /\ app.pc = "gone" => queue = <<>>
    /\ gui.pc = "put" => mutex = "gui"
    /\ app.pc = "removeStop" => mutex = "app"

(* The dispatcher has all its views until run has returned, and shows one of them or
   none. *)
ViewInv ==
    /\ app.pc \in {"get", "drain", "callback", "stop", "switch"} => app.views = View
    /\ app.pc \in {"remove", "removeStop"} => app.arg \in View
    /\ app.pc = "removeStop" => app.current = None
    /\ app.current \in app.views \union {None}

(* A Press that is new is of a key that nobody owes a Release of. *)
PressInv ==
    "twice" \notin odd /\ gui.pc = "lock" /\ gui.event.type = "Press" =>
        gui.event.key \in gui.ongoing /\ \A v \in ViewPort : gui.event.key \notin owed[v]

(* The key of the view that a key of the device is. *)
Turned(k) == MapInput(orientation, hand, k)

(* The Release of a key of the view is still to be put into the queue. *)
Coming(k) ==
    \/ \E h \in owed["app"] : Turned(h) = k
    \/ gui.pc = "put" /\ gui.event.type = "Release" /\ gui.event.key = k

IsEvent(i, type, k) ==
    queue[i].what = "Input" /\ queue[i].event.type = type /\ queue[i].event.key = k

(* Whatever the dispatcher has counted as pressed, or will when it gets to it, is
   followed by its Release, in the queue or on its way there. *)
QueueInv ==
    odd = {} =>
    /\ gui.pc = "put" /\ gui.event.type = "Press" =>
        \E h \in owed["app"] : Turned(h) = gui.event.key
    /\ \A k \in app.ongoing : Coming(k) \/ \E i \in DOMAIN queue : IsEvent(i, "Release", k)
    /\ \A i \in DOMAIN queue, k \in Key : IsEvent(i, "Press", k) =>
        Coming(k) \/ \E j \in DOMAIN queue : i < j /\ IsEvent(j, "Release", k)

Inv ==
    /\ TypeOK /\ StackInv /\ ViewInv /\ PressInv /\ QueueInv
    /\ InputToTheLiving /\ LockdownHolds /\ ReleaseIsKept

--------------------------------------------------------------------------------
(* What the helpers of the model do. *)

LEMMA Typed ==
    ASSUME TypeOK
    PROVE  /\ held \subseteq Keys /\ rpcs \in 0..MaxRpc /\ gui \in GuiRecord
           /\ mutex \in {None, "gui", "app"}
           /\ stack \in Seq(Fullscreen) /\ Len(stack) <= 2
           /\ enabled \in BOOLEAN /\ orientation \in Orientation /\ hand \in BOOLEAN
           /\ mode \in ModeRecord /\ app \in AppRecord
           /\ queue \in Seq(Message) /\ Len(queue) <= AppQueueSize
           /\ owed \in [ViewPort -> SUBSET Key] /\ odd \in SUBSET Odd
BY DEF TypeOK, GuiRecord, AppRecord, ModeRecord, Odd

LEMMA TypedNext ==
    ASSUME held' \subseteq Keys, rpcs' \in 0..MaxRpc, gui' \in GuiRecord,
           mutex' \in {None, "gui", "app"}, stack' \in Seq(Fullscreen), Len(stack') <= 2,
           enabled' \in BOOLEAN, orientation' \in Orientation, hand' \in BOOLEAN,
           mode' \in ModeRecord, app' \in AppRecord,
           queue' \in Seq(Message), Len(queue') <= AppQueueSize,
           owed' \in [ViewPort -> SUBSET Key], odd' \in SUBSET Odd
    PROVE  TypeOK'
BY DEF TypeOK, GuiRecord, AppRecord, ModeRecord, Odd

LEMMA NamesAre ==
    /\ Fullscreen = {"app", "pop"} /\ ViewPort = {"app", "pop", "desk"} /\ None = "none"
    /\ View = {"v1", "v2"}
BY DEF Fullscreen, ViewPort, None, View

LEMMA NoEventIs == NoEvent \in Event
BY DEF NoEvent, Event, Key, Type

LEMMA OrientationIs ==
    ASSUME NEW v
    PROVE  OrientationOf(v) \in Orientation
BY DEF OrientationOf, Orientation

LEMMA NewAppIs ==
    /\ NewApp \in AppRecord /\ NewApp.pc = "get" /\ NewApp.ongoing = {} /\ NewApp.views = View
    /\ NewApp.current = "v1" /\ NewApp.first = None
BY NamesAre DEF NewApp, AppRecord

LEMMA OngoingIs ==
    ASSUME NEW keys \in SUBSET Key, NEW e, e.key \in Key
    PROVE  Ongoing(keys, e) \in SUBSET Key
BY DEF Ongoing

LEMMA TopIs ==
    ASSUME TypeOK
    PROVE  /\ Top \in ToSet(stack) \union {"desk"} /\ Top \in ViewPort
           /\ mode.lockdown => Top = "desk"
<1>1. stack \in Seq(Fullscreen) /\ DOMAIN stack \subseteq {1, 2}
  BY Typed
<1>2. CASE ~mode.lockdown /\ Shown /= {}
  <2>1. \E i \in Shown : \A j \in Shown : i >= j
    <3>1. Shown \subseteq {1, 2}
      BY <1>1 DEF Shown
    <3>2. CASE 2 \in Shown
      BY <3>1, <3>2
    <3>3. CASE 2 \notin Shown
      <4>1. Shown = {1}
        BY <1>2, <3>1, <3>3
      <4> QED
        BY <4>1
    <3> QED
      BY <3>2, <3>3
  <2>2. Max(Shown) \in Shown
    BY <2>1 DEF Max
  <2>3. Top = stack[Max(Shown)] /\ Max(Shown) \in DOMAIN stack
    BY <1>2, <2>2 DEF Top, Shown
  <2> QED
    BY <1>1, <1>2, <2>3, NamesAre DEF ToSet
<1>3. CASE mode.lockdown \/ Shown = {}
  BY <1>3, NamesAre DEF Top
<1> QED
  BY <1>2, <1>3

LEMMA InitInv == Init => Inv
<1> SUFFICES ASSUME Init PROVE Inv
  OBVIOUS
<1>1. gui.pc = "get" /\ gui.first = None /\ gui.ongoing = {} /\ gui \in GuiRecord
  BY NoEventIs, NamesAre DEF Init, GuiRecord
<1>2. TypeOK
  <2>1. stack \in Seq(Fullscreen) /\ Len(stack) <= 2
    BY NamesAre DEF Init
  <2>2. mode \in ModeRecord
    BY DEF Init, ModeRecord
  <2>3. owed \in [ViewPort -> SUBSET Key] /\ queue \in Seq(Message) /\ Len(queue) <= AppQueueSize
    <3>1. owed \in [ViewPort -> SUBSET Key]
      BY DEF Init
    <3> QED
      BY <3>1 DEF Init
  <2>4. /\ held \subseteq Keys /\ rpcs \in 0..MaxRpc /\ mutex \in {None, "gui", "app"}
        /\ odd \in SUBSET Odd
    <3>1. held \subseteq Keys /\ rpcs \in 0..MaxRpc
      BY DEF Init
    <3>2. mutex \in {None, "gui", "app"} /\ odd \in SUBSET Odd
      BY DEF Init
    <3> QED
      BY <3>1, <3>2
  <2>5. enabled \in BOOLEAN /\ orientation \in Orientation /\ hand \in BOOLEAN
    BY OrientationIs DEF Init
  <2>6. app \in AppRecord
    BY NewAppIs DEF Init
  <2> QED
    BY <1>1, <2>1, <2>2, <2>3, <2>4, <2>5, <2>6 DEF TypeOK, GuiRecord, AppRecord, ModeRecord, Odd
<1>3. "app" \in ToSet(stack) /\ \A i, j \in DOMAIN stack : stack[i] = stack[j] => i = j
  BY DEF Init, ToSet
<1>4. StackInv
  BY <1>1, <1>3, NewAppIs DEF Init, StackInv
<1>5. ViewInv /\ InputToTheLiving
  BY <1>1, NewAppIs, NamesAre DEF Init, ViewInv, InputToTheLiving
<1>6. PressInv /\ LockdownHolds
  BY <1>1 DEF Init, PressInv, LockdownHolds
<1>7. QueueInv
  BY <1>1, NewAppIs DEF Init, QueueInv
<1>8. ReleaseIsKept
  BY DEF Init, ReleaseIsKept
<1> QED
  BY <1>2, <1>4, <1>5, <1>6, <1>7, <1>8 DEF Inv

--------------------------------------------------------------------------------
(* The gui's thread. *)

LEMMA TakesKeepsInv ==
    ASSUME Inv, NEW e \in Event, GuiTakes(e), held' \subseteq Keys, rpcs' \in 0..MaxRpc
    PROVE  Inv'
<1>1. /\ gui.pc = "get" /\ gui \in GuiRecord /\ odd \in SUBSET Odd
      /\ UNCHANGED <<mutex, stack, enabled, orientation, hand, mode, app, queue, owed>>
      /\ odd' = IF e.type = "Press" /\ e.key \in gui.ongoing THEN odd \union {"twice"} ELSE odd
  BY Typed DEF GuiTakes, Inv
<1>2. e.key \in Key /\ e.type \in {"Press", "Short", "Release"}
  BY DEF Event, Type
<1>3. \/ gui' = gui /\ ~Complementary(gui.ongoing, e)
      \/ /\ gui' \in GuiRecord /\ gui'.pc = "lock" /\ gui'.event = e /\ gui'.first = gui.first
         /\ gui'.ongoing = Ongoing(gui.ongoing, e) /\ Complementary(gui.ongoing, e)
  <2>1. CASE Complementary(gui.ongoing, e)
    <3>1. PICK keys \in SUBSET Key : keys = Ongoing(gui.ongoing, e)
      BY <1>1, <1>2, OngoingIs DEF GuiRecord
    <3>2. gui' = [gui EXCEPT !.ongoing = keys, !.event = e, !.pc = "lock"]
      BY <2>1, <3>1 DEF GuiTakes
    <3> QED
      BY <1>1, <2>1, <3>1, <3>2 DEF GuiRecord
  <2>2. CASE ~Complementary(gui.ongoing, e)
    BY <2>2 DEF GuiTakes
  <2> QED
    BY <2>1, <2>2
<1>4. gui'.pc \in {"get", "lock"} /\ gui'.first = gui.first /\ odd' \in SUBSET Odd
      /\ gui' \in GuiRecord
  <2>1. odd' \in SUBSET Odd
    BY <1>1 DEF Odd
  <2> QED
    BY <1>1, <1>3, <2>1
<1>5. TypeOK'
  BY <1>1, <1>4, Typed, TypedNext DEF Inv
<1>6. StackInv' /\ ViewInv' /\ InputToTheLiving' /\ LockdownHolds'
  BY <1>1, <1>4 DEF Inv, StackInv, ViewInv, InputToTheLiving, LockdownHolds
<1>7. ASSUME "twice" \notin odd'
      PROVE  "twice" \notin odd /\ (e.type = "Press" => e.key \notin gui.ongoing)
  BY <1>1, <1>7
<1>8. ASSUME "twice" \notin odd', NEW v \in ViewPort, NEW k \in owed[v]
      PROVE  gui.first = v /\ k \in gui.ongoing
  BY <1>1, <1>7, <1>8 DEF Inv, ReleaseIsKept
<1>9. PressInv'
  BY <1>1, <1>3, <1>7, <1>8 DEF PressInv, Ongoing
<1>10. ReleaseIsKept'
  <2> SUFFICES ASSUME "twice" \notin odd', NEW v \in ViewPort, NEW k \in owed[v]
               PROVE  /\ gui'.first = v
                      /\ \/ k \in gui'.ongoing
                         \/ gui'.pc = "lock" /\ gui'.event.type = "Release" /\ gui'.event.key = k
    BY <1>1 DEF ReleaseIsKept
  <2>1. gui.first = v /\ k \in gui.ongoing
    BY <1>8
  <2> QED
    BY <1>2, <1>3, <1>4, <2>1 DEF Ongoing
<1>11. QueueInv'
  <2> SUFFICES ASSUME odd' = {} PROVE QueueInv'
    BY DEF QueueInv
  <2>1. \A k : Coming(k)' <=> Coming(k)
    BY <1>1, <1>4 DEF Coming, Turned
  <2>2. odd = {}
    BY <1>1
  <2> QED
    BY <1>1, <1>4, <2>1, <2>2 DEF Inv, QueueInv, IsEvent
<1> QED
  BY <1>5, <1>6, <1>9, <1>10, <1>11 DEF Inv

LEMMA KeyMovesKeepsInv ==
    ASSUME Inv, (\E k \in Keys : KeyMoves(k)) \/ RpcSends
    PROVE  Inv'
<1>1. ASSUME NEW k \in Keys, KeyMoves(k) PROVE Inv'
  <2>1. PICK type \in Type : /\ held' = Ongoing(held, [key |-> k, type |-> type])
                             /\ GuiTakes([key |-> k, type |-> type, source |-> "hw"])
    BY <1>1 DEF KeyMoves
  <2>2. held' \subseteq Keys /\ rpcs' \in 0..MaxRpc
    BY <1>1, <2>1, Typed DEF Inv, KeyMoves, Ongoing
  <2>3. [key |-> k, type |-> type, source |-> "hw"] \in Event
    BY DEF Event
  <2> QED
    BY <2>1, <2>2, <2>3, TakesKeepsInv
<1>2. CASE RpcSends
  <2>1. PICK k \in Keys, type \in Type :
            GuiTakes([key |-> k, type |-> type, source |-> "rpc"])
    BY <1>2 DEF RpcSends
  <2>2. held' \subseteq Keys /\ rpcs' \in 0..MaxRpc
    BY <1>2, Typed DEF Inv, RpcSends
  <2>3. [key |-> k, type |-> type, source |-> "rpc"] \in Event
    BY DEF Event, Type
  <2> QED
    BY <2>1, <2>2, <2>3, TakesKeepsInv
<1> QED
  BY <1>1, <1>2

(* Who gets the event: Top or the first, if any. *)
LEMMA TargetIs ==
    ASSUME Inv
    PROVE  /\ Target \in ViewPort \union {None} /\ First \in ViewPort \union {None}
           /\ First \in {Top, gui.first} /\ Target \in {None, First}
           /\ Target /= None => Dispatched /\ (First = Top \/ gui.event.type = "Release")
           /\ Dispatched /\ (First = Top \/ gui.event.type = "Release") => Target = First
           /\ First /= gui.first => /\ gui.ongoing \ {gui.event.key} = {} /\ gui.event.type = "Press"
                                    /\ First = Top
<1>1. Top \in ViewPort /\ gui.first \in ViewPort \union {None}
  BY TopIs, Typed DEF Inv, GuiRecord
<1>2. First \in {Top, gui.first}
      /\ (First /= gui.first => /\ gui.ongoing \ {gui.event.key} = {} /\ gui.event.type = "Press"
                                /\ First = Top)
  BY DEF First
<1> QED
  BY <1>1, <1>2 DEF Target

(* MapInput gives a key, and Mapped changes nothing but the key of an event. *)
LEMMA MapInputIs ==
    ASSUME NEW o \in Orientation, NEW h \in BOOLEAN, NEW k \in Key
    PROVE  MapInput(o, h, k) \in Key
<1>1. ASSUME NEW p \in Orientation, NEW j \in Key
      PROVE  MapKey(p, j) \in Key
  <2>1. CASE j \in {"Ok", "Back"}
    BY <2>1 DEF MapKey
  <2>2. CASE j \notin {"Ok", "Back"}
    <3>1. j \in {"Up", "Down", "Right", "Left"}
      BY <2>2 DEF Key
    <3>2. p \in {"Horizontal", "HorizontalFlip", "Vertical", "VerticalFlip"}
      BY DEF Orientation
    <3>3. InputMapping[p][j] \in {"Up", "Down", "Right", "Left"}
      BY <3>1, <3>2 DEF InputMapping
    <3> QED
      BY <2>2, <3>3 DEF MapKey, Key
  <2> QED
    BY <2>1, <2>2
<1>2. "HorizontalFlip" \in Orientation
  BY DEF Orientation
<1>3. PICK j \in Key : j = IF h /\ o \in {"Horizontal", "HorizontalFlip"}
                          THEN MapKey("HorizontalFlip", k) ELSE k
  BY <1>1, <1>2
<1>4. MapInput(o, h, k) = MapKey(o, j)
  BY <1>3 DEF MapInput
<1> QED
  BY <1>1, <1>4

LEMMA MappedIs ==
    ASSUME Inv, NEW e \in Event
    PROVE  Mapped(e) \in Event /\ Mapped(e).type = e.type
<1>1. PICK k \in Key : k = MapInput(orientation, hand, e.key)
  <2>1. orientation \in Orientation /\ hand \in BOOLEAN
    BY Typed DEF Inv
  <2>2. e.key \in Key
    BY DEF Event
  <2> QED
    BY <2>1, <2>2, MapInputIs
<1>2. Mapped(e) = e \/ Mapped(e) = [e EXCEPT !.key = k]
  BY <1>1 DEF Mapped
<1> QED
  BY <1>2 DEF Event

LEMMA RoutesKeepsInv ==
    ASSUME Inv, GuiRoutes
    PROVE  Inv'
<1>0. PICK to, e, first : /\ to = Target /\ e = gui.event
                          /\ first = IF Dispatched THEN First ELSE gui.first
  OBVIOUS
<1>1. /\ gui.pc = "lock" /\ mutex = None
      /\ gui' = [gui EXCEPT !.pc = IF to = "app" THEN "put" ELSE "get",
                            !.event = IF to = "app" THEN Mapped(e) ELSE NoEvent,
                            !.first = first]
      /\ mutex' = IF to = "app" THEN "gui" ELSE None
      /\ owed' = IF to = None THEN owed ELSE [owed EXCEPT ![to] = Ongoing(owed[to], e)]
      /\ odd' = IF to = "app" /\ Mapped(e).key /= Turned(e.key) THEN odd \union {"turned"} ELSE odd
      /\ UNCHANGED <<held, rpcs, stack, enabled, orientation, hand, mode, app, queue>>
  BY <1>0 DEF GuiRoutes, Turned
<1>2. /\ gui \in GuiRecord /\ e \in Event /\ e.key \in Key /\ e.type \in {"Press", "Short", "Release"}
      /\ owed \in [ViewPort -> SUBSET Key] /\ gui.ongoing \subseteq Key
      /\ gui.first \in ViewPort \union {None}
  <2>1. gui \in GuiRecord /\ owed \in [ViewPort -> SUBSET Key]
    BY Typed DEF Inv
  <2>2. e \in Event /\ gui.ongoing \subseteq Key /\ gui.first \in ViewPort \union {None}
    BY <1>0, <2>1 DEF GuiRecord
  <2> QED
    BY <2>1, <2>2 DEF Event, Type
<1>3. /\ to \in ViewPort \union {None} /\ first \in ViewPort \union {None}
      /\ first \in {Top, gui.first} /\ to \in {None, first}
      /\ to /= None => first = Top \/ e.type = "Release"
      /\ first /= gui.first => gui.ongoing \ {e.key} = {} /\ e.type = "Press" /\ to = first
      /\ e.type = "Release" => to = first
      /\ None \notin ViewPort
  <2>1. None \notin ViewPort
    BY NamesAre
  <2>2. CASE Dispatched
    <3>1. first = First
      BY <1>0, <2>2
    <3> QED
      BY <1>0, <2>1, <2>2, <3>1, TargetIs
  <2>3. CASE ~Dispatched
    <3>1. to = None /\ first = gui.first /\ gui.first = None
      BY <1>0, <2>3, TargetIs DEF Dispatched
    <3> QED
      BY <2>1, <3>1, TopIs DEF Inv
  <2> QED
    BY <2>2, <2>3
<1>4. /\ gui' \in GuiRecord /\ gui'.first = first /\ gui'.ongoing = gui.ongoing
      /\ gui'.pc = IF to = "app" THEN "put" ELSE "get"
      /\ to = "app" => gui'.event = Mapped(e) /\ gui'.event.type = e.type
      /\ odd' \in SUBSET Odd /\ ("twice" \in odd' <=> "twice" \in odd) /\ odd \subseteq odd'
      /\ to = "app" /\ odd' = {} => gui'.event.key = Turned(e.key)
  <2>1. PICK m \in Event : m = IF to = "app" THEN Mapped(e) ELSE NoEvent
    BY <1>2, MappedIs, NoEventIs
  <2>2. PICK pc \in {"get", "lock", "put"} : pc = IF to = "app" THEN "put" ELSE "get"
    OBVIOUS
  <2>3. gui' = [gui EXCEPT !.pc = pc, !.event = m, !.first = first]
    BY <1>1, <2>1, <2>2
  <2>4. /\ gui' \in GuiRecord /\ gui'.first = first /\ gui'.ongoing = gui.ongoing
        /\ gui'.pc = pc /\ gui'.event = m
    BY <1>2, <1>3, <2>3 DEF GuiRecord
  <2>5. odd \in SUBSET Odd
    BY Typed DEF Inv
  <2>6. odd' \in SUBSET Odd /\ ("twice" \in odd' <=> "twice" \in odd) /\ odd \subseteq odd'
    BY <1>1, <2>5 DEF Odd
  <2>7. to = "app" /\ odd' = {} => Mapped(e).key = Turned(e.key)
    BY <1>1
  <2> QED
    BY <1>2, <2>1, <2>2, <2>4, <2>6, <2>7, MappedIs
<1>5. /\ owed' \in [ViewPort -> SUBSET Key]
      /\ \A v \in ViewPort : owed'[v] = IF v = to THEN Ongoing(owed[v], e) ELSE owed[v]
  <2>1. CASE to = None
    BY <1>1, <1>2, <1>3, <2>1
  <2>2. CASE to /= None
    <3>1. PICK keys \in SUBSET Key : keys = Ongoing(owed[to], e)
      BY <1>2, <1>3, <2>2, OngoingIs
    <3>2. owed' = [owed EXCEPT ![to] = keys]
      BY <1>1, <2>2, <3>1
    <3> QED
      BY <1>2, <1>3, <2>2, <3>1, <3>2
  <2> QED
    BY <2>1, <2>2
<1>6. TypeOK'
  <2>1. mutex' \in {None, "gui", "app"}
    BY <1>1
  <2> QED
    BY <1>1, <1>4, <1>5, <2>1, Typed, TypedNext DEF Inv
<1>7. first \in ToSet(stack) \union {"desk", None}
  BY <1>3, TopIs DEF Inv, InputToTheLiving
<1>8. StackInv' /\ ViewInv' /\ InputToTheLiving'
  <2>1. to = "app" => "app" \in ToSet(stack)
    BY <1>3, <1>7, NamesAre
  <2> QED
    BY <1>1, <1>4, <1>7, <2>1, NamesAre DEF Inv, StackInv, ViewInv, InputToTheLiving
<1>9. LockdownHolds'
  <2> SUFFICES ASSUME to = "app", mode.lockdown PROVE e.type = "Release"
    BY <1>1, <1>4 DEF LockdownHolds
  <2>1. Top = "desk" /\ to = first
    BY <1>3, TopIs, NamesAre DEF Inv
  <2> QED
    BY <1>3, <2>1, NamesAre
<1>10. PressInv'
  BY <1>4 DEF PressInv
<1>11. ASSUME "twice" \notin odd, NEW v \in ViewPort, NEW k \in owed'[v]
       PROVE  first = v /\ k \in gui.ongoing
  <2>1. e.type = "Press" => e.key \in gui.ongoing /\ \A w \in ViewPort : e.key \notin owed[w]
    BY <1>0, <1>1, <1>11 DEF Inv, PressInv
  <2>2. \A w \in ViewPort : \A h \in owed[w] :
            gui.first = w /\ (h \in gui.ongoing \/ (e.type = "Release" /\ e.key = h))
    BY <1>0, <1>11 DEF Inv, ReleaseIsKept
  <2>3. CASE e.type = "Press"
    <3>1. k \in owed[v] \/ (k = e.key /\ v = to)
      BY <1>5, <1>11, <2>3 DEF Ongoing
    <3>2. CASE k \in owed[v]
      BY <1>3, <2>1, <2>2, <2>3, <3>2
    <3>3. CASE k = e.key /\ v = to
      BY <1>3, <2>1, <2>3, <3>3
    <3> QED
      BY <3>1, <3>2, <3>3
  <2>4. CASE e.type = "Release"
    <3>1. first = gui.first /\ to = first
      BY <1>3, <2>4
    <3>2. k \in owed[v] /\ (v = to => k /= e.key)
      BY <1>5, <1>11, <2>4 DEF Ongoing
    <3> QED
      BY <2>2, <3>1, <3>2
  <2>5. CASE e.type = "Short"
    <3>1. first = gui.first
      BY <1>3, <2>5
    <3>2. k \in owed[v]
      BY <1>5, <1>11, <2>5 DEF Ongoing
    <3> QED
      BY <2>2, <2>5, <3>1, <3>2
  <2> QED
    BY <1>2, <2>3, <2>4, <2>5
<1>12. ReleaseIsKept'
  BY <1>1, <1>4, <1>11 DEF ReleaseIsKept
<1>13. QueueInv'
  <2> SUFFICES ASSUME odd' = {} PROVE QueueInv'
    BY DEF QueueInv
  <2>0. "app" \in ViewPort /\ odd = {}
    BY <1>4, NamesAre
  <2>1. \A k : Coming(k) => Coming(k)'
    <3> SUFFICES ASSUME NEW k, Coming(k) PROVE Coming(k)'
      OBVIOUS
    <3>1. PICK h \in owed["app"] : Turned(h) = k
      BY <1>1 DEF Coming
    <3>2. Turned(h)' = Turned(h)
      BY <1>1 DEF Turned
    <3>3. CASE h \in owed'["app"]
      BY <3>1, <3>2, <3>3 DEF Coming
    <3>4. CASE h \notin owed'["app"]
      <4>1. to = "app" /\ e.type = "Release" /\ e.key = h
        BY <1>2, <1>5, <2>0, <3>4 DEF Ongoing
      <4> QED
        BY <1>4, <3>1, <3>2, <4>1 DEF Coming
    <3> QED
      BY <3>3, <3>4
  <2>2. gui'.pc = "put" /\ gui'.event.type = "Press" =>
            \E h \in owed'["app"] : Turned(h)' = gui'.event.key
    <3> SUFFICES ASSUME to = "app", e.type = "Press"
                 PROVE  \E h \in owed'["app"] : Turned(h)' = gui'.event.key
      BY <1>4
    <3>1. e.key \in owed'["app"]
      BY <1>5, <2>0 DEF Ongoing
    <3>2. Turned(e.key)' = gui'.event.key
      BY <1>1, <1>4 DEF Turned
    <3> QED
      BY <3>1, <3>2
  <2> QED
    BY <1>1, <2>0, <2>1, <2>2 DEF Inv, QueueInv, IsEvent
<1> QED
  BY <1>6, <1>8, <1>9, <1>10, <1>12, <1>13 DEF Inv

(* What putting a message into the dispatcher's queue does, and taking one. *)
LEMMA AppendIs ==
    ASSUME Inv, NEW m \in Message, Len(queue) < AppQueueSize, queue' = Append(queue, m)
    PROVE  /\ queue' \in Seq(Message) /\ Len(queue') <= AppQueueSize
           /\ Len(queue) + 1 \in DOMAIN queue' /\ queue'[Len(queue) + 1] = m
           /\ \A i \in DOMAIN queue :
                i \in DOMAIN queue' /\ queue'[i] = queue[i] /\ i < Len(queue) + 1
           /\ \A i \in DOMAIN queue' : i \in DOMAIN queue \/ i = Len(queue) + 1
<1>1. queue \in Seq(Message)
  BY Typed DEF Inv
<1>2. queue' \in Seq(Message) /\ Len(queue') = Len(queue) + 1 /\ Len(queue) \in Nat
  BY <1>1
<1>3. DOMAIN queue = 1..Len(queue) /\ DOMAIN queue' = 1..(Len(queue) + 1)
  BY <1>1, <1>2
<1>4. queue'[Len(queue) + 1] = m /\ \A i \in 1..Len(queue) : queue'[i] = queue[i]
  BY <1>1
<1> QED
  BY <1>2, <1>3, <1>4

LEMMA TailIs ==
    ASSUME Inv, queue /= <<>>, queue' = Tail(queue)
    PROVE  /\ queue' \in Seq(Message) /\ Len(queue') <= AppQueueSize
           /\ 1 \in DOMAIN queue /\ queue[1] = Head(queue) /\ Head(queue) \in Message
           /\ \A i \in DOMAIN queue : i \in Nat /\
                (i /= 1 => i > 1 /\ i - 1 \in DOMAIN queue' /\ queue'[i - 1] = queue[i])
           /\ \A i \in DOMAIN queue' :
                i \in Nat /\ i >= 1 /\ i + 1 \in DOMAIN queue /\ queue'[i] = queue[i + 1]
<1>1. queue \in Seq(Message) /\ Len(queue) <= AppQueueSize
  BY Typed DEF Inv
<1>2. queue' \in Seq(Message) /\ Len(queue') = Len(queue) - 1 /\ Len(queue) \in Nat /\ Len(queue) >= 1
  BY <1>1
<1>3. DOMAIN queue = 1..Len(queue) /\ DOMAIN queue' = 1..(Len(queue) - 1)
  BY <1>1, <1>2
<1>4. \A i \in 1..(Len(queue) - 1) : queue'[i] = queue[i + 1]
  BY <1>1, <1>2
<1>5. queue[1] = Head(queue) /\ Head(queue) \in Message
  BY <1>1
<1>6. ASSUME NEW i \in DOMAIN queue, i /= 1
      PROVE  i > 1 /\ i - 1 \in DOMAIN queue' /\ queue'[i - 1] = queue[i]
  <2>1. i \in Nat /\ i > 1 /\ i - 1 \in 1..(Len(queue) - 1) /\ (i - 1) + 1 = i
    BY <1>2, <1>3, <1>6
  <2> QED
    BY <1>3, <1>4, <2>1
<1> QED
  BY <1>1, <1>2, <1>3, <1>4, <1>5, <1>6

LEMMA PutsKeepsInv ==
    ASSUME Inv, GuiPuts
    PROVE  Inv'
<1>1. /\ gui.pc = "put" /\ Len(queue) < AppQueueSize
      /\ queue' = Append(queue, [what |-> "Input", event |-> gui.event])
      /\ gui' = [gui EXCEPT !.pc = "get", !.event = NoEvent]
      /\ mutex' = None
      /\ UNCHANGED <<held, rpcs, stack, enabled, orientation, hand, mode, app, owed, odd>>
  BY DEF GuiPuts
<1>2. /\ gui \in GuiRecord /\ gui.event \in Event
      /\ gui' \in GuiRecord /\ gui'.pc = "get" /\ gui'.ongoing = gui.ongoing /\ gui'.first = gui.first
  BY <1>1, Typed, NoEventIs DEF Inv, GuiRecord
<1>3. PICK e \in Event : e = gui.event
  BY <1>2
<1>4. PICK m \in Message : m.what = "Input" /\ m.event = e /\ queue' = Append(queue, m)
  BY <1>1, <1>3 DEF Message
<1>5. PICK last :
      /\ queue' \in Seq(Message) /\ Len(queue') <= AppQueueSize
      /\ last \in DOMAIN queue' /\ queue'[last] = m
      /\ \A i \in DOMAIN queue : i \in DOMAIN queue' /\ queue'[i] = queue[i] /\ i < last
      /\ \A i \in DOMAIN queue' : i \in DOMAIN queue \/ i = last
  BY <1>1, <1>4, AppendIs
<1>6. TypeOK'
  BY <1>1, <1>2, <1>5, Typed, TypedNext DEF Inv
<1>7. StackInv' /\ ViewInv' /\ InputToTheLiving' /\ LockdownHolds' /\ PressInv'
  <2>1. app.pc /= "gone"
    BY <1>1 DEF Inv, StackInv, InputToTheLiving
  <2> QED
    BY <1>1, <1>2, <2>1 DEF Inv, StackInv, ViewInv, InputToTheLiving, LockdownHolds, PressInv
<1>8. ReleaseIsKept'
  BY <1>1, <1>2 DEF Inv, ReleaseIsKept
<1>9. QueueInv'
  <2> SUFFICES ASSUME odd = {} PROVE QueueInv'
    BY <1>1 DEF QueueInv
  <2>1. \A k, i : i \in DOMAIN queue => \A t : IsEvent(i, t, k)' <=> IsEvent(i, t, k)
    BY <1>5 DEF IsEvent
  <2>2. \A k : Coming(k) => Coming(k)' \/ IsEvent(last, "Release", k)'
    BY <1>1, <1>3, <1>4, <1>5 DEF Coming, IsEvent, Turned
  <2>3. \A k \in app'.ongoing : Coming(k)' \/ \E i \in DOMAIN queue' : IsEvent(i, "Release", k)'
    BY <1>1, <1>5, <2>1, <2>2 DEF Inv, QueueInv
  <2>4. ASSUME NEW i \in DOMAIN queue', NEW k \in Key, IsEvent(i, "Press", k)'
        PROVE  Coming(k)' \/ \E j \in DOMAIN queue' : i < j /\ IsEvent(j, "Release", k)'
    <3>1. CASE i \in DOMAIN queue
      <4>1. Coming(k) \/ \E j \in DOMAIN queue : i < j /\ IsEvent(j, "Release", k)
        BY <2>1, <2>4, <3>1 DEF Inv, QueueInv
      <4> QED
        BY <1>5, <2>1, <2>2, <3>1, <4>1
    <3>2. CASE i = last
      <4>1. e.type = "Press" /\ e.key = k
        BY <1>4, <1>5, <2>4, <3>2 DEF IsEvent
      <4>2. \E h \in owed["app"] : Turned(h) = k
        BY <1>1, <1>3, <4>1 DEF Inv, QueueInv
      <4>3. Coming(k)'
        BY <1>1, <4>2 DEF Coming, Turned
      <4> QED
        BY <4>3
    <3> QED
      BY <1>5, <3>1, <3>2
  <2> QED
    BY <1>2, <2>3, <2>4 DEF QueueInv
<1> QED
  BY <1>6, <1>7, <1>8, <1>9 DEF Inv

--------------------------------------------------------------------------------
(* The application's thread. *)

(* A step of the application, as long as it runs. *)
LEMMA AppKeepsInv ==
    ASSUME Inv, UNCHANGED <<held, rpcs, gui, stack, hand, mode, owed>>,
           odd' \in SUBSET Odd, odd \subseteq odd',
           mutex' \in {None, "gui", "app"}, gui.pc = "put" => mutex' = "gui",
           enabled' \in BOOLEAN, orientation' \in Orientation, app' \in AppRecord,
           queue' \in Seq(Message), Len(queue') <= AppQueueSize,
           app.pc /= "gone", app'.pc /= "gone", app'.pc = "removeStop" => mutex' = "app", ViewInv',
           app'.first \in app'.views \union {None}, QueueInv'
    PROVE  Inv'
<1>1. TypeOK'
  BY Typed, TypedNext DEF Inv
<1>2. StackInv' /\ InputToTheLiving'
  BY DEF Inv, StackInv, InputToTheLiving
<1>3. PressInv' /\ LockdownHolds' /\ ReleaseIsKept'
  BY DEF Inv, PressInv, LockdownHolds, ReleaseIsKept
<1> QED
  BY <1>1, <1>2, <1>3 DEF Inv

(* The dispatcher counts what it takes from the queue. *)
LEMMA TakenKeepsQueueInv ==
    ASSUME Inv, queue /= <<>>, queue' = Tail(queue), UNCHANGED <<gui, owed, orientation, hand, odd>>,
           app'.ongoing = IF Head(queue).what = "Input" THEN Ongoing(app.ongoing, Head(queue).event)
                                                        ELSE app.ongoing
    PROVE  QueueInv'
<1> SUFFICES ASSUME odd = {} PROVE QueueInv'
  BY DEF QueueInv
<1>1. /\ 1 \in DOMAIN queue /\ queue[1] = Head(queue) /\ Head(queue) \in Message
      /\ \A i \in DOMAIN queue : i \in Nat /\
            (i /= 1 => i > 1 /\ i - 1 \in DOMAIN queue' /\ queue'[i - 1] = queue[i])
      /\ \A i \in DOMAIN queue' :
            i \in Nat /\ i >= 1 /\ i + 1 \in DOMAIN queue /\ queue'[i] = queue[i + 1]
  BY TailIs
<1>2. \A k : (Coming(k)' <=> Coming(k)) /\ Turned(k)' = Turned(k)
  BY DEF Coming, Turned
<1>3. \A i \in DOMAIN queue : i /= 1 => \A t, k : IsEvent(i - 1, t, k)' <=> IsEvent(i, t, k)
  BY <1>1 DEF IsEvent
<1>4. \A i \in DOMAIN queue' : \A t, k : IsEvent(i, t, k)' <=> IsEvent(i + 1, t, k)
  BY <1>1 DEF IsEvent
<1>5. app.ongoing \subseteq Key
  BY Typed DEF Inv, AppRecord
<1>6. ASSUME NEW k \in app'.ongoing
      PROVE  Coming(k) \/ \E i \in DOMAIN queue : i /= 1 /\ IsEvent(i, "Release", k)
  <2>1. CASE Head(queue).what = "Input" /\ Head(queue).event.type = "Press"
             /\ Head(queue).event.key = k
    <3>1. IsEvent(1, "Press", k)
      BY <1>1, <2>1 DEF IsEvent
    <3>2. k \in Key
      BY <1>1, <2>1 DEF Message, Event
    <3> QED
      BY <1>1, <3>1, <3>2 DEF Inv, QueueInv
  <2>2. CASE ~(Head(queue).what = "Input" /\ Head(queue).event.type = "Press"
               /\ Head(queue).event.key = k)
    <3>1. k \in app.ongoing /\ ~IsEvent(1, "Release", k)
      BY <1>1, <1>6, <2>2 DEF Ongoing, IsEvent
    <3> QED
      BY <3>1 DEF Inv, QueueInv
  <2> QED
    BY <2>1, <2>2
<1>7. \A k \in app'.ongoing : Coming(k)' \/ \E i \in DOMAIN queue' : IsEvent(i, "Release", k)'
  BY <1>1, <1>2, <1>3, <1>6
<1>8. ASSUME NEW i \in DOMAIN queue', NEW k \in Key, IsEvent(i, "Press", k)'
      PROVE  Coming(k)' \/ \E j \in DOMAIN queue' : i < j /\ IsEvent(j, "Release", k)'
  <2>1. Coming(k) \/ \E j \in DOMAIN queue : i + 1 < j /\ IsEvent(j, "Release", k)
    BY <1>1, <1>4, <1>8 DEF Inv, QueueInv
  <2>2. ASSUME NEW j \in DOMAIN queue, i + 1 < j, IsEvent(j, "Release", k)
        PROVE  j - 1 \in DOMAIN queue' /\ i < j - 1 /\ IsEvent(j - 1, "Release", k)'
    BY <1>1, <1>3, <2>2
  <2> QED
    BY <1>2, <2>1, <2>2
<1> QED
  BY <1>2, <1>7, <1>8 DEF Inv, QueueInv

(* A Stop is put into the queue. *)
LEMMA StopKeepsQueueInv ==
    ASSUME Inv, Len(queue) < AppQueueSize, queue' = Append(queue, [what |-> "Stop"]),
           UNCHANGED <<gui, owed, orientation, hand, odd>>, app'.ongoing = app.ongoing
    PROVE  QueueInv' /\ queue' \in Seq(Message) /\ Len(queue') <= AppQueueSize
<1>1. PICK m \in Message : m.what = "Stop" /\ queue' = Append(queue, m)
  BY DEF Message
<1>2. PICK last :
      /\ queue' \in Seq(Message) /\ Len(queue') <= AppQueueSize
      /\ queue'[last] = m
      /\ \A i \in DOMAIN queue : i \in DOMAIN queue' /\ queue'[i] = queue[i]
      /\ \A i \in DOMAIN queue' : i \in DOMAIN queue \/ i = last
  BY <1>1, AppendIs
<1>3. \A k : (Coming(k)' <=> Coming(k)) /\ Turned(k)' = Turned(k)
  BY DEF Coming, Turned
<1>4. \A k, i : i \in DOMAIN queue => \A t : IsEvent(i, t, k)' <=> IsEvent(i, t, k)
  BY <1>2 DEF IsEvent
<1>5. \A t, k : ~IsEvent(last, t, k)'
  BY <1>1, <1>2 DEF IsEvent
<1> QED
  BY <1>2, <1>3, <1>4, <1>5 DEF Inv, QueueInv

(* Nothing of the queue or of what is counted changes. *)
LEMMA SameKeepsQueueInv ==
    ASSUME Inv, UNCHANGED <<gui, owed, orientation, hand, queue, odd>>, app'.ongoing = app.ongoing
    PROVE  QueueInv'
<1>1. \A k : (Coming(k)' <=> Coming(k)) /\ Turned(k)' = Turned(k)
  BY DEF Coming, Turned
<1>2. \A i, t, k : IsEvent(i, t, k)' <=> IsEvent(i, t, k)
  BY DEF IsEvent
<1> QED
  BY <1>1, <1>2 DEF Inv, QueueInv

(* The keys are mapped in another way: if none is given another direction that is
   held for the application, nothing changes for what is still to come. *)
LEMMA TurnsKeepsQueueInv ==
    ASSUME Inv, UNCHANGED <<gui, owed, queue>>, Turns(orientation', hand'),
           app'.ongoing \subseteq app.ongoing
    PROVE  odd' \in SUBSET Odd /\ (odd \subseteq odd') /\ QueueInv'
<1>1. odd \in SUBSET Odd
  BY Typed DEF Inv
<1>2. odd' \in SUBSET Odd /\ (odd \subseteq odd')
  BY <1>1 DEF Turns, Odd
<1>3. QueueInv'
  <2> SUFFICES ASSUME odd' = {} PROVE QueueInv'
    BY DEF QueueInv
  <2>1. odd = {} /\ \A h \in owed["app"] : Turned(h)' = Turned(h)
    BY DEF Turns, Turned
  <2>2. \A k : Coming(k)' <=> Coming(k)
    BY <2>1 DEF Coming
  <2>3. \A i, t, k : IsEvent(i, t, k)' <=> IsEvent(i, t, k)
    BY DEF IsEvent
  <2> QED
    BY <2>1, <2>2, <2>3 DEF Inv, QueueInv
<1> QED
  BY <1>2, <1>3

(* What the invariant says of the dispatcher. *)
LEMMA AppIs ==
    ASSUME Inv
    PROVE  /\ app \in AppRecord /\ queue \in Seq(Message) /\ Len(queue) <= AppQueueSize
           /\ app.ongoing \in SUBSET Key /\ app.current \in View \union {None}
           /\ app.first \in app.views \union {None} /\ app.current \in app.views \union {None}
           /\ app.views \in SUBSET View /\ app.arg \in View \union {None}
           /\ mutex \in {None, "gui", "app"} /\ enabled \in BOOLEAN
           /\ orientation \in Orientation /\ hand \in BOOLEAN
           /\ odd \in SUBSET Odd
           /\ (gui.pc = "put" => mutex = "gui") /\ (app.pc = "removeStop" => mutex = "app")
           /\ app.pc \in {"get", "drain", "callback", "stop", "switch"} => app.views = View
           /\ app.pc \in {"remove", "removeStop"} => app.arg \in View
           /\ app.pc = "removeStop" => app.current = None
<1>1. /\ app \in AppRecord /\ enabled \in BOOLEAN /\ odd \in SUBSET Odd
      /\ orientation \in Orientation /\ hand \in BOOLEAN
  BY Typed DEF Inv
<1>2. queue \in Seq(Message) /\ Len(queue) <= AppQueueSize /\ mutex \in {None, "gui", "app"}
  BY Typed DEF Inv
<1> QED
  BY <1>1, <1>2 DEF Inv, AppRecord, ViewInv, StackInv, InputToTheLiving

(* view_dispatcher_handle_input. *)
LEMMA HandleInputIs ==
    ASSUME Inv, app.pc = "get", NEW e \in Event, HandleInput(e)
    PROVE  /\ app' \in AppRecord /\ app'.pc \in {"get", "callback"}
           /\ app'.ongoing = Ongoing(app.ongoing, e)
           /\ app'.first \in {app.first, app.current}
           /\ app'.views = app.views /\ app'.current = app.current /\ app'.arg = app.arg
<1>1. app \in AppRecord /\ app.first \in View \union {None} /\ app.current \in View \union {None}
  BY AppIs DEF AppRecord
<1>2. CASE Complementary(app.ongoing, e)
  <2>1. PICK keys \in SUBSET Key : keys = Ongoing(app.ongoing, e)
    BY AppIs, OngoingIs DEF Event
  <2>2. PICK first \in {app.current, app.first} :
            first = IF keys \ {e.key} = {} /\ e.type = "Press" THEN app.current ELSE app.first
    OBVIOUS
  <2>3. PICK pc \in {"get", "callback"} :
            app' = [app EXCEPT !.ongoing = keys, !.first = first, !.pc = pc]
    BY <1>2, <2>1, <2>2 DEF HandleInput
  <2> QED
    BY <1>1, <2>1, <2>2, <2>3 DEF AppRecord
<1>3. CASE ~Complementary(app.ongoing, e)
  <2>1. app' = app
    BY <1>3 DEF HandleInput
  <2>2. e.type = "Short"
    BY <1>3 DEF Complementary
  <2> QED
    BY <1>1, <2>1, <2>2 DEF Ongoing
<1> QED
  BY <1>2, <1>3

LEMMA RunGetsKeepsInv ==
    ASSUME Inv, RunGets
    PROVE  Inv'
<1>1. /\ app.pc = "get" /\ queue /= <<>> /\ queue' = Tail(queue)
      /\ UNCHANGED <<gui, mutex, enabled, orientation, hand, owed, odd, held, rpcs, stack, mode>>
      /\ \/ Head(queue).what = "Stop" /\ app' = [app EXCEPT !.pc = "drain"]
         \/ Head(queue).what = "Input" /\ HandleInput(Head(queue).event)
  BY DEF RunGets, AppUnchanged
<1>2. Head(queue) \in Message /\ queue' \in Seq(Message) /\ Len(queue') <= AppQueueSize
  BY <1>1, TailIs
<1>3. /\ app' \in AppRecord /\ app'.pc \in {"get", "callback", "drain"}
      /\ app'.first \in {app.first, app.current}
      /\ app'.views = app.views /\ app'.current = app.current /\ app'.arg = app.arg
      /\ app'.ongoing = IF Head(queue).what = "Input" THEN Ongoing(app.ongoing, Head(queue).event)
                                                      ELSE app.ongoing
  <2>1. CASE Head(queue).what = "Stop" /\ app' = [app EXCEPT !.pc = "drain"]
    BY <2>1, AppIs DEF AppRecord
  <2>2. CASE Head(queue).what = "Input" /\ HandleInput(Head(queue).event)
    <3>1. Head(queue).event \in Event
      BY <1>2, <2>2 DEF Message
    <3> QED
      BY <1>1, <2>2, <3>1, HandleInputIs
  <2> QED
    BY <1>1, <2>1, <2>2
<1>4. QueueInv'
  BY <1>1, <1>3, TakenKeepsQueueInv
<1>5. ViewInv' /\ app'.first \in app'.views \union {None}
  BY <1>1, <1>3, AppIs DEF ViewInv
<1> QED
  BY <1>1, <1>2, <1>3, <1>4, <1>5, AppIs, AppKeepsInv

LEMMA RunDrainsKeepsInv ==
    ASSUME Inv, RunDrains
    PROVE  Inv'
<1>1. /\ app.pc = "drain"
      /\ UNCHANGED <<gui, mutex, enabled, orientation, hand, owed, odd, held, rpcs, stack, mode>>
  BY DEF RunDrains, AppUnchanged
<1>2. CASE app' = [app EXCEPT !.pc = "returned"] /\ UNCHANGED queue
  <2>1. /\ app' \in AppRecord /\ app'.pc = "returned" /\ app'.ongoing = app.ongoing
        /\ app'.first = app.first /\ app'.views = app.views /\ app'.current = app.current
    BY <1>2, AppIs DEF AppRecord
  <2>2. ViewInv' /\ app'.first \in app'.views \union {None}
    BY <2>1, AppIs DEF ViewInv
  <2>3. QueueInv'
    BY <1>1, <1>2, <2>1, SameKeepsQueueInv
  <2>4. queue' \in Seq(Message) /\ Len(queue') <= AppQueueSize
    BY <1>2, AppIs
  <2> QED
    BY <1>1, <2>1, <2>2, <2>3, <2>4, AppIs, AppKeepsInv
<1>3. CASE /\ queue /= <<>> /\ queue' = Tail(queue)
           /\ app' = IF Head(queue).what = "Input"
                     THEN [app EXCEPT !.ongoing = Ongoing(app.ongoing, Head(queue).event)] ELSE app
  <2>1. Head(queue) \in Message /\ queue' \in Seq(Message) /\ Len(queue') <= AppQueueSize
    BY <1>3, TailIs
  <2>2. PICK keys \in SUBSET Key :
            keys = IF Head(queue).what = "Input" THEN Ongoing(app.ongoing, Head(queue).event)
                                                 ELSE app.ongoing
    <3>1. CASE Head(queue).what = "Input"
      <4>1. Head(queue).event.key \in Key
        BY <2>1, <3>1 DEF Message, Event
      <4> QED
        BY <3>1, <4>1, AppIs, OngoingIs
    <3> QED
      BY <3>1, AppIs
  <2>3. app' = [app EXCEPT !.ongoing = keys]
    BY <1>3, <2>2, AppIs DEF AppRecord
  <2>4. /\ app' \in AppRecord /\ app'.pc = "drain" /\ app'.ongoing = keys
        /\ app'.first = app.first /\ app'.views = app.views /\ app'.current = app.current
    BY <1>1, <2>3, AppIs DEF AppRecord
  <2>5. QueueInv'
    BY <1>1, <1>3, <2>2, <2>4, TakenKeepsQueueInv
  <2>6. ViewInv' /\ app'.first \in app'.views \union {None}
    BY <1>1, <2>4, AppIs DEF ViewInv
  <2> QED
    BY <1>1, <2>1, <2>4, <2>5, <2>6, AppIs, AppKeepsInv
<1> QED
  BY <1>2, <1>3 DEF RunDrains

LEMMA CallbackKeepsInv ==
    ASSUME Inv, Callback \/ Stops
    PROVE  Inv'
<1>1. CASE Callback
  <2>1. /\ app.pc = "callback"
        /\ UNCHANGED <<gui, mutex, enabled, orientation, hand, queue, owed, odd, held, rpcs, stack, mode>>
    BY <1>1 DEF Callback, AppUnchanged
  <2>2. PICK pc \in {"get", "stop", "switch"}, v \in View \union {None} :
            app' = [app EXCEPT !.pc = pc, !.arg = v]
    <3>1. CASE \E pc \in {"get", "stop"} : app' = [app EXCEPT !.pc = pc]
      <4>1. PICK pc \in {"get", "stop"} : app' = [app EXCEPT !.pc = pc]
        BY <3>1
      <4>2. app' = [app EXCEPT !.pc = pc, !.arg = app.arg]
        BY <4>1, AppIs DEF AppRecord
      <4> QED
        BY <4>2, AppIs
    <3>2. CASE \E v \in View \union {None} : app' = [app EXCEPT !.pc = "switch", !.arg = v]
      BY <3>2
    <3> QED
      BY <1>1, <3>1, <3>2 DEF Callback
  <2>3. /\ app' \in AppRecord /\ app'.pc = pc /\ app'.ongoing = app.ongoing
        /\ app'.first = app.first /\ app'.views = app.views /\ app'.current = app.current
    BY <2>2, AppIs DEF AppRecord
  <2>4. QueueInv'
    BY <2>1, <2>3, SameKeepsQueueInv
  <2>5. ViewInv' /\ app'.first \in app'.views \union {None}
    BY <2>1, <2>2, <2>3, AppIs DEF ViewInv
  <2> QED
    BY <2>1, <2>2, <2>3, <2>4, <2>5, AppIs, AppKeepsInv
<1>2. CASE Stops
  <2>1. /\ app.pc = "stop" /\ Len(queue) < AppQueueSize /\ queue' = Append(queue, [what |-> "Stop"])
        /\ app' = [app EXCEPT !.pc = "get"]
        /\ UNCHANGED <<gui, mutex, enabled, orientation, hand, owed, odd, held, rpcs, stack, mode>>
    BY <1>2 DEF Stops, AppUnchanged
  <2>2. /\ app' \in AppRecord /\ app'.pc = "get" /\ app'.ongoing = app.ongoing
        /\ app'.first = app.first /\ app'.views = app.views /\ app'.current = app.current
    BY <2>1, AppIs DEF AppRecord
  <2>3. QueueInv' /\ queue' \in Seq(Message) /\ Len(queue') <= AppQueueSize
    BY <2>1, <2>2, StopKeepsQueueInv
  <2>4. ViewInv' /\ app'.first \in app'.views \union {None}
    BY <2>1, <2>2, AppIs DEF ViewInv
  <2> QED
    BY <2>1, <2>2, <2>3, <2>4, AppIs, AppKeepsInv
<1> QED
  BY <1>1, <1>2

LEMMA SwitchesKeepsInv ==
    ASSUME Inv, Switches
    PROVE  Inv'
<1>1. /\ app.pc = "switch"
      /\ UNCHANGED <<gui, mutex, queue, owed, held, rpcs, stack, hand, mode>>
  BY DEF Switches, AppUnchanged
<1>2. CASE app.arg /= None
  <2>1. PICK keys \in SUBSET Key :
            /\ orientation' = OrientationOf(app.arg) /\ enabled' = TRUE /\ Turns(orientation', hand)
            /\ keys = IF orientation' = orientation THEN app.ongoing ELSE {}
            /\ app' = [app EXCEPT !.pc = "get", !.current = app.arg, !.arg = None, !.ongoing = keys]
    <3>1. PICK keys \in SUBSET Key : keys = IF orientation' = orientation THEN app.ongoing ELSE {}
      BY AppIs
    <3> QED
      BY <1>2, <3>1 DEF Switches
  <2>2. /\ app' \in AppRecord /\ app'.pc = "get" /\ app'.ongoing = keys
        /\ app'.first = app.first /\ app'.views = app.views /\ app'.current = app.arg
    BY <2>1, AppIs DEF AppRecord
  <2>3. odd' \in SUBSET Odd /\ (odd \subseteq odd') /\ QueueInv'
    <3>1. app'.ongoing \subseteq app.ongoing
      BY <2>1, <2>2
    <3> QED
      BY <1>1, <2>1, <3>1, TurnsKeepsQueueInv
  <2>5. ViewInv' /\ app'.first \in app'.views \union {None}
    BY <1>1, <1>2, <2>2, AppIs DEF ViewInv
  <2>6. enabled' \in BOOLEAN /\ orientation' \in Orientation
    BY <2>1, OrientationIs
  <2>7. queue' \in Seq(Message) /\ Len(queue') <= AppQueueSize /\ mutex' \in {None, "gui", "app"}
    BY <1>1, AppIs
  <2> QED
    BY <1>1, <2>2, <2>3, <2>5, <2>6, <2>7, AppIs, AppKeepsInv
<1>3. CASE app.arg = None
  <2>1. /\ app' = [app EXCEPT !.pc = "stop", !.current = None] /\ enabled' = FALSE
        /\ UNCHANGED <<orientation, odd>>
    BY <1>3 DEF Switches
  <2>2. /\ app' \in AppRecord /\ app'.pc = "stop" /\ app'.ongoing = app.ongoing
        /\ app'.first = app.first /\ app'.views = app.views /\ app'.current = None
    BY <2>1, AppIs DEF AppRecord
  <2>3. QueueInv'
    BY <1>1, <2>1, <2>2, SameKeepsQueueInv
  <2>4. ViewInv' /\ app'.first \in app'.views \union {None}
    BY <1>1, <2>2, AppIs DEF ViewInv
  <2>5. enabled' \in BOOLEAN /\ orientation' \in Orientation /\ odd' \in SUBSET Odd /\ (odd \subseteq odd')
    BY <2>1, AppIs
  <2> QED
    BY <1>1, <2>2, <2>3, <2>4, <2>5, AppIs, AppKeepsInv
<1> QED
  BY <1>2, <1>3

(* view_dispatcher_remove_view. *)
LEMMA WithoutViewIs ==
    ASSUME Inv, NEW v \in View, app' = [WithoutView(v) EXCEPT !.pc = "returned", !.arg = None]
    PROVE  /\ app' \in AppRecord /\ app'.pc = "returned" /\ app'.ongoing = app.ongoing
           /\ app'.views = app.views \ {v} /\ app'.current = app.current
           /\ app'.first \in app'.views \union {None}
<1>1. PICK first \in View \union {None}, views \in SUBSET View :
        /\ first = IF app.first = v THEN None ELSE app.first
        /\ views = app.views \ {v}
  BY AppIs
<1>2. PICK r : r = [app EXCEPT !.views = views, !.first = first]
  OBVIOUS
<1>3. WithoutView(v) = r
  BY <1>1, <1>2 DEF WithoutView
<1>4. app' = [r EXCEPT !.pc = "returned", !.arg = None]
  BY <1>3
<1>5. app \in AppRecord
  BY AppIs
<1>6. /\ r \in AppRecord /\ r.views = views /\ r.first = first /\ r.ongoing = app.ongoing
      /\ r.current = app.current
  BY <1>1, <1>2, <1>5 DEF AppRecord
<1>7. /\ app' \in AppRecord /\ app'.pc = "returned" /\ app'.ongoing = r.ongoing
      /\ app'.views = r.views /\ app'.current = r.current /\ app'.first = r.first
  BY <1>4, <1>6 DEF AppRecord
<1>8. first \in views \union {None}
  BY <1>1, AppIs
<1> QED
  BY <1>1, <1>6, <1>7, <1>8

LEMMA RemovesViewKeepsInv ==
    ASSUME Inv, RemovesView
    PROVE  Inv'
<1>1. /\ app.pc = "remove" /\ mutex = None /\ app.arg \in View /\ gui.pc /= "put"
      /\ UNCHANGED <<gui, orientation, hand, queue, owed, odd, held, rpcs, stack, mode>>
  BY AppIs, NamesAre DEF RemovesView, AppUnchanged
<1>2. CASE /\ app.current /= app.arg /\ UNCHANGED <<mutex, enabled>>
           /\ app' = [WithoutView(app.arg) EXCEPT !.pc = "returned", !.arg = None]
  <2>1. /\ app' \in AppRecord /\ app'.pc = "returned" /\ app'.ongoing = app.ongoing
        /\ app'.views = app.views \ {app.arg} /\ app'.current = app.current
        /\ app'.first \in app'.views \union {None}
    BY <1>1, <1>2, WithoutViewIs
  <2>2. QueueInv'
    BY <1>1, <2>1, SameKeepsQueueInv
  <2>3. ViewInv'
    BY <1>2, <2>1, AppIs DEF ViewInv
  <2> QED
    BY <1>1, <1>2, <2>1, <2>2, <2>3, AppIs, AppKeepsInv
<1>3. CASE /\ app' = [app EXCEPT !.current = None, !.pc = "removeStop"]
           /\ mutex' = "app" /\ enabled' = FALSE
  <2>1. /\ app' \in AppRecord /\ app'.pc = "removeStop" /\ app'.ongoing = app.ongoing
        /\ app'.views = app.views /\ app'.current = None /\ app'.first = app.first
        /\ app'.arg = app.arg
    BY <1>3, AppIs DEF AppRecord
  <2>2. QueueInv'
    BY <1>1, <2>1, SameKeepsQueueInv
  <2>3. ViewInv' /\ app'.first \in app'.views \union {None}
    BY <1>1, <2>1, AppIs DEF ViewInv
  <2>4. enabled' \in BOOLEAN /\ mutex' \in {None, "gui", "app"}
    BY <1>3
  <2> QED
    BY <1>1, <1>3, <2>1, <2>2, <2>3, <2>4, AppIs, AppKeepsInv
<1> QED
  BY <1>2, <1>3 DEF RemovesView

LEMMA RemovedStopKeepsInv ==
    ASSUME Inv, RemovedStop
    PROVE  Inv'
<1>1. /\ app.pc = "removeStop" /\ Len(queue) < AppQueueSize
      /\ queue' = Append(queue, [what |-> "Stop"]) /\ mutex' = None
      /\ app' = [WithoutView(app.arg) EXCEPT !.pc = "returned", !.arg = None]
      /\ UNCHANGED <<gui, enabled, orientation, hand, owed, odd, held, rpcs, stack, mode>>
  BY DEF RemovedStop, AppUnchanged
<1>2. app.arg \in View /\ mutex = "app" /\ gui.pc /= "put" /\ app.current = None
  BY <1>1, AppIs
<1>3. /\ app' \in AppRecord /\ app'.pc = "returned" /\ app'.ongoing = app.ongoing
      /\ app'.current = None /\ app'.first \in app'.views \union {None}
  BY <1>1, <1>2, WithoutViewIs
<1>4. QueueInv' /\ queue' \in Seq(Message) /\ Len(queue') <= AppQueueSize
  BY <1>1, <1>3, StopKeepsQueueInv
<1>5. ViewInv'
  BY <1>3 DEF ViewInv
<1>6. mutex' \in {None, "gui", "app"} /\ enabled' \in BOOLEAN
  BY <1>1, AppIs
<1> QED
  BY <1>1, <1>2, <1>3, <1>4, <1>5, <1>6, AppIs, AppKeepsInv

--------------------------------------------------------------------------------
(* What changes the layer of the view ports. *)

LEMMA LayerIs ==
    ASSUME Inv
    PROVE  /\ stack \in Seq(Fullscreen) /\ DOMAIN stack = 1..Len(stack) /\ Len(stack) \in {0, 1, 2}
           /\ \A i, j \in DOMAIN stack : stack[i] = stack[j] => i = j
<1>1. stack \in Seq(Fullscreen) /\ Len(stack) <= 2
  BY Typed DEF Inv
<1>2. PICK n \in Nat : n = Len(stack) /\ n <= 2
  BY <1>1
<1>3. n \in {0, 1, 2}
  BY <1>2
<1> QED
  BY <1>1, <1>2, <1>3 DEF Inv, StackInv

LEMMA RemoveAtIs ==
    ASSUME NEW S, NEW s \in Seq(S), Len(s) = 2
    PROVE  /\ s[1] \in S /\ s[2] \in S
           /\ RemoveAt(s, 1) = <<s[2]>> /\ RemoveAt(s, 2) = <<s[1]>>
<1>1. s[1] \in S /\ s[2] \in S
  <2>1. 1 \in 1..Len(s) /\ 2 \in 1..Len(s)
    OBVIOUS
  <2>2. \A i \in 1..Len(s) : s[i] \in S
    OBVIOUS
  <2> QED
    BY <2>1, <2>2
<1>2. \A t \in Seq(S) : Len(t) = 1 => t = <<t[1]>>
  OBVIOUS
<1>s. \A i \in {1, 2} : /\ SubSeq(s, i, i) \in Seq(S) /\ Len(SubSeq(s, i, i)) = 1
                        /\ SubSeq(s, i, i)[1] = s[i]
  <2>1. SubSeq(s, 1, 1) \in Seq(S) /\ Len(SubSeq(s, 1, 1)) = 1 /\ SubSeq(s, 1, 1)[1] = s[1]
    OBVIOUS
  <2>2. SubSeq(s, 2, 2) \in Seq(S) /\ Len(SubSeq(s, 2, 2)) = 1 /\ SubSeq(s, 2, 2)[1] = s[2]
    <3>0. \A i \in 2..2 : s[i] \in S
      BY <1>1
    <3>1. SubSeq(s, 2, 2) \in Seq(S)
      BY <3>0
    <3>3. Len(SubSeq(s, 2, 2)) = 1
      OBVIOUS
    <3>2. SubSeq(s, 2, 2)[1] = s[1 + 2 - 1]
      OBVIOUS
    <3> QED
      BY <3>1, <3>2, <3>3
  <2> QED
    BY <2>1, <2>2
<1>e. SubSeq(s, 1, 0) = <<>> /\ SubSeq(s, 3, 2) = <<>>
  OBVIOUS
<1>0. \A t \in Seq(S) : <<>> \o t = t /\ t \o <<>> = t
  OBVIOUS
<1>3. RemoveAt(s, 1) \in Seq(S) /\ Len(RemoveAt(s, 1)) = 1 /\ RemoveAt(s, 1)[1] = s[2]
  <2>1. RemoveAt(s, 1) = SubSeq(s, 1, 0) \o SubSeq(s, 2, 2)
    BY DEF RemoveAt
  <2>2. RemoveAt(s, 1) = SubSeq(s, 2, 2)
    BY <1>s, <1>e, <1>0, <2>1
  <2> QED
    BY <1>s, <2>2
<1>4. RemoveAt(s, 2) \in Seq(S) /\ Len(RemoveAt(s, 2)) = 1 /\ RemoveAt(s, 2)[1] = s[1]
  <2>1. RemoveAt(s, 2) = SubSeq(s, 1, 1) \o SubSeq(s, 3, 2)
    BY DEF RemoveAt
  <2>2. RemoveAt(s, 2) = SubSeq(s, 1, 1)
    BY <1>s, <1>e, <1>0, <2>1
  <2> QED
    BY <1>s, <2>2
<1> QED
  BY <1>1, <1>2, <1>3, <1>4

LEMMA WithoutIs ==
    ASSUME Inv, NEW v \in ToSet(stack)
    PROVE  /\ Len(stack) \in {1, 2} /\ ToSet(Without(v)) = ToSet(stack) \ {v}
           /\ Len(stack) = 1 => Without(v) = <<>>
           /\ Len(stack) = 2 => \E w \in Fullscreen : w /= v /\ Without(v) = <<w>>
<1>1. PICK i \in DOMAIN stack : stack[i] = v /\ Without(v) = RemoveAt(stack, i)
  <2>1. \E i \in DOMAIN stack : stack[i] = v
    BY DEF ToSet
  <2> QED
    BY <2>1 DEF Without
<1>2. CASE Len(stack) = 1
  <2>1. i = 1 /\ ToSet(stack) = {v}
    BY <1>1, <1>2, LayerIs DEF ToSet
  <2>2. SubSeq(stack, 1, 0) = <<>> /\ SubSeq(stack, 2, 1) = <<>>
    BY <1>2, LayerIs
  <2>3. Without(v) = <<>>
    BY <1>1, <1>2, <2>1, <2>2 DEF RemoveAt
  <2> QED
    BY <1>2, <2>1, <2>3 DEF ToSet
<1>3. CASE Len(stack) = 2
  <2>1. PICK j \in {1, 2} : j /= i /\ i \in {1, 2}
    BY <1>1, <1>3, LayerIs
  <2>2. stack[j] /= v /\ stack[j] \in Fullscreen
    BY <1>1, <1>3, <2>1, LayerIs, RemoveAtIs
  <2>3. Without(v) = <<stack[j]>>
    BY <1>1, <1>3, <2>1, LayerIs, RemoveAtIs
  <2>4. ToSet(stack) = {v, stack[j]}
    BY <1>1, <1>3, <2>1, LayerIs DEF ToSet
  <2>5. ToSet(Without(v)) = {stack[j]}
    BY <2>3 DEF ToSet
  <2> QED
    BY <1>3, <2>2, <2>3, <2>4, <2>5
<1>4. Len(stack) /= 0
  BY <1>1, LayerIs
<1> QED
  BY <1>2, <1>3, <1>4, LayerIs

LEMMA ShortIs ==
    ASSUME NEW S, NEW v \in S, NEW w \in S, v /= w,
           NEW s \in {<<>>, <<v>>, <<w>>, <<v, w>>, <<w, v>>}
    PROVE  s \in Seq(S) /\ Len(s) <= 2 /\ \A i, j \in DOMAIN s : s[i] = s[j] => i = j
<1>1. CASE s = <<>>
  BY <1>1
<1>2. ASSUME NEW x \in S, s = <<x>>
      PROVE  s \in Seq(S) /\ Len(s) <= 2 /\ \A i, j \in DOMAIN s : s[i] = s[j] => i = j
  BY <1>2
<1>3. ASSUME NEW x \in S, NEW y \in S, x /= y, s = <<x, y>>
      PROVE  s \in Seq(S) /\ Len(s) <= 2 /\ \A i, j \in DOMAIN s : s[i] = s[j] => i = j
  BY <1>3
<1> QED
  BY <1>1, <1>2, <1>3

LEMMA PairIs ==
    ASSUME NEW S, NEW v \in S, NEW w \in S
    PROVE  Append(<<w>>, v) = <<w, v>> /\ <<v>> \o <<w>> = <<v, w>>
<1>1. <<w>> \in Seq(S) /\ <<v>> \in Seq(S) /\ <<w, v>> \in Seq(S) /\ <<v, w>> \in Seq(S)
  OBVIOUS
<1>2. Append(<<w>>, v) \in Seq(S) /\ Len(Append(<<w>>, v)) = 2
  BY <1>1
<1>3. Append(<<w>>, v)[1] = w /\ Append(<<w>>, v)[2] = v
  BY <1>1
<1>4. <<v>> \o <<w>> \in Seq(S) /\ Len(<<v>> \o <<w>>) = 2
  BY <1>1
<1>5. (<<v>> \o <<w>>)[1] = v /\ (<<v>> \o <<w>>)[2] = w
  BY <1>1
<1>6. \A s, t \in Seq(S) : Len(s) = 2 /\ Len(t) = 2 /\ s[1] = t[1] /\ s[2] = t[2] => s = t
  OBVIOUS
<1> QED
  BY <1>1, <1>2, <1>3, <1>4, <1>5, <1>6

LEMMA AppendedIs ==
    ASSUME Inv, NEW v \in Fullscreen, v \notin ToSet(stack), stack' = Append(stack, v)
    PROVE  /\ stack' \in Seq(Fullscreen) /\ Len(stack') <= 2
           /\ \A i, j \in DOMAIN stack' : stack'[i] = stack'[j] => i = j
           /\ ToSet(stack') = ToSet(stack) \union {v}
<1>1. PICK w \in Fullscreen : w /= v /\ Fullscreen = {v, w}
  BY NamesAre
<1>2. stack = <<>> \/ stack = <<w>>
  <2>1. \A i \in DOMAIN stack : stack[i] = w
    BY <1>1, LayerIs DEF ToSet
  <2>2. Len(stack) \in {0, 1}
    BY <2>1, LayerIs
  <2>3. CASE Len(stack) = 0
    BY <2>3, LayerIs
  <2>4. CASE Len(stack) = 1
    <3>1. stack = <<stack[1]>>
      BY <2>4, LayerIs
    <3> QED
      BY <2>1, <2>4, <3>1, LayerIs
  <2> QED
    BY <2>2, <2>3, <2>4
<1>3. CASE stack = <<>>
  <2>1. stack' = <<v>>
    BY <1>3
  <2> QED
    BY <1>1, <1>3, <2>1, ShortIs DEF ToSet
<1>4. CASE stack = <<w>>
  <2>1. stack' = <<w, v>>
    BY <1>4, PairIs
  <2>2. ToSet(stack') = {w, v} /\ ToSet(stack) = {w}
    BY <1>4, <2>1 DEF ToSet
  <2> QED
    BY <1>1, <2>1, <2>2, ShortIs
<1> QED
  BY <1>2, <1>3, <1>4

(* The view port v is moved or taken away. *)
LEMMA MovedIs ==
    ASSUME Inv, NEW v \in Fullscreen, v \in ToSet(stack),
           stack' \in {Without(v), Append(Without(v), v), <<v>> \o Without(v)}
    PROVE  /\ stack' \in Seq(Fullscreen) /\ Len(stack') <= 2
           /\ \A i, j \in DOMAIN stack' : stack'[i] = stack'[j] => i = j
           /\ stack' = Without(v) => ToSet(stack') = ToSet(stack) \ {v}
           /\ stack' /= Without(v) => ToSet(stack') = ToSet(stack)
<1>1. CASE Len(stack) = 1
  <2>1. PICK w \in Fullscreen : w /= v /\ Fullscreen = {v, w}
    BY NamesAre
  <2>2. Without(v) = <<>> /\ ToSet(stack) = {v}
    BY <1>1, WithoutIs DEF ToSet
  <2>3. stack' = <<>> \/ stack' = <<v>>
    BY <2>2
  <2>4. stack' = <<>> => ToSet(stack') = {}
    BY DEF ToSet
  <2>5. stack' = <<v>> => ToSet(stack') = {v} /\ stack' /= <<>>
    BY DEF ToSet
  <2>6. /\ stack' \in Seq(Fullscreen) /\ Len(stack') <= 2
        /\ \A i, j \in DOMAIN stack' : stack'[i] = stack'[j] => i = j
    <3>1. CASE stack' = <<>>
      BY <2>1, <3>1, ShortIs
    <3>2. CASE stack' = <<v>>
      BY <2>1, <3>2, ShortIs
    <3> QED
      BY <2>3, <3>1, <3>2
  <2> QED
    BY <2>2, <2>3, <2>4, <2>5, <2>6
<1>2. CASE Len(stack) = 2
  <2>1. PICK w \in Fullscreen : w /= v /\ Without(v) = <<w>> /\ Fullscreen = {v, w}
    BY <1>2, WithoutIs, NamesAre
  <2>2. ToSet(Without(v)) = {w} /\ ToSet(stack) = {v, w}
    <3>1. ToSet(Without(v)) = {w}
      BY <2>1 DEF ToSet
    <3> QED
      BY <3>1, WithoutIs
  <2>3. stack' = <<w>> \/ stack' = <<w, v>> \/ stack' = <<v, w>>
    BY <2>1, PairIs
  <2>4. stack' = <<w, v>> \/ stack' = <<v, w>> => ToSet(stack') = {v, w}
    BY DEF ToSet
  <2>5. /\ stack' \in Seq(Fullscreen) /\ Len(stack') <= 2
        /\ \A i, j \in DOMAIN stack' : stack'[i] = stack'[j] => i = j
    <3>1. CASE stack' = <<w>>
      BY <2>1, <3>1, ShortIs
    <3>2. CASE stack' = <<w, v>>
      BY <2>1, <3>2, ShortIs
    <3>3. CASE stack' = <<v, w>>
      BY <2>1, <3>3, ShortIs
    <3> QED
      BY <2>3, <3>1, <3>2, <3>3
  <2>6. <<w>> /= <<w, v>> /\ <<w>> /= <<v, w>>
    <3>1. Len(<<w>>) = 1 /\ Len(<<w, v>>) = 2 /\ Len(<<v, w>>) = 2
      OBVIOUS
    <3> QED
      BY <3>1
  <2> QED
    BY <2>1, <2>2, <2>3, <2>4, <2>5, <2>6
<1> QED
  BY <1>1, <1>2, WithoutIs

LEMMA PopupKeepsInv ==
    ASSUME Inv, Popup
    PROVE  Inv'
<1>1. mutex = None /\ gui.pc /= "put" /\ app.pc /= "removeStop"
      /\ UNCHANGED <<held, rpcs, mutex, enabled, orientation, hand, mode, app, queue, odd>>
  BY AppIs, NamesAre DEF Popup
<1>2. "pop" \in Fullscreen /\ "pop" /= "app" /\ "pop" \in ViewPort /\ "app" \in ViewPort
      /\ "pop" /= None
  BY NamesAre
<1>3. \/ /\ gui' = gui /\ owed' = owed
         /\ ToSet(stack') \in {ToSet(stack), ToSet(stack) \union {"pop"}}
      \/ /\ gui' = [gui EXCEPT !.first = Forgets("pop")]
         /\ owed' = [owed EXCEPT !["pop"] = {}]
         /\ ToSet(stack') = ToSet(stack) \ {"pop"}
  <2>1. CASE "pop" \notin ToSet(stack)
    <3>1. stack' = Append(stack, "pop") /\ UNCHANGED <<gui, owed>>
      BY <2>1 DEF Popup
    <3> QED
      BY <1>2, <2>1, <3>1, AppendedIs
  <2>2. CASE "pop" \in ToSet(stack)
    <3>1. \/ /\ gui' = gui /\ owed' = owed
             /\ stack' \in {Append(Without("pop"), "pop"), <<"pop">> \o Without("pop")}
          \/ /\ stack' = Without("pop")
             /\ gui' = [gui EXCEPT !.first = Forgets("pop")]
             /\ owed' = [owed EXCEPT !["pop"] = {}]
      BY <2>2 DEF Popup
    <3> QED
      BY <1>2, <2>2, <3>1, MovedIs
  <2> QED
    BY <2>1, <2>2
<1>4. /\ stack' \in Seq(Fullscreen) /\ Len(stack') <= 2
      /\ \A i, j \in DOMAIN stack' : stack'[i] = stack'[j] => i = j
  BY <1>2, AppendedIs, MovedIs DEF Popup
<1>5. gui \in GuiRecord /\ owed \in [ViewPort -> SUBSET Key]
      /\ Forgets("pop") \in {gui.first, None} \ {"pop"}
  BY <1>2, Typed DEF Inv, Forgets
<1>6. /\ gui' \in GuiRecord /\ gui'.pc = gui.pc /\ gui'.event = gui.event
      /\ gui'.ongoing = gui.ongoing
      /\ gui'.first = gui.first \/ (gui'.first = None /\ gui.first = "pop")
      /\ gui'.first = gui.first \/ ToSet(stack') = ToSet(stack) \ {"pop"}
      /\ "pop" \notin ToSet(stack') => gui'.first /= "pop"
  <2>2. gui.first = "pop" => "pop" \in ToSet(stack)
    BY <1>2, NamesAre DEF Inv, InputToTheLiving
  <2>3. CASE gui' = gui /\ ToSet(stack') \in {ToSet(stack), ToSet(stack) \union {"pop"}}
    BY <1>5, <2>2, <2>3
  <2>4. CASE gui' = [gui EXCEPT !.first = Forgets("pop")] /\ ToSet(stack') = ToSet(stack) \ {"pop"}
    BY <1>5, <2>4 DEF GuiRecord, Forgets
  <2> QED
    BY <1>3, <2>3, <2>4
<1>7. /\ owed' \in [ViewPort -> SUBSET Key] /\ owed'["app"] = owed["app"]
      /\ \A v \in ViewPort : owed'[v] \subseteq owed[v]
      /\ (owed' = owed /\ gui' = gui) \/ owed'["pop"] = {}
  BY <1>2, <1>3, <1>5
<1>8. TypeOK'
  BY <1>1, <1>4, <1>6, <1>7, Typed, TypedNext DEF Inv
<1>9. StackInv' /\ ViewInv'
  <2>1. "app" \in ToSet(stack') <=> "app" \in ToSet(stack)
    BY <1>2, <1>3
  <2> QED
    BY <1>1, <1>4, <1>6, <2>1 DEF Inv, StackInv, ViewInv
<1>10. InputToTheLiving'
  <2>1. gui'.first \in ToSet(stack') \union {"desk", None}
    BY <1>3, <1>6 DEF Inv, InputToTheLiving
  <2> QED
    BY <1>1, <1>6, <2>1 DEF Inv, InputToTheLiving
<1>11. LockdownHolds' /\ PressInv'
  BY <1>1, <1>6, <1>7 DEF Inv, LockdownHolds, PressInv
<1>12. ReleaseIsKept'
  <2> SUFFICES ASSUME "twice" \notin odd, NEW v \in ViewPort, NEW k \in owed'[v]
               PROVE  /\ gui'.first = v
                      /\ \/ k \in gui'.ongoing
                         \/ gui'.pc = "lock" /\ gui'.event.type = "Release" /\ gui'.event.key = k
    BY <1>1 DEF ReleaseIsKept
  <2>1. /\ gui.first = v
        /\ k \in gui.ongoing \/ (gui.pc = "lock" /\ gui.event.type = "Release" /\ gui.event.key = k)
    BY <1>7 DEF Inv, ReleaseIsKept
  <2>2. gui'.first = gui.first
    BY <1>6, <1>7, <2>1
  <2> QED
    BY <1>6, <2>1, <2>2
<1>13. QueueInv'
  <2>1. \A k : Coming(k)' <=> Coming(k)
    BY <1>1, <1>6, <1>7 DEF Coming, Turned
  <2>2. \A i, t, k : IsEvent(i, t, k)' <=> IsEvent(i, t, k)
    BY <1>1 DEF IsEvent
  <2> QED
    BY <1>1, <1>6, <1>7, <2>1, <2>2 DEF Inv, QueueInv
<1> QED
  BY <1>8, <1>9, <1>10, <1>11, <1>12, <1>13 DEF Inv

LEMMA SetModeKeepsInv ==
    ASSUME Inv, SetMode
    PROVE  Inv'
<1>1. mutex = None /\ gui.pc /= "put"
      /\ UNCHANGED <<held, rpcs, gui, mutex, stack, enabled, orientation, hand, app, queue, owed, odd>>
  BY AppIs, NamesAre DEF SetMode
<1>2. mode' \in ModeRecord
  <2>1. mode \in ModeRecord
    BY Typed DEF Inv
  <2>2. PICK b \in BOOLEAN, c \in BOOLEAN : b = ~mode.lockdown /\ c = ~mode.direct
    OBVIOUS
  <2>3. mode' = [mode EXCEPT !.lockdown = b] \/ mode' = [mode EXCEPT !.direct = c]
    BY <2>2 DEF SetMode
  <2> QED
    BY <2>1, <2>2, <2>3 DEF ModeRecord
<1>3. TypeOK'
  BY <1>1, <1>2, Typed, TypedNext DEF Inv
<1>4. StackInv' /\ ViewInv' /\ InputToTheLiving' /\ LockdownHolds' /\ PressInv'
  BY <1>1 DEF Inv, StackInv, ViewInv, InputToTheLiving, LockdownHolds, PressInv
<1>5. ReleaseIsKept'
  BY <1>1 DEF Inv, ReleaseIsKept
<1>6. QueueInv'
  BY <1>1, SameKeepsQueueInv
<1> QED
  BY <1>3, <1>4, <1>5, <1>6 DEF Inv

LEMMA HandTurnsKeepsInv ==
    ASSUME Inv, HandTurns
    PROVE  Inv'
<1>1. /\ UNCHANGED <<held, rpcs, gui, mutex, stack, enabled, orientation, mode, app, queue, owed>>
      /\ hand' \in BOOLEAN /\ Turns(orientation', hand')
  BY DEF HandTurns
<1>2. odd' \in SUBSET Odd /\ (odd \subseteq odd') /\ QueueInv'
  BY <1>1, TurnsKeepsQueueInv
<1>3. TypeOK'
  BY <1>1, <1>2, Typed, TypedNext DEF Inv
<1>4. StackInv' /\ ViewInv' /\ InputToTheLiving' /\ LockdownHolds' /\ PressInv'
  BY <1>1, <1>2 DEF Inv, StackInv, ViewInv, InputToTheLiving, LockdownHolds, PressInv
<1>5. ReleaseIsKept'
  BY <1>1, <1>2 DEF Inv, ReleaseIsKept
<1> QED
  BY <1>2, <1>3, <1>4, <1>5 DEF Inv

LEMMA StartsKeepsInv ==
    ASSUME Inv, Starts
    PROVE  Inv'
<1>1. /\ app.pc = "gone" /\ mutex = None /\ app' = NewApp /\ stack' = Append(stack, "app")
      /\ enabled' = TRUE /\ gui.pc /= "put"
      /\ UNCHANGED <<held, rpcs, gui, mutex, hand, mode, queue, owed, odd>>
  BY AppIs, NamesAre DEF Starts
<1>2. orientation' \in Orientation
  BY OrientationIs DEF Starts
<1>3. "app" \notin ToSet(stack) /\ queue = <<>> /\ "app" \in Fullscreen
  BY <1>1, NamesAre DEF Inv, StackInv
<1>4. /\ stack' \in Seq(Fullscreen) /\ Len(stack') <= 2
      /\ \A i, j \in DOMAIN stack' : stack'[i] = stack'[j] => i = j
      /\ ToSet(stack') = ToSet(stack) \union {"app"}
  BY <1>1, <1>3, AppendedIs
<1>5. TypeOK'
  <2>1. enabled' \in BOOLEAN /\ app' \in AppRecord
    BY <1>1, NewAppIs
  <2> QED
    BY <1>1, <1>2, <1>4, <2>1, Typed, TypedNext DEF Inv
<1>6. StackInv' /\ ViewInv'
  BY <1>1, <1>4, NewAppIs, NamesAre DEF Inv, StackInv, ViewInv
<1>7. InputToTheLiving'
  BY <1>1, <1>4, NewAppIs DEF Inv, InputToTheLiving
<1>8. LockdownHolds' /\ PressInv' /\ ReleaseIsKept'
  BY <1>1, <1>2 DEF Inv, LockdownHolds, PressInv, ReleaseIsKept
<1>9. QueueInv'
  <2>1. \A i \in DOMAIN queue' : FALSE
    BY <1>1, <1>3
  <2>2. gui'.pc \in {"get", "lock"}
    BY <1>1, Typed DEF Inv, GuiRecord
  <2> QED
    BY <1>1, <1>2, <2>1, <2>2, NewAppIs DEF QueueInv
<1> QED
  BY <1>5, <1>6, <1>7, <1>8, <1>9 DEF Inv

LEMMA TearsDownKeepsInv ==
    ASSUME Inv, TearsDown
    PROVE  Inv'
<1>1. app.pc = "returned" /\ UNCHANGED <<held, rpcs, mutex, enabled, orientation, hand, mode, odd>>
  BY DEF TearsDown
<1>2. ASSUME NEW v \in app.views, app' = [app EXCEPT !.pc = "remove", !.arg = v],
             UNCHANGED <<gui, stack, queue, owed>>
      PROVE  Inv'
  <2>1. v \in View
    BY AppIs
  <2>2. /\ app' \in AppRecord /\ app'.pc = "remove" /\ app'.ongoing = app.ongoing
        /\ app'.first = app.first /\ app'.views = app.views /\ app'.current = app.current
        /\ app'.arg = v
    BY <1>2, <2>1, AppIs DEF AppRecord
  <2>3. QueueInv'
    BY <1>1, <1>2, <2>2, SameKeepsQueueInv
  <2>4. ViewInv' /\ app'.first \in app'.views \union {None}
    BY <1>1, <2>1, <2>2, AppIs DEF ViewInv
  <2> QED
    BY <1>1, <1>2, <2>2, <2>3, <2>4, AppIs, AppKeepsInv
<1>3. ASSUME mutex = None, stack' = Without("app"),
             gui' = [gui EXCEPT !.first = Forgets("app")],
             app' = [app EXCEPT !.pc = "gone", !.ongoing = {}, !.first = None],
             owed' = [owed EXCEPT !["app"] = {}], queue' = <<>>
      PROVE  Inv'
  <2>1. "app" \in ToSet(stack) /\ "app" \in Fullscreen /\ "app" \in ViewPort /\ gui.pc /= "put"
        /\ "app" /= None
    BY <1>1, <1>3, AppIs, NamesAre DEF Inv, StackInv
  <2>2. /\ stack' \in Seq(Fullscreen) /\ Len(stack') <= 2
        /\ \A i, j \in DOMAIN stack' : stack'[i] = stack'[j] => i = j
        /\ ToSet(stack') = ToSet(stack) \ {"app"}
    BY <1>3, <2>1, MovedIs
  <2>3. gui \in GuiRecord /\ owed \in [ViewPort -> SUBSET Key]
        /\ Forgets("app") \in (ViewPort \union {None}) \ {"app"}
    <3>1. gui \in GuiRecord /\ owed \in [ViewPort -> SUBSET Key]
      BY Typed DEF Inv
    <3> QED
      BY <2>1, <3>1 DEF Forgets, GuiRecord
  <2>4. /\ gui' \in GuiRecord /\ gui'.pc = gui.pc /\ gui'.event = gui.event
        /\ gui'.ongoing = gui.ongoing /\ gui'.first = Forgets("app")
    BY <1>3, <2>3 DEF GuiRecord
  <2>5. owed' \in [ViewPort -> SUBSET Key] /\ owed'["app"] = {}
        /\ \A v \in ViewPort : v /= "app" => owed'[v] = owed[v]
    BY <1>3, <2>1, <2>3
  <2>6. /\ app' \in AppRecord /\ app'.pc = "gone" /\ app'.ongoing = {} /\ app'.first = None
        /\ app'.views = app.views /\ app'.current = app.current
    BY <1>3, AppIs DEF AppRecord
  <2>7. queue' \in Seq(Message) /\ Len(queue') <= AppQueueSize /\ DOMAIN queue' = {}
    BY <1>3
  <2>8. TypeOK'
    BY <1>1, <2>2, <2>4, <2>5, <2>6, <2>7, Typed, TypedNext DEF Inv
  <2>9. StackInv' /\ ViewInv'
    BY <1>3, <2>1, <2>2, <2>4, <2>6, AppIs DEF StackInv, ViewInv
  <2>10. InputToTheLiving'
    BY <2>1, <2>2, <2>4, <2>6 DEF Inv, InputToTheLiving, Forgets
  <2>11. LockdownHolds' /\ PressInv'
    BY <1>1, <2>1, <2>4, <2>5 DEF Inv, LockdownHolds, PressInv
  <2>12. ReleaseIsKept'
    BY <1>1, <2>4, <2>5 DEF Inv, ReleaseIsKept, Forgets
  <2>13. QueueInv'
    BY <1>1, <2>1, <2>4, <2>6, <2>7 DEF Inv, QueueInv
  <2> QED
    BY <2>8, <2>9, <2>10, <2>11, <2>12, <2>13 DEF Inv
<1> QED
  BY <1>2, <1>3 DEF TearsDown

--------------------------------------------------------------------------------
(* Every step keeps the invariant. *)

LEMMA StepKeepsInv == Inv /\ [Next]_vars => Inv'
<1> SUFFICES ASSUME Inv, [Next]_vars PROVE Inv'
  OBVIOUS
<1>1. CASE UNCHANGED vars
  <2>1. UNCHANGED <<held, rpcs, gui, mutex, stack, enabled, orientation, hand, mode, app, queue, owed, odd>>
    BY <1>1 DEF vars
  <2>2. TypeOK'
    BY <2>1, Typed, TypedNext DEF Inv
  <2>3. StackInv' /\ ViewInv' /\ InputToTheLiving' /\ LockdownHolds' /\ PressInv'
    BY <2>1 DEF Inv, StackInv, ViewInv, InputToTheLiving, LockdownHolds, PressInv
  <2>4. ReleaseIsKept'
    BY <2>1 DEF Inv, ReleaseIsKept
  <2>5. QueueInv'
    BY <2>1, SameKeepsQueueInv
  <2> QED
    BY <2>2, <2>3, <2>4, <2>5 DEF Inv
<1>2. CASE Frozen
  BY <1>1, <1>2 DEF Frozen
<1>3. CASE GuiStep
  BY <1>3, RoutesKeepsInv, PutsKeepsInv DEF GuiStep
<1>4. CASE AppStep
  BY <1>4, RunGetsKeepsInv, RunDrainsKeepsInv, CallbackKeepsInv, SwitchesKeepsInv,
     RemovesViewKeepsInv, RemovedStopKeepsInv, TearsDownKeepsInv DEF AppStep
<1>5. CASE Starts \/ Popup \/ SetMode \/ HandTurns
  BY <1>5, StartsKeepsInv, PopupKeepsInv, SetModeKeepsInv, HandTurnsKeepsInv
<1>6. CASE RpcSends \/ \E k \in Keys : KeyMoves(k)
  BY <1>6, KeyMovesKeepsInv
<1> QED
  BY <1>1, <1>2, <1>3, <1>4, <1>5, <1>6 DEF Next

LEMMA InvHolds == Spec => []Inv
<1>1. Init => Inv
  BY InitInv
<1>2. Inv /\ [Next]_vars => Inv'
  BY StepKeepsInv
<1> QED
  BY <1>1, <1>2, PTL DEF Spec

--------------------------------------------------------------------------------
(* The theorems. *)

(* Type correctness of the gui, of the dispatcher and of their queues: the layer has
   each view port at most once and the queue is never longer than it is, though the
   application stops itself into it (gui.c, view_port.c, view_dispatcher.c). *)
THEOREM TypeCorrect == Spec => []TypeOK
BY InvHolds, PTL DEF Inv

(* gui_remove_view_port and view_dispatcher_remove_view forget what they remove, so
   that gui_input and view_dispatcher_handle_input give nothing to a view port or a
   view that is no longer there, whatever is held meanwhile. *)
THEOREM InputReachesTheLiving == Spec => []InputToTheLiving
BY InvHolds, PTL DEF Inv

(* gui_input, while the desktop is locked, gives the application no more than the
   Release of a key that went down before: gui_set_lockdown waits for a call of the
   gui that is under way. *)
THEOREM LockdownIsKept == Spec => []LockdownHolds
BY InvHolds, PTL DEF Inv

(* gui_input gives the Release of a key to the view port that got its Press, however
   the keys are mapped meanwhile. *)
THEOREM ReleaseFollowsPress == Spec => []ReleaseIsKept
BY InvHolds, PTL DEF Inv

(* view_dispatcher_run, once stopped, is not left with a key down whose Release will
   never come: it is in the queue behind the Press, or the gui is yet to put it there.
   The keys that were held when "Left Handed" or the orientation of the view turned
   them are left out, as is a key that two pressed at once. *)
THEOREM RunCanReturn == Spec => []ReleaseIsOnItsWay
<1>1. Inv => ReleaseIsOnItsWay
  <2> SUFFICES ASSUME Inv, odd = {}, NEW k \in app.ongoing
               PROVE  \/ \E h \in owed["app"] : MapInput(orientation, hand, h) = k
                      \/ gui.pc = "put" /\ gui.event.type = "Release" /\ gui.event.key = k
                      \/ \E i \in DOMAIN queue : queue[i].what = "Input"
                            /\ queue[i].event.type = "Release" /\ queue[i].event.key = k
    BY DEF ReleaseIsOnItsWay
  <2>1. Coming(k) \/ \E i \in DOMAIN queue : IsEvent(i, "Release", k)
    BY DEF Inv, QueueInv
  <2> QED
    BY <2>1 DEF Coming, IsEvent, Turned
<1> QED
  BY <1>1, InvHolds, PTL
================================================================================
