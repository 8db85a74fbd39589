--------------------------------- MODULE Loader ---------------------------------
(***************************************************************************)
(* The loader, applications/services/loader/loader.c: a thread that runs    *)
(* one application at a time and serves, from a queue of one message, the   *)
(* threads that start applications, lock the loader against them or open    *)
(* the menu. The menu, the application browser and the application itself   *)
(* are threads of their own, which report their end through that queue.     *)
(* Before an application is loaded the loader waits, inside the pubsub, for *)
(* the desktop to put its animation away; before and after, it waits for    *)
(* room in the queue of events of the desktop, whose thread is itself a     *)
(* client of the loader.                                                    *)
(***************************************************************************)
EXTENDS Naturals, Sequences

CONSTANTS
    DesktopCalls,  \* what the desktop's thread asks of the loader
    DesktopQueueSize,  \* the places of a view dispatcher's queue
    CliLocks,      \* whether commands that must run alone are given to the cli
    RpcNames, MenuNames, DesktopNames  \* what is started from where

ASSUME DesktopAssumption == DesktopCalls \subseteq {"IsLocked", "ShowMenu", "Detached"}
ASSUME DesktopQueueAssumption == DesktopQueueSize \in Nat \ {0}
ASSUME CliAssumption == CliLocks \in BOOLEAN

QueueSize == 1

(* The threads that put messages; three of them are started by the loader. *)
Started == {"menu", "apps", "app"}
Thread  == Started \union {"rpc", "cli", "desktop"}

(* An application of the firmware, a file on the card, the browser ("Apps"), and
   a name that is none of these. *)
Name == {"internal", "external", "browser", "unknown"}

(* The messages whose sender waits on an api_lock, and the last of a thread. *)
Sync    == {"Start", "Lock", "IsLocked"}
Closing == {"MenuClosed", "ApplicationsClosed", "AppClosed"}
Type    == Sync \union Closing \union {"Detached", "ShowMenu", "Unlock"}

ASSUME NameAssumption ==
    RpcNames \subseteq Name /\ MenuNames \subseteq Name /\ DesktopNames \subseteq Name

(* What the desktop's thread is told: the two events of the loader, the auto lock,
   an input of the user, and a DesktopMainEvent, which it sends to itself. *)
Event == {"Before", "After", "AutoLock", "Input", "Main"}

VARIABLES
    queue,    \* Loader.queue
    call,     \* for each thread, its call of the loader's API
    loader,   \* what the loader's thread does, and the message it handles
    thread,   \* Loader.app.thread: NULL, LOADER_MAGIC_THREAD_VALUE or a thread
    life,     \* the threads the loader has started
    command,  \* the cli executes a command that must run alone
    browser,  \* the browser: what it does, its subscription, its thread flag
    desktop,  \* the desktop's events, its animation and animation_lock, and
              \* whether its thread waits to send an event to itself
    fault     \* a crash: of a check, or of a read through the magic value

vars == <<queue, call, loader, thread, life, command, browser, desktop, fault>>

NoCall == [pc |-> "none", type |-> "Start", name |-> "unknown", result |-> "Ok"]
NoMessage == [type |-> "Unlock", name |-> "unknown", from |-> "cli"]

NoBrowser == [pc |-> "select", subscribed |-> FALSE, flag |-> FALSE]

(* loader_alloc, and the desktop once it has subscribed. *)
Init ==
    /\ queue = <<>>
    /\ call = [t \in Thread |-> NoCall]
    /\ loader = [pc |-> "get", msg |-> NoMessage]
    /\ thread = "none"
    /\ life = [t \in Started |-> "none"]
    /\ command = FALSE
    /\ browser = NoBrowser
    /\ desktop = [events |-> <<>>, stalled |-> FALSE, go |-> FALSE, sends |-> FALSE]
    /\ fault = "none"

--------------------------------------------------------------------------------
(* The clients' side: a message is built, put when there is room, and answered. *)

Ask(t, type, n) ==
    /\ call[t].pc = "none"
    /\ call' = [call EXCEPT ![t] = [NoCall EXCEPT !.pc = "put", !.type = type, !.name = n]]

Put(t) ==
    /\ call[t].pc = "put"
    /\ Len(queue) < QueueSize
    /\ queue' = Append(queue, [type |-> call[t].type, name |-> call[t].name, from |-> t])
    /\ call' = [call EXCEPT ![t] = CASE @.type \in Sync    -> [@ EXCEPT !.pc = "wait"]
                                      [] @.type \in Closing -> [@ EXCEPT !.pc = "left"]
                                      [] OTHER             -> NoCall]
    /\ UNCHANGED <<loader, thread, life, command, browser, desktop, fault>>

RpcAsks ==
    /\ \/ \E n \in RpcNames : Ask("rpc", "Start", n)
       \/ Ask("rpc", "IsLocked", "unknown")
    /\ UNCHANGED <<queue, loader, thread, life, command, browser, desktop, fault>>

(* cli_execute_command: the command runs between loader_lock and loader_unlock. *)
CliAsks ==
    /\ CliLocks
    /\ \/ ~command /\ Ask("cli", "Lock", "unknown")
       \/ command /\ Ask("cli", "Unlock", "unknown")
    /\ command' = FALSE
    /\ UNCHANGED <<queue, loader, thread, life, browser, desktop, fault>>

(* The menu starts what its user picks and stays; left, it runs closed_cb. *)
MenuAsks ==
    /\ life["menu"] = "alive"
    /\ \/ \E n \in MenuNames : Ask("menu", "Start", n)
       \/ Ask("menu", "MenuClosed", "unknown")
    /\ UNCHANGED <<queue, loader, thread, life, command, browser, desktop, fault>>

(* The application returns: its thread is Stopped and tells the loader. *)
AppReturns ==
    /\ life["app"] = "alive"
    /\ Ask("app", "AppClosed", "unknown")
    /\ UNCHANGED <<queue, loader, thread, life, command, browser, desktop, fault>>

(* closed_cb or the state callback has returned: the task is deleted. *)
ThreadEnds(t) ==
    /\ call[t].pc = "left"
    /\ life[t] = "alive"
    /\ life' = [life EXCEPT ![t] = "ended"]
    /\ UNCHANGED <<queue, call, loader, thread, command, browser, desktop, fault>>

--------------------------------------------------------------------------------
(* The desktop. Its view dispatcher takes events from a queue; who sends one, the
   loader, the gui, the timer task or the desktop's own thread, waits for room. *)

DesktopRoom == Len(desktop.events) < DesktopQueueSize
Send(e) == DesktopRoom /\ desktop' = [desktop EXCEPT !.events = Append(@, e)]

(* The gui hands over an input, and the auto lock timer fires: neither looks at
   what the loader does. The desktop stops the timer before an application is
   loaded, but one that is unlocked meanwhile starts it again. *)
DesktopInput ==
    /\ \/ Send("Input")
       \/ "IsLocked" \in DesktopCalls /\ Send("AutoLock")
    /\ UNCHANGED <<queue, call, loader, thread, life, command, browser, fault>>

Taken == [desktop EXCEPT !.events = Tail(@)]

(* desktop_custom_event_callback. ApplicationLoadFailed and ApplicationStopped
   both reach it as After, and the animation asserts that it was put away. *)
DesktopGlobalEvent ==
    /\ \/ /\ Head(desktop.events) = "Before"
          /\ desktop' = [Taken EXCEPT !.stalled = TRUE, !.go = TRUE]
          /\ UNCHANGED <<call, fault>>
       \/ /\ Head(desktop.events) = "After"
          /\ desktop' = [Taken EXCEPT !.stalled = FALSE]
          /\ fault' = IF desktop.stalled THEN fault ELSE "check"
          /\ UNCHANGED call
       \/ /\ Head(desktop.events) = "AutoLock"
          /\ Ask("desktop", "IsLocked", "unknown")
          /\ desktop' = Taken
          /\ UNCHANGED fault

DesktopAsks(type, n) ==
    /\ type \in DesktopCalls
    /\ Ask("desktop", type, n)
    /\ desktop' = Taken

(* A key: nothing, an application started by desktop_run_keybind, or an event of
   its own that the thread is about to send to itself. *)
DesktopKey ==
    /\ Head(desktop.events) = "Input"
    /\ \/ desktop' = Taken /\ UNCHANGED call
       \/ \E n \in DesktopNames : DesktopAsks("Detached", n)
       \/ desktop' = [Taken EXCEPT !.sends = TRUE] /\ UNCHANGED call

(* desktop_scene_main_on_event: the menu, an application, or neither. *)
DesktopMainEvent ==
    /\ Head(desktop.events) = "Main"
    /\ \/ desktop' = Taken /\ UNCHANGED call
       \/ \E n \in DesktopNames : DesktopAsks("Detached", n)
       \/ DesktopAsks("ShowMenu", "unknown")

DesktopHandles ==
    /\ call["desktop"].pc = "none" /\ ~desktop.sends
    /\ desktop.events /= <<>>
    /\ DesktopGlobalEvent \/ ((DesktopKey \/ DesktopMainEvent) /\ UNCHANGED fault)
    /\ UNCHANGED <<queue, loader, thread, life, command, browser>>

DesktopSends ==
    /\ desktop.sends /\ DesktopRoom
    /\ desktop' = [desktop EXCEPT !.events = Append(@, "Main"), !.sends = FALSE]
    /\ UNCHANGED <<queue, call, loader, thread, life, command, browser, fault>>

--------------------------------------------------------------------------------
(* The browser. The mutex of the loader's pubsub is held while the subscribers are
   told, and the publisher may wait: for room among the desktop's events, and after
   BeforeLoad for the desktop itself. *)

Publishing == loader.pc \in {"publish", "failed", "stopped"}
MutexFree  == ~Publishing /\ loader.pc /= "before"

(* loader_applications_start_app: the stop of the application is awaited through
   a flag that the callback sets for any application that stops. *)
BrowserSelectsFault ==  \* the subscription is forgotten
    /\ life["apps"] = "alive" /\ browser.pc = "select"
    /\ Ask("apps", "Start", "external")
    /\ browser' = [browser EXCEPT !.pc = "start"]
    /\ UNCHANGED <<queue, loader, thread, life, command, desktop, fault>>

BrowserSelects ==
    /\ life["apps"] = "alive" /\ browser.pc = "select"
    /\ MutexFree
    /\ Ask("apps", "Start", "external")
    /\ browser' = [browser EXCEPT !.pc = "start", !.subscribed = TRUE]
    /\ UNCHANGED <<queue, loader, thread, life, command, desktop, fault>>

BrowserStarted ==
    /\ browser.pc = "start" /\ call["apps"].pc = "none"
    /\ browser' = [browser EXCEPT !.pc = IF call["apps"].result = "Ok" THEN "wait" ELSE "leave"]
    /\ call' = [call EXCEPT !["apps"] = NoCall]
    /\ UNCHANGED <<queue, loader, thread, life, command, desktop, fault>>

BrowserWakes ==
    /\ browser.pc = "wait" /\ browser.flag
    /\ browser' = [browser EXCEPT !.pc = "leave", !.flag = FALSE]
    /\ UNCHANGED <<queue, call, loader, thread, life, command, desktop, fault>>

BrowserUnsubscribes ==
    /\ browser.pc = "leave"
    /\ MutexFree
    /\ browser' = [browser EXCEPT !.pc = "select", !.subscribed = FALSE]
    /\ UNCHANGED <<queue, call, loader, thread, life, command, desktop, fault>>

BrowserCloses ==
    /\ life["apps"] = "alive" /\ browser.pc = "select"
    /\ Ask("apps", "ApplicationsClosed", "unknown")
    /\ UNCHANGED <<queue, loader, thread, life, command, browser, desktop, fault>>

BrowserStep == BrowserStarted \/ BrowserWakes \/ BrowserUnsubscribes

--------------------------------------------------------------------------------
(* loader_srv. *)

msg == Head(queue)

(* The head of the queue is taken and handled in one step. *)
Handles(type) == loader.pc = "get" /\ queue /= <<>> /\ msg.type = type

(* The result of m is stored and its api_lock unlocked; nobody waits for a
   detached start. *)
Answer(m, result) ==
    call' = IF m.type \in Sync
            THEN [call EXCEPT ![m.from] =
                     [NoCall EXCEPT !.result = IF m.from = "apps" THEN result ELSE @]]
            ELSE call

IsLockedFault == thread = "app"  \* the lock is not an application
IsLocked == thread /= "none"

HandleIsLocked ==
    /\ Handles("IsLocked")
    /\ Answer(msg, "Ok")
    /\ queue' = Tail(queue)
    /\ UNCHANGED <<loader, thread, life, command, browser, desktop, fault>>

LockGrantedFault == TRUE  \* whatever runs
LockGranted == thread = "none"

HandleLock ==
    /\ Handles("Lock")
    /\ thread' = IF LockGranted THEN "locked" ELSE thread
    /\ command' = LockGranted
    /\ Answer(msg, IF LockGranted THEN "Ok" ELSE "AppStarted")
    /\ queue' = Tail(queue)
    /\ UNCHANGED <<loader, life, browser, desktop, fault>>

HandleUnlock ==
    /\ Handles("Unlock")
    /\ thread' = "none"
    /\ fault' = IF thread = "locked" THEN fault ELSE "check"
    /\ queue' = Tail(queue)
    /\ UNCHANGED <<call, loader, life, command, browser, desktop>>

(* A menu that is still there is not shown again, though it may be closing. *)
HandleShowMenu ==
    /\ Handles("ShowMenu")
    /\ life' = IF life["menu"] = "none" THEN [life EXCEPT !["menu"] = "alive"] ELSE life
    /\ queue' = Tail(queue)
    /\ UNCHANGED <<call, loader, thread, command, browser, desktop, fault>>

(* loader_do_start_by_name, up to the event that precedes a load. Refusing a
   start names the thread that runs, read through the magic value if the loader
   is locked. *)
HandleStart ==
    /\ loader.pc = "get" /\ queue /= <<>> /\ msg.type \in {"Start", "Detached"}
    /\ queue' = Tail(queue)
    /\ \/ /\ IsLocked
          /\ fault' = IF thread = "locked" THEN "bus" ELSE fault
          /\ Answer(msg, "AppStarted")
          /\ UNCHANGED <<loader, life>>
       \/ /\ ~IsLocked
          /\ \/ /\ msg.name \in {"internal", "external"}
                /\ loader' = [pc |-> "publish", msg |-> msg]
                /\ UNCHANGED <<call, life>>
             \/ /\ msg.name = "browser"
                /\ life' = IF life["apps"] = "none" THEN [life EXCEPT !["apps"] = "alive"]
                                                    ELSE life
                /\ Answer(msg, "Ok")
                /\ UNCHANGED loader
             \/ /\ msg.name = "unknown"
                /\ Answer(msg, "UnknownApp")
                /\ UNCHANGED <<loader, life>>
          /\ UNCHANGED fault
    /\ UNCHANGED <<thread, command, browser, desktop>>

(* ApplicationBeforeLoad reaches the desktop's queue. *)
PublishBefore ==
    /\ loader.pc = "publish"
    /\ Send("Before")
    /\ loader' = [loader EXCEPT !.pc = "before"]
    /\ UNCHANGED <<queue, call, thread, life, command, browser, fault>>

(* The desktop has unlocked animation_lock, and the publisher goes on. *)
BeforeLoadDone ==
    /\ loader.pc = "before" /\ desktop.go
    /\ loader' = [loader EXCEPT !.pc = "load"]
    /\ desktop' = [desktop EXCEPT !.go = FALSE]
    /\ UNCHANGED <<queue, call, thread, life, command, browser, fault>>

(* loader_start_internal_app, or loader_start_external_app when all goes well. *)
LoadSucceeds ==
    /\ loader.pc = "load"
    /\ thread' = "app"
    /\ life' = [life EXCEPT !["app"] = "alive"]
    /\ Answer(loader.msg, "Ok")
    /\ loader' = [pc |-> "get", msg |-> NoMessage]
    /\ UNCHANGED <<queue, command, browser, desktop, fault>>

(* The file does not load, or its user does not want the mismatch of versions. *)
LoadFailsFault ==  \* ApplicationLoadFailed is forgotten
    /\ loader.pc = "load" /\ loader.msg.name = "external"
    /\ \E status \in {"Internal", "AppStarted"} : Answer(loader.msg, status)
    /\ loader' = [pc |-> "get", msg |-> NoMessage]
    /\ UNCHANGED <<queue, thread, life, command, browser, desktop, fault>>

LoadFails ==
    /\ loader.pc = "load" /\ loader.msg.name = "external"
    /\ loader' = [loader EXCEPT !.pc = "failed"]
    /\ UNCHANGED <<queue, call, thread, life, command, browser, desktop, fault>>

(* ApplicationLoadFailed or ApplicationStopped reaches the desktop's queue; the
   caller of a failed start is answered after that. *)
PublishAfterFault ==  \* the api_lock of a failed start stays locked
    /\ loader.pc \in {"failed", "stopped"}
    /\ Send("After")
    /\ loader' = [pc |-> "get", msg |-> NoMessage]
    /\ UNCHANGED <<queue, call, thread, life, command, browser, fault>>

PublishAfter ==
    /\ \/ /\ loader.pc = "failed"
          /\ \E status \in {"Internal", "AppStarted"} : Answer(loader.msg, status)
       \/ loader.pc = "stopped" /\ UNCHANGED call
    /\ Send("After")
    /\ loader' = [pc |-> "get", msg |-> NoMessage]
    /\ UNCHANGED <<queue, thread, life, command, browser, fault>>

(* A thread has reported its end: it is joined, and for an application the
   subscribers are told, the one that came last, the browser, first. *)
HandleClosed ==
    /\ loader.pc = "get" /\ queue /= <<>> /\ msg.type \in Closing
    /\ loader' = [pc |-> "join", msg |-> msg]
    /\ queue' = Tail(queue)
    /\ fault' = IF msg.type = "AppClosed" /\ thread /= "app" THEN "check" ELSE fault
    /\ UNCHANGED <<call, thread, life, command, browser, desktop>>

JoinThread ==
    /\ loader.pc = "join"
    /\ LET t == loader.msg.from
       IN  /\ life[t] = "ended"
           /\ life' = [life EXCEPT ![t] = "none"]
           /\ call' = [call EXCEPT ![t] = NoCall]
           /\ loader' = [pc |-> IF t = "app" THEN "stopped" ELSE "get", msg |-> NoMessage]
           /\ \/ /\ t = "app"
                 /\ thread' = "none"
                 /\ browser' = [browser EXCEPT !.flag = @ \/ browser.subscribed]
              \/ t = "apps" /\ browser' = NoBrowser /\ UNCHANGED thread
              \/ t = "menu" /\ UNCHANGED <<thread, browser>>
    /\ UNCHANGED <<queue, command, desktop, fault>>

LoaderStep ==
    \/ HandleIsLocked \/ HandleLock \/ HandleUnlock \/ HandleShowMenu \/ HandleStart
    \/ PublishBefore \/ BeforeLoadDone \/ LoadSucceeds \/ LoadFails \/ PublishAfter
    \/ HandleClosed \/ JoinThread

Running ==
    \/ LoaderStep
    \/ DesktopInput \/ DesktopHandles \/ DesktopSends
    \/ RpcAsks \/ CliAsks \/ MenuAsks \/ AppReturns
    \/ BrowserSelects \/ BrowserCloses \/ BrowserStep
    \/ \E t \in Thread : Put(t)
    \/ \E t \in Started : ThreadEnds(t)

(* The desktop's thread waits for room in the queue that only it empties. *)
SelfWait == desktop.sends /\ ~DesktopRoom

(* The loader waits for the desktop, to put its animation away or to take an event,
   and the desktop for the loader, or for itself. *)
CircularWait ==
    /\ \/ loader.pc = "before" /\ ~desktop.go
       \/ Publishing /\ ~DesktopRoom
    /\ \/ call["desktop"].pc = "wait"
       \/ call["desktop"].pc = "put" /\ Len(queue) = QueueSize
       \/ SelfWait

(* Who waits so stays where it is. After a crash the device starts again from Init:
   nothing more is to be seen. *)
Halt == (CircularWait \/ SelfWait \/ fault /= "none") /\ UNCHANGED vars

Next == Halt \/ (fault = "none" /\ Running)

Spec == Init /\ [][Next]_vars

(* The desktop's thread, and the threads that have reported their end. *)
DesktopStep == DesktopHandles \/ DesktopSends \/ Put("desktop")
EndStep     == \E t \in Started : ThreadEnds(t)

(* The services' threads and a thread that only has to end run when they can, and
   what the desktop puts into the loader's queue, or the loader into the desktop's,
   is put at last when there is room again and again (FreeRTOS serves the tasks of
   one priority that wait for room in turn). No user has to act, no application has
   to return, and no other thread is promised its turn at a queue. *)
FairSpec ==
    /\ Spec
    /\ SF_vars(fault = "none" /\ LoaderStep)
    /\ SF_vars(fault = "none" /\ DesktopStep)
    /\ WF_vars(fault = "none" /\ EndStep)

--------------------------------------------------------------------------------
(* Properties. *)

(* The types of Loader, of its messages and of the threads around it. *)
TypeOK ==
    /\ queue \in Seq([type : Type, name : Name, from : Thread]) /\ Len(queue) <= QueueSize
    /\ call \in [Thread -> [pc : {"none", "put", "wait", "left"}, type : Type, name : Name,
                            result : {"Ok", "AppStarted", "UnknownApp", "Internal"}]]
    /\ loader \in [pc : {"get", "publish", "before", "load", "failed", "join", "stopped"},
                   msg : [type : Type, name : Name, from : Thread]]
    /\ thread \in {"none", "locked", "app"}
    /\ life \in [Started -> {"none", "alive", "ended"}]
    /\ command \in BOOLEAN
    /\ browser \in [pc : {"select", "start", "wait", "leave"}, subscribed : BOOLEAN,
                    flag : BOOLEAN]
    /\ desktop \in [events : Seq(Event), stalled : BOOLEAN, go : BOOLEAN, sends : BOOLEAN]
    /\ Len(desktop.events) <= DesktopQueueSize
    /\ fault \in {"none", "check", "bus"}

(* "Ensure that we running alone" (cli.c:175): while the cli executes such a
   command no application is alive, whatever was started, refused or closing
   when it locked the loader. *)
CommandRunsAlone == command => thread = "locked" /\ life["app"] = "none"

(* No check of the loader or of the animation fails: the loader is unlocked only
   when it is locked, an end is reported only of the application that runs, and
   the desktop is told that an application is over only when its animation is
   put away, once for each time that it was. *)
NoCheckFails == fault /= "check"

(* The browser never sleeps through the end of what it started: as long as it
   waits, an application runs or its flag is set. *)
BrowserHearsTheStop == browser.pc = "wait" => browser.flag \/ thread = "app"

(* A message that has been put is answered, unless the loader waits for a desktop
   that waits for the loader or for itself (CircularWait), or the device crashes:
   nothing else, no thread that is closing, no lock, no full queue and no
   application, holds up a caller for ever. *)
CallsReturn ==
    call["rpc"].pc = "wait" ~> call["rpc"].pc /= "wait" \/ CircularWait \/ fault /= "none"

(* The desktop gets its animation back once no application is there or on its
   way, unless the loader and the desktop wait for each other or the desktop for
   room in its own queue. *)
AnimationComesBack ==
    desktop.stalled /\ thread = "none"
    ~> ~desktop.stalled \/ thread = "app" \/ CircularWait \/ SelfWait \/ fault /= "none"
================================================================================
