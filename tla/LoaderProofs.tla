------------------------------ MODULE LoaderProofs ------------------------------
(***************************************************************************)
(* Proofs about the loader (Loader.tla), whatever is started from where and *)
(* whatever the desktop asks for.                                           *)
(***************************************************************************)
EXTENDS Loader, TLAPS

USE DesktopAssumption, DesktopQueueAssumption, CliAssumption, NameAssumption

Message == [type : Type, name : Name, from : Thread]
CallRecord == [pc : {"none", "put", "wait", "left"}, type : Type, name : Name,
               result : {"Ok", "AppStarted", "UnknownApp", "Internal"}]

LoaderRecord == [pc : {"get", "publish", "before", "load", "failed", "join", "stopped"},
                 msg : Message]
DesktopRecord == [events : Seq(Event), stalled : BOOLEAN, go : BOOLEAN, sends : BOOLEAN]
BrowserRecord == [pc : {"select", "start", "wait", "leave"}, subscribed : BOOLEAN, flag : BOOLEAN]

Queued == queue /= <<>>

(* What each thread asks of the loader. *)
Asks(t, type) ==
    \/ t = "rpc"     /\ type \in {"Start", "IsLocked"}
    \/ t = "cli"     /\ type \in {"Lock", "Unlock"}
    \/ t = "menu"    /\ type \in {"Start", "MenuClosed"}
    \/ t = "apps"    /\ type \in {"Start", "ApplicationsClosed"}
    \/ t = "app"     /\ type = "AppClosed"
    \/ t = "desktop" /\ type \in {"IsLocked", "ShowMenu", "Detached"}

KindInv ==
    /\ \A t \in Thread : call[t].pc /= "none" => Asks(t, call[t].type)
    /\ Queued => Asks(msg.from, msg.type)
    /\ loader.pc /= "get" => Asks(loader.msg.from, loader.msg.type)
    /\ call["apps"].pc /= "none" /\ call["apps"].type = "Start" => call["apps"].name = "external"
    /\ Queued /\ msg.from = "apps" /\ msg.type = "Start" => msg.name = "external"

(* The lock is the cli's: its command runs, or its unlock is about to be put, or is
   in the queue, and of these one at a time. An application that is being started
   finds app.thread free. *)
LockInv ==
    /\ loader.pc \in {"publish", "before", "load", "failed", "stopped"} => thread = "none"
    /\ thread = "app" <=> life["app"] /= "none"
    /\ command => thread = "locked"
    /\ call["cli"].pc = "put" /\ call["cli"].type = "Unlock" =>
        thread = "locked" /\ ~command /\ ~(Queued /\ msg.type = "Unlock")
    /\ Queued /\ msg.type = "Unlock" => thread = "locked" /\ ~command

(* An application reports its end once, and is joined after that. *)
CloseInv ==
    /\ call["app"].pc /= "none" => call["app"].pc \in {"put", "left"} /\ life["app"] /= "none"
    /\ loader.pc = "join" /\ loader.msg.from = "app" => call["app"].pc = "left"
    /\ Queued /\ msg.from = "app" =>
        call["app"].pc = "left" /\ ~(loader.pc = "join" /\ loader.msg.from = "app")

(* Among the events of the desktop there is one end at most and one begin at most,
   in this order; the begin is there as long as the loader waits for it, and from
   then until the end is published the animation is put away. *)
Occurs(e) == \E i \in DOMAIN desktop.events : desktop.events[i] = e
DeskInv ==
    /\ \A i, j \in DOMAIN desktop.events :
        /\ desktop.events[i] = "Before" /\ desktop.events[j] = "Before" => i = j
        /\ desktop.events[i] = "After" /\ desktop.events[j] = "After" => i = j
        /\ desktop.events[i] = "After" /\ desktop.events[j] = "Before" => i < j
    /\ Occurs("Before") => loader.pc = "before" /\ ~desktop.go
    /\ Occurs("After") => desktop.stalled
    /\ desktop.go => loader.pc = "before"
    /\ desktop.go \/ loader.pc \in {"load", "failed", "stopped"} \/ thread = "app" =>
        desktop.stalled /\ ~Occurs("After")

(* The browser is subscribed from before its start until it wakes. *)
BrowserInv ==
    /\ browser.pc \in {"start", "wait"} => browser.subscribed
    /\ browser.pc = "start" /\ call["apps"].pc = "none" /\ call["apps"].result = "Ok" =>
        browser.flag \/ thread = "app"
    /\ BrowserHearsTheStop

Inv == TypeOK /\ KindInv /\ LockInv /\ CloseInv /\ DeskInv /\ BrowserInv /\ NoCheckFails

--------------------------------------------------------------------------------
(* What the helpers of the model do. *)

Results == {"Ok", "AppStarted", "UnknownApp", "Internal"}

LEMMA NoCallIs ==
    /\ NoCall \in CallRecord /\ NoCall.pc = "none"
    /\ NoMessage \in Message
    /\ \A r \in Results : /\ [NoCall EXCEPT !.result = r] \in CallRecord
                          /\ [NoCall EXCEPT !.result = r].pc = "none"
                          /\ [NoCall EXCEPT !.result = r].result = r
BY DEF NoCall, NoMessage, CallRecord, Message, Type, Sync, Closing, Name, Thread, Started, Results

(* The queue has no message or one. *)
LEMMA QueueIs ==
    ASSUME TypeOK, Queued
    PROVE  msg \in Message /\ Tail(queue) = <<>>
<1>1. queue \in Seq(Message) /\ Len(queue) <= 1
  BY DEF TypeOK, QueueSize, Message
<1> QED
  BY <1>1 DEF msg, Queued

LEMMA PutQueueIs ==
    ASSUME TypeOK, Len(queue) < QueueSize, NEW m \in Message, queue' = Append(queue, m)
    PROVE  ~Queued /\ queue' \in Seq(Message) /\ Len(queue') <= QueueSize /\ Queued' /\ msg' = m
<1>1. queue \in Seq(Message) /\ Len(queue) < 1
  BY DEF TypeOK, QueueSize, Message
<1>2. queue = <<>>
  BY <1>1
<1>3. queue' = <<m>>
  BY <1>2
<1> QED
  BY <1>2, <1>3 DEF msg, Queued, QueueSize

LEMMA AskIs ==
    ASSUME TypeOK, NEW t \in Thread, NEW type \in Type, NEW n \in Name, Ask(t, type, n)
    PROVE  /\ call[t].pc = "none"
           /\ call' \in [Thread -> CallRecord]
           /\ call'[t].pc = "put" /\ call'[t].type = type /\ call'[t].name = n
           /\ \A u \in Thread \ {t} : call'[u] = call[u]
<1> DEFINE r == [NoCall EXCEPT !.pc = "put", !.type = type, !.name = n]
<1>1. r \in CallRecord /\ r.pc = "put" /\ r.type = type /\ r.name = n
  BY DEF NoCall, CallRecord
<1>2. call \in [Thread -> CallRecord] /\ call[t].pc = "none" /\ call' = [call EXCEPT ![t] = r]
  BY DEF Ask, TypeOK, CallRecord
<1> HIDE DEF r
<1> QED
  BY <1>1, <1>2

LEMMA AnswerIs ==
    ASSUME TypeOK, NEW m \in Message, NEW result \in Results, Answer(m, result)
    PROVE  /\ call' \in [Thread -> CallRecord]
           /\ \A u \in Thread : u /= m.from => call'[u] = call[u]
           /\ m.type \notin Sync => call' = call
           /\ m.type \in Sync => call'[m.from].pc = "none"
           /\ m.type \in Sync /\ m.from = "apps" => call'["apps"].result = result
<1>0. call \in [Thread -> CallRecord] /\ m.from \in Thread
  BY DEF TypeOK, CallRecord, Message
<1>1. CASE m.type \notin Sync
  BY <1>0, <1>1 DEF Answer
<1>2. CASE m.type \in Sync
  <2> DEFINE r == [NoCall EXCEPT !.result = IF m.from = "apps" THEN result ELSE @]
  <2>1. r \in CallRecord /\ r.pc = "none" /\ (m.from = "apps" => r.result = result)
    BY DEF NoCall, CallRecord, Results, Type, Sync, Name
  <2>2. call' = [call EXCEPT ![m.from] = r]
    BY <1>2 DEF Answer
  <2> HIDE DEF r
  <2> QED
    BY <1>0, <1>2, <2>1, <2>2
<1> QED
  BY <1>1, <1>2

LEMMA PutIs ==
    ASSUME TypeOK, NEW t \in Thread, Put(t)
    PROVE  /\ ~Queued /\ queue' \in Seq(Message) /\ Len(queue') <= QueueSize
           /\ Queued' /\ msg'.type = call[t].type /\ msg'.name = call[t].name /\ msg'.from = t
           /\ call[t].pc = "put"
           /\ call' \in [Thread -> CallRecord]
           /\ \A u \in Thread \ {t} : call'[u] = call[u]
           /\ call[t].type \in Sync => call'[t].pc = "wait"
           /\ call[t].type \in Closing => call'[t].pc = "left"
           /\ call[t].type \in Sync \union Closing =>
                call'[t].type = call[t].type /\ call'[t].name = call[t].name
           /\ call[t].type \notin Sync \union Closing => call'[t] = NoCall
<1> DEFINE m == [type |-> call[t].type, name |-> call[t].name, from |-> t]
<1>1. call \in [Thread -> CallRecord] /\ call[t] \in CallRecord
  BY DEF TypeOK, CallRecord
<1>2. m \in Message /\ m.type = call[t].type /\ m.name = call[t].name /\ m.from = t
  BY <1>1 DEF CallRecord, Message
<1>3. Len(queue) < QueueSize /\ queue' = Append(queue, m)
  BY DEF Put
<1> HIDE DEF m
<1>4. ~Queued /\ queue' \in Seq(Message) /\ Len(queue') <= QueueSize /\ Queued' /\ msg' = m
  BY <1>2, <1>3, PutQueueIs
<1> DEFINE r == CASE call[t].type \in Sync -> [call[t] EXCEPT !.pc = "wait"]
                 [] call[t].type \in Closing -> [call[t] EXCEPT !.pc = "left"]
                 [] OTHER -> NoCall
<1>5. call' = [call EXCEPT ![t] = r]
  BY <1>1 DEF Put
<1>6. Sync \intersect Closing = {}
  BY DEF Sync, Closing
<1>7. /\ call[t].type \in Sync => r = [call[t] EXCEPT !.pc = "wait"]
      /\ call[t].type \in Closing => r = [call[t] EXCEPT !.pc = "left"]
      /\ call[t].type \notin Sync \union Closing => r = NoCall
  BY <1>6
<1> HIDE DEF r
<1>8. ASSUME NEW pc \in {"wait", "left"}, r = [call[t] EXCEPT !.pc = pc]
      PROVE  r \in CallRecord /\ r.pc = pc /\ r.type = call[t].type /\ r.name = call[t].name
  BY <1>1, <1>8 DEF CallRecord
<1>9. /\ r \in CallRecord
      /\ call[t].type \in Sync => r.pc = "wait"
      /\ call[t].type \in Closing => r.pc = "left"
      /\ call[t].type \in Sync \union Closing => r.type = call[t].type /\ r.name = call[t].name
  BY <1>7, <1>8, NoCallIs
<1>10. /\ call' \in [Thread -> CallRecord] /\ call'[t] = r
       /\ \A u \in Thread \ {t} : call'[u] = call[u]
  BY <1>1, <1>5, <1>9
<1>11. call[t].pc = "put"
  BY DEF Put
<1> QED
  BY <1>2, <1>4, <1>7, <1>9, <1>10, <1>11

LEMMA EventAdded ==
    ASSUME TypeOK, DesktopRoom, NEW e \in Event,
           desktop'.events = Append(desktop.events, e)
    PROVE  /\ desktop'.events \in Seq(Event) /\ Len(desktop'.events) <= DesktopQueueSize
           /\ DOMAIN desktop'.events = DOMAIN desktop.events \union {Len(desktop.events) + 1}
           /\ \A i \in DOMAIN desktop.events :
                i < Len(desktop.events) + 1 /\ desktop'.events[i] = desktop.events[i]
           /\ desktop'.events[Len(desktop.events) + 1] = e
<1>1. desktop.events \in Seq(Event) /\ Len(desktop.events) < DesktopQueueSize
  BY DEF TypeOK, DesktopRoom
<1> QED
  BY <1>1

LEMMA EventTaken ==
    ASSUME TypeOK, desktop.events /= <<>>, desktop'.events = Tail(desktop.events)
    PROVE  /\ desktop'.events \in Seq(Event) /\ Len(desktop'.events) <= DesktopQueueSize
           /\ 1 \in DOMAIN desktop.events /\ Head(desktop.events) = desktop.events[1]
           /\ \A i \in DOMAIN desktop'.events :
                /\ i \in Nat /\ i >= 1 /\ i + 1 \in DOMAIN desktop.events
                /\ desktop'.events[i] = desktop.events[i + 1]
<1>1. desktop.events \in Seq(Event) /\ Len(desktop.events) <= DesktopQueueSize
  BY DEF TypeOK
<1> QED
  BY <1>1

LEMMA InitInv == Init => Inv
<1> SUFFICES ASSUME Init PROVE Inv
  OBVIOUS
<1>1. TypeOK
  <2>1. call \in [Thread -> CallRecord]
    BY NoCallIs DEF Init
  <2>2. loader \in LoaderRecord
    BY NoCallIs DEF Init, LoaderRecord
  <2>3. queue \in Seq(Message) /\ Len(queue) <= QueueSize
    BY DEF Init, QueueSize
  <2>4. life \in [Started -> {"none", "alive", "ended"}]
    BY DEF Init
  <2>5. desktop \in DesktopRecord /\ Len(desktop.events) <= DesktopQueueSize
    BY DEF Init, DesktopRecord
  <2> QED
    BY <2>1, <2>2, <2>3, <2>4, <2>5
    DEF Init, TypeOK, NoBrowser, CallRecord, Message, LoaderRecord, DesktopRecord
<1>2. \A t \in Thread : call[t].pc = "none"
  BY NoCallIs DEF Init
<1>3. {"cli", "app", "apps"} \subseteq Thread /\ "app" \in Started
  BY DEF Thread, Started
<1>4. KindInv /\ LockInv /\ CloseInv
  BY <1>2, <1>3 DEF Init, KindInv, LockInv, CloseInv, Queued
<1>5. DeskInv
  BY DEF Init, DeskInv, Occurs
<1>6. BrowserInv /\ NoCheckFails
  BY DEF Init, BrowserInv, BrowserHearsTheStop, NoCheckFails, NoBrowser
<1> QED
  BY <1>1, <1>4, <1>5, <1>6 DEF Inv

--------------------------------------------------------------------------------
(* A thread makes a call, and puts its message. *)

LEMMA AskKeepsInv ==
    ASSUME Inv, NEW t \in Thread, NEW type \in Type, NEW n \in Name, Ask(t, type, n),
           Asks(t, type), t = "apps" /\ type = "Start" => n = "external",
           t = "app" => life["app"] /= "none",
           UNCHANGED <<queue, loader, thread, life, desktop, fault>>,
           command' \in BOOLEAN, command' => command,
           t = "cli" /\ type = "Unlock" => command /\ ~command',
           \/ browser' = browser
           \/ /\ t = "apps" /\ browser.pc = "select"
              /\ browser' = [browser EXCEPT !.pc = "start", !.subscribed = TRUE]
    PROVE  Inv'
<1>1. /\ call[t].pc = "none"
      /\ call' \in [Thread -> CallRecord]
      /\ call'[t].pc = "put" /\ call'[t].type = type /\ call'[t].name = n
      /\ \A u \in Thread \ {t} : call'[u] = call[u]
  BY AskIs DEF Inv
<1>0. {"cli", "app", "apps"} \subseteq Thread
  BY DEF Thread, Started
<1>b. /\ browser.pc /= "wait" => browser'.pc /= "wait"
      /\ browser.pc = "wait" => browser' = browser
      /\ browser'.pc = "start" => browser'.subscribed
      /\ t /= "apps" => browser' = browser
      /\ browser' \in BrowserRecord
  <2>1. browser \in BrowserRecord /\ (browser.pc \in {"start", "wait"} => browser.subscribed)
    BY DEF Inv, TypeOK, BrowserInv, BrowserRecord
  <2>2. CASE browser' = browser
    BY <2>1, <2>2
  <2>3. CASE t = "apps" /\ browser.pc = "select"
             /\ browser' = [browser EXCEPT !.pc = "start", !.subscribed = TRUE]
    <3>1. browser' \in BrowserRecord /\ browser'.pc = "start" /\ browser'.subscribed
      BY <2>1, <2>3 DEF BrowserRecord
    <3> QED
      BY <2>3, <3>1
  <2> QED
    BY <2>2, <2>3
<1>2. TypeOK'
  BY <1>1, <1>b DEF Inv, TypeOK, CallRecord, BrowserRecord
<1>3. KindInv'
  BY <1>0, <1>1 DEF Inv, KindInv, Queued, msg
<1>4. LockInv'
  BY <1>0, <1>1 DEF Inv, LockInv, Queued, msg
<1>5. CloseInv'
  BY <1>0, <1>1 DEF Inv, CloseInv, Queued, msg
<1>6. DeskInv' /\ NoCheckFails'
  BY DEF Inv, DeskInv, Occurs, NoCheckFails
<1>7. BrowserInv'
  <2>1. /\ browser'.pc \in {"start", "wait"} => browser'.subscribed
        /\ browser'.pc = "wait" => browser'.flag \/ thread' = "app"
    BY <1>b DEF Inv, BrowserInv, BrowserHearsTheStop
  <2>2. browser'.pc = "start" /\ call'["apps"].pc = "none" => t /= "apps" /\ call'["apps"] = call["apps"]
    BY <1>0, <1>1
  <2> QED
    BY <1>b, <2>1, <2>2 DEF Inv, BrowserInv, BrowserHearsTheStop
<1> QED
  BY <1>2, <1>3, <1>4, <1>5, <1>6, <1>7 DEF Inv

LEMMA PutKeepsInv ==
    ASSUME Inv, NEW t \in Thread, Put(t)
    PROVE  Inv'
<1> USE DEF Sync, Closing
<1>0. {"cli", "app", "apps"} \subseteq Thread
  BY DEF Thread, Started
<1>1. /\ ~Queued /\ queue' \in Seq(Message) /\ Len(queue') <= QueueSize
      /\ Queued' /\ msg'.type = call[t].type /\ msg'.name = call[t].name /\ msg'.from = t
      /\ call[t].pc = "put"
      /\ call' \in [Thread -> CallRecord]
      /\ \A u \in Thread \ {t} : call'[u] = call[u]
      /\ call[t].type \in Sync => call'[t].pc = "wait"
      /\ call[t].type \in Closing => call'[t].pc = "left"
      /\ call[t].type \in Sync \union Closing =>
           call'[t].type = call[t].type /\ call'[t].name = call[t].name
      /\ call[t].type \notin Sync \union Closing => call'[t].pc = "none"
  BY PutIs, NoCallIs DEF Inv
<1>2. UNCHANGED <<loader, thread, life, command, browser, desktop, fault>>
  BY DEF Put
<1>3. Asks(t, call[t].type)
  BY <1>1 DEF Inv, KindInv
<1>4. TypeOK'
  BY <1>1, <1>2 DEF Inv, TypeOK, CallRecord, Message
<1>5. KindInv'
  BY <1>0, <1>1, <1>2, <1>3 DEF Inv, KindInv
<1>6. LockInv'
  BY <1>0, <1>1, <1>2, <1>3 DEF Inv, LockInv, Asks
<1>7. CloseInv'
  BY <1>0, <1>1, <1>2, <1>3 DEF Inv, CloseInv, Asks
<1>8. DeskInv' /\ NoCheckFails'
  BY <1>2 DEF Inv, DeskInv, Occurs, NoCheckFails
<1>9. BrowserInv'
  BY <1>0, <1>1, <1>2, <1>3 DEF Inv, BrowserInv, BrowserHearsTheStop, Asks
<1> QED
  BY <1>4, <1>5, <1>6, <1>7, <1>8, <1>9 DEF Inv

LEMMA ClientsKeepInv ==
    ASSUME Inv,
           \/ RpcAsks \/ CliAsks \/ MenuAsks \/ AppReturns \/ BrowserSelects \/ BrowserCloses
    PROVE  Inv'
<1> USE DEF Asks, Type, Sync, Closing
<1>0. Thread = {"menu", "apps", "app", "rpc", "cli", "desktop"} /\ command \in BOOLEAN
  BY DEF Thread, Started, Inv, TypeOK
<1>n. {"unknown", "external", "browser", "internal"} = Name
  BY DEF Name
<1>1. CASE RpcAsks
  BY <1>0, <1>n, <1>1, AskKeepsInv DEF RpcAsks
<1>2. CASE CliAsks
  BY <1>0, <1>n, <1>2, AskKeepsInv DEF CliAsks
<1>3. CASE MenuAsks
  BY <1>0, <1>n, <1>3, AskKeepsInv DEF MenuAsks
<1>4. CASE AppReturns
  BY <1>0, <1>n, <1>4, AskKeepsInv DEF AppReturns
<1>6. CASE BrowserSelects
  BY <1>0, <1>n, <1>6, AskKeepsInv DEF BrowserSelects
<1>7. CASE BrowserCloses
  BY <1>0, <1>n, <1>7, AskKeepsInv DEF BrowserCloses
<1> QED
  BY <1>1, <1>2, <1>3, <1>4, <1>6, <1>7

(* The browser goes on. *)
LEMMA BrowserKeepsInv ==
    ASSUME Inv, BrowserStep
    PROVE  Inv'
<1>0. {"cli", "app", "apps"} \subseteq Thread
  BY DEF Thread, Started
<1>1. UNCHANGED <<queue, loader, thread, life, command, desktop, fault>>
  BY DEF BrowserStep, BrowserStarted, BrowserWakes, BrowserUnsubscribes
<1>2. /\ call' \in [Thread -> CallRecord]
      /\ \A t \in Thread : call'[t] = call[t] \/ (t = "apps" /\ call'[t].pc = "none")
  <2>1. call \in [Thread -> CallRecord]
    BY DEF Inv, TypeOK, CallRecord
  <2>2. call' = [call EXCEPT !["apps"] = NoCall] \/ UNCHANGED call
    BY DEF BrowserStep, BrowserStarted, BrowserWakes, BrowserUnsubscribes
  <2> QED
    BY <2>1, <2>2, NoCallIs
<1>3. browser' \in BrowserRecord
  <2>1. browser \in BrowserRecord
    BY DEF Inv, TypeOK, BrowserRecord
  <2>2. CASE BrowserStarted
    <3>1. PICK pc \in {"wait", "leave"} : browser' = [browser EXCEPT !.pc = pc]
      BY <2>2 DEF BrowserStarted
    <3> QED
      BY <2>1, <3>1 DEF BrowserRecord
  <2>3. CASE BrowserWakes
    BY <2>1, <2>3 DEF BrowserWakes, BrowserRecord
  <2>4. CASE BrowserUnsubscribes
    BY <2>1, <2>4 DEF BrowserUnsubscribes, BrowserRecord
  <2> QED
    BY <2>2, <2>3, <2>4 DEF BrowserStep
<1>4. TypeOK'
  BY <1>1, <1>2, <1>3 DEF Inv, TypeOK, CallRecord, BrowserRecord
<1>5. KindInv' /\ LockInv' /\ CloseInv'
  BY <1>0, <1>1, <1>2 DEF Inv, KindInv, LockInv, CloseInv, Queued, msg
<1>6. DeskInv' /\ NoCheckFails'
  BY <1>1 DEF Inv, DeskInv, Occurs, NoCheckFails
<1>7. BrowserInv'
  <2> USE DEF Inv, TypeOK, BrowserInv, BrowserHearsTheStop
  <2>1. CASE BrowserStarted
    BY <1>1, <2>1 DEF BrowserStarted
  <2>2. CASE BrowserWakes
    BY <1>1, <2>2 DEF BrowserWakes
  <2>3. CASE BrowserUnsubscribes
    BY <1>1, <2>3 DEF BrowserUnsubscribes
  <2> QED
    BY <2>1, <2>2, <2>3 DEF BrowserStep
<1> QED
  BY <1>4, <1>5, <1>6, <1>7 DEF Inv

(* A thread that has reported its end is deleted. *)
LEMMA EndKeepsInv ==
    ASSUME Inv, NEW t \in Started, ThreadEnds(t)
    PROVE  Inv'
<1>1. /\ life' = [life EXCEPT ![t] = "ended"] /\ life[t] = "alive"
      /\ UNCHANGED <<queue, call, loader, thread, command, browser, desktop, fault>>
  BY DEF ThreadEnds
<1>2. "app" \in Started
  BY DEF Started
<1>3. TypeOK'
  BY <1>1 DEF Inv, TypeOK
<1>4. KindInv' /\ LockInv' /\ CloseInv'
  BY <1>1, <1>2 DEF Inv, TypeOK, KindInv, LockInv, CloseInv, Queued, msg
<1>5. DeskInv' /\ NoCheckFails' /\ BrowserInv'
  BY <1>1 DEF Inv, DeskInv, Occurs, NoCheckFails, BrowserInv, BrowserHearsTheStop
<1> QED
  BY <1>3, <1>4, <1>5 DEF Inv

--------------------------------------------------------------------------------
(* The desktop. *)

(* An event that the loader did not send comes in. *)
LEMMA InputKeepsInv ==
    ASSUME Inv, DesktopInput \/ DesktopSends
    PROVE  Inv'
<1>1. /\ UNCHANGED <<queue, call, loader, thread, life, command, browser, fault>>
      /\ desktop \in DesktopRecord /\ DesktopRoom
  BY DEF DesktopInput, DesktopSends, Send, Inv, TypeOK, DesktopRecord
<1>2. PICK e \in Event \ {"Before", "After"}, sends \in BOOLEAN :
        desktop' = [desktop EXCEPT !.events = Append(desktop.events, e), !.sends = sends]
  <2>1. CASE DesktopInput
    <3>1. PICK e \in Event \ {"Before", "After"} :
            desktop' = [desktop EXCEPT !.events = Append(desktop.events, e)]
      BY <2>1 DEF DesktopInput, Send, Event
    <3>2. desktop' = [desktop EXCEPT !.events = Append(desktop.events, e), !.sends = desktop.sends]
      BY <1>1, <3>1 DEF DesktopRecord
    <3> QED
      BY <1>1, <3>2 DEF DesktopRecord
  <2>2. CASE DesktopSends
    BY <2>2 DEF DesktopSends, Event
  <2> QED
    BY <2>1, <2>2
<1>3. /\ desktop'.events = Append(desktop.events, e)
      /\ desktop'.stalled = desktop.stalled /\ desktop'.go = desktop.go
  BY <1>1, <1>2 DEF DesktopRecord
<1>a. /\ desktop'.events \in Seq(Event) /\ Len(desktop'.events) <= DesktopQueueSize
      /\ DOMAIN desktop'.events = DOMAIN desktop.events \union {Len(desktop.events) + 1}
      /\ \A i \in DOMAIN desktop.events :
           i < Len(desktop.events) + 1 /\ desktop'.events[i] = desktop.events[i]
      /\ desktop'.events[Len(desktop.events) + 1] = e
  BY <1>1, <1>2, <1>3, EventAdded DEF Inv
<1>4. desktop' \in DesktopRecord
  BY <1>1, <1>2, <1>a DEF DesktopRecord
<1>5. TypeOK'
  BY <1>1, <1>4, <1>a DEF Inv, TypeOK, DesktopRecord
<1>6. \A i \in DOMAIN desktop'.events : desktop'.events[i] \in {"Before", "After"} =>
        i \in DOMAIN desktop.events /\ desktop'.events[i] = desktop.events[i]
  BY <1>2, <1>a
<1>7. DeskInv'
  BY <1>1, <1>3, <1>6 DEF Inv, DeskInv, Occurs
<1>8. KindInv' /\ LockInv' /\ CloseInv' /\ NoCheckFails' /\ BrowserInv'
  BY <1>1 DEF Inv, KindInv, LockInv, CloseInv, Queued, msg, NoCheckFails, BrowserInv,
       BrowserHearsTheStop
<1> QED
  BY <1>5, <1>7, <1>8 DEF Inv

LEMMA DesktopKeepsInv ==
    ASSUME Inv, DesktopHandles
    PROVE  Inv'
<1> DEFINE e == Head(desktop.events)
<1>0. {"cli", "app", "apps", "desktop"} \subseteq Thread
  BY DEF Thread, Started
<1>1. /\ desktop.events /= <<>> /\ call["desktop"].pc = "none"
      /\ UNCHANGED <<queue, loader, thread, life, command, browser>>
      /\ desktop \in DesktopRecord
  BY DEF DesktopHandles, Inv, TypeOK, DesktopRecord
<1> DEFINE Asked == \E type \in {"IsLocked", "ShowMenu", "Detached"}, n \in Name :
                        Ask("desktop", type, n)
<1>2. /\ desktop' \in DesktopRecord
      /\ desktop'.events = Tail(desktop.events)
      /\ \/ /\ e = "Before" /\ desktop'.stalled /\ desktop'.go /\ UNCHANGED <<call, fault>>
         \/ /\ e = "After" /\ ~desktop'.stalled /\ desktop'.go = desktop.go /\ UNCHANGED call
            /\ fault' = IF desktop.stalled THEN fault ELSE "check"
         \/ /\ e \notin {"Before", "After"}
            /\ desktop'.stalled = desktop.stalled /\ desktop'.go = desktop.go
            /\ UNCHANGED call \/ Asked
            /\ UNCHANGED fault
  <2>1. Tail(desktop.events) \in Seq(Event)
    BY <1>1 DEF DesktopRecord
  <2>2. Taken \in DesktopRecord /\ Taken.events = Tail(desktop.events)
        /\ Taken.stalled = desktop.stalled /\ Taken.go = desktop.go
    BY <1>1, <2>1 DEF Taken, DesktopRecord
  <2>3. CASE DesktopGlobalEvent /\ e = "Before"
    <3>1. desktop' = [Taken EXCEPT !.stalled = TRUE, !.go = TRUE] /\ UNCHANGED <<call, fault>>
      BY <2>3 DEF DesktopGlobalEvent
    <3> QED
      BY <2>2, <2>3, <3>1 DEF DesktopRecord
  <2>4. CASE DesktopGlobalEvent /\ e = "After"
    <3>1. /\ desktop' = [Taken EXCEPT !.stalled = FALSE]
          /\ UNCHANGED call /\ fault' = IF desktop.stalled THEN fault ELSE "check"
      BY <2>4 DEF DesktopGlobalEvent
    <3> QED
      BY <2>2, <2>4, <3>1 DEF DesktopRecord
  <2>5. CASE DesktopGlobalEvent /\ e = "AutoLock"
    <3>1. desktop' = Taken /\ Ask("desktop", "IsLocked", "unknown") /\ UNCHANGED fault
      BY <2>5 DEF DesktopGlobalEvent
    <3> QED
      BY <2>2, <2>5, <3>1 DEF Name
  <2>6. CASE DesktopKey /\ UNCHANGED fault
    <3>1. e = "Input" /\ desktop' \in {Taken, [Taken EXCEPT !.sends = TRUE]}
          /\ (UNCHANGED call \/ Asked)
      BY <2>6 DEF DesktopKey, DesktopAsks
    <3> QED
      BY <2>2, <2>6, <3>1 DEF DesktopRecord
  <2>7. CASE DesktopMainEvent /\ UNCHANGED fault
    <3>1. e = "Main" /\ desktop' = Taken /\ (UNCHANGED call \/ Asked)
      BY <2>7 DEF DesktopMainEvent, DesktopAsks, Name
    <3> QED
      BY <2>2, <2>7, <3>1
  <2> QED
    BY <2>3, <2>4, <2>5, <2>6, <2>7 DEF DesktopHandles, DesktopGlobalEvent
<1>3. /\ 1 \in DOMAIN desktop.events /\ e = desktop.events[1]
      /\ Len(desktop'.events) <= DesktopQueueSize
      /\ \A i \in DOMAIN desktop'.events :
           /\ i \in Nat /\ i >= 1 /\ i + 1 \in DOMAIN desktop.events
           /\ desktop'.events[i] = desktop.events[i + 1]
  BY <1>1, <1>2, EventTaken DEF Inv
<1> HIDE DEF e
<1>4. /\ call' \in [Thread -> CallRecord]
      /\ \A t \in Thread : call'[t] = call[t] \/
           (t = "desktop" /\ call'[t].type \in {"IsLocked", "ShowMenu", "Detached"})
  <2>1. CASE Asked
    BY <1>0, <2>1, AskIs DEF Inv, Type, Sync
  <2>2. CASE UNCHANGED call
    BY <2>2 DEF Inv, TypeOK, CallRecord
  <2> QED
    BY <1>2, <2>1, <2>2
<1>5. e = "After" => desktop.stalled
  BY <1>3 DEF Inv, DeskInv, Occurs
<1>6. TypeOK' /\ NoCheckFails'
  BY <1>1, <1>2, <1>3, <1>4, <1>5 DEF Inv, TypeOK, CallRecord, NoCheckFails, DesktopRecord
<1>7. KindInv' /\ LockInv' /\ CloseInv' /\ BrowserInv'
  <2>1. KindInv'
    BY <1>0, <1>1, <1>4 DEF Inv, KindInv, Queued, msg, Asks
  <2>2. call'["cli"] = call["cli"] /\ call'["app"] = call["app"] /\ call'["apps"] = call["apps"]
    BY <1>0, <1>4
  <2> QED
    BY <1>1, <2>1, <2>2 DEF Inv, LockInv, CloseInv, Queued, msg, BrowserInv, BrowserHearsTheStop
<1>8. DeskInv'
  <2>1. ASSUME NEW i \in DOMAIN desktop'.events, NEW j \in DOMAIN desktop'.events
        PROVE  /\ desktop'.events[i] = "Before" /\ desktop'.events[j] = "Before" => i = j
               /\ desktop'.events[i] = "After" /\ desktop'.events[j] = "After" => i = j
               /\ desktop'.events[i] = "After" /\ desktop'.events[j] = "Before" => i < j
    <3>1. i \in Nat /\ j \in Nat /\ i + 1 \in DOMAIN desktop.events /\ j + 1 \in DOMAIN desktop.events
      BY <1>3
    <3>2. (i + 1 = j + 1 => i = j) /\ (i + 1 < j + 1 => i < j)
      BY <3>1
    <3> QED
      BY <1>3, <3>1, <3>2 DEF Inv, DeskInv
  <2>2. /\ Occurs("Before")' => Occurs("Before") /\ e /= "Before"
        /\ Occurs("After")' => Occurs("After") /\ e \notin {"After", "Before"}
    BY <1>3 DEF Inv, DeskInv, Occurs
  <2>3. /\ e = "Before" => loader.pc = "before" /\ ~desktop.go
        /\ e = "After" => Occurs("After")
    BY <1>3 DEF Inv, DeskInv, Occurs
  <2>4. /\ Occurs("Before")' => loader'.pc = "before" /\ ~desktop'.go
        /\ Occurs("After")' => desktop'.stalled
        /\ desktop'.go => loader'.pc = "before"
        /\ desktop'.go \/ loader'.pc \in {"load", "failed", "stopped"} \/ thread' = "app" =>
             desktop'.stalled /\ ~Occurs("After")'
    BY <1>1, <1>2, <2>2, <2>3 DEF Inv, DeskInv
  <2> QED
    BY <2>1, <2>4 DEF DeskInv
<1> QED
  BY <1>6, <1>7, <1>8 DEF Inv

--------------------------------------------------------------------------------
(* The loader. A message is taken from the queue, and its sender perhaps answered. *)

Answered(m, result) ==
    /\ call' \in [Thread -> CallRecord]
    /\ \A u \in Thread : u /= m.from => call'[u] = call[u]
    /\ m.type \notin Sync => call' = call
    /\ m.type \in Sync => call'[m.from].pc = "none"
    /\ m.type \in Sync /\ m.from = "apps" => call'["apps"].result = result

(* What an answer leaves of the invariants that speak of the calls. *)
LEMMA AnsweredKeeps ==
    ASSUME Inv, NEW m \in Message, NEW result \in Results, Answered(m, result),
           Asks(m.from, m.type),
           Queued' => queue' = queue
    PROVE  /\ \A t \in Thread : call'[t].pc /= "none" => call'[t] = call[t]
           /\ call'["app"] = call["app"]
           /\ m.from /= "apps" => call'["apps"] = call["apps"]
<1>0. {"cli", "app", "apps"} \subseteq Thread /\ m.from \in Thread
  BY DEF Thread, Started, Message
<1>1. m.from = "app" => m.type \notin Sync
  BY DEF Asks, Sync
<1> QED
  BY <1>0, <1>1 DEF Answered

LEMMA HandledIs ==
    ASSUME Inv, Queued
    PROVE  /\ msg \in Message /\ Tail(queue) = <<>> /\ Asks(msg.from, msg.type)
           /\ msg.from = "apps" /\ msg.type = "Start" => msg.name = "external"
BY QueueIs DEF Inv, KindInv

(* The messages that are answered at once. *)
LEMMA QuickKeepInv ==
    ASSUME Inv, HandleIsLocked \/ HandleLock \/ HandleUnlock \/ HandleShowMenu
    PROVE  Inv'
<1>0. {"cli", "app", "apps", "menu"} \subseteq Thread /\ {"app", "menu"} \subseteq Started
      /\ {"Ok", "AppStarted"} \subseteq Results
  BY DEF Thread, Started, Results
<1>1. /\ Queued /\ loader.pc = "get" /\ queue' = Tail(queue)
      /\ UNCHANGED <<loader, browser, desktop>>
  BY DEF HandleIsLocked, HandleLock, HandleUnlock, HandleShowMenu, Handles, Queued
<1>2. /\ msg \in Message /\ queue' = <<>> /\ ~Queued' /\ Asks(msg.from, msg.type)
      /\ queue' \in Seq(Message) /\ Len(queue') <= QueueSize
  <2>1. msg \in Message /\ queue' = <<>> /\ Asks(msg.from, msg.type)
    BY <1>1, HandledIs
  <2> QED
    BY <2>1 DEF Queued, QueueSize
<1>3. DeskInv' /\ BrowserInv' /\ TypeOK' /\ KindInv' /\ LockInv' /\ CloseInv' /\ NoCheckFails'
  <2>1. ASSUME NEW r \in Results, Answer(msg, r), msg.type /= "Start",
               life' = life, fault' = fault,
               command' \in BOOLEAN,
               \/ thread' = thread /\ (command' => command)
               \/ thread = "none" /\ thread' = "locked"
        PROVE  Inv'
    <3>1. Answered(msg, r)
      BY <1>2, <2>1, AnswerIs DEF Inv, Answered
    <3>2. /\ \A t \in Thread : call'[t].pc /= "none" => call'[t] = call[t]
          /\ call'["app"] = call["app"]
          /\ msg.from /= "apps" => call'["apps"] = call["apps"]
      BY <1>2, <3>1, AnsweredKeeps
    <3>3. call'["apps"] = call["apps"]
      BY <1>0, <1>2, <2>1, <3>1, <3>2 DEF Asks, Sync, Answered
    <3>4. TypeOK'
      BY <1>1, <1>2, <2>1, <3>1 DEF Inv, TypeOK, Answered, Message, CallRecord
    <3>5. KindInv'
      BY <1>0, <1>1, <1>2, <3>2 DEF Inv, KindInv
    <3>6. LockInv'
      <4>1. /\ call'["cli"].pc = "put" => call'["cli"] = call["cli"]
            /\ loader' = loader /\ life' = life /\ ~Queued'
        BY <1>0, <1>1, <1>2, <2>1, <3>2
      <4>2. CASE thread' = thread /\ (command' => command)
        BY <4>1, <4>2 DEF Inv, LockInv
      <4>3. CASE thread = "none" /\ thread' = "locked"
        BY <1>1, <4>1, <4>3 DEF Inv, LockInv
      <4> QED
        BY <2>1, <4>2, <4>3
    <3>7. CloseInv' /\ NoCheckFails'
      BY <1>0, <1>1, <1>2, <2>1, <3>2 DEF Inv, CloseInv, NoCheckFails
    <3>8. DeskInv'
      BY <1>1, <2>1 DEF Inv, DeskInv, Occurs
    <3>9. BrowserInv'
      BY <1>1, <2>1, <3>3 DEF Inv, BrowserInv, BrowserHearsTheStop
    <3> QED
      BY <3>4, <3>5, <3>6, <3>7, <3>8, <3>9 DEF Inv
  <2>2. CASE HandleIsLocked
    <3>1. /\ msg.type = "IsLocked" /\ Answer(msg, "Ok")
          /\ UNCHANGED <<life, fault, thread, command>>
      BY <2>2 DEF HandleIsLocked, Handles
    <3> QED
      BY <1>0, <2>1, <3>1 DEF Inv, TypeOK
  <2>3. CASE HandleLock
    <3>1. /\ msg.type = "Lock" /\ msg.from = "cli"
          /\ thread' = (IF thread = "none" THEN "locked" ELSE thread)
          /\ command' = (thread = "none")
          /\ Answer(msg, IF thread = "none" THEN "Ok" ELSE "AppStarted")
          /\ UNCHANGED <<life, fault>>
      BY <1>2, <2>3 DEF HandleLock, Handles, Asks, LockGranted
    <3>2. CASE thread = "none"
      BY <1>0, <2>1, <3>1, <3>2 DEF Inv
    <3>3. CASE thread /= "none"
      BY <1>0, <2>1, <3>1, <3>3 DEF Inv
    <3> QED
      BY <3>2, <3>3
  <2>4. CASE HandleUnlock
    <3>1. /\ msg.type = "Unlock" /\ thread' = "none" /\ thread = "locked" /\ ~command
          /\ call["cli"].pc = "put" => call["cli"].type /= "Unlock"
          /\ fault' = fault /\ UNCHANGED <<call, life, command>>
      BY <1>1, <2>4 DEF HandleUnlock, Handles, Inv, LockInv, Queued
    <3>2. TypeOK'
      BY <1>1, <1>2, <3>1 DEF Inv, TypeOK, Message
    <3>3. KindInv' /\ LockInv' /\ CloseInv' /\ NoCheckFails'
      BY <1>1, <1>2, <3>1 DEF Inv, KindInv, LockInv, CloseInv, NoCheckFails
    <3>4. DeskInv'
      BY <1>1, <3>1 DEF Inv, DeskInv, Occurs
    <3>5. BrowserInv'
      BY <1>1, <3>1 DEF Inv, BrowserInv, BrowserHearsTheStop
    <3> QED
      BY <3>2, <3>3, <3>4, <3>5
  <2>5. CASE HandleShowMenu
    <3>1. /\ life' \in [Started -> {"none", "alive", "ended"}] /\ life'["app"] = life["app"]
          /\ UNCHANGED <<call, thread, command, fault>>
      BY <1>0, <2>5 DEF HandleShowMenu, Inv, TypeOK
    <3>2. TypeOK'
      BY <1>1, <1>2, <3>1 DEF Inv, TypeOK, Message
    <3>3. KindInv' /\ LockInv' /\ CloseInv' /\ NoCheckFails'
      BY <1>1, <1>2, <3>1 DEF Inv, KindInv, LockInv, CloseInv, NoCheckFails
    <3>4. DeskInv'
      BY <1>1, <3>1 DEF Inv, DeskInv, Occurs
    <3>5. BrowserInv'
      BY <1>1, <3>1 DEF Inv, BrowserInv, BrowserHearsTheStop
    <3> QED
      BY <3>2, <3>3, <3>4, <3>5
  <2> QED
    BY <2>2, <2>3, <2>4, <2>5 DEF Inv
<1> QED
  BY <1>3 DEF Inv

(* A start is refused, is answered at once, or waits for the desktop. *)
LEMMA StartKeepsInv ==
    ASSUME Inv, HandleStart
    PROVE  Inv'
<1>0. {"cli", "app", "apps"} \subseteq Thread /\ {"app", "apps"} \subseteq Started
      /\ {"Ok", "AppStarted", "UnknownApp"} \subseteq Results
  BY DEF Thread, Started, Results
<1>1. /\ Queued /\ loader.pc = "get" /\ queue' = Tail(queue)
      /\ msg.type \in {"Start", "Detached"}
      /\ UNCHANGED <<thread, command, browser>>
  BY DEF HandleStart, Queued
<1>2. /\ msg \in Message /\ queue' = <<>> /\ ~Queued' /\ Asks(msg.from, msg.type)
      /\ queue' \in Seq(Message) /\ Len(queue') <= QueueSize
      /\ msg.from = "apps" => msg.name = "external"
  <2>1. /\ msg \in Message /\ queue' = <<>> /\ Asks(msg.from, msg.type)
        /\ msg.from = "apps" /\ msg.type = "Start" => msg.name = "external"
    BY <1>1, HandledIs
  <2>2. ~Queued' /\ queue' \in Seq(Message) /\ Len(queue') <= QueueSize
    BY <2>1 DEF Queued, QueueSize
  <2>3. msg.from = "apps" => msg.type = "Start"
    BY <1>1, <2>1 DEF Asks
  <2> QED
    BY <2>1, <2>2, <2>3
<1>3. ASSUME NEW r \in Results, Answer(msg, r), r = "Ok" => msg.from /= "apps",
             loader' = loader, desktop' = desktop, fault' \in {fault, "bus"},
             life' \in [Started -> {"none", "alive", "ended"}], life'["app"] = life["app"]
      PROVE  Inv'
  <2>1. Answered(msg, r)
    BY <1>2, <1>3, AnswerIs DEF Inv, Answered
  <2>2. /\ \A t \in Thread : call'[t].pc /= "none" => call'[t] = call[t]
        /\ call'["app"] = call["app"]
        /\ msg.from /= "apps" => call'["apps"] = call["apps"]
    BY <1>2, <2>1, AnsweredKeeps
  <2>3. TypeOK' /\ NoCheckFails'
    BY <1>1, <1>2, <1>3, <2>1 DEF Inv, TypeOK, Answered, Message, CallRecord, NoCheckFails
  <2>4. KindInv' /\ CloseInv'
    BY <1>0, <1>1, <1>2, <1>3, <2>2 DEF Inv, KindInv, CloseInv
  <2>5. LockInv'
    BY <1>0, <1>1, <1>2, <1>3, <2>2 DEF Inv, LockInv
  <2>6. DeskInv'
    BY <1>1, <1>3 DEF Inv, DeskInv, Occurs
  <2>7. BrowserInv'
    <3>1. \/ call'["apps"] = call["apps"]
          \/ call'["apps"].result = r /\ r /= "Ok"
      BY <1>3, <2>1, <2>2 DEF Answered
    <3> QED
      BY <1>1, <1>3, <3>1 DEF Inv, BrowserInv, BrowserHearsTheStop
  <2> QED
    BY <2>3, <2>4, <2>5, <2>6, <2>7 DEF Inv
<1>4. CASE IsLocked
  <2>1. /\ fault' \in {fault, "bus"} /\ Answer(msg, "AppStarted")
        /\ loader' = loader /\ life' = life /\ desktop' = desktop
    BY <1>4 DEF HandleStart
  <2> QED
    BY <1>0, <1>3, <2>1 DEF Inv, TypeOK
<1>5. CASE ~IsLocked /\ msg.name = "browser"
  <2>1. /\ fault' = fault /\ Answer(msg, "Ok") /\ loader' = loader /\ desktop' = desktop
        /\ life' = IF life["apps"] = "none" THEN [life EXCEPT !["apps"] = "alive"] ELSE life
    BY <1>5 DEF HandleStart
  <2>2. life' \in [Started -> {"none", "alive", "ended"}] /\ life'["app"] = life["app"]
    BY <1>0, <2>1 DEF Inv, TypeOK
  <2> QED
    BY <1>0, <1>2, <1>3, <1>5, <2>1, <2>2
<1>6. CASE ~IsLocked /\ msg.name = "unknown"
  <2>1. /\ fault' = fault /\ Answer(msg, "UnknownApp")
        /\ loader' = loader /\ life' = life /\ desktop' = desktop
    BY <1>6 DEF HandleStart
  <2> QED
    BY <1>0, <1>3, <2>1 DEF Inv, TypeOK
<1>7. CASE ~IsLocked /\ msg.name \in {"internal", "external"}
  <2>1. /\ loader' = [pc |-> "publish", msg |-> msg] /\ thread = "none"
        /\ UNCHANGED <<call, life, fault, desktop>>
    BY <1>7 DEF HandleStart, IsLocked
  <2>2. loader' \in LoaderRecord
    BY <1>2, <2>1 DEF LoaderRecord
  <2>3. TypeOK'
    BY <1>1, <1>2, <2>1, <2>2 DEF Inv, TypeOK, Message, LoaderRecord
  <2>4. KindInv' /\ LockInv' /\ CloseInv' /\ NoCheckFails'
    BY <1>1, <1>2, <2>1 DEF Inv, KindInv, LockInv, CloseInv, NoCheckFails
  <2>5. DeskInv' /\ BrowserInv'
    BY <1>1, <2>1 DEF Inv, DeskInv, Occurs, BrowserInv, BrowserHearsTheStop
  <2> QED
    BY <2>3, <2>4, <2>5 DEF Inv
<1> QED
  BY <1>2, <1>4, <1>5, <1>6, <1>7 DEF Message, Name

(* The begin of an application is published. *)
LEMMA BeforeKeepsInv ==
    ASSUME Inv, PublishBefore
    PROVE  Inv'
<1>1. /\ loader.pc = "publish" /\ loader' = [loader EXCEPT !.pc = "before"] /\ DesktopRoom
      /\ desktop' = [desktop EXCEPT !.events = Append(desktop.events, "Before")]
      /\ UNCHANGED <<queue, call, thread, life, command, browser, fault>>
      /\ loader \in LoaderRecord /\ desktop \in DesktopRecord
  BY DEF PublishBefore, Send, Inv, TypeOK, LoaderRecord, DesktopRecord, Message
<1>2. /\ loader' \in LoaderRecord /\ loader'.pc = "before" /\ loader'.msg = loader.msg
      /\ desktop'.events = Append(desktop.events, "Before")
      /\ desktop'.stalled = desktop.stalled /\ desktop'.go = desktop.go
  BY <1>1 DEF LoaderRecord, DesktopRecord
<1>3. /\ desktop'.events \in Seq(Event) /\ Len(desktop'.events) <= DesktopQueueSize
      /\ DOMAIN desktop'.events = DOMAIN desktop.events \union {Len(desktop.events) + 1}
      /\ \A i \in DOMAIN desktop.events :
           i < Len(desktop.events) + 1 /\ desktop'.events[i] = desktop.events[i]
      /\ desktop'.events[Len(desktop.events) + 1] = "Before"
  BY <1>1, <1>2, EventAdded DEF Inv, Event
<1>4. TypeOK'
  <2>1. desktop' \in DesktopRecord
    BY <1>1, <1>3 DEF DesktopRecord
  <2> QED
    BY <1>1, <1>2, <1>3, <2>1 DEF Inv, TypeOK, Message, LoaderRecord, DesktopRecord
<1>5. KindInv' /\ LockInv' /\ CloseInv' /\ NoCheckFails'
  BY <1>1, <1>2 DEF Inv, KindInv, LockInv, CloseInv, NoCheckFails, Queued, msg
<1>6. BrowserInv'
  BY <1>1 DEF Inv, BrowserInv, BrowserHearsTheStop
<1>7. ~desktop.go /\ ~Occurs("Before") /\ thread = "none"
  BY <1>1 DEF Inv, DeskInv, LockInv
<1>8. DeskInv'
  <2>1. \A i \in DOMAIN desktop'.events :
          \/ i = Len(desktop.events) + 1 /\ desktop'.events[i] = "Before"
          \/ /\ i \in DOMAIN desktop.events /\ i < Len(desktop.events) + 1
             /\ desktop'.events[i] = desktop.events[i] /\ desktop.events[i] /= "Before"
    BY <1>3, <1>7 DEF Occurs
  <2>2. Occurs("After")' => Occurs("After")
    BY <2>1 DEF Occurs
  <2>3. ASSUME NEW i \in DOMAIN desktop'.events, NEW j \in DOMAIN desktop'.events
        PROVE  /\ desktop'.events[i] = "Before" /\ desktop'.events[j] = "Before" => i = j
               /\ desktop'.events[i] = "After" /\ desktop'.events[j] = "After" => i = j
               /\ desktop'.events[i] = "After" /\ desktop'.events[j] = "Before" => i < j
    BY <2>1 DEF Inv, DeskInv
  <2>4. /\ Occurs("Before")' => loader'.pc = "before" /\ ~desktop'.go
        /\ Occurs("After")' => desktop'.stalled
        /\ desktop'.go => loader'.pc = "before"
        /\ desktop'.go \/ loader'.pc \in {"load", "failed", "stopped"} \/ thread' = "app" =>
             desktop'.stalled /\ ~Occurs("After")'
    BY <1>1, <1>2, <1>7, <2>2 DEF Inv, DeskInv
  <2> QED
    BY <2>3, <2>4 DEF DeskInv
<1> QED
  BY <1>4, <1>5, <1>6, <1>8 DEF Inv

(* The end of an application, or of its load, is published. *)
LEMMA AfterKeepsDesk ==
    ASSUME Inv, loader.pc \in {"failed", "stopped"}, DesktopRoom,
           loader'.pc = "get", thread' = "none",
           desktop'.events = Append(desktop.events, "After"),
           desktop'.stalled = desktop.stalled, desktop'.go = desktop.go
    PROVE  /\ desktop'.events \in Seq(Event) /\ Len(desktop'.events) <= DesktopQueueSize
           /\ DeskInv'
<1>1. /\ desktop'.events \in Seq(Event) /\ Len(desktop'.events) <= DesktopQueueSize
      /\ DOMAIN desktop'.events = DOMAIN desktop.events \union {Len(desktop.events) + 1}
      /\ \A i \in DOMAIN desktop.events :
           i < Len(desktop.events) + 1 /\ desktop'.events[i] = desktop.events[i]
      /\ desktop'.events[Len(desktop.events) + 1] = "After"
  BY EventAdded DEF Inv, Event
<1>2. ~Occurs("After") /\ ~Occurs("Before") /\ desktop.stalled /\ ~desktop.go
  BY DEF Inv, DeskInv
<1>3. \A i \in DOMAIN desktop'.events :
        /\ desktop'.events[i] /= "Before"
        /\ desktop'.events[i] = "After" => i = Len(desktop.events) + 1
  BY <1>1, <1>2 DEF Occurs
<1>4. ~Occurs("Before")'
  BY <1>3 DEF Occurs
<1> QED
  BY <1>1, <1>2, <1>3, <1>4 DEF DeskInv

(* The desktop has put its animation away, and the application is loaded or not. *)
LEMMA LoadKeepsInv ==
    ASSUME Inv, BeforeLoadDone \/ LoadSucceeds \/ LoadFails \/ PublishAfter
    PROVE  Inv'
<1>0. {"cli", "app", "apps"} \subseteq Thread /\ "app" \in Started
      /\ {"Ok", "AppStarted", "Internal"} \subseteq Results
  BY DEF Thread, Started, Results
<1>1. /\ loader \in LoaderRecord
      /\ desktop \in DesktopRecord
  BY DEF Inv, TypeOK, Message, LoaderRecord, DesktopRecord
<1>2. CASE BeforeLoadDone
  <2>1. /\ loader' = [loader EXCEPT !.pc = "load"] /\ loader.pc = "before" /\ desktop.go
        /\ desktop' = [desktop EXCEPT !.go = FALSE]
        /\ UNCHANGED <<queue, call, thread, life, command, browser, fault>>
    BY <1>2 DEF BeforeLoadDone
  <2>2. /\ loader'.pc = "load" /\ loader'.msg = loader.msg
        /\ desktop'.events = desktop.events /\ desktop'.stalled = desktop.stalled /\ ~desktop'.go
    BY <1>1, <2>1 DEF LoaderRecord, DesktopRecord
  <2>3. TypeOK'
    BY <1>1, <2>1, <2>2 DEF Inv, TypeOK, LoaderRecord, DesktopRecord, Message
  <2>4. KindInv' /\ LockInv' /\ CloseInv' /\ NoCheckFails'
    BY <2>1, <2>2 DEF Inv, KindInv, LockInv, CloseInv, NoCheckFails, Queued, msg
  <2>5. DeskInv' /\ BrowserInv'
    BY <2>1, <2>2 DEF Inv, DeskInv, Occurs, BrowserInv, BrowserHearsTheStop
  <2> QED
    BY <2>3, <2>4, <2>5 DEF Inv
<1>3. ASSUME NEW r \in Results, Answer(loader.msg, r), loader.pc \in {"load", "failed"},
             loader' = [pc |-> "get", msg |-> NoMessage],
             UNCHANGED <<queue, command, browser, fault>>
      PROVE  /\ call' \in [Thread -> CallRecord]
             /\ loader' \in LoaderRecord
             /\ KindInv' /\ NoCheckFails'
             /\ life' = life => CloseInv'
             /\ \A t \in Thread : call'[t].pc /= "none" => call'[t] = call[t]
             /\ call'["app"] = call["app"]
             /\ call'["apps"] = call["apps"] \/ call'["apps"].result = r
  <2>1. loader.msg \in Message /\ Asks(loader.msg.from, loader.msg.type)
    BY <1>1, <1>3 DEF Inv, KindInv, LoaderRecord
  <2>2. Answered(loader.msg, r)
    BY <1>3, <2>1, AnswerIs DEF Inv, Answered
  <2>3. /\ \A t \in Thread : call'[t].pc /= "none" => call'[t] = call[t]
        /\ call'["app"] = call["app"]
        /\ loader.msg.from /= "apps" => call'["apps"] = call["apps"]
    BY <1>3, <2>1, <2>2, AnsweredKeeps
  <2>4. call'["apps"] = call["apps"] \/ call'["apps"].result = r
    BY <2>2, <2>3 DEF Answered
  <2>5. KindInv' /\ NoCheckFails'
    BY <1>0, <1>3, <2>3 DEF Inv, KindInv, NoCheckFails, Queued, msg
  <2>6. life' = life => CloseInv'
    BY <1>0, <1>3, <2>3 DEF Inv, CloseInv, Queued, msg
  <2> QED
    BY <1>3, <2>2, <2>3, <2>4, <2>5, <2>6, NoCallIs DEF Answered, LoaderRecord
<1>4. CASE LoadSucceeds
  <2>1. /\ loader.pc = "load" /\ Answer(loader.msg, "Ok")
        /\ loader' = [pc |-> "get", msg |-> NoMessage]
        /\ UNCHANGED <<queue, command, browser, fault>>
        /\ thread' = "app" /\ life' = [life EXCEPT !["app"] = "alive"] /\ UNCHANGED desktop
        /\ thread = "none"
    BY <1>4 DEF LoadSucceeds, Inv, LockInv
  <2>2. /\ call' \in [Thread -> CallRecord]
        /\ loader' \in LoaderRecord
        /\ KindInv' /\ NoCheckFails'
        /\ \A t \in Thread : call'[t].pc /= "none" => call'[t] = call[t]
        /\ call'["app"] = call["app"]
    BY <1>0, <1>3, <2>1
  <2>3. life' \in [Started -> {"none", "alive", "ended"}] /\ life'["app"] = "alive"
    BY <1>0, <2>1 DEF Inv, TypeOK
  <2>4. TypeOK'
    BY <2>1, <2>2, <2>3 DEF Inv, TypeOK, Message, CallRecord, LoaderRecord
  <2>5. LockInv'
    BY <1>0, <2>1, <2>2, <2>3 DEF Inv, LockInv, Queued, msg
  <2>6. CloseInv'
    BY <1>0, <2>1, <2>2, <2>3 DEF Inv, CloseInv, Queued, msg
  <2>7. DeskInv'
    BY <2>1 DEF Inv, DeskInv, Occurs
  <2>8. BrowserInv'
    BY <2>1 DEF Inv, BrowserInv, BrowserHearsTheStop
  <2> QED
    BY <2>2, <2>4, <2>5, <2>6, <2>7, <2>8 DEF Inv
<1>5. CASE LoadFails
  <2>1. /\ loader.pc = "load" /\ loader' = [loader EXCEPT !.pc = "failed"]
        /\ UNCHANGED <<queue, call, thread, life, command, browser, desktop, fault>>
    BY <1>5 DEF LoadFails
  <2>2. loader' \in LoaderRecord /\ loader'.pc = "failed" /\ loader'.msg = loader.msg
    BY <1>1, <2>1 DEF LoaderRecord
  <2>3. TypeOK'
    BY <2>1, <2>2 DEF Inv, TypeOK, LoaderRecord, Message
  <2>4. KindInv' /\ LockInv' /\ CloseInv' /\ NoCheckFails'
    BY <2>1, <2>2 DEF Inv, KindInv, LockInv, CloseInv, NoCheckFails, Queued, msg
  <2>5. DeskInv' /\ BrowserInv'
    BY <2>1, <2>2 DEF Inv, DeskInv, Occurs, BrowserInv, BrowserHearsTheStop
  <2> QED
    BY <2>3, <2>4, <2>5 DEF Inv
<1>6. CASE PublishAfter
  <2>1. /\ loader.pc \in {"failed", "stopped"} /\ DesktopRoom
        /\ loader' = [pc |-> "get", msg |-> NoMessage]
        /\ desktop' = [desktop EXCEPT !.events = Append(desktop.events, "After")]
        /\ UNCHANGED <<queue, thread, life, command, browser, fault>>
        /\ thread = "none"
    BY <1>6 DEF PublishAfter, Send, Inv, LockInv
  <2>2. /\ call' \in [Thread -> CallRecord] /\ loader' \in LoaderRecord
        /\ KindInv' /\ CloseInv' /\ NoCheckFails'
        /\ \A t \in Thread : call'[t].pc /= "none" => call'[t] = call[t]
        /\ call'["apps"] = call["apps"] \/ call'["apps"].result \in {"Internal", "AppStarted"}
    <3>1. CASE loader.pc = "failed"
      <4>1. PICK r \in {"Internal", "AppStarted"} : Answer(loader.msg, r)
        BY <1>6, <3>1 DEF PublishAfter
      <4> QED
        BY <1>0, <1>3, <2>1, <3>1, <4>1
    <3>2. CASE loader.pc = "stopped"
      <4>1. UNCHANGED call /\ call \in [Thread -> CallRecord]
        BY <1>6, <3>2 DEF PublishAfter, Inv, TypeOK, CallRecord
      <4>2. loader' \in LoaderRecord /\ loader'.pc = "get"
        BY <2>1, NoCallIs DEF LoaderRecord
      <4>3. KindInv' /\ CloseInv' /\ NoCheckFails'
        BY <2>1, <4>1, <4>2 DEF Inv, KindInv, CloseInv, NoCheckFails, Queued, msg
      <4> QED
        BY <4>1, <4>2, <4>3
    <3> QED
      BY <2>1, <3>1, <3>2
  <2>3. /\ desktop'.events = Append(desktop.events, "After")
        /\ desktop'.stalled = desktop.stalled /\ desktop'.go = desktop.go
    BY <1>1, <2>1 DEF DesktopRecord
  <2>4. /\ desktop'.events \in Seq(Event) /\ Len(desktop'.events) <= DesktopQueueSize
        /\ DeskInv'
    BY <2>1, <2>3, AfterKeepsDesk
  <2>5. TypeOK'
    <3>1. desktop' \in DesktopRecord
      BY <1>1, <2>1, <2>4 DEF DesktopRecord
    <3> QED
      BY <2>1, <2>2, <2>4, <3>1
      DEF Inv, TypeOK, Message, CallRecord, LoaderRecord, DesktopRecord
  <2>6. LockInv'
    BY <1>0, <2>1, <2>2 DEF Inv, LockInv, Queued, msg
  <2>7. BrowserInv'
    BY <2>1, <2>2 DEF Inv, BrowserInv, BrowserHearsTheStop
  <2> QED
    BY <2>2, <2>4, <2>5, <2>6, <2>7 DEF Inv
<1> QED
  BY <1>2, <1>4, <1>5, <1>6

(* The end of a thread: its message is taken, and then it is joined. *)
LEMMA ClosedKeepsInv ==
    ASSUME Inv, HandleClosed
    PROVE  Inv'
<1>1. /\ Queued /\ loader.pc = "get" /\ queue' = Tail(queue) /\ msg.type \in Closing
      /\ loader' = [pc |-> "join", msg |-> msg]
      /\ fault' = IF msg.type = "AppClosed" /\ thread /= "app" THEN "check" ELSE fault
      /\ UNCHANGED <<call, thread, life, command, browser, desktop>>
  BY DEF HandleClosed, Queued
<1>2. /\ msg \in Message /\ queue' = <<>> /\ ~Queued' /\ Asks(msg.from, msg.type)
      /\ queue' \in Seq(Message) /\ Len(queue') <= QueueSize
  <2>1. msg \in Message /\ queue' = <<>> /\ Asks(msg.from, msg.type)
    BY <1>1, HandledIs
  <2> QED
    BY <2>1 DEF Queued, QueueSize
<1>3. msg.type = "AppClosed" => msg.from = "app"
  BY <1>2 DEF Asks
<1>4. msg.from = "app" => call["app"].pc = "left" /\ thread = "app"
  BY <1>1 DEF Inv, CloseInv, LockInv
<1>5. UNCHANGED fault
  BY <1>1, <1>3, <1>4
<1>6. TypeOK'
  BY <1>1, <1>2, <1>5 DEF Inv, TypeOK, Message
<1>7. loader'.pc = "join" /\ loader'.msg = msg
  BY <1>1
<1>8. KindInv' /\ CloseInv' /\ LockInv'
  BY <1>1, <1>2, <1>4, <1>7 DEF Inv, KindInv, CloseInv, LockInv
<1>9. DeskInv' /\ BrowserInv' /\ NoCheckFails'
  BY <1>1, <1>5, <1>7 DEF Inv, DeskInv, Occurs, BrowserInv, BrowserHearsTheStop, NoCheckFails
<1> QED
  BY <1>6, <1>8, <1>9 DEF Inv

LEMMA JoinKeepsInv ==
    ASSUME Inv, JoinThread
    PROVE  Inv'
<1> DEFINE t == loader.msg.from
<1>0. {"cli", "app", "apps", "menu"} \subseteq Thread /\ Started = {"app", "apps", "menu"}
  BY DEF Thread, Started
<1>1. /\ loader.pc = "join" /\ life[t] = "ended"
      /\ life' = [life EXCEPT ![t] = "none"]
      /\ call' = [call EXCEPT ![t] = NoCall]
      /\ loader' = [pc |-> IF t = "app" THEN "stopped" ELSE "get", msg |-> NoMessage]
      /\ UNCHANGED <<queue, command, desktop, fault>>
      /\ t \in {"app", "apps", "menu"}
      /\ t = "app" => /\ thread' = "none"
                      /\ browser' = [browser EXCEPT !.flag = browser.flag \/ browser.subscribed]
      /\ t = "apps" => browser' = NoBrowser /\ UNCHANGED thread
      /\ t = "menu" => UNCHANGED <<thread, browser>>
  BY DEF JoinThread
<1> HIDE DEF t
<1>2. /\ call \in [Thread -> CallRecord] /\ life \in [Started -> {"none", "alive", "ended"}]
      /\ browser \in [pc : {"select", "start", "wait", "leave"}, subscribed : BOOLEAN, flag : BOOLEAN]
  BY DEF Inv, TypeOK, CallRecord
<1>3. /\ call' \in [Thread -> CallRecord] /\ life' \in [Started -> {"none", "alive", "ended"}]
      /\ call'[t].pc = "none" /\ life'[t] = "none"
      /\ \A u \in Thread \ {t} : call'[u] = call[u]
      /\ \A u \in Started \ {t} : life'[u] = life[u]
      /\ loader'.pc = (IF t = "app" THEN "stopped" ELSE "get") /\ loader'.msg = NoMessage
      /\ loader' \in LoaderRecord
  BY <1>0, <1>1, <1>2, NoCallIs DEF LoaderRecord
<1>4. KindInv' /\ NoCheckFails'
  <2>1. Asks(NoMessage.from, NoMessage.type)
    BY DEF Asks, NoMessage
  <2> QED
    BY <1>0, <1>1, <1>3, <2>1 DEF Inv, KindInv, NoCheckFails, Queued, msg
<1>5. t = "app" => thread = "app" /\ ~command /\ ~(Queued /\ msg.type = "Unlock")
                   /\ ~(Queued /\ msg.from = "app")
                   /\ ~(call["cli"].pc = "put" /\ call["cli"].type = "Unlock")
  BY <1>1 DEF Inv, LockInv, CloseInv, t
<1>6. LockInv' /\ CloseInv'
  BY <1>0, <1>1, <1>3, <1>5 DEF Inv, LockInv, CloseInv, Queued, msg
<1>7. DeskInv'
  BY <1>1, <1>3, <1>5 DEF Inv, DeskInv, Occurs
<1>8. browser' \in [pc : {"select", "start", "wait", "leave"}, subscribed : BOOLEAN, flag : BOOLEAN]
  <2> DEFINE flag == browser.flag \/ browser.subscribed
  <2>1. flag \in BOOLEAN
    OBVIOUS
  <2>2. CASE t = "app"
    <3>1. browser' = [browser EXCEPT !.flag = flag]
      BY <1>1, <2>2
    <3> HIDE DEF flag
    <3> QED
      BY <1>2, <2>1, <3>1
  <2>3. CASE t = "apps"
    <3>1. browser' = NoBrowser
      BY <1>1, <2>3
    <3>2. NoBrowser \in
            [pc : {"select", "start", "wait", "leave"}, subscribed : BOOLEAN, flag : BOOLEAN]
      BY DEF NoBrowser
    <3> QED
      BY <3>1, <3>2
  <2>4. CASE t = "menu"
    BY <1>1, <1>2, <2>4
  <2> QED
    BY <1>1, <2>2, <2>3, <2>4
<1>9. BrowserInv'
  <2>1. CASE t = "app"
    <3>1. /\ browser'.pc = browser.pc /\ browser'.subscribed = browser.subscribed
          /\ browser.subscribed => browser'.flag
          /\ call'["apps"] = call["apps"]
      BY <1>0, <1>1, <1>2, <1>3, <2>1
    <3> QED
      BY <3>1 DEF Inv, BrowserInv, BrowserHearsTheStop
  <2>2. CASE t = "apps"
    BY <1>1, <2>2 DEF BrowserInv, BrowserHearsTheStop, NoBrowser
  <2>3. CASE t = "menu"
    BY <1>0, <1>1, <1>3, <2>3 DEF Inv, BrowserInv, BrowserHearsTheStop
  <2> QED
    BY <1>1, <2>1, <2>2, <2>3
<1>10. TypeOK'
  BY <1>1, <1>3, <1>8 DEF Inv, TypeOK, Message, CallRecord, LoaderRecord
<1> QED
  BY <1>4, <1>6, <1>7, <1>9, <1>10 DEF Inv

LEMMA StepKeepsInv == Inv /\ [Next]_vars => Inv'
<1> SUFFICES ASSUME Inv, [Next]_vars PROVE Inv'
  OBVIOUS
<1>1. CASE UNCHANGED vars
  BY <1>1 DEF vars, Inv, TypeOK, KindInv, LockInv, CloseInv, DeskInv, BrowserInv, NoCheckFails,
              BrowserHearsTheStop, Queued, msg, Occurs
<1>2. CASE Halt
  BY <1>1, <1>2 DEF Halt
<1>3. CASE LoaderStep
  BY <1>3, QuickKeepInv, StartKeepsInv, BeforeKeepsInv, LoadKeepsInv, ClosedKeepsInv,
     JoinKeepsInv
  DEF LoaderStep
<1>4. CASE DesktopHandles
  BY <1>4, DesktopKeepsInv
<1>5. CASE DesktopInput \/ DesktopSends
  BY <1>5, InputKeepsInv
<1>6. CASE \/ RpcAsks \/ CliAsks \/ MenuAsks \/ AppReturns \/ BrowserSelects \/ BrowserCloses
  BY <1>6, ClientsKeepInv
<1>7. CASE BrowserStep
  BY <1>7, BrowserKeepsInv
<1>8. ASSUME NEW t \in Thread, Put(t) PROVE Inv'
  BY <1>8, PutKeepsInv
<1>9. ASSUME NEW t \in Started, ThreadEnds(t) PROVE Inv'
  BY <1>9, EndKeepsInv
<1> QED
  BY <1>1, <1>2, <1>3, <1>4, <1>5, <1>6, <1>7, <1>8, <1>9 DEF Next, Running

LEMMA InvHolds == Spec => []Inv
BY InitInv, StepKeepsInv, PTL DEF Spec

--------------------------------------------------------------------------------
(* The variables of the loader, its messages and the threads around it keep their
   types. *)
THEOREM TypeCorrect == Spec => []TypeOK
<1>1. Inv => TypeOK
  BY DEF Inv
<1> QED
  BY <1>1, InvHolds, PTL

(* While the cli executes a command that must run alone, the loader is locked and no
   application is alive, however starts, ends and locks race for the queue. *)
THEOREM CommandIsAlone == Spec => []CommandRunsAlone
<1>1. Inv => CommandRunsAlone
  <2> SUFFICES ASSUME Inv PROVE CommandRunsAlone
    OBVIOUS
  <2>1. command => thread = "locked" /\ ~(life["app"] /= "none")
    BY DEF Inv, LockInv
  <2> QED
    BY <2>1 DEF CommandRunsAlone
<1> QED
  BY <1>1, InvHolds, PTL

(* The checks of the loader never fail, and the desktop's animation is given back
   exactly as often as it was put away: the loader is unlocked only when it is locked,
   and an end is reported only of the application that runs. *)
THEOREM ChecksHold == Spec => []NoCheckFails
<1>1. Inv => NoCheckFails
  BY DEF Inv
<1> QED
  BY <1>1, InvHolds, PTL

(* The browser's wait is never missed: while it waits for the end of what it started,
   an application runs or the flag that wakes it is set. *)
THEOREM BrowserWillWake == Spec => []BrowserHearsTheStop
<1>1. Inv => BrowserHearsTheStop
  BY DEF Inv, BrowserInv
<1> QED
  BY <1>1, InvHolds, PTL
================================================================================
