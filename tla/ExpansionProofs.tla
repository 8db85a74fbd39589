---------------------------- MODULE ExpansionProofs ----------------------------
(***************************************************************************)
(* Proofs about the expansion service (Expansion.tla), for any set of UARTs*)
(* and of clients, any queue size and any number of detections.            *)
(***************************************************************************)
EXTENDS Expansion, TLAPS

USE SerialAssumption, ClientAssumption, QueueAssumption, NamesAssumption

(* The record types, in the form the backends use. *)
LEMMA EventIsMessage ==
    ASSUME NEW t \in WorkerEvent \union {"ModuleConnected"}
    PROVE  Event(t) \in Message
BY DEF Event, Message, MessageType, WorkerEvent, ApiCall

LEMMA PutKeepsType ==
    ASSUME TypeOK, Room, NEW m \in Message, Put(m)
    PROVE  queue' \in Seq(Message) /\ Len(queue') <= QueueSize
BY DEF TypeOK, Room, Put

LEMMA ReplyKeepsType ==
    ASSUME TypeOK, NEW b \in BOOLEAN, Reply(b)
    PROVE  control' \in ControlRecord /\ client' \in [Client -> ClientRecord]
<1> DEFINE c == control.msg.from
<1>1. control' \in ControlRecord
  BY DEF TypeOK, Reply, ControlRecord
<1>2. CASE c = NoClient
  BY <1>1, <1>2 DEF TypeOK, Reply
<1>3. CASE c /= NoClient
  <2>1. c \in Client
    BY <1>3 DEF TypeOK, ControlRecord, Message
  <2>2. client[c] \in ClientRecord
    BY <2>1 DEF TypeOK
  <2>3. [client[c] EXCEPT !.pc = "idle", !.answer = b,
                          !.off = control.msg.type = "Disable"] \in ClientRecord
    BY <2>2 DEF ClientRecord
  <2> QED
    BY <1>1, <1>3, <2>1, <2>3 DEF TypeOK, Reply
<1> QED
  BY <1>2, <1>3

LEMMA CallKeepsType ==
    ASSUME TypeOK, NEW c \in Client, NEW t \in ApiCall,
           NEW s \in Serial \union {NoSerial}, Call(c, t, s),
           t = "SetListenSerial" => s \in Serial
    PROVE  client' \in [Client -> ClientRecord]
<1>1. client[c] \in ClientRecord
  BY DEF TypeOK
<1>2. [type |-> t, serial |-> s, from |-> c] \in Message
  BY DEF Message, MessageType
<1> QED
  BY <1>1, <1>2 DEF TypeOK, Call, ClientRecord

--------------------------------------------------------------------------------
(* Type correctness. *)

LEMMA InitType == Init => TypeOK
<1> SUFFICES ASSUME Init PROVE TypeOK
  OBVIOUS
<1>1. Event("ModuleConnected") \in Message
  BY EventIsMessage
<1>2. control \in ControlRecord
  BY <1>1 DEF Init, ControlRecord
<1>3. \A c \in Client : [type |-> "Enable", serial |-> NoSerial, from |-> c] \in Message
  BY DEF Message, MessageType, ApiCall
<1>4. client \in [Client -> ClientRecord]
  BY <1>3 DEF Init, ClientRecord
<1>5. worker \in WorkerRecord
  BY DEF Init, NoWorker, WorkerRecord, Phase
<1>6. queue \in Seq(Message) /\ Len(queue) <= QueueSize
  BY DEF Init
<1>7. holder \in [Serial -> {Free, Worker} \union Client]
  BY DEF Init
<1> QED
  BY <1>2, <1>4, <1>5, <1>6, <1>7 DEF Init, TypeOK, ExpansionState

LEMMA ControlKeepsType == TypeOK /\ ControlStep => TypeOK'
<1> SUFFICES ASSUME TypeOK, ControlStep PROVE TypeOK'
  OBVIOUS
<1> USE DEF TypeOK
<1>0. /\ control.msg \in Message
      /\ control.msg.serial \in Serial \union {NoSerial}
  BY DEF ControlRecord, Message
<1>1. CASE ControlGet
  <2>1. Head(queue) \in Message /\ Tail(queue) \in Seq(Message)
        /\ Len(Tail(queue)) <= QueueSize
    BY <1>1 DEF ControlGet
  <2> QED
    BY <1>1, <2>1 DEF ControlGet, ControlRecord, serialVars
<1>2. CASE HandleEnable
  <2>1. control' \in ControlRecord /\ client' \in [Client -> ClientRecord]
    BY <1>2, ReplyKeepsType DEF HandleEnable, Done
  <2> QED
    BY <1>2, <2>1 DEF HandleEnable, Arm, Listenable, ExpansionState
<1>3. ASSUME StopWorker, UNCHANGED <<uart_index, queue, holder>>
      PROVE  TypeOK'
  <2>1. worker' \in WorkerRecord
    <3> DEFINE b == worker.phase /= "gone"
    <3>1. worker' = [worker EXCEPT !.stop = b] /\ b \in BOOLEAN
      BY <1>3 DEF StopWorker
    <3> HIDE DEF b
    <3> QED
      BY <3>1 DEF WorkerRecord
  <2>2. control' \in ControlRecord
    BY <1>3 DEF StopWorker, ControlRecord
  <2> QED
    BY <1>3, <2>1, <2>2 DEF StopWorker
<1>4. CASE HandleDisable
  <2>1. CASE Done
    <3>1. control' \in ControlRecord /\ client' \in [Client -> ClientRecord]
      BY <2>1, ReplyKeepsType DEF Done
    <3> QED
      BY <1>4, <1>3, <3>1 DEF HandleDisable, Disarm, ExpansionState
  <2> QED
    BY <1>4, <1>3, <2>1 DEF HandleDisable
<1>5. CASE HandleSetListenSerial
  <2>1. CASE Done
    <3>1. control' \in ControlRecord /\ client' \in [Client -> ClientRecord]
      BY <2>1, ReplyKeepsType DEF Done
    <3>2. control.msg.serial \in Serial
      BY <1>5, <1>0 DEF HandleSetListenSerial, Handling, Message
    <3> QED
      BY <1>5, <1>3, <3>1, <3>2 DEF HandleSetListenSerial, Rearm, Arm, ExpansionState
  <2> QED
    BY <1>5, <1>3, <2>1 DEF HandleSetListenSerial
<1>6. ASSUME Reply(FALSE), worker' = NoWorker, state' \in ExpansionState,
             serial_id' \in Serial, detect' \in Serial \union {NoSerial},
             irq' \in {NoSerial, detect'}, crashed' \in BOOLEAN,
             UNCHANGED <<uart_index, queue, holder>>
      PROVE  TypeOK'
  <2>1. control' \in ControlRecord /\ client' \in [Client -> ClientRecord]
    BY <1>6, ReplyKeepsType
  <2>2. worker' \in WorkerRecord
    BY <1>6 DEF NoWorker, WorkerRecord, Phase
  <2> QED
    BY <1>6, <2>1, <2>2
<1>7. CASE WorkerStopped
  <2>1. CASE control.msg.type = "SetListenSerial"
    BY <1>7, <1>0, <1>6, <2>1 DEF WorkerStopped, Done, Arm, Message, ExpansionState
  <2>2. CASE control.msg.type /= "SetListenSerial"
    BY <1>7, <1>6, <2>2 DEF WorkerStopped, Done, ExpansionState
  <2> QED
    BY <2>1, <2>2
<1>8. CASE WorkerFreed
  BY <1>8, <1>6 DEF WorkerFreed, Done, Arm
<1>9. CASE HandleModuleConnected
  <2>1. control' \in ControlRecord /\ client' \in [Client -> ClientRecord]
    BY <1>9, ReplyKeepsType DEF HandleModuleConnected, Done
  <2>2. worker' \in WorkerRecord
    <3>1. [NoWorker EXCEPT !.phase = "new", !.serial = serial_id] \in WorkerRecord
      BY DEF NoWorker, WorkerRecord, Phase
    <3> QED
      BY <1>9, <3>1 DEF HandleModuleConnected
  <2> QED
    BY <1>9, <2>1, <2>2 DEF HandleModuleConnected, Disarm, ExpansionState
<1>10. CASE HandleModuleDisconnected
  <2>1. CASE Running
    BY <1>10, <2>1 DEF HandleModuleDisconnected, serialVars, ControlRecord, ExpansionState
  <2>2. CASE ~Running
    <3>1. control' \in ControlRecord /\ client' \in [Client -> ClientRecord]
      BY <1>10, <2>2, ReplyKeepsType DEF HandleModuleDisconnected, Done
    <3> QED
      BY <1>10, <2>2, <3>1 DEF HandleModuleDisconnected, serialVars
  <2> QED
    BY <2>1, <2>2
<1>11. CASE HandleConnectionEstablished
  <2>1. control' \in ControlRecord /\ client' \in [Client -> ClientRecord]
    BY <1>11, ReplyKeepsType DEF HandleConnectionEstablished, Done
  <2> QED
    BY <1>11, <2>1 DEF HandleConnectionEstablished, serialVars, ExpansionState
<1>12. CASE HandleIsConnected
  <2>1. control' \in ControlRecord /\ client' \in [Client -> ClientRecord]
    BY <1>12, ReplyKeepsType DEF HandleIsConnected
  <2> QED
    BY <1>12, <2>1 DEF HandleIsConnected, serialVars
<1> QED
  BY <1>1, <1>2, <1>4, <1>5, <1>7, <1>8, <1>9, <1>10, <1>11, <1>12 DEF ControlStep

LEMMA ClientKeepsType == TypeOK /\ ClientStep => TypeOK'
<1> SUFFICES ASSUME TypeOK, ClientStep PROVE TypeOK'
  OBVIOUS
<1> USE DEF TypeOK, serviceVars, serialVars
<1>1. ASSUME NEW c \in Client, PutCall(c) PROVE TypeOK'
  <2>1. client[c] \in ClientRecord
    OBVIOUS
  <2>2. client' \in [Client -> ClientRecord]
    BY <1>1, <2>1 DEF PutCall, ClientRecord
  <2>3. client[c].call \in Message
    BY <2>1 DEF ClientRecord
  <2>4. queue' \in Seq(Message) /\ Len(queue') <= QueueSize
    BY <1>1, <2>3, PutKeepsType DEF PutCall
  <2> QED
    BY <1>1, <2>2, <2>4 DEF PutCall
<1>2. ASSUME NEW c \in Client, NEW t \in ApiCall, NEW s \in Serial \union {NoSerial},
             Call(c, t, s), t = "SetListenSerial" => s \in Serial,
             UNCHANGED <<state, serial_id, queue, control, worker, detect, irq, holder, crashed>>,
             uart_index' \in Serial \union {NoSerial}
      PROVE  TypeOK'
  <2>1. client' \in [Client -> ClientRecord]
    BY <1>2, CallKeepsType
  <2> QED
    BY <1>2, <2>1
<1>3. ASSUME NEW c \in Holders, HolderDisable(c) \/ HolderEnable(c) PROVE TypeOK'
  BY <1>2, <1>3 DEF HolderDisable, HolderEnable, Client, ApiCall
<1>4. ASSUME NEW c \in Holders, NEW s \in Serial, HolderAcquire(c, s) PROVE TypeOK'
  <2>1. client[c] \in ClientRecord /\ c \in Client
    BY DEF Client
  <2>2. client' \in [Client -> ClientRecord]
    BY <1>4, <2>1 DEF HolderAcquire, ClientRecord
  <2> QED
    BY <1>4, <2>1, <2>2 DEF HolderAcquire, Take
<1>5. ASSUME NEW c \in Holders, HolderRelease(c) PROVE TypeOK'
  <2>1. client[c] \in ClientRecord /\ c \in Client
    BY DEF Client
  <2>2. client' \in [Client -> ClientRecord]
    BY <1>5, <2>1 DEF HolderRelease, ClientRecord
  <2> QED
    BY <1>5, <2>1, <2>2 DEF HolderRelease, GiveBack
<1>6. ASSUME NEW c \in Callers, AskConnected(c) PROVE TypeOK'
  BY <1>2, <1>6 DEF AskConnected, Client, ApiCall
<1>7. ASSUME NEW c \in Callers, NEW u \in Serial \union {NoSerial}, SettingChanged(c, u)
      PROVE  TypeOK'
  BY <1>2, <1>7 DEF SettingChanged, Client, ApiCall
<1> QED
  BY <1>1, <1>3, <1>4, <1>5, <1>6, <1>7 DEF ClientStep

LEMMA WorkerKeepsType == TypeOK /\ (Detect \/ WorkerStep) => TypeOK'
<1> SUFFICES ASSUME TypeOK, Detect \/ WorkerStep PROVE TypeOK'
  OBVIOUS
<1>g. ASSUME NEW q \in Phase PROVE [worker EXCEPT !.phase = q] \in WorkerRecord
  BY DEF TypeOK, WorkerRecord
<1> USE DEF TypeOK, controlVars, serialVars
<1>1. CASE Detect
  <2>1. queue' \in Seq(Message) /\ Len(queue') <= QueueSize
    BY <1>1, EventIsMessage, PutKeepsType DEF Detect
  <2> QED
    BY <1>1, <2>1 DEF Detect
<1>2. ASSUME NEW p, NEW q \in Phase, WorkerGoes(p, q) PROVE worker' \in WorkerRecord
  BY <1>2 DEF WorkerGoes, WorkerRecord
<1>3. CASE WorkerAcquire
  <2>1. worker' \in WorkerRecord
    <3>1. PICK q \in {"handshake", "refused"} : worker' = [worker EXCEPT !.phase = q]
      BY <1>3 DEF WorkerAcquire, WorkerGoes
    <3>2. q \in Phase
      BY DEF Phase
    <3> HIDE DEF TypeOK
    <3> QED
      BY <1>g, <3>1, <3>2
  <2>3. holder' \in [Serial -> {Free, Worker} \union Client] /\ irq' \in {NoSerial, detect}
    BY <1>3 DEF WorkerAcquire, Take
  <2>4. UNCHANGED <<controlVars, queue, detect, crashed>>
    BY <1>3 DEF WorkerAcquire
  <2> QED
    BY <2>1, <2>3, <2>4
<1>4. CASE WorkerHandshake
  BY <1>2, <1>4 DEF WorkerHandshake, Phase
<1>5. CASE WorkerTellConnected
  <2>1. worker' \in WorkerRecord
    BY <1>5 DEF WorkerTellConnected, WorkerRecord, Phase
  <2>2. queue' \in Seq(Message) /\ Len(queue') <= QueueSize
    BY <1>5, EventIsMessage, PutKeepsType DEF WorkerTellConnected, WorkerEvent
  <2> QED
    BY <1>5, <2>1, <2>2 DEF WorkerTellConnected
<1>6. ASSUME NEW q \in BOOLEAN, WorkerSeesStop(q) \/ WorkerTimesOut(q) PROVE TypeOK'
  <2>1. worker' \in WorkerRecord
    <3>1. PICK r \in Phase : r = IF q THEN "release" ELSE worker.phase
      BY DEF Phase, WorkerRecord
    <3>2. CASE WorkerSeesStop(q)
      <4>1. worker' = [worker EXCEPT !.stop = FALSE, !.user = TRUE, !.phase = r]
        BY <3>1, <3>2 DEF WorkerSeesStop
      <4> QED
        BY <4>1 DEF WorkerRecord
    <3>3. CASE WorkerTimesOut(q)
      <4>1. worker' = [worker EXCEPT !.user = FALSE, !.phase = r]
        BY <3>1, <3>3 DEF WorkerTimesOut
      <4> QED
        BY <4>1 DEF WorkerRecord
    <3> QED
      BY <1>6, <3>2, <3>3
  <2> QED
    BY <1>6, <2>1 DEF WorkerSeesStop, WorkerTimesOut
<1>7. CASE WorkerFails
  <2>1. worker' \in WorkerRecord
    BY <1>7 DEF WorkerFails, WorkerRecord, Phase
  <2> QED
    BY <1>7, <2>1 DEF WorkerFails
<1>8. CASE WorkerRelease
  <2>1. worker' \in WorkerRecord
    BY <1>2, <1>8 DEF WorkerRelease, Phase
  <2> QED
    BY <1>8, <2>1 DEF WorkerRelease, GiveBack
<1>9. CASE WorkerTellExit
  <2>1. worker' \in WorkerRecord
    BY <1>2, <1>9 DEF WorkerTellExit, Phase
  <2>2. queue' \in Seq(Message) /\ Len(queue') <= QueueSize
    BY <1>9, EventIsMessage, PutKeepsType DEF WorkerTellExit, WorkerEvent
  <2> QED
    BY <1>9, <2>1, <2>2 DEF WorkerTellExit
<1> QED
  BY <1>1, <1>3, <1>4, <1>5, <1>6, <1>7, <1>8, <1>9 DEF WorkerStep

(* The state of the service, of its queue and worker, and of its clients keeps
   its types, whatever the clients, the module and the worker do. *)
THEOREM TypeCorrect == Spec => []TypeOK
<1>1. TypeOK /\ [Next]_vars => TypeOK'
  <2> SUFFICES ASSUME TypeOK, [Next]_vars PROVE TypeOK'
    OBVIOUS
  <2>1. CASE Next
    BY <2>1, ControlKeepsType, ClientKeepsType, WorkerKeepsType DEF Next
  <2>2. CASE UNCHANGED vars
    BY <2>2 DEF vars, TypeOK
  <2> QED
    BY <2>1, <2>2
<1> QED
  BY InitType, <1>1, PTL DEF Spec

--------------------------------------------------------------------------------
(* Detection, the worker and the serial handles. The three properties hold
   together or not at all: what a handler may ask of the serial control service
   depends on whether a worker exists, and that on where the control thread is. *)

ControlInv ==
    /\ control.pc = "stopping" => Running
    /\ control.pc = "freeing" => state = "Enabled"
    /\ worker.phase /= "none" <=> Running \/ control.pc = "freeing"
    /\ worker.phase /= "none" => worker.serial \in Serial

ClientHolds ==
    \A c \in Client : client[c].has /= NoSerial => holder[client[c].has] = c

Inv == TypeOK /\ ControlInv /\ DetectionFollowsState /\ NoCheckFails
              /\ WorkerHoldsItsPort /\ ClientHolds

LEMMA InitInv == Init => Inv
<1> SUFFICES ASSUME Init PROVE Inv
  OBVIOUS
<1>1. TypeOK
  BY InitType
<1>2. ClientHolds
  BY DEF Init, ClientHolds
<1> QED
  BY <1>1, <1>2 DEF Init, Inv, ControlInv, DetectionFollowsState, NoCheckFails,
                    WorkerHoldsItsPort, NoWorker, Running, Free, Worker

LEMMA ReplyKeepsHas ==
    ASSUME TypeOK, NEW b \in BOOLEAN, Reply(b)
    PROVE  /\ \A c \in Client : client'[c].has = client[c].has
           /\ control'.pc = "get"
<1>1. control \in ControlRecord
  BY DEF TypeOK
<1>2. control'.pc = "get"
  BY <1>1 DEF Reply, ControlRecord
<1>3. ASSUME NEW c \in Client PROVE client'[c].has = client[c].has
  <2>1. client[c] \in ClientRecord /\ client \in [Client -> ClientRecord]
    BY DEF TypeOK
  <2> QED
    BY <2>1 DEF Reply, ClientRecord
<1> QED
  BY <1>2, <1>3

LEMMA ControlKeepsInv == Inv /\ ControlStep => Inv'
<1> SUFFICES ASSUME Inv, ControlStep PROVE Inv'
  OBVIOUS
<1> USE DEF Inv, ControlInv, DetectionFollowsState, NoCheckFails, Running
<1>0. TypeOK'
  BY ControlKeepsType
<1>a. control \in ControlRecord /\ worker \in WorkerRecord /\ state \in ExpansionState
  BY DEF TypeOK
(* No handler touches the serial handles, nor what a worker says of its own:
   it is started, with no handle, or freed, when it has none any more. *)
<1>b. ASSUME UNCHANGED holder,
             \/ /\ worker'.phase = worker.phase /\ worker'.serial = worker.serial
             \/ worker'.phase \in {"none", "new"} /\ worker.phase \in {"none", "gone"}
      PROVE  WorkerHoldsItsPort'
  BY <1>b DEF WorkerHoldsItsPort
<1>c. ASSUME UNCHANGED holder, \A c \in Client : client'[c].has = client[c].has
      PROVE  ClientHolds'
  BY <1>c DEF ClientHolds
<1>1. CASE ControlGet
  BY <1>0, <1>1, <1>a, <1>b, <1>c DEF ControlGet, serialVars, ExpansionState
<1>2. CASE HandleEnable
  <2>1. control'.pc = "get" /\ ClientHolds'
    BY <1>2, <1>c, ReplyKeepsHas DEF HandleEnable, Done
  <2> QED
    BY <1>0, <1>2, <1>a, <1>b, <2>1 DEF HandleEnable, Arm, Handling, ExpansionState
<1>3. ASSUME StopWorker, Running, control.pc = "handle", UNCHANGED <<uart_index, queue, holder>>
      PROVE  Inv'
  <2>1. /\ worker'.phase = worker.phase /\ worker'.serial = worker.serial
        /\ control'.pc = "stopping"
    BY <1>3, <1>a DEF StopWorker, WorkerRecord, ControlRecord
  <2>2. ClientHolds' /\ WorkerHoldsItsPort'
    BY <1>3, <1>b, <1>c, <2>1 DEF StopWorker
  <2> QED
    BY <1>0, <1>3, <2>1, <2>2 DEF StopWorker
<1>4. CASE HandleDisable
  <2>1. CASE Running
    BY <1>4, <1>3, <2>1 DEF HandleDisable, Handling
  <2>2. CASE ~Running
    <3>1. control'.pc = "get" /\ ClientHolds' /\ WorkerHoldsItsPort'
      BY <1>4, <1>b, <1>c, <2>2, ReplyKeepsHas DEF HandleDisable, Done
    <3>2. worker.phase = "none" /\ UNCHANGED worker /\ control.pc = "handle"
      BY <1>4, <2>2 DEF HandleDisable, Handling
    <3>3. state' = "Disabled" /\ detect' = NoSerial /\ ~crashed'
      <4>1. CASE state = "Enabled"
        BY <1>4, <2>2, <3>2, <4>1 DEF HandleDisable, Disarm
      <4>2. CASE state = "Disabled"
        BY <1>4, <2>2, <3>2, <4>2 DEF HandleDisable
      <4> QED
        BY <1>a, <2>2, <4>1, <4>2 DEF ExpansionState
    <3> QED
      BY <1>0, <3>1, <3>2, <3>3
  <2> QED
    BY <2>1, <2>2
<1>5. CASE HandleSetListenSerial
  <2>1. CASE Running
    BY <1>5, <1>3, <2>1 DEF HandleSetListenSerial, Handling
  <2>2. CASE ~Running
    <3>1. control'.pc = "get" /\ ClientHolds' /\ WorkerHoldsItsPort'
      BY <1>5, <1>b, <1>c, <2>2, ReplyKeepsHas DEF HandleSetListenSerial, Done
    <3>2. worker.phase = "none" /\ UNCHANGED worker /\ control.pc = "handle"
      BY <1>5, <2>2 DEF HandleSetListenSerial, Handling
    <3>3. state' = "Enabled" /\ detect' = serial_id' /\ ~crashed'
      BY <1>5, <1>a, <2>2, <3>2 DEF HandleSetListenSerial, Rearm, Arm, ExpansionState
    <3> QED
      BY <1>0, <3>1, <3>2, <3>3
  <2> QED
    BY <2>1, <2>2
<1>6. CASE WorkerStopped
  <2>1. control'.pc = "get" /\ ClientHolds'
    BY <1>6, <1>c, ReplyKeepsHas DEF WorkerStopped, Done
  <2>2. detect = NoSerial /\ worker.phase = "gone" /\ worker'.phase = "none"
    BY <1>6 DEF WorkerStopped, Joined, NoWorker
  <2>3. WorkerHoldsItsPort'
    BY <1>6, <1>b, <2>2 DEF WorkerStopped
  <2> QED
    BY <1>0, <1>6, <2>1, <2>2, <2>3 DEF WorkerStopped, Arm
<1>7. CASE WorkerFreed
  <2>1. control'.pc = "get" /\ ClientHolds'
    BY <1>7, <1>c, ReplyKeepsHas DEF WorkerFreed, Done
  <2>2. detect = NoSerial /\ worker.phase = "gone" /\ worker'.phase = "none"
    BY <1>7 DEF WorkerFreed, Joined, NoWorker
  <2>3. WorkerHoldsItsPort'
    BY <1>7, <1>b, <2>2 DEF WorkerFreed
  <2> QED
    BY <1>0, <1>7, <2>1, <2>2, <2>3 DEF WorkerFreed, Arm
<1>8. CASE HandleModuleConnected
  <2>1. control'.pc = "get" /\ ClientHolds'
    BY <1>8, <1>c, ReplyKeepsHas DEF HandleModuleConnected, Done
  <2>2. CASE state = "Enabled"
    <3>1. worker'.phase = "new" /\ worker'.serial = serial_id /\ worker.phase = "none"
      BY <1>8, <2>2 DEF HandleModuleConnected, Handling, NoWorker
    <3>2. WorkerHoldsItsPort'
      BY <1>8, <1>b, <3>1 DEF HandleModuleConnected
    <3>3. serial_id \in Serial
      BY DEF TypeOK
    <3> QED
      BY <1>0, <1>8, <2>1, <2>2, <3>1, <3>2, <3>3 DEF HandleModuleConnected, Disarm, Handling
  <2>3. CASE state /= "Enabled"
    BY <1>0, <1>8, <1>b, <2>1, <2>3 DEF HandleModuleConnected, Handling
  <2> QED
    BY <2>2, <2>3
<1>9. CASE HandleModuleDisconnected
  <2>1. CASE Running
    <3>1. control'.pc = "freeing"
      BY <1>9, <1>a, <2>1 DEF HandleModuleDisconnected, ControlRecord
    <3>2. ClientHolds' /\ WorkerHoldsItsPort'
      BY <1>9, <1>b, <1>c, <2>1 DEF HandleModuleDisconnected, serialVars
    <3> QED
      BY <1>0, <1>9, <2>1, <3>1, <3>2 DEF HandleModuleDisconnected, serialVars, Handling
  <2>2. CASE ~Running
    <3>1. control'.pc = "get" /\ ClientHolds'
      BY <1>9, <1>c, <2>2, ReplyKeepsHas DEF HandleModuleDisconnected, Done, serialVars
    <3> QED
      BY <1>0, <1>9, <1>b, <2>2, <3>1 DEF HandleModuleDisconnected, serialVars, Handling
  <2> QED
    BY <2>1, <2>2
<1>10. CASE HandleConnectionEstablished
  <2>1. control'.pc = "get" /\ ClientHolds'
    BY <1>10, <1>c, ReplyKeepsHas DEF HandleConnectionEstablished, Done, serialVars
  <2> QED
    BY <1>0, <1>10, <1>b, <2>1 DEF HandleConnectionEstablished, serialVars, Handling
<1>11. CASE HandleIsConnected
  <2>1. control'.pc = "get" /\ ClientHolds'
    BY <1>11, <1>c, ReplyKeepsHas DEF HandleIsConnected, serialVars
  <2> QED
    BY <1>0, <1>11, <1>b, <2>1 DEF HandleIsConnected, serialVars, Handling
<1> QED
  BY <1>1, <1>2, <1>4, <1>5, <1>6, <1>7, <1>8, <1>9, <1>10, <1>11 DEF ControlStep

LEMMA ClientKeepsInv == Inv /\ ClientStep => Inv'
<1> SUFFICES ASSUME Inv, ClientStep PROVE Inv'
  OBVIOUS
<1> USE DEF Inv
<1>0. TypeOK'
  BY ClientKeepsType
<1>a. client \in [Client -> ClientRecord]
  BY DEF TypeOK
(* No client knows of the service's own state. *)
<1>b. UNCHANGED <<state, serial_id, control, worker, detect, crashed>>
  BY DEF ClientStep, PutCall, HolderDisable, HolderAcquire, HolderRelease, HolderEnable,
         SettingChanged, AskConnected, serviceVars, serialVars
<1>c. ControlInv' /\ DetectionFollowsState' /\ NoCheckFails'
  BY <1>b DEF ControlInv, DetectionFollowsState, NoCheckFails, Running
<1>1. ASSUME UNCHANGED holder, \A c \in Client : client'[c].has = client[c].has PROVE Inv'
  BY <1>0, <1>1, <1>b, <1>c DEF WorkerHoldsItsPort, ClientHolds
<1>2. ASSUME NEW d \in Client, NEW t, NEW s, Call(d, t, s) PROVE \A c \in Client : client'[c].has = client[c].has
  BY <1>2, <1>a DEF Call, ClientRecord
<1>3. ASSUME NEW d \in Client, PutCall(d) PROVE Inv'
  <2>1. \A c \in Client : client'[c].has = client[c].has
    BY <1>3, <1>a DEF PutCall, ClientRecord
  <2> QED
    BY <1>1, <1>3, <2>1 DEF PutCall, serialVars
<1>4. ASSUME NEW d \in Holders, HolderDisable(d) \/ HolderEnable(d) PROVE Inv'
  BY <1>1, <1>2, <1>4 DEF HolderDisable, HolderEnable, serialVars, Client
<1>5. ASSUME NEW d \in Callers, NEW u, AskConnected(d) \/ SettingChanged(d, u) PROVE Inv'
  BY <1>1, <1>2, <1>5 DEF AskConnected, SettingChanged, serialVars, Client
<1>6. ASSUME NEW d \in Holders, NEW s \in Serial, HolderAcquire(d, s) PROVE Inv'
  <2>1. d \in Client /\ d /= Worker /\ Free \notin Client /\ Free /= Worker
    BY NamesAssumption DEF Client, Free, Worker
  <2>2. holder' = [holder EXCEPT ![s] = d] /\ holder[s] = Free
    BY <1>6 DEF HolderAcquire, Take
  <2>3. /\ client'[d].has = s
        /\ \A c \in Client \ {d} : client'[c].has = client[c].has
    BY <1>6, <1>a, <2>1 DEF HolderAcquire, ClientRecord
  <2>4. WorkerHoldsItsPort'
    BY <1>b, <2>1, <2>2 DEF WorkerHoldsItsPort, TypeOK
  <2>5. ClientHolds'
    BY <1>a, <2>1, <2>2, <2>3, SerialAssumption DEF ClientHolds, TypeOK, ClientRecord
  <2> QED
    BY <1>0, <1>c, <2>4, <2>5
<1>7. ASSUME NEW d \in Holders, HolderRelease(d) PROVE Inv'
  <2> DEFINE s == client[d].has
  <2>1. d \in Client /\ d /= Worker /\ Free \notin Client /\ Free /= Worker
    BY NamesAssumption DEF Client, Free, Worker
  <2>2. s \in Serial /\ holder[s] = d /\ holder' = [holder EXCEPT ![s] = Free]
    BY <1>7, <1>a, <2>1 DEF HolderRelease, GiveBack, ClientHolds, ClientRecord
  <2>3. /\ client'[d].has = NoSerial
        /\ \A c \in Client \ {d} : client'[c].has = client[c].has
    BY <1>7, <1>a, <2>1 DEF HolderRelease, ClientRecord
  <2>4. WorkerHoldsItsPort'
    BY <1>b, <2>1, <2>2 DEF WorkerHoldsItsPort, TypeOK
  <2>5. ClientHolds'
    BY <1>a, <2>1, <2>2, <2>3 DEF ClientHolds, TypeOK, ClientRecord
  <2> QED
    BY <1>0, <1>c, <2>4, <2>5
<1> QED
  BY <1>3, <1>4, <1>5, <1>6, <1>7 DEF ClientStep

LEMMA WorkerKeepsInv == Inv /\ (Detect \/ WorkerStep) => Inv'
<1> SUFFICES ASSUME Inv, Detect \/ WorkerStep PROVE Inv'
  OBVIOUS
<1> USE DEF Inv
<1>0. TypeOK'
  BY WorkerKeepsType
<1>a. worker \in WorkerRecord
  BY DEF TypeOK
<1>b. UNCHANGED <<state, serial_id, control, client, detect, crashed>>
  BY DEF Detect, WorkerStep, WorkerAcquire, WorkerHandshake, WorkerTellConnected,
         WorkerSeesStop, WorkerTimesOut, WorkerFails, WorkerRelease, WorkerTellExit,
         controlVars, serialVars
<1>c. DetectionFollowsState' /\ NoCheckFails'
  BY <1>b DEF DetectionFollowsState, NoCheckFails
<1> DEFINE Holding == {"handshake", "putConnected", "connected", "release"}
(* A step that takes no handle and gives none back. *)
<1>1. ASSUME UNCHANGED holder, worker'.serial = worker.serial,
             worker.phase = "none" <=> worker'.phase = "none",
             worker.phase \in Holding <=> worker'.phase \in Holding
      PROVE  Inv'
  <2>1. ControlInv' /\ ClientHolds'
    BY <1>1, <1>b DEF ControlInv, ClientHolds, Running
  <2>2. WorkerHoldsItsPort'
    BY <1>1 DEF WorkerHoldsItsPort
  <2> QED
    BY <1>0, <1>c, <2>1, <2>2
<1>2. ASSUME NEW p, NEW q, WorkerGoes(p, q)
      PROVE  worker.phase = p /\ worker'.phase = q /\ worker'.serial = worker.serial
  BY <1>2, <1>a DEF WorkerGoes, WorkerRecord
<1>3. CASE Detect
  BY <1>1, <1>3 DEF Detect, serialVars
<1>4. CASE WorkerAcquire
  <2>1. CASE holder[worker.serial] = Free
    <3>1. /\ worker.phase = "new" /\ worker'.phase = "handshake"
          /\ worker'.serial = worker.serial
          /\ holder' = [holder EXCEPT ![worker.serial] = Worker]
      BY <1>4, <1>2, <2>1 DEF WorkerAcquire, Take
    <3>2. worker.serial \in Serial
      BY <3>1 DEF ControlInv
    <3>3. ControlInv'
      BY <1>b, <3>1 DEF ControlInv, Running
    <3>4. WorkerHoldsItsPort'
      BY <3>1, <3>2 DEF WorkerHoldsItsPort, TypeOK
    <3>5. ClientHolds'
      <4>1. Free \notin Client
        BY NamesAssumption DEF Client
      <4> QED
        BY <1>b, <2>1, <3>1, <3>2, <4>1 DEF ClientHolds, TypeOK, ClientRecord
    <3> QED
      BY <1>0, <1>c, <3>3, <3>4, <3>5
  <2>2. CASE holder[worker.serial] /= Free
    <3>1. worker.phase = "new" /\ worker'.phase = "refused" /\ worker'.serial = worker.serial
      BY <1>4, <1>2, <2>2 DEF WorkerAcquire
    <3> QED
      BY <1>1, <1>4, <2>2, <3>1 DEF WorkerAcquire
  <2> QED
    BY <2>1, <2>2
<1>5. CASE WorkerHandshake
  BY <1>1, <1>2, <1>5 DEF WorkerHandshake, serialVars
<1>6. CASE WorkerTellConnected
  <2>1. /\ worker.phase = "putConnected" /\ worker'.phase = "connected"
        /\ worker'.serial = worker.serial
    BY <1>6, <1>a DEF WorkerTellConnected, WorkerRecord
  <2> QED
    BY <1>1, <1>6, <2>1 DEF WorkerTellConnected, serialVars
<1>7. ASSUME NEW q \in BOOLEAN, WorkerSeesStop(q) \/ WorkerTimesOut(q) PROVE Inv'
  <2>1. /\ worker.phase \in {"handshake", "connected"}
        /\ worker'.phase \in {"release", worker.phase}
        /\ worker'.serial = worker.serial
    BY <1>7, <1>a DEF WorkerSeesStop, WorkerTimesOut, Talking, WorkerRecord
  <2> QED
    BY <1>1, <1>7, <2>1 DEF WorkerSeesStop, WorkerTimesOut, serialVars
<1>8. CASE WorkerFails
  <2>1. /\ worker.phase \in {"handshake", "connected"} /\ worker'.phase = "release"
        /\ worker'.serial = worker.serial
    BY <1>8, <1>a DEF WorkerFails, Talking, WorkerRecord
  <2> QED
    BY <1>1, <1>8, <2>1 DEF WorkerFails, serialVars
<1>9. CASE WorkerRelease
  <2>1. /\ worker.phase = "release" /\ worker'.phase \in {"gone", "putExit"}
        /\ worker'.serial = worker.serial
        /\ holder' = [holder EXCEPT ![worker.serial] = Free]
    BY <1>9, <1>2 DEF WorkerRelease, GiveBack
  <2>2. worker.serial \in Serial
    BY <2>1 DEF ControlInv
  <2>3. Worker \notin Client /\ Free /= Worker
    BY NamesAssumption DEF Client, Free, Worker
  <2>4. ControlInv'
    BY <1>b, <2>1 DEF ControlInv, Running
  <2>5. WorkerHoldsItsPort'
    BY <2>1, <2>2, <2>3 DEF WorkerHoldsItsPort, TypeOK
  <2>6. ClientHolds'
    <3>1. holder[worker.serial] = Worker
      BY <2>1, <2>2 DEF WorkerHoldsItsPort
    <3> QED
      BY <1>b, <2>1, <2>2, <2>3, <3>1 DEF ClientHolds, TypeOK, ClientRecord
  <2> QED
    BY <1>0, <1>c, <2>4, <2>5, <2>6
<1>10. CASE WorkerTellExit
  BY <1>1, <1>2, <1>10 DEF WorkerTellExit, serialVars
<1> QED
  BY <1>3, <1>4, <1>5, <1>6, <1>7, <1>8, <1>9, <1>10 DEF WorkerStep

LEMMA Invariance == Spec => []Inv
<1>1. Inv /\ [Next]_vars => Inv'
  <2> SUFFICES ASSUME Inv, [Next]_vars PROVE Inv'
    OBVIOUS
  <2>1. CASE Next
    BY <2>1, ControlKeepsInv, ClientKeepsInv, WorkerKeepsInv DEF Next
  <2>2. CASE UNCHANGED vars
    BY <2>2 DEF vars, Inv, TypeOK, ControlInv, DetectionFollowsState, NoCheckFails,
                WorkerHoldsItsPort, ClientHolds, Running
  <2> QED
    BY <2>1, <2>2
<1> QED
  BY InitInv, <1>1, PTL DEF Spec

(* Through every handler and every join, the detection interrupt is set up
   exactly while the service is Enabled, so that the two furi_checks of
   furi_hal_serial_control_set_expansion_callback never fail. *)
THEOREM DetectionCorrect == Spec => [](DetectionFollowsState /\ NoCheckFails)
<1>1. Inv => DetectionFollowsState /\ NoCheckFails
  BY DEF Inv
<1> QED
  BY Invariance, <1>1, PTL

(* A serial handle is the worker's from its acquire to its release and at no
   other time, whoever else takes and gives back handles around it. *)
THEOREM WorkerHoldsItsPortAlways == Spec => []WorkerHoldsItsPort
<1>1. Inv => WorkerHoldsItsPort
  BY DEF Inv
<1> QED
  BY Invariance, <1>1, PTL
--------------------------------------------------------------------------------
(* Calls and their answers. A client puts its own message, and nobody else's. *)

CallInv == /\ TypeOK
           /\ \A c \in Client : client[c].call.from = c
           /\ EveryCallIsAnsweredOnce

LEMMA OwedOfAppend ==
    ASSUME TypeOK, NEW m \in Message, Put(m), NEW c \in Client
    PROVE  Owed(c)' = IF m.from = c THEN Owed(c) \union {Len(queue) + 1} ELSE Owed(c)
<1>1. queue \in Seq(Message) /\ queue' = Append(queue, m)
  BY DEF TypeOK, Put
<1>2. /\ Len(queue') = Len(queue) + 1 /\ Len(queue) \in Nat
      /\ \A i \in 1..Len(queue) : queue'[i] = queue[i]
      /\ queue'[Len(queue) + 1] = m
  BY <1>1
<1> QED
  BY <1>2 DEF Owed

LEMMA OwedOfTail ==
    ASSUME TypeOK, queue /= <<>>, queue' = Tail(queue), NEW c \in Client
    PROVE  /\ Owed(c)' = {i \in 1..(Len(queue) - 1) : i + 1 \in Owed(c)}
           /\ 1 \in Owed(c) <=> Head(queue).from = c
<1>1. queue \in Seq(Message) /\ Len(queue) \in Nat /\ Len(queue) >= 1
  BY DEF TypeOK
<1>2. /\ Len(queue') = Len(queue) - 1
      /\ \A i \in 1..(Len(queue) - 1) : queue'[i] = queue[i + 1]
      /\ Head(queue) = queue[1]
  BY <1>1
<1> QED
  BY <1>1, <1>2 DEF Owed

(* What an answer does: the client whose message was in hand no longer waits. *)
LEMMA ReplyAnswers ==
    ASSUME CallInv, control.pc /= "get", UNCHANGED queue, NEW b \in BOOLEAN, Reply(b)
    PROVE  EveryCallIsAnsweredOnce'
<1> USE DEF CallInv, TypeOK
<1>1. control'.pc = "get"
  BY DEF Reply, ControlRecord
<1>2. \A c \in Client : Owed(c)' = Owed(c)
  BY DEF Owed
<1>3. NoClient \notin Client
  BY NamesAssumption
<1>4. SUFFICES ASSUME NEW c \in Client
               PROVE  client'[c].pc = "wait" <=> Owed(c) /= {}
  BY <1>1, <1>2, <1>4 DEF EveryCallIsAnsweredOnce, InHand
<1>5. CASE control.msg.from = c
  <2>1. client'[c].pc = "idle"
    BY <1>3, <1>5 DEF Reply, ClientRecord
  <2>2. Owed(c) = {}
    BY <1>5 DEF EveryCallIsAnsweredOnce, InHand
  <2> QED
    BY <2>1, <2>2
<1>6. CASE control.msg.from /= c
  <2>1. client'[c] = client[c]
    BY <1>6 DEF Reply
  <2> QED
    BY <1>6, <2>1 DEF EveryCallIsAnsweredOnce, InHand
<1> QED
  BY <1>5, <1>6
LEMMA ReplyKeepsCall ==
    ASSUME TypeOK, NEW b \in BOOLEAN, Reply(b), NEW c \in Client
    PROVE  client'[c].call = client[c].call
<1>1. client[c] \in ClientRecord /\ client \in [Client -> ClientRecord]
  BY DEF TypeOK
<1> QED
  BY <1>1 DEF Reply, ClientRecord

LEMMA ControlKeepsCalls == CallInv /\ ControlStep => CallInv'
<1> SUFFICES ASSUME CallInv, ControlStep PROVE CallInv'
  OBVIOUS
<1> USE DEF CallInv
<1>0. TypeOK'
  BY ControlKeepsType
<1>a. control \in ControlRecord /\ queue \in Seq(Message)
  BY DEF TypeOK
<1>b. ASSUME control.pc /= "get", UNCHANGED queue, NEW b \in BOOLEAN, Reply(b) PROVE CallInv'
  BY <1>0, <1>b, ReplyAnswers, ReplyKeepsCall
(* A handler that goes to join a worker still owes its answer. *)
<1>c. ASSUME control.pc = "handle", control'.pc \in {"stopping", "freeing"},
             control'.msg = control.msg, UNCHANGED <<queue, client>>
      PROVE  CallInv'
  BY <1>0, <1>c DEF EveryCallIsAnsweredOnce, InHand, Owed
<1>d. ASSUME StopWorker, control.pc = "handle", UNCHANGED queue PROVE CallInv'
  <2>1. control'.pc = "stopping" /\ control'.msg = control.msg
    BY <1>a, <1>d DEF StopWorker, ControlRecord
  <2> QED
    BY <1>c, <1>d, <2>1 DEF StopWorker
<1>1. CASE ControlGet
  <2>1. /\ control.pc = "get" /\ queue /= <<>> /\ queue' = Tail(queue)
        /\ control'.pc = "handle" /\ control'.msg = Head(queue)
        /\ UNCHANGED client
    BY <1>1 DEF ControlGet
  <2>2. SUFFICES ASSUME NEW c \in Client
                 PROVE  /\ client[c].pc = "wait" <=> InHand(c)' \/ Owed(c)' /= {}
                        /\ InHand(c)' => Owed(c)' = {}
                        /\ \A i, j \in Owed(c)' : i = j
    BY <1>0, <2>1 DEF EveryCallIsAnsweredOnce
  <2>3. /\ Owed(c)' = {i \in 1..(Len(queue) - 1) : i + 1 \in Owed(c)}
        /\ 1 \in Owed(c) <=> Head(queue).from = c
    BY <2>1, OwedOfTail
  <2>4. /\ client[c].pc = "wait" <=> Owed(c) /= {}
        /\ \A i, j \in Owed(c) : i = j
    BY <2>1 DEF EveryCallIsAnsweredOnce, InHand
  <2>5. Owed(c) \subseteq 1..Len(queue) /\ Len(queue) \in Nat
    BY <1>a DEF Owed
  <2>6. InHand(c)' <=> 1 \in Owed(c)
    BY <2>1, <2>3 DEF InHand
  <2>7. CASE 1 \in Owed(c)
    BY <2>3, <2>4, <2>5, <2>6, <2>7
  <2>8. CASE 1 \notin Owed(c)
    <3>1. \A i \in Owed(c) : i - 1 \in Owed(c)'
      BY <2>3, <2>5, <2>8
    <3> QED
      BY <2>3, <2>4, <2>5, <2>6, <2>8, <3>1
  <2> QED
    BY <2>7, <2>8
<1>2. CASE HandleEnable
  BY <1>2, <1>b DEF HandleEnable, Done, Handling
<1>3. CASE HandleDisable
  BY <1>3, <1>b, <1>d DEF HandleDisable, Done, Handling
<1>4. CASE HandleSetListenSerial
  BY <1>4, <1>b, <1>d DEF HandleSetListenSerial, Done, Handling
<1>5. CASE WorkerStopped
  BY <1>5, <1>b DEF WorkerStopped, Done
<1>6. CASE WorkerFreed
  BY <1>6, <1>b DEF WorkerFreed, Done
<1>7. CASE HandleModuleConnected
  BY <1>7, <1>b DEF HandleModuleConnected, Done, Handling
<1>8. CASE HandleModuleDisconnected
  <2>1. CASE Running
    <3>1. /\ control.pc = "handle" /\ UNCHANGED <<queue, client>>
          /\ control'.pc = "freeing" /\ control'.msg = control.msg
      BY <1>8, <1>a, <2>1 DEF HandleModuleDisconnected, ControlRecord, Handling
    <3> QED
      BY <1>c, <3>1
  <2>2. CASE ~Running
    BY <1>8, <1>b, <2>2 DEF HandleModuleDisconnected, Done, Handling
  <2> QED
    BY <2>1, <2>2
<1>9. CASE HandleConnectionEstablished
  BY <1>9, <1>b DEF HandleConnectionEstablished, Done, Handling
<1>10. CASE HandleIsConnected
  <2> DEFINE b == state = "ConnectionEstablished"
  <2>1. b \in BOOLEAN /\ Reply(b) /\ control.pc /= "get" /\ UNCHANGED queue
    BY <1>10 DEF HandleIsConnected, Handling
  <2> HIDE DEF b
  <2> QED
    BY <1>b, <2>1
<1> QED
  BY <1>1, <1>2, <1>3, <1>4, <1>5, <1>6, <1>7, <1>8, <1>9, <1>10 DEF ControlStep

LEMMA ClientKeepsCalls == CallInv /\ ClientStep => CallInv'
<1> SUFFICES ASSUME CallInv, ClientStep PROVE CallInv'
  OBVIOUS
<1> USE DEF CallInv
<1>0. TypeOK'
  BY ClientKeepsType
<1>a. client \in [Client -> ClientRecord] /\ queue \in Seq(Message)
  BY DEF TypeOK
<1>b. UNCHANGED control
  BY DEF ClientStep, PutCall, HolderDisable, HolderAcquire, HolderRelease, HolderEnable,
         SettingChanged, AskConnected, serviceVars, serialVars
(* A step that leaves the queue alone, and nobody starting or ceasing to wait. *)
<1>c. ASSUME UNCHANGED queue,
             \A c \in Client : /\ client'[c].pc = "wait" <=> client[c].pc = "wait"
                               /\ client'[c].call.from = c
      PROVE  CallInv'
  BY <1>0, <1>b, <1>c DEF EveryCallIsAnsweredOnce, InHand, Owed
<1>d. ASSUME NEW d \in Client, NEW t, NEW s, Call(d, t, s), client[d].pc = "idle", UNCHANGED queue
      PROVE  CallInv'
  <2>1. ASSUME NEW c \in Client
        PROVE  /\ client'[c].pc = "wait" <=> client[c].pc = "wait"
               /\ client'[c].call.from = c
    BY <1>a, <1>d DEF Call, ClientRecord
  <2> QED
    BY <1>c, <1>d, <2>1
<1>1. ASSUME NEW d \in Client, PutCall(d) PROVE CallInv'
  <2>1. /\ client[d].pc = "put" /\ client'[d].pc = "wait"
        /\ \A c \in Client : client'[c].call = client[c].call
        /\ \A c \in Client \ {d} : client'[c] = client[c]
    BY <1>a, <1>1 DEF PutCall, ClientRecord
  <2>2. client[d].call \in Message /\ client[d].call.from = d /\ Put(client[d].call)
    BY <1>a, <1>1 DEF PutCall, ClientRecord
  <2>3. \A c \in Client : Owed(c)' = IF c = d THEN Owed(c) \union {Len(queue) + 1} ELSE Owed(c)
    BY <2>2, OwedOfAppend
  <2>4. \A c \in Client : InHand(c)' <=> InHand(c)
    BY <1>b DEF InHand
  <2>5. ~InHand(d) /\ Owed(d) = {}
    BY <2>1 DEF EveryCallIsAnsweredOnce
  <2>6. \A c \in Client : client'[c].call.from = c
    BY <2>1
  <2>7. ASSUME NEW c \in Client
        PROVE  /\ client'[c].pc = "wait" <=> InHand(c)' \/ Owed(c)' /= {}
               /\ InHand(c)' => Owed(c)' = {}
               /\ \A i, j \in Owed(c)' : i = j
    <3>1. CASE c = d
      BY <2>1, <2>3, <2>4, <2>5, <3>1
    <3>2. CASE c /= d
      BY <2>1, <2>3, <2>4, <3>2 DEF EveryCallIsAnsweredOnce
    <3> QED
      BY <3>1, <3>2
  <2> QED
    BY <1>0, <2>6, <2>7 DEF EveryCallIsAnsweredOnce
<1>2. ASSUME NEW d \in Holders, HolderDisable(d) \/ HolderEnable(d) PROVE CallInv'
  BY <1>2, <1>d DEF HolderDisable, HolderEnable, Client, serviceVars
<1>3. ASSUME NEW d \in Callers, NEW u, AskConnected(d) \/ SettingChanged(d, u) PROVE CallInv'
  BY <1>3, <1>d DEF AskConnected, SettingChanged, Client, serviceVars
<1>4. ASSUME NEW d \in Holders, NEW s \in Serial, HolderAcquire(d, s) PROVE CallInv'
  <2>1. ASSUME NEW c \in Client
        PROVE  /\ client'[c].pc = "wait" <=> client[c].pc = "wait"
               /\ client'[c].call.from = c
    BY <1>4, <1>a DEF HolderAcquire, ClientRecord
  <2> QED
    BY <1>4, <1>c, <2>1 DEF HolderAcquire, serviceVars
<1>5. ASSUME NEW d \in Holders, HolderRelease(d) PROVE CallInv'
  <2>1. ASSUME NEW c \in Client
        PROVE  /\ client'[c].pc = "wait" <=> client[c].pc = "wait"
               /\ client'[c].call.from = c
    BY <1>5, <1>a DEF HolderRelease, ClientRecord
  <2> QED
    BY <1>5, <1>c, <2>1 DEF HolderRelease, serviceVars
<1> QED
  BY <1>1, <1>2, <1>3, <1>4, <1>5 DEF ClientStep

LEMMA WorkerKeepsCalls == CallInv /\ (Detect \/ WorkerStep) => CallInv'
<1> SUFFICES ASSUME CallInv, Detect \/ WorkerStep PROVE CallInv'
  OBVIOUS
<1> USE DEF CallInv
<1>0. TypeOK'
  BY WorkerKeepsType
<1>a. UNCHANGED <<control, client>>
  BY DEF Detect, WorkerStep, WorkerAcquire, WorkerHandshake, WorkerTellConnected,
         WorkerSeesStop, WorkerTimesOut, WorkerFails, WorkerRelease, WorkerTellExit,
         controlVars, serialVars
<1>1. ASSUME UNCHANGED queue PROVE CallInv'
  BY <1>0, <1>1, <1>a DEF EveryCallIsAnsweredOnce, InHand, Owed
<1>2. ASSUME NEW t \in WorkerEvent \union {"ModuleConnected"}, Put(Event(t)) PROVE CallInv'
  <2>1. Event(t) \in Message /\ Event(t).from \notin Client
    BY EventIsMessage, NamesAssumption DEF Event
  <2>2. \A c \in Client : Owed(c)' = Owed(c)
    BY <1>2, <2>1, OwedOfAppend
  <2> QED
    BY <1>0, <1>a, <2>2 DEF EveryCallIsAnsweredOnce, InHand
<1> QED
  BY <1>1, <1>2 DEF Detect, WorkerStep, WorkerAcquire, WorkerHandshake, WorkerTellConnected,
         WorkerSeesStop, WorkerTimesOut, WorkerFails, WorkerRelease, WorkerTellExit,
         controlVars, serialVars, WorkerEvent

LEMMA CallInvariance == Spec => []CallInv
<1>1. Init => CallInv
  <2> SUFFICES ASSUME Init PROVE CallInv
    OBVIOUS
  <2>1. TypeOK
    BY InitType
  <2>2. \A c \in Client : client[c].call.from = c /\ client[c].pc /= "wait"
    BY DEF Init
  <2>3. \A c \in Client : Owed(c) = {} /\ ~InHand(c)
    BY DEF Init, Owed, InHand
  <2> QED
    BY <2>1, <2>2, <2>3 DEF CallInv, EveryCallIsAnsweredOnce
<1>2. CallInv /\ [Next]_vars => CallInv'
  <2> SUFFICES ASSUME CallInv, [Next]_vars PROVE CallInv'
    OBVIOUS
  <2>1. CASE Next
    BY <2>1, ControlKeepsCalls, ClientKeepsCalls, WorkerKeepsCalls DEF Next
  <2>2. CASE UNCHANGED vars
    BY <2>2 DEF vars, CallInv, TypeOK, EveryCallIsAnsweredOnce, Owed, InHand
  <2> QED
    BY <2>1, <2>2
<1> QED
  BY <1>1, <1>2, PTL DEF Spec

(* Every client that waits on its api_lock has exactly one message, queued or in
   the handler's hands, through every handler, early return and join: nobody is
   answered twice, on a lock already freed, and nobody is forgotten. *)
THEOREM CallsAnsweredOnce == Spec => []EveryCallIsAnsweredOnce
<1>1. CallInv => EveryCallIsAnsweredOnce
  BY DEF CallInv
<1> QED
  BY CallInvariance, <1>1, PTL
--------------------------------------------------------------------------------
(* One application at a time. When nobody listens on a chosen port and a single
   application switches the service, what expansion.h promises of
   expansion_disable holds, and the worker always gets its serial handle.
   (With two, or with the settings application, it does not.) *)

Solo == Callers = {} /\ \A c, d \in Holders : c = d

NoListen(m) == m.type /= "SetListenSerial"

SoloInv ==
    /\ \A c \in Client : NoListen(client[c].call)
    /\ \A i \in 1..Len(queue) : NoListen(queue[i])
    /\ NoListen(control.msg)
    /\ control.pc = "freeing" => control.msg.type /= "Disable"
    /\ \A h \in Holders :
          /\ client[Boot].pc /= "idle" => client[h].pc = "idle" /\ ~client[h].off
          /\ client[h].has /= NoSerial => client[h].pc = "idle" /\ client[h].off
          /\ client[h].pc = "idle" /\ client[h].off => state = "Disabled"
    /\ client[Boot].has = NoSerial
    /\ \A s \in Serial : holder[s] \in Client => client[holder[s]].has = s
    /\ WorkerGetsItsPort

FullInv == Inv /\ CallInv /\ SoloInv

LEMMA SoloControl == ASSUME Solo, FullInv, ControlStep PROVE SoloInv'
<1> USE DEF FullInv, SoloInv
<1>a. /\ control \in ControlRecord /\ queue \in Seq(Message) /\ worker \in WorkerRecord
      /\ client \in [Client -> ClientRecord] /\ state \in ExpansionState
  BY DEF Inv, TypeOK
<1>b. Client = {Boot} \union Holders /\ Boot \notin Holders
  BY ClientAssumption DEF Solo, Client
<1>c. control.pc /= "get" /\ control.msg.from \in Client => client[control.msg.from].pc = "wait"
  BY DEF CallInv, EveryCallIsAnsweredOnce, InHand
(* The handlers that answer. *)
<1>d. ASSUME NEW b \in BOOLEAN, Reply(b), control.pc /= "get", UNCHANGED <<queue, holder>>,
             control.msg.type = "Disable" => state' = "Disabled",
             state = "Disabled" /\ control.msg.type /= "Enable" => state' = "Disabled",
             worker'.phase \in {"none", "new", worker.phase}
      PROVE  SoloInv'
  <2>1. control'.pc = "get" /\ control'.msg = control.msg
    BY <1>a, <1>d DEF Reply, ControlRecord
  <2>2. ASSUME NEW c \in Client
        PROVE  /\ client'[c].has = client[c].has /\ client'[c].call = client[c].call
               /\ control.msg.from = c =>
                     client'[c].pc = "idle" /\ client'[c].off = (control.msg.type = "Disable")
               /\ control.msg.from /= c => client'[c] = client[c]
    BY <1>a, <1>d, NamesAssumption DEF Reply, ClientRecord
  <2>3. ASSUME NEW h \in Holders
        PROVE  /\ client'[Boot].pc /= "idle" => client'[h].pc = "idle" /\ ~client'[h].off
               /\ client'[h].has /= NoSerial => client'[h].pc = "idle" /\ client'[h].off
               /\ client'[h].pc = "idle" /\ client'[h].off => state' = "Disabled"
    <3>1. CASE control.msg.from = h
      <4>1. client[h].pc = "wait"
        BY <1>b, <1>c, <1>d, <3>1
      <4>2. client[h].has = NoSerial /\ client[Boot].pc = "idle"
        BY <4>1
      <4>3. client'[Boot] = client[Boot]
        BY <1>b, <2>2, <3>1
      <4>4. /\ client'[h].has = client[h].has
            /\ client'[h].off = (control.msg.type = "Disable")
        BY <1>b, <2>2, <3>1
      <4> QED
        BY <1>d, <4>2, <4>3, <4>4
    <3>2. CASE control.msg.from /= h
      <4>1. client'[h] = client[h]
        BY <1>b, <2>2, <3>2
      <4>2. client'[Boot].pc /= "idle" => client[Boot].pc /= "idle"
        BY <1>b, <2>2
      <4>3. ASSUME client[h].pc = "idle", client[h].off PROVE state' = "Disabled"
        <5>1. control.msg.type /= "Enable"
          <6>1. control.msg.from \notin Client
            BY <1>b, <1>c, <1>d, <3>2, <4>3 DEF Solo
          <6> QED
            BY <1>a, <6>1 DEF ControlRecord, Message, ApiCall
        <5> QED
          BY <1>d, <4>3, <5>1
      <4> QED
        BY <4>1, <4>2, <4>3
    <3> QED
      BY <3>1, <3>2
  <2>4. \A s \in Serial : holder'[s] \in Client => client'[holder'[s]].has = s
    BY <1>d, <2>2
  <2>5. WorkerGetsItsPort'
    BY <1>d DEF WorkerGetsItsPort
  <2>6. \A c \in Client : NoListen(client'[c].call)
    BY <2>2
  <2>7. \A i \in 1..Len(queue') : NoListen(queue'[i])
    BY <1>d
  <2>8. NoListen(control'.msg) /\ control'.pc /= "freeing" /\ client'[Boot].has = NoSerial
    BY <1>b, <2>1, <2>2
  <2> QED
    BY <2>3, <2>4, <2>5, <2>6, <2>7, <2>8
(* The handlers that go to join a worker: nobody is off. *)
<1>e. ASSUME control'.msg = control.msg, UNCHANGED <<queue, client, holder>>, Running,
             control'.pc = "freeing" => control.msg.type /= "Disable",
             worker'.phase = worker.phase
      PROVE  SoloInv'
  <2>1. \A h \in Holders : ~(client[h].pc = "idle" /\ client[h].off)
    BY <1>e DEF Running
  <2> QED
    BY <1>e, <2>1 DEF WorkerGetsItsPort
<1>1. CASE ControlGet
  <2>1. /\ UNCHANGED <<client, holder, state, worker>> /\ queue /= <<>>
        /\ queue' = Tail(queue) /\ control'.pc = "handle" /\ control'.msg = Head(queue)
    BY <1>1 DEF ControlGet, serialVars
  <2>2. \A i \in 1..Len(queue') : NoListen(queue'[i])
    BY <1>a, <2>1
  <2>3. NoListen(Head(queue))
    BY <1>a, <2>1
  <2> QED
    BY <2>1, <2>2, <2>3 DEF WorkerGetsItsPort
<1>2. CASE HandleEnable
  BY <1>2, <1>d DEF HandleEnable, Done, Handling
<1>3. CASE HandleDisable
  <2>1. CASE Running
    <3>1. /\ control'.msg = control.msg /\ control'.pc = "stopping"
          /\ worker'.phase = worker.phase /\ UNCHANGED <<queue, client, holder>>
      BY <1>3, <1>a, <2>1 DEF HandleDisable, StopWorker, ControlRecord, WorkerRecord, Running
    <3> QED
      BY <1>e, <2>1, <3>1
  <2>2. CASE ~Running
    BY <1>3, <1>d, <2>2 DEF HandleDisable, Done, Handling
  <2> QED
    BY <2>1, <2>2
<1>4. CASE HandleSetListenSerial
  BY <1>4 DEF HandleSetListenSerial, Handling, NoListen
<1>5. CASE WorkerStopped
  <2>1. state' = "Disabled"
    BY <1>5 DEF WorkerStopped, NoListen
  <2> QED
    BY <1>5, <1>d, <2>1 DEF WorkerStopped, Done, NoWorker
<1>6. CASE WorkerFreed
  BY <1>6, <1>d DEF WorkerFreed, Done, NoWorker
<1>7. CASE HandleModuleConnected
  <2>1. worker'.phase \in {"none", "new", worker.phase}
    BY <1>7 DEF HandleModuleConnected, NoWorker
  <2> QED
    BY <1>7, <1>d, <2>1 DEF HandleModuleConnected, Done, Handling
<1>8. CASE HandleModuleDisconnected
  <2>1. CASE Running
    <3>1. /\ control'.msg = control.msg /\ control.msg.type = "ModuleDisconnected"
          /\ UNCHANGED <<queue, client, holder, worker>>
      BY <1>8, <1>a, <2>1 DEF HandleModuleDisconnected, Handling, ControlRecord, serialVars
    <3> QED
      BY <1>e, <2>1, <3>1
  <2>2. CASE ~Running
    BY <1>8, <1>d, <2>2 DEF HandleModuleDisconnected, Done, Handling, serialVars
  <2> QED
    BY <2>1, <2>2
<1>9. CASE HandleConnectionEstablished
  BY <1>9, <1>d DEF HandleConnectionEstablished, Done, Handling, serialVars, Running
<1>10. CASE HandleIsConnected
  <2> DEFINE b == state = "ConnectionEstablished"
  <2>1. b \in BOOLEAN /\ Reply(b)
    BY <1>10 DEF HandleIsConnected
  <2> HIDE DEF b
  <2> QED
    BY <1>10, <1>d, <2>1 DEF HandleIsConnected, Handling, serialVars
<1> QED
  BY <1>1, <1>2, <1>3, <1>4, <1>5, <1>6, <1>7, <1>8, <1>9, <1>10 DEF ControlStep
LEMMA SoloClient == ASSUME Solo, FullInv, ClientStep PROVE SoloInv'
<1> USE DEF FullInv, SoloInv
<1>a. /\ queue \in Seq(Message) /\ client \in [Client -> ClientRecord]
      /\ holder \in [Serial -> {Free, Worker} \union Client]
  BY DEF Inv, TypeOK
<1>b. Client = {Boot} \union Holders /\ Boot \notin Holders
  BY ClientAssumption DEF Solo, Client
<1>c. UNCHANGED <<state, control, worker>>
  BY DEF ClientStep, PutCall, HolderDisable, HolderAcquire, HolderRelease, HolderEnable,
         SettingChanged, AskConnected, serviceVars, serialVars
(* One client moves; the queue, if it changes at all, takes no listen. *)
<1>d. ASSUME NEW d \in Client, \A c \in Client \ {d} : client'[c] = client[c],
             NoListen(client'[d].call),
             d = Boot => client'[d].pc /= "idle" /\ client[d].pc /= "idle"
                         /\ client'[d].has = NoSerial,
             d \in Holders =>
                /\ client[Boot].pc = "idle"
                /\ client'[d].has /= NoSerial => client'[d].pc = "idle" /\ client'[d].off
                /\ client'[d].pc = "idle" /\ client'[d].off => state = "Disabled",
             \A i \in 1..Len(queue') : NoListen(queue'[i]),
             \A s \in Serial : holder'[s] \in Client => client'[holder'[s]].has = s
      PROVE  SoloInv'
  BY <1>b, <1>c, <1>d DEF WorkerGetsItsPort, Solo
<1>e. ASSUME NEW d \in Client, \A c \in Client : client'[c].has = client[c].has, UNCHANGED holder
      PROVE  \A s \in Serial : holder'[s] \in Client => client'[holder'[s]].has = s
  BY <1>e
<1>1. ASSUME NEW d \in Client, PutCall(d) PROVE SoloInv'
  <2>1. /\ client[d].pc = "put" /\ client'[d].pc = "wait"
        /\ \A c \in Client : client'[c].call = client[c].call /\ client'[c].has = client[c].has
        /\ \A c \in Client \ {d} : client'[c] = client[c]
        /\ UNCHANGED holder
    BY <1>a, <1>1 DEF PutCall, ClientRecord, serialVars
  <2>2. \A i \in 1..Len(queue') : NoListen(queue'[i])
    <3>1. queue' = Append(queue, client[d].call) /\ client[d].call \in Message
      BY <1>a, <1>1 DEF PutCall, Put, ClientRecord
    <3>2. /\ Len(queue') = Len(queue) + 1 /\ queue'[Len(queue) + 1] = client[d].call
          /\ \A i \in 1..Len(queue) : queue'[i] = queue[i]
          /\ Len(queue) \in Nat
      BY <1>a, <3>1
    <3> QED
      BY <3>2
  <2> QED
    BY <1>b, <1>d, <1>e, <2>1, <2>2
<1>2. ASSUME NEW d \in Holders, Booted,
             HolderDisable(d) \/ HolderEnable(d) PROVE SoloInv'
  <2>1. client[d].pc = "idle" /\ client[d].has = NoSerial /\ UNCHANGED <<holder, queue>>
    BY <1>2 DEF HolderDisable, HolderEnable, serialVars, serviceVars
  <2>2. PICK t \in {"Enable", "Disable"} : Call(d, t, NoSerial)
    BY <1>2 DEF HolderDisable, HolderEnable
  <2>3. /\ client'[d].pc = "put" /\ NoListen(client'[d].call)
        /\ \A c \in Client : client'[c].has = client[c].has
        /\ \A c \in Client \ {d} : client'[c] = client[c]
    BY <1>a, <1>b, <2>2 DEF Call, ClientRecord, NoListen
  <2> QED
    BY <1>b, <1>d, <1>e, <1>2, <2>1, <2>3 DEF Booted
<1>3. ASSUME NEW d \in Holders, NEW s \in Serial, Booted, HolderAcquire(d, s) PROVE SoloInv'
  <2>1. /\ client[d].pc = "idle" /\ client[d].off /\ client[d].has = NoSerial
        /\ client'[d].pc = "idle" /\ client'[d].off /\ client'[d].has = s
        /\ client'[d].call = client[d].call
        /\ \A c \in Client \ {d} : client'[c] = client[c]
        /\ UNCHANGED queue
        /\ holder' = [holder EXCEPT ![s] = d]
    BY <1>a, <1>b, <1>3 DEF HolderAcquire, Take, ClientRecord, serviceVars
  <2>2. \A t \in Serial : holder'[t] \in Client => client'[holder'[t]].has = t
    BY <1>a, <1>b, <2>1, SerialAssumption
  <2> QED
    BY <1>b, <1>d, <1>3, <2>1, <2>2 DEF Booted
<1>4. ASSUME NEW d \in Holders, Booted, HolderRelease(d) PROVE SoloInv'
  <2>1. /\ client[d].pc = "idle" /\ client[d].has \in Serial
        /\ client'[d].pc = "idle" /\ client'[d].off = client[d].off
        /\ client'[d].has = NoSerial
        /\ client'[d].call = client[d].call
        /\ \A c \in Client \ {d} : client'[c] = client[c]
        /\ UNCHANGED queue
        /\ holder' = [holder EXCEPT ![client[d].has] = Free]
    BY <1>a, <1>b, <1>4 DEF HolderRelease, GiveBack, ClientRecord, serviceVars
  <2>2. \A t \in Serial : holder'[t] \in Client => client'[holder'[t]].has = t
    BY <1>a, <1>b, <2>1, SerialAssumption, NamesAssumption
  <2> QED
    BY <1>b, <1>d, <1>4, <2>1, <2>2 DEF Booted
<1> QED
  BY <1>1, <1>2, <1>3, <1>4 DEF ClientStep, Solo

LEMMA SoloWorker == ASSUME Solo, FullInv, Detect \/ WorkerStep PROVE SoloInv'
<1> USE DEF FullInv, SoloInv
<1>a. /\ queue \in Seq(Message) /\ worker \in WorkerRecord
      /\ holder \in [Serial -> {Free, Worker} \union Client]
  BY DEF Inv, TypeOK
<1>b. Client = {Boot} \union Holders
  BY DEF Solo, Client
<1>c. UNCHANGED <<state, control, client>>
  BY DEF Detect, WorkerStep, WorkerAcquire, WorkerHandshake, WorkerTellConnected,
         WorkerSeesStop, WorkerTimesOut, WorkerFails, WorkerRelease, WorkerTellExit,
         controlVars, serialVars
<1>1. \A i \in 1..Len(queue') : NoListen(queue'[i])
  <2>1. CASE UNCHANGED queue
    BY <2>1
  <2>2. ASSUME NEW t \in WorkerEvent \union {"ModuleConnected"}, Put(Event(t))
        PROVE  \A i \in 1..Len(queue') : NoListen(queue'[i])
    <3>1. Event(t) \in Message /\ NoListen(Event(t))
      BY EventIsMessage DEF Event, NoListen, WorkerEvent
    <3>2. /\ Len(queue') = Len(queue) + 1 /\ queue'[Len(queue) + 1] = Event(t)
          /\ \A i \in 1..Len(queue) : queue'[i] = queue[i]
          /\ Len(queue) \in Nat
      BY <1>a, <2>2, <3>1 DEF Put
    <3> QED
      BY <3>1, <3>2
  <2> QED
    BY <2>1, <2>2 DEF Detect, WorkerStep, WorkerAcquire, WorkerHandshake,
       WorkerTellConnected, WorkerSeesStop, WorkerTimesOut, WorkerFails, WorkerRelease,
       WorkerTellExit, controlVars, serialVars, WorkerEvent
<1>2. \A s \in Serial : holder'[s] \in Client => holder'[s] = holder[s]
  BY <1>a, NamesAssumption
  DEF Detect, WorkerStep, WorkerAcquire, WorkerHandshake, WorkerTellConnected,
      WorkerSeesStop, WorkerTimesOut, WorkerFails, WorkerRelease, WorkerTellExit,
      controlVars, serialVars, Take, GiveBack
(* A worker exists, so the service is not Disabled, so the application is not
   off, so it holds no handle; and the worker's own handle is not taken yet. *)
<1>3. CASE WorkerAcquire
  <2>1. worker.phase = "new" /\ worker.serial \in Serial
    BY <1>3 DEF WorkerAcquire, Inv, ControlInv
  <2>2. state /= "Disabled"
    BY <2>1 DEF Inv, ControlInv, Running
  <2>3. \A c \in Client : client[c].has = NoSerial
    BY <1>b, <2>2
  <2>4. holder[worker.serial] = Free
    BY <1>a, <2>1, <2>3, SerialAssumption DEF Inv, WorkerHoldsItsPort
  <2>5. WorkerGetsItsPort'
    BY <1>3, <1>a, <2>4 DEF WorkerAcquire, WorkerGoes, WorkerGetsItsPort, WorkerRecord
  <2> QED
    BY <1>1, <1>2, <1>b, <1>c, <2>5
<1>4. CASE ~WorkerAcquire
  <2>1. WorkerGetsItsPort'
    <3> USE <1>a DEF WorkerGetsItsPort, WorkerGoes, WorkerRecord
    <3>1. CASE Detect
      BY <3>1 DEF Detect
    <3>2. CASE WorkerHandshake \/ WorkerTellConnected
      BY <3>2 DEF WorkerHandshake, WorkerTellConnected
    <3>3. ASSUME NEW quits \in BOOLEAN, WorkerSeesStop(quits) PROVE WorkerGetsItsPort'
      BY <3>3 DEF WorkerSeesStop
    <3>4. ASSUME NEW quits \in BOOLEAN, WorkerTimesOut(quits) PROVE WorkerGetsItsPort'
      BY <3>4 DEF WorkerTimesOut
    <3>5. CASE WorkerFails
      BY <3>5 DEF WorkerFails
    <3>6. CASE WorkerRelease \/ WorkerTellExit
      BY <3>6 DEF WorkerRelease, WorkerTellExit
    <3> QED
      BY <1>4, <3>1, <3>2, <3>3, <3>4, <3>5, <3>6 DEF WorkerStep
  <2> QED
    BY <1>1, <1>2, <1>b, <1>c, <2>1
<1> QED
  BY <1>3, <1>4

LEMMA SoloInvariance == ASSUME Solo PROVE Spec => []SoloInv
<1>1. Init => SoloInv
  <2> SUFFICES ASSUME Init PROVE SoloInv
    OBVIOUS
  <2>1. Client = {Boot} \union Holders /\ Boot \notin Holders /\ Free \notin Client
    BY ClientAssumption, NamesAssumption DEF Solo, Client
  <2> QED
    BY <2>1 DEF Init, SoloInv, NoListen, Event, WorkerGetsItsPort, NoWorker
<1>2. FullInv /\ [Next]_vars => SoloInv'
  <2> SUFFICES ASSUME FullInv, [Next]_vars PROVE SoloInv'
    OBVIOUS
  <2>1. CASE Next
    BY <2>1, SoloControl, SoloClient, SoloWorker DEF Next
  <2>2. CASE UNCHANGED vars
    BY <2>2 DEF vars, FullInv, SoloInv, WorkerGetsItsPort
  <2> QED
    BY <2>1, <2>2
<1> QED
  BY <1>1, <1>2, Invariance, CallInvariance, PTL DEF Spec, FullInv

(* expansion_disable, when it has returned to the application that called it:
   no worker, no detection, no serial handle held by the service. *)
THEOREM DisableReleases == ASSUME Solo PROVE Spec => []OffMeansReleased
<1>1. Inv /\ SoloInv => OffMeansReleased
  BY NamesAssumption DEF Inv, SoloInv, OffMeansReleased, ControlInv, DetectionFollowsState,
     WorkerHoldsItsPort, Running, Client
<1> QED
  BY Invariance, SoloInvariance, <1>1, PTL

(* furi_check(instance->serial_handle) in expansion_worker never fails. *)
THEOREM PortIsFree == ASSUME Solo PROVE Spec => []WorkerGetsItsPort
<1>1. SoloInv => WorkerGetsItsPort
  BY DEF SoloInv
<1> QED
  BY SoloInvariance, <1>1, PTL
--------------------------------------------------------------------------------
(* What a worker reports. A worker that is gone may have left a message behind; with a
   single application such a message is handled before the service is enabled again,
   so that it is never taken for the word of the next worker. *)

Silent == \A i \in 1..Len(queue) : queue[i].type \notin WorkerEvent
InHandIs(type) == control.pc /= "get" /\ control.msg.type = type

(* A message of that type is the end of the reports in the queue. *)
EndsReports(type) ==
    /\ \A i, j \in 1..Len(queue) :
          i < j /\ queue[i].type = type => queue[j].type \notin WorkerEvent
    /\ InHandIs(type) => Silent

(* The reports that are pending while there is a worker are its own. *)
OwnReports ==
    /\ \A i \in 1..Len(queue) :
          /\ queue[i].type = "ModuleDisconnected" => worker.phase = "gone"
          /\ queue[i].type = "ConnectionEstablished" => worker.greeted
    /\ InHandIs("ModuleDisconnected") => worker.phase = "gone"
    /\ InHandIs("ConnectionEstablished") => worker.greeted

ReportInv ==
    /\ NoStaleReport
    /\ worker.phase /= "none" => OwnReports
    /\ state = "Enabled" /\ control.pc /= "freeing" =>
          Silent /\ ~InHandIs("ModuleDisconnected") /\ ~InHandIs("ConnectionEstablished")
    /\ EndsReports("ModuleDisconnected")
    /\ state = "Disabled" => EndsReports("Enable")
    /\ control.pc = "freeing" => control.msg.type = "ModuleDisconnected"
    /\ control.pc = "stopping" => control.msg.type = "Disable"

Quiet == {"ModuleDisconnected", "Enable"}  \* the types that end the reports

(* While a call is in hand no other call is in the queue: one application calls. *)
LEMMA OneCall ==
    ASSUME Solo, FullInv, control.pc /= "get", control.msg.type \in ApiCall
    PROVE  \A i \in 1..Len(queue) : queue[i].type \notin ApiCall
<1>1. control.msg \in Message /\ queue \in Seq(Message)
  BY DEF FullInv, Inv, TypeOK, ControlRecord
<1>2. PICK c \in Client : control.msg.from = c
  BY <1>1 DEF Message
<1>3. client[c].pc = "wait" /\ Owed(c) = {}
  BY <1>2 DEF FullInv, CallInv, EveryCallIsAnsweredOnce, InHand
<1>4. Client = {Boot} \union Holders
  BY DEF Solo, Client
<1> SUFFICES ASSUME NEW i \in 1..Len(queue), queue[i].type \in ApiCall PROVE FALSE
  OBVIOUS
<1>5. queue[i] \in Message
  BY <1>1
<1>6. PICK d \in Client : queue[i].from = d
  BY <1>5 DEF Message
<1>7. i \in Owed(d)
  BY <1>6 DEF Owed
<1>8. client[d].pc = "wait" /\ d /= c
  BY <1>3, <1>7 DEF FullInv, CallInv, EveryCallIsAnsweredOnce
<1>9. \A h \in Holders : client[Boot].pc /= "idle" => client[h].pc = "idle"
  BY DEF FullInv, SoloInv
<1> QED
  BY <1>3, <1>4, <1>8, <1>9 DEF Solo

(* A message that is not a report comes into the queue, or the first one leaves it. *)
LEMMA AppendKeepsReports ==
    ASSUME TypeOK, ReportInv, NEW m \in Message, Put(m), m.type \notin WorkerEvent,
           UNCHANGED <<state, control, worker>>
    PROVE  ReportInv'
<1>1. /\ Len(queue) \in Nat /\ Len(queue') = Len(queue) + 1 /\ queue'[Len(queue) + 1] = m
      /\ \A i \in 1..Len(queue) : queue'[i] = queue[i]
  BY DEF TypeOK, Put
<1>2. \A i \in 1..Len(queue') : \/ /\ i \in 1..Len(queue)
                                   /\ queue'[i] = queue[i]
                                \/ /\ i = Len(queue) + 1
                                   /\ queue'[i].type \notin WorkerEvent
  BY <1>1
<1>3. Silent => Silent'
  BY <1>2 DEF Silent
<1>4. \A type \in Quiet : InHandIs(type)' <=> InHandIs(type)
  BY DEF InHandIs
<1>5. ASSUME NEW type \in Quiet, EndsReports(type) PROVE EndsReports(type)'
  <2>1. ASSUME NEW i \in 1..Len(queue'), NEW j \in 1..Len(queue'), i < j, queue'[i].type = type
        PROVE  queue'[j].type \notin WorkerEvent
    <3>1. CASE j \in 1..Len(queue)
      BY <1>1, <1>2, <1>5, <2>1, <3>1 DEF EndsReports
    <3> QED
      BY <1>2, <3>1
  <2> QED
    BY <1>3, <1>4, <1>5, <2>1 DEF EndsReports
<1>6. OwnReports => OwnReports'
  BY <1>2 DEF OwnReports, InHandIs, WorkerEvent
<1> QED
  BY <1>3, <1>5, <1>6 DEF ReportInv, NoStaleReport, InHandIs, Quiet

LEMMA GetKeepsReports ==
    ASSUME TypeOK, ReportInv, ControlGet
    PROVE  ReportInv'
<1>1. /\ Len(queue) \in Nat /\ Len(queue) >= 1 /\ Len(queue') = Len(queue) - 1
      /\ Head(queue) = queue[1] /\ \A i \in 1..(Len(queue) - 1) : queue'[i] = queue[i + 1]
  BY DEF TypeOK, ControlGet
<1>2. control'.pc = "handle" /\ control'.msg = queue[1] /\ control.pc = "get"
      /\ UNCHANGED <<state, worker>>
  BY <1>1 DEF ControlGet
<1>3. 1 \in 1..Len(queue) /\ \A i \in 1..Len(queue') :
        i + 1 \in 1..Len(queue) /\ 1 < i + 1 /\ queue'[i] = queue[i + 1]
  BY <1>1
<1>4. Silent => (Silent' /\ queue[1].type \notin WorkerEvent)
  BY <1>3 DEF Silent
<1>5. ASSUME NEW type \in Quiet, EndsReports(type) PROVE EndsReports(type)'
  <2>1. ASSUME NEW i \in 1..Len(queue'), NEW j \in 1..Len(queue'), i < j, queue'[i].type = type
        PROVE  queue'[j].type \notin WorkerEvent
    <3>1. i + 1 \in 1..Len(queue) /\ j + 1 \in 1..Len(queue) /\ i + 1 < j + 1
      BY <1>3, <2>1
    <3> QED
      BY <1>3, <1>5, <2>1, <3>1 DEF EndsReports
  <2>2. queue[1].type = type => Silent'
    BY <1>3, <1>5 DEF EndsReports, Silent
  <2> QED
    BY <1>2, <2>1, <2>2 DEF EndsReports, InHandIs
<1>6. OwnReports => OwnReports'
  BY <1>2, <1>3 DEF OwnReports, InHandIs
<1> QED
  BY <1>2, <1>4, <1>5, <1>6 DEF ReportInv, NoStaleReport, InHandIs, Quiet, WorkerEvent

(* The control thread answers, or goes on with the message that it has in hand. *)
LEMMA HandKeepsReports ==
    ASSUME UNCHANGED queue,
           control'.pc = "get" \/ (control.pc /= "get" /\ control'.msg = control.msg)
    PROVE  /\ Silent' <=> Silent
           /\ \A type \in Quiet : EndsReports(type) => EndsReports(type)'
           /\ (worker.phase = "gone" => worker'.phase = "gone") /\ (worker.greeted => worker'.greeted)
                => (OwnReports => OwnReports')
<1>1. Silent' <=> Silent
  BY DEF Silent
<1>2. \A type \in Quiet : InHandIs(type)' => InHandIs(type)
  BY DEF InHandIs
<1>3. \A type \in {"ModuleDisconnected", "ConnectionEstablished"} : InHandIs(type)' => InHandIs(type)
  BY DEF InHandIs
<1> QED
  BY <1>1, <1>2, <1>3 DEF EndsReports, OwnReports

LEMMA ControlKeepsReports == ASSUME Solo, FullInv, ReportInv, ControlStep PROVE ReportInv'
<1> USE DEF Quiet
<1>a. /\ TypeOK /\ control \in ControlRecord /\ worker \in WorkerRecord /\ state \in ExpansionState
      /\ NoListen(control.msg)
  BY DEF FullInv, Inv, TypeOK, SoloInv
<1>b. worker.phase /= "none" <=> Running \/ control.pc = "freeing"
  BY DEF FullInv, Inv, ControlInv
<1>c. ASSUME NEW b \in BOOLEAN, Reply(b) PROVE control'.pc = "get"
  BY <1>a, <1>c, ReplyKeepsHas
(* Handlers that answer and change nothing else, or only the state. *)
<1>d. ASSUME NEW b \in BOOLEAN, Reply(b), control.pc = "handle", UNCHANGED <<queue, state, worker>>
      PROVE  ReportInv'
  <2>1. control'.pc = "get"
    BY <1>c, <1>d
  <2> QED
    BY <1>d, <2>1, HandKeepsReports DEF ReportInv, NoStaleReport, InHandIs
(* The service is switched off: no other call is in the queue. *)
<1>e. ASSUME Reply(FALSE), control.pc /= "get", control.msg.type = "Disable", UNCHANGED queue,
             state' = "Disabled", worker'.phase = "none"
      PROVE  ReportInv'
  <2>1. control'.pc = "get"
    BY <1>c, <1>e
  <2>2. \A i \in 1..Len(queue) : queue[i].type /= "Enable"
    BY <1>e, OneCall DEF ApiCall
  <2>3. EndsReports("Enable")'
    BY <1>e, <2>1, <2>2 DEF EndsReports, InHandIs
  <2> QED
    BY <1>e, <2>1, <2>3, HandKeepsReports DEF ReportInv, NoStaleReport
(* It goes to join its worker. *)
<1>f. ASSUME Running, control.pc = "handle", control'.msg = control.msg, UNCHANGED queue,
             worker'.phase = worker.phase, worker'.greeted = worker.greeted,
             \/ control'.pc = "stopping" /\ control.msg.type = "Disable" /\ state' = state
             \/ control'.pc = "freeing" /\ control.msg.type = "ModuleDisconnected"
                   /\ state' = "Enabled"
      PROVE  ReportInv'
  <2>1. worker.phase /= "none" /\ OwnReports
    BY <1>b, <1>f DEF ReportInv
  <2>2. control'.pc = "freeing" => worker'.phase = "gone"
    BY <1>f, <2>1 DEF OwnReports, InHandIs
  <2>3. OwnReports' /\ EndsReports("ModuleDisconnected")'
    BY <1>f, <2>1, HandKeepsReports DEF ReportInv
  <2> QED
    BY <1>f, <2>2, <2>3 DEF ReportInv, NoStaleReport, Running
<1>1. CASE ControlGet
  BY <1>1, <1>a, GetKeepsReports
<1>2. CASE HandleEnable
  <2>1. Reply(FALSE) /\ control.pc = "handle" /\ InHandIs("Enable") /\ UNCHANGED <<queue, worker>>
    BY <1>2 DEF HandleEnable, Done, Handling, InHandIs
  <2>2. CASE state = "Disabled" /\ state' = "Enabled"
    <3>1. control'.pc = "get"
      BY <1>c, <2>1
    <3>2. Silent
      BY <2>1, <2>2 DEF ReportInv, EndsReports
    <3>3. worker.phase = "none"
      BY <1>b, <2>1, <2>2 DEF Running
    <3> QED
      BY <2>1, <2>2, <3>1, <3>2, <3>3, HandKeepsReports DEF ReportInv, NoStaleReport, InHandIs
  <2>3. CASE state' = state
    BY <1>d, <2>1, <2>3
  <2> QED
    BY <1>2, <2>2, <2>3 DEF HandleEnable
<1>3. CASE HandleDisable
  <2>1. CASE Running
    <3>1. StopWorker /\ UNCHANGED queue /\ control.pc = "handle" /\ control.msg.type = "Disable"
      BY <1>3, <2>1 DEF HandleDisable, Running, Handling
    <3>2. control'.pc = "stopping" /\ control'.msg = control.msg /\ state' = state
      BY <1>a, <3>1 DEF StopWorker, ControlRecord
    <3>3. worker'.phase = worker.phase /\ worker'.greeted = worker.greeted
      BY <1>a, <3>1 DEF StopWorker, WorkerRecord
    <3> QED
      BY <1>f, <2>1, <3>1, <3>2, <3>3
  <2>2. CASE ~Running
    <3>1. /\ Reply(FALSE) /\ control.pc = "handle" /\ control.msg.type = "Disable"
          /\ UNCHANGED <<queue, worker>> /\ state' = "Disabled"
      BY <1>3, <2>2 DEF HandleDisable, Done, Handling
    <3>2. worker'.phase = "none"
      BY <1>b, <2>2, <3>1
    <3> QED
      BY <1>e, <3>1, <3>2
  <2> QED
    BY <2>1, <2>2
<1>4. CASE HandleSetListenSerial
  BY <1>4, <1>a DEF HandleSetListenSerial, Handling, NoListen
<1>5. CASE WorkerStopped
  <2>1. control.pc = "stopping" /\ control.msg.type = "Disable" /\ UNCHANGED queue
    BY <1>5 DEF WorkerStopped, ReportInv
  <2>2. state' = "Disabled" /\ Reply(FALSE) /\ worker'.phase = "none"
    BY <1>5, <2>1 DEF WorkerStopped, Done, NoWorker
  <2> QED
    BY <1>e, <2>1, <2>2
<1>6. CASE WorkerFreed
  <2>1. /\ control.pc = "freeing" /\ InHandIs("ModuleDisconnected") /\ UNCHANGED <<queue, state>>
        /\ Reply(FALSE) /\ worker'.phase = "none"
    BY <1>6 DEF WorkerFreed, Done, NoWorker, ReportInv, InHandIs
  <2>2. control'.pc = "get"
    BY <1>c, <2>1
  <2>3. Silent /\ state = "Enabled"
    BY <2>1 DEF ReportInv, EndsReports, FullInv, Inv, ControlInv
  <2> QED
    BY <2>1, <2>2, <2>3, HandKeepsReports DEF ReportInv, NoStaleReport, InHandIs
<1>7. CASE HandleModuleConnected
  <2>1. Reply(FALSE) /\ control.pc = "handle" /\ UNCHANGED queue
    BY <1>7 DEF HandleModuleConnected, Done, Handling
  <2>2. CASE state = "Enabled"
    <3>1. control'.pc = "get" /\ state' = "Running"
      BY <1>7, <1>c, <2>1, <2>2 DEF HandleModuleConnected
    <3>2. Silent'
      BY <2>1, <2>2, <3>1, HandKeepsReports DEF ReportInv
    <3>3. OwnReports'
      BY <3>1, <3>2 DEF OwnReports, Silent, InHandIs, WorkerEvent
    <3> QED
      BY <2>1, <3>1, <3>3, HandKeepsReports DEF ReportInv, NoStaleReport
  <2>3. CASE state /= "Enabled"
    BY <1>7, <1>d, <2>1, <2>3 DEF HandleModuleConnected
  <2> QED
    BY <2>2, <2>3
<1>8. CASE HandleModuleDisconnected
  <2>1. CASE Running
    <3>1. /\ control.pc = "handle" /\ control.msg.type = "ModuleDisconnected"
          /\ control'.pc = "freeing" /\ control'.msg = control.msg /\ state' = "Enabled"
          /\ UNCHANGED <<queue, worker>>
      BY <1>8, <1>a, <2>1 DEF HandleModuleDisconnected, Handling, ControlRecord
    <3> QED
      BY <1>f, <2>1, <3>1
  <2>2. CASE ~Running
    BY <1>8, <1>d, <2>2 DEF HandleModuleDisconnected, Done, Handling
  <2> QED
    BY <2>1, <2>2
<1>9. CASE HandleConnectionEstablished
  <2>1. /\ Reply(FALSE) /\ control.pc = "handle" /\ UNCHANGED <<queue, worker>>
        /\ InHandIs("ConnectionEstablished")
    BY <1>9 DEF HandleConnectionEstablished, Done, Handling, InHandIs
  <2>2. CASE Running
    <3>1. control'.pc = "get" /\ state' = "ConnectionEstablished"
      BY <1>9, <1>c, <2>1, <2>2 DEF HandleConnectionEstablished
    <3>2. OwnReports /\ worker.greeted
      BY <1>b, <2>1, <2>2 DEF ReportInv, OwnReports
    <3> QED
      BY <2>1, <3>1, <3>2, HandKeepsReports DEF ReportInv, NoStaleReport
  <2>3. CASE ~Running
    BY <1>9, <1>d, <2>1, <2>3 DEF HandleConnectionEstablished
  <2> QED
    BY <2>2, <2>3
<1>10. CASE HandleIsConnected
  <2>1. PICK b \in BOOLEAN : b = (state = "ConnectionEstablished")
    OBVIOUS
  <2>2. Reply(b) /\ control.pc = "handle" /\ UNCHANGED <<queue, state, worker>>
    BY <1>10, <2>1 DEF HandleIsConnected, Handling
  <2> QED
    BY <1>d, <2>2
<1> QED
  BY <1>1, <1>2, <1>3, <1>4, <1>5, <1>6, <1>7, <1>8, <1>9, <1>10 DEF ControlStep

LEMMA ClientKeepsReports == ASSUME FullInv, ReportInv, ClientStep \/ Detect PROVE ReportInv'
<1>1. UNCHANGED <<state, control, worker>>
  BY DEF ClientStep, Detect, PutCall, HolderDisable, HolderAcquire, HolderRelease, HolderEnable,
         SettingChanged, AskConnected, serviceVars
<1>2. ASSUME UNCHANGED queue PROVE ReportInv'
  BY <1>1, <1>2 DEF ReportInv, NoStaleReport, OwnReports, Silent, EndsReports, InHandIs
<1>3. ASSUME NEW c \in Client, PutCall(c) PROVE ReportInv'
  <2>1. TypeOK /\ client[c].call \in Message /\ client[c].call.from = c
    BY DEF FullInv, Inv, CallInv, TypeOK, ClientRecord
  <2>2. client[c].call.type \notin WorkerEvent
    BY <2>1 DEF Message, ApiCall, WorkerEvent
  <2> QED
    BY <1>1, <1>3, <2>1, <2>2, AppendKeepsReports DEF PutCall
<1>4. CASE Detect
  <2>1. TypeOK /\ Event("ModuleConnected") \in Message
        /\ Event("ModuleConnected").type \notin WorkerEvent
    BY EventIsMessage DEF FullInv, Inv, Event, WorkerEvent
  <2> QED
    BY <1>1, <1>4, <2>1, AppendKeepsReports DEF Detect
<1>5. CASE UNCHANGED queue
  BY <1>2, <1>5
<1> QED
  BY <1>3, <1>4, <1>5 DEF ClientStep, HolderDisable, HolderAcquire, HolderRelease, HolderEnable,
     SettingChanged, AskConnected, serviceVars

(* Only a worker that is not gone reports, and while it is not, it has not said that its
   module has left. *)
LEMMA WorkerKeepsReports == ASSUME FullInv, ReportInv, WorkerStep PROVE ReportInv'
<1>1. UNCHANGED <<state, control>>
  BY DEF WorkerStep, WorkerAcquire, WorkerHandshake, WorkerTellConnected, WorkerSeesStop,
         WorkerTimesOut, WorkerFails, WorkerRelease, WorkerTellExit, controlVars
<1>2. worker \in WorkerRecord /\ TypeOK
  BY DEF FullInv, Inv, TypeOK
<1>3. worker.phase \notin {"none", "gone"}
  BY DEF WorkerStep, WorkerAcquire, WorkerHandshake, WorkerTellConnected, WorkerSeesStop,
         WorkerTimesOut, WorkerFails, WorkerRelease, WorkerTellExit, WorkerGoes, Talking
<1>4. OwnReports /\ control.pc /= "freeing" /\ Running
  BY <1>3 DEF ReportInv, NoStaleReport, FullInv, Inv, ControlInv
<1>5. /\ \A i \in 1..Len(queue) : queue[i].type /= "ModuleDisconnected"
      /\ ~InHandIs("ModuleDisconnected")
  BY <1>3, <1>4 DEF OwnReports
<1>6. worker.greeted => worker'.greeted
  <2>1. ASSUME NEW p, NEW q, WorkerGoes(p, q) PROVE worker.greeted => worker'.greeted
    BY <1>2, <2>1 DEF WorkerGoes, WorkerRecord
  <2>2. ASSUME NEW quits \in BOOLEAN, WorkerSeesStop(quits) \/ WorkerTimesOut(quits)
        PROVE  worker.greeted => worker'.greeted
    BY <1>2, <2>2 DEF WorkerSeesStop, WorkerTimesOut, WorkerRecord
  <2>3. CASE WorkerTellConnected \/ WorkerFails
    BY <1>2, <2>3 DEF WorkerTellConnected, WorkerFails, WorkerRecord
  <2> QED
    BY <2>1, <2>2, <2>3 DEF WorkerStep, WorkerAcquire, WorkerHandshake, WorkerRelease, WorkerTellExit
<1>7. ASSUME queue' = queue \/
               (\E type \in WorkerEvent : Put(Event(type))
                   /\ (type = "ModuleDisconnected" => worker'.phase = "gone")
                   /\ (type = "ConnectionEstablished" => worker'.greeted))
      PROVE  ReportInv'
  <2>1. CASE queue' = queue
    <3>1. OwnReports' /\ EndsReports("ModuleDisconnected")'
      BY <1>1, <1>4, <1>5, <1>6, <2>1 DEF OwnReports, EndsReports, InHandIs
    <3> QED
      BY <1>1, <1>4, <1>6, <3>1 DEF ReportInv, NoStaleReport, Running
  <2>2. ASSUME NEW type \in WorkerEvent, Put(Event(type)),
               type = "ModuleDisconnected" => worker'.phase = "gone",
               type = "ConnectionEstablished" => worker'.greeted
        PROVE  ReportInv'
    <3>1. Event(type) \in Message /\ Event(type).type = type
      BY EventIsMessage DEF Event
    <3>2. /\ Len(queue) \in Nat /\ Len(queue') = Len(queue) + 1
          /\ queue'[Len(queue) + 1] = Event(type)
          /\ \A i \in 1..Len(queue) : queue'[i] = queue[i]
      BY <1>2, <2>2, <3>1 DEF TypeOK, Put
    <3>3. \A i \in 1..Len(queue') : \/ i \in 1..Len(queue) /\ queue'[i] = queue[i]
                                    \/ i = Len(queue) + 1 /\ queue'[i].type = type
      BY <3>1, <3>2
    <3>4. OwnReports'
      BY <1>1, <1>4, <1>5, <1>6, <2>2, <3>3 DEF OwnReports, InHandIs
    <3>5. \A i, j \in 1..Len(queue') : i < j => queue'[i].type /= "ModuleDisconnected"
      BY <1>5, <3>2, <3>3
    <3>6. EndsReports("ModuleDisconnected")'
      BY <1>1, <1>5, <3>5 DEF EndsReports, InHandIs
    <3> QED
      BY <1>1, <1>4, <1>6, <3>4, <3>6 DEF ReportInv, NoStaleReport, Running
  <2> QED
    BY <1>7, <2>1, <2>2
<1>8. CASE WorkerTellConnected
  <2>1. worker'.greeted
    BY <1>2, <1>8 DEF WorkerTellConnected, WorkerRecord
  <2> QED
    BY <1>7, <1>8, <2>1 DEF WorkerTellConnected, WorkerEvent
<1>9. CASE WorkerTellExit
  <2>1. worker'.phase = "gone"
    BY <1>2, <1>9 DEF WorkerTellExit, WorkerGoes, WorkerRecord
  <2> QED
    BY <1>7, <1>9, <2>1 DEF WorkerTellExit, WorkerEvent
<1>10. CASE ~WorkerTellConnected /\ ~WorkerTellExit
  BY <1>7, <1>10 DEF WorkerStep, WorkerAcquire, WorkerHandshake, WorkerSeesStop, WorkerTimesOut,
     WorkerFails, WorkerRelease
<1> QED
  BY <1>8, <1>9, <1>10

(* A message that a worker leaves behind is never taken for the word of the next one: a
   ModuleDisconnected message frees a worker that has ended, and a service that says it is
   connected has a worker that has agreed on a baud rate. *)
THEOREM ReportsAreNotStale == ASSUME Solo PROVE Spec => []NoStaleReport
<1>1. Init => ReportInv
  BY DEF Init, ReportInv, NoStaleReport, OwnReports, Silent, EndsReports, InHandIs, NoWorker
<1>2. FullInv /\ ReportInv /\ [Next]_vars => ReportInv'
  <2> SUFFICES ASSUME FullInv, ReportInv, [Next]_vars PROVE ReportInv'
    OBVIOUS
  <2>1. CASE Next
    BY <2>1, ControlKeepsReports, ClientKeepsReports, WorkerKeepsReports DEF Next
  <2>2. CASE UNCHANGED vars
    BY <2>2 DEF vars, ReportInv, NoStaleReport, OwnReports, Silent, EndsReports, InHandIs
  <2> QED
    BY <2>1, <2>2
<1>3. ReportInv => NoStaleReport
  BY DEF ReportInv
<1> QED
  BY <1>1, <1>2, <1>3, Invariance, CallInvariance, SoloInvariance, PTL DEF Spec, FullInv

--------------------------------------------------------------------------------
(* The service implements ExpansionService: it holds a port only while a worker
   is attached to it, and it is the port it detected the module on. *)

Holding == {"handshake", "putConnected", "connected", "release"}

LEMMA HeldWhileHolding == ASSUME Inv PROVE Held <=> worker.phase \in Holding
BY DEF Inv, WorkerHoldsItsPort, ControlInv, Held, Holding

mapped == <<Mode, Port, Held>>

LEMMA ControlRefines == ASSUME Inv, Inv', ControlStep PROVE [Service!Next]_mapped
<1> USE DEF Inv
<1>a. /\ (Held <=> worker.phase \in Holding) /\ (Held' <=> worker'.phase \in Holding)
      /\ Held \in BOOLEAN /\ Held' \in BOOLEAN
  <2>1. Held' <=> worker'.phase \in Holding
    BY HeldWhileHolding DEF Held, Holding, WorkerHoldsItsPort, ControlInv
  <2>2. Held <=> worker.phase \in Holding
    BY HeldWhileHolding
  <2> QED
    BY <2>1, <2>2 DEF Held
<1>b. detect \in Serial \union {NoSerial} /\ worker \in WorkerRecord /\ NoSerial \notin Serial
  BY DEF TypeOK
(* Nothing an observer of the port can see. *)
<1>c. ASSUME worker'.phase = worker.phase, worker'.serial = worker.serial, UNCHANGED detect
      PROVE  UNCHANGED mapped
  BY <1>a, <1>c DEF mapped, Mode, Port
(* No worker is left: the service listens, or it is off. *)
<1>d. ASSUME worker'.phase = "none", worker.phase \in {"none", "gone"}
      PROVE  [Service!Next]_mapped
  <2>1. ~Held /\ ~Held'
    BY <1>a, <1>d DEF Holding
  <2>2. detect' \in Serial \union {NoSerial}
    BY DEF TypeOK
  <2>3. CASE detect' = NoSerial
    BY <1>a, <1>d, <2>1, <2>3 DEF Service!Next, Service!Off, Mode, Port
  <2>4. CASE detect' /= NoSerial
    BY <1>a, <1>d, <2>1, <2>2, <2>4 DEF Service!Next, Service!Listen, Mode, Port
  <2> QED
    BY <2>3, <2>4
<1>1. CASE ControlGet \/ HandleModuleDisconnected \/ HandleConnectionEstablished \/ HandleIsConnected
  BY <1>1, <1>c DEF ControlGet, HandleModuleDisconnected, HandleConnectionEstablished,
                    HandleIsConnected, serialVars
<1>2. CASE HandleEnable
  <2>1. CASE state = "Disabled"
    BY <1>2, <1>d, <2>1 DEF HandleEnable, Handling, ControlInv, Running
  <2>2. CASE state /= "Disabled"
    BY <1>2, <1>c, <2>2 DEF HandleEnable
  <2> QED
    BY <2>1, <2>2
<1>3. CASE HandleDisable \/ HandleSetListenSerial
  <2>1. CASE Running
    <3>1. UNCHANGED detect /\ worker'.phase = worker.phase /\ worker'.serial = worker.serial
      BY <1>3, <1>b, <2>1
      DEF HandleDisable, HandleSetListenSerial, StopWorker, WorkerRecord, Running
    <3> QED
      BY <1>c, <3>1
  <2>2. CASE ~Running
    <3>1. UNCHANGED worker /\ worker.phase = "none"
      BY <1>3, <2>2 DEF HandleDisable, HandleSetListenSerial, Handling, ControlInv
    <3> QED
      BY <1>d, <3>1
  <2> QED
    BY <2>1, <2>2
<1>4. CASE WorkerStopped \/ WorkerFreed
  BY <1>4, <1>d DEF WorkerStopped, WorkerFreed, Joined, NoWorker
<1>5. CASE HandleModuleConnected
  <2>1. CASE state = "Enabled"
    <3>1. /\ worker.phase = "none" /\ worker'.phase = "new"
          /\ worker'.serial = serial_id /\ detect = serial_id /\ serial_id \in Serial
      BY <1>5, <2>1 DEF HandleModuleConnected, Handling, NoWorker, ControlInv, Running,
                        DetectionFollowsState, TypeOK
    <3>2. ~Held /\ ~Held'
      BY <1>a, <3>1 DEF Holding
    <3> QED
      BY <1>a, <1>b, <3>1, <3>2 DEF Service!Next, Service!Attach, Mode, Port
  <2>2. CASE state /= "Enabled"
    BY <1>5, <1>c, <2>2 DEF HandleModuleConnected
  <2> QED
    BY <2>1, <2>2
<1> QED
  BY <1>1, <1>2, <1>3, <1>4, <1>5 DEF ControlStep

LEMMA OthersRefine ==
    ASSUME Inv, Inv', ClientStep \/ Detect \/ WorkerStep PROVE [Service!Next]_mapped
<1> USE DEF Inv
<1>a. /\ (Held <=> worker.phase \in Holding) /\ (Held' <=> worker'.phase \in Holding)
      /\ Held \in BOOLEAN /\ Held' \in BOOLEAN
  <2>1. Held' <=> worker'.phase \in Holding
    BY HeldWhileHolding DEF Held, Holding, WorkerHoldsItsPort, ControlInv
  <2>2. Held <=> worker.phase \in Holding
    BY HeldWhileHolding
  <2> QED
    BY <2>1, <2>2 DEF Held
<1>b. UNCHANGED detect
  BY DEF ClientStep, PutCall, HolderDisable, HolderAcquire, HolderRelease, HolderEnable,
         SettingChanged, AskConnected, serviceVars, serialVars, Detect, WorkerStep,
         WorkerAcquire, WorkerHandshake, WorkerTellConnected, WorkerSeesStop,
         WorkerTimesOut, WorkerFails, WorkerRelease, WorkerTellExit
<1>c. worker \in WorkerRecord
  BY DEF TypeOK
<1>d. ASSUME worker'.serial = worker.serial, worker.phase = "none" <=> worker'.phase = "none",
             worker.phase \in Holding <=> worker'.phase \in Holding
      PROVE  UNCHANGED mapped
  BY <1>a, <1>b, <1>d DEF mapped, Mode, Port
<1>1. CASE ClientStep \/ Detect
  <2>1. UNCHANGED worker
    BY <1>1 DEF ClientStep, PutCall, HolderDisable, HolderAcquire, HolderRelease, HolderEnable,
         SettingChanged, AskConnected, serviceVars, Detect
  <2> QED
    BY <1>d, <2>1
<1>2. CASE WorkerAcquire
  <2>1. /\ worker.phase = "new" /\ worker'.phase \in {"handshake", "refused"}
        /\ worker'.serial = worker.serial
    BY <1>2, <1>c DEF WorkerAcquire, WorkerGoes, WorkerRecord
  <2>2. CASE worker'.phase = "handshake"
    BY <1>a, <1>b, <2>1, <2>2 DEF Service!Next, Service!Hold, Mode, Port, Holding
  <2>3. CASE worker'.phase = "refused"
    BY <1>d, <2>1, <2>3 DEF Holding
  <2> QED
    BY <2>1, <2>2, <2>3
<1>3. CASE WorkerRelease
  <2>1. /\ worker.phase = "release" /\ worker'.phase \in {"gone", "putExit"}
        /\ worker'.serial = worker.serial
    BY <1>3, <1>c DEF WorkerRelease, WorkerGoes, WorkerRecord
  <2> QED
    BY <1>a, <1>b, <2>1 DEF Service!Next, Service!Drop, Mode, Port, Holding
<1>4. CASE WorkerHandshake \/ WorkerTellConnected \/ WorkerFails \/ WorkerTellExit
           \/ \E q \in BOOLEAN : WorkerSeesStop(q) \/ WorkerTimesOut(q)
  <2>1. /\ worker'.serial = worker.serial
        /\ worker.phase = "none" <=> worker'.phase = "none"
        /\ worker.phase \in Holding <=> worker'.phase \in Holding
    BY <1>4, <1>c DEF WorkerHandshake, WorkerTellConnected, WorkerFails, WorkerTellExit,
       WorkerSeesStop, WorkerTimesOut, WorkerGoes, WorkerRecord, Holding, Talking
  <2> QED
    BY <1>d, <2>1
<1> QED
  BY <1>1, <1>2, <1>3, <1>4 DEF WorkerStep

(* Whatever its threads do, the service goes through the modes of
   ExpansionService only, and through them in its order: it holds a serial
   handle only of the port on which it detected a module, and gives it back
   before it listens again or is off. *)
THEOREM Implements == Spec => ImplementsService
<1>1. Init => Service!Init
  BY SerialAssumption DEF Init, Service!Init, Mode, Port, Held, NoWorker, Free, Worker
<1>2. Inv /\ Inv' /\ [Next]_vars => [Service!Next]_mapped
  <2> SUFFICES ASSUME Inv, Inv', [Next]_vars PROVE [Service!Next]_mapped
    OBVIOUS
  <2>1. CASE Next
    BY <2>1, ControlRefines, OthersRefine DEF Next
  <2>2. CASE UNCHANGED vars
    BY <2>2 DEF vars, mapped, Mode, Port, Held
  <2> QED
    BY <2>1, <2>2
<1> QED
  BY <1>1, <1>2, Invariance, PTL DEF Spec, ImplementsService, Service!Spec, Service!vars, mapped

--------------------------------------------------------------------------------
(* The requests to the serial control service, each a part of a step of its client,
   are ones that SerialPorts allows. *)

shown == <<Handles, detect, {irq} \ {NoSerial}>>

NoRequest == UNCHANGED <<detect, irq, holder>>

LEMMA ArmRefines ==
    ASSUME NEW s \in Serial, detect' = s, irq' = s, UNCHANGED holder
    PROVE  Ports!Next
<1>1. UNCHANGED Handles /\ {irq'} \ {NoSerial} = {s}
  BY DEF Handles
<1>2. Ports!Watch(s)
  BY <1>1 DEF Ports!Watch
<1> QED
  BY <1>2 DEF Ports!Next

LEMMA DisarmRefines ==
    ASSUME NEW s, Disarm(s), UNCHANGED holder
    PROVE  Ports!Next
<1>1. UNCHANGED Handles
  BY DEF Handles
<1>2. Ports!Unwatch
  BY <1>1 DEF Ports!Unwatch, Disarm
<1> QED
  BY <1>2 DEF Ports!Next

LEMMA TakeRefines ==
    ASSUME Inv, NEW c \in {Worker} \union Client, NEW s \in Serial, holder[s] = Free, Take(c, s),
           UNCHANGED detect
    PROVE  Ports!Next
<1>1. holder \in [Serial -> {Free, Worker} \union Client] /\ irq \in {NoSerial, detect}
  BY DEF Inv, TypeOK
<1>2. holder'[s] = c /\ \A t \in Serial \ {s} : holder'[t] = holder[t]
  BY <1>1 DEF Take
<1>3. \A h \in Handles : h[2] /= s
  BY DEF Handles, Free, Worker
<1>4. Handles' = Handles \union {<<c, s>>}
  <2>1. \A h \in ({Worker} \union Client) \X Serial :
          holder'[h[2]] = h[1] <=> (holder[h[2]] = h[1] \/ h = <<c, s>>)
    BY <1>2 DEF Free, Worker
  <2> QED
    BY <2>1 DEF Handles
<1>5. {irq'} \ {NoSerial} = ({irq} \ {NoSerial}) \ {s}
  BY <1>1 DEF Take
<1>6. Ports!Acquire(c, s)
  BY <1>3, <1>4, <1>5 DEF Ports!Acquire
<1> QED
  BY <1>6 DEF Ports!Next

LEMMA GiveBackRefines ==
    ASSUME Inv, NEW c \in {Worker} \union Client, NEW s \in Serial, holder[s] = c, GiveBack(s),
           UNCHANGED detect
    PROVE  Ports!Next
<1>1. holder \in [Serial -> {Free, Worker} \union Client] /\ irq \in {NoSerial, detect}
  BY DEF Inv, TypeOK
<1>2. holder'[s] = Free /\ \A t \in Serial \ {s} : holder'[t] = holder[t]
  BY <1>1 DEF GiveBack
<1>3. <<c, s>> \in Handles
  BY DEF Handles
<1>4. Handles' = Handles \ {<<c, s>>}
  <2>1. \A h \in ({Worker} \union Client) \X Serial :
          holder'[h[2]] = h[1] <=> (holder[h[2]] = h[1] /\ h /= <<c, s>>)
    BY <1>2 DEF Free, Worker
  <2> QED
    BY <2>1 DEF Handles
<1>5. {irq'} \ {NoSerial} = ({irq} \ {NoSerial}) \union ({detect} \intersect {s})
  BY <1>1 DEF GiveBack
<1>6. Ports!Release(c, s)
  BY <1>3, <1>4, <1>5 DEF Ports!Release
<1> QED
  BY <1>6 DEF Ports!Next

LEMMA ControlUsesPorts == ASSUME Inv, ControlStep PROVE [Ports!Next]_shown
<1>1. /\ serial_id \in Serial /\ uart_index \in Serial \union {NoSerial}
      /\ control.msg.type = "SetListenSerial" => control.msg.serial \in Serial
  BY DEF Inv, TypeOK, ControlRecord, Message
<1>2. ASSUME NoRequest PROVE UNCHANGED shown
  BY <1>2 DEF NoRequest, shown, Handles
<1>3. CASE \/ ControlGet \/ HandleModuleDisconnected
           \/ HandleConnectionEstablished \/ HandleIsConnected
  <2>1. NoRequest
    BY <1>3 DEF ControlGet, HandleModuleDisconnected, HandleConnectionEstablished,
       HandleIsConnected, serialVars, NoRequest
  <2> QED
    BY <1>2, <2>1
<1>4. CASE HandleEnable
  <2>1. UNCHANGED holder /\ (NoRequest \/ (uart_index /= NoSerial /\ Arm(uart_index)))
    BY <1>4 DEF HandleEnable, Listenable, NoRequest
  <2> QED
    BY <1>1, <1>2, <2>1, ArmRefines DEF Arm
<1>5. CASE HandleDisable
  <2>1. UNCHANGED holder /\ (NoRequest \/ Disarm(serial_id))
    BY <1>5 DEF HandleDisable, StopWorker, NoRequest
  <2> QED
    BY <1>2, <2>1, DisarmRefines
<1>6. CASE HandleSetListenSerial
  <2>1. /\ UNCHANGED holder /\ control.msg.serial \in Serial
        /\ NoRequest \/ (detect' = control.msg.serial /\ irq' = control.msg.serial)
    BY <1>1, <1>6 DEF HandleSetListenSerial, Handling, StopWorker, Rearm, Arm, NoRequest
  <2> QED
    BY <1>2, <2>1, ArmRefines
<1>7. CASE WorkerStopped \/ WorkerFreed
  <2>1. UNCHANGED holder /\ (NoRequest \/ \E s \in Serial : Arm(s))
    BY <1>1, <1>7 DEF WorkerStopped, WorkerFreed, NoRequest
  <2> QED
    BY <1>2, <2>1, ArmRefines DEF Arm
<1>8. CASE HandleModuleConnected
  <2>1. UNCHANGED holder /\ (NoRequest \/ Disarm(serial_id))
    BY <1>8 DEF HandleModuleConnected, NoRequest
  <2> QED
    BY <1>2, <2>1, DisarmRefines
<1> QED
  BY <1>3, <1>4, <1>5, <1>6, <1>7, <1>8 DEF ControlStep

LEMMA OthersUsePorts ==
    ASSUME Inv, ClientStep \/ Detect \/ WorkerStep
    PROVE  [Ports!Next]_shown
<1>1. ASSUME NoRequest PROVE UNCHANGED shown
  BY <1>1 DEF NoRequest, shown, Handles
<1>2. ASSUME NEW c \in Holders, NEW s \in Serial, HolderAcquire(c, s) PROVE Ports!Next
  BY <1>2, TakeRefines DEF HolderAcquire, Client
<1>3. ASSUME NEW c \in Holders, HolderRelease(c) PROVE Ports!Next
  <2>1. c \in Client /\ client[c].has \in Serial
    BY <1>3 DEF HolderRelease, Client, Inv, TypeOK, ClientRecord
  <2>2. holder[client[c].has] = c
    BY <2>1 DEF Inv, ClientHolds
  <2> QED
    BY <1>3, <2>1, <2>2, GiveBackRefines DEF HolderRelease
<1>4. CASE WorkerAcquire
  <2>1. worker.serial \in Serial /\ UNCHANGED detect
    BY <1>4 DEF WorkerAcquire, Inv, ControlInv
  <2>2. NoRequest \/ (holder[worker.serial] = Free /\ Take(Worker, worker.serial))
    BY <1>4 DEF WorkerAcquire, NoRequest
  <2> QED
    BY <1>1, <2>1, <2>2, TakeRefines
<1>5. CASE WorkerRelease
  <2>1. worker.phase = "release" /\ GiveBack(worker.serial) /\ UNCHANGED detect
    BY <1>5 DEF WorkerRelease, WorkerGoes
  <2>2. worker.serial \in Serial /\ holder[worker.serial] = Worker
    BY <2>1 DEF Inv, ControlInv, WorkerHoldsItsPort
  <2> QED
    BY <2>1, <2>2, GiveBackRefines
<1>6. CASE \/ \E c \in Client : PutCall(c)
           \/ \E c \in Holders : HolderDisable(c) \/ HolderEnable(c)
           \/ \E c \in Callers : AskConnected(c) \/ \E u \in Serial \union {NoSerial} : SettingChanged(c, u)
           \/ Detect
  <2>1. NoRequest
    BY <1>6 DEF PutCall, HolderDisable, HolderEnable, AskConnected, SettingChanged, Detect,
       serialVars, NoRequest
  <2> QED
    BY <1>1, <2>1
<1>7. CASE \/ WorkerHandshake \/ WorkerTellConnected \/ WorkerFails \/ WorkerTellExit
           \/ \E q \in BOOLEAN : WorkerSeesStop(q) \/ WorkerTimesOut(q)
  <2>1. NoRequest
    BY <1>7 DEF WorkerHandshake, WorkerTellConnected, WorkerFails, WorkerTellExit, WorkerSeesStop,
       WorkerTimesOut, serialVars, NoRequest
  <2> QED
    BY <1>1, <2>1
<1> QED
  BY <1>2, <1>3, <1>4, <1>5, <1>6, <1>7 DEF ClientStep, WorkerStep

(* Every request that the service, its worker and the applications make of the serial
   control service, as a part of one of their steps, is one that it may serve: a port is
   taken only when it is free and given back by its holder. *)
THEOREM RequestsAreServed == Spec => UsesPorts
<1>1. Init => Ports!Init
  BY DEF Init, Ports!Init, Handles, Free, Worker
<1>2. Inv /\ [Next]_vars => [Ports!Next]_shown
  <2> SUFFICES ASSUME Inv, [Next]_vars PROVE [Ports!Next]_shown
    OBVIOUS
  <2>1. CASE Next
    BY <2>1, ControlUsesPorts, OthersUsePorts DEF Next
  <2>2. CASE UNCHANGED vars
    BY <2>2 DEF vars, shown, Handles
  <2> QED
    BY <2>1, <2>2
<1> QED
  BY <1>1, <1>2, Invariance, PTL DEF Spec, UsesPorts, Ports!Spec, Ports!vars, shown
================================================================================
