------------------------------- MODULE Expansion -------------------------------
(***************************************************************************)
(* The expansion service: the control thread of                            *)
(* applications/services/expansion/expansion.c, the bounded queue in front *)
(* of it, the threads that call its API, the detection interrupt that the  *)
(* serial control service delivers, and the worker thread the service      *)
(* starts for a plugged module (seen here as the phases of its thread;     *)
(* ExpansionWorker.tla opens those phases up).                             *)
(*                                                                         *)
(* Three kinds of client threads call the API:                             *)
(*   - Boot runs expansion_on_system_start: one expansion_enable;          *)
(*   - a Holder is an application that needs a UART and follows the note   *)
(*     in expansion.h: disable, acquire, use, release, enable;             *)
(*   - a Caller is the settings application, or any code that listens on a *)
(*     chosen port and asks whether a module is connected.                 *)
(***************************************************************************)
EXTENDS Naturals, Sequences, FiniteSets

CONSTANTS
    Serial,      \* the UARTs a module can be plugged into
    NoSerial,    \* "none": FuriHalSerialIdMax in a setting, NULL for a handle
    Boot,        \* the thread that starts the service
    Holders,     \* applications that take a UART for themselves
    Callers,     \* the settings application and other users of the API
    QueueSize,   \* EXPANSION_CONTROL_QUEUE_SIZE
    MaxBounce    \* bound: detections that wait in the queue at one time

Client == {Boot} \union Holders \union Callers

ASSUME SerialAssumption == NoSerial \notin Serial
ASSUME ClientAssumption ==
    /\ Boot \notin Holders \union Callers
    /\ Holders \intersect Callers = {}
ASSUME QueueAssumption == QueueSize \in Nat \ {0} /\ MaxBounce \in Nat \ {0}

(* What stands for "nobody" where a client or a message type is expected. *)
NoClient == "none"
Worker   == "worker"
Free     == "free"
ASSUME NamesAssumption == {NoClient, Worker, Free} \intersect Client = {}

VARIABLES
    state,      \* Expansion.state
    serial_id,  \* Expansion.serial_id
    uart_index, \* Expansion.settings.uart_index
    queue,      \* Expansion.queue
    control,    \* the control thread: where it is, the message it handles
    detect,     \* serial control: expansion_serial, the port under detection
    irq,        \* the port whose RX pin has the falling-edge interrupt on
    holder,     \* who has each serial handle (in_use)
    worker,     \* the ExpansionWorker behind Expansion.worker
    client,     \* the threads that call the API
    crashed     \* a furi_check of the serial control service has failed

vars == <<state, serial_id, uart_index, queue, control, detect, irq, holder,
          worker, client, crashed>>

--------------------------------------------------------------------------------
(* The vocabulary. *)

ExpansionState == {"Disabled", "Enabled", "Running", "ConnectionEstablished"}

ApiCall == {"Enable", "Disable", "SetListenSerial", "IsConnected"}
WorkerEvent == {"ModuleDisconnected", "ConnectionEstablished"}
MessageType == ApiCall \union WorkerEvent \union {"ModuleConnected"}

(* A message: its type, the serial of a SetListenSerial, and the client that
   waits on the api_lock of a call. *)
Message ==
    {m \in [type : MessageType, serial : Serial \union {NoSerial},
            from : Client \union {NoClient}] :
        /\ m.type = "SetListenSerial" => m.serial \in Serial
        /\ m.type \in ApiCall <=> m.from \in Client}

Event(type) == [type |-> type, serial |-> NoSerial, from |-> NoClient]

(* The life of a worker thread. "new" is a thread that has not yet asked for
   its serial handle; "putConnected" and "putExit" are the two places where it
   may block on the full queue; "gone" is a thread that can be joined;
   "refused" is one whose furi_check on the handle fails: the firmware halts. *)
Phase == {"none", "new", "handshake", "putConnected", "connected", "release",
          "putExit", "gone", "refused"}


(* stop: the Stop flag is pending; user: exit_reason is User; greeted: it has
   told the control thread of a handshake. *)
WorkerRecord == [phase : Phase, serial : Serial \union {NoSerial},
                 stop : BOOLEAN, user : BOOLEAN, greeted : BOOLEAN]

NoWorker == [phase |-> "none", serial |-> NoSerial, stop |-> FALSE,
             user |-> FALSE, greeted |-> FALSE]

(* A control thread waits in queue_get, holds a message it has taken, or sits
   in furi_thread_join: called by worker_stop, or by worker_free. *)
ControlRecord == [pc : {"get", "handle", "stopping", "freeing"}, msg : Message]

(* A client thread: idle, about to put its message, or waiting on its lock;
   "off" when its last word to the service was a disable; "has", the serial
   handle it holds. *)
ClientRecord == [pc : {"idle", "put", "wait"}, call : Message,
                 off : BOOLEAN, has : Serial \union {NoSerial},
                 answer : BOOLEAN]

Room == Len(queue) < QueueSize
Put(m) == queue' = Append(queue, m)

(* Operators whose name ends in Fault are seeded faults: each is a definition
   of the code as a plausible bug would change it, and the runs are shown to
   notice it. *)
RunningFault == state = "Running"  \* forgets the state that was added later
Running == state \in {"Running", "ConnectionEstablished"}

--------------------------------------------------------------------------------
(* Initially the service is allocated in zeroed memory, its settings are
   loaded, and the boot thread is about to enable it. *)

Init ==
    /\ state = "Disabled"
    /\ serial_id \in Serial
    /\ uart_index \in Serial \union {NoSerial}
    /\ queue = <<>>
    /\ control = [pc |-> "get", msg |-> Event("ModuleConnected")]
    /\ detect = NoSerial
    /\ irq = NoSerial
    /\ holder = [s \in Serial |-> Free]
    /\ worker = NoWorker
    /\ client = [c \in Client |->
                   [pc |-> IF c = Boot THEN "put" ELSE "idle",
                    call |-> [type |-> "Enable", serial |-> NoSerial, from |-> c],
                    off |-> FALSE, has |-> NoSerial, answer |-> FALSE]]
    /\ crashed = FALSE

--------------------------------------------------------------------------------
(* The serial control service, as far as this service sees it. Its thread has
   the highest priority and its callers wait for it, so each request is one
   step of the caller. *)

(* furi_hal_serial_control_set_expansion_callback with a callback. *)
Arm(s) ==
    /\ crashed' = (crashed \/ detect /= NoSerial)
    /\ detect' = s
    /\ irq' = s

DisarmFault(s) == UNCHANGED <<crashed, detect, irq>>  \* the callback stays

(* The same with NULL. *)
Disarm(s) ==
    /\ crashed' = (crashed \/ detect /= s)
    /\ detect' = NoSerial
    /\ irq' = NoSerial

(* Both, one after the other: nothing can be detected in between. *)
Rearm(s, t) ==
    /\ crashed' = (crashed \/ detect /= s)
    /\ detect' = t
    /\ irq' = t

(* furi_hal_serial_control_acquire of a free handle: detection pauses. *)
Take(who, s) ==
    /\ holder' = [holder EXCEPT ![s] = who]
    /\ irq' = IF detect = s THEN NoSerial ELSE irq

GiveBackFault(s) == UNCHANGED <<holder, irq>>  \* in_use stays

(* furi_hal_serial_control_release: detection resumes. *)
GiveBack(s) ==
    /\ holder' = [holder EXCEPT ![s] = Free]
    /\ irq' = IF detect = s THEN s ELSE irq

serialVars == <<detect, irq, holder, crashed>>

(* A falling edge on the port under detection. The serial control thread calls
   expansion_detect_callback, which drops the message when the queue is full. *)
Detect ==
    /\ irq /= NoSerial
    /\ Room
    /\ Cardinality({i \in 1..Len(queue) : queue[i].type = "ModuleConnected"}) < MaxBounce
    /\ Put(Event("ModuleConnected"))
    /\ UNCHANGED <<state, serial_id, uart_index, control, serialVars, worker, client>>

--------------------------------------------------------------------------------
(* The control thread. *)

Handling(type) == control.pc = "handle" /\ control.msg.type = type

(* The end of a handler: the client that waits on the message is released. A
   ConnectionEstablished message carries a lock that nobody waits on. *)
Reply(isConnected) ==
    LET c == control.msg.from
    IN  /\ control' = [control EXCEPT !.pc = "get"]
        /\ client' = IF c = NoClient THEN client
                     ELSE [client EXCEPT ![c] = [@ EXCEPT
                             !.pc = "idle", !.answer = isConnected,
                             !.off = control.msg.type = "Disable"]]

DoneFault == control' = [control EXCEPT !.pc = "get"] /\ UNCHANGED client  \* no unlock
Done == Reply(FALSE)

ListenableFault(u) == TRUE  \* "None" is taken for a port
Listenable(u) == u /= NoSerial

ControlGet ==
    /\ control.pc = "get"
    /\ queue /= <<>>
    /\ control' = [pc |-> "handle", msg |-> Head(queue)]
    /\ queue' = Tail(queue)
    /\ UNCHANGED <<state, serial_id, uart_index, serialVars, worker, client>>

HandleEnable ==
    /\ Handling("Enable")
    /\ IF state = "Disabled" /\ Listenable(uart_index)
       THEN /\ state' = "Enabled"
            /\ serial_id' = uart_index
            /\ Arm(uart_index)
       ELSE UNCHANGED <<state, serial_id, detect, irq, crashed>>
    /\ Done
    /\ UNCHANGED <<uart_index, queue, holder, worker>>

(* expansion_worker_stop: the Stop flag is set, and the control thread joins
   the worker thread. A flag set on a thread that has ended is lost. *)
StopWorker ==
    /\ worker' = [worker EXCEPT !.stop = worker.phase /= "gone"]
    /\ control' = [control EXCEPT !.pc = "stopping"]
    /\ UNCHANGED <<state, serial_id, detect, irq, crashed, client>>

(* furi_thread_join returns once the worker's thread has ended. *)
JoinedFault == TRUE  \* no join
Joined == worker.phase = "gone"

HandleDisable ==
    /\ Handling("Disable")
    /\ \/ /\ Running
          /\ StopWorker
       \/ /\ state = "Enabled"
          /\ Disarm(serial_id)
          /\ state' = "Disabled"
          /\ Done
          /\ UNCHANGED <<serial_id, worker>>
       \/ /\ state = "Disabled"
          /\ Done
          /\ UNCHANGED <<state, serial_id, worker, detect, irq, crashed>>
    /\ UNCHANGED <<uart_index, queue, holder>>

HandleSetListenSerial ==
    /\ Handling("SetListenSerial")
    /\ \/ /\ Running
          /\ StopWorker
       \/ /\ ~Running
          /\ IF state = "Enabled" THEN Rearm(serial_id, control.msg.serial)
                                  ELSE Arm(control.msg.serial)
          /\ state' = "Enabled"
          /\ serial_id' = control.msg.serial
          /\ Done
          /\ UNCHANGED worker
    /\ UNCHANGED <<uart_index, queue, holder>>

(* The rest of those two handlers, once the worker thread has ended: the worker
   is freed, and SetListenSerial goes on to arm detection on the new port. *)
WorkerStopped ==
    /\ control.pc = "stopping"
    /\ Joined
    /\ worker' = NoWorker
    /\ IF control.msg.type = "SetListenSerial"
       THEN /\ state' = "Enabled"
            /\ serial_id' = control.msg.serial
            /\ Arm(control.msg.serial)
       ELSE /\ state' = "Disabled"
            /\ UNCHANGED <<serial_id, detect, irq, crashed>>
    /\ Done
    /\ UNCHANGED <<uart_index, queue, holder>>

HandleModuleConnected ==
    /\ Handling("ModuleConnected")
    /\ IF state = "Enabled"
       THEN /\ Disarm(serial_id)
            /\ state' = "Running"
            /\ worker' = [NoWorker EXCEPT !.phase = "new", !.serial = serial_id]
       ELSE UNCHANGED <<state, worker, detect, irq, crashed>>
    /\ Done
    /\ UNCHANGED <<serial_id, uart_index, queue, holder>>

(* expansion_worker_free releases the stream buffer, then joins the thread. *)
HandleModuleDisconnected ==
    /\ Handling("ModuleDisconnected")
    /\ IF Running
       THEN /\ state' = "Enabled"
            /\ control' = [control EXCEPT !.pc = "freeing"]
            /\ UNCHANGED client
       ELSE Done /\ UNCHANGED state
    /\ UNCHANGED <<serial_id, uart_index, queue, serialVars, worker>>

WorkerFreed ==
    /\ control.pc = "freeing"
    /\ Joined
    /\ worker' = NoWorker
    /\ Arm(serial_id)
    /\ Done
    /\ UNCHANGED <<state, serial_id, uart_index, queue, holder>>

HandleConnectionEstablished ==
    /\ Handling("ConnectionEstablished")
    /\ state' = IF Running THEN "ConnectionEstablished" ELSE state
    /\ Done
    /\ UNCHANGED <<serial_id, uart_index, queue, serialVars, worker>>

HandleIsConnected ==
    /\ Handling("IsConnected")
    /\ Reply(state = "ConnectionEstablished")
    /\ UNCHANGED <<state, serial_id, uart_index, queue, serialVars, worker>>

ControlStep ==
    \/ ControlGet
    \/ HandleEnable \/ HandleDisable \/ HandleSetListenSerial
    \/ HandleModuleConnected \/ HandleModuleDisconnected
    \/ HandleConnectionEstablished \/ HandleIsConnected
    \/ WorkerStopped \/ WorkerFreed

--------------------------------------------------------------------------------
(* The clients. A call allocates a lock, puts its message (waiting for room)
   and waits for the lock. *)

Call(c, type, s) ==
    client' = [client EXCEPT ![c] = [@ EXCEPT
                 !.pc = "put", !.call = [type |-> type, serial |-> s, from |-> c]]]

PutCall(c) ==
    /\ client[c].pc = "put"
    /\ Room
    /\ Put(client[c].call)
    /\ client' = [client EXCEPT ![c].pc = "wait"]
    /\ UNCHANGED <<state, serial_id, uart_index, control, serialVars, worker>>

serviceVars == <<state, serial_id, queue, control, worker>>

(* An application that needs a UART. *)
HolderDisable(c) ==
    /\ client[c].pc = "idle" /\ ~client[c].off
    /\ Call(c, "Disable", NoSerial)
    /\ UNCHANGED <<serviceVars, uart_index, serialVars>>

HolderAcquire(c, s) ==
    /\ client[c].pc = "idle" /\ client[c].off /\ client[c].has = NoSerial
    /\ holder[s] = Free
    /\ Take(c, s)
    /\ client' = [client EXCEPT ![c].has = s]
    /\ UNCHANGED <<serviceVars, uart_index, detect, crashed>>

HolderRelease(c) ==
    /\ client[c].pc = "idle" /\ client[c].has /= NoSerial
    /\ GiveBack(client[c].has)
    /\ client' = [client EXCEPT ![c].has = NoSerial]
    /\ UNCHANGED <<serviceVars, uart_index, detect, crashed>>

HolderEnable(c) ==
    /\ client[c].pc = "idle" /\ client[c].off /\ client[c].has = NoSerial
    /\ Call(c, "Enable", NoSerial)
    /\ UNCHANGED <<serviceVars, uart_index, serialVars>>

(* The settings application: the choice of a port writes the settings of the
   running service, then listens on that port or disables the service. *)
SettingChanged(c, u) ==
    /\ client[c].pc = "idle"
    /\ uart_index' = u
    /\ IF u = NoSerial THEN Call(c, "Disable", NoSerial)
                       ELSE Call(c, "SetListenSerial", u)
    /\ UNCHANGED <<serviceVars, serialVars>>

(* Any other use of the API by a caller. *)
AskConnected(c) ==
    /\ client[c].pc = "idle"
    /\ Call(c, "IsConnected", NoSerial)
    /\ UNCHANGED <<serviceVars, uart_index, serialVars>>

(* Applications run once the start-up hook has returned. *)
Booted == client[Boot].pc = "idle"

ClientStep ==
    \/ \E c \in Client : PutCall(c)
    \/ /\ Booted
       /\ \/ \E c \in Holders :
                \/ HolderDisable(c) \/ HolderRelease(c) \/ HolderEnable(c)
                \/ \E s \in Serial : HolderAcquire(c, s)
          \/ \E c \in Callers :
                \/ AskConnected(c)
                \/ \E u \in Serial \union {NoSerial} : SettingChanged(c, u)

--------------------------------------------------------------------------------
(* The worker thread, as the control thread can tell it apart. *)

WorkerGoes(from, to) ==
    /\ worker.phase = from
    /\ worker' = [worker EXCEPT !.phase = to]

controlVars == <<state, serial_id, uart_index, control, client>>

(* furi_hal_serial_control_acquire, and the furi_check on its result. *)
WorkerAcquire ==
    /\ worker.phase = "new"
    /\ IF holder[worker.serial] = Free
       THEN WorkerGoes("new", "handshake") /\ Take(Worker, worker.serial)
       ELSE WorkerGoes("new", "refused") /\ UNCHANGED <<holder, irq>>
    /\ UNCHANGED <<controlVars, queue, detect, crashed>>

(* A baud rate was agreed on: the callback tells the control thread. *)
WorkerHandshake ==
    /\ WorkerGoes("handshake", "putConnected")
    /\ UNCHANGED <<controlVars, queue, serialVars>>

WorkerTellConnected ==
    /\ worker.phase = "putConnected"
    /\ Room
    /\ Put(Event("ConnectionEstablished"))
    /\ worker' = [worker EXCEPT !.phase = "connected", !.greeted = TRUE]
    /\ UNCHANGED <<controlVars, serialVars>>

Talking == worker.phase \in {"handshake", "connected"}

(* receive_callback takes the Stop flag. It returns what it has of the chunk:
   when that is nothing the decoder gives up, when it is a part of a chunk the
   decoder calls again, and the flag is used up. *)
WorkerSeesStop(quits) ==
    /\ Talking /\ worker.stop
    /\ worker' = [worker EXCEPT !.stop = FALSE, !.user = TRUE,
                                !.phase = IF quits THEN "release" ELSE @]
    /\ UNCHANGED <<controlVars, queue, serialVars>>

(* The same for silence (250 ms) or an error flag: another exit reason. *)
WorkerTimesOut(quits) ==
    /\ Talking
    /\ worker' = [worker EXCEPT !.user = FALSE,
                                !.phase = IF quits THEN "release" ELSE @]
    /\ UNCHANGED <<controlVars, queue, serialVars>>

(* A frame that cannot be decoded, or that its handler refuses. *)
WorkerFails ==
    /\ Talking
    /\ worker' = [worker EXCEPT !.phase = "release"]
    /\ UNCHANGED <<controlVars, queue, serialVars>>

(* The serial handle is given back. The callback is not invoked on a
   user-requested exit. *)
WorkerRelease ==
    /\ WorkerGoes("release", IF worker.user THEN "gone" ELSE "putExit")
    /\ GiveBack(worker.serial)
    /\ UNCHANGED <<controlVars, queue, detect, crashed>>

WorkerTellExitFault ==  \* the callback comes before the cleanup
    /\ Room
    /\ WorkerGoes("putExit", "release")
    /\ Put(Event("ModuleDisconnected"))
    /\ UNCHANGED <<controlVars, serialVars>>

WorkerTellExit ==
    /\ Room
    /\ WorkerGoes("putExit", "gone")
    /\ Put(Event("ModuleDisconnected"))
    /\ UNCHANGED <<controlVars, serialVars>>

WorkerStep ==
    \/ WorkerAcquire \/ WorkerHandshake \/ WorkerTellConnected
    \/ \E quits \in BOOLEAN : WorkerSeesStop(quits) \/ WorkerTimesOut(quits)
    \/ WorkerFails \/ WorkerRelease \/ WorkerTellExit

--------------------------------------------------------------------------------
Next == ControlStep \/ ClientStep \/ Detect \/ WorkerStep

Spec == Init /\ [][Next]_vars

--------------------------------------------------------------------------------
(* What the scheduler owes: the control thread and the clients run, and so does
   the worker. WorkerQuits is where a fairness assumption reaches beyond the
   firmware: it says that a module does not talk for ever, so that a worker
   which lost its Stop flag still times out in the end. *)

WorkerQuits == WorkerSeesStop(TRUE) \/ WorkerTimesOut(TRUE)

WorkerProgress ==
    WorkerAcquire \/ WorkerTellConnected \/ WorkerQuits \/ WorkerRelease \/ WorkerTellExit

Fairness ==
    /\ WF_vars(ControlStep)
    /\ WF_vars(WorkerProgress)
    /\ \A c \in Client : SF_vars(PutCall(c))

FairSpec == Spec /\ Fairness

--------------------------------------------------------------------------------
(* Properties. *)

(* The types of the service's state (struct Expansion, its queue, its worker)
   and of the threads around it. *)
TypeOK ==
    /\ state \in ExpansionState
    /\ serial_id \in Serial
    /\ uart_index \in Serial \union {NoSerial}
    /\ queue \in Seq(Message)
    /\ Len(queue) <= QueueSize
    /\ control \in ControlRecord
    /\ detect \in Serial \union {NoSerial}
    /\ irq \in {NoSerial, detect}
    /\ holder \in [Serial -> {Free, Worker} \union Client]
    /\ worker \in WorkerRecord
    /\ client \in [Client -> ClientRecord]
    /\ crashed \in BOOLEAN

(* No furi_check of set_expansion_callback fails: it is never asked to set up
   a second detection, nor to remove one that is not there
   (furi_hal_serial_control.c:199-204). *)
NoCheckFails == ~crashed

(* A worker always gets its serial handle: furi_check(instance->serial_handle)
   (expansion_worker.c:328) never fails. *)
WorkerGetsItsPort == worker.phase /= "refused"

(* The detection interrupt is set up for serial_id exactly while the service is
   Enabled; a handler that is joining a worker has it off. A lost or a doubled
   set_expansion_callback on any path through the handlers would break it. *)
DetectionFollowsState ==
    detect = IF state = "Enabled" /\ control.pc /= "freeing" THEN serial_id ELSE NoSerial

(* A serial handle is the worker's from its acquire to its release and at no
   other time, so a worker that is gone has given its port back. *)
WorkerHoldsItsPort ==
    \A s \in Serial :
        holder[s] = Worker <=>
            /\ worker.phase \in {"handshake", "putConnected", "connected", "release"}
            /\ worker.serial = s

Owed(c) == {i \in 1..Len(queue) : queue[i].from = c}
InHand(c) == control.pc /= "get" /\ control.msg.from = c

(* Every client that waits on its api_lock has exactly one message, in the
   queue or in the handler's hands; a client that does not wait has none, so no
   lock is unlocked after the caller has freed it. *)
EveryCallIsAnsweredOnce ==
    \A c \in Client :
        /\ client[c].pc = "wait" <=> InHand(c) \/ Owed(c) /= {}
        /\ InHand(c) => Owed(c) = {}
        /\ \A i, j \in Owed(c) : i = j

(* expansion_disable "will cease all communications with the expansion module
   (if any), release the serial handle" (expansion.h): when it has returned to
   the only application that switches the service, no worker exists, no port is
   under detection and none is held by the service. *)
OffMeansReleased ==
    \A c \in Holders :
        client[c].off /\ client[c].pc = "idle" =>
            /\ state = "Disabled"
            /\ worker.phase = "none"
            /\ detect = NoSerial
            /\ \A s \in Serial : holder[s] /= Worker

(* The worker waits, in its callback, for room in the queue of the thread that
   joins it. Neither moves again. *)
Jammed ==
    /\ control.pc \in {"stopping", "freeing"}
    /\ worker.phase \in {"putConnected", "putExit"}
    /\ ~Room

(* Every API call returns, unless the service is jammed: nothing but a queue that
   detections filled while the worker is being joined holds a call up. *)
CallsReturn ==
    \A c \in Client : client[c].pc = "put" ~> (client[c].pc = "idle" \/ Jammed)

(* When a module has gone away, the service listens again, unless it was
   switched off in the meantime or is jammed. *)
ListensAgain ==
    worker.phase = "putExit" ~> (detect /= NoSerial \/ state = "Disabled" \/ Jammed)

(* What a worker reports is taken for the worker it came from. "The callback will be
   triggered upon worker stop" (expansion_worker.h): a worker that a
   ModuleDisconnected message frees, receive buffer first, is one that has ended.
   "true if the module is connected and initialized" (expansion.h): a worker that
   is believed to be connected has agreed on a baud rate with its module. *)
NoStaleReport ==
    /\ control.pc = "freeing" => worker.phase = "gone"
    /\ state = "ConnectionEstablished" => worker.greeted

--------------------------------------------------------------------------------
(* The service as ExpansionService describes it. *)

Mode == IF worker.phase /= "none" THEN "attached"
        ELSE IF detect /= NoSerial THEN "listening" ELSE "off"
Port == IF worker.phase /= "none" THEN worker.serial ELSE detect
Held == \E s \in Serial : holder[s] = Worker

Service == INSTANCE ExpansionService WITH mode <- Mode, port <- Port, held <- Held

(* The control thread, its worker and its clients implement the service that
   ExpansionService specifies. *)
ImplementsService == Service!Spec

--------------------------------------------------------------------------------
(* The serial handles and the detection as SerialPorts describes them: the requests
   that are a part of the steps above are ones the serial control service serves. *)

Handles == {h \in ({Worker} \union Client) \X Serial : holder[h[2]] = h[1]}

Ports == INSTANCE SerialPorts
         WITH Port <- Serial, None <- NoSerial, Holder <- {Worker} \union Client,
              held <- Handles, watched <- detect, ears <- {irq} \ {NoSerial}

(* What the service, its worker and the applications do to the ports is what
   SerialPorts allows. *)
UsesPorts == Ports!Spec

================================================================================
