----------------------------- MODULE SerialControl -----------------------------
(***************************************************************************)
(* The serial control service, targets/f7/furi_hal/                        *)
(* furi_hal_serial_control.c: a thread that owns the UART handles and      *)
(* serves, from a bounded queue, the applications that acquire and release *)
(* them, the settings that choose the port of the log, and the expansion   *)
(* service that has a port watched for a module. The log and the detection *)
(* borrow a port that nobody has acquired, and give way when somebody does.*)
(***************************************************************************)
EXTENDS Naturals, Sequences

CONSTANTS
    Port,       \* FuriHalSerialId: the UARTs
    None,       \* FuriHalSerialIdMax in a setting, NULL for a handle
    User,       \* threads that acquire and release handles
    QueueSize   \* 8 in furi_hal_serial_control_init

(* The thread that sets the log device, and that of the expansion service. *)
Settings  == "settings"
Expansion == "expansion"
Client == User \union {Settings, Expansion}

ASSUME NoneAssumption == None \notin Port /\ None \notin Client
ASSUME UserAssumption == User \intersect {Settings, Expansion} = {}
ASSUME QueueAssumption == QueueSize \in Nat \ {0}

VARIABLES
    queue,     \* the requests, and the edges seen on a watched pin
    in_use,    \* FuriHalSerialHandle.in_use
    log_cfg,   \* log_config_serial_id
    log,       \* log_serial, the port the log is sent to
    watched,   \* expansion_serial; expansion_cb is set exactly when it is
    irq,       \* the ports whose RX pin interrupts on a falling edge
    client     \* the threads that wait on an api_lock, and what they hold

vars == <<queue, in_use, log_cfg, log, watched, irq, client>>

RequestType == {"Acquire", "Release", "Logging", "Watch", "Unwatch"}

(* A request of a client for a port. *)
Request == [type : RequestType, port : Port \union {None}, from : Client]

(* An edge carries what the interrupt callback does not record: the port it was
   seen on, and whether that port's watch has been ended since. *)
Edge == [type : {"Edge"}, port : Port, old : BOOLEAN]

Init ==
    /\ queue = <<>>
    /\ in_use = {}
    /\ log_cfg = None /\ log = None
    /\ watched = None
    /\ irq = {}
    /\ client = [c \in Client |-> [waits |-> FALSE, has |-> None]]

Room == Len(queue) < QueueSize

--------------------------------------------------------------------------------
(* The clients: a request is put, the api_lock awaited. *)

Ask(c, type, p) ==
    /\ ~client[c].waits
    /\ Room
    /\ queue' = Append(queue, [type |-> type, port |-> p, from |-> c])
    /\ client' = [client EXCEPT ![c].waits = TRUE]
    /\ UNCHANGED <<in_use, log_cfg, log, watched, irq>>

AskAcquire(c, p) == client[c].has = None /\ Ask(c, "Acquire", p)
AskRelease(c)    == client[c].has /= None /\ Ask(c, "Release", client[c].has)

(* The expansion service: one watch at a time (Expansion.tla, NoCheckFails). *)
AskWatch(p) == watched = None /\ Ask(Expansion, "Watch", p)
AskUnwatch  == watched /= None /\ Ask(Expansion, "Unwatch", watched)

(* A falling edge: the interrupt callback does not wait for room. *)
EdgeSeen(p) ==
    /\ p \in irq
    /\ queue' = IF Room THEN Append(queue, [type |-> "Edge", port |-> p, old |-> FALSE])
                        ELSE queue
    /\ UNCHANGED <<in_use, log_cfg, log, watched, irq, client>>

--------------------------------------------------------------------------------
(* The handlers. *)

Handling(type) == queue /= <<>> /\ Head(queue).type = type

(* The handler returns: the client goes on, holding p. *)
Answer(p) ==
    LET c == Head(queue).from
    IN  client' = [client EXCEPT ![c] = [waits |-> FALSE, has |-> p]]

KeepsHandle == Answer(client[Head(queue).from].has)

(* furi_hal_serial_control_log_set_handle: the log goes to p, or nowhere. The
   detection interrupt is taken down and set up again around it. *)
LogSetHandle(p) ==
    /\ log' = p
    /\ irq' = IF watched = None THEN irq ELSE irq \union {watched}

TakenFault(p) == FALSE  \* nobody looks
Taken(p) == p \in in_use

HandleAcquire ==
    /\ Handling("Acquire")
    /\ LET p == Head(queue).port
       IN  \/ /\ Taken(p)
              /\ Answer(None)
              /\ UNCHANGED <<in_use, log, irq>>
           \/ /\ ~Taken(p)
              /\ in_use' = in_use \union {p}
              /\ Answer(p)
              /\ \/ log_cfg = p /\ LogSetHandle(None)
                 \/ /\ log_cfg /= p
                    /\ irq' = IF watched = p THEN irq \ {p} ELSE irq
                    /\ UNCHANGED log
    /\ queue' = Tail(queue)
    /\ UNCHANGED <<log_cfg, watched>>

HandleReleaseFault ==  \* the detection is not resumed
    /\ Handling("Release")
    /\ LET p == Head(queue).port
       IN  /\ in_use' = in_use \ {p}
           /\ \/ log_cfg = p /\ LogSetHandle(p)
              \/ log_cfg /= p /\ UNCHANGED <<irq, log>>
    /\ Answer(None)
    /\ queue' = Tail(queue)
    /\ UNCHANGED <<log_cfg, watched>>

HandleRelease ==
    /\ Handling("Release")
    /\ LET p == Head(queue).port
       IN  /\ in_use' = in_use \ {p}
           /\ \/ log_cfg = p /\ LogSetHandle(p)
              \/ /\ log_cfg /= p
                 /\ irq' = IF watched = p THEN irq \union {p} ELSE irq
                 /\ UNCHANGED log
    /\ Answer(None)
    /\ queue' = Tail(queue)
    /\ UNCHANGED <<log_cfg, watched>>

HandleLoggingFault ==  \* a port in use is not spared
    /\ Handling("Logging")
    /\ log_cfg' = Head(queue).port
    /\ LogSetHandle(Head(queue).port)
    /\ KeepsHandle
    /\ queue' = Tail(queue)
    /\ UNCHANGED <<in_use, watched>>

HandleLogging ==
    /\ Handling("Logging")
    /\ log_cfg' = Head(queue).port
    /\ LogSetHandle(IF Taken(Head(queue).port) THEN None ELSE Head(queue).port)
    /\ KeepsHandle
    /\ queue' = Tail(queue)
    /\ UNCHANGED <<in_use, watched>>

(* furi_hal_serial_control_handler_expansion_set_callback, with a callback. *)
HandleWatch ==
    /\ Handling("Watch")
    /\ watched' = Head(queue).port
    /\ irq' = irq \union {Head(queue).port}
    /\ KeepsHandle
    /\ queue' = Tail(queue)
    /\ UNCHANGED <<in_use, log_cfg, log>>

(* ... with NULL. From here on, an edge that waits in the queue is old. *)
Older(q) == [i \in DOMAIN q |-> IF q[i].type = "Edge" THEN [q[i] EXCEPT !.old = TRUE] ELSE q[i]]

HandleUnwatchFault ==  \* the interrupt stays on
    /\ Handling("Unwatch")
    /\ watched' = None
    /\ UNCHANGED irq
    /\ KeepsHandle
    /\ queue' = Older(Tail(queue))
    /\ UNCHANGED <<in_use, log_cfg, log>>

HandleUnwatch ==
    /\ Handling("Unwatch")
    /\ watched' = None
    /\ irq' = irq \ {Head(queue).port}
    /\ KeepsHandle
    /\ queue' = Older(Tail(queue))
    /\ UNCHANGED <<in_use, log_cfg, log>>

(* The callback is called if there is one, whatever port the edge was on; what
   it does is Detect of Expansion.tla. *)
HandleEdge ==
    /\ Handling("Edge")
    /\ queue' = Tail(queue)
    /\ UNCHANGED <<in_use, log_cfg, log, watched, irq, client>>

ServiceStep ==
    \/ HandleAcquire \/ HandleRelease \/ HandleLogging
    \/ HandleWatch \/ HandleUnwatch \/ HandleEdge

Next ==
    \/ ServiceStep
    \/ \E c \in User : AskRelease(c) \/ \E p \in Port : AskAcquire(c, p)
    \/ \E p \in Port \union {None} : Ask(Settings, "Logging", p)
    \/ \E p \in Port : AskWatch(p) \/ EdgeSeen(p)
    \/ AskUnwatch

Spec == Init /\ [][Next]_vars

--------------------------------------------------------------------------------
(* Properties. *)

(* The types of FuriHalSerialControl and of its clients. *)
TypeOK ==
    /\ queue \in Seq(Request \union Edge)
    /\ Len(queue) <= QueueSize
    /\ in_use \subseteq Port
    /\ log_cfg \in Port \union {None}
    /\ log \in Port \union {None}
    /\ watched \in Port \union {None}
    /\ irq \subseteq Port
    /\ client \in [Client -> [waits : BOOLEAN, has : Port \union {None}]]

(* A handle is in use exactly when one client, and no more than one, has it: two
   threads that acquire one port at the same time do not both get it. *)
HandleHasOneHolder ==
    /\ \A p \in Port : p \in in_use <=> \E c \in Client : client[c].has = p
    /\ \A c, d \in Client : client[c].has = client[d].has /\ client[c].has /= None => c = d

(* The log is sent to the configured port whenever nobody has acquired it, and
   nowhere else: it gives way to an application and comes back after it, in
   whatever order the settings and the handle change. *)
LogFollowsSettings == log = IF log_cfg \in in_use THEN None ELSE log_cfg

(* The interrupt is never on for a port that is not watched, and the port that
   is watched is only ever deaf while somebody has acquired it. *)
OnlyTheWatchedInterrupts ==
    /\ irq \subseteq {watched}
    /\ watched \in Port \ in_use => watched \in irq

(* A module detected on one port is never taken for one on another: when the
   callback is about to be called it is for an edge of the port that is watched
   now, seen since the watch began, though edges wait in the same queue as the
   requests that change the watch. *)
NoStaleDetection ==
    Handling("Edge") /\ watched /= None => Head(queue).port = watched /\ ~Head(queue).old

--------------------------------------------------------------------------------
(* The ports as SerialPorts describes them. *)

Held == {h \in Client \X Port : client[h[1]].has = h[2]}

Ports == INSTANCE SerialPorts
         WITH Holder <- Client, held <- Held, ears <- irq

(* Whatever waits in the queue, and however old it is when it is served, the ports
   change only as SerialPorts specifies: a release takes the port from the client
   that holds it, and whatever the log does in between, the watched port is heard
   again as soon as nobody holds it. *)
ImplementsPorts == Ports!Spec
================================================================================
