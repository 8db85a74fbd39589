-------------------------- MODULE SerialControlProofs ---------------------------
(***************************************************************************)
(* Proofs about the serial control service (SerialControl.tla), for any set *)
(* of ports and users and any queue size.                                   *)
(***************************************************************************)
EXTENDS SerialControl, TLAPS

USE NoneAssumption, UserAssumption, QueueAssumption

Msg == Request \union Edge
IsRequest(m) == m.type /= "Edge"

(* What is in the queue agrees with the clients that wait: a client has one request
   at a time, its acquire is for a handle when it has none, its release for the one
   it has, and the expansion service starts and ends its watch in turn. *)
CallInv ==
    /\ \A i \in DOMAIN queue : IsRequest(queue[i]) =>
        /\ client[queue[i].from].waits
        /\ queue[i].type = "Acquire" => queue[i].port \in Port /\ client[queue[i].from].has = None
        /\ queue[i].type = "Release" => queue[i].port \in Port /\ client[queue[i].from].has = queue[i].port
        /\ queue[i].type = "Watch" =>
             queue[i].port \in Port /\ watched = None /\ queue[i].from = Expansion
        /\ queue[i].type = "Unwatch" =>
             watched /= None /\ queue[i].port = watched /\ queue[i].from = Expansion
    /\ \A i, j \in DOMAIN queue :
        IsRequest(queue[i]) /\ IsRequest(queue[j]) /\ queue[i].from = queue[j].from => i = j

(* While a port is watched every edge in the queue is of this watch; while none is,
   the edges left over are in front of the request for the next watch. *)
EdgeInv ==
    /\ watched /= None => \A i \in DOMAIN queue :
         queue[i].type = "Edge" => queue[i].port = watched /\ ~queue[i].old
    /\ \A i, j \in DOMAIN queue :
         queue[i].type = "Edge" /\ queue[j].type = "Watch" => i < j

Inv ==
    /\ TypeOK /\ CallInv /\ EdgeInv
    /\ HandleHasOneHolder /\ LogFollowsSettings /\ OnlyTheWatchedInterrupts

--------------------------------------------------------------------------------
(* Lemmas about queues. *)

LEMMA AppendedIs ==
    ASSUME NEW S, NEW q \in Seq(S), NEW m \in S
    PROVE  /\ Append(q, m) \in Seq(S)
           /\ Len(Append(q, m)) = Len(q) + 1
           /\ DOMAIN Append(q, m) = DOMAIN q \union {Len(q) + 1}
           /\ \A i \in DOMAIN q : i \in 1..Len(q) /\ Append(q, m)[i] = q[i]
           /\ Append(q, m)[Len(q) + 1] = m
OBVIOUS

LEMMA TailIs ==
    ASSUME NEW S, NEW q \in Seq(S), q /= <<>>
    PROVE  /\ Tail(q) \in Seq(S)
           /\ Len(Tail(q)) = Len(q) - 1
           /\ Head(q) = q[1] /\ 1 \in DOMAIN q /\ Head(q) \in S
           /\ \A i \in DOMAIN Tail(q) :
                i \in Nat /\ i >= 1 /\ i + 1 \in DOMAIN q /\ Tail(q)[i] = q[i + 1]
OBVIOUS

LEMMA FunctionIsSeq ==
    ASSUME NEW S, NEW n \in Nat, NEW f \in [1..n -> S]
    PROVE  f \in Seq(S) /\ Len(f) = n
OBVIOUS

(* The types of the messages and of the clients, in the form the backends use. *)
LEMMA MessageTypes ==
    ASSUME TypeOK
    PROVE  /\ \A i \in DOMAIN queue :
                /\ queue[i] \in Msg
                /\ IsRequest(queue[i]) =>
                     queue[i].from \in Client /\ queue[i].port \in Port \union {None}
                /\ queue[i].type = "Edge" => queue[i].port \in Port /\ queue[i].old \in BOOLEAN
           /\ \A c \in Client : client[c] \in [waits : BOOLEAN, has : Port \union {None}]
BY DEF TypeOK, Msg, IsRequest, Request, Edge, RequestType

LEMMA InitInv == Init => Inv
<1> SUFFICES ASSUME Init PROVE Inv
  OBVIOUS
<1>1. TypeOK
  BY DEF Init, TypeOK
<1>2. CallInv /\ EdgeInv
  BY DEF Init, CallInv, EdgeInv
<1>3. HandleHasOneHolder /\ LogFollowsSettings /\ OnlyTheWatchedInterrupts
  BY DEF Init, HandleHasOneHolder, LogFollowsSettings, OnlyTheWatchedInterrupts
<1> QED
  BY <1>1, <1>2, <1>3 DEF Inv

--------------------------------------------------------------------------------
(* The clients' steps. *)

LEMMA AskKeepsInv ==
    ASSUME Inv, NEW c \in Client, NEW t \in RequestType, NEW p \in Port \union {None},
           Ask(c, t, p),
           t = "Acquire" => p \in Port /\ client[c].has = None,
           t = "Release" => p \in Port /\ client[c].has = p,
           t = "Watch"   => p \in Port /\ watched = None /\ c = Expansion,
           t = "Unwatch" => watched /= None /\ p = watched /\ c = Expansion
    PROVE  Inv'
<1> DEFINE m == [type |-> t, port |-> p, from |-> c]
<1>1. m \in Msg /\ IsRequest(m) /\ m.type = t /\ m.port = p /\ m.from = c
  BY DEF Msg, Request, RequestType, IsRequest
<1> HIDE DEF m
<1>2. queue \in Seq(Msg) /\ queue' = Append(queue, m) /\ Len(queue) < QueueSize
  BY DEF Inv, TypeOK, Ask, Room, m, Msg
<1>3. /\ queue' \in Seq(Msg) /\ Len(queue') = Len(queue) + 1
      /\ DOMAIN queue' = DOMAIN queue \union {Len(queue) + 1}
      /\ \A i \in DOMAIN queue : i \in 1..Len(queue) /\ queue'[i] = queue[i]
      /\ queue'[Len(queue) + 1] = m
  BY <1>1, <1>2, AppendedIs
<1>4. /\ client[c] \in [waits : BOOLEAN, has : Port \union {None}]
      /\ client' = [client EXCEPT ![c].waits = TRUE]
      /\ ~client[c].waits
      /\ UNCHANGED <<in_use, log_cfg, log, watched, irq>>
  BY DEF Inv, TypeOK, Ask
<1>5. /\ client' \in [Client -> [waits : BOOLEAN, has : Port \union {None}]]
      /\ \A d \in Client : client'[d].has = client[d].has
      /\ \A d \in Client : client[d].waits => client'[d].waits
      /\ client'[c].waits
  BY <1>4 DEF Inv, TypeOK
<1>6. TypeOK'
  <2>1. Len(queue') <= QueueSize
    BY <1>2, <1>3
  <2> QED
    BY <1>3, <1>4, <1>5, <2>1 DEF Inv, TypeOK, Msg
<1>7. \A i \in DOMAIN queue : IsRequest(queue[i]) =>
        queue[i].from \in Client /\ queue[i].from /= c /\ client[queue[i].from].waits
  BY <1>4, MessageTypes DEF Inv, CallInv
<1>8. CallInv'
  <2>1. ASSUME NEW i \in DOMAIN queue', IsRequest(queue'[i])
        PROVE  /\ client'[queue'[i].from].waits
               /\ queue'[i].type = "Acquire" =>
                    queue'[i].port \in Port /\ client'[queue'[i].from].has = None
               /\ queue'[i].type = "Release" =>
                    queue'[i].port \in Port /\ client'[queue'[i].from].has = queue'[i].port
               /\ queue'[i].type = "Watch" =>
                    queue'[i].port \in Port /\ watched' = None /\ queue'[i].from = Expansion
               /\ queue'[i].type = "Unwatch" =>
                    watched' /= None /\ queue'[i].port = watched' /\ queue'[i].from = Expansion
    <3>1. CASE i \in DOMAIN queue
      BY <1>3, <1>4, <1>5, <1>7, <2>1, <3>1 DEF Inv, CallInv
    <3>2. CASE i = Len(queue) + 1
      BY <1>1, <1>3, <1>4, <1>5, <3>2
    <3> QED
      BY <1>3, <3>1, <3>2
  <2>2. ASSUME NEW i \in DOMAIN queue', NEW j \in DOMAIN queue',
               IsRequest(queue'[i]), IsRequest(queue'[j]), queue'[i].from = queue'[j].from
        PROVE  i = j
    BY <1>1, <1>3, <1>7, <2>2 DEF Inv, CallInv
  <2> QED
    BY <2>1, <2>2 DEF CallInv, IsRequest
<1>9. EdgeInv'
  <2>1. ASSUME NEW i \in DOMAIN queue', queue'[i].type = "Edge"
        PROVE  i \in DOMAIN queue /\ queue'[i] = queue[i] /\ i < Len(queue) + 1
    BY <1>1, <1>3, <2>1 DEF IsRequest
  <2>2. ASSUME NEW i \in DOMAIN queue', NEW j \in DOMAIN queue',
               queue'[i].type = "Edge", queue'[j].type = "Watch"
        PROVE  i < j
    BY <1>3, <2>1, <2>2 DEF Inv, EdgeInv
  <2> QED
    BY <1>4, <2>1, <2>2 DEF Inv, EdgeInv
<1>10. HandleHasOneHolder' /\ LogFollowsSettings' /\ OnlyTheWatchedInterrupts'
  BY <1>4, <1>5 DEF Inv, HandleHasOneHolder, LogFollowsSettings, OnlyTheWatchedInterrupts
<1> QED
  BY <1>6, <1>8, <1>9, <1>10 DEF Inv

LEMMA EdgeSeenKeepsInv ==
    ASSUME Inv, NEW p \in Port, EdgeSeen(p)
    PROVE  Inv'
<1> DEFINE m == [type |-> "Edge", port |-> p, old |-> FALSE]
<1>1. m \in Msg /\ m.type = "Edge" /\ m.port = p /\ ~m.old
  BY DEF Msg, Edge
<1> HIDE DEF m
<1>2. CASE ~Room
  <2>1. UNCHANGED vars
    BY <1>2 DEF EdgeSeen, vars
  <2> QED
    BY <2>1 DEF vars, Inv, TypeOK, CallInv, EdgeInv, HandleHasOneHolder, LogFollowsSettings,
                OnlyTheWatchedInterrupts, IsRequest
<1>3. CASE Room
  <2>1. queue \in Seq(Msg) /\ queue' = Append(queue, m) /\ Len(queue) < QueueSize
    BY <1>3 DEF Inv, TypeOK, EdgeSeen, Room, m, Msg
  <2>2. /\ queue' \in Seq(Msg) /\ Len(queue') = Len(queue) + 1
        /\ DOMAIN queue' = DOMAIN queue \union {Len(queue) + 1}
        /\ \A i \in DOMAIN queue : i \in 1..Len(queue) /\ queue'[i] = queue[i]
        /\ queue'[Len(queue) + 1] = m
    BY <1>1, <2>1, AppendedIs
  <2>3. /\ UNCHANGED <<in_use, log_cfg, log, watched, irq, client>>
        /\ watched = p
    BY DEF EdgeSeen, Inv, OnlyTheWatchedInterrupts
  <2>4. TypeOK'
    <3>1. Len(queue') <= QueueSize
      BY <2>1, <2>2
    <3> QED
      BY <2>2, <2>3, <3>1 DEF Inv, TypeOK, Msg
  <2>5. \A i \in DOMAIN queue' :
          IsRequest(queue'[i]) => i \in DOMAIN queue /\ queue'[i] = queue[i]
    BY <1>1, <2>2 DEF IsRequest
  <2>6. CallInv'
    BY <2>3, <2>5 DEF Inv, CallInv, IsRequest
  <2>7. \A j \in DOMAIN queue' : queue'[j].type /= "Watch"
    BY <1>1, <2>2, <2>3 DEF Inv, CallInv, IsRequest
  <2>8. EdgeInv'
    BY <1>1, <2>2, <2>3, <2>7 DEF Inv, EdgeInv
  <2>9. HandleHasOneHolder' /\ LogFollowsSettings' /\ OnlyTheWatchedInterrupts'
    BY <2>3 DEF Inv, HandleHasOneHolder, LogFollowsSettings, OnlyTheWatchedInterrupts
  <2> QED
    BY <2>4, <2>6, <2>8, <2>9 DEF Inv
<1> QED
  BY <1>2, <1>3

--------------------------------------------------------------------------------
(* The service's steps. A request is served: it leaves the queue, and its client,
   of which nothing else is in the queue, goes on. *)

Served(p) ==
    /\ queue /= <<>> /\ IsRequest(Head(queue))
    /\ Answer(p)
    /\ queue' \in {Tail(queue), Older(Tail(queue))}

LEMMA ServedIs ==
    ASSUME Inv, NEW p \in Port \union {None}, Served(p)
    PROVE  /\ Head(queue).from \in Client
           /\ queue' \in Seq(Msg) /\ Len(queue') <= QueueSize
           /\ client' \in [Client -> [waits : BOOLEAN, has : Port \union {None}]]
           /\ \A d \in Client \ {Head(queue).from} : client'[d] = client[d]
           /\ client'[Head(queue).from].has = p
           /\ \A i \in DOMAIN queue' :
                /\ i \in Nat /\ i >= 1 /\ i + 1 \in DOMAIN queue
                /\ queue'[i].type = queue[i + 1].type /\ queue'[i].port = queue[i + 1].port
                /\ queue' = Tail(queue) => queue'[i] = queue[i + 1]
                /\ IsRequest(queue'[i]) =>
                     queue'[i] = queue[i + 1] /\ queue'[i].from \in Client \ {Head(queue).from}
<1> DEFINE t == Tail(queue)
<1>1. queue \in Seq(Msg) /\ queue /= <<>>
  BY DEF Inv, TypeOK, Msg, Served
<1>2. /\ t \in Seq(Msg) /\ Len(t) = Len(queue) - 1
      /\ Head(queue) = queue[1] /\ 1 \in DOMAIN queue
      /\ \A i \in DOMAIN t : i \in Nat /\ i >= 1 /\ i + 1 \in DOMAIN queue /\ t[i] = queue[i + 1]
  BY <1>1, TailIs
<1>3. Head(queue).from \in Client
  BY <1>2, MessageTypes DEF Inv, Served
<1>4. /\ client' \in [Client -> [waits : BOOLEAN, has : Port \union {None}]]
      /\ \A d \in Client \ {Head(queue).from} : client'[d] = client[d]
      /\ client'[Head(queue).from].has = p
  BY <1>3 DEF Served, Answer, Inv, TypeOK
<1>5. /\ DOMAIN Older(t) = DOMAIN t /\ Len(Older(t)) = Len(t) /\ Older(t) \in Seq(Msg)
      /\ \A i \in DOMAIN t :
           /\ Older(t)[i].type = t[i].type /\ Older(t)[i].port = t[i].port
           /\ IsRequest(t[i]) => Older(t)[i] = t[i]
  <2>1. \A i \in DOMAIN t : t[i] \in Msg
    BY <1>2
  <2>2. ASSUME NEW i \in DOMAIN t
        PROVE  /\ Older(t)[i] \in Msg
               /\ Older(t)[i].type = t[i].type /\ Older(t)[i].port = t[i].port
               /\ IsRequest(t[i]) => Older(t)[i] = t[i]
    <3>1. CASE t[i].type = "Edge"
      <4>1. t[i] \in Edge
        BY <2>1, <3>1 DEF Msg, Request, RequestType
      <4>2. Older(t)[i] = [t[i] EXCEPT !.old = TRUE]
        BY <3>1 DEF Older
      <4> QED
        BY <3>1, <4>1, <4>2 DEF Msg, Edge, IsRequest
    <3>2. CASE t[i].type /= "Edge"
      BY <2>1, <3>2 DEF Older
    <3> QED
      BY <3>1, <3>2
  <2>3. Older(t) = [i \in 1..Len(t) |-> Older(t)[i]]
    BY <1>2 DEF Older
  <2>4. Len(t) \in Nat /\ DOMAIN t = 1..Len(t)
    BY <1>2
  <2>5. DOMAIN Older(t) = 1..Len(t) /\ Older(t) \in [1..Len(t) -> Msg]
    BY <2>2, <2>3, <2>4
  <2>6. Older(t) \in Seq(Msg) /\ Len(Older(t)) = Len(t)
    BY <2>4, <2>5, FunctionIsSeq
  <2> QED
    BY <2>2, <2>4, <2>5, <2>6
<1>6. /\ queue' \in Seq(Msg) /\ Len(queue') = Len(t) /\ DOMAIN queue' = DOMAIN t
      /\ \A i \in DOMAIN t :
           /\ queue'[i].type = t[i].type /\ queue'[i].port = t[i].port
           /\ IsRequest(t[i]) => queue'[i] = t[i]
           /\ queue' = Tail(queue) => queue'[i] = t[i]
  BY <1>2, <1>5 DEF Served
<1>7. Len(queue') <= QueueSize
  BY <1>1, <1>2, <1>6 DEF Inv, TypeOK
<1>8. ASSUME NEW i \in DOMAIN t, IsRequest(t[i])
      PROVE  t[i].from \in Client \ {Head(queue).from}
  <2>1. i + 1 \in DOMAIN queue /\ t[i] = queue[i + 1] /\ i + 1 /= 1
    BY <1>2
  <2>2. queue[i + 1].from \in Client
    BY <1>8, <2>1, MessageTypes DEF Inv
  <2>3. queue[i + 1].from /= queue[1].from
    BY <1>2, <1>8, <2>1 DEF Inv, CallInv, Served
  <2> QED
    BY <1>2, <2>1, <2>2, <2>3
<1>9. \A i \in DOMAIN t : IsRequest(queue'[i]) <=> IsRequest(t[i])
  BY <1>6 DEF IsRequest
<1> QED
  BY <1>2, <1>3, <1>4, <1>6, <1>7, <1>8, <1>9

LEMMA ServedKeepsCallInv ==
    ASSUME Inv, NEW p \in Port \union {None}, Served(p),
           watched' = watched \/ Head(queue).from = Expansion
    PROVE  CallInv'
<1>1. ASSUME NEW i \in DOMAIN queue', IsRequest(queue'[i])
      PROVE  /\ i + 1 \in DOMAIN queue /\ queue'[i] = queue[i + 1]
             /\ client'[queue'[i].from] = client[queue[i + 1].from]
             /\ queue'[i].from /= Head(queue).from
  BY <1>1, ServedIs
<1>2. ASSUME NEW i \in DOMAIN queue', NEW j \in DOMAIN queue',
             IsRequest(queue'[i]), IsRequest(queue'[j]), queue'[i].from = queue'[j].from
      PROVE  i = j
  <2>1. i + 1 = j + 1
    BY <1>1, <1>2 DEF Inv, CallInv
  <2> QED
    BY <2>1, ServedIs
<1>3. ASSUME NEW i \in DOMAIN queue', IsRequest(queue'[i])
      PROVE  /\ client'[queue'[i].from].waits
             /\ queue'[i].type = "Acquire" =>
                  queue'[i].port \in Port /\ client'[queue'[i].from].has = None
             /\ queue'[i].type = "Release" =>
                  queue'[i].port \in Port /\ client'[queue'[i].from].has = queue'[i].port
             /\ queue'[i].type = "Watch" =>
                  queue'[i].port \in Port /\ watched' = None /\ queue'[i].from = Expansion
             /\ queue'[i].type = "Unwatch" =>
                  watched' /= None /\ queue'[i].port = watched' /\ queue'[i].from = Expansion
  <2>1. /\ i + 1 \in DOMAIN queue /\ queue'[i] = queue[i + 1]
        /\ client'[queue'[i].from] = client[queue[i + 1].from]
        /\ queue'[i].from /= Head(queue).from
    BY <1>1, <1>3
  <2> QED
    BY <1>3, <2>1 DEF Inv, CallInv
<1> QED
  BY <1>2, <1>3 DEF CallInv, IsRequest

LEMMA ServedKeepsEdgeInv ==
    ASSUME Inv, NEW p \in Port \union {None}, Served(p),
           \/ watched' = watched /\ queue' = Tail(queue)
           \/ watched' = None
           \/ Head(queue).type = "Watch"
    PROVE  EdgeInv'
<1>1. Head(queue) = queue[1] /\ 1 \in DOMAIN queue
  <2>1. queue \in Seq(Request \union Edge) /\ queue /= <<>>
    BY DEF Served, Inv, TypeOK
  <2> HIDE DEF Request, Edge
  <2> QED
    BY <2>1, TailIs
<1>2. ASSUME NEW i \in DOMAIN queue', NEW j \in DOMAIN queue',
             queue'[i].type = "Edge", queue'[j].type = "Watch"
      PROVE  i < j
  <2>1. /\ i \in Nat /\ i + 1 \in DOMAIN queue /\ queue[i + 1].type = "Edge"
        /\ j \in Nat /\ j + 1 \in DOMAIN queue /\ queue[j + 1].type = "Watch"
    BY <1>2, ServedIs
  <2>2. i + 1 < j + 1
    BY <2>1 DEF Inv, EdgeInv
  <2> QED
    BY <2>1, <2>2
<1>3. ASSUME watched' /= None, NEW i \in DOMAIN queue', queue'[i].type = "Edge"
      PROVE  queue'[i].port = watched' /\ ~queue'[i].old
  <2>1. i \in Nat /\ i >= 1 /\ i + 1 \in DOMAIN queue /\ queue[i + 1].type = "Edge"
        /\ (queue' = Tail(queue) => queue'[i] = queue[i + 1])
    BY <1>3, ServedIs
  <2>2. Head(queue).type /= "Watch"
    BY <1>1, <2>1 DEF Inv, EdgeInv
  <2> QED
    BY <1>3, <2>1, <2>2 DEF Inv, EdgeInv
<1> QED
  BY <1>2, <1>3 DEF EdgeInv

LEMMA ServiceKeepsInv ==
    ASSUME Inv, ServiceStep
    PROVE  Inv'
<1> DEFINE m == Head(queue)
<1>1. /\ queue /= <<>> /\ queue \in Seq(Msg)
      /\ m = queue[1] /\ 1 \in DOMAIN queue
      /\ Tail(queue) \in Seq(Msg) /\ Len(Tail(queue)) = Len(queue) - 1
  BY TailIs DEF ServiceStep, HandleAcquire, HandleRelease, HandleLogging, HandleWatch,
       HandleUnwatch, HandleEdge, Handling, Inv, TypeOK, Msg
<1>2. /\ m.type = "Edge" => m.port \in Port
      /\ IsRequest(m) => m.from \in Client /\ m.port \in Port \union {None}
                         /\ client[m.from] \in [waits : BOOLEAN, has : Port \union {None}]
  BY <1>1, MessageTypes DEF Inv
<1>3. /\ m.type = "Acquire" => m.port \in Port /\ client[m.from].has = None
      /\ m.type = "Release" => m.port \in Port /\ client[m.from].has = m.port
      /\ m.type = "Watch" => m.port \in Port /\ watched = None /\ m.from = Expansion
      /\ m.type = "Unwatch" => watched /= None /\ m.port = watched /\ m.from = Expansion
  BY <1>1 DEF Inv, CallInv, IsRequest
<1> HIDE DEF m
<1> USE DEF IsRequest
<1>4. CASE HandleAcquire
  <2>1. m.type = "Acquire" /\ m.port \in Port /\ m.from \in Client /\ client[m.from].has = None
    BY <1>2, <1>3, <1>4 DEF HandleAcquire, Handling, m
  <2>2. CASE Taken(m.port)
    <3>1. Served(None) /\ queue' = Tail(queue)
          /\ UNCHANGED <<in_use, log, irq, log_cfg, watched>>
      BY <1>1, <1>4, <2>1, <2>2 DEF HandleAcquire, Served, m
    <3>2. CallInv' /\ EdgeInv'
      BY <3>1, ServedKeepsCallInv, ServedKeepsEdgeInv
    <3>3. TypeOK'
      BY <3>1, ServedIs DEF Inv, TypeOK, Msg
    <3>4. \A d \in Client : client'[d].has = client[d].has
      BY <2>1, <3>1, ServedIs DEF m
    <3> QED
      BY <3>1, <3>2, <3>3, <3>4 DEF Inv, HandleHasOneHolder, LogFollowsSettings,
           OnlyTheWatchedInterrupts
  <2>3. CASE ~Taken(m.port)
    <3>1. /\ Served(m.port) /\ queue' = Tail(queue)
          /\ in_use' = in_use \union {m.port} /\ m.port \notin in_use
          /\ UNCHANGED <<log_cfg, watched>>
          /\ \/ log_cfg = m.port /\ LogSetHandle(None)
             \/ /\ log_cfg /= m.port
                /\ irq' = IF watched = m.port THEN irq \ {m.port} ELSE irq
                /\ UNCHANGED log
      BY <1>1, <1>4, <2>1, <2>3 DEF HandleAcquire, Served, Taken, m
    <3>2. CallInv' /\ EdgeInv'
      BY <2>1, <3>1, ServedKeepsCallInv, ServedKeepsEdgeInv
    <3>3. TypeOK'
      BY <2>1, <3>1, ServedIs DEF Inv, TypeOK, Msg, LogSetHandle
    <3>4. /\ client'[m.from].has = m.port
          /\ \A d \in Client \ {m.from} : client'[d].has = client[d].has
      BY <2>1, <3>1, ServedIs DEF m
    <3>5. \A d \in Client : client[d].has /= m.port
      BY <2>1, <3>1 DEF Inv, HandleHasOneHolder
    <3>6. HandleHasOneHolder'
      BY <2>1, <3>1, <3>4, <3>5 DEF Inv, HandleHasOneHolder
    <3>7. LogFollowsSettings' /\ OnlyTheWatchedInterrupts'
      BY <2>1, <3>1 DEF Inv, TypeOK, LogFollowsSettings, OnlyTheWatchedInterrupts, LogSetHandle
    <3> QED
      BY <3>2, <3>3, <3>6, <3>7 DEF Inv
  <2> QED
    BY <2>2, <2>3
<1>5. CASE HandleRelease
  <2>1. m.type = "Release" /\ m.port \in Port /\ m.from \in Client /\ client[m.from].has = m.port
    BY <1>2, <1>3, <1>5 DEF HandleRelease, Handling, m
  <2>2. /\ Served(None) /\ queue' = Tail(queue)
        /\ in_use' = in_use \ {m.port}
        /\ UNCHANGED <<log_cfg, watched>>
        /\ \/ log_cfg = m.port /\ LogSetHandle(m.port)
           \/ /\ log_cfg /= m.port
              /\ irq' = IF watched = m.port THEN irq \union {m.port} ELSE irq
              /\ UNCHANGED log
    BY <1>1, <1>5, <2>1 DEF HandleRelease, Served, m
  <2>3. CallInv' /\ EdgeInv'
    BY <2>2, ServedKeepsCallInv, ServedKeepsEdgeInv
  <2>4. TypeOK'
    BY <2>1, <2>2, ServedIs DEF Inv, TypeOK, Msg, LogSetHandle
  <2>5. /\ client'[m.from].has = None
        /\ \A d \in Client \ {m.from} : client'[d].has = client[d].has
    BY <2>1, <2>2, ServedIs DEF m
  <2>6. HandleHasOneHolder'
    BY <2>1, <2>2, <2>5 DEF Inv, HandleHasOneHolder
  <2>7. LogFollowsSettings' /\ OnlyTheWatchedInterrupts'
    BY <2>1, <2>2 DEF Inv, TypeOK, LogFollowsSettings, OnlyTheWatchedInterrupts, LogSetHandle
  <2> QED
    BY <2>3, <2>4, <2>6, <2>7 DEF Inv
<1>6. ASSUME IsRequest(m), m.type \notin {"Acquire", "Release"}, KeepsHandle,
             queue' \in {Tail(queue), Older(Tail(queue))}, UNCHANGED in_use
      PROVE  /\ Served(client[m.from].has) /\ client[m.from].has \in Port \union {None}
             /\ queue' \in Seq(Msg) /\ Len(queue') <= QueueSize
             /\ client' \in [Client -> [waits : BOOLEAN, has : Port \union {None}]]
             /\ HandleHasOneHolder'
  <2>1. /\ Served(client[m.from].has) /\ client[m.from].has \in Port \union {None}
        /\ m.from \in Client
    BY <1>1, <1>2, <1>6 DEF Served, KeepsHandle, m
  <2>2. \A d \in Client : client'[d].has = client[d].has
    BY <2>1, ServedIs DEF m
  <2> QED
    BY <1>6, <2>1, <2>2, ServedIs DEF Inv, HandleHasOneHolder
<1>7. CASE HandleLogging
  <2>1. m.type = "Logging" /\ m.port \in Port \union {None} /\ queue' = Tail(queue)
        /\ UNCHANGED <<in_use, watched>> /\ KeepsHandle
        /\ log_cfg' = m.port /\ LogSetHandle(IF m.port \in in_use THEN None ELSE m.port)
    BY <1>2, <1>7 DEF HandleLogging, Handling, Taken, m
  <2>2. /\ Served(client[m.from].has) /\ client[m.from].has \in Port \union {None}
        /\ queue' \in Seq(Msg) /\ Len(queue') <= QueueSize
        /\ client' \in [Client -> [waits : BOOLEAN, has : Port \union {None}]]
        /\ HandleHasOneHolder'
    BY <1>6, <2>1
  <2>3. CallInv' /\ EdgeInv'
    BY <2>1, <2>2, ServedKeepsCallInv, ServedKeepsEdgeInv
  <2>4. TypeOK'
    BY <2>1, <2>2 DEF Inv, TypeOK, Msg, LogSetHandle
  <2>5. LogFollowsSettings' /\ OnlyTheWatchedInterrupts'
    BY <2>1 DEF Inv, TypeOK, LogFollowsSettings, OnlyTheWatchedInterrupts, LogSetHandle
  <2> QED
    BY <2>2, <2>3, <2>4, <2>5 DEF Inv
<1>8. CASE HandleWatch
  <2>1. m.type = "Watch" /\ m.port \in Port /\ watched = None /\ m.from = Expansion
        /\ queue' = Tail(queue) /\ KeepsHandle
        /\ watched' = m.port /\ irq' = irq \union {m.port}
        /\ UNCHANGED <<in_use, log_cfg, log>>
    BY <1>3, <1>8 DEF HandleWatch, Handling, m
  <2>2. /\ Served(client[m.from].has) /\ client[m.from].has \in Port \union {None}
        /\ queue' \in Seq(Msg) /\ Len(queue') <= QueueSize
        /\ client' \in [Client -> [waits : BOOLEAN, has : Port \union {None}]]
        /\ HandleHasOneHolder'
    BY <1>6, <2>1
  <2>3. CallInv' /\ EdgeInv'
    BY <2>1, <2>2, ServedKeepsCallInv, ServedKeepsEdgeInv DEF m
  <2>4. TypeOK'
    BY <2>1, <2>2 DEF Inv, TypeOK, Msg
  <2>5. LogFollowsSettings' /\ OnlyTheWatchedInterrupts'
    BY <2>1 DEF Inv, TypeOK, LogFollowsSettings, OnlyTheWatchedInterrupts
  <2> QED
    BY <2>2, <2>3, <2>4, <2>5 DEF Inv
<1>9. CASE HandleUnwatch
  <2>1. m.type = "Unwatch" /\ watched /= None /\ m.port = watched /\ m.from = Expansion
        /\ queue' = Older(Tail(queue)) /\ KeepsHandle
        /\ watched' = None /\ irq' = irq \ {m.port}
        /\ UNCHANGED <<in_use, log_cfg, log>>
    BY <1>3, <1>9 DEF HandleUnwatch, Handling, m
  <2>2. /\ Served(client[m.from].has) /\ client[m.from].has \in Port \union {None}
        /\ queue' \in Seq(Msg) /\ Len(queue') <= QueueSize
        /\ client' \in [Client -> [waits : BOOLEAN, has : Port \union {None}]]
        /\ HandleHasOneHolder'
    BY <1>6, <2>1
  <2>3. CallInv' /\ EdgeInv'
    BY <2>1, <2>2, ServedKeepsCallInv, ServedKeepsEdgeInv DEF m
  <2>4. TypeOK'
    BY <2>1, <2>2 DEF Inv, TypeOK, Msg
  <2>5. LogFollowsSettings' /\ OnlyTheWatchedInterrupts'
    BY <2>1 DEF Inv, TypeOK, LogFollowsSettings, OnlyTheWatchedInterrupts
  <2> QED
    BY <2>2, <2>3, <2>4, <2>5 DEF Inv
<1>10. CASE HandleEdge
  <2>1. queue' = Tail(queue) /\ UNCHANGED <<in_use, log_cfg, log, watched, irq, client>>
    BY <1>10 DEF HandleEdge
  <2>2. \A i \in DOMAIN queue' : i \in Nat /\ i + 1 \in DOMAIN queue /\ queue'[i] = queue[i + 1]
    BY <1>1, <2>1, TailIs
  <2>3. TypeOK'
    BY <1>1, <2>1 DEF Inv, TypeOK, Msg
  <2>4. ASSUME NEW i \in DOMAIN queue', NEW j \in DOMAIN queue',
               IsRequest(queue'[i]), IsRequest(queue'[j]), queue'[i].from = queue'[j].from
        PROVE  i = j
    <3>1. i + 1 = j + 1
      BY <2>2, <2>4 DEF Inv, CallInv
    <3> QED
      BY <2>2, <3>1
  <2>5. CallInv'
    BY <2>1, <2>2, <2>4 DEF Inv, CallInv
  <2>6. ASSUME NEW i \in DOMAIN queue', NEW j \in DOMAIN queue',
               queue'[i].type = "Edge", queue'[j].type = "Watch"
        PROVE  i < j
    <3>1. i + 1 < j + 1
      BY <2>2, <2>6 DEF Inv, EdgeInv
    <3> QED
      BY <2>2, <3>1
  <2>7. EdgeInv'
    BY <2>1, <2>2, <2>6 DEF Inv, EdgeInv
  <2> QED
    BY <2>1, <2>3, <2>5, <2>7 DEF Inv, HandleHasOneHolder, LogFollowsSettings,
         OnlyTheWatchedInterrupts
<1> QED
  BY <1>4, <1>5, <1>7, <1>8, <1>9, <1>10 DEF ServiceStep

LEMMA StepKeepsInv == Inv /\ [Next]_vars => Inv'
<1> SUFFICES ASSUME Inv, [Next]_vars PROVE Inv'
  OBVIOUS
<1>0. Settings \in Client /\ Expansion \in Client /\ User \subseteq Client
  BY DEF Client
<1>t. /\ watched \in Port \union {None}
      /\ \A c \in Client : client[c].has \in Port \union {None}
  BY DEF Inv, TypeOK
<1>1. CASE ServiceStep
  BY <1>1, ServiceKeepsInv
<1>2. ASSUME NEW c \in User, AskRelease(c) PROVE Inv'
  BY <1>0, <1>t, <1>2, AskKeepsInv DEF AskRelease, RequestType
<1>3. ASSUME NEW c \in User, NEW p \in Port, AskAcquire(c, p) PROVE Inv'
  BY <1>0, <1>3, AskKeepsInv DEF AskAcquire, RequestType
<1>4. ASSUME NEW p \in Port \union {None}, Ask(Settings, "Logging", p) PROVE Inv'
  BY <1>0, <1>4, AskKeepsInv DEF RequestType
<1>5. ASSUME NEW p \in Port, AskWatch(p) PROVE Inv'
  BY <1>0, <1>5, AskKeepsInv DEF AskWatch, RequestType
<1>6. ASSUME NEW p \in Port, EdgeSeen(p) PROVE Inv'
  BY <1>6, EdgeSeenKeepsInv
<1>7. CASE AskUnwatch
  BY <1>0, <1>t, <1>7, AskKeepsInv DEF AskUnwatch, RequestType
<1>8. CASE UNCHANGED vars
  BY <1>8 DEF vars, Inv, TypeOK, CallInv, EdgeInv, HandleHasOneHolder, LogFollowsSettings,
              OnlyTheWatchedInterrupts, IsRequest
<1> QED
  BY <1>1, <1>2, <1>3, <1>4, <1>5, <1>6, <1>7, <1>8 DEF Next

--------------------------------------------------------------------------------
(* The theorems. *)

LEMMA InvHolds == Spec => []Inv
BY InitInv, StepKeepsInv, PTL DEF Spec

(* The state of furi_hal_serial_control.c and of its clients is always of its type. *)
THEOREM TypeCorrect == Spec => []TypeOK
<1>1. Inv => TypeOK
  BY DEF Inv
<1> QED
  BY <1>1, InvHolds, PTL

(* However many threads acquire and release handles, a handle in use has exactly one
   of them as its holder, and one that is not has none. *)
THEOREM OneHolder == Spec => []HandleHasOneHolder
<1>1. Inv => HandleHasOneHolder
  BY DEF Inv
<1> QED
  BY <1>1, InvHolds, PTL

(* The log is sent to the configured port exactly when nobody has acquired it. *)
THEOREM LogGivesWay == Spec => []LogFollowsSettings
<1>1. Inv => LogFollowsSettings
  BY DEF Inv
<1> QED
  BY <1>1, InvHolds, PTL

(* Only the watched port interrupts, and it does unless somebody has acquired it. *)
THEOREM WatchResumes == Spec => []OnlyTheWatchedInterrupts
<1>1. Inv => OnlyTheWatchedInterrupts
  BY DEF Inv
<1> QED
  BY <1>1, InvHolds, PTL

(* The expansion callback is only ever called for an edge on the port that is watched
   now, seen since this watch began. *)
THEOREM DetectionIsFresh == Spec => []NoStaleDetection
<1>1. Inv => NoStaleDetection
  <2> SUFFICES ASSUME Inv, Handling("Edge"), watched /= None
               PROVE  Head(queue).port = watched /\ ~Head(queue).old
    BY DEF NoStaleDetection
  <2>1. Head(queue) = queue[1] /\ 1 \in DOMAIN queue
    BY TailIs DEF Handling, Inv, TypeOK
  <2> QED
    BY <2>1 DEF Inv, EdgeInv, Handling
<1> QED
  BY <1>1, InvHolds, PTL

--------------------------------------------------------------------------------
(* The service implements SerialPorts: a handle changes hands when its request is
   served, and what waits in the queue is not seen. *)

shown == <<Held, watched, irq>>

LEMMA HeldStays ==
    ASSUME \A d \in Client : client'[d].has = client[d].has
    PROVE  Held' = Held
BY DEF Held

(* The request at the head of the queue, and its answer. *)
LEMMA RequestIs ==
    ASSUME Inv, queue /= <<>>, IsRequest(Head(queue))
    PROVE  /\ Head(queue).from \in Client /\ Head(queue).port \in Port \union {None}
           /\ Head(queue).type = "Acquire" =>
                Head(queue).port \in Port /\ client[Head(queue).from].has = None
           /\ Head(queue).type = "Release" =>
                Head(queue).port \in Port /\ client[Head(queue).from].has = Head(queue).port
           /\ Head(queue).type = "Watch" => Head(queue).port \in Port /\ watched = None
           /\ Head(queue).type = "Unwatch" => Head(queue).port = watched
<1>1. Head(queue) = queue[1] /\ 1 \in DOMAIN queue
  <2>1. queue \in Seq(Msg)
    BY DEF Inv, TypeOK, Msg
  <2> QED
    BY <2>1, TailIs
<1> QED
  BY <1>1, MessageTypes DEF Inv, CallInv

LEMMA AnswerIs ==
    ASSUME Inv, NEW p, Head(queue).from \in Client, Answer(p)
    PROVE  /\ client'[Head(queue).from].has = p
           /\ \A d \in Client \ {Head(queue).from} : client'[d] = client[d]
BY DEF Inv, TypeOK, Answer

LEMMA AcquireRefines ==
    ASSUME Inv, HandleAcquire
    PROVE  [Ports!Next]_shown
<1>1. PICK c \in Client, p \in Port : c = Head(queue).from /\ p = Head(queue).port /\ client[c].has = None
  BY RequestIs DEF HandleAcquire, Handling, IsRequest
<1>2. CASE p \in in_use
  <2>1. Answer(None) /\ UNCHANGED <<irq, watched>>
    BY <1>1, <1>2 DEF HandleAcquire, Taken
  <2>2. Held' = Held
    BY <1>1, <2>1, AnswerIs, HeldStays
  <2> QED
    BY <2>1, <2>2 DEF shown
<1>3. CASE p \notin in_use
  <2>1. /\ Answer(p) /\ UNCHANGED watched
        /\ \/ irq' = IF watched = p THEN irq \ {p} ELSE irq
           \/ irq' = IF watched = None THEN irq ELSE irq \union {watched}
    BY <1>1, <1>3 DEF HandleAcquire, Taken, LogSetHandle
  <2>2. client'[c].has = p /\ \A d \in Client \ {c} : client'[d] = client[d]
    BY <1>1, <2>1, AnswerIs
  <2>3. \A h \in Held : h[2] /= p
    BY <1>3 DEF Held, Inv, HandleHasOneHolder
  <2>4. Held' = Held \union {<<c, p>>}
    <3>1. \A h \in Client \X Port : client'[h[1]].has = h[2] <=> (client[h[1]].has = h[2] \/ h = <<c, p>>)
      BY <1>1, <2>2
    <3> QED
      BY <3>1 DEF Held
  <2>5. irq' = irq \ {p} \/ Ports!SetUpAgain
    BY <2>1 DEF Inv, OnlyTheWatchedInterrupts, TypeOK, Ports!SetUpAgain
  <2>6. Ports!Acquire(c, p)
    BY <2>1, <2>3, <2>4, <2>5 DEF Ports!Acquire
  <2> QED
    BY <2>6 DEF Ports!Next
<1> QED
  BY <1>2, <1>3

LEMMA ReleaseRefines ==
    ASSUME Inv, HandleRelease
    PROVE  [Ports!Next]_shown
<1>1. PICK c \in Client, p \in Port : c = Head(queue).from /\ p = Head(queue).port /\ client[c].has = p
  BY RequestIs DEF HandleRelease, Handling, IsRequest
<1>2. /\ Answer(None) /\ UNCHANGED watched
      /\ \/ irq' = IF watched = p THEN irq \union {p} ELSE irq
         \/ irq' = IF watched = None THEN irq ELSE irq \union {watched}
  BY <1>1 DEF HandleRelease, LogSetHandle
<1>3. client'[c].has = None /\ \A d \in Client \ {c} : client'[d] = client[d]
  BY <1>1, <1>2, AnswerIs
<1>4. <<c, p>> \in Held
  BY <1>1 DEF Held
<1>5. Held' = Held \ {<<c, p>>}
  <2>1. \A h \in Client \X Port : client'[h[1]].has = h[2] <=> (client[h[1]].has = h[2] /\ h /= <<c, p>>)
    BY <1>1, <1>3
  <2> QED
    BY <2>1 DEF Held
<1>6. irq' = irq \union ({watched} \intersect {p}) \/ Ports!SetUpAgain
  BY <1>2 DEF Inv, OnlyTheWatchedInterrupts, TypeOK, Ports!SetUpAgain
<1>7. Ports!Release(c, p)
  BY <1>2, <1>4, <1>5, <1>6 DEF Ports!Release
<1> QED
  BY <1>7 DEF Ports!Next

LEMMA SettingsRefine ==
    ASSUME Inv, HandleLogging \/ HandleWatch \/ HandleUnwatch
    PROVE  [Ports!Next]_shown
<1>1. /\ queue /= <<>> /\ Head(queue).type \in {"Logging", "Watch", "Unwatch"}
      /\ KeepsHandle
  BY DEF HandleLogging, HandleWatch, HandleUnwatch, Handling
<1>2. Head(queue).from \in Client
  BY <1>1, RequestIs DEF IsRequest
<1>3. Held' = Held
  BY <1>1, <1>2, AnswerIs, HeldStays DEF KeepsHandle
<1>4. CASE HandleLogging
  <2>1. UNCHANGED watched /\ irq' = IF watched = None THEN irq ELSE irq \union {watched}
    BY <1>4 DEF HandleLogging, LogSetHandle
  <2>2. Ports!LogMoves
    BY <1>3, <2>1 DEF Inv, OnlyTheWatchedInterrupts, TypeOK, Ports!LogMoves, Ports!SetUpAgain
  <2> QED
    BY <2>2 DEF Ports!Next
<1>5. CASE HandleWatch
  <2>1. PICK p \in Port : p = Head(queue).port /\ watched = None
    BY <1>5, RequestIs DEF HandleWatch, Handling, IsRequest
  <2>2. watched' = p /\ irq' = irq \union {p} /\ irq \subseteq {None} \intersect Port
    BY <1>5, <2>1 DEF HandleWatch, Inv, OnlyTheWatchedInterrupts, TypeOK
  <2>3. Ports!Watch(p)
    BY <1>3, <2>1, <2>2 DEF Ports!Watch
  <2> QED
    BY <2>3 DEF Ports!Next
<1>6. CASE HandleUnwatch
  <2>1. Head(queue).port = watched
    BY <1>6, RequestIs DEF HandleUnwatch, Handling, IsRequest
  <2>2. Ports!Unwatch
    BY <1>3, <1>6, <2>1 DEF HandleUnwatch, Inv, OnlyTheWatchedInterrupts, Ports!Unwatch
  <2> QED
    BY <2>2 DEF Ports!Next
<1> QED
  BY <1>4, <1>5, <1>6

(* What is put into the queue does not show. *)
LEMMA AsksStutter ==
    ASSUME Inv, NEW c \in Client, NEW type, NEW p, Ask(c, type, p)
    PROVE  UNCHANGED shown
<1>1. \A d \in Client : client'[d].has = client[d].has
  BY DEF Ask, Inv, TypeOK
<1> QED
  BY <1>1, HeldStays DEF Ask, shown

(* Whatever the ports, the clients and the room in the queue, the service is one of
   SerialPorts: a port has one holder, its holder alone gives it back, and the log
   and the watch give way to it and come back after it. *)
THEOREM SerialControlImplementsPorts == Spec => ImplementsPorts
<1>1. Init => Ports!Init
  <2> SUFFICES ASSUME Init PROVE Ports!Init
    OBVIOUS
  <2>1. \A h \in Client \X Port : client[h[1]].has /= h[2]
    BY DEF Init
  <2> QED
    BY <2>1 DEF Init, Ports!Init, Held
<1>2. Inv /\ [Next]_vars => [Ports!Next]_shown
  <2> SUFFICES ASSUME Inv, [Next]_vars PROVE [Ports!Next]_shown
    OBVIOUS
  <2>1. Settings \in Client /\ Expansion \in Client /\ User \subseteq Client
    BY DEF Client
  <2>2. CASE UNCHANGED <<client, watched, irq>>
    BY <2>2, HeldStays DEF shown
  <2>3. ASSUME NEW c \in Client, NEW type, NEW p, Ask(c, type, p) PROVE UNCHANGED shown
    BY <2>3, AsksStutter
  <2>4. CASE ServiceStep
    BY <2>2, <2>4, AcquireRefines, ReleaseRefines, SettingsRefine DEF ServiceStep, HandleEdge
  <2>5. CASE UNCHANGED vars \/ \E p \in Port : EdgeSeen(p)
    BY <2>2, <2>5 DEF vars, EdgeSeen
  <2>6. CASE \/ \E c \in User : AskRelease(c) \/ \E p \in Port : AskAcquire(c, p)
             \/ \E p \in Port \union {None} : Ask(Settings, "Logging", p)
             \/ AskUnwatch \/ \E p \in Port : AskWatch(p)
    BY <2>1, <2>3, <2>6 DEF AskRelease, AskAcquire, AskUnwatch, AskWatch
  <2> QED
    BY <2>4, <2>5, <2>6 DEF Next
<1> QED
  BY <1>1, <1>2, InvHolds, PTL DEF Spec, ImplementsPorts, Ports!Spec, Ports!vars, shown

(* SerialPorts is enough for a client: from its steps alone it follows that a port has
   one holder and that the watched port is deaf only while it is held. *)
THEOREM PortsKeepTheirPromise == Ports!Spec => []Ports!Promise
<1>1. Ports!Init => Ports!Promise
  BY DEF Ports!Init, Ports!Promise
<1>2. Ports!Promise /\ [Ports!Next]_shown => Ports!Promise'
  <2> SUFFICES ASSUME Ports!Promise, [Ports!Next]_shown PROVE Ports!Promise'
    OBVIOUS
  <2> USE DEF Ports!Promise, Ports!SetUpAgain
  <2>1. ASSUME NEW c \in Client, NEW p \in Port, Ports!Acquire(c, p) PROVE Ports!Promise'
    <3>1. /\ Held' = Held \union {<<c, p>>} /\ UNCHANGED watched
          /\ irq' = irq \ {p} \/ irq' = {watched} \ {None}
      BY <2>1 DEF Ports!Acquire
    <3>2. <<c, p>>[2] = p /\ \A h \in Held : h[2] /= p
      BY <2>1 DEF Ports!Acquire
    <3>3. \A g, h \in Held' : g[2] = h[2] => g = h
      BY <3>1, <3>2
    <3>4. ASSUME watched /= None, \A h \in Held' : h[2] /= watched PROVE watched \in irq'
      <4>1. watched /= p
        BY <3>1, <3>2, <3>4
      <4>2. watched \in irq
        BY <3>1, <3>4
      <4> QED
        BY <3>1, <3>4, <4>1, <4>2
    <3> QED
      BY <3>1, <3>3, <3>4
  <2>2. ASSUME NEW c \in Client, NEW p \in Port, Ports!Release(c, p) PROVE Ports!Promise'
    <3>1. /\ Held' = Held \ {<<c, p>>} /\ UNCHANGED watched /\ <<c, p>> \in Held
          /\ irq' = irq \union ({watched} \intersect {p}) \/ irq' = {watched} \ {None}
      BY <2>2 DEF Ports!Release
    <3>2. ASSUME watched /= None, \A h \in Held' : h[2] /= watched PROVE watched \in irq'
      <4>1. CASE watched = p
        BY <3>1, <3>2, <4>1
      <4>2. CASE watched /= p
        <5>1. <<c, p>>[2] = p
          OBVIOUS
        <5>2. \A h \in Held : h[2] /= watched
          BY <3>1, <3>2, <4>2, <5>1
        <5> QED
          BY <3>1, <3>2, <5>2
      <4> QED
        BY <4>1, <4>2
    <3> QED
      BY <3>1, <3>2
  <2>3. ASSUME NEW p \in Port, Ports!Watch(p) PROVE Ports!Promise'
    BY <2>3 DEF Ports!Watch
  <2>4. CASE Ports!Unwatch \/ Ports!LogMoves
    BY <2>4 DEF Ports!Unwatch, Ports!LogMoves
  <2>5. CASE UNCHANGED shown
    BY <2>5 DEF shown
  <2> QED
    BY <2>1, <2>2, <2>3, <2>4, <2>5 DEF Ports!Next
<1> QED
  BY <1>1, <1>2, PTL DEF Ports!Spec, Ports!vars, shown
================================================================================
