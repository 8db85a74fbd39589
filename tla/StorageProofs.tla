----------------------------- MODULE StorageProofs -----------------------------
(***************************************************************************)
(* Proofs about the storage service (Storage.tla), for any clients that fit *)
(* the queue, any names, and any opens. What is about the owner of an entry *)
(* holds if no File is closed twice (StaleClose).                           *)
(***************************************************************************)
EXTENDS Storage, FiniteSetTheorems, TLAPS

USE ClientAssumption, NodeAssumption, RoleAssumption, VolumeAssumption, BaseAssumption,
    BoundAssumption

CallRecord == [pc : {"idle", "queued", "denied", "waiting", "open", "failed", "exists", "rename"},
               op : {"Open", "Use", "Close", "Stat", "Remove", "RemoveNew", "Rename",
                     "Format", "Unmount", "Mount"},
               name : Name, to : Name, flag : BOOLEAN, opens : 0..MaxOpens]
CardRecord == [present : BOOLEAN, status : {"NotReady", "OK", "Error"}, was : BOOLEAN,
               gui : BOOLEAN, hand : BOOLEAN]
Killer == {"none", "command", "format", "removal", "remount", "hand"}

(* A client has one message in the queue at most, and then it waits for the answer. *)
QueueInv ==
    /\ \A i, j \in DOMAIN queue : queue[i] = queue[j] => i = j
    /\ \A i \in DOMAIN queue : call[queue[i]].pc = "queued"

OneEntryPerNode == \A d, e \in table : d.node = e.node => d = e

(* Only an open is denied; until the close it waits for, its path is in the table. *)
WaitInv ==
    \A c \in Client : call[c].pc \in {"denied", "waiting"} =>
        call[c].op = "Open" /\ (~call[c].flag => \E p \in Wanted(c) : Busy(p))

(* A handle reaches its file on the card only while the card is mounted and the file
   exists; a card that is mounted though its insertion has not been seen was mounted
   by hand. *)
LiveOnCard(e) == e.live /\ e.path.vol = "ext"
CardInv ==
    /\ card.status /= "NotReady" /\ card.was => card.hand
    /\ \A e \in table : LiveOnCard(e) => card.status /= "NotReady" /\ e.path \in dir

(* Who has an entry: a client from the answer to its open to the answer to its close.
   Its file_id is the node of that entry; one that asked for no valid name has none. *)
Holds(c) ==
    call[c].pc \in {"open", "failed"} \/ (call[c].pc = "queued" /\ call[c].op \in {"Use", "Close"})
HasEntry(c) == \E e \in table : e.file = c
OwnerInv ==
    /\ ~foreign
    /\ \A e \in table : fileId[e.file] = e.node /\ Holds(e.file)
    /\ \A c \in Client :
        /\ call[c].pc = "open" \/ (call[c].pc = "queued" /\ call[c].op = "Use") => HasEntry(c)
        /\ Holds(c) => HasEntry(c) \/ fileId[c] = NoNode
        /\ Waits(c) /\ call[c].name.vol = "bad" => fileId[c] = NoNode

Inv ==
    /\ TypeOK /\ QueueInv
    /\ OneEntryPerPath /\ OneEntryPerNode
    /\ WaitInv /\ CardInv /\ HandleEndsForAReason
    /\ ~StaleClose => OwnerInv

--------------------------------------------------------------------------------
(* What the helpers of the model do. *)

LEMMA NamesAre ==
    /\ NoName \in Name /\ NoNode \notin Node
    /\ \A n \in Name : n.base \in Base /\ n.vol \in {"ext", "int", "any", "bad"}
<1>1. PICK v \in Volumes, b \in Base : TRUE
  BY DEF Name
<1>2. (CHOOSE x \in Base : TRUE) \in Base
  BY <1>1
<1>3. BadName.base \in Base /\ BadName.vol = "bad"
  BY <1>2 DEF BadName
<1>4. \E n \in [vol : Volumes, base : Base] : n.vol = "bad" => n = BadName
  <2>1. CASE v = "bad"
    <3>1. BadName \in [vol : Volumes, base : Base]
      BY <1>2, <2>1 DEF BadName
    <3> QED
      BY <3>1
  <2>2. CASE v /= "bad"
    <3>1. [vol |-> v, base |-> b] \in [vol : Volumes, base : Base]
      OBVIOUS
    <3> QED
      BY <2>2, <3>1
  <2> QED
    BY <2>1, <2>2
<1>5. NoName \in Name
  BY <1>4 DEF NoName, Name
<1> QED
  BY <1>5 DEF Name

LEMMA NoCallIs ==
    /\ NoCall \in CallRecord /\ NoCall.pc = "idle" /\ NoCall.op = "Open"
BY NamesAre DEF NoCall, CallRecord

LEMMA Typed ==
    ASSUME TypeOK
    PROVE  /\ queue \in Seq(Client) /\ Len(queue) <= QueueSize
           /\ fileId \in [Client -> Node \union {NoNode}]
           /\ call \in [Client -> CallRecord]
           /\ table \subseteq Entry /\ dir \subseteq Path
           /\ card \in CardRecord /\ foreign \in BOOLEAN
BY DEF TypeOK, CallRecord, CardRecord

LEMMA TypedNext ==
    ASSUME queue' \in Seq(Client), Len(queue') <= QueueSize,
           fileId' \in [Client -> Node \union {NoNode}], call' \in [Client -> CallRecord],
           table' \subseteq Entry, dir' \subseteq Path, card' \in CardRecord, foreign' \in BOOLEAN
    PROVE  TypeOK'
BY DEF TypeOK, CallRecord, CardRecord

(* A message is put by a client that has none in the queue: there is room. *)
LEMMA PutIs ==
    ASSUME Inv, NEW c \in Client, call[c].pc /= "queued"
    PROVE  LET q == Append(queue, c)
           IN  /\ q \in Seq(Client) /\ Len(q) <= QueueSize
               /\ \A i, j \in DOMAIN q : q[i] = q[j] => i = j
               /\ \A i \in DOMAIN q : q[i] = c \/ (i \in DOMAIN queue /\ q[i] = queue[i])
<1> DEFINE q == Append(queue, c)
<1>1. /\ queue \in Seq(Client) /\ Len(queue) \in Nat /\ DOMAIN queue = 1..Len(queue)
      /\ q \in Seq(Client) /\ Len(q) = Len(queue) + 1 /\ DOMAIN q = 1..(Len(queue) + 1)
      /\ \A i \in DOMAIN queue : q[i] = queue[i]
      /\ q[Len(queue) + 1] = c
  BY Typed DEF Inv
<1>2. \A i \in DOMAIN queue : queue[i] /= c
  BY DEF Inv, QueueInv
<1>3. \A i \in DOMAIN q : q[i] = c \/ (i \in DOMAIN queue /\ q[i] = queue[i])
  BY <1>1
<1>4. \A i, j \in DOMAIN q : q[i] = q[j] => i = j
  BY <1>1, <1>2 DEF Inv, QueueInv
<1>5. Len(q) <= QueueSize
  <2> HIDE DEF q
  <2>1. q \in [1..Len(q) -> Client]
    BY <1>1
  <2>2. q \in Injection(1..Len(q), Client)
    BY <1>1, <1>4, <2>1 DEF Injection, IsInjective
  <2>3. Cardinality(1..Len(q)) = Len(q)
    BY <1>1, FS_Interval
  <2>4. Cardinality(1..Len(q)) <= Cardinality(Client)
    BY <2>2, FS_Injection
  <2>5. Cardinality(Client) \in Nat /\ Cardinality(Client) <= 8
    BY FS_CardinalityType DEF QueueSize
  <2> QED
    BY <1>1, <2>3, <2>4, <2>5 DEF QueueSize
<1> QED
  BY <1>1, <1>3, <1>4, <1>5

(* The message at the head is taken: of the others none is of this client. *)
LEMMA TakenIs ==
    ASSUME Inv, queue /= <<>>
    PROVE  /\ Head(queue) \in Client /\ call[Head(queue)].pc = "queued"
           /\ Tail(queue) \in Seq(Client) /\ Len(Tail(queue)) <= QueueSize
           /\ \A i, j \in DOMAIN Tail(queue) : Tail(queue)[i] = Tail(queue)[j] => i = j
           /\ \A i \in DOMAIN Tail(queue) : /\ Tail(queue)[i] \in Client
                                            /\ Tail(queue)[i] /= Head(queue)
                                            /\ call[Tail(queue)[i]].pc = "queued"
<1> DEFINE q == Tail(queue)
<1>1. /\ queue \in Seq(Client) /\ Len(queue) \in Nat \ {0} /\ DOMAIN queue = 1..Len(queue)
      /\ q \in Seq(Client) /\ Len(q) = Len(queue) - 1 /\ DOMAIN q = 1..(Len(queue) - 1)
      /\ \A i \in DOMAIN q : q[i] = queue[i + 1]
      /\ Head(queue) = queue[1] /\ Len(queue) <= QueueSize
  BY Typed DEF Inv
<1>2. \A i \in DOMAIN q : i + 1 \in DOMAIN queue /\ i + 1 /= 1
  BY <1>1
<1>3. 1 \in DOMAIN queue /\ Head(queue) \in Client /\ call[Head(queue)].pc = "queued"
  BY <1>1 DEF Inv, QueueInv
<1>4. \A i, j \in DOMAIN q : q[i] = q[j] => i = j
  BY <1>1, <1>2 DEF Inv, QueueInv
<1>5. \A i \in DOMAIN q : q[i] \in Client /\ q[i] /= Head(queue) /\ call[q[i]].pc = "queued"
  BY <1>1, <1>2, <1>3 DEF Inv, QueueInv
<1>6. Len(q) <= QueueSize
  BY <1>1 DEF QueueSize
<1> QED
  BY <1>1, <1>3, <1>4, <1>5, <1>6

(* An entry keeps its node, its File and its path as long as it is in the table. *)
Same(d, e) == d.node = e.node /\ d.file = e.file /\ d.path = e.path

(* The entries of table' are those of table, each with another state of its handle. *)
Refits ==
    /\ table' \subseteq Entry
    /\ \A d \in table' : \E e \in table : Same(d, e)
    /\ \A e \in table : \E d \in table' : Same(d, e)
    /\ OneEntryPerPath' /\ OneEntryPerNode'

LEMMA EntryFields ==
    ASSUME NEW e \in Entry
    PROVE  /\ e.node \in Node /\ e.file \in Client /\ e.path \in Path /\ e.live \in BOOLEAN
           /\ e.killer \in Killer
BY DEF Entry, Killer

LEMMA KilledIs ==
    ASSUME Inv, NEW k \in Killer, table' = Kill(k)
    PROVE  /\ Refits
           /\ \A d \in table' :
                /\ ~LiveOnCard(d)
                /\ d \in table \/ (d.killer = k /\ \E e \in table : LiveOnCard(e) /\ Same(d, e))
<1>1. table \subseteq Entry
  BY Typed DEF Inv
<1>2. ASSUME NEW e \in table, LiveOnCard(e)
      PROVE  LET d == [e EXCEPT !.live = FALSE, !.killer = k]
             IN  d \in Entry /\ Same(d, e) /\ ~d.live /\ d.killer = k
  <2>0. PICK b \in BOOLEAN : b = FALSE
    OBVIOUS
  <2>1. PICK d : d = [e EXCEPT !.live = b, !.killer = k]
    OBVIOUS
  <2>2. e \in Entry
    BY <1>1
  <2>3. Same(d, e) /\ d.live = b /\ d.killer = k
    BY <2>1, <2>2 DEF Entry, Same
  <2>4. d \in Entry
    BY <2>1, <2>2 DEF Entry, Killer
  <2> QED
    BY <2>0, <2>1, <2>3, <2>4
<1>3. table' = {IF LiveOnCard(e) THEN [e EXCEPT !.live = FALSE, !.killer = k] ELSE e : e \in table}
  BY DEF Kill, LiveOnCard
<1>4. ASSUME NEW d \in table'
      PROVE  \E e \in table : /\ Same(d, e) /\ d \in Entry
                              /\ \/ d = e /\ ~LiveOnCard(e)
                                 \/ /\ LiveOnCard(e) /\ ~d.live /\ d.killer = k
                                    /\ d = [e EXCEPT !.live = FALSE, !.killer = k]
  <2>1. PICK e \in table :
            d = IF LiveOnCard(e) THEN [e EXCEPT !.live = FALSE, !.killer = k] ELSE e
    BY <1>3
  <2>2. CASE LiveOnCard(e)
    BY <1>2, <2>1, <2>2
  <2>3. CASE ~LiveOnCard(e)
    BY <1>1, <2>1, <2>3 DEF Same
  <2> QED
    BY <2>2, <2>3
<1>5. ASSUME NEW e \in table PROVE \E d \in table' : Same(d, e)
  <2>1. CASE LiveOnCard(e)
    BY <1>2, <1>3, <2>1
  <2>2. CASE ~LiveOnCard(e)
    BY <1>3, <2>2 DEF Same
  <2> QED
    BY <2>1, <2>2
<1>6. ASSUME NEW d1 \in table', NEW d2 \in table', d1.path = d2.path \/ d1.node = d2.node
      PROVE  d1 = d2
  <2>1. PICK e1 \in table : /\ Same(d1, e1)
                            /\ \/ d1 = e1 /\ ~LiveOnCard(e1)
                               \/ LiveOnCard(e1) /\ d1 = [e1 EXCEPT !.live = FALSE, !.killer = k]
    BY <1>4
  <2>2. PICK e2 \in table : /\ Same(d2, e2)
                            /\ \/ d2 = e2 /\ ~LiveOnCard(e2)
                               \/ LiveOnCard(e2) /\ d2 = [e2 EXCEPT !.live = FALSE, !.killer = k]
    BY <1>4
  <2>3. e1 = e2
    BY <1>6, <2>1, <2>2 DEF Same, Inv, OneEntryPerPath, OneEntryPerNode
  <2> QED
    BY <2>1, <2>2, <2>3
<1>7. Refits
  BY <1>4, <1>5, <1>6 DEF Refits, OneEntryPerPath, OneEntryPerNode
<1>8. ASSUME NEW d \in table'
      PROVE  /\ ~LiveOnCard(d)
             /\ d \in table \/ (d.killer = k /\ \E e \in table : LiveOnCard(e) /\ Same(d, e))
  BY <1>4 DEF LiveOnCard
<1> QED
  BY <1>7, <1>8

LEMMA InitInv == Init => Inv
<1> SUFFICES ASSUME Init PROVE Inv
  OBVIOUS
<1>1. TypeOK
  <2>1. /\ queue \in Seq(Client) /\ Len(queue) <= QueueSize
        /\ fileId \in [Client -> Node \union {NoNode}]
        /\ table \subseteq Entry /\ dir \subseteq Path /\ foreign \in BOOLEAN
    <3>1. queue \in Seq(Client) /\ Len(queue) <= QueueSize
      BY DEF Init, QueueSize
    <3>2. fileId \in [Client -> Node \union {NoNode}]
      BY DEF Init
    <3> QED
      BY <3>1, <3>2 DEF Init
  <2>2. call \in [Client -> CallRecord]
    BY NoCallIs DEF Init
  <2>3. card \in CardRecord
    BY DEF Init, CardRecord
  <2> QED
    BY <2>1, <2>2, <2>3 DEF TypeOK, CallRecord, CardRecord
<1>2. \A c \in Client : call[c].pc = "idle"
  BY NoCallIs DEF Init
<1>3. QueueInv /\ OneEntryPerPath /\ OneEntryPerNode /\ HandleEndsForAReason
  BY DEF Init, QueueInv, OneEntryPerPath, OneEntryPerNode, HandleEndsForAReason
<1>4. CardInv
  BY DEF Init, CardInv
<1>5. WaitInv /\ OwnerInv
  BY <1>2 DEF Init, WaitInv, OwnerInv, Holds, Waits
<1> QED
  BY <1>1, <1>3, <1>4, <1>5 DEF Inv

--------------------------------------------------------------------------------
(* The callers. The table, the files and the card are the service's. *)

LEMMA ServiceUntouched ==
    ASSUME Inv, UNCHANGED <<table, dir, card>>
    PROVE  /\ OneEntryPerPath' /\ OneEntryPerNode' /\ CardInv'
           /\ HandleEndsForAReason'
BY DEF Inv, OneEntryPerPath, OneEntryPerNode, CardInv, HandleEndsForAReason,
       LiveOnCard

(* What a caller may make of its call: it goes on waiting for the same path, it
   keeps or gives up no entry, and it uses no File that is not open. *)
MayBecome(c, r) ==
    /\ call[c].pc /= "queued"
    /\ r.pc \in {"denied", "waiting"} =>
          /\ call[c].pc \in {"denied", "waiting"}
          /\ r.op = call[c].op /\ r.name = call[c].name /\ r.flag = call[c].flag
    /\ ~StaleClose =>
          /\ Holds(c) <=> r.pc \in {"open", "failed"} \/ (r.pc = "queued" /\ r.op \in {"Use", "Close"})
          /\ r.pc = "open" \/ (r.pc = "queued" /\ r.op = "Use") => call[c].pc = "open"
          /\ r.op = "Open" /\ r.pc \in {"queued", "denied", "waiting"} /\ r.name.vol = "bad" =>
                fileId[c] = NoNode

LEMMA CallerKeepsInv ==
    ASSUME Inv, NEW c \in Client, NEW r \in CallRecord, call' = [call EXCEPT ![c] = r],
           MayBecome(c, r),
           (queue' = Append(queue, c) /\ r.pc = "queued") \/ UNCHANGED queue,
           UNCHANGED <<fileId, table, dir, card, foreign>>
    PROVE  Inv'
<1>1. /\ call' \in [Client -> CallRecord] /\ call'[c] = r
      /\ \A d \in Client : d /= c => call'[d] = call[d]
  BY Typed DEF Inv
<1>2. queue' \in Seq(Client) /\ Len(queue') <= QueueSize /\ QueueInv'
  <2>1. CASE queue' = Append(queue, c) /\ r.pc = "queued"
    <3>1. /\ queue' \in Seq(Client) /\ Len(queue') <= QueueSize
          /\ \A i, j \in DOMAIN queue' : queue'[i] = queue'[j] => i = j
          /\ \A i \in DOMAIN queue' : queue'[i] = c \/ (i \in DOMAIN queue /\ queue'[i] = queue[i])
      BY <2>1, PutIs DEF MayBecome
    <3>2. \A i \in DOMAIN queue : queue[i] \in Client
      BY Typed DEF Inv
    <3> QED
      BY <1>1, <2>1, <3>1, <3>2 DEF Inv, QueueInv
  <2>2. CASE UNCHANGED queue
    <3>1. \A i \in DOMAIN queue : queue[i] \in Client /\ queue[i] /= c
      BY Typed DEF Inv, QueueInv, MayBecome
    <3> QED
      BY <1>1, <2>2, <3>1, Typed DEF Inv, QueueInv
  <2> QED
    BY <2>1, <2>2
<1>3. TypeOK'
  BY <1>1, <1>2, Typed, TypedNext DEF Inv
<1>4. WaitInv'
  <2> SUFFICES ASSUME NEW d \in Client, call'[d].pc \in {"denied", "waiting"}
               PROVE  /\ call'[d].op = "Open"
                      /\ ~call'[d].flag => \E p \in Wanted(d)' : Busy(p)'
    BY DEF WaitInv
  <2>1. /\ call[d].pc \in {"denied", "waiting"} /\ call'[d].op = call[d].op
        /\ call'[d].name = call[d].name /\ call'[d].flag = call[d].flag
    BY <1>1 DEF MayBecome
  <2>2. Wanted(d)' = Wanted(d)
    BY <2>1 DEF Wanted, Real
  <2>3. \A p : Busy(p)' <=> Busy(p)
    BY DEF Busy
  <2> QED
    BY <2>1, <2>2, <2>3 DEF Inv, WaitInv
<1>5. ~StaleClose => OwnerInv'
  <2> SUFFICES ASSUME ~StaleClose PROVE OwnerInv'
    OBVIOUS
  <2>1. \A d \in Client : Holds(d)' <=> Holds(d)
    BY <1>1 DEF Holds, MayBecome
  <2>2. \A e \in table : e.file \in Client
    BY Typed, EntryFields DEF Inv
  <2>3. \A d \in Client : HasEntry(d)' <=> HasEntry(d)
    BY DEF HasEntry
  <2>4. ~foreign' /\ \A e \in table' : fileId'[e.file] = e.node /\ Holds(e.file)'
    BY <2>1, <2>2 DEF Inv, OwnerInv
  <2>5. ASSUME NEW d \in Client
        PROVE  /\ call'[d].pc = "open" \/ (call'[d].pc = "queued" /\ call'[d].op = "Use") => HasEntry(d)'
               /\ Holds(d)' => HasEntry(d)' \/ fileId'[d] = NoNode
               /\ Waits(d)' /\ call'[d].name.vol = "bad" => fileId'[d] = NoNode
    BY <1>1, <2>1, <2>3 DEF Inv, OwnerInv, Waits, MayBecome
  <2> QED
    BY <2>4, <2>5 DEF OwnerInv
<1> QED
  BY <1>2, <1>3, <1>4, <1>5, ServiceUntouched DEF Inv

LEMMA SentIs ==
    ASSUME Inv, NEW c \in Client,
           NEW op \in {"Open", "Use", "Close", "Stat", "Remove", "RemoveNew", "Rename",
                       "Format", "Unmount", "Mount"},
           NEW n \in Name, NEW to \in Name, Send(c, op, n, to)
    PROVE  \E r \in CallRecord : /\ call' = [call EXCEPT ![c] = r] /\ r.pc = "queued" /\ r.op = op
                                 /\ r.name = n /\ queue' = Append(queue, c)
<1>1. call[c] \in CallRecord
  BY Typed DEF Inv
<1>2. PICK r : r = [call[c] EXCEPT !.pc = "queued", !.op = op, !.name = n, !.to = to]
  OBVIOUS
<1>3. r \in CallRecord /\ r.pc = "queued" /\ r.op = op /\ r.name = n
  BY <1>1, <1>2 DEF CallRecord
<1>4. call' = [call EXCEPT ![c] = r] /\ queue' = Append(queue, c)
  BY <1>2, Typed DEF Send, Inv
<1> QED
  BY <1>3, <1>4

LEMMA ClientKeepsInv ==
    ASSUME Inv, NEW c \in Client, ClientStep(c)
    PROVE  Inv'
<1>0. call[c] \in CallRecord /\ call \in [Client -> CallRecord]
  BY Typed DEF Inv
<1>1. CASE FileOpen(c)
  <2>1. PICK n \in Name :
          /\ n.vol = "bad" => StaleClose \/ fileId[c] = NoNode
          /\ call' = [call EXCEPT ![c] = [NoCall EXCEPT !.pc = "queued", !.name = n,
                                                        !.opens = call[c].opens + 1]]
    BY <1>1 DEF FileOpen
  <2>2. PICK r : r = [NoCall EXCEPT !.pc = "queued", !.name = n, !.opens = call[c].opens + 1]
    OBVIOUS
  <2>3. /\ call[c].pc = "idle" /\ call[c].opens < MaxOpens /\ queue' = Append(queue, c)
        /\ UNCHANGED <<fileId, table, dir, card, foreign>>
    BY <1>1 DEF FileOpen
  <2>4. call[c].opens + 1 \in 0..MaxOpens
    BY <1>0, <2>3 DEF CallRecord
  <2>5. r \in CallRecord /\ r.pc = "queued" /\ r.op = "Open" /\ r.name = n
    BY <2>2, <2>4, NoCallIs DEF CallRecord
  <2>6. MayBecome(c, r)
    BY <2>1, <2>3, <2>5 DEF MayBecome, Holds
  <2>7. call' = [call EXCEPT ![c] = r]
    BY <2>1, <2>2
  <2> QED
    BY <2>3, <2>5, <2>6, <2>7, CallerKeepsInv
<1>2. CASE AwaitClose(c)
  <2>1. /\ call[c].pc = "denied" /\ call' = [call EXCEPT ![c].pc = "waiting"]
        /\ UNCHANGED <<queue, fileId, table, dir, card, foreign>>
    BY <1>2 DEF AwaitClose
  <2>2. PICK r : r = [call[c] EXCEPT !.pc = "waiting"]
    OBVIOUS
  <2>3. /\ r \in CallRecord /\ r.pc = "waiting" /\ r.op = call[c].op /\ r.name = call[c].name
        /\ r.flag = call[c].flag
    BY <1>0, <2>2 DEF CallRecord
  <2>4. call' = [call EXCEPT ![c] = r]
    BY <2>1, <2>2
  <2>5. call[c].op = "Open"
    BY <2>1 DEF Inv, WaitInv
  <2>6. ~Holds(c) /\ (~StaleClose /\ call[c].name.vol = "bad" => fileId[c] = NoNode)
    BY <2>1, <2>5 DEF Holds, Inv, OwnerInv, Waits
  <2>7. MayBecome(c, r)
    BY <2>1, <2>3, <2>5, <2>6 DEF MayBecome
  <2> QED
    BY <2>1, <2>3, <2>4, <2>7, CallerKeepsInv
<1>3. CASE Retry(c)
  <2>1. /\ call[c].pc = "waiting" /\ call' = [call EXCEPT ![c].pc = "queued", ![c].flag = FALSE]
        /\ queue' = Append(queue, c)
        /\ UNCHANGED <<fileId, table, dir, card, foreign>>
    BY <1>3 DEF Retry
  <2>0. PICK b \in BOOLEAN : b = FALSE
    OBVIOUS
  <2>2. PICK r : r = [call[c] EXCEPT !.pc = "queued", !.flag = b]
    OBVIOUS
  <2>3. r \in CallRecord /\ r.pc = "queued" /\ r.op = call[c].op /\ r.name = call[c].name
    BY <1>0, <2>2 DEF CallRecord
  <2>4. call' = [call EXCEPT ![c] = r]
    BY <2>0, <2>1, <2>2
  <2>5. call[c].op = "Open"
    BY <2>1 DEF Inv, WaitInv
  <2>6. ~Holds(c) /\ (~StaleClose /\ call[c].name.vol = "bad" => fileId[c] = NoNode)
    BY <2>1, <2>5 DEF Holds, Inv, OwnerInv, Waits
  <2>7. MayBecome(c, r)
    BY <2>1, <2>3, <2>5, <2>6 DEF MayBecome
  <2> QED
    BY <2>1, <2>3, <2>4, <2>7, CallerKeepsInv
<1>4. CASE FileUse(c)
  <2>1. call[c].pc = "open" /\ Send(c, "Use", NoName, NoName)
        /\ UNCHANGED <<fileId, table, dir, card, foreign>>
    BY <1>4 DEF FileUse
  <2>2. PICK r \in CallRecord : /\ call' = [call EXCEPT ![c] = r] /\ r.pc = "queued" /\ r.op = "Use"
                                /\ queue' = Append(queue, c)
    BY <2>1, SentIs, NamesAre
  <2>3. MayBecome(c, r)
    BY <2>1, <2>2 DEF MayBecome, Holds
  <2> QED
    BY <2>1, <2>2, <2>3, CallerKeepsInv
<1>5. CASE FileClose(c)
  <2>1. /\ call[c].pc \in {"open", "failed"} \/ (StaleClose /\ call[c].pc = "idle")
        /\ Send(c, "Close", NoName, NoName)
        /\ UNCHANGED <<fileId, table, dir, card, foreign>>
    BY <1>5 DEF FileClose
  <2>2. PICK r \in CallRecord : /\ call' = [call EXCEPT ![c] = r] /\ r.pc = "queued" /\ r.op = "Close"
                                /\ queue' = Append(queue, c)
    BY <2>1, SentIs, NamesAre
  <2>3. ~StaleClose => Holds(c)
    BY <2>1 DEF Holds
  <2>4. call[c].pc /= "queued"
    BY <2>1
  <2>5. MayBecome(c, r)
    BY <2>2, <2>3, <2>4 DEF MayBecome
  <2> QED
    BY <2>1, <2>2, <2>5, CallerKeepsInv
<1>6. CASE FileFree(c)
  <2>1. /\ call[c].pc = "idle" /\ fileId' = [fileId EXCEPT ![c] = NoNode]
        /\ UNCHANGED <<queue, call, table, dir, card, foreign>>
    BY <1>6 DEF FileFree
  <2>2. /\ fileId' \in [Client -> Node \union {NoNode}] /\ fileId'[c] = NoNode
        /\ \A d \in Client : d /= c => fileId'[d] = fileId[d]
    BY <2>1, Typed DEF Inv
  <2>3. TypeOK'
    BY <2>1, <2>2, Typed, TypedNext DEF Inv
  <2>4. QueueInv' /\ WaitInv'
    BY <2>1 DEF Inv, QueueInv, WaitInv, Wanted, Real, Busy
  <2>5. ~StaleClose => OwnerInv'
    <3> SUFFICES ASSUME ~StaleClose PROVE OwnerInv'
      OBVIOUS
    <3>1. \A e \in table : e.file \in Client /\ e.file /= c
      BY <2>1, Typed, EntryFields DEF Inv, OwnerInv, Holds
    <3> QED
      BY <2>1, <2>2, <3>1 DEF Inv, OwnerInv, Holds, HasEntry, Waits
  <2> QED
    BY <2>1, <2>3, <2>4, <2>5, ServiceUntouched DEF Inv
<1>7. CASE CommonAsk(c)
  <2>1. call[c].pc = "idle" /\ UNCHANGED <<fileId, table, dir, card, foreign>>
    BY <1>7 DEF CommonAsk
  <2>2. \E op \in {"Remove", "Format", "Unmount", "Mount"}, n \in Name, to \in Name : Send(c, op, n, to)
    BY <1>7, NamesAre DEF CommonAsk
  <2>3. PICK r \in CallRecord : /\ call' = [call EXCEPT ![c] = r] /\ r.pc = "queued"
                                /\ r.op \notin {"Open", "Use", "Close"} /\ queue' = Append(queue, c)
    BY <2>2, SentIs
  <2>4. MayBecome(c, r)
    BY <2>1, <2>3 DEF MayBecome, Holds
  <2> QED
    BY <2>1, <2>3, <2>4, CallerKeepsInv
<1>8. CASE RenameAsk(c) \/ RenameGoesOn(c)
  <2>1. call[c].pc \in {"idle", "exists", "rename"} /\ UNCHANGED <<fileId, table, dir, card, foreign>>
    BY <1>8 DEF RenameAsk, RenameGoesOn
  <2>2. \E op \in {"Stat", "RemoveNew", "Rename"}, n \in Name, to \in Name : Send(c, op, n, to)
    BY <1>0, <1>8 DEF RenameAsk, RenameGoesOn, CallRecord
  <2>3. PICK r \in CallRecord : /\ call' = [call EXCEPT ![c] = r] /\ r.pc = "queued"
                                /\ r.op \notin {"Open", "Use", "Close"} /\ queue' = Append(queue, c)
    BY <2>2, SentIs
  <2>4. MayBecome(c, r)
    BY <2>1, <2>3 DEF MayBecome, Holds
  <2> QED
    BY <2>1, <2>3, <2>4, CallerKeepsInv
<1> QED
  BY <1>1, <1>2, <1>3, <1>4, <1>5, <1>6, <1>7, <1>8 DEF ClientStep

--------------------------------------------------------------------------------
(* The service. *)

LEMMA AnsweredIs ==
    ASSUME Inv, NEW c \in Client,
           NEW pc \in {"idle", "denied", "open", "failed", "exists", "rename"}
    PROVE  /\ Answered(c, pc) \in CallRecord /\ Answered(c, pc).pc = pc
           /\ pc = "denied" => /\ Answered(c, pc).op = call[c].op
                               /\ Answered(c, pc).name = call[c].name
                               /\ Answered(c, pc).flag = call[c].flag
<1>1. call[c] \in CallRecord
  BY Typed DEF Inv
<1>2. call[c].opens \in 0..MaxOpens
  BY <1>1 DEF CallRecord
<1>3. CASE pc \in {"idle", "open", "failed"}
  <2>1. Answered(c, pc) = [NoCall EXCEPT !.pc = pc, !.opens = call[c].opens]
    BY <1>3 DEF Answered
  <2> QED
    BY <1>2, <1>3, <2>1, NoCallIs DEF CallRecord
<1>4. CASE pc \in {"denied", "exists", "rename"}
  <2>1. Answered(c, pc) = [call[c] EXCEPT !.pc = pc]
    BY <1>4 DEF Answered
  <2> QED
    BY <1>1, <1>4, <2>1 DEF CallRecord
<1> QED
  BY <1>3, <1>4

(* What a name may stand for does not depend on the card. *)
LEMMA WantedKept ==
    ASSUME Inv, NEW c \in Client, call'[c].name = call[c].name
    PROVE  Wanted(c) \subseteq Wanted(c)'
<1>1. call[c].name \in Name /\ call[c].name \in [vol : Volumes, base : Base]
  BY Typed DEF Inv, CallRecord, Name
<1>2. CASE call[c].name.vol = "any"
  <2>1. PICK v \in {"ext", "int"} : Real(call[c].name) = [call[c].name EXCEPT !.vol = v]
    BY <1>2 DEF Real
  <2>2. Real(call[c].name) \in Path /\ Real(call[c].name).base = call[c].name.base
    BY <1>1, <2>1 DEF Path
  <2> QED
    BY <1>2, <2>2 DEF Wanted
<1>3. CASE call[c].name.vol /= "any"
  BY <1>3 DEF Wanted, Real
<1> QED
  BY <1>2, <1>3

(* A client that is denied or waits now was so before, or has just been denied. *)
LEMMA WaitersKept ==
    ASSUME Inv,
           \A e \in table : \E d \in table' : d.path = e.path,
           \A c \in Client : call'[c].pc \in {"denied", "waiting"} =>
              /\ call[c].pc \in {"denied", "waiting"} /\ call'[c].op = call[c].op
              /\ call'[c].name = call[c].name /\ (call[c].flag => call'[c].flag)
    PROVE  WaitInv'
<1> SUFFICES ASSUME NEW c \in Client, call'[c].pc \in {"denied", "waiting"}
             PROVE  call'[c].op = "Open" /\ (~call'[c].flag => \E p \in Wanted(c)' : Busy(p)')
  BY DEF WaitInv
<1>1. call[c].op = "Open" /\ (~call[c].flag => \E p \in Wanted(c) : Busy(p))
  BY DEF Inv, WaitInv
<1>2. \A p : Busy(p) => Busy(p)'
  BY DEF Busy
<1> QED
  BY <1>1, <1>2, WantedKept

LEMMA OwnersKept ==
    ASSUME Inv, ~StaleClose, Refits, UNCHANGED <<fileId, foreign>>,
           \A c \in Client :
              /\ Holds(c)' <=> Holds(c)
              /\ call'[c].pc = "open" \/ (call'[c].pc = "queued" /\ call'[c].op = "Use") =>
                    call[c].pc = "open" \/ (call[c].pc = "queued" /\ call[c].op = "Use")
              /\ Waits(c)' => Waits(c) /\ call'[c].name = call[c].name
    PROVE  OwnerInv'
<1>1. \A e \in table : e.file \in Client
  BY Typed, EntryFields DEF Inv
<1>2. \A d \in table' : fileId'[d.file] = d.node /\ Holds(d.file)'
  BY <1>1 DEF Inv, OwnerInv, Refits, Same
<1>3. \A c \in Client : HasEntry(c) => HasEntry(c)'
  BY DEF HasEntry, Refits, Same
<1>4. ASSUME NEW c \in Client
      PROVE  /\ call'[c].pc = "open" \/ (call'[c].pc = "queued" /\ call'[c].op = "Use") => HasEntry(c)'
             /\ Holds(c)' => HasEntry(c)' \/ fileId'[c] = NoNode
             /\ Waits(c)' /\ call'[c].name.vol = "bad" => fileId'[c] = NoNode
  BY <1>3 DEF Inv, OwnerInv
<1> QED
  BY <1>2, <1>4 DEF OwnerInv, Inv

LEMMA TableStays ==
    ASSUME Inv, UNCHANGED table
    PROVE  Refits
BY Typed DEF Inv, Refits, Same, OneEntryPerPath, OneEntryPerNode

(* A tick, or a message that is not about a File. *)
LEMMA ServiceKeepsInv ==
    ASSUME Inv, Refits, UNCHANGED <<fileId, foreign>>, card' \in CardRecord, dir' \subseteq Path,
           CardInv', HandleEndsForAReason',
           \/ UNCHANGED <<queue, call>>
           \/ /\ queue /= <<>> /\ queue' = Tail(queue)
              /\ call[Head(queue)].op \notin {"Open", "Use", "Close"}
              /\ \E pc \in {"idle", "exists", "rename"} : Answer(Head(queue), pc)
    PROVE  Inv'
<1>1. CASE UNCHANGED <<queue, call>>
  <2>1. TypeOK'
    BY <1>1, Typed, TypedNext DEF Inv, Refits
  <2>2. QueueInv'
    BY <1>1 DEF Inv, QueueInv
  <2>3. WaitInv'
    BY <1>1, WaitersKept DEF Refits, Same
  <2>4. ~StaleClose => OwnerInv'
    BY <1>1, OwnersKept DEF Holds, Waits
  <2> QED
    BY <2>1, <2>2, <2>3, <2>4 DEF Inv, Refits
<1>2. CASE /\ queue /= <<>> /\ queue' = Tail(queue)
           /\ call[Head(queue)].op \notin {"Open", "Use", "Close"}
           /\ \E pc \in {"idle", "exists", "rename"} : Answer(Head(queue), pc)
  <2>1. PICK c \in Client : c = Head(queue)
    BY <1>2, TakenIs
  <2>2. PICK pc \in {"idle", "exists", "rename"} : Answer(c, pc)
    BY <1>2, <2>1
  <2>3. PICK r : r = Answered(c, pc)
    OBVIOUS
  <2>4. r \in CallRecord /\ r.pc = pc
    BY <2>3, AnsweredIs
  <2>5. /\ call' \in [Client -> CallRecord] /\ call'[c] = r
        /\ \A d \in Client : d /= c => call'[d] = call[d]
    BY <2>2, <2>3, <2>4, Typed DEF Inv, Answer
  <2>6. /\ call[c].pc = "queued" /\ call[c].op \notin {"Open", "Use", "Close"}
        /\ queue' \in Seq(Client) /\ Len(queue') <= QueueSize
        /\ \A i, j \in DOMAIN queue' : queue'[i] = queue'[j] => i = j
        /\ \A i \in DOMAIN queue' : queue'[i] \in Client /\ queue'[i] /= c /\ call[queue'[i]].pc = "queued"
    BY <1>2, <2>1, TakenIs
  <2>7. TypeOK'
    BY <2>5, <2>6, TypedNext, Typed DEF Inv, Refits
  <2>8. QueueInv'
    BY <2>5, <2>6 DEF QueueInv
  <2>9. WaitInv'
    BY <2>4, <2>5, WaitersKept DEF Refits, Same
  <2>10. ~StaleClose => OwnerInv'
    <3> SUFFICES ASSUME ~StaleClose PROVE OwnerInv'
      OBVIOUS
    <3>1. ~Holds(c) /\ ~Holds(c)' /\ ~Waits(c)' /\ call'[c].pc /= "open" /\ call'[c].pc /= "queued"
      BY <2>4, <2>5, <2>6 DEF Holds, Waits
    <3>2. \A d \in Client : d /= c => (Holds(d)' <=> Holds(d)) /\ (Waits(d)' <=> Waits(d))
      BY <2>5 DEF Holds, Waits
    <3> QED
      BY <2>5, <3>1, <3>2, OwnersKept
  <2> QED
    BY <2>7, <2>8, <2>9, <2>10 DEF Inv, Refits
<1> QED
  BY <1>1, <1>2

(* Files come and go, none of them one that is open on the card. *)
LEMMA TableStaysButFiles ==
    ASSUME Inv, UNCHANGED <<table, card>>, \A e \in table : LiveOnCard(e) => e.path \in dir'
    PROVE  Refits /\ CardInv' /\ HandleEndsForAReason'
BY Typed DEF Inv, Refits, Same, OneEntryPerPath, OneEntryPerNode, CardInv, LiveOnCard,
             HandleEndsForAReason

LEMMA NamesKeepInv ==
    ASSUME Inv, HandleStat \/ HandleRemove \/ HandleRename
    PROVE  Inv'
<1>0. card \in CardRecord /\ dir \subseteq Path
  BY Typed DEF Inv
<1>1. CASE UNCHANGED <<table, dir>>
  <2>1. /\ UNCHANGED <<fileId, foreign, card>> /\ queue /= <<>> /\ queue' = Tail(queue)
        /\ call[Head(queue)].op \notin {"Open", "Use", "Close"}
        /\ \E pc \in {"idle", "exists", "rename"} : Answer(Head(queue), pc)
    BY DEF HandleStat, HandleRemove, HandleRename, Handling
  <2> QED
    BY <1>0, <1>1, <2>1, TableStays, ServiceUntouched, ServiceKeepsInv
<1>2. CASE HandleRemove /\ ~UNCHANGED <<table, dir>>
  <2>1. PICK p : Removable(p) /\ dir' = dir \ {p}
    BY <1>2 DEF HandleRemove
  <2>2. /\ UNCHANGED <<fileId, table, foreign, card>> /\ queue /= <<>> /\ queue' = Tail(queue)
        /\ call[Head(queue)].op \notin {"Open", "Use", "Close"}
        /\ \E pc \in {"idle", "exists", "rename"} : Answer(Head(queue), pc)
    BY <1>2 DEF HandleRemove, Handling
  <2>3. \A e \in table : e.path /= p /\ (LiveOnCard(e) => e.path \in dir)
    BY <2>1 DEF Removable, Busy, Inv, CardInv
  <2>4. Refits /\ CardInv' /\ HandleEndsForAReason'
    BY <2>1, <2>2, <2>3, TableStaysButFiles
  <2>5. dir' \subseteq Path
    BY <1>0, <2>1
  <2> QED
    BY <1>0, <2>2, <2>4, <2>5, ServiceKeepsInv
<1>3. CASE HandleRename /\ ~UNCHANGED <<table, dir>>
  <2>1. PICK p, to : /\ to = [p EXCEPT !.base = call[Head(queue)].to.base]
                     /\ p \in dir /\ ~Busy(p) /\ (p.vol = "ext" => to \notin dir)
                     /\ dir' = (dir \ {p}) \union {to}
    BY <1>3 DEF HandleRename
  <2>2. /\ UNCHANGED <<fileId, table, foreign, card>> /\ queue /= <<>> /\ queue' = Tail(queue)
        /\ call[Head(queue)].op \notin {"Open", "Use", "Close"}
        /\ \E pc \in {"idle", "exists", "rename"} : Answer(Head(queue), pc)
    BY <1>3 DEF HandleRename, Handling
  <2>3. call[Head(queue)].to.base \in Base
    <3>1. Head(queue) \in Client
      BY <2>2, TakenIs
    <3>2. call[Head(queue)].to \in Name
      BY <3>1, Typed DEF Inv, CallRecord
    <3> QED
      BY <3>2, NamesAre
  <2>4. to \in Path /\ to.vol = p.vol
    BY <1>0, <2>1, <2>3 DEF Path
  <2>5. \A e \in table : LiveOnCard(e) => e.path \in dir /\ e.path /= p
    BY <2>1, <2>4 DEF Busy, Inv, CardInv, LiveOnCard
  <2>6. Refits /\ CardInv' /\ HandleEndsForAReason'
    BY <2>1, <2>2, <2>5, TableStaysButFiles
  <2>7. dir' \subseteq Path
    BY <1>0, <2>1, <2>4
  <2> QED
    BY <1>0, <2>2, <2>6, <2>7, ServiceKeepsInv
<1>4. HandleStat => UNCHANGED <<table, dir>>
  BY DEF HandleStat
<1> QED
  BY <1>1, <1>2, <1>3, <1>4

(* Handles are ended by an unmount, a mount or a format. *)
LEMMA KillKeeps ==
    ASSUME Inv, NEW k \in Killer, table' = Kill(k),
           k \in {"command", "remount"} => \A e \in table : ~LiveOnCard(e)
    PROVE  /\ Refits /\ HandleEndsForAReason'
           /\ \A d \in table' : ~LiveOnCard(d)
<1>1. Refits /\ \A d \in table' : ~LiveOnCard(d)
  BY KilledIs
<1>2. ASSUME NEW d \in table'
      PROVE  d.killer \notin {"command", "remount"}
  <2>1. CASE d \in table
    BY <2>1 DEF Inv, HandleEndsForAReason
  <2>2. CASE d \notin table
    BY <2>2, KilledIs DEF Inv, Same
  <2> QED
    BY <2>1, <2>2
<1> QED
  BY <1>1, <1>2 DEF HandleEndsForAReason

LEMMA CardKeepsInv ==
    ASSUME Inv, HandleMount \/ HandleUnmount \/ HandleFormat
    PROVE  Inv'
<1>0. card \in CardRecord /\ dir \subseteq Path
  BY Typed DEF Inv
<1>1. /\ UNCHANGED <<fileId, foreign>> /\ queue /= <<>> /\ queue' = Tail(queue)
      /\ call[Head(queue)].op \notin {"Open", "Use", "Close"}
      /\ \E pc \in {"idle", "exists", "rename"} : Answer(Head(queue), pc)
  BY DEF HandleMount, HandleUnmount, HandleFormat, Handling
<1>2. CASE UNCHANGED <<card, table, dir>>
  BY <1>0, <1>1, <1>2, TableStays, ServiceUntouched, ServiceKeepsInv
<1>3. CASE HandleMount /\ ~UNCHANGED <<card, table, dir>>
  <2>1. PICK st \in {"OK", "Error"}, p \in BOOLEAN :
            card' = [card EXCEPT !.status = st, !.present = p, !.hand = card.was]
    BY <1>3 DEF HandleMount
  <2>2. card.status = "NotReady" /\ table' = Kill("command") /\ UNCHANGED dir
    BY <1>3 DEF HandleMount, Mountable
  <2>3. card' \in CardRecord /\ card'.was = card.was /\ card'.hand = card.was
    BY <1>0, <2>1 DEF CardRecord
  <2>4. /\ Refits /\ HandleEndsForAReason'
        /\ \A d \in table' : ~LiveOnCard(d)
    BY <2>2, KillKeeps DEF Inv, CardInv, Killer
  <2>5. CardInv'
    BY <2>3, <2>4 DEF CardInv, LiveOnCard
  <2> QED
    BY <1>0, <1>1, <2>2, <2>3, <2>4, <2>5, ServiceKeepsInv
<1>4. CASE HandleUnmount /\ ~UNCHANGED <<card, table, dir>>
  <2>1. /\ Unmountable /\ card' = [card EXCEPT !.status = "NotReady"] /\ table' = Kill("command")
        /\ UNCHANGED dir
    BY <1>4 DEF HandleUnmount
  <2>2. card' \in CardRecord /\ card'.status = "NotReady"
    BY <1>0, <2>1 DEF CardRecord
  <2>3. /\ Refits /\ HandleEndsForAReason'
        /\ \A d \in table' : ~LiveOnCard(d)
    BY <2>1, KillKeeps DEF Unmountable, LiveOnCard, Killer
  <2>4. CardInv'
    BY <2>2, <2>3 DEF CardInv, LiveOnCard
  <2> QED
    BY <1>0, <1>1, <2>1, <2>2, <2>3, <2>4, ServiceKeepsInv
<1>5. CASE HandleFormat /\ ~UNCHANGED <<card, table, dir>>
  <2>1. PICK st \in {"OK", "Error"} : card' = [card EXCEPT !.status = st]
    BY <1>5 DEF HandleFormat
  <2>2. /\ card.status /= "NotReady" /\ table' = Kill("format")
        /\ dir' = {p \in dir : p.vol /= "ext"}
    BY <1>5 DEF HandleFormat
  <2>3. card' \in CardRecord /\ card'.was = card.was /\ card'.hand = card.hand
    BY <1>0, <2>1 DEF CardRecord
  <2>4. /\ Refits /\ HandleEndsForAReason'
        /\ \A d \in table' : ~LiveOnCard(d)
    BY <2>2, KillKeeps DEF Killer
  <2>5. CardInv'
    BY <2>2, <2>3, <2>4 DEF Inv, CardInv, LiveOnCard
  <2>6. dir' \subseteq Path
    BY <1>0, <2>2
  <2> QED
    BY <1>1, <2>3, <2>4, <2>5, <2>6, ServiceKeepsInv
<1> QED
  BY <1>2, <1>3, <1>4, <1>5

LEMMA TickKeepsInv ==
    ASSUME Inv, Tick
    PROVE  Inv'
<1>0. card \in CardRecord /\ dir \subseteq Path
  BY Typed DEF Inv
<1>1. UNCHANGED <<queue, fileId, call, dir, foreign>>
  BY DEF Tick
<1>2. PICK k \in Ticked : card' = [k EXCEPT !.gui = (k.status /= "NotReady")]
  BY DEF Tick
<1>3. /\ k \in CardRecord
      /\ k.status /= "NotReady" /\ k.was => card.status /= "NotReady" /\ card.was /\ k.hand = card.hand
      /\ card.was /= card.present => k = card
  <2>0. PICK f \in BOOLEAN, t \in BOOLEAN : ~f /\ t /\ f = FALSE /\ t = TRUE
    OBVIOUS
  <2>1. CASE card.was /\ card.present
    <3>1. \/ \E st \in {"OK", "Error"} : k = [card EXCEPT !.status = st, !.was = f, !.hand = f]
          \/ k = [card EXCEPT !.status = "NotReady", !.present = f, !.hand = f]
      BY <2>0, <2>1 DEF Ticked
    <3>2. k \in CardRecord /\ (k.status = "NotReady" \/ k.was = f)
      BY <1>0, <3>1 DEF CardRecord
    <3> QED
      BY <2>0, <2>1, <3>2
  <2>2. CASE ~card.was /\ ~card.present
    <3>1. k = [card EXCEPT !.status = "NotReady", !.was = t]
      BY <2>0, <2>2 DEF Ticked
    <3>2. k \in CardRecord /\ k.status = "NotReady"
      BY <1>0, <3>1 DEF CardRecord
    <3> QED
      BY <1>0, <2>2, <3>2 DEF CardRecord
  <2>3. CASE ~(card.was /\ card.present) /\ ~(~card.was /\ ~card.present)
    BY <1>0, <2>3 DEF Ticked
  <2> QED
    BY <2>1, <2>2, <2>3
<1>4. /\ card' \in CardRecord /\ card'.status = k.status /\ card'.was = k.was
      /\ card'.hand = k.hand
  <2>1. PICK g \in BOOLEAN : g = (k.status /= "NotReady")
    OBVIOUS
  <2>2. card' = [k EXCEPT !.gui = g]
    BY <1>2, <2>1
  <2> QED
    BY <1>3, <2>2 DEF CardRecord
<1>5. card'.status /= "NotReady" /\ card'.was => card'.hand
  BY <1>3, <1>4 DEF Inv, CardInv
<1>6. CASE card.was = card.present
  <2>1. PICK x \in {"removal", "hand", "remount"} :
            /\ table' = Kill(x) /\ (x = "remount" => card.present /\ ~card.hand)
    BY <1>6 DEF Tick
  <2>2. x = "remount" => \A e \in table : ~LiveOnCard(e)
    BY <1>6, <2>1 DEF Inv, CardInv
  <2>3. /\ Refits /\ HandleEndsForAReason'
        /\ \A d \in table' : ~LiveOnCard(d)
    BY <2>1, <2>2, KillKeeps DEF Killer
  <2>4. CardInv'
    BY <1>5, <2>3 DEF CardInv, LiveOnCard
  <2> QED
    BY <1>0, <1>1, <1>4, <2>3, <2>4, ServiceKeepsInv
<1>7. CASE card.was /= card.present
  <2>1. UNCHANGED table
    BY <1>7 DEF Tick
  <2>2. k = card
    BY <1>3, <1>7
  <2>3. CardInv' /\ HandleEndsForAReason'
    BY <1>1, <1>4, <2>1, <2>2
    DEF Inv, CardInv, HandleEndsForAReason, LiveOnCard
  <2> QED
    BY <1>0, <1>1, <1>4, <2>1, <2>3, TableStays, ServiceKeepsInv
<1> QED
  BY <1>6, <1>7

LEMMA CardMovesKeepsInv ==
    ASSUME Inv, CardMoves
    PROVE  Inv'
<1>1. card \in CardRecord /\ dir \subseteq Path
  BY Typed DEF Inv
<1>2. UNCHANGED <<queue, fileId, call, table, dir, foreign>>
  BY DEF CardMoves
<1>3. PICK b \in BOOLEAN : b = ~card.present
  OBVIOUS
<1>4. card' = [card EXCEPT !.present = b]
  BY <1>3 DEF CardMoves
<1>5. card' \in CardRecord /\ card'.status = card.status /\ card'.was = card.was /\ card'.hand = card.hand
  BY <1>1, <1>4 DEF CardRecord
<1>6. CardInv' /\ HandleEndsForAReason'
  BY <1>2, <1>5 DEF Inv, CardInv, HandleEndsForAReason, LiveOnCard
<1> QED
  BY <1>1, <1>2, <1>5, <1>6, TableStays, ServiceKeepsInv

--------------------------------------------------------------------------------
(* The messages about a File. *)

LEMMA QueueKept ==
    ASSUME Inv, queue /= <<>>, queue' = Tail(queue),
           \A d \in Client : d /= Head(queue) => call'[d].pc = call[d].pc
    PROVE  queue' \in Seq(Client) /\ Len(queue') <= QueueSize /\ QueueInv'
BY TakenIs DEF QueueInv

LEMMA AnswerIs ==
    ASSUME Inv, NEW c \in Client,
           NEW pc \in {"idle", "denied", "open", "failed", "exists", "rename"}, Answer(c, pc)
    PROVE  /\ call' \in [Client -> CallRecord] /\ call'[c] = Answered(c, pc) /\ call'[c].pc = pc
           /\ \A d \in Client : d /= c => call'[d] = call[d]
<1>1. PICK r : r = Answered(c, pc)
  OBVIOUS
<1>2. r \in CallRecord /\ r.pc = pc
  BY <1>1, AnsweredIs
<1>3. call' = [call EXCEPT ![c] = r]
  BY <1>1 DEF Answer
<1> QED
  BY <1>1, <1>2, <1>3, Typed DEF Inv

(* The entry that a client finds by its file_id is its own. *)
LEMMA EntryIsOwn ==
    ASSUME Inv, ~StaleClose, NEW c \in Client, Holds(c), NEW e \in Mine(c)
    PROVE  e.file = c
<1>1. e \in table /\ fileId[e.file] = fileId[c] /\ fileId[e.file] = e.node
  BY DEF Mine, Inv, OwnerInv
<1>2. e.node \in Node
  BY <1>1, Typed, EntryFields DEF Inv
<1>3. HasEntry(c)
  BY <1>1, <1>2, NamesAre DEF Inv, OwnerInv
<1>4. PICK o \in table : o.file = c /\ fileId[c] = o.node
  BY <1>3 DEF HasEntry, Inv, OwnerInv
<1> QED
  BY <1>1, <1>4 DEF Inv, OneEntryPerNode

LEMMA UseKeepsInv ==
    ASSUME Inv, HandleUse
    PROVE  Inv'
<1>1. PICK c \in Client : c = Head(queue) /\ call[c].pc = "queued"
  BY TakenIs DEF HandleUse, Handling
<1>2. /\ queue /= <<>> /\ queue' = Tail(queue) /\ call[c].op = "Use" /\ Answer(c, "open")
      /\ foreign' = (foreign \/ \E e \in Mine(c) : e.file /= c)
      /\ UNCHANGED <<fileId, table, dir, card>>
  BY <1>1 DEF HandleUse, Handling
<1>3. /\ call' \in [Client -> CallRecord] /\ call'[c].pc = "open"
      /\ \A d \in Client : d /= c => call'[d] = call[d]
  BY <1>2, AnswerIs
<1>4. queue' \in Seq(Client) /\ Len(queue') <= QueueSize /\ QueueInv'
  BY <1>1, <1>2, <1>3, QueueKept
<1>5. TypeOK'
  <2>1. foreign' \in BOOLEAN
    BY <1>2
  <2> QED
    BY <1>2, <1>3, <1>4, <2>1, Typed, TypedNext DEF Inv
<1>6. WaitInv'
  BY <1>2, <1>3, WaitersKept
<1>7. ~StaleClose => OwnerInv'
  <2> SUFFICES ASSUME ~StaleClose PROVE OwnerInv'
    OBVIOUS
  <2>1. Holds(c) /\ Holds(c)' /\ ~Waits(c)'
    BY <1>1, <1>2, <1>3 DEF Holds, Waits
  <2>2. UNCHANGED foreign
    <3>1. ~\E e \in Mine(c) : e.file /= c
      BY <2>1, EntryIsOwn
    <3>2. foreign \in BOOLEAN /\ ~foreign /\ ~foreign' /\ foreign' \in BOOLEAN
      BY <1>2, <3>1, Typed DEF Inv, OwnerInv
    <3> QED
      BY <3>2
  <2>3. \A d \in Client : d /= c => (Holds(d)' <=> Holds(d)) /\ (Waits(d)' <=> Waits(d))
    BY <1>3 DEF Holds, Waits
  <2> QED
    BY <1>1, <1>2, <1>3, <2>1, <2>2, <2>3, TableStays, OwnersKept
<1> QED
  BY <1>2, <1>4, <1>5, <1>6, <1>7, ServiceUntouched DEF Inv

LEMMA CloseKeepsInv ==
    ASSUME Inv, HandleClose
    PROVE  Inv'
<1>1. PICK c \in Client : c = Head(queue) /\ call[c].pc = "queued"
  BY TakenIs DEF HandleClose, Handling
<1>2. /\ queue /= <<>> /\ queue' = Tail(queue) /\ call[c].op = "Close"
      /\ UNCHANGED <<fileId, dir, card>>
      /\ \/ Mine(c) = {} /\ Answer(c, "idle") /\ UNCHANGED <<table, foreign>>
         \/ \E e \in Mine(c) :
              /\ table' = table \ {e}
              /\ foreign' = (foreign \/ e.file /= c)
              /\ call' = [d \in Client |->
                            IF d = c THEN Answered(c, "idle")
                            ELSE [call[d] EXCEPT !.flag = @ \/ Waits(d)]]
  BY <1>1 DEF HandleClose, Handling
<1>3. Holds(c)
  BY <1>1, <1>2 DEF Holds
<1>4. \A o \in table : ~StaleClose /\ o.file = c => o \in Mine(c)
  BY DEF Mine, Inv, OwnerInv
<1>5. CASE Mine(c) = {} /\ Answer(c, "idle") /\ UNCHANGED <<table, foreign>>
  <2>1. /\ call' \in [Client -> CallRecord] /\ call'[c].pc = "idle"
        /\ \A d \in Client : d /= c => call'[d] = call[d]
    BY <1>5, AnswerIs
  <2>2. queue' \in Seq(Client) /\ Len(queue') <= QueueSize /\ QueueInv'
    BY <1>1, <1>2, <2>1, QueueKept
  <2>3. TypeOK'
    BY <1>2, <1>5, <2>1, <2>2, Typed, TypedNext DEF Inv
  <2>4. WaitInv'
    BY <1>5, <2>1, WaitersKept
  <2>5. ~StaleClose => OwnerInv'
    <3> SUFFICES ASSUME ~StaleClose PROVE OwnerInv'
      OBVIOUS
    <3>1. \A o \in table : o.file \in Client /\ o.file /= c
      BY <1>4, <1>5, Typed, EntryFields DEF Inv
    <3>2. ~Holds(c)' /\ ~Waits(c)' /\ call'[c].pc \notin {"open", "queued"}
      BY <2>1 DEF Holds, Waits
    <3>3. \A d \in Client : d /= c => (Holds(d)' <=> Holds(d)) /\ (Waits(d)' <=> Waits(d))
      BY <2>1 DEF Holds, Waits
    <3> QED
      BY <1>2, <1>5, <2>1, <3>1, <3>2, <3>3 DEF Inv, OwnerInv, HasEntry
  <2> QED
    BY <1>2, <1>5, <2>2, <2>3, <2>4, <2>5, ServiceUntouched DEF Inv
<1>6. ASSUME NEW e \in Mine(c),
             table' = table \ {e},
             foreign' = (foreign \/ e.file /= c),
             call' = [d \in Client |->
                        IF d = c THEN Answered(c, "idle")
                        ELSE [call[d] EXCEPT !.flag = @ \/ Waits(d)]]
      PROVE  Inv'
  <2>1. call'[c] \in CallRecord /\ call'[c].pc = "idle"
    BY <1>6, AnsweredIs
  <2>2. ASSUME NEW d \in Client, d /= c
        PROVE  /\ call'[d] \in CallRecord /\ call'[d].pc = call[d].pc /\ call'[d].op = call[d].op
               /\ call'[d].name = call[d].name /\ call'[d].flag = (call[d].flag \/ Waits(d))
    <3>1. PICK b \in BOOLEAN : b = (call[d].flag \/ Waits(d))
      OBVIOUS
    <3>2. call'[d] = [call[d] EXCEPT !.flag = b]
      BY <1>6, <2>2, <3>1
    <3>3. call[d] \in CallRecord
      BY Typed DEF Inv
    <3>4. call'[d] \in CallRecord
      BY <3>2, <3>3 DEF CallRecord
    <3>5. /\ call'[d].pc = call[d].pc /\ call'[d].op = call[d].op
          /\ call'[d].name = call[d].name /\ call'[d].flag = b
      BY <3>2, <3>3 DEF CallRecord
    <3> QED
      BY <3>1, <3>4, <3>5
  <2>3. call' \in [Client -> CallRecord]
    <3>1. \A d \in Client : call'[d] \in CallRecord
      BY <2>1, <2>2
    <3> QED
      BY <1>6, <3>1
  <2>4. queue' \in Seq(Client) /\ Len(queue') <= QueueSize /\ QueueInv'
    BY <1>1, <1>2, <2>2, QueueKept
  <2>5. TypeOK'
    <3>1. foreign' \in BOOLEAN
      BY <1>6
    <3> QED
      BY <1>2, <1>6, <2>3, <2>4, <3>1, Typed, TypedNext DEF Inv
  <2>6. WaitInv'
    <3> SUFFICES ASSUME NEW d \in Client, call'[d].pc \in {"denied", "waiting"}
                 PROVE  call'[d].op = "Open" /\ call'[d].flag
      BY DEF WaitInv
    <3>1. d /= c
      BY <2>1
    <3>2. call[d].pc \in {"denied", "waiting"} /\ call[d].op = "Open"
      BY <2>2, <3>1 DEF Inv, WaitInv
    <3>3. Waits(d)
      BY <3>2 DEF Waits
    <3> QED
      BY <2>2, <3>1, <3>2, <3>3
  <2>7. /\ OneEntryPerPath' /\ OneEntryPerNode' /\ CardInv'
        /\ HandleEndsForAReason'
    BY <1>2, <1>6 DEF Inv, OneEntryPerPath, OneEntryPerNode, CardInv, HandleEndsForAReason,
                       LiveOnCard
  <2>8. ~StaleClose => OwnerInv'
    <3> SUFFICES ASSUME ~StaleClose PROVE OwnerInv'
      OBVIOUS
    <3>1. e.file = c /\ e \in table /\ fileId[c] = e.node
      BY <1>3, EntryIsOwn DEF Mine, Inv, OwnerInv
    <3>2. ~foreign'
      BY <1>6, <3>1 DEF Inv, OwnerInv
    <3>3. \A o \in table' : o \in table /\ o.file \in Client /\ o.file /= c
      <4> SUFFICES ASSUME NEW o \in table' PROVE o \in table /\ o.file \in Client /\ o.file /= c
        OBVIOUS
      <4>1. o \in table /\ o /= e
        BY <1>6
      <4>2. o.file \in Client /\ fileId[o.file] = o.node
        BY <4>1, Typed, EntryFields DEF Inv, OwnerInv
      <4> QED
        BY <3>1, <4>1, <4>2 DEF Inv, OneEntryPerNode
    <3>4. \A d \in Client : d /= c => (HasEntry(d) => HasEntry(d)')
      BY <1>6, <3>1 DEF HasEntry
    <3>5. ~Holds(c)' /\ ~Waits(c)' /\ call'[c].pc \notin {"open", "queued"}
      BY <2>1 DEF Holds, Waits
    <3>6. \A d \in Client : d /= c => (Holds(d)' <=> Holds(d)) /\ (Waits(d)' <=> Waits(d))
      BY <2>2 DEF Holds, Waits
    <3>7. \A o \in table' : fileId'[o.file] = o.node /\ Holds(o.file)'
      BY <1>2, <3>3, <3>6 DEF Inv, OwnerInv
    <3>8. ASSUME NEW d \in Client
          PROVE  /\ call'[d].pc = "open" \/ (call'[d].pc = "queued" /\ call'[d].op = "Use") => HasEntry(d)'
                 /\ Holds(d)' => HasEntry(d)' \/ fileId'[d] = NoNode
                 /\ Waits(d)' /\ call'[d].name.vol = "bad" => fileId'[d] = NoNode
      BY <1>2, <2>2, <3>4, <3>5, <3>6 DEF Inv, OwnerInv
    <3> QED
      BY <3>2, <3>7, <3>8 DEF OwnerInv
  <2> QED
    BY <2>4, <2>5, <2>6, <2>7, <2>8 DEF Inv
<1> QED
  BY <1>2, <1>5, <1>6

LEMMA RealIs ==
    ASSUME Inv, NEW n \in Name
    PROVE  /\ Real(n).vol = "bad" <=> n.vol = "bad"
           /\ Real(n).vol /= "bad" => Real(n) \in Path
<1>1. n \in [vol : Volumes, base : Base] /\ n.vol \in {"ext", "int", "any", "bad"}
  BY NamesAre DEF Name
<1>2. CASE n.vol = "any"
  <2>1. PICK v \in {"ext", "int"} : Real(n) = [n EXCEPT !.vol = v]
    BY <1>2 DEF Real
  <2>2. Real(n) \in Path /\ Real(n).vol = v
    BY <1>1, <2>1 DEF Path
  <2> QED
    BY <1>2, <2>2
<1>3. CASE n.vol /= "any"
  BY <1>1, <1>3 DEF Real, Path
<1> QED
  BY <1>2, <1>3

(* A new entry, of a path that is not in the table and at an address that is free. *)
LEMMA PushedIs ==
    ASSUME Inv, NEW c \in Client, NEW n \in Node \ Used, NEW p \in Path, NEW ok \in BOOLEAN,
           ~Busy(p), Push(c, n, p, ok), ok => Ready(p), UNCHANGED card,
           dir' = IF ok THEN dir \union {p} ELSE dir
    PROVE  /\ table' \subseteq Entry /\ table \subseteq table'
           /\ \E e \in table' : e.file = c /\ e.node = n /\ table' = table \union {e}
           /\ OneEntryPerPath' /\ OneEntryPerNode' /\ CardInv'
           /\ HandleEndsForAReason'
<1>2. PICK e : e = [node |-> n, file |-> c, path |-> p, live |-> ok, killer |-> "none"]
  OBVIOUS
<1>3. e \in Entry
  BY <1>2 DEF Entry
<1>4. /\ e.node = n /\ e.file = c /\ e.path = p /\ e.live = ok /\ e.killer = "none"
  BY <1>2
<1>5. table' = table \union {e}
  BY <1>2 DEF Push
<1>6. table \subseteq Entry /\ \A d \in table : d.path /= p /\ d.node /= n
  BY Typed DEF Busy, Used, Inv
<1>7. OneEntryPerPath' /\ OneEntryPerNode'
  BY <1>4, <1>5, <1>6 DEF Inv, OneEntryPerPath, OneEntryPerNode
<1>8. CardInv'
  <2>1. LiveOnCard(e) => card.status = "OK" /\ p \in dir'
    BY <1>4 DEF LiveOnCard, Ready
  <2>2. dir \subseteq dir'
    OBVIOUS
  <2> QED
    BY <1>4, <1>5, <2>1, <2>2 DEF Inv, CardInv, LiveOnCard
<1>9. HandleEndsForAReason'
  BY <1>4, <1>5 DEF Inv, HandleEndsForAReason
<1> QED
  BY <1>3, <1>4, <1>5, <1>6, <1>7, <1>8, <1>9

LEMMA OpenKeepsInv ==
    ASSUME Inv, HandleOpen
    PROVE  Inv'
<1>1. PICK c \in Client : c = Head(queue) /\ call[c].pc = "queued"
  BY TakenIs DEF HandleOpen, Handling
<1>2. PICK p : p = Real(call[c].name)
  OBVIOUS
<1>3. /\ queue /= <<>> /\ queue' = Tail(queue) /\ call[c].op = "Open"
      /\ UNCHANGED <<card, foreign>>
      /\ \/ p.vol = "bad" /\ Answer(c, "failed") /\ UNCHANGED <<table, fileId, dir>>
         \/ p.vol /= "bad" /\ Busy(p) /\ Answer(c, "denied") /\ UNCHANGED <<table, fileId, dir>>
         \/ /\ p.vol /= "bad" /\ ~Busy(p)
            /\ \E n \in Node \ Used, ok \in BOOLEAN :
                  /\ ok => Ready(p)
                  /\ Push(c, n, p, ok)
                  /\ dir' = IF ok THEN dir \union {p} ELSE dir
                  /\ Answer(c, IF ok THEN "open" ELSE "failed")
  BY <1>1, <1>2 DEF HandleOpen, Handling
<1>4. /\ call[c].name \in Name /\ (p.vol /= "bad" => p \in Path)
      /\ p.vol = "bad" => call[c].name.vol = "bad"
  <2>1. call[c].name \in Name
    BY Typed DEF Inv, CallRecord
  <2> QED
    BY <1>2, <2>1, RealIs
<1>5. ~Holds(c) /\ Waits(c)
  BY <1>1, <1>3 DEF Holds, Waits
<1>6. \A e \in table : e.file \in Client /\ (~StaleClose => e.file /= c)
  BY <1>5, Typed, EntryFields DEF Inv, OwnerInv
<1>7. CASE p.vol = "bad" /\ Answer(c, "failed") /\ UNCHANGED <<table, fileId, dir>>
  <2>1. /\ call' \in [Client -> CallRecord] /\ call'[c].pc = "failed"
        /\ \A d \in Client : d /= c => call'[d] = call[d]
    BY <1>7, AnswerIs
  <2>2. queue' \in Seq(Client) /\ Len(queue') <= QueueSize /\ QueueInv'
    BY <1>1, <1>3, <2>1, QueueKept
  <2>3. TypeOK'
    BY <1>3, <1>7, <2>1, <2>2, Typed, TypedNext DEF Inv
  <2>4. WaitInv'
    BY <1>7, <2>1, WaitersKept
  <2>5. ~StaleClose => OwnerInv'
    <3>1. ~Waits(c)' /\ call'[c].pc \notin {"open", "queued"}
      BY <2>1 DEF Waits
    <3>2. \A d \in Client : d /= c => (Holds(d)' <=> Holds(d)) /\ (Waits(d)' <=> Waits(d))
      BY <2>1 DEF Holds, Waits
    <3>3. ~StaleClose => fileId[c] = NoNode
      BY <1>4, <1>5, <1>7 DEF Inv, OwnerInv
    <3> QED
      BY <1>3, <1>6, <1>7, <2>1, <3>1, <3>2, <3>3 DEF Inv, OwnerInv, HasEntry
  <2> QED
    BY <1>3, <1>7, <2>2, <2>3, <2>4, <2>5, ServiceUntouched DEF Inv
<1>8. CASE p.vol /= "bad" /\ Busy(p) /\ Answer(c, "denied") /\ UNCHANGED <<table, fileId, dir>>
  <2>1. /\ call' \in [Client -> CallRecord] /\ call'[c].pc = "denied"
        /\ call'[c].op = "Open" /\ call'[c].name = call[c].name
        /\ \A d \in Client : d /= c => call'[d] = call[d]
    BY <1>3, <1>8, AnswerIs, AnsweredIs
  <2>2. queue' \in Seq(Client) /\ Len(queue') <= QueueSize /\ QueueInv'
    BY <1>1, <1>3, <2>1, QueueKept
  <2>3. TypeOK'
    BY <1>3, <1>8, <2>1, <2>2, Typed, TypedNext DEF Inv
  <2>4. WaitInv'
    <3>1. \A q : Busy(q)' <=> Busy(q)
      BY <1>8 DEF Busy
    <3>2. p \in Wanted(c)'
      BY <1>2, <1>3, <2>1 DEF Wanted, Real
    <3>3. ASSUME NEW d \in Client, d /= c, call'[d].pc \in {"denied", "waiting"}
          PROVE  call'[d].op = "Open" /\ (~call'[d].flag => \E q \in Wanted(d)' : Busy(q)')
      BY <2>1, <3>1, <3>3, WantedKept DEF Inv, WaitInv
    <3> QED
      BY <1>8, <2>1, <3>1, <3>2, <3>3 DEF WaitInv
  <2>5. ~StaleClose => OwnerInv'
    <3>1. ~Holds(c)' /\ Waits(c)'
      BY <2>1 DEF Holds, Waits
    <3>2. \A d \in Client : d /= c => (Holds(d)' <=> Holds(d)) /\ (Waits(d)' <=> Waits(d))
      BY <2>1 DEF Holds, Waits
    <3> QED
      BY <1>3, <1>5, <1>8, <2>1, <3>1, <3>2, TableStays, OwnersKept
  <2> QED
    BY <1>3, <1>8, <2>2, <2>3, <2>4, <2>5, ServiceUntouched DEF Inv
<1>9. ASSUME p.vol /= "bad", ~Busy(p), NEW n \in Node \ Used, NEW ok \in BOOLEAN,
             ok => Ready(p), Push(c, n, p, ok), dir' = IF ok THEN dir \union {p} ELSE dir,
             Answer(c, IF ok THEN "open" ELSE "failed")
      PROVE  Inv'
  <2>1. /\ call' \in [Client -> CallRecord] /\ call'[c].pc \in {"open", "failed"}
        /\ \A d \in Client : d /= c => call'[d] = call[d]
    <3>1. PICK pc \in {"open", "failed"} : Answer(c, pc)
      BY <1>9
    <3> QED
      BY <3>1, AnswerIs
  <2>2. queue' \in Seq(Client) /\ Len(queue') <= QueueSize /\ QueueInv'
    BY <1>1, <1>3, <2>1, QueueKept
  <2>3. /\ table' \subseteq Entry /\ table \subseteq table'
        /\ \E e \in table' : e.file = c /\ e.node = n /\ table' = table \union {e}
        /\ OneEntryPerPath' /\ OneEntryPerNode' /\ CardInv'
        /\ HandleEndsForAReason'
    <3>1. p \in Path
      BY <1>4, <1>9
    <3>2. UNCHANGED card
      BY <1>3
    <3> QED
      BY <1>9, <3>1, <3>2, PushedIs
  <2>4. /\ fileId' \in [Client -> Node \union {NoNode}] /\ fileId'[c] = n
        /\ \A d \in Client : d /= c => fileId'[d] = fileId[d]
    BY <1>9, Typed DEF Push, Inv
  <2>5. TypeOK'
    <3>1. dir' \subseteq Path
      BY <1>4, <1>9, Typed DEF Inv
    <3> QED
      BY <1>3, <2>1, <2>2, <2>3, <2>4, <3>1, Typed, TypedNext DEF Inv
  <2>6. WaitInv'
    BY <2>1, <2>3, WaitersKept
  <2>7. ~StaleClose => OwnerInv'
    <3> SUFFICES ASSUME ~StaleClose PROVE OwnerInv'
      OBVIOUS
    <3>1. Holds(c)' /\ HasEntry(c)' /\ ~Waits(c)'
      BY <2>1, <2>3 DEF Holds, HasEntry, Waits
    <3>2. \A d \in Client : d /= c => (Holds(d)' <=> Holds(d)) /\ (Waits(d)' <=> Waits(d))
                                      /\ (HasEntry(d) => HasEntry(d)')
      BY <2>1, <2>3 DEF Holds, Waits, HasEntry
    <3>3. ~foreign' /\ \A o \in table' : fileId'[o.file] = o.node /\ Holds(o.file)'
      BY <1>3, <1>6, <2>3, <2>4, <3>1, <3>2 DEF Inv, OwnerInv
    <3>4. ASSUME NEW d \in Client
          PROVE  /\ call'[d].pc = "open" \/ (call'[d].pc = "queued" /\ call'[d].op = "Use") => HasEntry(d)'
                 /\ Holds(d)' => HasEntry(d)' \/ fileId'[d] = NoNode
                 /\ Waits(d)' /\ call'[d].name.vol = "bad" => fileId'[d] = NoNode
      BY <2>1, <2>4, <3>1, <3>2 DEF Inv, OwnerInv
    <3> QED
      BY <3>3, <3>4 DEF OwnerInv
  <2> QED
    BY <2>2, <2>3, <2>5, <2>6, <2>7 DEF Inv
<1> QED
  BY <1>3, <1>7, <1>8, <1>9

LEMMA StepKeepsInv == Inv /\ [Next]_vars => Inv'
<1> SUFFICES ASSUME Inv, [Next]_vars PROVE Inv'
  OBVIOUS
<1>1. CASE UNCHANGED vars
  <2>1. UNCHANGED <<queue, fileId, call, table, dir, card, foreign>>
    BY <1>1 DEF vars
  <2>2. card \in CardRecord /\ dir \subseteq Path
    BY Typed DEF Inv
  <2> QED
    BY <2>1, <2>2, TableStays, ServiceUntouched, ServiceKeepsInv
<1>2. CASE Handle
  BY <1>2, OpenKeepsInv, UseKeepsInv, CloseKeepsInv, NamesKeepInv, CardKeepsInv DEF Handle
<1>3. CASE Tick \/ CardMoves
  BY <1>3, TickKeepsInv, CardMovesKeepsInv
<1>4. ASSUME NEW c \in Client, ClientStep(c) PROVE Inv'
  BY <1>4, ClientKeepsInv
<1> QED
  BY <1>1, <1>2, <1>3, <1>4 DEF Next

LEMMA InvHolds == Spec => []Inv
BY InitInv, StepKeepsInv, PTL DEF Spec

--------------------------------------------------------------------------------
(* The table, the messages and the card keep their types; as no client has two
   messages in the queue, no put to it ever has to wait. *)
THEOREM TypeCorrect == Spec => []TypeOK
<1>1. Inv => TypeOK
  BY DEF Inv
<1> QED
  BY <1>1, InvHolds, PTL

(* No path is in the table of open files twice, whichever volume "/any" comes to mean
   and whether or not the opens succeeded. *)
THEOREM PathsAreUnique == Spec => []OneEntryPerPath
<1>1. Inv => OneEntryPerPath
  BY DEF Inv
<1> QED
  BY <1>1, InvHolds, PTL

(* If no File is closed twice, every operation finds the entry of its own File, though
   file_id is an address that is given to one entry after another. *)
THEOREM FilesFindTheirEntries ==
    ASSUME ~StaleClose PROVE Spec => []EveryFileHasItsEntry
<1>1. Inv => EveryFileHasItsEntry
  <2> SUFFICES ASSUME Inv PROVE EveryFileHasItsEntry
    OBVIOUS
  <2>1. ASSUME NEW c \in Client, call[c].pc = "open" PROVE \E e \in Mine(c) : e.file = c
    BY <2>1 DEF Inv, OwnerInv, HasEntry, Mine
  <2> QED
    BY <2>1 DEF EveryFileHasItsEntry, Inv, OwnerInv
<1> QED
  BY <1>1, InvHolds, PTL

(* A caller of storage_file_open that waits is never forgotten: the path it waits for
   is in the table, or the event of its close has been recorded for it. *)
THEOREM NoWaiterIsForgotten == Spec => []WaiterIsNotForgotten
<1>1. Inv => WaiterIsNotForgotten
  BY DEF Inv, WaitInv, WaiterIsNotForgotten
<1> QED
  BY <1>1, InvHolds, PTL

(* An open file on the card loses its handle to the removal or the formatting of the
   card, or to the tick that mounts once more a card that was mounted by hand; never
   to a mount or an unmount that is asked for. *)
THEOREM HandlesEndForAReason == Spec => []HandleEndsForAReason
<1>1. Inv => HandleEndsForAReason
  BY DEF Inv
<1> QED
  BY <1>1, InvHolds, PTL

--------------------------------------------------------------------------------
(* The service implements StorageService. What a step does to the table, to the
   handles and to the callers that sleep is looked at one by one. *)

mapped == <<Opened, Usable, dir, Asleep>>

LEMMA SleepersStay ==
    ASSUME \A d \in Client : /\ Sleeper(d)' <=> Sleeper(d)
                             /\ Sleeper(d) => call'[d].name = call[d].name
    PROVE  UNCHANGED Asleep
BY DEF Asleep

(* The answer to a message wakes nobody, and does not put to sleep. *)
LEMMA AnswersLetSleep ==
    ASSUME Inv, queue /= <<>>, NEW pc \in {"idle", "denied", "open", "failed", "exists", "rename"},
           Answer(Head(queue), pc)
    PROVE  UNCHANGED Asleep
<1>1. PICK c \in Client : c = Head(queue) /\ call[c].pc = "queued"
  BY TakenIs
<1>2. call'[c].pc = pc /\ \A d \in Client : d /= c => call'[d] = call[d]
  BY <1>1, AnswerIs
<1>3. \A d \in Client : d /= c => (Sleeper(d)' <=> Sleeper(d)) /\ call'[d].name = call[d].name
  BY <1>2 DEF Sleeper
<1>4. ~Sleeper(c) /\ ~Sleeper(c)'
  BY <1>1, <1>2 DEF Sleeper
<1>5. \A d \in Client : /\ Sleeper(d)' <=> Sleeper(d)
                        /\ Sleeper(d) => call'[d].name = call[d].name
  BY <1>3, <1>4
<1> QED
  BY <1>5, SleepersStay

LEMMA TableShows ==
    ASSUME UNCHANGED table
    PROVE  UNCHANGED <<Opened, Usable>>
BY DEF Opened, Usable

LEMMA OpenedStays ==
    ASSUME Refits
    PROVE  UNCHANGED Opened
<1>1. \A d \in table' : \E e \in table : d.file = e.file /\ d.path = e.path
  BY DEF Refits, Same
<1>2. \A e \in table : \E d \in table' : d.file = e.file /\ d.path = e.path
  BY DEF Refits, Same
<1> QED
  BY <1>1, <1>2 DEF Opened

(* The handles on the card end, those on the internal storage do not. *)
LEMMA KilledShows ==
    ASSUME Inv, NEW k \in Killer, table' = Kill(k)
    PROVE  Opened' = Opened /\ Usable' = {h \in Usable : h[2].vol = "int"}
<1>1. Refits /\ \A d \in table' : ~LiveOnCard(d) /\ (d \in table \/ \E e \in table : LiveOnCard(e) /\ Same(d, e))
  BY KilledIs
<1>2. \A e \in table : e.path.vol \in {"ext", "int"}
  BY Typed, EntryFields DEF Inv, Path
<1>3. \A d \in table' : d.path.vol \in {"ext", "int"}
  BY <1>1, <1>2 DEF Refits, Same
<1>4. ASSUME NEW d \in table', d.live PROVE d \in table /\ d.path.vol = "int"
  <2>1. d.path.vol = "int"
    BY <1>1, <1>3, <1>4 DEF LiveOnCard
  <2> QED
    BY <1>1, <2>1 DEF LiveOnCard, Same
<1>5. ASSUME NEW e \in table, e.path.vol = "int" PROVE e \in table'
  BY <1>5 DEF Kill
<1>6. Usable' = {h \in Usable : h[2].vol = "int"}
  <2>1. ASSUME NEW h \in Usable' PROVE h \in Usable /\ h[2].vol = "int"
    <3>1. PICK d \in table' : d.live /\ h = <<d.file, d.path>>
      BY <2>1 DEF Usable
    <3> QED
      BY <1>4, <3>1 DEF Usable
  <2>2. ASSUME NEW h \in Usable, h[2].vol = "int" PROVE h \in Usable'
    <3>1. PICK e \in table : e.live /\ h = <<e.file, e.path>>
      BY DEF Usable
    <3> QED
      BY <1>5, <2>2, <3>1 DEF Usable
  <2> QED
    BY <2>1, <2>2
<1> QED
  BY <1>1, <1>6, OpenedStays

(* A path is open for StorageService exactly when it is in the table. *)
LEMMA BusyIsOpen == \A p : Busy(p) <=> Service!IsOpen(p)
<1> TAKE p
<1>1. ASSUME NEW e \in table PROVE <<e.file, e.path>> \in Opened /\ <<e.file, e.path>>[2] = e.path
  BY DEF Opened
<1>2. ASSUME NEW h \in Opened PROVE \E e \in table : h[2] = e.path
  BY DEF Opened
<1> QED
  BY <1>1, <1>2 DEF Busy, Service!IsOpen

LEMMA WantedIs ==
    ASSUME Inv, NEW c \in Client, NEW p \in Wanted(c), Busy(p)
    PROVE  p \in Service!Path /\ p.base = call[c].name.base
<1>1. call[c].name \in Name
  BY Typed DEF Inv, CallRecord
<1>2. p \in Path
  <2>1. PICK e \in table : e.path = p
    BY DEF Busy
  <2> QED
    BY <2>1, Typed, EntryFields DEF Inv
<1>3. p = Real(call[c].name) \/ p.base = call[c].name.base
  BY DEF Wanted
<1>4. Real(call[c].name).base = call[c].name.base
  BY <1>1 DEF Real, Name
<1> QED
  BY <1>2, <1>3, <1>4 DEF Path, Service!Path

(* Each step is one of StorageService, or a stutter. *)

LEMMA ClientRefines ==
    ASSUME Inv, NEW c \in Client, ClientStep(c)
    PROVE  [Service!Next]_mapped
<1>1. UNCHANGED <<table, dir, Opened, Usable>>
  BY TableShows DEF ClientStep, FileOpen, AwaitClose, Retry, FileUse, FileClose, FileFree, CommonAsk,
     RenameAsk, RenameGoesOn
<1>2. call[c] \in CallRecord /\ call \in [Client -> CallRecord]
  BY Typed DEF Inv
<1>3. CASE AwaitClose(c)
  <2>1. PICK r : r = [call[c] EXCEPT !.pc = "waiting"]
    OBVIOUS
  <2>2. r.pc = "waiting" /\ r.name = call[c].name /\ r.flag = call[c].flag
    BY <1>2, <2>1 DEF CallRecord
  <2>3. call[c].pc = "denied" /\ call'[c] = r /\ \A d \in Client : d /= c => call'[d] = call[d]
    BY <1>2, <1>3, <2>1 DEF AwaitClose
  <2>4. CASE call[c].flag
    <3>1. UNCHANGED Asleep
      BY <2>2, <2>3, <2>4, SleepersStay DEF Sleeper
    <3> QED
      BY <1>1, <3>1 DEF mapped
  <2>5. CASE ~call[c].flag
    <3>1. PICK p \in Wanted(c) : Busy(p)
      BY <2>3, <2>5 DEF Inv, WaitInv
    <3>2. p \in Service!Path /\ p.base = call[c].name.base /\ Service!IsOpen(p)
      BY <3>1, WantedIs, BusyIsOpen
    <3>3. call[c].name.base \in Base
      BY <1>2, NamesAre DEF CallRecord
    <3>4. Sleeper(c)' /\ \A d \in Client : d /= c => (Sleeper(d)' <=> Sleeper(d))
      BY <2>2, <2>3, <2>5 DEF Sleeper
    <3>5. ~Sleeper(c)
      BY <2>3 DEF Sleeper
    <3>6. Asleep' = Asleep \union {<<c, call[c].name.base>>}
      BY <2>2, <2>3, <3>4, <3>5 DEF Asleep
    <3>7. Service!Sleep(c, call[c].name.base)
      BY <1>1, <3>2, <3>6 DEF Service!Sleep
    <3> QED
      BY <3>3, <3>7 DEF Service!Next
  <2> QED
    BY <2>4, <2>5
<1>4. CASE ~AwaitClose(c)
  <2>1. \A d \in Client : d /= c => call'[d] = call[d]
    BY <1>2, <1>4 DEF ClientStep, FileOpen, Retry, FileUse, FileClose, FileFree, CommonAsk,
       RenameAsk, RenameGoesOn, Send
  <2>2. ~Sleeper(c) /\ ~Sleeper(c)'
    <3>1. CASE UNCHANGED call /\ call[c].pc = "idle"
      BY <3>1 DEF Sleeper
    <3>2. CASE FileOpen(c)
      <4>1. PICK n \in Name : call' = [call EXCEPT ![c] = [NoCall EXCEPT !.pc = "queued", !.name = n,
                                                                        !.opens = call[c].opens + 1]]
        BY <3>2 DEF FileOpen
      <4>2. call'[c].pc = "queued" /\ call[c].pc = "idle"
        BY <1>2, <3>2, <4>1 DEF FileOpen, NoCall
      <4> QED
        BY <4>2 DEF Sleeper
    <3>3. CASE Retry(c)
      <4>1. call[c].flag /\ call'[c].pc = "queued"
        BY <1>2, <3>3 DEF Retry, CallRecord
      <4> QED
        BY <4>1 DEF Sleeper
    <3>4. CASE call[c].pc /= "waiting" /\ \E op, n, to : Send(c, op, n, to)
      <4>1. call'[c].pc = "queued"
        BY <1>2, <3>4 DEF Send, CallRecord
      <4> QED
        BY <3>4, <4>1 DEF Sleeper
    <3> QED
      BY <1>4, <3>1, <3>2, <3>3, <3>4 DEF ClientStep, FileUse, FileClose, FileFree, CommonAsk,
         RenameAsk, RenameGoesOn
  <2>3. UNCHANGED Asleep
    <3>1. \A d \in Client : d /= c => (Sleeper(d)' <=> Sleeper(d)) /\ call'[d].name = call[d].name
      BY <2>1 DEF Sleeper
    <3>2. \A d \in Client : /\ Sleeper(d)' <=> Sleeper(d)
                            /\ Sleeper(d) => call'[d].name = call[d].name
      BY <2>2, <3>1
    <3> QED
      BY <3>2, SleepersStay
  <2> QED
    BY <1>1, <2>3 DEF mapped
<1> QED
  BY <1>3, <1>4

LEMMA OpenRefines ==
    ASSUME Inv, ~StaleClose, HandleOpen
    PROVE  [Service!Next]_mapped
<1>1. PICK c \in Client : c = Head(queue) /\ call[c].pc = "queued" /\ queue /= <<>> /\ call[c].op = "Open"
  BY TakenIs DEF HandleOpen, Handling
<1>2. PICK p : p = Real(call[c].name)
  OBVIOUS
<1>3. \/ UNCHANGED <<table, dir>> /\ \E pc \in {"failed", "denied"} : Answer(c, pc)
      \/ /\ p.vol /= "bad" /\ ~Busy(p)
         /\ \E n \in Node \ Used, ok \in BOOLEAN :
               /\ Push(c, n, p, ok)
               /\ dir' = IF ok THEN dir \union {p} ELSE dir
               /\ Answer(c, IF ok THEN "open" ELSE "failed")
  BY <1>1, <1>2 DEF HandleOpen, Handling
<1>4. CASE UNCHANGED <<table, dir>> /\ \E pc \in {"failed", "denied"} : Answer(c, pc)
  <2>1. UNCHANGED Asleep
    BY <1>1, <1>4, AnswersLetSleep
  <2> QED
    BY <1>4, <2>1, TableShows DEF mapped
<1>5. ASSUME p.vol /= "bad", ~Busy(p), NEW n \in Node \ Used, NEW ok \in BOOLEAN, Push(c, n, p, ok),
             dir' = IF ok THEN dir \union {p} ELSE dir,
             Answer(c, IF ok THEN "open" ELSE "failed")
      PROVE  [Service!Next]_mapped
  <2>1. UNCHANGED Asleep
    <3>1. PICK pc \in {"failed", "open"} : Answer(c, pc)
      BY <1>5
    <3> QED
      BY <1>1, <3>1, AnswersLetSleep
  <2>2. p \in Service!Path
    <3>1. call[c].name \in Name
      BY Typed DEF Inv, CallRecord
    <3> QED
      BY <1>2, <1>5, <3>1, RealIs DEF Path, Service!Path
  <2>4. PICK e : e = [node |-> n, file |-> c, path |-> p, live |-> ok, killer |-> "none"]
    OBVIOUS
  <2>5. e.file = c /\ e.path = p /\ e.live = ok
    BY <2>4
  <2>6. table' = table \union {e}
    BY <1>5, <2>4 DEF Push
  <2>7. ASSUME NEW h \in Opened PROVE h[1] /= c /\ h[2] /= p
    <3>1. PICK o \in table : h = <<o.file, o.path>>
      BY DEF Opened
    <3>2. Holds(o.file) /\ ~Holds(c)
      BY <1>1 DEF Inv, OwnerInv, Holds
    <3> QED
      BY <1>5, <3>1, <3>2 DEF Busy
  <2>8. Opened' = Opened \union {<<c, p>>}
    BY <2>5, <2>6 DEF Opened
  <2>9. Usable' = IF ok THEN Usable \union {<<c, p>>} ELSE Usable
    BY <2>5, <2>6 DEF Usable
  <2>10. Service!Open(c, p)
    BY <1>5, <2>1, <2>7, <2>8, <2>9 DEF Service!Open
  <2> QED
    BY <2>2, <2>10 DEF Service!Next
<1> QED
  BY <1>3, <1>4, <1>5

LEMMA CloseRefines ==
    ASSUME Inv, ~StaleClose, HandleClose
    PROVE  [Service!Next]_mapped
<1>1. PICK c \in Client : c = Head(queue) /\ call[c].pc = "queued" /\ queue /= <<>> /\ call[c].op = "Close"
  BY TakenIs DEF HandleClose, Handling
<1>2. UNCHANGED dir
  BY DEF HandleClose
<1>3. CASE Answer(c, "idle") /\ UNCHANGED table
  <2>1. UNCHANGED Asleep
    BY <1>1, <1>3, AnswersLetSleep
  <2> QED
    BY <1>2, <1>3, <2>1, TableShows DEF mapped
<1>4. ASSUME NEW e \in Mine(c), table' = table \ {e},
             call' = [d \in Client |-> IF d = c THEN Answered(c, "idle")
                                       ELSE [call[d] EXCEPT !.flag = @ \/ Waits(d)]]
      PROVE  Service!Next
  <2>1. e \in table /\ e.file = c /\ e.path \in Service!Path
    <3>1. Holds(c)
      BY <1>1 DEF Holds
    <3>2. e \in table /\ e.file = c
      BY <3>1, EntryIsOwn DEF Mine
    <3> QED
      BY <3>2, Typed, EntryFields DEF Inv, Path, Service!Path
  <2>2. \A o \in table : <<o.file, o.path>> = <<e.file, e.path>> => o = e
    BY <2>1 DEF Inv, OneEntryPerPath
  <2>3. Opened' = Opened \ {<<c, e.path>>}
    BY <1>4, <2>1, <2>2 DEF Opened
  <2>4. Usable' = Usable \ {<<c, e.path>>}
    BY <1>4, <2>1, <2>2 DEF Usable
  <2>5. ASSUME NEW d \in Client PROVE ~Sleeper(d)'
    <3>1. CASE d = c
      <4>1. call'[c].pc = "idle"
        BY <1>4, AnsweredIs
      <4> QED
        BY <3>1, <4>1 DEF Sleeper
    <3>2. CASE d /= c
      <4>1. call[d] \in CallRecord
        BY Typed DEF Inv
      <4>2. PICK b : b = (call[d].flag \/ Waits(d))
        OBVIOUS
      <4>3. call'[d] = [call[d] EXCEPT !.flag = b]
        BY <1>4, <3>2, <4>2
      <4>4. call'[d].pc = call[d].pc /\ call'[d].flag = b
        BY <4>1, <4>3 DEF CallRecord
      <4>5. call[d].pc = "waiting" => b
        BY <4>2 DEF Inv, WaitInv, Waits
      <4> QED
        BY <4>4, <4>5 DEF Sleeper
    <3> QED
      BY <3>1, <3>2
  <2>6. Asleep' = {}
    BY <2>5 DEF Asleep
  <2>7. <<c, e.path>> \in Opened
    BY <2>1 DEF Opened
  <2>8. Service!Close(c, e.path)
    BY <1>2, <2>3, <2>4, <2>6, <2>7 DEF Service!Close
  <2> QED
    BY <2>1, <2>8 DEF Service!Next
<1> QED
  BY <1>1, <1>3, <1>4 DEF HandleClose

LEMMA NamesRefine ==
    ASSUME Inv, HandleUse \/ HandleStat \/ HandleRemove \/ HandleRename
    PROVE  [Service!Next]_mapped
<1>1. UNCHANGED Asleep
  <2>1. /\ queue /= <<>>
        /\ \E pc \in {"open", "exists", "idle", "rename"} : Answer(Head(queue), pc)
    BY DEF HandleUse, HandleStat, HandleRemove, HandleRename, Handling
  <2> QED
    BY <2>1, AnswersLetSleep
<1>2. CASE UNCHANGED <<table, dir>>
  BY <1>1, <1>2, TableShows DEF mapped
<1>3. CASE HandleRemove /\ ~UNCHANGED <<table, dir>>
  <2>1. PICK p : Removable(p) /\ dir' = dir \ {p} /\ UNCHANGED table
    BY <1>3 DEF HandleRemove
  <2>2. UNCHANGED <<Opened, Usable>> /\ ~Service!IsOpen(p)
    BY <2>1, TableShows, BusyIsOpen DEF Removable
  <2>3. CASE p \in dir
    <3>1. p \in Service!Path
      BY <2>3, Typed DEF Inv, Path, Service!Path
    <3>2. Service!Remove(p)
      BY <1>1, <2>1, <2>2 DEF Service!Remove
    <3> QED
      BY <3>1, <3>2 DEF Service!Next
  <2>4. CASE p \notin dir
    BY <1>1, <2>1, <2>2, <2>4 DEF mapped
  <2> QED
    BY <2>3, <2>4
<1>4. CASE HandleRename /\ ~UNCHANGED <<table, dir>>
  <2>1. PICK p, to : /\ to = [p EXCEPT !.base = call[Head(queue)].to.base]
                     /\ p \in dir /\ ~Busy(p) /\ (p.vol = "ext" => to \notin dir)
                     /\ dir' = (dir \ {p}) \union {to}
    BY <1>4 DEF HandleRename
  <2>2. call[Head(queue)].to.base \in Base
    <3>1. Head(queue) \in Client
      BY <1>4, TakenIs DEF HandleRename, Handling
    <3>2. call[Head(queue)].to \in Name
      BY <3>1, Typed DEF Inv, CallRecord
    <3> QED
      BY <3>2, NamesAre
  <2>3. p \in Service!Path /\ to \in Service!Path /\ to.vol = p.vol
    BY <2>1, <2>2, Typed DEF Inv, Path, Service!Path
  <2>4. UNCHANGED <<Opened, Usable>> /\ ~Service!IsOpen(p)
    BY <1>4, <2>1, TableShows, BusyIsOpen DEF HandleRename
  <2>5. Service!Rename(p, to)
    BY <1>1, <2>1, <2>3, <2>4 DEF Service!Rename
  <2> QED
    BY <2>3, <2>5 DEF Service!Next
<1> QED
  BY <1>2, <1>3, <1>4 DEF HandleUse, HandleStat

LEMMA KillRefines ==
    ASSUME Inv, NEW k \in Killer, table' = Kill(k), UNCHANGED Asleep,
           dir' \in {dir, {p \in dir : p.vol = "int"}}
    PROVE  Service!Next
<1>1. Service!LoseCard
  BY KilledShows DEF Service!LoseCard
<1> QED
  BY <1>1 DEF Service!Next

LEMMA CardRefines ==
    ASSUME Inv, HandleMount \/ HandleUnmount \/ HandleFormat \/ Tick \/ CardMoves
    PROVE  [Service!Next]_mapped
<1>1. UNCHANGED Asleep
  <2>1. CASE UNCHANGED call
    BY <2>1, SleepersStay DEF Sleeper
  <2>2. CASE ~UNCHANGED call
    <3>1. queue /= <<>> /\ Answer(Head(queue), "idle")
      BY <2>2 DEF HandleMount, HandleUnmount, HandleFormat, Tick, CardMoves, Handling
    <3> QED
      BY <3>1, AnswersLetSleep
  <2> QED
    BY <2>1, <2>2
<1>2. CASE UNCHANGED <<table, dir>>
  BY <1>1, <1>2, TableShows DEF mapped
<1>3. CASE ~UNCHANGED <<table, dir>>
  <2>1. \E k \in Killer : table' = Kill(k)
    BY <1>3 DEF HandleMount, HandleUnmount, HandleFormat, Tick, CardMoves, Killer
  <2>2. dir' \in {dir, {p \in dir : p.vol /= "ext"}}
    BY DEF HandleMount, HandleUnmount, HandleFormat, Tick, CardMoves
  <2>3. {p \in dir : p.vol /= "ext"} = {p \in dir : p.vol = "int"}
    BY Typed DEF Inv, Path
  <2> QED
    BY <1>1, <2>1, <2>2, <2>3, KillRefines
<1> QED
  BY <1>2, <1>3

(* If no File is closed twice, the service, its clients and its card do only what
   StorageService specifies: whatever the order of the messages and the moves of the
   card, one File at a time has a path open, a close is of the caller's own entry and
   wakes everybody, no open file is removed or renamed, and no handle on the internal
   storage is lost. *)
THEOREM StorageImplementsService ==
    ASSUME ~StaleClose PROVE Spec => ImplementsService
<1>1. Init => Service!Init
  BY DEF Init, Service!Init, Opened, Usable, Asleep, Sleeper, NoCall
<1>2. Inv /\ [Next]_vars => [Service!Next]_mapped
  <2> SUFFICES ASSUME Inv, [Next]_vars PROVE [Service!Next]_mapped
    OBVIOUS
  <2>1. CASE UNCHANGED vars
    <3>1. UNCHANGED <<table, dir, call>>
      BY <2>1 DEF vars
    <3> QED
      BY <3>1, TableShows, SleepersStay DEF mapped, Sleeper
  <2>2. CASE Handle
    BY <2>2, OpenRefines, CloseRefines, NamesRefine, CardRefines DEF Handle
  <2>3. CASE Tick \/ CardMoves
    BY <2>3, CardRefines
  <2>4. ASSUME NEW c \in Client, ClientStep(c) PROVE [Service!Next]_mapped
    BY <2>4, ClientRefines
  <2> QED
    BY <2>1, <2>2, <2>3, <2>4 DEF Next
<1> QED
  BY <1>1, <1>2, InvHolds, PTL DEF Spec, ImplementsService, Service!Spec, Service!vars, mapped
================================================================================
