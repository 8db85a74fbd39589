------------------------------ MODULE InputProofs ------------------------------
(***************************************************************************)
(* Proofs about the input service (Input.tla), for any number of keys, any  *)
(* debounce and any size of the gui's queue.                                *)
(***************************************************************************)
EXTENDS Input, TLAPS

USE KeyAssumption, DebounceAssumption, QueueAssumption

(* p publishes an event of this type of k, and it has not been put. *)
InFlight(p, k, type) ==
    pub[p].pc \in {"lock", "put"} /\ pub[p].key = k /\ pub[p].type = type

(* The service is between the end of the press of k and the Release it owes. *)
LettingGo(k) ==
    /\ scan.key = k
    /\ \/ pub["srv"].pc = "stopping"
       \/ InFlight("srv", k, "Short") \/ InFlight("srv", k, "Release")

(* Who publishes what. The task carries out no command while it publishes, so the
   timer whose callback publishes stays active. *)
PubInv ==
    /\ pub["srv"].pc \in {"scan", "stopping", "wait", "lock", "put"}
    /\ pub["task"].pc \in {"idle", "lock", "put"}
    /\ pub["srv"].pc \in {"lock", "put"} =>
        pub["srv"].key = scan.key /\ pub["srv"].type \in {"Press", "Short", "Release"}
    /\ pub["task"].pc \in {"lock", "put"} =>
        pub["task"].type \in {"Long", "Repeat"} /\ timer[pub["task"].key].active

(* A timer is active only for a key that is down, or whose stop is waited for; a
   key has been told to be down unless its Press is on its way, and stays so until
   its Release is put. *)
DownInv(k) ==
    /\ timer[k].active => pin[k].state \/ (pub["srv"].pc = "stopping" /\ scan.key = k)
    /\ timer[k].command = "start" => pin[k].state
    /\ InFlight("srv", k, "Press") => pin[k].state
    /\ LettingGo(k) => ~pin[k].state /\ told[k].down
    /\ pin[k].state /\ ~InFlight("srv", k, "Press") => told[k].down

(* The counter tells whether the press was long; an outcome has been told exactly
   when the Release is on its way, or the counter is at the end and Long is not. *)
CountInv(k) ==
    /\ InFlight("srv", k, "Short") => pin[k].counter < LongPressCounts
    /\ InFlight("srv", k, "Release") => pin[k].counter = 0
    /\ InFlight("task", k, "Long") => pin[k].counter = LongPressCounts
    /\ told[k].outcomes =
        IF \/ InFlight("srv", k, "Release")
           \/ pin[k].counter = LongPressCounts /\ ~InFlight("task", k, "Long")
        THEN 1 ELSE 0

Inv == TypeOK /\ PubInv /\ \A k \in Key : DownInv(k) /\ CountInv(k)

PinRecord   == [state : BOOLEAN, debounce : 0..DebounceTicks, counter : 0..LongPressCounts]
TimerRecord == [active : BOOLEAN, command : {"none", "start", "stop"}]
PubRecord   == [pc : {"idle", "scan", "stopping", "wait", "lock", "put"}, key : Key,
                type : {"Press", "Short", "Long", "Repeat", "Release"}]
ToldRecord  == [down : BOOLEAN, outcomes : 0..2]

LEMMA Typed ==
    ASSUME TypeOK
    PROVE  /\ level \in [Key -> BOOLEAN] /\ isr \in BOOLEAN
           /\ pin \in [Key -> PinRecord] /\ timer \in [Key -> TimerRecord]
           /\ pub \in [Publisher -> PubRecord]
           /\ scan \in [key : Key, changing : BOOLEAN] /\ scan.key \in Key
           /\ mutex \in Publisher \union {"none"} /\ queued \in 0..QueueSize
           /\ told \in [Key -> ToldRecord]
BY DEF TypeOK, PinRecord, TimerRecord, PubRecord, ToldRecord

LEMMA TypedNext ==
    ASSUME level' \in [Key -> BOOLEAN], isr' \in BOOLEAN,
           pin' \in [Key -> PinRecord], timer' \in [Key -> TimerRecord],
           pub' \in [Publisher -> PubRecord], scan' \in [key : Key, changing : BOOLEAN],
           mutex' \in Publisher \union {"none"}, queued' \in 0..QueueSize,
           told' \in [Key -> ToldRecord]
    PROVE  TypeOK'
BY DEF TypeOK, PinRecord, TimerRecord, PubRecord, ToldRecord

LEMMA Publishers == Publisher = {"srv", "task"}
BY DEF Publisher

LEMMA InitInv == Init => Inv
<1> SUFFICES ASSUME Init PROVE Inv
  OBVIOUS
<1>1. 1 \in Key /\ DebounceTicks \div 2 \in 0..DebounceTicks
  BY DEF Key
<1>2. TypeOK
  <2>1. pin \in [Key -> PinRecord]
    BY <1>1 DEF Init, PinRecord, LongPressCounts
  <2>2. pub \in [Publisher -> PubRecord]
    BY <1>1 DEF Init, PubRecord
  <2>3. told \in [Key -> ToldRecord]
    BY DEF Init, ToldRecord
  <2>4. /\ level \in [Key -> BOOLEAN] /\ isr \in BOOLEAN /\ timer \in [Key -> TimerRecord]
        /\ scan \in [key : Key, changing : BOOLEAN]
        /\ mutex \in Publisher \union {"none"} /\ queued \in 0..QueueSize
    <3>1. level \in [Key -> BOOLEAN] /\ isr \in BOOLEAN /\ timer \in [Key -> TimerRecord]
      BY DEF Init, TimerRecord
    <3>2. scan \in [key : Key, changing : BOOLEAN]
      BY <1>1 DEF Init
    <3> QED
      BY <3>1, <3>2 DEF Init
  <2> QED
    BY <2>1, <2>2, <2>3, <2>4 DEF TypeOK, PinRecord, TimerRecord, PubRecord, ToldRecord
<1>3. pub["srv"].pc = "scan" /\ pub["task"].pc = "idle"
  BY Publishers DEF Init
<1>4. PubInv
  BY <1>3 DEF PubInv
<1>5. ASSUME NEW k \in Key PROVE DownInv(k) /\ CountInv(k)
  <2>1. /\ ~timer[k].active /\ timer[k].command = "none" /\ pin[k].counter = 0
        /\ told[k].outcomes = 0 /\ told[k].down = pin[k].state
    BY DEF Init
  <2> QED
    BY <1>3, <2>1 DEF DownInv, CountInv, InFlight, LettingGo, LongPressCounts
<1> QED
  BY <1>2, <1>4, <1>5 DEF Inv

--------------------------------------------------------------------------------
(* Steps that neither the pins, the timers nor what has been told can feel. *)

LEMMA QuietKeepsInv ==
    ASSUME Inv, NEW p \in Publisher, Lock(p) \/ AwaitInterrupt \/ GuiTakes \/ UNCHANGED vars
    PROVE  Inv'
<1>1. UNCHANGED <<level, pin, timer, scan, told>>
  BY DEF Lock, AwaitInterrupt, GuiTakes, vars
<1>2. /\ pub' \in [Publisher -> PubRecord]
      /\ \A q \in Publisher : /\ pub'[q].key = pub[q].key /\ pub'[q].type = pub[q].type
                              /\ \/ pub'[q].pc = pub[q].pc
                                 \/ pub[q].pc = "lock" /\ pub'[q].pc = "put"
                                 \/ q = "srv" /\ pub[q].pc = "wait" /\ pub'[q].pc = "scan"
  <2>1. CASE Lock(p)
    BY <2>1, Typed DEF Lock, Inv, PubRecord
  <2>2. CASE AwaitInterrupt
    BY <2>2, Typed, Publishers DEF AwaitInterrupt, Inv, PubRecord
  <2>3. CASE GuiTakes \/ UNCHANGED vars
    BY <2>3, Typed DEF GuiTakes, vars, Inv
  <2> QED
    BY <2>1, <2>2, <2>3
<1>3. TypeOK'
  <2>1. isr' \in BOOLEAN /\ mutex' \in Publisher \union {"none"} /\ queued' \in 0..QueueSize
    <3>1. isr' \in BOOLEAN
      BY Typed DEF Lock, AwaitInterrupt, GuiTakes, vars, Inv
    <3>2. mutex' \in Publisher \union {"none"}
      BY Typed DEF Lock, AwaitInterrupt, GuiTakes, vars, Inv
    <3>3. queued' \in 0..QueueSize
      BY Typed DEF Lock, AwaitInterrupt, GuiTakes, vars, Inv
    <3> QED
      BY <3>1, <3>2, <3>3
  <2> QED
    BY <1>1, <1>2, <2>1, Typed, TypedNext DEF Inv
<1>4. PubInv'
  BY <1>1, <1>2, Publishers DEF Inv, PubInv
<1>5. ASSUME NEW k \in Key PROVE DownInv(k)' /\ CountInv(k)'
  BY <1>1, <1>2, Publishers DEF Inv, PubInv, DownInv, CountInv, InFlight, LettingGo
<1> QED
  BY <1>3, <1>4, <1>5 DEF Inv

LEMMA PinMovesKeepsInv ==
    ASSUME Inv, NEW k \in Key, PinMoves(k)
    PROVE  Inv'
<1>1. UNCHANGED <<pin, timer, pub, scan, mutex, queued, told>>
  BY DEF PinMoves
<1>2. level' \in [Key -> BOOLEAN] /\ isr' \in BOOLEAN
  BY Typed DEF PinMoves, Inv
<1>3. TypeOK'
  BY <1>1, <1>2, Typed, TypedNext DEF Inv
<1>4. PubInv' /\ \A j \in Key : DownInv(j)' /\ CountInv(j)'
  BY <1>1 DEF Inv, PubInv, DownInv, CountInv, InFlight, LettingGo
<1> QED
  BY <1>3, <1>4 DEF Inv

--------------------------------------------------------------------------------
(* The loop of the service. *)

LEMMA DebouncedIs ==
    ASSUME TypeOK, NEW k \in Key
    PROVE  Debounced(k) \in 0..DebounceTicks
<1>1. pin[k].debounce \in 0..DebounceTicks
  BY Typed DEF PinRecord
<1> QED
  BY <1>1 DEF Debounced

LEMMA NextKeyIs ==
    ASSUME TypeOK, NEW changing \in BOOLEAN, NextKey(changing)
    PROVE  /\ pub' \in [Publisher -> PubRecord] /\ scan' \in [key : Key, changing : BOOLEAN]
           /\ pub'["srv"].pc \in {"scan", "wait"} /\ pub'["task"] = pub["task"]
<1>1. scan.key \in 1..KeyCount /\ pub \in [Publisher -> PubRecord] /\ {"srv", "task"} \subseteq Publisher
  BY Typed, Publishers DEF Key
<1>2. scan' \in [key : Key, changing : BOOLEAN]
  <2>1. CASE scan.key < KeyCount
    <3>1. scan.key + 1 \in Key /\ scan' = [key |-> scan.key + 1, changing |-> changing]
      BY <1>1, <2>1 DEF NextKey, Key
    <3> QED
      BY <3>1
  <2>2. CASE ~(scan.key < KeyCount)
    <3>1. 1 \in Key /\ scan' = [key |-> 1, changing |-> FALSE]
      BY <2>2 DEF NextKey, Key
    <3> QED
      BY <3>1
  <2> QED
    BY <2>1, <2>2
<1>3. PICK pc \in {"scan", "wait"} : pub' = [pub EXCEPT !["srv"].pc = pc]
  BY DEF NextKey
<1> QED
  BY <1>1, <1>2, <1>3 DEF PubRecord

(* The service goes on to the next key and has published nothing. *)
LEMMA ScanGoesOn ==
    ASSUME Inv, pub["srv"].pc = "scan", NEW changing \in BOOLEAN, NextKey(changing),
           pin' \in [Key -> PinRecord],
           \A k \in Key : pin'[k].state = pin[k].state /\ pin'[k].counter = pin[k].counter,
           UNCHANGED <<level, isr, timer, mutex, queued, told>>
    PROVE  Inv'
<1>1. /\ pub' \in [Publisher -> PubRecord] /\ scan' \in [key : Key, changing : BOOLEAN]
      /\ pub'["srv"].pc \in {"scan", "wait"} /\ pub'["task"] = pub["task"]
  BY NextKeyIs DEF Inv
<1>2. TypeOK'
  BY <1>1, Typed, TypedNext DEF Inv
<1>3. PubInv'
  BY <1>1 DEF Inv, PubInv
<1>4. ASSUME NEW k \in Key PROVE DownInv(k)' /\ CountInv(k)'
  BY <1>1 DEF Inv, PubInv, DownInv, CountInv, InFlight, LettingGo
<1> QED
  BY <1>2, <1>3, <1>4 DEF Inv

LEMMA ScanKeepsInv ==
    ASSUME Inv, ScanKey
    PROVE  Inv'
<1> DEFINE k == scan.key
           d == Debounced(k)
<1>1. /\ k \in Key /\ d \in 0..DebounceTicks /\ pub["srv"].pc = "scan"
      /\ UNCHANGED <<level, isr, mutex, queued, told>>
      /\ scan.changing \in BOOLEAN
  BY Typed, DebouncedIs DEF Inv, ScanKey
<1>2. \/ pin' = [pin EXCEPT ![k].debounce = d] /\ NextKey(TRUE) /\ UNCHANGED timer
      \/ pin' = [pin EXCEPT ![k].debounce = d] /\ NextKey(scan.changing) /\ UNCHANGED timer
      \/ /\ pin[k].state /= level[k]
         /\ pin' = [pin EXCEPT ![k].debounce = d, ![k].state = level[k]]
         /\ timer' = [timer EXCEPT ![k].command = IF level[k] THEN "start" ELSE "stop"]
         /\ pub' = IF level[k] THEN Publishes("srv", k, "Press")
                               ELSE [pub EXCEPT !["srv"].pc = "stopping"]
         /\ UNCHANGED scan
  BY DEF ScanKey
<1> HIDE DEF d, k
<1>3. CASE pin' = [pin EXCEPT ![k].debounce = d] /\ UNCHANGED timer
           /\ \E c \in BOOLEAN : NextKey(c)
  <2>1. /\ pin' \in [Key -> PinRecord]
        /\ \A j \in Key : pin'[j].state = pin[j].state /\ pin'[j].counter = pin[j].counter
    BY <1>1, <1>3, Typed DEF Inv, PinRecord
  <2> QED
    BY <1>1, <1>3, <2>1, ScanGoesOn
<1>4. CASE /\ pin[k].state /= level[k]
           /\ pin' = [pin EXCEPT ![k].debounce = d, ![k].state = level[k]]
           /\ timer' = [timer EXCEPT ![k].command = IF level[k] THEN "start" ELSE "stop"]
           /\ pub' = IF level[k] THEN Publishes("srv", k, "Press")
                                 ELSE [pub EXCEPT !["srv"].pc = "stopping"]
           /\ UNCHANGED scan
  <2>1. level[k] \in BOOLEAN /\ pin[k].state \in BOOLEAN
    BY <1>1, Typed DEF Inv, PinRecord
  <2>2. /\ pin' \in [Key -> PinRecord] /\ timer' \in [Key -> TimerRecord]
        /\ pin'[k].state = level[k] /\ pin'[k].counter = pin[k].counter
        /\ timer'[k].active = timer[k].active
        /\ timer'[k].command = IF level[k] THEN "start" ELSE "stop"
        /\ \A j \in Key \ {k} : pin'[j] = pin[j] /\ timer'[j] = timer[j]
    <3>1. /\ pin' \in [Key -> PinRecord]
          /\ pin'[k].state = level[k] /\ pin'[k].counter = pin[k].counter
          /\ \A j \in Key \ {k} : pin'[j] = pin[j]
      BY <1>1, <1>4, <2>1, Typed DEF Inv, PinRecord
    <3>2. /\ timer' \in [Key -> TimerRecord]
          /\ timer'[k].active = timer[k].active
          /\ timer'[k].command = IF level[k] THEN "start" ELSE "stop"
          /\ \A j \in Key \ {k} : timer'[j] = timer[j]
      BY <1>1, <1>4, Typed DEF Inv, TimerRecord
    <3> QED
      BY <3>1, <3>2
  <2>3. /\ pub' \in [Publisher -> PubRecord] /\ pub'["task"] = pub["task"]
        /\ level[k] => pub'["srv"] = [pc |-> "lock", key |-> k, type |-> "Press"]
        /\ ~level[k] => pub'["srv"].pc = "stopping"
    BY <1>1, <1>4, Typed, Publishers DEF Inv, Publishes, PubRecord
  <2>4. TypeOK'
    BY <1>1, <1>4, <2>2, <2>3, Typed, TypedNext DEF Inv
  <2>s. /\ \A j, type : ~InFlight("srv", j, type) /\ ~LettingGo(j)
        /\ \A j, type : InFlight("task", j, type)' <=> InFlight("task", j, type)
        /\ told' = told /\ scan'.key = k
    BY <1>1, <1>4, <2>3 DEF InFlight, LettingGo, k
  <2>5. pub["task"].pc \in {"lock", "put"} => pub["task"].key \in Key
    BY Typed, Publishers DEF Inv, PubRecord
  <2>6. PubInv'
    <3>1. \A j \in Key : timer'[j].active = timer[j].active
      BY <2>2
    <3>2. /\ pub'["srv"].pc \in {"stopping", "lock"}
          /\ pub'["srv"].pc = "lock" => pub'["srv"].key = scan'.key /\ pub'["srv"].type = "Press"
      BY <1>1, <2>1, <2>3, <2>s
    <3> QED
      BY <2>3, <2>5, <3>1, <3>2 DEF Inv, PubInv
  <2>7. ASSUME NEW j \in Key PROVE DownInv(j)' /\ CountInv(j)'
    <3>0. /\ timer[j].active => pin[j].state
          /\ timer[j].command = "start" => pin[j].state
          /\ pin[j].state => told[j].down
          /\ InFlight("task", j, "Long") => pin[j].counter = LongPressCounts
          /\ told[j].outcomes =
              IF pin[j].counter = LongPressCounts /\ ~InFlight("task", j, "Long") THEN 1 ELSE 0
      BY <1>1, <2>s DEF Inv, DownInv, CountInv
    <3>1. CASE j /= k
      <4>1. /\ \A type : ~InFlight("srv", j, type)'
            /\ ~LettingGo(j)'
        BY <1>1, <2>3, <2>s, <3>1 DEF InFlight, LettingGo
      <4> QED
        BY <2>2, <2>s, <3>0, <3>1, <4>1 DEF DownInv, CountInv
    <3>2. CASE j = k /\ level[k]
      <4>0. pub'["srv"].pc = "lock" /\ pub'["srv"].key = k /\ pub'["srv"].type = "Press"
        BY <2>3, <3>2
      <4>1. /\ InFlight("srv", j, "Press")' /\ ~LettingGo(j)'
            /\ ~InFlight("srv", j, "Short")' /\ ~InFlight("srv", j, "Release")'
        BY <3>2, <4>0 DEF InFlight, LettingGo
      <4>2. pin'[k].state /\ pin'[k].counter = pin[k].counter
        BY <2>2, <3>2
      <4>3. CountInv(j)'
        BY <2>s, <3>0, <3>2, <4>1, <4>2 DEF CountInv
      <4> QED
        BY <3>2, <4>1, <4>2, <4>3 DEF DownInv
    <3>3. CASE j = k /\ ~level[k]
      <4>1. \A type : ~InFlight("srv", j, type)'
        BY <2>3, <3>3 DEF InFlight
      <4>2. pin[k].state /\ pub'["srv"].pc = "stopping"
        BY <1>4, <2>1, <2>3, <3>3
      <4>3. /\ ~pin'[k].state /\ pin'[k].counter = pin[k].counter
            /\ timer'[k].command = "stop" /\ told[k].down
        BY <2>2, <3>0, <3>3, <4>2
      <4>4. CountInv(j)'
        BY <2>s, <3>0, <3>3, <4>1, <4>3 DEF CountInv
      <4>5. DownInv(j)'
        BY <2>s, <3>3, <4>1, <4>2, <4>3 DEF DownInv
      <4> QED
        BY <3>3, <4>4, <4>5
    <3> QED
      BY <2>1, <3>1, <3>2, <3>3
  <2> QED
    BY <2>4, <2>6, <2>7 DEF Inv
<1> QED
  BY <1>1, <1>2, <1>3, <1>4

LEMMA LetGoKeepsInv ==
    ASSUME Inv, KeyLetGo
    PROVE  Inv'
<1>0. PICK k \in Key : k = scan.key
  BY Typed DEF Inv
<1>1. /\ pub["srv"].pc = "stopping" /\ ~timer[k].active
      /\ UNCHANGED <<level, isr, timer, scan, mutex, queued, told>>
  BY <1>0 DEF KeyLetGo, TimerStopped
<1>2. \/ pin[k].counter < LongPressCounts /\ pub' = Publishes("srv", k, "Short") /\ UNCHANGED pin
      \/ /\ pin[k].counter >= LongPressCounts /\ pub' = Publishes("srv", k, "Release")
         /\ pin' = [pin EXCEPT ![k].counter = 0]
  BY <1>0 DEF KeyLetGo
<1>3. pin[k].counter \in 0..2 /\ LongPressCounts = 2
  BY <1>1, Typed DEF Inv, PinRecord, LongPressCounts
<1>4. /\ pub' \in [Publisher -> PubRecord] /\ pub'["task"] = pub["task"]
      /\ pub'["srv"].pc = "lock" /\ pub'["srv"].key = k
      /\ pub'["srv"].type = IF pin[k].counter < LongPressCounts THEN "Short" ELSE "Release"
  BY <1>1, <1>2, <1>3, Typed, Publishers DEF Inv, Publishes, PubRecord
<1>5. /\ pin' \in [Key -> PinRecord] /\ pin'[k].state = pin[k].state
      /\ pin'[k].counter = IF pin[k].counter < LongPressCounts THEN pin[k].counter ELSE 0
      /\ \A j \in Key \ {k} : pin'[j] = pin[j]
  BY <1>1, <1>2, <1>3, Typed DEF Inv, PinRecord
<1>6. TypeOK'
  BY <1>1, <1>4, <1>5, Typed, TypedNext DEF Inv
<1>7. PubInv'
  BY <1>0, <1>1, <1>4 DEF Inv, PubInv
<1>8. ASSUME NEW j \in Key PROVE DownInv(j)' /\ CountInv(j)'
  <2>1. CASE j /= k
    BY <1>0, <1>1, <1>4, <1>5, <2>1 DEF Inv, DownInv, CountInv, InFlight, LettingGo
  <2>2. CASE j = k
    <3>1. ~InFlight("task", k, "Long") /\ ~InFlight("task", k, "Long")'
      BY <1>0, <1>1, <1>4 DEF Inv, PubInv, InFlight
    <3>2. LettingGo(k) /\ LettingGo(k)'
      BY <1>0, <1>1, <1>4 DEF LettingGo, InFlight
    <3>3. DownInv(k)'
      BY <1>1, <1>4, <1>5, <3>2 DEF Inv, DownInv, InFlight
    <3>4. CountInv(k)'
      BY <1>1, <1>3, <1>4, <1>5, <3>1 DEF Inv, CountInv, InFlight
    <3> QED
      BY <2>2, <3>3, <3>4
  <2> QED
    BY <2>1, <2>2
<1> QED
  BY <1>6, <1>7, <1>8 DEF Inv

LEMMA ToldUpdated ==
    ASSUME told \in [Key -> ToldRecord], NEW k \in Key,
           NEW r \in [down : BOOLEAN, outcomes : Nat], told' = [told EXCEPT ![k] = r]
    PROVE  /\ told' \in [Key -> [down : BOOLEAN, outcomes : Nat]] /\ told'[k] = r
           /\ \A j \in Key : j /= k => told'[j] = told[j]
BY DEF ToldRecord

(* What the subscribers have been told changes for the key of the event only. *)
LEMMA ToldIs ==
    ASSUME Inv, NEW p \in Publisher, Put(p)
    PROVE  /\ pub[p].key \in Key /\ pub[p].pc = "put" /\ queued' \in 0..QueueSize /\ mutex' = "none"
           /\ told' \in [Key -> [down : BOOLEAN, outcomes : Nat]]
           /\ \A j \in Key : j /= pub[p].key => told'[j] = told[j]
           /\ LET k == pub[p].key
              IN  /\ pub[p].type = "Press" => told'[k].down /\ told'[k].outcomes = told[k].outcomes
                  /\ pub[p].type = "Release" => ~told'[k].down /\ told'[k].outcomes = 0
                  /\ pub[p].type = "Repeat" => told'[k] = told[k]
                  /\ pub[p].type \in {"Short", "Long"} =>
                        told'[k].down = told[k].down /\ told'[k].outcomes = told[k].outcomes + 1
<1>1. pub[p] \in PubRecord /\ told \in [Key -> ToldRecord] /\ queued \in 0..QueueSize
  BY Typed DEF Inv
<1>2. pub[p].pc = "put" /\ queued < QueueSize /\ queued' = queued + 1 /\ mutex' = "none"
  BY DEF Put
<1>3. /\ pub[p].type = "Press" => told' = [told EXCEPT ![pub[p].key].down = TRUE]
      /\ pub[p].type = "Release" => told' = [told EXCEPT ![pub[p].key] = [down |-> FALSE, outcomes |-> 0]]
      /\ pub[p].type = "Repeat" => told' = told
      /\ pub[p].type \in {"Short", "Long"} =>
            told' = [told EXCEPT ![pub[p].key].outcomes = told[pub[p].key].outcomes + 1]
  BY DEF Put, Told
<1>4. pub[p].type \in {"Press", "Release", "Repeat", "Short", "Long"} /\ pub[p].key \in Key
  BY <1>1 DEF PubRecord
<1>5. CASE pub[p].type = "Press"
  <2>0. PICK down \in BOOLEAN : down = TRUE
    OBVIOUS
  <2>1. PICK r : r = [told[pub[p].key] EXCEPT !.down = down]
    OBVIOUS
  <2>2. r \in [down : BOOLEAN, outcomes : Nat] /\ r.down /\ r.outcomes = told[pub[p].key].outcomes
    <3>1. told[pub[p].key] \in [down : BOOLEAN, outcomes : 0..2]
      BY <1>1, <1>4 DEF ToldRecord
    <3>2. r.down /\ r.outcomes = told[pub[p].key].outcomes
      BY <2>0, <2>1, <3>1
    <3>3. r \in [down : BOOLEAN, outcomes : Nat]
      BY <2>1, <3>1
    <3> QED
      BY <3>2, <3>3
  <2>3. told' = [told EXCEPT ![pub[p].key] = r]
    BY <1>3, <1>5, <2>0, <2>1
  <2> QED
    <3>1. /\ told' \in [Key -> [down : BOOLEAN, outcomes : Nat]] /\ told'[pub[p].key] = r
          /\ \A j \in Key : j /= pub[p].key => told'[j] = told[j]
      BY <1>1, <1>4, <2>2, <2>3, ToldUpdated
    <3> QED
      BY <1>1, <1>2, <1>4, <1>5, <2>2, <3>1
<1>6. CASE pub[p].type = "Release"
  <2>1. PICK r : r = [down |-> FALSE, outcomes |-> 0]
    OBVIOUS
  <2>2. r \in [down : BOOLEAN, outcomes : Nat] /\ ~r.down /\ r.outcomes = 0
    BY <2>1
  <2>3. told' = [told EXCEPT ![pub[p].key] = r]
    BY <1>3, <1>6, <2>1
  <2> QED
    <3>1. /\ told' \in [Key -> [down : BOOLEAN, outcomes : Nat]] /\ told'[pub[p].key] = r
          /\ \A j \in Key : j /= pub[p].key => told'[j] = told[j]
      BY <1>1, <1>4, <2>2, <2>3, ToldUpdated
    <3> QED
      BY <1>1, <1>2, <1>4, <1>6, <2>2, <3>1
<1>7. CASE pub[p].type = "Repeat"
  BY <1>1, <1>2, <1>3, <1>4, <1>7 DEF ToldRecord
<1>8. CASE pub[p].type \in {"Short", "Long"}
  BY <1>1, <1>2, <1>3, <1>4, <1>8 DEF ToldRecord
<1> QED
  BY <1>4, <1>5, <1>6, <1>7, <1>8

(* The outcomes are few because the counter tells them. *)
LEMMA ToldTyped ==
    ASSUME told' \in [Key -> [down : BOOLEAN, outcomes : Nat]], \A k \in Key : CountInv(k)'
    PROVE  told' \in [Key -> ToldRecord]
<1>1. ASSUME NEW k \in Key PROVE told'[k] \in ToldRecord
  BY DEF CountInv, ToldRecord
<1> QED
  BY <1>1

LEMMA PublishedKeepsInv ==
    ASSUME Inv, Published
    PROVE  Inv'
<1>0. PICK k \in Key : k = scan.key
  BY Typed DEF Inv
<1>1. Put("srv") /\ "srv" \in Publisher /\ "task" \in Publisher
  BY Publishers DEF Published
<1>2. /\ pub["srv"].pc = "put" /\ pub["srv"].key = k /\ pub["srv"].type \in {"Press", "Short", "Release"}
      /\ UNCHANGED <<level, isr, timer>>
  BY <1>0, <1>1 DEF Published, Put, Inv, PubInv
<1>3. /\ queued' \in 0..QueueSize /\ mutex' = "none"
      /\ told' \in [Key -> [down : BOOLEAN, outcomes : Nat]]
      /\ \A j \in Key : j /= k => told'[j] = told[j]
      /\ pub["srv"].type = "Press" => told'[k].down /\ told'[k].outcomes = told[k].outcomes
      /\ pub["srv"].type = "Release" => ~told'[k].down /\ told'[k].outcomes = 0
      /\ pub["srv"].type = "Short" =>
            told'[k].down = told[k].down /\ told'[k].outcomes = told[k].outcomes + 1
  BY <1>1, <1>2, ToldIs
<1>4. CASE pub["srv"].type = "Short"
  <2>1. /\ pub' = Publishes("srv", k, "Release") /\ pin' = [pin EXCEPT ![k].counter = 0]
        /\ UNCHANGED scan
    BY <1>0, <1>4 DEF Published
  <2>2. /\ pub' \in [Publisher -> PubRecord] /\ pub'["task"] = pub["task"]
        /\ pub'["srv"] = [pc |-> "lock", key |-> k, type |-> "Release"]
    BY <1>1, <2>1, Typed DEF Inv, Publishes, PubRecord
  <2>3. /\ pin' \in [Key -> PinRecord] /\ pin'[k].state = pin[k].state /\ pin'[k].counter = 0
        /\ \A j \in Key \ {k} : pin'[j] = pin[j]
    BY <2>1, Typed DEF Inv, PinRecord, LongPressCounts
  <2>4. PubInv'
    BY <1>0, <1>2, <2>1, <2>2 DEF Inv, PubInv
  <2>5. ASSUME NEW j \in Key PROVE DownInv(j)' /\ CountInv(j)'
    <3>1. CASE j /= k
      BY <1>0, <1>2, <1>3, <2>1, <2>2, <2>3, <3>1
      DEF Inv, DownInv, CountInv, InFlight, LettingGo
    <3>2. CASE j = k
      <4>1. LettingGo(k) /\ InFlight("srv", k, "Short") /\ LettingGo(k)' /\ InFlight("srv", k, "Release")'
        BY <1>0, <1>2, <1>4, <2>1, <2>2 DEF LettingGo, InFlight
      <4>2. ~InFlight("srv", k, "Release") /\ ~InFlight("srv", k, "Short")' /\ ~InFlight("srv", k, "Press")'
        BY <1>4, <2>2 DEF InFlight
      <4>3. ~timer[k].active /\ ~InFlight("task", k, "Long")'
        BY <1>2, <2>2, <4>1 DEF Inv, PubInv, DownInv, InFlight
      <4>4. DownInv(k)'
        BY <1>2, <1>3, <1>4, <2>3, <4>1, <4>2, <4>3 DEF Inv, DownInv
      <4>5. CountInv(k)'
        <5>1. ~InFlight("task", k, "Long")
          BY <1>2, <4>3 DEF Inv, PubInv, InFlight
        <5>2. told[k].outcomes = 0
          BY <4>1, <4>2, <5>1 DEF Inv, CountInv, LongPressCounts
        <5> QED
          BY <1>3, <1>4, <2>3, <4>1, <4>2, <4>3, <5>2 DEF CountInv, LongPressCounts
      <4> QED
        BY <3>2, <4>4, <4>5
    <3> QED
      BY <3>1, <3>2
  <2>6. TypeOK'
    BY <1>2, <1>3, <2>1, <2>2, <2>3, <2>5, ToldTyped, Typed, TypedNext DEF Inv
  <2> QED
    BY <2>4, <2>5, <2>6 DEF Inv
<1>5. CASE pub["srv"].type /= "Short"
  <2>1. NextKey(scan.changing) /\ scan.changing \in BOOLEAN /\ UNCHANGED pin
    BY <1>5, Typed DEF Published, Inv
  <2>2. /\ pub' \in [Publisher -> PubRecord] /\ scan' \in [key : Key, changing : BOOLEAN]
        /\ pub'["srv"].pc \in {"scan", "wait"} /\ pub'["task"] = pub["task"]
    BY <2>1, NextKeyIs DEF Inv
  <2>3. PubInv'
    BY <1>2, <2>2 DEF Inv, PubInv
  <2>4. ASSUME NEW j \in Key PROVE DownInv(j)' /\ CountInv(j)'
    <3>0. \A type : ~InFlight("srv", j, type)' /\ ~LettingGo(j)'
      BY <2>2 DEF InFlight, LettingGo
    <3>1. CASE j /= k
      <4>1. /\ \A type : ~InFlight("srv", j, type) /\ (InFlight("task", j, type)' <=> InFlight("task", j, type))
            /\ ~LettingGo(j) /\ told'[j] = told[j]
        BY <1>0, <1>2, <1>3, <2>2, <3>1 DEF InFlight, LettingGo
      <4>2. /\ timer[j].active => pin[j].state
            /\ timer[j].command = "start" => pin[j].state
            /\ pin[j].state => told[j].down
        BY <1>2, <4>1 DEF Inv, DownInv
      <4>3. DownInv(j)'
        BY <1>2, <2>1, <3>0, <4>1, <4>2 DEF DownInv
      <4>4. CountInv(j)'
        BY <2>1, <3>0, <4>1 DEF Inv, CountInv
      <4> QED
        BY <4>3, <4>4
    <3>2. CASE j = k /\ pub["srv"].type = "Press"
      <4>1. /\ InFlight("srv", k, "Press") /\ ~InFlight("srv", k, "Release")
            /\ \A type : InFlight("task", k, type)' <=> InFlight("task", k, type)
        BY <1>2, <2>2, <3>2 DEF InFlight
      <4>2. pin[k].state /\ (InFlight("task", k, "Long") => pin[k].counter = LongPressCounts)
        BY <4>1 DEF Inv, DownInv, CountInv
      <4>3. told[k].outcomes =
              IF pin[k].counter = LongPressCounts /\ ~InFlight("task", k, "Long") THEN 1 ELSE 0
        BY <4>1 DEF Inv, CountInv
      <4>4. told'[k].down /\ told'[k].outcomes = told[k].outcomes
        BY <1>3, <3>2
      <4>5. DownInv(k)'
        BY <1>2, <2>1, <3>0, <3>2, <4>2, <4>4 DEF DownInv
      <4>6. CountInv(k)'
        BY <2>1, <3>0, <3>2, <4>1, <4>2, <4>3, <4>4 DEF CountInv
      <4> QED
        BY <3>2, <4>5, <4>6
    <3>3. CASE j = k /\ pub["srv"].type = "Release"
      <4>1. LettingGo(k) /\ InFlight("srv", k, "Release")
        BY <1>0, <1>2, <3>3 DEF LettingGo, InFlight
      <4>2. ~timer[k].active /\ ~pin[k].state /\ pin[k].counter = 0 /\ timer[k].command /= "start"
        BY <1>2, <4>1 DEF Inv, DownInv, CountInv
      <4>3. told'[k].outcomes = 0 /\ ~told'[k].down /\ pin'[k] = pin[k] /\ timer'[k] = timer[k]
        BY <1>2, <1>3, <2>1, <3>3
      <4>4. ~InFlight("task", k, "Long")'
        BY <1>2, <2>2, <4>2 DEF Inv, PubInv, InFlight
      <4>5. pin'[k].counter /= LongPressCounts
        BY <4>2, <4>3 DEF LongPressCounts
      <4> QED
        BY <2>2, <3>0, <3>3, <4>2, <4>3, <4>4, <4>5 DEF DownInv, CountInv
    <3> QED
      BY <1>2, <1>5, <3>1, <3>2, <3>3
  <2>5. TypeOK'
    BY <1>2, <1>3, <2>1, <2>2, <2>4, ToldTyped, Typed, TypedNext DEF Inv
  <2> QED
    BY <2>3, <2>4, <2>5 DEF Inv
<1> QED
  BY <1>4, <1>5

--------------------------------------------------------------------------------
(* The timer task. *)

LEMMA CommandsKeepInv ==
    ASSUME Inv, TimerCommands
    PROVE  Inv'
<1>1. /\ pub["task"].pc = "idle"
      /\ UNCHANGED <<level, isr, pin, pub, scan, mutex, queued, told>>
  BY DEF TimerCommands
<1>2. ASSUME NEW k \in Key
      PROVE  /\ timer'[k] \in TimerRecord /\ timer'[k].command = "none"
             /\ timer'[k].active => timer[k].active \/ timer[k].command = "start"
  <2> DEFINE a == CASE timer[k].command = "start" -> TRUE
                    [] timer[k].command = "stop"  -> FALSE
                    [] OTHER                      -> timer[k].active
  <2>1. timer'[k] = [active |-> a, command |-> "none"]
    BY DEF TimerCommands
  <2>2. timer[k].active \in BOOLEAN /\ timer[k].command \in {"none", "start", "stop"}
    BY Typed DEF Inv, TimerRecord
  <2>3. a \in BOOLEAN /\ (a => timer[k].active \/ timer[k].command = "start")
    BY <2>2
  <2> HIDE DEF a
  <2>4. timer'[k].active = a /\ timer'[k].command = "none"
    BY <2>1
  <2> QED
    BY <2>1, <2>3, <2>4 DEF TimerRecord
<1>3. timer' \in [Key -> TimerRecord]
  BY <1>2 DEF TimerCommands
<1>4. TypeOK'
  BY <1>1, <1>3, Typed, TypedNext DEF Inv
<1>5. PubInv'
  BY <1>1 DEF Inv, PubInv
<1>6. ASSUME NEW k \in Key PROVE DownInv(k)' /\ CountInv(k)'
  BY <1>1, <1>2 DEF Inv, DownInv, CountInv, InFlight, LettingGo
<1> QED
  BY <1>4, <1>5, <1>6 DEF Inv

LEMMA FiresKeepsInv ==
    ASSUME Inv, NEW k \in Key, TimerFires(k)
    PROVE  Inv'
<1>1. /\ pub["task"].pc = "idle" /\ timer[k].active
      /\ pin' = [pin EXCEPT ![k].counter = Counted(k).n]
      /\ pub' = IF Counted(k).type = "none" THEN pub ELSE Publishes("task", k, Counted(k).type)
      /\ UNCHANGED <<level, isr, timer, scan, mutex, queued, told>>
  BY DEF TimerFires
<1>2. pin[k].counter \in 0..2 /\ LongPressCounts = 2
  BY Typed DEF Inv, PinRecord, LongPressCounts
<1>3. \/ pin[k].counter = 0 /\ Counted(k).n = 1 /\ Counted(k).type = "none"
      \/ pin[k].counter = 1 /\ Counted(k).n = 2 /\ Counted(k).type = "Long"
      \/ pin[k].counter = 2 /\ Counted(k).n = 2 /\ Counted(k).type = "Repeat"
  BY <1>2 DEF Counted
<1>4. /\ pin' \in [Key -> PinRecord] /\ pin'[k].state = pin[k].state
      /\ pin'[k].counter = Counted(k).n
      /\ \A j \in Key \ {k} : pin'[j] = pin[j]
  BY <1>1, <1>2, <1>3, Typed DEF Inv, PinRecord
<1>5. /\ pub' \in [Publisher -> PubRecord] /\ pub'["srv"] = pub["srv"]
      /\ Counted(k).type = "none" => pub'["task"] = pub["task"]
      /\ Counted(k).type /= "none" =>
            pub'["task"] = [pc |-> "lock", key |-> k, type |-> Counted(k).type]
  BY <1>1, <1>3, Typed, Publishers DEF Inv, Publishes, PubRecord
<1>6. TypeOK'
  BY <1>1, <1>4, <1>5, Typed, TypedNext DEF Inv
<1>7. PubInv'
  BY <1>1, <1>3, <1>5 DEF Inv, PubInv
<1>8. ASSUME NEW j \in Key PROVE DownInv(j)' /\ CountInv(j)'
  <2>1. CASE j /= k
    BY <1>1, <1>3, <1>4, <1>5, <2>1 DEF Inv, DownInv, CountInv, InFlight, LettingGo
  <2>2. CASE j = k
    <3>1. ~InFlight("srv", k, "Release") /\ ~InFlight("srv", k, "Short")
      BY <1>1 DEF Inv, PubInv, DownInv, LettingGo, InFlight
    <3>2. DownInv(k)'
      BY <1>1, <1>4, <1>5 DEF Inv, DownInv, InFlight, LettingGo
    <3>3. CountInv(k)'
      BY <1>1, <1>2, <1>3, <1>4, <1>5, <3>1 DEF Inv, CountInv, InFlight
    <3> QED
      BY <2>2, <3>2, <3>3
  <2> QED
    BY <2>1, <2>2
<1> QED
  BY <1>6, <1>7, <1>8 DEF Inv

LEMMA TimerPublishedKeepsInv ==
    ASSUME Inv, TimerPublished
    PROVE  Inv'
<1>1. Put("task") /\ "srv" \in Publisher /\ "task" \in Publisher
  BY Publishers DEF TimerPublished
<1>2. /\ pub' = [pub EXCEPT !["task"].pc = "idle"]
      /\ UNCHANGED <<level, isr, pin, timer, scan>>
  BY DEF TimerPublished
<1>3. PICK k \in Key : k = pub["task"].key
  BY <1>1, ToldIs
<1>4. /\ pub["task"].pc = "put" /\ queued' \in 0..QueueSize /\ mutex' = "none"
      /\ pub["task"].type \in {"Long", "Repeat"}
      /\ told' \in [Key -> [down : BOOLEAN, outcomes : Nat]]
      /\ \A j \in Key : j /= k => told'[j] = told[j]
      /\ pub["task"].type = "Repeat" => told'[k] = told[k]
      /\ pub["task"].type = "Long" =>
            told'[k].down = told[k].down /\ told'[k].outcomes = told[k].outcomes + 1
  BY <1>1, <1>3, ToldIs DEF Inv, PubInv
<1>5. /\ pub' \in [Publisher -> PubRecord] /\ pub'["srv"] = pub["srv"]
      /\ pub'["task"].pc = "idle"
  BY <1>1, <1>2, Typed DEF Inv, PubRecord
<1>6. PubInv'
  BY <1>2, <1>5 DEF Inv, PubInv
<1>7. ASSUME NEW j \in Key PROVE DownInv(j)' /\ CountInv(j)'
  <2>1. CASE j /= k
    BY <1>2, <1>3, <1>4, <1>5, <2>1 DEF Inv, DownInv, CountInv, InFlight, LettingGo
  <2>2. CASE j = k
    <3>1. DownInv(k)'
      BY <1>2, <1>4, <1>5 DEF Inv, DownInv, InFlight, LettingGo
    <3>2. ~InFlight("srv", k, "Release")
      BY <1>3, <1>4 DEF Inv, PubInv, DownInv, LettingGo, InFlight
    <3>3. CountInv(k)'
      BY <1>2, <1>3, <1>4, <1>5, <3>2 DEF Inv, CountInv, InFlight
    <3> QED
      BY <2>2, <3>1, <3>3
  <2> QED
    BY <2>1, <2>2
<1>8. TypeOK'
  BY <1>2, <1>4, <1>5, <1>7, ToldTyped, Typed, TypedNext DEF Inv
<1> QED
  BY <1>6, <1>7, <1>8 DEF Inv

LEMMA StepKeepsInv == Inv /\ [Next]_vars => Inv'
<1> SUFFICES ASSUME Inv, [Next]_vars PROVE Inv'
  OBVIOUS
<1>1. CASE Lock("srv") \/ Lock("task") \/ AwaitInterrupt \/ GuiTakes \/ UNCHANGED vars
  BY <1>1, QuietKeepsInv, Publishers
<1>2. CASE ScanKey \/ KeyLetGo \/ Published
  BY <1>2, ScanKeepsInv, LetGoKeepsInv, PublishedKeepsInv
<1>3. CASE TimerCommands \/ TimerPublished
  BY <1>3, CommandsKeepInv, TimerPublishedKeepsInv
<1>4. ASSUME NEW k \in Key, PinMoves(k) \/ TimerFires(k) PROVE Inv'
  BY <1>4, PinMovesKeepsInv, FiresKeepsInv
<1> QED
  BY <1>1, <1>2, <1>3, <1>4 DEF Next, SrvStep

LEMMA InvHolds == Spec => []Inv
BY InitInv, StepKeepsInv, PTL DEF Spec

--------------------------------------------------------------------------------
(* The pins, the timers and the two publishers keep their types; in particular the
   counter of a key never passes the long press. *)
THEOREM TypeCorrect == Spec => []TypeOK
<1>1. Inv => TypeOK
  BY DEF Inv
<1> QED
  BY <1>1, InvHolds, PTL

(* However the keys bounce and whenever the timer task gets its turn, every press is
   told to be either short or long, once, before its Release is put, and the task
   publishes nothing of a key after that. *)
THEOREM EveryPressHasOneOutcome == Spec => []OneOutcome
<1>1. Inv => OneOutcome
  <2> SUFFICES ASSUME Inv PROVE OneOutcome
    OBVIOUS
  <2>1. ASSUME NEW k \in Key
        PROVE  /\ told[k].outcomes <= 1
               /\ pub["srv"].pc = "put" /\ pub["srv"].type = "Release" /\ scan.key = k
                  => told[k].outcomes = 1
    BY DEF Inv, PubInv, CountInv, InFlight
  <2>2. ASSUME pub["task"].pc \in {"lock", "put"}
        PROVE  told[pub["task"].key].down \/ pin[pub["task"].key].state
    <3>1. PICK k \in Key : k = pub["task"].key
      BY Typed, Publishers DEF Inv, PubRecord
    <3>2. timer[k].active
      BY <2>2, <3>1 DEF Inv, PubInv
    <3> QED
      BY <3>1, <3>2 DEF Inv, DownInv, LettingGo
  <2> QED
    BY <2>1, <2>2 DEF OneOutcome
<1> QED
  BY <1>1, InvHolds, PTL
================================================================================
