------------------------- MODULE ExpansionWorkerProofs -------------------------
(***************************************************************************)
(* Proofs about one expansion worker (ExpansionWorker.tla), for buffers and *)
(* chunks of any size, any length of an RPC reply, and whatever the module  *)
(* sends: its session and its serial handle, the token that paces the       *)
(* sender, and that it is the worker which the control thread relies on     *)
(* (ExpansionWorkerLife.tla).                                               *)
(***************************************************************************)
EXTENDS ExpansionWorker, TLAPS

USE WorkerBounds

LineRecord == [held : BOOLEAN, silent : BOOLEAN]
State == {"HandShake", "Connected", "RpcActive"}
Part == {"header", "size", "body", "sum"}

(* The handle is held from the start of the loop to its release. *)
LineInv == line.held <=> pc \notin {"new", "tell", "gone"}

StateInv ==
    /\ pc = "new" => state = "HandShake"
    /\ pc \in {"notify", "close"} => state = "Connected"

(* At every place of the thread: whether a session is open, and the record with it.
   Where the loop is left, a session that could not be opened has a record still. *)
SessionInv ==
    /\ pc \in {"new", "read", "wait", "handle", "notify", "feed"} =>
          /\ rpc.open <=> state = "RpcActive"
          /\ records = IF rpc.open THEN 1 ELSE 0
    /\ pc = "close" => rpc.open /\ records = 1
    /\ pc = "left" =>
          /\ rpc.open => state = "RpcActive"
          /\ records = IF state = "RpcActive" THEN 1 ELSE 0
    /\ pc \in {"release", "tell", "gone"} => ~rpc.open /\ records = 0

(* Only a session that is open has a sender, and it has something left to send. *)
SenderInv == rpc.pc /= "idle" => rpc.open /\ rpc.left > 0

(* Either the token is there or a frame has been begun with it. *)
TokenInv == rpc.token + rpc.unacked <= 1

DecodeInv == decode.got + decode.missing <= LongChunk

Inv == TypeOK /\ LineInv /\ StateInv /\ SessionInv /\ SenderInv /\ TokenInv /\ DecodeInv

--------------------------------------------------------------------------------
(* What the helpers of the model do. *)

LEMMA Typed ==
    ASSUME TypeOK
    PROVE  /\ pc \in Place /\ state \in State /\ reason \in ExitReason /\ flags \in SUBSET WorkerFlag
           /\ rx \in 0..RxSize /\ decode \in DecodeRecord /\ line \in LineRecord
           /\ rpc \in RpcRecord /\ records \in {0, 1} /\ stopped \in BOOLEAN
BY DEF TypeOK, State, LineRecord

(* What is left to prove of a step, part by part. *)
LEMMA InvNext ==
    ASSUME pc' \in Place, state' \in State, reason' \in ExitReason,
           flags' \in SUBSET WorkerFlag, rx' \in 0..RxSize, decode' \in DecodeRecord,
           line' \in LineRecord, rpc' \in RpcRecord, records' \in {0, 1}, stopped' \in BOOLEAN,
           LineInv', StateInv', SessionInv', SenderInv', TokenInv', DecodeInv'
    PROVE  Inv'
BY DEF Inv, TypeOK, State, LineRecord

LEMMA LeastIs ==
    ASSUME NEW a \in Nat, NEW b \in Nat
    PROVE  Least(a, b) \in Nat /\ Least(a, b) <= a /\ Least(a, b) <= b
BY DEF Least

(* What the decoder asks for next. *)
LEMMA WantsIs ==
    ASSUME NEW part \in Part, NEW n \in {1, LongChunk}, NEW f \in FrameType, Wants(part, n, f)
    PROVE  decode' \in DecodeRecord /\ DecodeInv'
BY DEF Wants, DecodeRecord, DecodeInv, Part

LEMMA NextFrameIs ==
    ASSUME Inv, NextFrame
    PROVE  pc' = "read" /\ decode' \in DecodeRecord /\ DecodeInv'
<1>1. decode.frame \in FrameType
  BY Typed DEF Inv, DecodeRecord
<1> QED
  BY <1>1, WantsIs DEF NextFrame, Part

LEMMA SameDecode ==
    ASSUME Inv, decode' = decode
    PROVE  decode' \in DecodeRecord /\ DecodeInv'
BY Typed DEF Inv, DecodeInv

LEMMA PlacesAre ==
    /\ {"read", "wait", "handle", "notify", "feed", "close", "left", "release", "tell", "gone"}
            \subseteq Place
    /\ {"HandShake", "Connected", "RpcActive"} \subseteq State
    /\ {"Unknown", "User", "Error", "Timeout"} \subseteq ExitReason
BY DEF Place, State, ExitReason

LEMMA BoundsAre ==
    /\ RxSize \in Nat /\ RxSize >= 1 /\ StreamSize \in Nat /\ StreamSize >= 1
    /\ MaxReply \in Nat /\ MaxReply >= 1
<1>1. RxSize \in Nat \ {0} /\ StreamSize \in Nat \ {0} /\ MaxReply \in Nat \ {0}
  OBVIOUS
<1> QED
  BY <1>1

LEMMA SessionsAre ==
    /\ NoSession \in RpcRecord /\ ~NoSession.open /\ NoSession.pc = "idle"
    /\ NoSession.token = 0 /\ NoSession.unacked = 0
    /\ NewSession \in RpcRecord /\ NewSession.open /\ NewSession.pc = "idle"
    /\ NewSession.token = 1 /\ NewSession.unacked = 0
<1>1. 0 \in 0..MaxReply /\ 0 \in 0..StreamSize
  BY BoundsAre
<1>2. NoSession \in RpcRecord
  BY <1>1 DEF NoSession, RpcRecord
<1>3. /\ ~NoSession.open /\ NoSession.pc = "idle" /\ NoSession.token = 0 /\ NoSession.unacked = 0
  BY DEF NoSession
<1>4. NewSession \in RpcRecord
  <2>1. PICK b \in BOOLEAN, t \in 0..1, n \in RpcRecord : b = TRUE /\ t = 1 /\ n = NoSession
    <3>1. 1 \in 0..1 /\ TRUE \in BOOLEAN
      OBVIOUS
    <3> QED
      BY <1>2, <3>1, Zenon
  <2>2. NewSession = [n EXCEPT !.open = b, !.token = t]
    BY <2>1 DEF NewSession
  <2> QED
    BY <2>2 DEF RpcRecord
<1>5. /\ NewSession.open /\ NewSession.pc = "idle" /\ NewSession.token = 1
      /\ NewSession.unacked = 0
  BY DEF NoSession, NewSession
<1> QED
  BY <1>2, <1>3, <1>4, <1>5

LEMMA InitInv == Init => Inv
<1> SUFFICES ASSUME Init PROVE Inv
  OBVIOUS
<1>1. /\ pc = "new" /\ state = "HandShake" /\ reason = "Unknown" /\ flags = {} /\ rx = 0
      /\ line = [held |-> FALSE, silent |-> FALSE] /\ rpc = NoSession /\ records = 0
      /\ stopped = FALSE
  BY DEF Init
<1>2. decode \in DecodeRecord /\ DecodeInv
  BY DEF Init, DecodeRecord, DecodeInv, FrameType
<1>3. TypeOK
  <2>1. line \in [held : BOOLEAN, silent : BOOLEAN] /\ stopped \in BOOLEAN
    BY <1>1
  <2>2. pc \in Place /\ reason \in ExitReason /\ state \in {"HandShake", "Connected", "RpcActive"}
    BY <1>1 DEF Place, ExitReason
  <2>3. rx \in 0..RxSize
    BY <1>1, BoundsAre
  <2> QED
    BY <1>1, <1>2, <2>1, <2>2, <2>3, SessionsAre DEF TypeOK
<1> QED
  BY <1>1, <1>2, <1>3, SessionsAre
     DEF Inv, LineInv, StateInv, SessionInv, SenderInv, TokenInv

--------------------------------------------------------------------------------
(* The interrupt, the module, the control thread and the session's thread leave the
   worker where it is. *)

LEMMA OthersKeepInv ==
    ASSUME Inv, RxData \/ RxError \/ ModuleFallsSilent \/ Stop
    PROVE  Inv'
<1>1. /\ UNCHANGED <<pc, state, reason, decode, rpc, records>>
      /\ line' = line \/ line' = [line EXCEPT !.silent = TRUE]
  BY DEF RxData, RxError, ModuleFallsSilent, Stop, others
<1>2. flags' \in SUBSET WorkerFlag
  BY Typed DEF Inv, RxData, RxError, ModuleFallsSilent, Stop, others, WorkerFlag
<1>3. rx' \in 0..RxSize
  <2>1. rx \in 0..RxSize
    BY Typed DEF Inv
  <2>2. CASE RxData
    <3>1. PICK n \in 1..RxSize : rx' = Least(rx + n, RxSize)
      BY <2>2 DEF RxData
    <3>2. rx + n \in Nat /\ RxSize \in Nat
      BY <2>1, BoundsAre
    <3> QED
      BY <3>1, <3>2, LeastIs
  <2>3. CASE UNCHANGED rx
    BY <2>1, <2>3
  <2> QED
    BY <2>2, <2>3 DEF RxError, ModuleFallsSilent, Stop
<1>4. line' \in LineRecord /\ line'.held = line.held
  <2>1. line \in LineRecord
    BY Typed DEF Inv
  <2> QED
    BY <1>1, <2>1 DEF LineRecord
<1>5. stopped' \in BOOLEAN
  BY Typed DEF Inv, RxData, RxError, ModuleFallsSilent, Stop
<1>6. LineInv' /\ StateInv' /\ SessionInv' /\ SenderInv' /\ TokenInv' /\ DecodeInv'
  BY <1>1, <1>4 DEF Inv, LineInv, StateInv, SessionInv, SenderInv, TokenInv, DecodeInv
<1> QED
  BY <1>1, <1>2, <1>3, <1>4, <1>5, <1>6, Typed, InvNext DEF Inv

LEMMA SessionKeepsInv ==
    ASSUME Inv, RpcStep \/ RpcSends
    PROVE  Inv'
<1>1. UNCHANGED <<pc, state, reason, decode, rx, line, records, stopped>>
  BY DEF RpcStep, RpcSends, RpcTakes, RpcGetsToken, RpcTokenTimesOut, RpcTransmits, worker
<1>2. flags' \in SUBSET WorkerFlag
  BY Typed
     DEF Inv, RpcStep, RpcSends, RpcTakes, RpcGetsToken, RpcTokenTimesOut, RpcTransmits, WorkerFlag
<1>3. rpc \in RpcRecord
  BY Typed DEF Inv
<1>4. /\ rpc.stream \in 0..StreamSize /\ rpc.left \in 0..MaxReply /\ rpc.token \in 0..1
      /\ rpc.unacked \in 0..2 /\ rpc.pc \in {"idle", "token", "tx"}
      /\ rpc.token + rpc.unacked <= 1
      /\ rpc.pc /= "idle" => rpc.open /\ rpc.left > 0
  BY <1>3 DEF Inv, SenderInv, TokenInv, RpcRecord
<1>5. PICK p \in {"idle", "token", "tx"}, t \in 0..1, l \in 0..MaxReply, n \in 0..StreamSize,
           u \in 0..2 :
        /\ rpc' = [rpc EXCEPT !.pc = p, !.token = t, !.left = l, !.stream = n, !.unacked = u]
        /\ t + u <= 1
        /\ p /= "idle" => rpc.open /\ l > 0
  <2>0. rpc = [rpc EXCEPT !.pc = rpc.pc, !.token = rpc.token, !.left = rpc.left,
                          !.stream = rpc.stream, !.unacked = rpc.unacked]
    BY <1>3 DEF RpcRecord
  <2>1. CASE RpcTakes
    <3>1. PICK n \in 0..StreamSize : n = rpc.stream - 1
      BY <1>4, <2>1, BoundsAre DEF RpcTakes
    <3>2. rpc' = [rpc EXCEPT !.pc = rpc.pc, !.token = rpc.token, !.left = rpc.left,
                             !.stream = n, !.unacked = rpc.unacked]
      BY <1>3, <2>1, <3>1 DEF RpcTakes, RpcRecord
    <3> QED
      BY <1>4, <3>2
  <2>2. CASE RpcSends
    <3>1. PICK l \in 1..MaxReply : rpc' = [rpc EXCEPT !.pc = "token", !.left = l]
      BY <2>2 DEF RpcSends
    <3>2. rpc' = [rpc EXCEPT !.pc = "token", !.token = rpc.token, !.left = l,
                             !.stream = rpc.stream, !.unacked = rpc.unacked]
      BY <1>3, <3>1 DEF RpcRecord
    <3>3. l \in 0..MaxReply /\ l > 0
      BY <3>1, BoundsAre
    <3>4. rpc.open
      BY <2>2 DEF RpcSends
    <3> QED
      BY <1>4, <3>2, <3>3, <3>4
  <2>3. CASE RpcGetsToken
    <3>1. rpc.unacked = 0 /\ rpc.pc = "token" /\ rpc.unacked + 1 = 1
      BY <1>4, <2>3 DEF RpcGetsToken
    <3>2. rpc' = [rpc EXCEPT !.pc = "tx", !.token = 0, !.left = rpc.left,
                             !.stream = rpc.stream, !.unacked = 1]
      BY <1>3, <2>3, <3>1 DEF RpcGetsToken, RpcRecord
    <3>3. 0 \in 0..1 /\ 1 \in 0..2 /\ 0 + 1 <= 1 /\ "tx" \in {"idle", "token", "tx"}
      OBVIOUS
    <3> QED
      BY <1>4, <3>1, <3>2, <3>3
  <2>4. CASE RpcTokenTimesOut
    <3>1. rpc' = [rpc EXCEPT !.pc = "idle", !.token = rpc.token, !.left = 0,
                             !.stream = rpc.stream, !.unacked = rpc.unacked]
      BY <1>3, <2>4 DEF RpcTokenTimesOut, RpcRecord
    <3>2. 0 \in 0..MaxReply /\ "idle" \in {"idle", "token", "tx"}
      BY BoundsAre
    <3> QED
      BY <1>4, <3>1, <3>2
  <2>5. CASE RpcTransmits
    <3>1. PICK l \in 0..MaxReply : l = rpc.left - 1
      BY <1>4, <2>5, BoundsAre DEF RpcTransmits
    <3>2. PICK p \in {"idle", "token"} : p = IF rpc.left = 1 THEN "idle" ELSE "token"
      OBVIOUS
    <3>3. rpc' = [rpc EXCEPT !.pc = p, !.token = rpc.token, !.left = l,
                             !.stream = rpc.stream, !.unacked = rpc.unacked]
      BY <1>3, <2>5, <3>1, <3>2 DEF RpcTransmits, RpcRecord
    <3>4. rpc.open /\ (p /= "idle" => l > 0)
      BY <1>4, <2>5, <3>1, <3>2, BoundsAre DEF RpcTransmits
    <3> QED
      BY <1>4, <3>3, <3>4
  <2> QED
    BY <2>1, <2>2, <2>3, <2>4, <2>5 DEF RpcStep
<1>6. /\ rpc' \in RpcRecord /\ rpc'.open = rpc.open /\ rpc'.pc = p /\ rpc'.left = l
      /\ rpc'.token = t /\ rpc'.unacked = u
  BY <1>3, <1>5 DEF RpcRecord
<1>7. LineInv' /\ StateInv' /\ SessionInv' /\ DecodeInv' /\ SenderInv' /\ TokenInv'
  BY <1>1, <1>5, <1>6
     DEF Inv, LineInv, StateInv, SessionInv, DecodeInv, SenderInv, TokenInv
<1> QED
  BY <1>1, <1>2, <1>6, <1>7, Typed, InvNext DEF Inv

--------------------------------------------------------------------------------
(* The worker's thread. *)

(* A step that leaves the session, the line and the rest as they are. *)
LEMMA PlaceKeepsInv ==
    ASSUME Inv, UNCHANGED <<state, rpc, records, line, stopped>>,
           reason' \in ExitReason, flags' \in SUBSET WorkerFlag, rx' \in 0..RxSize,
           decode' \in DecodeRecord, DecodeInv',
           \/ /\ pc \in {"new", "read", "wait", "handle", "notify", "feed"}
              /\ pc' \in {"read", "wait", "handle", "feed", "left"}
              /\ pc = "new" => line.held
           \/ pc = "tell" /\ pc' = "gone"
    PROVE  Inv'
<1>1. pc' \in Place
  BY PlacesAre
<1>2. LineInv' /\ StateInv' /\ SessionInv'
  BY DEF Inv, LineInv, StateInv, SessionInv
<1>3. SenderInv' /\ TokenInv'
  BY DEF Inv, SenderInv, TokenInv
<1> QED
  BY <1>1, <1>2, <1>3, Typed, InvNext DEF Inv

LEMMA ReadKeepsInv ==
    ASSUME Inv, Read
    PROVE  Inv'
<1>1. /\ rx \in Nat /\ rx \in 0..RxSize /\ decode \in DecodeRecord
      /\ decode.missing \in 0..LongChunk /\ decode.got \in 0..LongChunk
      /\ decode.part \in Part /\ decode.frame \in FrameType
      /\ decode.got + decode.missing <= LongChunk
  <2>1. rx \in 0..RxSize /\ decode \in DecodeRecord
    BY Typed DEF Inv
  <2> QED
    BY <2>1, BoundsAre DEF DecodeRecord, Part, Inv, DecodeInv
<1>2. PICK n \in Nat : n = Least(rx, decode.missing) /\ n <= rx /\ n <= decode.missing
  <2>1. rx \in Nat /\ decode.missing \in Nat
    BY <1>1
  <2> QED
    BY <2>1, LeastIs
<1>3. /\ pc = "read" /\ rx' = rx - n
      /\ UNCHANGED <<state, rpc, records, line, stopped, reason, flags>>
  BY <1>2 DEF Read, session
<1>4. rx' \in 0..RxSize
  BY <1>1, <1>2, <1>3, BoundsAre
<1>5. decode' \in DecodeRecord /\ DecodeInv' /\ pc' \in {"read", "wait", "handle", "left"}
  <2>1. CASE n < decode.missing
    <3>1. pc' = "wait" /\ decode' = [decode EXCEPT !.missing = decode.missing - n,
                                                   !.got = decode.got + n]
      BY <1>2, <2>1 DEF Read
    <3>2. PICK m \in 0..LongChunk, g \in 0..LongChunk :
            m = decode.missing - n /\ g = decode.got + n /\ g + m <= LongChunk
      BY <1>1, <1>2, <2>1
    <3>3. decode' = [decode EXCEPT !.missing = m, !.got = g]
      BY <3>1, <3>2
    <3>4. decode' \in DecodeRecord /\ decode'.missing = m /\ decode'.got = g
      BY <1>1, <3>3 DEF DecodeRecord
    <3> QED
      BY <3>1, <3>2, <3>4 DEF DecodeInv
  <2>2. ASSUME Leave PROVE pc' = "left" /\ decode' \in DecodeRecord /\ DecodeInv'
    BY <2>2, SameDecode DEF Leave
  <2>3. CASE AfterHeader
    BY <2>2, <2>3, WantsIs DEF AfterHeader, FrameType, Part
  <2>4. CASE AfterSize
    BY <2>2, <2>4, WantsIs DEF AfterSize, FrameType, Part
  <2>5. CASE pc' = "read" /\ Wants("sum", 1, decode.frame)
    BY <1>1, <2>5, WantsIs DEF Part
  <2>6. CASE AfterSum
    BY <2>2, <2>6, SameDecode DEF AfterSum
  <2> QED
    BY <1>2, <2>1, <2>3, <2>4, <2>5, <2>6 DEF Read
<1> QED
  BY <1>3, <1>4, <1>5, Typed, PlaceKeepsInv DEF Inv

LEMMA GiveUpIs ==
    ASSUME Inv, NEW why \in ExitReason, GiveUp(why)
    PROVE  /\ reason' = why /\ pc' \in {"left", "read"}
           /\ decode' \in DecodeRecord /\ DecodeInv'
<1>1. CASE decode.got = 0
  BY <1>1, SameDecode DEF GiveUp, Leave
<1>2. CASE decode.got /= 0
  <2>1. decode' = [decode EXCEPT !.got = 0] /\ pc' = "read" /\ reason' = why
    BY <1>2 DEF GiveUp
  <2>2. decode \in DecodeRecord /\ 0 \in 0..LongChunk
    BY Typed DEF Inv
  <2>3. decode' \in DecodeRecord /\ decode'.missing = decode.missing /\ decode'.got = 0
    BY <2>1, <2>2 DEF DecodeRecord
  <2>4. DecodeInv'
    BY <2>2, <2>3 DEF DecodeInv, DecodeRecord
  <2> QED
    BY <2>1, <2>3, <2>4
<1> QED
  BY <1>1, <1>2

LEMMA WaitKeepsInv ==
    ASSUME Inv, Wakes \/ TimesOut
    PROVE  Inv'
<1>1. pc = "wait" /\ UNCHANGED <<state, rpc, records, line, stopped, rx>>
  BY DEF Wakes, TimesOut, session
<1>2. flags' \in SUBSET WorkerFlag
  BY Typed DEF Inv, Wakes, TimesOut
<1>3. reason' \in ExitReason /\ decode' \in DecodeRecord /\ DecodeInv' /\ pc' \in {"left", "read"}
  <2>1. CASE \E why \in ExitReason : GiveUp(why)
    BY <2>1, GiveUpIs
  <2>2. CASE pc' = "read" /\ UNCHANGED <<reason, decode>>
    BY <2>2, Typed, SameDecode DEF Inv
  <2> QED
    BY <2>1, <2>2, PlacesAre DEF Wakes, TimesOut
<1> QED
  BY <1>1, <1>2, <1>3, Typed, PlaceKeepsInv DEF Inv

(* The handlers that change nothing but the place and the decoder. *)
LEMMA HandlersKeepInv ==
    ASSUME Inv, \/ HandleHeartbeat \/ HandleUnexpected \/ HandleData \/ FeedTimesOut
                \/ Notified \/ TellExit
    PROVE  Inv'
<1>1. UNCHANGED <<state, rpc, records, line, stopped, reason, flags, rx>>
  BY DEF HandleHeartbeat, HandleUnexpected, HandleData, FeedTimesOut, Notified, TellExit,
         session, rest
<1>2. /\ decode' \in DecodeRecord /\ DecodeInv'
      /\ \/ pc \in {"handle", "feed", "notify"} /\ pc' \in {"read", "feed", "left"}
         \/ pc = "tell" /\ pc' = "gone"
  BY NextFrameIs, SameDecode
     DEF HandleHeartbeat, HandleUnexpected, HandleData, FeedTimesOut, Notified, TellExit,
         Leave, Handling
<1> QED
  BY <1>1, <1>2, Typed, PlaceKeepsInv DEF Inv

(* The handlers that change the state, the session or the line. *)
LEMMA StartKeepsInv ==
    ASSUME Inv, Start
    PROVE  Inv'
<1>1. /\ pc = "new" /\ line' = [line EXCEPT !.held = TRUE] /\ NextFrame
      /\ UNCHANGED <<state, rpc, records, reason, flags, rx, stopped>>
  BY DEF Start, rest
<1>2. pc' = "read" /\ decode' \in DecodeRecord /\ DecodeInv'
  BY <1>1, NextFrameIs
<1>3. line' \in LineRecord /\ line'.held
  <2>1. line \in LineRecord
    BY Typed DEF Inv
  <2>2. PICK b \in BOOLEAN : b /\ line' = [line EXCEPT !.held = b]
    BY <1>1
  <2> QED
    BY <2>1, <2>2 DEF LineRecord
<1>4. LineInv' /\ StateInv' /\ SessionInv' /\ SenderInv' /\ TokenInv'
  BY <1>1, <1>2, <1>3 DEF Inv, LineInv, StateInv, SessionInv, SenderInv, TokenInv
<1> QED
  BY <1>1, <1>2, <1>3, <1>4, PlacesAre, Typed, InvNext DEF Inv

LEMMA BaudRateKeepsInv ==
    ASSUME Inv, HandleBaudRate
    PROVE  Inv'
<1>1. /\ pc = "handle" /\ state = "HandShake"
      /\ UNCHANGED <<line, rpc, records, reason, flags, rx, stopped>>
  BY DEF HandleBaudRate, Handling, rest
<1>2. /\ decode' \in DecodeRecord /\ DecodeInv'
      /\ \/ pc' = "read" /\ state' = "HandShake"
         \/ pc' = "notify" /\ state' = "Connected"
  BY <1>1, NextFrameIs, SameDecode DEF HandleBaudRate
<1>3. LineInv' /\ StateInv' /\ SessionInv' /\ SenderInv' /\ TokenInv'
  BY <1>1, <1>2 DEF Inv, LineInv, StateInv, SessionInv, SenderInv, TokenInv
<1> QED
  BY <1>1, <1>2, <1>3, PlacesAre, Typed, InvNext DEF Inv

LEMMA StartRpcKeepsInv ==
    ASSUME Inv, HandleStartRpc
    PROVE  Inv'
<1>1. /\ pc = "handle" /\ state = "Connected" /\ state' = "RpcActive" /\ records' = records + 1
      /\ UNCHANGED <<line, reason, flags, rx, stopped>>
      /\ \/ rpc' = NewSession /\ NextFrame
         \/ rpc' = NoSession /\ Leave
  BY DEF HandleStartRpc, Handling, rest
<1>2. /\ decode' \in DecodeRecord /\ DecodeInv' /\ rpc' \in RpcRecord
      /\ \/ pc' = "read" /\ rpc' = NewSession
         \/ pc' = "left" /\ rpc' = NoSession
  BY <1>1, NextFrameIs, SameDecode, SessionsAre DEF Leave
<1>3. records' = 1
  BY <1>1 DEF Inv, SessionInv
<1>4. LineInv' /\ StateInv' /\ SessionInv' /\ SenderInv' /\ TokenInv'
  BY <1>1, <1>2, <1>3, SessionsAre DEF Inv, LineInv, StateInv, SessionInv, SenderInv, TokenInv
<1> QED
  BY <1>1, <1>2, <1>3, <1>4, PlacesAre, Typed, InvNext DEF Inv

LEMMA StopRpcKeepsInv ==
    ASSUME Inv, HandleStopRpc
    PROVE  Inv'
<1>1. /\ pc = "handle" /\ state = "RpcActive" /\ state' = "Connected" /\ pc' = "close"
      /\ UNCHANGED <<decode, line, rpc, records, reason, flags, rx, stopped>>
  BY DEF HandleStopRpc, Handling, rest
<1>2. LineInv' /\ StateInv' /\ SessionInv' /\ SenderInv' /\ TokenInv'
  BY <1>1 DEF Inv, LineInv, StateInv, SessionInv, SenderInv, TokenInv
<1> QED
  BY <1>1, <1>2, SameDecode, PlacesAre, Typed, InvNext DEF Inv

(* A status, or what is fed to the session, changes its token or its stream only. *)
LEMMA FedKeepsInv ==
    ASSUME Inv, HandleStatus \/ Fed
    PROVE  Inv'
<1>1. /\ pc \in {"handle", "feed"} /\ NextFrame
      /\ UNCHANGED <<state, records, line, reason, flags, rx, stopped>>
  BY DEF HandleStatus, Fed, Handling, rest
<1>2. pc' = "read" /\ decode' \in DecodeRecord /\ DecodeInv'
  BY <1>1, NextFrameIs
<1>3. rpc \in RpcRecord
  BY Typed DEF Inv
<1>4. /\ rpc' \in RpcRecord /\ rpc'.open = rpc.open /\ rpc'.pc = rpc.pc /\ rpc'.left = rpc.left
      /\ TokenInv'
  <2>1. CASE HandleStatus
    <3>0. 1 \in 0..1 /\ 0 \in 0..2
      OBVIOUS
    <3>1. rpc' = [rpc EXCEPT !.token = 1, !.unacked = 0]
      BY <2>1 DEF HandleStatus
    <3>2. /\ rpc' \in RpcRecord /\ rpc'.open = rpc.open /\ rpc'.pc = rpc.pc
          /\ rpc'.left = rpc.left /\ rpc'.token = 1 /\ rpc'.unacked = 0
      BY <1>3, <3>0, <3>1 DEF RpcRecord
    <3> QED
      BY <3>2 DEF TokenInv
  <2>2. CASE rpc' = rpc
    BY <1>3, <2>2 DEF Inv, TokenInv
  <2>3. CASE rpc.stream < StreamSize /\ rpc' = [rpc EXCEPT !.stream = rpc.stream + 1]
    <3>1. PICK n \in 0..StreamSize : n = rpc.stream + 1
      <4>1. rpc.stream \in 0..StreamSize
        BY <1>3 DEF RpcRecord
      <4> QED
        BY <2>3, <4>1, BoundsAre
    <3>2. rpc' = [rpc EXCEPT !.stream = n]
      BY <2>3, <3>1
    <3>3. /\ rpc' \in RpcRecord /\ rpc'.open = rpc.open /\ rpc'.pc = rpc.pc
          /\ rpc'.left = rpc.left /\ rpc'.token = rpc.token /\ rpc'.unacked = rpc.unacked
      BY <1>3, <3>2 DEF RpcRecord
    <3> QED
      BY <3>3 DEF Inv, TokenInv
  <2> QED
    BY <2>1, <2>2, <2>3 DEF Fed
<1>5. LineInv' /\ StateInv' /\ SessionInv' /\ SenderInv'
  BY <1>1, <1>2, <1>4 DEF Inv, LineInv, StateInv, SessionInv, SenderInv
<1> QED
  BY <1>1, <1>2, <1>4, <1>5, PlacesAre, Typed, InvNext DEF Inv

(* The session is closed while no sender is in its callback. *)
LEMMA CloseIs ==
    ASSUME Inv, CloseSession
    PROVE  /\ rpc' \in RpcRecord /\ ~rpc'.open /\ rpc'.pc = "idle" /\ TokenInv'
           /\ records' = records - 1
<1>1. rpc.pc = "idle" /\ rpc \in RpcRecord /\ records' = records - 1
  BY Typed DEF Inv, CloseSession, MutexFree
<1>2. PICK l \in 0..MaxReply, n \in RpcRecord : l = rpc.left /\ n = NoSession
  BY <1>1, SessionsAre DEF RpcRecord
<1>3. rpc' = [n EXCEPT !.pc = "idle", !.left = l]
  BY <1>1, <1>2 DEF CloseSession
<1>4. /\ rpc' \in RpcRecord /\ rpc'.open = n.open /\ rpc'.pc = "idle"
      /\ rpc'.token = n.token /\ rpc'.unacked = n.unacked
  BY <1>3 DEF RpcRecord
<1> QED
  BY <1>1, <1>2, <1>4, SessionsAre DEF TokenInv

LEMMA CloseKeepsInv ==
    ASSUME Inv, Close
    PROVE  Inv'
<1>1. /\ pc = "close" /\ CloseSession /\ NextFrame
      /\ UNCHANGED <<state, line, reason, flags, rx, stopped>>
  BY DEF Close, rest
<1>2. pc' = "read" /\ decode' \in DecodeRecord /\ DecodeInv'
  BY <1>1, NextFrameIs
<1>3. /\ rpc' \in RpcRecord /\ ~rpc'.open /\ rpc'.pc = "idle" /\ TokenInv' /\ records' = 0
      /\ state' = "Connected"
  BY <1>1, CloseIs DEF Inv, SessionInv, StateInv
<1>4. LineInv' /\ StateInv' /\ SessionInv' /\ SenderInv'
  BY <1>1, <1>2, <1>3 DEF Inv, LineInv, StateInv, SessionInv, SenderInv
<1> QED
  BY <1>1, <1>2, <1>3, <1>4, PlacesAre, Typed, InvNext DEF Inv

LEMMA LeftKeepsInv ==
    ASSUME Inv, Left
    PROVE  Inv'
<1>1. /\ pc = "left" /\ pc' = "release"
      /\ UNCHANGED <<state, decode, line, reason, flags, rx, stopped>>
      /\ IF state = "RpcActive" THEN CloseSession ELSE UNCHANGED <<rpc, records>>
  BY DEF Left, rest
<1>2. /\ rpc' \in RpcRecord /\ ~rpc'.open /\ rpc'.pc = "idle" /\ TokenInv' /\ records' = 0
  <2>1. CASE state = "RpcActive"
    BY <1>1, <2>1, CloseIs DEF Inv, SessionInv
  <2>2. CASE state /= "RpcActive"
    <3>1. ~rpc.open /\ rpc.pc = "idle" /\ records = 0
      BY <1>1, <2>2 DEF Inv, SessionInv, SenderInv
    <3> QED
      BY <1>1, <2>2, <3>1, Typed DEF Inv, TokenInv
  <2> QED
    BY <2>1, <2>2
<1>3. LineInv' /\ StateInv' /\ SessionInv' /\ SenderInv'
  BY <1>1, <1>2 DEF Inv, LineInv, StateInv, SessionInv, SenderInv
<1> QED
  BY <1>1, <1>2, <1>3, SameDecode, PlacesAre, Typed, InvNext DEF Inv

LEMMA ReleaseKeepsInv ==
    ASSUME Inv, Release
    PROVE  Inv'
<1>1. /\ pc = "release" /\ pc' \in {"gone", "tell"} /\ line' = [line EXCEPT !.held = FALSE]
      /\ UNCHANGED <<state, decode, rpc, records, reason, flags, rx, stopped>>
  BY DEF Release, rest
<1>2. line' \in LineRecord /\ ~line'.held
  <2>1. line \in LineRecord
    BY Typed DEF Inv
  <2>2. PICK b \in BOOLEAN : ~b /\ line' = [line EXCEPT !.held = b]
    BY <1>1
  <2> QED
    BY <2>1, <2>2 DEF LineRecord
<1>3. LineInv' /\ StateInv' /\ SessionInv' /\ SenderInv' /\ TokenInv'
  BY <1>1, <1>2 DEF Inv, LineInv, StateInv, SessionInv, SenderInv, TokenInv
<1> QED
  BY <1>1, <1>2, <1>3, SameDecode, PlacesAre, Typed, InvNext DEF Inv

--------------------------------------------------------------------------------
(* Every step keeps the invariant. *)

LEMMA StepKeepsInv == Inv /\ [Next]_vars => Inv'
<1> SUFFICES ASSUME Inv, [Next]_vars PROVE Inv'
  OBVIOUS
<1>1. CASE UNCHANGED vars
  <2>1. UNCHANGED <<pc, state, reason, flags, rx, decode, line, rpc, records, stopped>>
    BY <1>1 DEF vars
  <2>2. LineInv' /\ StateInv' /\ SessionInv' /\ SenderInv' /\ TokenInv'
    BY <2>1 DEF Inv, LineInv, StateInv, SessionInv, SenderInv, TokenInv
  <2> QED
    BY <2>1, <2>2, SameDecode, Typed, InvNext DEF Inv
<1>2. CASE WorkerStep
  BY <1>2, StartKeepsInv, ReadKeepsInv, WaitKeepsInv, BaudRateKeepsInv, HandlersKeepInv,
     StartRpcKeepsInv, StopRpcKeepsInv, FedKeepsInv, CloseKeepsInv, LeftKeepsInv, ReleaseKeepsInv
     DEF WorkerStep
<1>3. CASE RpcStep \/ RpcSends
  BY <1>3, SessionKeepsInv
<1>4. CASE RxData \/ RxError \/ ModuleFallsSilent \/ Stop
  BY <1>4, OthersKeepInv
<1>5. CASE Ended
  BY <1>1, <1>5 DEF Ended
<1> QED
  BY <1>1, <1>2, <1>3, <1>4, <1>5 DEF Next

LEMMA InvHolds == Spec => []Inv
<1>1. Init => Inv
  BY InitInv
<1>2. Inv /\ [Next]_vars => Inv'
  BY StepKeepsInv
<1> QED
  BY <1>1, <1>2, PTL DEF Spec

--------------------------------------------------------------------------------
(* The worker implements what the control thread relies on. *)

(* Nothing that the control thread sees changes. *)
LEMMA Stutters ==
    ASSUME Phase' = Phase, "Stop" \in flags' <=> "Stop" \in flags,
           reason' = "User" <=> reason = "User"
    PROVE  UNCHANGED Life!vars
BY DEF Life!vars

(* The phases in which the worker talks to the module. *)
LEMMA TalkingIs ==
    ASSUME pc \in {"read", "wait", "handle", "feed", "close"}
    PROVE  /\ Phase = IF state = "HandShake" THEN "handshake" ELSE "connected"
           /\ Life!Talking
BY DEF Phase, Life!Talking

LEMMA TalkingNext ==
    ASSUME pc' \in {"read", "wait", "handle", "feed", "close"}
    PROVE  Phase' = IF state' = "HandShake" THEN "handshake" ELSE "connected"
BY DEF Phase

(* A step of the loop that leaves the flags as they are: on, or out of it. *)
LEMMA LoopImplements ==
    ASSUME pc \in {"read", "wait", "handle", "feed", "close"}, UNCHANGED <<reason, flags>>,
           \/ /\ pc' \in {"read", "wait", "handle", "feed", "close"}
              /\ state' = "HandShake" <=> state = "HandShake"
           \/ pc' = "left"
    PROVE  [Life!Next]_Life!vars
<1>1. CASE pc' = "left"
  <2>1. Life!Talking /\ Phase' = "release"
    BY <1>1, TalkingIs DEF Phase
  <2>2. Life!Fails
    BY <2>1 DEF Life!Fails
  <2> QED
    BY <2>2 DEF Life!Next
<1>2. CASE /\ pc' \in {"read", "wait", "handle", "feed", "close"}
           /\ state' = "HandShake" <=> state = "HandShake"
  BY <1>2, TalkingIs, TalkingNext, Stutters
<1> QED
  BY <1>1, <1>2

LEMMA GiveUpImplements ==
    ASSUME Inv, pc = "wait", NEW why \in ExitReason, GiveUp(why), UNCHANGED state,
           \/ why = "User" /\ "Stop" \in flags /\ "Stop" \notin flags'
           \/ why /= "User" /\ ("Stop" \in flags <=> "Stop" \in flags')
    PROVE  [Life!Next]_Life!vars
<1>1. reason' = why /\ pc' \in {"left", "read"}
  BY GiveUpIs
<1>2. Life!Talking /\ Phase' \in {Phase, "release"}
  <2>1. CASE pc' = "left"
    BY <2>1, TalkingIs DEF Phase
  <2>2. CASE pc' = "read"
    BY <2>2, TalkingIs, TalkingNext
  <2> QED
    BY <1>1, <2>1, <2>2
<1>3. CASE why = "User"
  <2>1. Life!SeesStop
    BY <1>1, <1>2, <1>3 DEF Life!SeesStop
  <2> QED
    BY <2>1 DEF Life!Next
<1>4. CASE why /= "User"
  <2>1. Life!TimesOut
    BY <1>1, <1>2, <1>4 DEF Life!TimesOut
  <2> QED
    BY <2>1 DEF Life!Next
<1> QED
  BY <1>3, <1>4

LEMMA WaitImplements ==
    ASSUME Inv, Wakes \/ TimesOut
    PROVE  [Life!Next]_Life!vars
<1>1. pc = "wait" /\ UNCHANGED state
  BY DEF Wakes, TimesOut, session
<1>2. "User" \in ExitReason /\ "Error" \in ExitReason /\ "Timeout" \in ExitReason
  BY PlacesAre
<1>3. CASE Wakes
  <2>1. "Stop" \notin flags'
    BY <1>3 DEF Wakes
  <2>2. CASE "Stop" \in flags /\ GiveUp("User")
    BY <1>1, <1>2, <2>1, <2>2, GiveUpImplements
  <2>3. CASE "Stop" \notin flags /\ GiveUp("Error")
    BY <1>1, <1>2, <2>1, <2>3, GiveUpImplements
  <2>4. CASE "Stop" \notin flags /\ pc' = "read" /\ UNCHANGED reason
    BY <1>1, <2>1, <2>4, TalkingIs, TalkingNext, Stutters
  <2> QED
    BY <1>3, <2>2, <2>3, <2>4 DEF Wakes
<1>4. CASE TimesOut
  <2>1. GiveUp("Timeout") /\ UNCHANGED flags
    BY <1>4 DEF TimesOut
  <2> QED
    BY <1>1, <1>2, <2>1, GiveUpImplements
<1> QED
  BY <1>3, <1>4

LEMMA HandlersImplement ==
    ASSUME Inv, \/ Read \/ HandleHeartbeat \/ HandleUnexpected \/ HandleData \/ FeedTimesOut
                \/ HandleStartRpc \/ HandleStopRpc \/ HandleStatus \/ Fed \/ Close
    PROVE  [Life!Next]_Life!vars
<1>1. CASE Read
  <2>1. pc = "read" /\ UNCHANGED <<state, reason, flags>>
    BY <1>1 DEF Read, session
  <2>2. pc' \in {"wait", "read", "left", "handle"}
    BY <1>1 DEF Read, AfterHeader, AfterSize, AfterSum, Leave
  <2> QED
    BY <2>1, <2>2, LoopImplements
<1>2. CASE HandleHeartbeat \/ HandleUnexpected \/ HandleData \/ FeedTimesOut
  <2>1. pc \in {"handle", "feed"} /\ pc' \in {"read", "feed", "left"}
        /\ UNCHANGED <<state, reason, flags>>
    BY <1>2 DEF HandleHeartbeat, HandleUnexpected, HandleData, FeedTimesOut, Handling, NextFrame,
                Leave, session, rest
  <2> QED
    BY <2>1, LoopImplements
<1>3. CASE HandleStartRpc \/ HandleStopRpc
  <2>1. /\ pc = "handle" /\ pc' \in {"read", "left", "close"} /\ UNCHANGED <<reason, flags>>
        /\ state /= "HandShake" /\ state' /= "HandShake"
    BY <1>3 DEF HandleStartRpc, HandleStopRpc, Handling, NextFrame, Leave, rest
  <2> QED
    BY <2>1, LoopImplements
<1>4. CASE HandleStatus \/ Fed \/ Close
  <2>1. pc \in {"handle", "feed", "close"} /\ pc' = "read" /\ UNCHANGED <<state, reason, flags>>
    BY <1>4 DEF HandleStatus, Fed, Close, Handling, NextFrame, rest
  <2> QED
    BY <2>1, LoopImplements
<1> QED
  BY <1>1, <1>2, <1>3, <1>4

(* From its start to the loop, and from the loop to its end. *)
LEMMA EndsImplement ==
    ASSUME Inv, \/ Start \/ HandleBaudRate \/ Notified \/ Left \/ Release \/ TellExit
    PROVE  [Life!Next]_Life!vars
<1>1. UNCHANGED <<reason, flags>>
  BY DEF Start, HandleBaudRate, Notified, Left, Release, TellExit, rest
<1>2. CASE Start
  <2>1. pc = "new" /\ pc' = "read" /\ state = "HandShake" /\ state' = "HandShake"
    BY <1>2 DEF Start, NextFrame, Inv, StateInv
  <2>2. Phase = "new" /\ Phase' = "handshake"
    BY <2>1 DEF Phase
  <2>3. Life!Goes("new", "handshake")
    BY <1>1, <2>2 DEF Life!Goes
  <2> QED
    BY <2>3 DEF Life!Next
<1>3. CASE HandleBaudRate
  <2>1. pc = "handle" /\ state = "HandShake"
        /\ (pc' = "notify" \/ (pc' = "read" /\ state' = "HandShake"))
    BY <1>3 DEF HandleBaudRate, Handling, NextFrame
  <2>2. CASE pc' = "notify"
    <3>1. Phase = "handshake" /\ Phase' = "putConnected"
      BY <2>1, <2>2 DEF Phase
    <3>2. Life!Goes("handshake", "putConnected")
      BY <1>1, <3>1 DEF Life!Goes
    <3> QED
      BY <3>2 DEF Life!Next
  <2>3. CASE pc' = "read" /\ state' = "HandShake"
    BY <1>1, <2>1, <2>3, LoopImplements
  <2> QED
    BY <2>1, <2>2, <2>3
<1>4. CASE Notified
  <2>1. pc = "notify" /\ pc' = "read" /\ state' = "Connected"
    BY <1>4 DEF Notified, NextFrame, Inv, StateInv
  <2>2. Phase = "putConnected" /\ Phase' = "connected"
    BY <2>1 DEF Phase
  <2>3. Life!Goes("putConnected", "connected")
    BY <1>1, <2>2 DEF Life!Goes
  <2> QED
    BY <2>3 DEF Life!Next
<1>5. CASE Left
  <2>1. Phase = "release" /\ Phase' = "release"
    BY <1>5 DEF Left, Phase
  <2> QED
    BY <1>1, <2>1, Stutters
<1>6. CASE Release
  <2>1. Phase = "release" /\ Phase' = IF reason = "User" THEN "gone" ELSE "putExit"
    BY <1>6 DEF Release, Phase
  <2>2. Life!Goes("release", IF reason = "User" THEN "gone" ELSE "putExit")
    BY <1>1, <2>1 DEF Life!Goes
  <2> QED
    BY <2>2 DEF Life!Next
<1>7. CASE TellExit
  <2>1. Phase = "putExit" /\ Phase' = "gone"
    BY <1>7 DEF TellExit, Phase
  <2>2. Life!Goes("putExit", "gone")
    BY <1>1, <2>1 DEF Life!Goes
  <2> QED
    BY <2>2 DEF Life!Next
<1> QED
  BY <1>2, <1>3, <1>4, <1>5, <1>6, <1>7

(* The other threads: only expansion_worker_stop is seen. *)
LEMMA OthersImplement ==
    ASSUME RpcStep \/ RpcSends \/ RxData \/ RxError \/ ModuleFallsSilent \/ Stop
    PROVE  [Life!Next]_Life!vars
<1>1. UNCHANGED <<pc, state, reason>>
  BY DEF RpcStep, RpcSends, RpcTakes, RpcGetsToken, RpcTokenTimesOut, RpcTransmits, worker,
         RxData, RxError, ModuleFallsSilent, Stop, others
<1>2. Phase' = Phase
  BY <1>1 DEF Phase
<1>3. CASE Stop /\ pc /= "gone"
  <2>1. flags' = flags \union {"Stop"}
    BY <1>3 DEF Stop
  <2>2. Phase /= "gone"
    BY <1>3 DEF Phase
  <2>3. Life!Stop
    BY <1>1, <1>2, <2>1, <2>2 DEF Life!Stop
  <2> QED
    BY <2>3 DEF Life!Next
<1>4. CASE ~(Stop /\ pc /= "gone")
  <2>1. "Stop" \in flags' <=> "Stop" \in flags
    BY <1>4 DEF RpcStep, RpcSends, RpcTakes, RpcGetsToken, RpcTokenTimesOut, RpcTransmits,
                RxData, RxError, ModuleFallsSilent, Stop
  <2> QED
    BY <1>1, <1>2, <2>1, Stutters
<1> QED
  BY <1>3, <1>4

LEMMA StepImplements == Inv /\ [Next]_vars => [Life!Next]_Life!vars
<1> SUFFICES ASSUME Inv, [Next]_vars PROVE [Life!Next]_Life!vars
  OBVIOUS
<1>1. CASE UNCHANGED vars
  <2>1. UNCHANGED <<pc, state, reason, flags>>
    BY <1>1 DEF vars
  <2>2. Phase' = Phase
    BY <2>1 DEF Phase
  <2> QED
    BY <2>1, <2>2, Stutters
<1>2. CASE WorkerStep
  BY <1>2, WaitImplements, HandlersImplement, EndsImplement DEF WorkerStep
<1>3. CASE Ended
  BY <1>1, <1>3 DEF Ended
<1>4. CASE RpcStep \/ RpcSends \/ RxData \/ RxError \/ ModuleFallsSilent \/ Stop
  BY <1>4, OthersImplement
<1> QED
  BY <1>1, <1>2, <1>3, <1>4 DEF Next

--------------------------------------------------------------------------------
(* The theorems. *)

(* Type correctness of struct ExpansionWorker, of the decoder and of the session: the
   decoder never asks for more bytes than its frame has room for, and the session's
   stream is not overrun (expansion_worker.c, expansion_protocol.h). *)
THEOREM TypeCorrect == Spec => []TypeOK
BY InvHolds, PTL DEF Inv

(* expansion_worker_rpc_send_callback uses the semaphore of a session that is open and
   a serial handle that is held: expansion_worker_rpc_session_close waits for it, and
   the handle is released after that, whatever made the worker leave. *)
THEOREM SenderFindsWhatItUses == Spec => []SenderIsSafe
<1>1. Inv => SenderIsSafe
  <2> SUFFICES ASSUME Inv, rpc.pc /= "idle" PROVE rpc.open /\ line.held
    BY DEF SenderIsSafe
  <2>1. rpc.open
    BY DEF Inv, SenderInv
  <2>2. pc \notin {"new", "tell", "gone"}
    BY <2>1 DEF Inv, SessionInv, StateInv
  <2> QED
    BY <2>1, <2>2 DEF Inv, LineInv
<1> QED
  BY <1>1, InvHolds, PTL

(* Every path out of the state handlers and of the loop closes the session and gives
   RECORD_RPC back, the one of a session that rpc_session_open refused too. *)
THEOREM SessionGetsClosed == Spec => []SessionIsClosed
<1>1. Inv => SessionIsClosed
  BY DEF Inv, SessionInv, SessionIsClosed
<1> QED
  BY <1>1, InvHolds, PTL

(* expansion_worker_rpc_send_callback takes tx_semaphore before each frame, and a wait
   that times out ends the message: no second frame is begun without a status. *)
THEOREM FramesArePaced == Spec => []OneFrameInFlight
<1>1. Inv => OneFrameInFlight
  <2> SUFFICES ASSUME Inv PROVE rpc.unacked <= 1
    BY DEF OneFrameInFlight
  <2>1. rpc.token \in 0..1 /\ rpc.unacked \in 0..2
    BY Typed DEF Inv, RpcRecord
  <2> QED
    BY <2>1 DEF Inv, TokenInv
<1> QED
  BY <1>1, InvHolds, PTL

(* The thread that expansion_worker.c runs is, for the control thread that starts it,
   stops it and is called back by it, the worker of Expansion.tla: it never calls back
   twice, nor after an exit that was asked for, and it is gone once it has. *)
THEOREM WorkerImplementsLife == Spec => ImplementsLife
<1>1. Init => Life!Init
  <2> SUFFICES ASSUME Init PROVE Life!Init
    OBVIOUS
  <2>1. pc = "new" /\ flags = {} /\ reason = "Unknown"
    BY DEF Init
  <2>2. Phase = "new"
    BY <2>1 DEF Phase
  <2> QED
    BY <2>1, <2>2 DEF Life!Init
<1>2. Inv /\ [Next]_vars => [Life!Next]_Life!vars
  BY StepImplements
<1> QED
  BY <1>1, <1>2, InvHolds, PTL DEF Spec, ImplementsLife, Life!Spec
================================================================================
