---------------------------- MODULE ExpansionWorker ----------------------------
(***************************************************************************)
(* One expansion worker from its start to its end: the thread of           *)
(* applications/services/expansion/expansion_worker.c with the decoder of  *)
(* expansion_protocol.h it runs on, the UART interrupt that feeds it, the  *)
(* thread of the RPC session it opens (seen from its send callback), the   *)
(* control thread that may stop it at any time, and a module that may send *)
(* anything at all.                                                        *)
(*                                                                         *)
(* Bytes are counted, not named: what a byte says is chosen when the code  *)
(* looks at it. A chunk is what one call of the receive callback asks for. *)
(***************************************************************************)
EXTENDS Naturals, FiniteSets

CONSTANTS
    RxSize,      \* capacity of rx_buf, in bytes
    LongChunk,   \* size of a chunk of more than one byte
    StreamSize,  \* capacity of the RPC session's stream, in data frames
    MaxReply     \* bound: the data frames of one RPC message

ASSUME WorkerBounds ==
    /\ {RxSize, StreamSize, MaxReply} \subseteq Nat \ {0}
    /\ LongChunk \in Nat /\ LongChunk > 1

VARIABLES
    pc,      \* where the worker thread is
    state,   \* ExpansionWorker.state
    reason,  \* ExpansionWorker.exit_reason
    flags,   \* the pending thread flags of the worker
    rx,      \* bytes in rx_buf
    decode,  \* expansion_protocol_decode: the chunk it waits for
    line,    \* the serial line: the handle is held, the module has fallen silent
    rpc,     \* the RPC session and the thread that sends for it
    records, \* how often the worker has RECORD_RPC open
    stopped  \* expansion_worker_stop was called

vars == <<pc, state, reason, flags, rx, decode, line, rpc, records, stopped>>

WorkerFlag == {"Stop", "Data", "Error"}
ExitReason == {"Unknown", "User", "Error", "Timeout"}
FrameType  == {"Heartbeat", "Status", "BaudRate", "Control", "Data"}

(* new: before the handle is acquired; read, wait: in the receive callback;
   handle: a frame is decoded; notify: in the Connected callback; feed: in
   rpc_session_feed; close: in rpc_session_close; left: out of the loop;
   release: only the handle is left to give back; tell: in the Exit callback. *)
Place == {"new", "read", "wait", "handle", "notify", "feed", "close", "left",
          "release", "tell", "gone"}

DecodeRecord == [part : {"header", "size", "body", "sum"}, missing : 0..LongChunk,
                 got : 0..LongChunk, frame : FrameType]

(* A session is open or not; its sender is idle, waits for the token (the
   tx_semaphore), or transmits a frame, in both cases inside the callbacks_mutex
   of the session. unacked counts the frames that were begun since the last
   Status frame. *)
RpcRecord == [open : BOOLEAN, pc : {"idle", "token", "tx"}, token : 0..1,
              left : 0..MaxReply, stream : 0..StreamSize, unacked : 0..2]

NoSession == [open |-> FALSE, pc |-> "idle", token |-> 0, left |-> 0,
              stream |-> 0, unacked |-> 0]

Least(a, b) == IF a < b THEN a ELSE b

Init ==
    /\ pc = "new"
    /\ state = "HandShake" /\ reason = "Unknown"
    /\ flags = {} /\ rx = 0
    /\ decode = [part |-> "header", missing |-> 1, got |-> 0, frame |-> "Heartbeat"]
    /\ line = [held |-> FALSE, silent |-> FALSE]
    /\ rpc = NoSession /\ records = 0
    /\ stopped = FALSE

--------------------------------------------------------------------------------
(* The interrupt, the module and the control thread. *)

others == <<pc, state, reason, decode, rpc, records>>

(* expansion_worker_serial_rx_callback: bytes that find no room are dropped. *)
RxData ==
    /\ line.held /\ ~line.silent
    /\ \E n \in 1..RxSize : rx' = Least(rx + n, RxSize)
    /\ flags' = flags \union {"Data"}
    /\ UNCHANGED <<others, line, stopped>>

RxError ==
    /\ line.held /\ ~line.silent
    /\ flags' = flags \union {"Error"}
    /\ UNCHANGED <<others, line, rx, stopped>>

ModuleFallsSilent ==
    /\ ~line.silent
    /\ line' = [line EXCEPT !.silent = TRUE]
    /\ UNCHANGED <<others, flags, rx, stopped>>

(* expansion_worker_stop sets the flag, then joins. *)
Stop ==
    /\ ~stopped
    /\ stopped' = TRUE
    /\ flags' = IF pc = "gone" THEN flags ELSE flags \union {"Stop"}
    /\ UNCHANGED <<others, line, rx>>

--------------------------------------------------------------------------------
(* expansion_worker_receive_callback and expansion_protocol_decode. *)

session == <<state, rpc, records, line, stopped>>

(* The decoder asks for the n bytes of a part. *)
Wants(part, n, frame) ==
    decode' = [part |-> part, missing |-> n, got |-> 0, frame |-> frame]

NextFrame == pc' = "read" /\ Wants("header", 1, decode.frame)
Leave == pc' = "left" /\ UNCHANGED decode

(* What follows a chunk that has been received in full. *)
AfterHeader ==
    \/ Leave
    \/ pc' = "read" /\ \E f \in FrameType :
          \/ f = "Heartbeat" /\ Wants("sum", 1, f)
          \/ f \in {"Status", "Control"} /\ Wants("body", 1, f)
          \/ f = "BaudRate" /\ Wants("body", LongChunk, f)
          \/ f = "Data" /\ Wants("size", 1, f)

AfterSize ==
    \/ Leave
    \/ pc' = "read" /\ (Wants("sum", 1, "Data") \/ Wants("body", LongChunk, "Data"))

AfterSum == Leave \/ (pc' = "handle" /\ UNCHANGED decode)

(* furi_stream_buffer_receive with no timeout takes what there is. *)
Read ==
    LET n == Least(rx, decode.missing)
    IN  /\ pc = "read"
        /\ rx' = rx - n
        /\ IF n < decode.missing
           THEN /\ pc' = "wait"
                /\ decode' = [decode EXCEPT !.missing = @ - n, !.got = @ + n]
           ELSE \/ decode.part = "header" /\ AfterHeader
                \/ decode.part = "size" /\ AfterSize
                \/ decode.part = "body" /\ pc' = "read" /\ Wants("sum", 1, decode.frame)
                \/ decode.part = "sum" /\ AfterSum
        /\ UNCHANGED <<session, reason, flags>>

(* The callback returns what it has got of a chunk. With nothing the decoder
   gives up; with a part of a chunk it asks for the rest of it. *)
GiveUp(why) ==
    /\ reason' = why
    /\ IF decode.got = 0
       THEN Leave
       ELSE /\ pc' = "read"
            /\ decode' = [decode EXCEPT !.got = 0]

(* furi_thread_flags_wait for Stop or Data, which it clears; it returns an
   Error flag along with them, and leaves it pending. *)
Wakes ==
    /\ pc = "wait"
    /\ flags \intersect {"Stop", "Data"} /= {}
    /\ flags' = flags \ {"Stop", "Data"}
    /\ \/ "Stop" \in flags /\ GiveUp("User")
       \/ "Stop" \notin flags /\ "Error" \in flags /\ GiveUp("Error")
       \/ /\ flags \intersect {"Stop", "Error"} = {}
          /\ pc' = "read"
          /\ UNCHANGED <<reason, decode>>
    /\ UNCHANGED <<session, rx>>

(* EXPANSION_PROTOCOL_TIMEOUT_MS of silence. *)
TimesOut ==
    /\ pc = "wait"
    /\ flags \intersect {"Stop", "Data"} = {}
    /\ GiveUp("Timeout")
    /\ UNCHANGED <<session, rx, flags>>

--------------------------------------------------------------------------------
(* The state handlers. *)

Handling(s, frames) == pc = "handle" /\ state = s /\ decode.frame \in frames

rest == <<reason, flags, rx, stopped>>

(* The handle is acquired, reception started, a heartbeat sent. *)
Start ==
    /\ pc = "new"
    /\ line' = [line EXCEPT !.held = TRUE]
    /\ NextFrame
    /\ UNCHANGED <<state, rpc, records, rest>>

HandleBaudRate ==
    /\ Handling("HandShake", {"BaudRate"})
    /\ \/ /\ state' = "Connected"
          /\ pc' = "notify"
          /\ UNCHANGED decode
       \/ NextFrame /\ UNCHANGED state
    /\ UNCHANGED <<line, rpc, records, rest>>

(* The Connected callback returns; the status is sent. *)
Notified ==
    /\ pc = "notify"
    /\ NextFrame
    /\ UNCHANGED <<state, line, rpc, records, rest>>

HandleHeartbeat ==
    /\ pc = "handle" /\ state /= "HandShake" /\ decode.frame = "Heartbeat"
    /\ NextFrame
    /\ UNCHANGED <<session, rest>>

NewSession == [NoSession EXCEPT !.open = TRUE, !.token = 1]

(* A start command; rpc_session_open gives no session on a locked device. *)
HandleStartRpc ==
    /\ Handling("Connected", {"Control"})
    /\ state' = "RpcActive"
    /\ records' = records + 1
    /\ \/ rpc' = NewSession /\ NextFrame
       \/ rpc' = NoSession /\ Leave
    /\ UNCHANGED <<line, rest>>

(* A frame, or a command, that the state has no use for. *)
HandleUnexpected ==
    /\ \/ Handling("HandShake", FrameType \ {"BaudRate"})
       \/ Handling("Connected", FrameType \ {"Heartbeat"})
       \/ Handling("RpcActive", {"Control", "Status", "BaudRate"})
    /\ Leave
    /\ UNCHANGED <<session, rest>>

(* A data frame is acknowledged, then fed to the session. *)
HandleData ==
    /\ Handling("RpcActive", {"Data"})
    /\ pc' = "feed"
    /\ UNCHANGED <<session, decode, rest>>

HandleStopRpc ==
    /\ Handling("RpcActive", {"Control"})
    /\ state' = "Connected"
    /\ pc' = "close"
    /\ UNCHANGED <<decode, line, rpc, records, rest>>

(* A status releases the token; of two, the second finds it released. *)
HandleStatus ==
    /\ Handling("RpcActive", {"Status"})
    /\ rpc' = [rpc EXCEPT !.token = 1, !.unacked = 0]
    /\ NextFrame
    /\ UNCHANGED <<state, line, records, rest>>

(* rpc_session_feed waits for room in the session's stream, 250 ms at most. An
   empty frame feeds nothing. *)
Fed ==
    /\ pc = "feed"
    /\ \/ rpc' = rpc
       \/ rpc.stream < StreamSize /\ rpc' = [rpc EXCEPT !.stream = @ + 1]
    /\ NextFrame
    /\ UNCHANGED <<state, line, records, rest>>

FeedTimesOut ==
    /\ pc = "feed"
    /\ rpc.stream = StreamSize
    /\ Leave
    /\ UNCHANGED <<session, rest>>

MutexFreeFault == TRUE  \* the callbacks are changed without the mutex
MutexFree == rpc.pc = "idle"

(* expansion_worker_rpc_session_close: under the callbacks_mutex the session
   forgets its send callback; then the semaphore is freed and the record
   closed. A session that was not opened leaves only the record to close. *)
CloseSession ==
    /\ MutexFree
    /\ rpc' = [NoSession EXCEPT !.pc = rpc.pc, !.left = rpc.left]
    /\ records' = records - 1

Close ==
    /\ pc = "close"
    /\ CloseSession
    /\ NextFrame
    /\ UNCHANGED <<state, line, rest>>

(* Out of the loop: an active session is closed, the handle is released, and
   the callback invoked unless the exit was requested. *)
LeftFault ==  \* a session that is still open stays so
    /\ pc = "left"
    /\ pc' = "release"
    /\ UNCHANGED <<rpc, records, state, decode, line, rest>>

Left ==
    /\ pc = "left"
    /\ pc' = "release"
    /\ IF state = "RpcActive" THEN CloseSession ELSE UNCHANGED <<rpc, records>>
    /\ UNCHANGED <<state, decode, line, rest>>

ReleaseFault ==  \* the callback is invoked whatever the reason
    /\ pc = "release"
    /\ line' = [line EXCEPT !.held = FALSE]
    /\ pc' = "tell"
    /\ UNCHANGED <<state, decode, rpc, records, rest>>

Release ==
    /\ pc = "release"
    /\ line' = [line EXCEPT !.held = FALSE]
    /\ pc' = IF reason = "User" THEN "gone" ELSE "tell"
    /\ UNCHANGED <<state, decode, rpc, records, rest>>

TellExit ==
    /\ pc = "tell"
    /\ pc' = "gone"
    /\ UNCHANGED <<session, decode, rest>>

WorkerStep ==
    \/ Start \/ Read \/ Wakes \/ TimesOut
    \/ HandleBaudRate \/ Notified \/ HandleHeartbeat \/ HandleStartRpc
    \/ HandleUnexpected \/ HandleData \/ HandleStopRpc \/ HandleStatus
    \/ Fed \/ FeedTimesOut \/ Close \/ Left \/ Release \/ TellExit

--------------------------------------------------------------------------------
(* The session's side: its thread takes what was fed, and any thread of the RPC
   service may send; rpc_send holds the callbacks_mutex around the callback. *)

worker == <<pc, state, reason, decode, rx, line, records, stopped>>

RpcTakes ==
    /\ rpc.open /\ rpc.pc = "idle" /\ rpc.stream > 0
    /\ rpc' = [rpc EXCEPT !.stream = @ - 1]
    /\ UNCHANGED <<worker, flags>>

RpcSends ==
    /\ rpc.open /\ rpc.pc = "idle"
    /\ \E n \in 1..MaxReply : rpc' = [rpc EXCEPT !.pc = "token", !.left = n]
    /\ UNCHANGED <<worker, flags>>

RpcGetsToken ==
    /\ rpc.pc = "token" /\ rpc.token = 1
    /\ rpc' = [rpc EXCEPT !.pc = "tx", !.token = 0, !.unacked = @ + 1]
    /\ UNCHANGED <<worker, flags>>

RpcTokenForgotten ==  \* the result of the wait is not looked at
    /\ rpc.pc = "token" /\ rpc.token = 0
    /\ rpc' = [rpc EXCEPT !.pc = "tx", !.unacked = @ + 1]
    /\ UNCHANGED <<worker, flags>>

RpcTokenForever == FALSE  \* the wait has no timeout

(* The module has not acknowledged the last frame for 250 ms. *)
RpcTokenTimesOut ==
    /\ rpc.pc = "token" /\ rpc.token = 0
    /\ rpc' = [rpc EXCEPT !.pc = "idle", !.left = 0]
    /\ flags' = flags \union {"Error"}
    /\ UNCHANGED worker

RpcTransmits ==
    /\ rpc.pc = "tx"
    /\ rpc' = [rpc EXCEPT !.left = @ - 1,
                          !.pc = IF rpc.left = 1 THEN "idle" ELSE "token"]
    /\ UNCHANGED <<worker, flags>>

RpcStep == RpcTakes \/ RpcGetsToken \/ RpcTokenTimesOut \/ RpcTransmits

(* A worker that has ended, and everything around it, may rest. *)
Ended == pc = "gone" /\ stopped /\ line.silent /\ UNCHANGED vars

Next ==
    \/ WorkerStep \/ RpcStep \/ RpcSends
    \/ RxData \/ RxError \/ ModuleFallsSilent \/ Stop
    \/ Ended

Spec == Init /\ [][Next]_vars
(* The worker and the session's threads run, and the callbacks_mutex is not
   kept from the worker for ever (hence SF). Nothing is owed by the module... *)
FairSpec == Spec /\ SF_vars(WorkerStep) /\ WF_vars(RpcStep)

(* ... or only that it falls silent in the end. *)
QuietSpec == FairSpec /\ WF_vars(ModuleFallsSilent)

--------------------------------------------------------------------------------
(* Properties. *)

(* The types of struct ExpansionWorker, of its flags and of its session. *)
TypeOK ==
    /\ pc \in Place
    /\ state \in {"HandShake", "Connected", "RpcActive"}
    /\ reason \in ExitReason
    /\ flags \subseteq WorkerFlag
    /\ rx \in 0..RxSize
    /\ decode \in DecodeRecord
    /\ line \in [held : BOOLEAN, silent : BOOLEAN]
    /\ rpc \in RpcRecord
    /\ records \in {0, 1}
    /\ stopped \in BOOLEAN

(* A thread inside expansion_worker_rpc_send_callback finds what it uses: the
   session's tx_semaphore is not freed under it, nor the serial handle released,
   although the worker closes the session without waiting for its thread. *)
SenderIsSafe == rpc.pc /= "idle" => rpc.open /\ line.held

(* RECORD_RPC is open exactly while a session is, or is about to be closed; a
   worker that gives its port back has closed both, on whichever of the paths
   out of the three state handlers it came. *)
SessionIsClosed ==
    /\ pc \in {"read", "wait", "handle", "feed"} =>
          /\ rpc.open <=> state = "RpcActive"
          /\ records = IF rpc.open THEN 1 ELSE 0
    /\ pc \in {"release", "tell", "gone"} => ~rpc.open /\ records = 0

(* The sender never begins a second data frame while no status has arrived since
   it began the first: tx_semaphore, whose wait may time out, paces it. *)
OneFrameInFlight == rpc.unacked <= 1

(* expansion_worker_stop returns, whatever the worker was doing, be it waiting
   for a sender that waits for it, once the module falls silent. *)
StopReturns == stopped ~> pc = "gone"

Phase ==
    CASE pc = "notify" -> "putConnected"
      [] pc = "tell" -> "putExit"
      [] pc \in {"new", "gone"} -> pc
      [] pc \in {"left", "release"} -> "release"
      [] OTHER -> IF state = "HandShake" THEN "handshake" ELSE "connected"

Life == INSTANCE ExpansionWorkerLife
        WITH phase <- Phase, stop <- ("Stop" \in flags), user <- (reason = "User")

(* Seen from the control thread, the worker is the one of Expansion.tla. *)
ImplementsLife == Life!Spec
================================================================================
