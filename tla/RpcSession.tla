------------------------------- MODULE RpcSession -------------------------------
(***************************************************************************)
(* One RPC session (applications/services/rpc/rpc.c) from rpc_session_open *)
(* to its last free, with every thread that touches it: the session's own  *)
(* worker, the transport that feeds and closes it (the CLI thread for Usb, *)
(* the expansion worker for Uart, the GAP thread for Ble), the bt service  *)
(* that may also close a Ble session, the screen-streaming thread that     *)
(* sends through it, the timer task that frees it, and the worker of a     *)
(* second session with which it shares busy_mutex.                         *)
(*                                                                         *)
(* A piece is what one read of the decoder asks for. What the pieces say   *)
(* is chosen when the worker has decoded them.                             *)
(***************************************************************************)
EXTENDS Naturals, Sequences

CONSTANTS
    Kinds,       \* the owners of the sessions that are opened
    StreamSize,  \* capacity of the session's stream, in pieces
    Streams      \* bound: the kinds of session whose client may ask for the screen stream

ASSUME SessionBounds ==
    /\ Kinds \subseteq {"Usb", "Uart", "Ble"} /\ Kinds # {}
    /\ StreamSize \in Nat \ {0}
    /\ Streams \subseteq Kinds

VARIABLES
    kind,         \* RpcSession.owner
    session,      \* which part of its life the session is in
    plan,         \* what each thread outside the session has still to do to it
    link,         \* the transport has the session; the serial service feeds it
    cb,           \* the callbacks (and the context) that are not NULL
    mutex,        \* the holder of callbacks_mutex, who is inside a callback
    stream,       \* pieces in the stream buffer
    flags,        \* the pending thread flags of the worker
    work,         \* what the worker has still to do, its place first
    terminate,    \* RpcSession.terminate
    decode_error, \* RpcSession.decode_error
    asked,        \* CliRpc.session_close_request
    busy,         \* the holder of busy_mutex
    gui           \* the screen-streaming thread

vars == <<kind, session, plan, link, cb, mutex, stream, flags, work, terminate,
          decode_error, asked, busy, gui>>

Thread == {"transport", "service"}
Callback == {"context", "send", "close", "empty", "terminated"}

(* none: not allocated; running: the worker lives; pending: the timer task has
   the callback that frees it; systems: systems and stream are freed; called:
   terminated_callback has been called. *)
Life == {"none", "running", "pending", "systems", "called"}

Step == [do : {"set"}, what : Callback] \union [do : {"clear"}, what : Callback]
        \union [do : {"feed", "flag", "avail", "disconnect", "join", "listen",
                      "unlisten", "forget", "null"}, what : {"-"}]

Place == {"read", "look", "empty", "bytes", "wait", "busy", "stream", "unstream",
          "reply", "tell", "unbusy", "fail", "restore", "restored", "check", "exit"}

Do(step) == [do |-> step, what |-> "-"]
Set(c)   == [do |-> "set", what |-> c]
Clear(c) == [do |-> "clear", what |-> c]

(* The callbacks each transport sets, in its order. *)
SetupPlan(k) ==
    CASE k = "Usb"  -> <<Set("context"), Set("send"), Set("close"), Set("terminated")>>
      [] k = "Uart" -> <<Set("context"), Set("send")>>
      [] k = "Ble"  -> <<Set("send"), Set("empty"), Set("context"), Do("listen")>>

(* rpc_session_close, and what its caller does next: rpc_cli waits for the
   terminate semaphore, bt forgets the session. *)
ClosePlan(k) ==
    <<Clear("send"), Clear("close"), Clear("empty"), Do("disconnect")>>
    \o CASE k = "Usb"  -> <<Do("join")>>
         [] k = "Uart" -> <<>>
         [] k = "Ble"  -> <<Do("unlisten"), Do("forget")>>

FeedPlanFault(k) == <<Do("flag"), Do("feed")>>  \* the flag before the bytes

(* rpc_session_feed; bt then asks how much room is left. *)
FeedPlan(k) ==
    <<Do("feed"), Do("flag")>> \o (IF k = "Ble" THEN <<Do("avail")>> ELSE <<>>)

Init ==
    /\ kind \in Kinds
    /\ session = "none"
    /\ plan = [t \in Thread |-> <<>>] /\ link = {}
    /\ cb = {} /\ mutex = "free"
    /\ stream = 0 /\ flags = {} /\ work = <<>>
    /\ terminate = FALSE /\ decode_error = FALSE /\ asked = FALSE
    /\ busy = "free" /\ gui = "none"

Facing(t, do) == plan[t] # <<>> /\ Head(plan[t]).do = do
Advance(t) == plan' = [plan EXCEPT ![t] = Tail(@)]
Starts(t, steps) == plan[t] = <<>> /\ plan' = [plan EXCEPT ![t] = steps]

At(place) == work # <<>> /\ Head(work) = place
Done == work' = Tail(work)
Then(places) == work' = places \o Tail(work)

--------------------------------------------------------------------------------
(* The threads outside the session. *)

(* rpc_session_open: the worker is started before the caller sets a callback. *)
Open ==
    /\ session = "none" /\ plan["service"] = <<>> /\ "session" \notin link
    /\ Starts("transport", SetupPlan(kind))
    /\ session' = "running" /\ link' = link \union {"session"}
    /\ cb' = {} /\ stream' = 0 /\ flags' = {} /\ work' = <<"read">>
    /\ terminate' = FALSE /\ decode_error' = FALSE /\ asked' = FALSE
    /\ UNCHANGED <<kind, mutex, busy, gui>>

(* The serial service calls bt_serial_event_callback as long as it is set; a
   set-up that was overtaken by a close sets it for a NULL session. *)
Feed ==
    /\ IF kind = "Ble" THEN "listen" \in link ELSE "session" \in link
    /\ kind = "Usb" => ~asked
    /\ Starts("transport", IF "session" \in link THEN FeedPlan(kind) ELSE <<Do("null")>>)
    /\ UNCHANGED <<kind, session, link, cb, mutex, stream, flags, work, terminate,
                   decode_error, asked, busy, gui>>

(* The transport leaves its loop: the CLI session was disconnected or asked to
   close, the module stopped the RPC or fell silent, the GAP link was lost. *)
TransportCloses ==
    /\ "session" \in link
    /\ Starts("transport", ClosePlan(kind))
    /\ link' = IF kind = "Ble" THEN link ELSE {}
    /\ UNCHANGED <<kind, session, cb, mutex, stream, flags, work, terminate,
                   decode_error, asked, busy, gui>>

(* bt_close_rpc_connection in the bt service, for a profile change or a
   requested disconnection. *)
ServiceCloses ==
    /\ kind = "Ble" /\ "session" \in link
    /\ Starts("service", ClosePlan(kind))
    /\ UNCHANGED <<kind, session, link, cb, mutex, stream, flags, work, terminate,
                   decode_error, asked, busy, gui>>

SetsFault(t) ==  \* the callback is replaced without the mutex
    /\ \/ Facing(t, "set") /\ cb' = cb \union {Head(plan[t]).what}
       \/ Facing(t, "clear") /\ cb' = cb \ {Head(plan[t]).what}
    /\ Advance(t)
    /\ UNCHANGED <<kind, session, link, mutex, stream, flags, work, terminate,
                   decode_error, asked, busy, gui>>

(* rpc_session_set_context and rpc_session_set_..._callback. *)
Sets(t) ==
    /\ mutex = "free"
    /\ \/ Facing(t, "set") /\ cb' = cb \union {Head(plan[t]).what}
       \/ Facing(t, "clear") /\ cb' = cb \ {Head(plan[t]).what}
    /\ Advance(t)
    /\ UNCHANGED <<kind, session, link, mutex, stream, flags, work, terminate,
                   decode_error, asked, busy, gui>>

(* furi_stream_buffer_send waits for room, but not for ever. *)
Feeds(t) ==
    /\ Facing(t, "feed") /\ Advance(t)
    /\ \/ stream < StreamSize /\ stream' = stream + 1
       \/ stream = StreamSize /\ UNCHANGED stream
    /\ UNCHANGED <<kind, session, link, cb, mutex, flags, work, terminate,
                   decode_error, asked, busy, gui>>

Flags(t) ==
    /\ \/ Facing(t, "flag") /\ flags' = flags \union {"Data"}
       \/ Facing(t, "disconnect") /\ flags' = flags \union {"Disconnect"}
       \/ Facing(t, "avail") /\ UNCHANGED flags
    /\ Advance(t)
    /\ UNCHANGED <<kind, session, link, cb, mutex, stream, work, terminate,
                   decode_error, asked, busy, gui>>

(* The Ble transport's pointer and the callback of the serial service. *)
Links(t) ==
    /\ \/ Facing(t, "listen") /\ link' = link \union {"listen"}
       \/ Facing(t, "unlisten") /\ link' = link \ {"listen"}
       \/ Facing(t, "forget") /\ link' = link \ {"session"}
    /\ Advance(t)
    /\ UNCHANGED <<kind, session, cb, mutex, stream, flags, work, terminate,
                   decode_error, asked, busy, gui>>

(* rpc_cli waits for the semaphore that its terminated callback releases. *)
Joins(t) ==
    /\ Facing(t, "join")
    /\ session \in {"called", "none"} /\ "terminated" \in cb
    /\ Advance(t)
    /\ UNCHANGED <<kind, session, link, cb, mutex, stream, flags, work, terminate,
                   decode_error, asked, busy, gui>>

Proceeds(t) == Sets(t) \/ Feeds(t) \/ Flags(t) \/ Links(t) \/ Joins(t)

--------------------------------------------------------------------------------
(* The session's worker: rpc_session_worker and rpc_pb_stream_read. *)

outside == <<kind, plan, link, asked>>

(* furi_stream_buffer_receive without a timeout: a whole piece if there is one,
   all there is if it is not enough. After a decode error what is received is
   thrown away, whatever it is. *)
Read ==
    /\ At("read")
    /\ \/ ~decode_error /\ stream > 0 /\ stream' = stream - 1 /\ Then(<<"look", "bytes">>)
       \/ ~decode_error /\ stream' = 0 /\ Then(<<"look", "wait">>)
       \/ decode_error /\ Then(<<"look", "wait">>)
             /\ stream' \in {0} \union 0..(stream - 1)
    /\ UNCHANGED <<outside, session, cb, mutex, flags, terminate, decode_error, busy, gui>>

(* buffer_is_empty_callback is looked up, and called, without the mutex. *)
Look ==
    /\ At("look")
    /\ IF stream = 0 /\ "empty" \in cb THEN Then(<<"empty">>) ELSE Done
    /\ UNCHANGED <<outside, session, cb, mutex, stream, flags, terminate,
                   decode_error, busy, gui>>

EmptyCallbackReturns ==
    /\ At("empty") /\ Done
    /\ UNCHANGED <<outside, session, cb, mutex, stream, flags, terminate,
                   decode_error, busy, gui>>

(* What a decoded message makes the worker do. A handler runs with busy_mutex
   held; stop_session answers, then calls closed_callback. A message without a
   handler is answered only while the session is not terminated. *)
Decoded ==
    { <<"busy", "unbusy", "check">>,
      <<"busy", "reply", "unbusy", "check">>,
      <<"busy", "reply", "tell", "unbusy", "check">>,
      <<"fail">> }
    \union (IF kind \in Streams THEN { <<"busy", "reply", "stream", "unbusy", "check">>,
                              <<"busy", "unstream", "reply", "unbusy", "check">> }
            ELSE {})
    \union (IF terminate' THEN {<<"check">>} ELSE {<<"reply", "check">>})

(* A piece ends its message, or the message needs another. *)
Bytes ==
    /\ At("bytes")
    /\ UNCHANGED <<outside, session, cb, mutex, stream, flags, terminate,
                   decode_error, busy, gui>>
    /\ work' = <<"read">> \/ work' \in Decoded

WaitFault ==  \* Disconnect is forgotten while there is something to read
    /\ At("wait") /\ flags # {}
    /\ flags' = {}
    /\ IF "Disconnect" \in flags /\ stream = 0
       THEN terminate' = TRUE /\ work' \in Decoded
       ELSE UNCHANGED terminate /\ Then(<<"read">>)
    /\ UNCHANGED <<outside, session, cb, mutex, stream, decode_error, busy, gui>>

(* furi_thread_flags_wait clears what it returns; Disconnect is set again as
   long as the stream holds something. Cut off by the end of the session, a
   message that ends with a complete field is taken for a complete one. *)
Wait ==
    /\ At("wait") /\ flags # {}
    /\ IF "Disconnect" \in flags /\ stream = 0
       THEN flags' = {} /\ terminate' = TRUE /\ work' \in Decoded
       ELSE /\ flags' = flags \ {"Data"}
            /\ UNCHANGED terminate /\ Then(<<"read">>)
    /\ UNCHANGED <<outside, session, cb, mutex, stream, decode_error, busy, gui>>

TakeBusy ==
    /\ At("busy") /\ busy = "free" /\ busy' = "worker" /\ Done
    /\ UNCHANGED <<outside, session, cb, mutex, stream, flags, terminate,
                   decode_error, gui>>

GiveBusy ==
    /\ At("unbusy") /\ busy' = "free" /\ Done
    /\ UNCHANGED <<outside, session, cb, mutex, stream, flags, terminate,
                   decode_error, gui>>

StartStream ==
    /\ At("stream") /\ Done
    /\ gui' = IF gui = "none" THEN "idle" ELSE gui
    /\ UNCHANGED <<outside, session, cb, mutex, stream, flags, terminate,
                   decode_error, busy>>

(* The streaming thread is told to leave, and joined. *)
StopStream ==
    /\ At("unstream") /\ gui \in {"none", "idle"}
    /\ gui' = "none" /\ Done
    /\ UNCHANGED <<outside, session, cb, mutex, stream, flags, terminate,
                   decode_error, busy>>

(* rpc_send, and the calls of closed_callback: under the mutex, if it is set. *)
EnterCallback ==
    /\ mutex = "free"
    /\ \/ At("reply") /\ IF "send" \in cb THEN mutex' = "worker" /\ UNCHANGED work
                         ELSE UNCHANGED mutex /\ Done
       \/ At("tell") /\ IF "close" \in cb THEN mutex' = "worker" /\ UNCHANGED work
                        ELSE UNCHANGED mutex /\ Done
    /\ UNCHANGED <<outside, session, cb, stream, flags, terminate,
                   decode_error, busy, gui>>

(* rpc_cli_session_close_callback asks the CLI thread to close. *)
CallbackReturns ==
    /\ mutex = "worker"
    /\ mutex' = "free" /\ Done
    /\ asked' = (asked \/ At("tell"))
    /\ UNCHANGED <<kind, plan, link, session, cb, stream, flags, terminate,
                   decode_error, busy, gui>>

(* A reset fails while a feeder is blocked on the full stream. *)
Blocked == stream = StreamSize /\ Facing("transport", "feed")

FailFault ==  \* the transport is not told
    /\ At("fail")
    /\ stream' = 0
    /\ IF terminate
       THEN UNCHANGED decode_error /\ work' = <<"check">>
       ELSE decode_error' = TRUE /\ work' = <<"reply", "check">>
    /\ UNCHANGED <<outside, session, cb, mutex, flags, terminate, busy, gui>>

Fail ==
    /\ At("fail")
    /\ stream' = 0 \/ (Blocked /\ UNCHANGED stream)
    /\ IF terminate
       THEN UNCHANGED decode_error /\ work' = <<"check">>
       ELSE /\ decode_error' = TRUE
            /\ work' = <<"reply", "tell">>
                       \o (IF kind = "Ble" THEN <<"restore">> ELSE <<>>) \o <<"check">>
    /\ UNCHANGED <<outside, session, cb, mutex, flags, terminate, busy, gui>>

(* bt_profile_restore_default: the bt service closes the session if bt still has
   it, and the worker waits for the service. *)
Restore ==
    /\ At("restore")
    /\ Starts("service", IF "session" \in link THEN ClosePlan(kind) ELSE <<>>)
    /\ Then(<<"restored">>)
    /\ UNCHANGED <<kind, link, asked, session, cb, mutex, stream, flags, terminate,
                   decode_error, busy, gui>>

Restored ==
    /\ At("restored") /\ plan["service"] = <<>> /\ Done
    /\ UNCHANGED <<outside, session, cb, mutex, stream, flags, terminate,
                   decode_error, busy, gui>>

(* The end of a round of the loop; a thread that stops asks the timer task for
   rpc_session_thread_pending_callback. *)
Check ==
    /\ At("check")
    /\ IF terminate THEN work' = <<"exit">> /\ session' = "pending"
       ELSE work' = <<"read">> /\ UNCHANGED session
    /\ UNCHANGED <<outside, cb, mutex, stream, flags, terminate, decode_error, busy, gui>>

Exit ==
    /\ At("exit") /\ Done
    /\ UNCHANGED <<outside, session, cb, mutex, stream, flags, terminate,
                   decode_error, busy, gui>>

Work ==
    \/ Read \/ Look \/ EmptyCallbackReturns \/ Bytes \/ Wait
    \/ TakeBusy \/ GiveBusy \/ StartStream \/ StopStream
    \/ EnterCallback \/ CallbackReturns
    \/ Fail \/ Restore \/ Restored \/ Check \/ Exit

--------------------------------------------------------------------------------
(* The streaming thread, the timer task and the other session. *)

quiet == <<kind, plan, link, cb, stream, flags, work, terminate, decode_error, asked>>

(* A frame arrives; rpc_send waits for the mutex, sends, and returns. *)
Frame ==
    /\ gui = "idle" /\ gui' = "wants"
    /\ UNCHANGED <<quiet, session, mutex, busy>>

SendFrame ==
    /\ \/ gui = "wants" /\ mutex = "free"
          /\ IF "send" \in cb THEN gui' = "sends" /\ mutex' = "gui"
             ELSE gui' = "idle" /\ UNCHANGED mutex
       \/ gui = "sends" /\ gui' = "idle" /\ mutex' = "free"
    /\ UNCHANGED <<quiet, session, busy>>

FreeSystemsFault ==  \* the streaming thread is not joined
    /\ session = "pending" /\ session' = "systems"
    /\ UNCHANGED <<quiet, mutex, busy, gui>>

(* rpc_session_thread_pending_callback. The systems go first, rpc_gui joins its
   streaming thread; then the stream. *)
FreeSystems ==
    /\ session = "pending" /\ session' = "systems"
    /\ gui \in {"none", "idle"} /\ gui' = "none"
    /\ UNCHANGED <<quiet, mutex, busy>>

CallTerminated ==
    /\ session = "systems" /\ mutex = "free" /\ session' = "called"
    /\ UNCHANGED <<quiet, mutex, busy, gui>>

FreeSession ==
    /\ session = "called" /\ work = <<>> /\ session' = "none"
    /\ UNCHANGED <<quiet, mutex, busy, gui>>

Timer == FreeSystems \/ CallTerminated \/ FreeSession

OtherTakesBusy ==
    /\ busy = "free" /\ busy' = "other"
    /\ UNCHANGED <<quiet, session, mutex, gui>>

OtherGivesBusy ==
    /\ busy = "other" /\ busy' = "free"
    /\ UNCHANGED <<quiet, session, mutex, gui>>

--------------------------------------------------------------------------------
(* A feed that is under way uses a stream, or a session, that is freed. *)
FeedsFreed(t) ==
    \/ Facing(t, "feed") /\ session \in {"systems", "called", "none"}
    \/ Facing(t, "flag") /\ session = "none"
    \/ Facing(t, "avail") /\ session \in {"systems", "called", "none"}

(* So does a call that sets a callback, or closes the session. *)
CallsFreed(t) ==
    /\ Facing(t, "set") \/ Facing(t, "clear") \/ Facing(t, "disconnect")
    /\ session = "none"

GuiUsesFreed == gui \in {"wants", "sends"} /\ session \in {"systems", "called", "none"}

InCallback == At("empty") \/ mutex \in {"worker", "gui"}

(* bt reads its pointer for each call. *)
UsesNull ==
    \/ Facing("transport", "null")
    \/ Facing("transport", "avail") /\ "session" \notin link

(* What comes of a use of freed memory or of a NULL pointer is not followed: all
   stops. *)
Crashed ==
    \/ UsesNull \/ \E t \in Thread : FeedsFreed(t) \/ CallsFreed(t)
    \/ GuiUsesFreed
    \/ InCallback /\ "context" \notin cb

Halt == Crashed /\ UNCHANGED vars

Next ==
    \/ Halt
    \/ /\ ~Crashed
       /\ \/ Open \/ Feed \/ TransportCloses \/ ServiceCloses
          \/ \E t \in Thread : Proceeds(t)
          \/ Work \/ Frame \/ SendFrame \/ Timer
          \/ OtherTakesBusy \/ OtherGivesBusy

Spec == Init /\ [][Next]_vars

(* A thread that can go on does; a mutex goes to a thread that waits for it;
   callbacks and handlers return; a CLI thread that is asked to close does.
   Nothing need be fed, framed, opened or closed otherwise. *)
FairSpec ==
    /\ Spec
    /\ \A t \in Thread : SF_vars(~Crashed /\ Proceeds(t))
    /\ SF_vars(~Crashed /\ Work)
    /\ SF_vars(~Crashed /\ SendFrame)
    /\ SF_vars(~Crashed /\ Timer)
    /\ WF_vars(~Crashed /\ OtherGivesBusy)
    /\ WF_vars(~Crashed /\ asked /\ TransportCloses)

--------------------------------------------------------------------------------
(* Every variable keeps its type. *)
TypeOK ==
    /\ kind \in Kinds /\ session \in Life
    /\ plan \in [Thread -> Seq(Step)]
    /\ link \subseteq {"session", "listen"} /\ cb \subseteq Callback
    /\ mutex \in {"free", "worker", "gui"}
    /\ stream \in 0..StreamSize /\ flags \subseteq {"Data", "Disconnect"}
    /\ work \in Seq(Place)
    /\ {terminate, decode_error, asked} \subseteq BOOLEAN
    /\ busy \in {"free", "worker", "other"}
    /\ gui \in {"none", "idle", "wants", "sends"}

(* rpc_session_close has returned to the caller that closed the session. *)
Closed ==
    /\ session # "none"
    /\ "session" \notin link \/ \E t \in Thread : Facing(t, "forget")
    /\ \A t \in Thread : \A i \in 1..Len(plan[t]) :
          plan[t][i].do \notin {"set", "clear", "disconnect"}

(* "It is guaranteed that no callbacks will be called as soon as session is closed"
   (rpc.h): once rpc_session_close has returned no thread is, or comes to be, in a
   callback of the session. *)
CloseEndsCallbacks == Closed => ~InCallback

(* That guarantee, for the sessions of the USB port and the UART, whatever the worker
   and the gui's thread were sending when the session was closed. *)
NoCallbackAfterClose == kind # "Ble" => CloseEndsCallbacks

(* No thread touches the session, its stream or its systems after the timer task
   has freed them, whatever it was doing when the session was closed: feeding and
   closing are safe for the threads that do it, streaming frames too. The bluetooth
   service is left out: its feed and its close are calls of two threads without a
   lock. *)
SessionOutlivesItsUsers ==
    kind # "Ble" =>
    /\ \A t \in Thread : ~FeedsFreed(t) /\ ~CallsFreed(t)
    /\ ~GuiUsesFreed

(* A session that is being closed is freed, whatever it was doing and whatever is
   left in its stream, and the thread that waits for that is released. *)
CloseEnds ==
    (session # "none" /\ \E t \in Thread : Facing(t, "clear"))
        ~> (Crashed \/ (session = "none" /\ \A t \in Thread : ~Facing(t, "join")))

(* After a decode error, or a stop_session command, the CLI transport closes the
   session and the USB port is unlocked again. *)
StopIsObeyed ==
    (kind = "Usb" /\ session = "running" /\ (asked \/ decode_error)) ~> session = "none"

(* A worker that waits while there is something to read is woken: a feed is not
   lost between the read and the wait. *)
FeedIsHeard ==
    (At("wait") /\ stream > 0 /\ ~decode_error) ~> (Crashed \/ ~At("wait"))
================================================================================
