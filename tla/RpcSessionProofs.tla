---------------------------- MODULE RpcSessionProofs ----------------------------
(***************************************************************************)
(* Proofs about an RPC session (RpcSession.tla), for streams of any size    *)
(* and any mixture of owners: that the sessions of the USB port and of the  *)
(* UART outlive whoever uses them and call nobody back once closed.         *)
(***************************************************************************)
EXTENDS RpcSession, TLAPS

USE SessionBounds

Transport == plan["transport"]

(* What the transport has still to do while it has the session, and when it is about
   to close it or has done so. *)
Using == [do : {"set"}, what : Callback \ {"empty"}] \union [do : {"feed", "flag"}, what : {"-"}]
Closing == [do : {"clear"}, what : Callback \ {"context"}] \union [do : {"disconnect", "join"}, what : {"-"}]

(* The places of a worker whose session is not one of bluetooth. *)
Ordinary == Place \ {"empty", "restore", "restored"}

Clears(c) == \E i \in DOMAIN Transport : Transport[i] = Clear(c)

(* One thread uses the session: first it sets it up and feeds it, then it closes it.
   After the disconnection it touches the session no more. *)
PlanInv ==
    /\ plan["service"] = <<>> /\ link \subseteq {"session"}
    /\ "session" \in link => Transport \in Seq(Using)
    /\ "session" \notin link =>
          /\ Transport \in Seq(Closing)
          /\ \A i, j \in DOMAIN Transport :
                i < j /\ Transport[i].do = "disconnect" => Transport[j].do = "join"

(* The transport is done with the session. *)
Ending ==
    /\ "session" \notin link
    /\ \A i \in DOMAIN Transport : Transport[i].do = "join"

(* The worker ends, and the session with it, only when the transport is done. *)
EndingInv == session # "running" \/ terminate \/ "Disconnect" \in flags => Ending

WorkInv ==
    /\ work \in Seq(Ordinary)
    /\ session # "running" => work = <<"exit">> \/ work = <<>>

(* A callback that is still set when the session is closed is one that the transport
   has still to clear. *)
CallbackInv ==
    /\ "empty" \notin cb
    /\ "session" \notin link => \A c \in {"send", "close"} : c \in cb => Clears(c)

(* Whatever the session, its worker holds the mutex only at a call that it makes. *)
HoldInv ==
    /\ mutex = "worker" => At("reply") \/ At("tell")
    /\ session = "none" => work = <<>>

(* The context is set before every callback, and is never taken away. *)
ContextInv ==
    /\ cb # {} => "context" \in cb
    /\ (\E i \in DOMAIN Transport : Transport[i].do = "set") =>
          "context" \in cb \/ Transport[1] = Set("context")

(* The mutex is held by whoever is inside a callback that is set, and a frame is sent
   only as long as the systems of the session are there. *)
MutexInv ==
    /\ mutex = "worker" => \/ At("reply") /\ "send" \in cb
                           \/ At("tell") /\ "close" \in cb
    /\ mutex = "gui" => "send" \in cb
    /\ mutex = "gui" <=> gui = "sends"
    /\ session \in {"systems", "called", "none"} => gui = "none"

Core == PlanInv /\ EndingInv /\ WorkInv /\ CallbackInv /\ ContextInv /\ MutexInv
Inv == TypeOK /\ HoldInv /\ (kind # "Ble" => Core)

--------------------------------------------------------------------------------
(* What the helpers of the model do. *)

LEMMA Typed ==
    ASSUME TypeOK
    PROVE  /\ kind \in Kinds /\ session \in Life /\ plan \in [Thread -> Seq(Step)]
           /\ link \in SUBSET {"session", "listen"} /\ cb \in SUBSET Callback
           /\ mutex \in {"free", "worker", "gui"} /\ stream \in 0..StreamSize
           /\ flags \in SUBSET {"Data", "Disconnect"} /\ work \in Seq(Place)
           /\ terminate \in BOOLEAN /\ decode_error \in BOOLEAN /\ asked \in BOOLEAN
           /\ busy \in {"free", "worker", "other"} /\ gui \in {"none", "idle", "wants", "sends"}
BY DEF TypeOK

LEMMA TypedNext ==
    ASSUME kind' \in Kinds, session' \in Life, plan' \in [Thread -> Seq(Step)],
           link' \in SUBSET {"session", "listen"}, cb' \in SUBSET Callback,
           mutex' \in {"free", "worker", "gui"}, stream' \in 0..StreamSize,
           flags' \in SUBSET {"Data", "Disconnect"}, work' \in Seq(Place),
           terminate' \in BOOLEAN, decode_error' \in BOOLEAN, asked' \in BOOLEAN,
           busy' \in {"free", "worker", "other"}, gui' \in {"none", "idle", "wants", "sends"}
    PROVE  TypeOK'
BY DEF TypeOK

LEMMA TailIs ==
    ASSUME NEW S, NEW s \in Seq(S), s # <<>>
    PROVE  /\ Tail(s) \in Seq(S) /\ 1 \in DOMAIN s /\ s[1] = Head(s) /\ Head(s) \in S
           /\ \A i \in DOMAIN s : i \in Nat /\
                (i # 1 => i > 1 /\ i - 1 \in DOMAIN Tail(s) /\ Tail(s)[i - 1] = s[i])
           /\ \A i \in DOMAIN Tail(s) :
                i \in Nat /\ i >= 1 /\ i + 1 \in DOMAIN s /\ Tail(s)[i] = s[i + 1]
<1>1. Tail(s) \in Seq(S) /\ Len(Tail(s)) = Len(s) - 1 /\ Len(s) \in Nat /\ Len(s) >= 1
  OBVIOUS
<1>2. DOMAIN s = 1..Len(s) /\ DOMAIN Tail(s) = 1..(Len(s) - 1)
  BY <1>1
<1>3. \A i \in 1..(Len(s) - 1) : Tail(s)[i] = s[i + 1]
  BY <1>1
<1>4. s[1] = Head(s) /\ Head(s) \in S
  OBVIOUS
<1>5. ASSUME NEW i \in DOMAIN s, i # 1
      PROVE  i > 1 /\ i - 1 \in DOMAIN Tail(s) /\ Tail(s)[i - 1] = s[i]
  <2>1. i \in Nat /\ i > 1 /\ i - 1 \in 1..(Len(s) - 1) /\ (i - 1) + 1 = i
    BY <1>1, <1>2, <1>5
  <2> QED
    BY <1>2, <1>3, <2>1
<1> QED
  BY <1>1, <1>2, <1>3, <1>4, <1>5

LEMMA ConcatIs ==
    ASSUME NEW S, NEW s \in Seq(S), NEW r \in Seq(S)
    PROVE  /\ s \o r \in Seq(S) /\ Len(s \o r) = Len(s) + Len(r)
           /\ \A i \in 1..Len(s) : (s \o r)[i] = s[i]
           /\ \A i \in 1..Len(r) : (s \o r)[Len(s) + i] = r[i]
<1>1. s \o r \in Seq(S) /\ Len(s \o r) = Len(s) + Len(r) /\ Len(s) \in Nat /\ Len(r) \in Nat
  OBVIOUS
<1>2. \A i \in 1..Len(s) : i \in 1..(Len(s) + Len(r)) /\ i <= Len(s)
  BY <1>1
<1>3. \A i \in 1..Len(r) : /\ Len(s) + i \in 1..(Len(s) + Len(r)) /\ ~(Len(s) + i <= Len(s))
                           /\ Len(s) + i - Len(s) = i
  BY <1>1
<1>4. \A i \in 1..Len(s) : (s \o r)[i] = s[i]
  BY <1>1, <1>2
<1>5. \A i \in 1..Len(r) : (s \o r)[Len(s) + i] = r[i]
  BY <1>1, <1>3
<1> QED
  BY <1>1, <1>4, <1>5

LEMMA LiteralIs ==
    ASSUME NEW S, NEW a \in S, NEW b \in S, NEW c \in S, NEW d \in S, NEW e \in S
    PROVE  /\ <<>> \in Seq(S) /\ <<a>> \in Seq(S) /\ <<a, b>> \in Seq(S)
           /\ <<a, b, c>> \in Seq(S) /\ <<a, b, c, d>> \in Seq(S)
           /\ <<a, b, c, d, e>> \in Seq(S)
OBVIOUS

LEMMA KindsAre == ASSUME NEW k \in Kinds PROVE k \in {"Usb", "Uart", "Ble"}
OBVIOUS

LEMMA StepsAre ==
    /\ \A c \in Callback : Set(c) \in Step /\ Clear(c) \in Step
    /\ \A d \in {"feed", "flag", "avail", "disconnect", "join", "listen", "unlisten", "forget",
                 "null"} : Do(d) \in Step
    /\ \A c \in {"send", "close", "empty"} : Clear(c) \in Closing
    /\ \A c \in {"context", "send", "close", "terminated"} : Set(c) \in Using
    /\ \A d \in {"feed", "flag"} : Do(d) \in Using
    /\ \A d \in {"disconnect", "join"} : Do(d) \in Closing
    /\ {"context", "send", "close", "empty", "terminated"} = Callback
<1>1. {"context", "send", "close", "empty", "terminated"} = Callback
  BY DEF Callback
<1>2. \A c \in Callback : Set(c) \in Step /\ Clear(c) \in Step
  BY DEF Set, Clear, Step
<1>3. \A d \in {"feed", "flag", "avail", "disconnect", "join", "listen", "unlisten", "forget",
                "null"} : Do(d) \in Step
  BY DEF Do, Step
<1>4. /\ \A c \in {"send", "close", "empty"} : Clear(c) \in Closing
      /\ \A c \in {"context", "send", "close", "terminated"} : Set(c) \in Using
  BY DEF Set, Clear, Using, Closing, Callback
<1>5. (\A d \in {"feed", "flag"} : Do(d) \in Using)
      /\ \A d \in {"disconnect", "join"} : Do(d) \in Closing
  BY DEF Do, Using, Closing
<1> QED
  BY <1>1, <1>2, <1>3, <1>4, <1>5

(* The plans of each transport. *)
LEMMA SetupPlanIs ==
    ASSUME NEW k \in Kinds
    PROVE  /\ SetupPlan(k) \in Seq(Step)
           /\ k # "Ble" => SetupPlan(k) \in Seq(Using) /\ SetupPlan(k)[1] = Set("context")
<1>1. CASE k = "Usb"
  <2>1. SetupPlan(k) = <<Set("context"), Set("send"), Set("close"), Set("terminated")>>
    BY <1>1 DEF SetupPlan
  <2>2. Set("context") \in Step /\ Set("send") \in Step /\ Set("close") \in Step
        /\ Set("terminated") \in Step
    BY StepsAre
  <2>3. Set("context") \in Using /\ Set("send") \in Using /\ Set("close") \in Using
        /\ Set("terminated") \in Using
    BY StepsAre
  <2>4. <<Set("context"), Set("send"), Set("close"), Set("terminated")>> \in Seq(Step)
    BY ONLY <2>2, LiteralIs
  <2>5. <<Set("context"), Set("send"), Set("close"), Set("terminated")>> \in Seq(Using)
    BY ONLY <2>3, LiteralIs
  <2>6. SetupPlan(k)[1] = Set("context")
    BY <2>1
  <2> QED
    BY <2>1, <2>4, <2>5, <2>6
<1>2. CASE k = "Uart"
  <2>1. SetupPlan(k) = <<Set("context"), Set("send")>>
    BY <1>2 DEF SetupPlan
  <2>2. <<Set("context"), Set("send")>> \in Seq(Step) /\ <<Set("context"), Set("send")>> \in Seq(Using)
    BY StepsAre
  <2>3. SetupPlan(k)[1] = Set("context")
    BY <2>1
  <2> QED
    BY <2>1, <2>2, <2>3
<1>3. CASE k = "Ble"
  <2>1. SetupPlan(k) = <<Set("send"), Set("empty"), Set("context"), Do("listen")>>
    BY <1>3 DEF SetupPlan
  <2>2. Set("send") \in Step /\ Set("empty") \in Step /\ Set("context") \in Step
        /\ Do("listen") \in Step
    BY StepsAre
  <2>3. <<Set("send"), Set("empty"), Set("context"), Do("listen")>> \in Seq(Step)
    BY ONLY <2>2, LiteralIs
  <2> QED
    BY <1>3, <2>1, <2>3
<1> QED
  BY <1>1, <1>2, <1>3, KindsAre

LEMMA FeedPlanIs ==
    ASSUME NEW k \in Kinds
    PROVE  /\ FeedPlan(k) \in Seq(Step)
           /\ k # "Ble" => /\ FeedPlan(k) \in Seq(Using)
                          /\ \A i \in DOMAIN FeedPlan(k) : FeedPlan(k)[i].do # "set"
<1>1. <<Do("feed"), Do("flag")>> \in Seq(Step) /\ <<Do("feed"), Do("flag")>> \in Seq(Using)
      /\ <<Do("avail")>> \in Seq(Step)
  BY StepsAre
<1>2. CASE k = "Ble"
  BY <1>1, <1>2 DEF FeedPlan
<1>3. CASE k # "Ble"
  <2>1. FeedPlan(k) = <<Do("feed"), Do("flag")>> \o <<>>
    BY <1>3 DEF FeedPlan
  <2>2. FeedPlan(k) = <<Do("feed"), Do("flag")>>
    BY <2>1
  <2>3. \A i \in DOMAIN <<Do("feed"), Do("flag")>> : <<Do("feed"), Do("flag")>>[i].do # "set"
    BY DEF Do
  <2> QED
    BY <1>1, <1>3, <2>2, <2>3
<1> QED
  BY <1>2, <1>3

LEMMA ClosePlanIs ==
    ASSUME NEW k \in Kinds
    PROVE  /\ ClosePlan(k) \in Seq(Step)
           /\ k # "Ble" =>
                /\ ClosePlan(k) \in Seq(Closing)
                /\ \A c \in {"send", "close"} : \E i \in DOMAIN ClosePlan(k) :
                        ClosePlan(k)[i] = Clear(c)
                /\ \A i, j \in DOMAIN ClosePlan(k) :
                        i < j /\ ClosePlan(k)[i].do = "disconnect" => ClosePlan(k)[j].do = "join"
<1>1. PICK close \in Seq(Step) \intersect Seq(Closing) :
        close = <<Clear("send"), Clear("close"), Clear("empty"), Do("disconnect")>>
  <2>1. <<Clear("send"), Clear("close"), Clear("empty"), Do("disconnect")>> \in Seq(Step)
    BY StepsAre
  <2>2. Clear("send") \in Closing /\ Clear("close") \in Closing /\ Clear("empty") \in Closing
        /\ Do("disconnect") \in Closing
    BY StepsAre
  <2>3. <<Clear("send"), Clear("close"), Clear("empty"), Do("disconnect")>> \in Seq(Closing)
    BY ONLY <2>2, LiteralIs
  <2> QED
    BY <2>1, <2>3
<1>2. /\ Len(close) = 4 /\ DOMAIN close = 1..4 /\ close[1] = Clear("send")
      /\ close[2] = Clear("close") /\ close[3] = Clear("empty") /\ close[4] = Do("disconnect")
  BY <1>1
<1>3. CASE k = "Ble"
  <2>1. <<Do("unlisten"), Do("forget")>> \in Seq(Step)
    BY StepsAre
  <2>2. ClosePlan(k) = close \o <<Do("unlisten"), Do("forget")>>
    BY <1>1, <1>3 DEF ClosePlan
  <2>3. ClosePlan(k) \in Seq(Step)
    BY ONLY <2>1, <2>2, close \in Seq(Step)
  <2> QED
    BY <1>3, <2>3
<1>4. ASSUME k # "Ble", NEW rest \in Seq(Step) \intersect Seq(Closing),
             ClosePlan(k) = close \o rest, rest = <<Do("join")>> \/ rest = <<>>
      PROVE  /\ ClosePlan(k) \in Seq(Step) /\ ClosePlan(k) \in Seq(Closing)
             /\ \A c \in {"send", "close"} : \E i \in DOMAIN ClosePlan(k) :
                    ClosePlan(k)[i] = Clear(c)
             /\ \A i, j \in DOMAIN ClosePlan(k) :
                    i < j /\ ClosePlan(k)[i].do = "disconnect" => ClosePlan(k)[j].do = "join"
  <2>0. close \in Seq(Step) /\ rest \in Seq(Step) /\ close \in Seq(Closing) /\ rest \in Seq(Closing)
    BY <1>1, <1>4
  <2>1. /\ close \o rest \in Seq(Step) /\ close \o rest \in Seq(Closing)
        /\ Len(close \o rest) = Len(close) + Len(rest)
        /\ \A i \in 1..Len(close) : (close \o rest)[i] = close[i]
        /\ \A i \in 1..Len(rest) : (close \o rest)[Len(close) + i] = rest[i]
    BY ONLY <2>0, ConcatIs
  <2>2. PICK n \in {4, 5} : /\ Len(ClosePlan(k)) = n /\ DOMAIN ClosePlan(k) = 1..n
                            /\ n = 5 => ClosePlan(k)[5] = Do("join")
    <3>1. CASE rest = <<Do("join")>>
      <4>1. Len(rest) = 1 /\ rest[1] = Do("join")
        BY <3>1
      <4>2. Len(close \o rest) = 4 + 1 /\ close \o rest \in Seq(Step)
            /\ (close \o rest)[4 + 1] = rest[1]
        BY <1>2, <2>1, <4>1
      <4>3. 4 + 1 = 5
        OBVIOUS
      <4>4. Len(close \o rest) = 5 /\ DOMAIN (close \o rest) = 1..5
        BY <4>2, <4>3
      <4> QED
        BY <1>4, <4>1, <4>2, <4>3, <4>4
    <3>2. CASE rest = <<>>
      <4>1. Len(close \o rest) = 4 /\ DOMAIN (close \o rest) = 1..4
        BY <1>2, <3>2
      <4> QED
        BY <1>4, <4>1
    <3> QED
      BY <1>4, <3>1, <3>2
  <2>3. \A i \in 1..4 : ClosePlan(k)[i] = close[i]
    BY <1>2, <1>4, <2>1
  <2>4. \A i \in 1..3 : ClosePlan(k)[i].do # "disconnect"
    BY <1>2, <2>3 DEF Clear
  <2>5. \A i, j \in 1..n : i < j /\ ClosePlan(k)[i].do = "disconnect" => ClosePlan(k)[j].do = "join"
    BY <2>2, <2>4 DEF Do
  <2>6. \A c \in {"send", "close"} : \E i \in 1..4 : ClosePlan(k)[i] = Clear(c)
    BY <1>2, <2>3
  <2>7. ClosePlan(k) \in Seq(Step) /\ ClosePlan(k) \in Seq(Closing)
    BY <1>4, <2>1
  <2>8. DOMAIN ClosePlan(k) = 1..n /\ \A i \in 1..4 : i \in 1..n
    BY <2>2
  <2>9. \A i, j \in DOMAIN ClosePlan(k) :
            i < j /\ ClosePlan(k)[i].do = "disconnect" => ClosePlan(k)[j].do = "join"
    BY <2>5, <2>8
  <2>10. \A c \in {"send", "close"} : \E i \in DOMAIN ClosePlan(k) : ClosePlan(k)[i] = Clear(c)
    BY <2>6, <2>8
  <2> QED
    BY <2>7, <2>9, <2>10
<1>5. CASE k = "Usb"
  <2>1. <<Do("join")>> \in Seq(Step) /\ <<Do("join")>> \in Seq(Closing)
    BY StepsAre
  <2>2. ClosePlan(k) = close \o <<Do("join")>>
    BY <1>1, <1>5 DEF ClosePlan
  <2> QED
    BY <1>4, <1>5, <2>1, <2>2
<1>6. CASE k = "Uart"
  <2>1. ClosePlan(k) = close \o <<>> /\ <<>> \in Seq(Step) /\ <<>> \in Seq(Closing)
    BY <1>1, <1>6 DEF ClosePlan
  <2> QED
    BY <1>4, <1>6, <2>1
<1> QED
  BY <1>3, <1>5, <1>6, KindsAre

(* A thread does the first step of its plan, or gets a plan. *)
LEMMA AdvanceIs ==
    ASSUME TypeOK, NEW t \in Thread, plan[t] # <<>>, Advance(t)
    PROVE  /\ plan' \in [Thread -> Seq(Step)] /\ plan'[t] = Tail(plan[t])
           /\ Head(plan[t]) \in Step /\ \A u \in Thread : u # t => plan'[u] = plan[u]
<1>1. plan \in [Thread -> Seq(Step)] /\ plan[t] \in Seq(Step)
  BY Typed
<1>2. Tail(plan[t]) \in Seq(Step) /\ Head(plan[t]) \in Step
  BY <1>1
<1> QED
  BY <1>1, <1>2 DEF Advance

LEMMA StartsIs ==
    ASSUME TypeOK, NEW t \in Thread, NEW steps \in Seq(Step), Starts(t, steps)
    PROVE  /\ plan' \in [Thread -> Seq(Step)] /\ plan[t] = <<>> /\ plan'[t] = steps
           /\ \A u \in Thread : u # t => plan'[u] = plan[u]
<1>1. plan \in [Thread -> Seq(Step)]
  BY Typed
<1> QED
  BY <1>1 DEF Starts

LEMMA PartsOfStep ==
    ASSUME NEW step \in Step
    PROVE  step.do \in {"set", "clear"} => step.what \in Callback
BY DEF Step

(* Whatever the worker does next is a place it can be in; a worker whose session is not
   one of bluetooth, and has no callback for an empty buffer, stays ordinary. *)
LEMMA DecodedIs ==
    ASSUME NEW S, Ordinary \subseteq S, work' \in Decoded
    PROVE  work' \in Seq(S)
<1>1. {"busy", "unbusy", "check", "reply", "tell", "fail", "stream", "unstream"} \subseteq S
  BY DEF Ordinary, Place
<1>2. \/ work' = <<"busy", "unbusy", "check">>
      \/ work' = <<"busy", "reply", "unbusy", "check">>
      \/ work' = <<"busy", "reply", "tell", "unbusy", "check">>
      \/ work' = <<"fail">>
      \/ work' = <<"busy", "reply", "stream", "unbusy", "check">>
      \/ work' = <<"busy", "unstream", "reply", "unbusy", "check">>
      \/ work' = <<"check">>
      \/ work' = <<"reply", "check">>
  BY DEF Decoded
<1>3. /\ <<"busy", "unbusy", "check">> \in Seq(S)
      /\ <<"busy", "reply", "unbusy", "check">> \in Seq(S)
      /\ <<"fail">> \in Seq(S) /\ <<"check">> \in Seq(S) /\ <<"reply", "check">> \in Seq(S)
  BY <1>1
<1>4. /\ <<"busy", "reply", "tell", "unbusy", "check">> \in Seq(S)
      /\ <<"busy", "reply", "stream", "unbusy", "check">> \in Seq(S)
      /\ <<"busy", "unstream", "reply", "unbusy", "check">> \in Seq(S)
  BY <1>1
<1> QED
  BY <1>2, <1>3, <1>4

LEMMA WorkIs ==
    ASSUME NEW S, Ordinary \subseteq S, work \in Seq(S),
           "empty" \in cb => "empty" \in S, kind = "Ble" => "restore" \in S,
           "restore" \in S => "restored" \in S,
           mutex = "worker" => work # <<>>, Work
    PROVE  work' \in Seq(S)
<1>1. {"read", "look", "bytes", "wait", "reply", "tell", "check", "exit"} \subseteq S
  BY DEF Ordinary, Place
<1>2. work # <<>> => Head(work) \in S /\ Tail(work) \in Seq(S)
  OBVIOUS
<1>3. ASSUME work # <<>>, Done PROVE work' \in Seq(S)
  BY <1>2, <1>3 DEF Done
<1>4. ASSUME work # <<>>, NEW places \in Seq(S), Then(places) PROVE work' \in Seq(S)
  BY <1>2, <1>4 DEF Then
<1>5. CASE Read
  <2>1. <<"look", "bytes">> \in Seq(S) /\ <<"look", "wait">> \in Seq(S)
    BY <1>1
  <2> QED
    BY <1>4, <1>5, <2>1 DEF Read, At
<1>6. CASE Look
  <2>1. "empty" \in cb => <<"empty">> \in Seq(S)
    OBVIOUS
  <2> QED
    BY <1>3, <1>4, <1>6, <2>1 DEF Look, At
<1>7. CASE EmptyCallbackReturns
  BY <1>3, <1>7 DEF EmptyCallbackReturns, At
<1>8. CASE Bytes
  <2>1. <<"read">> \in Seq(S)
    BY <1>1
  <2> QED
    BY <1>8, <2>1, DecodedIs DEF Bytes
<1>9. CASE Wait
  <2>1. <<"read">> \in Seq(S)
    BY <1>1
  <2> QED
    BY <1>4, <1>9, <2>1, DecodedIs DEF Wait, At
<1>10. CASE TakeBusy \/ GiveBusy \/ StartStream \/ StopStream
  BY <1>3, <1>10 DEF TakeBusy, GiveBusy, StartStream, StopStream, At
<1>11. CASE EnterCallback
  BY <1>3, <1>11 DEF EnterCallback, At
<1>12. CASE CallbackReturns
  BY <1>3, <1>12 DEF CallbackReturns
<1>13. CASE Fail
  <2>1. <<"check">> \in Seq(S) /\ <<"reply", "tell">> \in Seq(S) /\ <<>> \in Seq(S)
    BY <1>1
  <2>2. kind = "Ble" => <<"restore">> \in Seq(S)
    OBVIOUS
  <2>3. PICK more \in Seq(S) : more = (IF kind = "Ble" THEN <<"restore">> ELSE <<>>)
    BY <2>1, <2>2
  <2>4. <<"reply", "tell">> \o more \o <<"check">> \in Seq(S)
    BY <2>1
  <2> QED
    BY <1>13, <2>1, <2>3, <2>4 DEF Fail
<1>14. CASE Restore
  <2>1. Head(work) = "restore" /\ work # <<>> /\ Then(<<"restored">>)
    BY <1>14 DEF Restore, At
  <2>2. <<"restored">> \in Seq(S)
    BY <1>2, <2>1
  <2> QED
    BY <1>4, <2>1, <2>2
<1>15. CASE Restored
  BY <1>3, <1>15 DEF Restored, At
<1>16. CASE Check
  <2>1. <<"exit">> \in Seq(S) /\ <<"read">> \in Seq(S)
    BY <1>1
  <2> QED
    BY <1>16, <2>1 DEF Check
<1>17. CASE Exit
  BY <1>3, <1>17 DEF Exit, At
<1> QED
  BY <1>5, <1>6, <1>7, <1>8, <1>9, <1>10, <1>11, <1>12, <1>13, <1>14, <1>15, <1>16, <1>17
  DEF Work

--------------------------------------------------------------------------------
(* What holds of every session: its types, and the calls of its worker. *)

LEMMA WorkerActs ==
    ASSUME Work
    PROVE  /\ kind' = kind /\ link' = link /\ cb' = cb
           /\ session' = session \/ session' = "pending"
           /\ work # <<>> \/ CallbackReturns
           /\ Restore \/ plan' = plan
           /\ \/ EnterCallback \/ CallbackReturns
              \/ mutex' = mutex /\ ~At("reply") /\ ~At("tell")
BY DEF Work, Read, Look, EmptyCallbackReturns, Bytes, Wait, TakeBusy, GiveBusy, StartStream,
       StopStream, EnterCallback, CallbackReturns, Fail, Restore, Restored, Check, Exit,
       outside, At

LEMMA OutsideTypes ==
    ASSUME TypeOK, NEW t \in Thread, Proceeds(t)
    PROVE  TypeOK'
<1>1. plan[t] # <<>> /\ Advance(t)
  BY DEF Proceeds, Sets, Feeds, Flags, Links, Joins, Facing
<1>2. plan' \in [Thread -> Seq(Step)] /\ Head(plan[t]) \in Step
  BY <1>1, AdvanceIs
<1>3. Head(plan[t]).do \in {"set", "clear"} => Head(plan[t]).what \in Callback
  BY <1>2, PartsOfStep
<1>4. cb' \in SUBSET Callback
  BY <1>3, Typed DEF Proceeds, Sets, Feeds, Flags, Links, Joins, Facing
<1>5. stream' \in 0..StreamSize
  BY Typed DEF Proceeds, Sets, Feeds, Flags, Links, Joins
<1>6. flags' \in SUBSET {"Data", "Disconnect"} /\ link' \in SUBSET {"session", "listen"}
  BY Typed DEF Proceeds, Sets, Feeds, Flags, Links, Joins
<1>7. UNCHANGED <<kind, session, mutex, work, terminate, decode_error, asked, busy, gui>>
  BY DEF Proceeds, Sets, Feeds, Flags, Links, Joins
<1> QED
  BY <1>2, <1>4, <1>5, <1>6, <1>7, Typed, TypedNext

LEMMA WorkerTypes ==
    ASSUME TypeOK, HoldInv, Work
    PROVE  TypeOK'
<1>1. work' \in Seq(Place)
  <2>1. Ordinary \subseteq Place /\ {"empty", "restore", "restored"} \subseteq Place
    BY DEF Ordinary, Place
  <2>2. mutex = "worker" => work # <<>>
    BY DEF HoldInv, At
  <2> QED
    BY <2>1, <2>2, Typed, WorkIs
<1>2. kind' \in Kinds /\ link' \in SUBSET {"session", "listen"} /\ cb' \in SUBSET Callback
      /\ session' \in Life
  BY Typed, WorkerActs DEF Life
<1>3. plan' \in [Thread -> Seq(Step)]
  <2>1. CASE Restore
    <3>1. \A k \in Kinds : ClosePlan(k) \in Seq(Step)
      BY ClosePlanIs
    <3>2. PICK steps \in Seq(Step) : Starts("service", steps)
      <4>1. <<>> \in Seq(Step)
        OBVIOUS
      <4> QED
        BY <2>1, <3>1, <4>1, Typed DEF Restore
    <3> QED
      BY <3>2, StartsIs DEF Thread
  <2> QED
    BY <2>1, WorkerActs, Typed
<1>4. stream' \in 0..StreamSize
  <2>1. CASE Read
    BY <2>1, Typed DEF Read
  <2>2. CASE ~Read
    BY <2>2, Typed DEF Work, Look, EmptyCallbackReturns, Bytes, Wait, TakeBusy, GiveBusy, StartStream,
       StopStream, EnterCallback, CallbackReturns, Fail, Restore, Restored, Check, Exit
  <2> QED
    BY <2>1, <2>2
<1>5. flags' \in SUBSET {"Data", "Disconnect"} /\ terminate' \in BOOLEAN
      /\ decode_error' \in BOOLEAN /\ asked' \in BOOLEAN
  BY Typed DEF Work, Read, Look, EmptyCallbackReturns, Bytes, Wait, TakeBusy, GiveBusy, StartStream,
     StopStream, EnterCallback, CallbackReturns, Fail, Restore, Restored, Check, Exit, outside
<1>6. mutex' \in {"free", "worker", "gui"} /\ busy' \in {"free", "worker", "other"}
      /\ gui' \in {"none", "idle", "wants", "sends"}
  BY Typed DEF Work, Read, Look, EmptyCallbackReturns, Bytes, Wait, TakeBusy, GiveBusy, StartStream,
     StopStream, EnterCallback, CallbackReturns, Fail, Restore, Restored, Check, Exit
<1> QED
  BY <1>1, <1>2, <1>3, <1>4, <1>5, <1>6, TypedNext

LEMMA HoldsOn ==
    ASSUME TypeOK, HoldInv, ~Crashed, Next
    PROVE  HoldInv'
<1>1. CASE Open
  BY <1>1 DEF Open, HoldInv, At
<1>2. CASE Work
  <2>1. session' # "none"
    <3>1. work # <<>>
      BY <1>2, WorkerActs DEF HoldInv, CallbackReturns, At
    <3> QED
      BY <1>2, <3>1, WorkerActs DEF HoldInv
  <2>2. CASE EnterCallback
    BY <2>1, <2>2 DEF EnterCallback, HoldInv, At
  <2>3. CASE CallbackReturns
    BY <2>1, <2>3 DEF CallbackReturns, HoldInv
  <2>4. CASE mutex' = mutex /\ ~At("reply") /\ ~At("tell")
    BY <2>1, <2>4 DEF HoldInv
  <2> QED
    BY <1>2, <2>2, <2>3, <2>4, WorkerActs
<1>3. CASE Feed \/ TransportCloses \/ ServiceCloses \/ \E t \in Thread : Proceeds(t)
  BY <1>3 DEF HoldInv, At, Feed, TransportCloses, ServiceCloses, Proceeds, Sets, Feeds, Flags,
     Links, Joins
<1>4. CASE Frame \/ SendFrame \/ OtherTakesBusy \/ OtherGivesBusy
  BY <1>4 DEF HoldInv, At, Frame, SendFrame, OtherTakesBusy, OtherGivesBusy, quiet
<1>5. CASE Timer
  BY <1>5 DEF HoldInv, At, Timer, FreeSystems, CallTerminated, FreeSession, quiet
<1> QED
  BY <1>1, <1>2, <1>3, <1>4, <1>5 DEF Next, Halt

LEMMA TypesKept ==
    ASSUME TypeOK, HoldInv, Next
    PROVE  TypeOK'
<1>1. CASE Halt
  BY <1>1 DEF Halt, vars, TypeOK
<1>2. \A k \in Kinds : /\ SetupPlan(k) \in Seq(Step) /\ FeedPlan(k) \in Seq(Step)
                      /\ ClosePlan(k) \in Seq(Step)
  BY SetupPlanIs, FeedPlanIs, ClosePlanIs
<1>3. {"transport", "service"} = Thread
  BY DEF Thread
<1>4. CASE Open
  <2>1. PICK steps \in Seq(Step) : Starts("transport", steps)
    BY <1>2, <1>4, Typed DEF Open
  <2>2. plan' \in [Thread -> Seq(Step)]
    BY <1>3, <2>1, StartsIs
  <2>3. <<"read">> \in Seq(Place)
    BY DEF Place
  <2>4. session' \in Life /\ link' \in SUBSET {"session", "listen"} /\ stream' \in 0..StreamSize
    BY <1>4, Typed DEF Open, Life
  <2> QED
    BY <1>4, <2>2, <2>3, <2>4, Typed, TypedNext DEF Open
<1>5. CASE Feed
  <2>1. <<Do("null")>> \in Seq(Step)
    BY StepsAre
  <2>2. PICK steps \in Seq(Step) : Starts("transport", steps)
    BY <1>2, <1>5, <2>1, Typed DEF Feed
  <2>3. plan' \in [Thread -> Seq(Step)]
    BY <1>3, <2>2, StartsIs
  <2> QED
    BY <1>5, <2>3, Typed, TypedNext DEF Feed
<1>6. CASE TransportCloses
  <2>1. PICK steps \in Seq(Step) : Starts("transport", steps)
    BY <1>2, <1>6, Typed DEF TransportCloses
  <2>2. plan' \in [Thread -> Seq(Step)]
    BY <1>3, <2>1, StartsIs
  <2>3. link' \in SUBSET {"session", "listen"}
    BY <1>6, Typed DEF TransportCloses
  <2> QED
    BY <1>6, <2>2, <2>3, Typed, TypedNext DEF TransportCloses
<1>7. CASE ServiceCloses
  <2>1. PICK steps \in Seq(Step) : Starts("service", steps)
    BY <1>2, <1>7, Typed DEF ServiceCloses
  <2>2. plan' \in [Thread -> Seq(Step)]
    BY <1>3, <2>1, StartsIs
  <2> QED
    BY <1>7, <2>2, Typed, TypedNext DEF ServiceCloses
<1>8. ASSUME NEW t \in Thread, Proceeds(t) PROVE TypeOK'
  BY <1>8, OutsideTypes
<1>9. CASE Work
  BY <1>9, WorkerTypes
<1>10. CASE Frame \/ SendFrame
  BY <1>10, Typed, TypedNext DEF Frame, SendFrame, quiet
<1>11. CASE Timer
  <2>1. session' \in Life /\ gui' \in {"none", "idle", "wants", "sends"}
    BY <1>11, Typed DEF Timer, FreeSystems, CallTerminated, FreeSession, quiet, Life
  <2> QED
    BY <1>11, <2>1, Typed, TypedNext DEF Timer, FreeSystems, CallTerminated, FreeSession, quiet
<1>12. CASE OtherTakesBusy \/ OtherGivesBusy
  BY <1>12, Typed, TypedNext DEF OtherTakesBusy, OtherGivesBusy, quiet
<1> QED
  BY <1>1, <1>4, <1>5, <1>6, <1>7, <1>8, <1>9, <1>10, <1>11, <1>12 DEF Next

--------------------------------------------------------------------------------
(* What holds of the sessions of the USB port and of the UART. *)

(* The transport goes on: what it has still to do is less. *)
LEMMA TransportAdvances ==
    ASSUME TypeOK, PlanInv, Transport # <<>>, Advance("transport"), link' = link
    PROVE  /\ PlanInv' /\ (Ending => Ending')
           /\ (Head(Transport).do = "disconnect" => Ending')
           /\ \A c \in Callback : Clears(c) /\ Head(Transport) # Clear(c) => Clears(c)'
<1>1. PICK t1 \in Seq(Step) : t1 = Transport
  BY Typed DEF Transport, Thread
<1>2. Transport' = Tail(t1) /\ plan'["service"] = plan["service"]
  BY <1>1, AdvanceIs DEF Transport, Thread
<1>3. /\ 1 \in DOMAIN t1 /\ t1[1] = Head(t1)
      /\ \A i \in DOMAIN t1 : i # 1 => i > 1 /\ i - 1 \in DOMAIN Tail(t1) /\ Tail(t1)[i - 1] = t1[i]
      /\ \A i \in DOMAIN Tail(t1) :
            i \in Nat /\ i >= 1 /\ i + 1 \in DOMAIN t1 /\ Tail(t1)[i] = t1[i + 1]
  <2>1. t1 \in Seq(Step) /\ t1 # <<>>
    BY <1>1
  <2> QED
    BY ONLY <2>1, TailIs
<1>4. \A S \in {Using, Closing} : t1 \in Seq(S) => Tail(t1) \in Seq(S)
  BY <1>1
<1>5. (\A i, j \in DOMAIN t1 : i < j /\ t1[i].do = "disconnect" => t1[j].do = "join")
      => \A i, j \in DOMAIN Tail(t1) :
            i < j /\ Tail(t1)[i].do = "disconnect" => Tail(t1)[j].do = "join"
  <2> SUFFICES ASSUME \A i, j \in DOMAIN t1 : i < j /\ t1[i].do = "disconnect" => t1[j].do = "join",
                      NEW i \in DOMAIN Tail(t1), NEW j \in DOMAIN Tail(t1),
                      i < j, Tail(t1)[i].do = "disconnect"
               PROVE  Tail(t1)[j].do = "join"
    OBVIOUS
  <2>1. i + 1 \in DOMAIN t1 /\ j + 1 \in DOMAIN t1 /\ i + 1 < j + 1
    BY <1>3
  <2> QED
    BY <1>3, <2>1
<1>6. PlanInv'
  BY <1>1, <1>2, <1>4, <1>5 DEF PlanInv
<1>7. Ending => Ending'
  BY <1>1, <1>2, <1>3 DEF Ending
<1>8. ASSUME Head(Transport).do = "disconnect" PROVE Ending'
  <2>1. "session" \notin link
    <3>1. t1 \in Seq(Using) => t1[1] \in Using
      BY <1>3
    <3> QED
      BY <1>1, <1>3, <1>8, <3>1 DEF PlanInv, Using
  <2>2. \A j \in DOMAIN t1 : 1 < j => t1[j].do = "join"
    BY <1>1, <1>3, <1>8, <2>1 DEF PlanInv
  <2>3. \A i \in DOMAIN Tail(t1) : i + 1 \in DOMAIN t1 /\ 1 < i + 1 /\ Tail(t1)[i] = t1[i + 1]
    BY <1>3
  <2> QED
    BY <1>2, <2>1, <2>2, <2>3 DEF Ending
<1>9. ASSUME NEW c \in Callback, Clears(c), Head(Transport) # Clear(c) PROVE Clears(c)'
  <2>1. PICK i \in DOMAIN t1 : t1[i] = Clear(c)
    BY <1>1, <1>9 DEF Clears
  <2>2. i - 1 \in DOMAIN Tail(t1) /\ Tail(t1)[i - 1] = Clear(c)
    BY <1>1, <1>3, <1>9, <2>1
  <2> QED
    BY <1>2, <2>2 DEF Clears
<1> QED
  BY <1>6, <1>7, <1>8, <1>9

(* Whoever acts next has something to do, and what it is says who has the session. *)
LEMMA FacingIs ==
    ASSUME TypeOK, PlanInv, NEW t \in Thread, NEW d, Facing(t, d)
    PROVE  /\ t = "transport" /\ Transport # <<>> /\ Head(Transport) \in Step
           /\ Head(Transport).do = d
           /\ \/ "session" \in link /\ Head(Transport) \in Using
              \/ "session" \notin link /\ Head(Transport) \in Closing
<1>1. t = "transport" /\ Transport # <<>> /\ Head(Transport).do = d
  BY DEF Facing, PlanInv, Transport, Thread
<1>2. PICK t1 \in Seq(Step) : t1 = Transport
  BY Typed DEF Transport, Thread
<1>3. \A S \in {Step, Using, Closing} : t1 \in Seq(S) => Head(t1) \in S
  BY <1>1, <1>2
<1> QED
  BY <1>1, <1>2, <1>3 DEF PlanInv

LEMMA OutsideKeepsCore ==
    ASSUME TypeOK, Core, NEW t \in Thread, Proceeds(t)
    PROVE  Core'
<1>1. PICK d : Facing(t, d) /\ Advance(t)
  BY DEF Proceeds, Sets, Feeds, Flags, Links, Joins
<1>2. t = "transport" /\ Transport # <<>> /\ Head(Transport) \in Step
  BY <1>1, FacingIs DEF Core
<1>3. /\ ~Facing(t, "avail") /\ ~Links(t)
      /\ Facing(t, "set") => "session" \in link /\ Head(Transport).what \in Callback \ {"empty"}
      /\ Facing(t, "flag") \/ Facing(t, "feed") => "session" \in link
      /\ Facing(t, "clear") => Head(Transport) = Clear(Head(Transport).what)
                               /\ Head(Transport).what \in Callback \ {"context"}
      /\ Facing(t, "join") => ~Facing(t, "clear") /\ ~Facing(t, "set")
  BY FacingIs DEF Core, Using, Closing, Links, Clear
<1>4. link' = link /\ UNCHANGED <<kind, session, mutex, work, terminate, gui>>
  BY <1>3 DEF Proceeds, Sets, Feeds, Flags, Joins
<1>5. /\ PlanInv' /\ (Ending => Ending')
      /\ (Head(Transport).do = "disconnect" => Ending')
      /\ \A c \in Callback : Clears(c) /\ Head(Transport) # Clear(c) => Clears(c)'
  BY <1>1, <1>2, <1>4, TransportAdvances DEF Core
<1>6. EndingInv'
  <2>1. CASE "Disconnect" \in flags' /\ "Disconnect" \notin flags
    BY <1>2, <1>5, <2>1 DEF Proceeds, Sets, Feeds, Flags, Links, Joins, EndingInv, Facing, Transport
  <2> QED
    BY <1>4, <1>5, <2>1 DEF EndingInv, Core
<1>7. WorkInv'
  BY <1>4 DEF WorkInv, Core
<1>8. CallbackInv'
  <2>1. CASE Facing(t, "set") /\ Sets(t)
    <3>1. cb' = cb \union {Head(Transport).what} /\ "session" \in link
      BY <1>2, <1>3, <2>1 DEF Sets, Facing, Transport
    <3> QED
      BY <1>3, <1>4, <2>1, <3>1 DEF CallbackInv, Core
  <2>2. CASE Facing(t, "clear") /\ Sets(t)
    <3>1. cb' = cb \ {Head(Transport).what}
      BY <1>2, <1>3, <2>2 DEF Sets, Facing, Transport
    <3>2. \A c \in Callback : c # Head(Transport).what => Head(Transport) # Clear(c)
      BY <1>3, <2>2 DEF Clear
    <3>3. {"send", "close"} \subseteq Callback
      BY DEF Callback
    <3> QED
      BY <1>4, <1>5, <3>1, <3>2, <3>3 DEF CallbackInv, Core
  <2>3. CASE ~Sets(t)
    <3>1. cb' = cb /\ \A c \in Callback : Head(Transport) # Clear(c)
      BY <1>2, <1>3, <2>3 DEF Proceeds, Feeds, Flags, Joins, Facing, Transport, Clear
    <3>2. {"send", "close"} \subseteq Callback
      BY DEF Callback
    <3> QED
      BY <1>4, <1>5, <3>1, <3>2 DEF CallbackInv, Core
  <2> QED
    BY <2>1, <2>2, <2>3 DEF Sets
<1>9. ContextInv'
  <2>0. PICK t1 \in Seq(Step) : t1 = Transport
    BY Typed DEF Transport, Thread
  <2>1. t1 # <<>> /\ 1 \in DOMAIN t1 /\ t1[1] = Head(t1)
    BY <1>2, <2>0
  <2>2. CASE Facing(t, "set") /\ Sets(t)
    <3>1. cb' = cb \union {Head(Transport).what} /\ Head(Transport).do = "set"
      BY <1>2, <1>3, <2>2 DEF Sets, Facing, Transport
    <3>2. "context" \in cb'
      BY <2>0, <2>1, <3>1 DEF Core, ContextInv, Set
    <3> QED
      BY <3>2 DEF ContextInv
  <2>3. CASE ~(Facing(t, "set") /\ Sets(t))
    <3>1. cb' \subseteq cb /\ ("context" \in cb => "context" \in cb')
      BY <1>2, <1>3, <2>3 DEF Proceeds, Sets, Feeds, Flags, Links, Joins, Facing, Transport
    <3>2. Transport' = Tail(t1)
      BY <1>1, <1>2, <2>0, AdvanceIs DEF Transport, Thread
    <3>3. \A i \in DOMAIN Tail(t1) : i + 1 \in DOMAIN t1 /\ Tail(t1)[i] = t1[i + 1]
      BY ONLY <2>0, <2>1, TailIs
    <3>4. t1[1].do # "set"
      BY <1>2, <1>3, <2>0, <2>1, <2>3
      DEF Proceeds, Sets, Feeds, Flags, Links, Joins, Facing, Transport
    <3>5. (\E i \in DOMAIN Tail(t1) : Tail(t1)[i].do = "set") => "context" \in cb
      BY <2>0, <3>3, <3>4 DEF Core, ContextInv, Set
    <3> QED
      BY <3>1, <3>2, <3>5 DEF Core, ContextInv
  <2> QED
    BY <2>2, <2>3
<1>10. MutexInv'
  <2>1. cb' = cb \/ mutex = "free"
    BY DEF Proceeds, Sets, Feeds, Flags, Links, Joins
  <2> QED
    BY <1>4, <2>1 DEF MutexInv, Core, At
<1> QED
  BY <1>5, <1>6, <1>7, <1>8, <1>9, <1>10 DEF Core

(* The worker goes on inside its session. *)
LEMMA WorkerKeepsCore ==
    ASSUME TypeOK, Core, work # <<>>, Head(work) # "exit",
           UNCHANGED <<plan, link, cb, session>>, work' \in Seq(Ordinary),
           "Disconnect" \in flags' => "Disconnect" \in flags,
           terminate' => terminate \/ "Disconnect" \in flags,
           mutex' # "worker", mutex' = "gui" <=> mutex = "gui",
           gui' = "sends" <=> gui = "sends"
    PROVE  Core'
<1>1. session = "running"
  BY DEF Core, WorkInv
<1>2. PlanInv' /\ CallbackInv' /\ ContextInv'
  BY DEF Core, PlanInv, CallbackInv, ContextInv, Clears, Transport
<1>3. Ending => Ending'
  BY DEF Ending, Transport
<1>4. EndingInv'
  BY <1>1, <1>3 DEF Core, EndingInv
<1>5. WorkInv' /\ MutexInv'
  BY <1>1 DEF Core, WorkInv, MutexInv
<1> QED
  BY <1>2, <1>4, <1>5 DEF Core

LEMMA WorkKeepsCore ==
    ASSUME TypeOK, HoldInv, Core, kind # "Ble", Work
    PROVE  Core'
<1>1. work' \in Seq(Ordinary)
  <2>1. "restore" \notin Ordinary /\ "empty" \notin cb /\ work \in Seq(Ordinary)
    BY DEF Ordinary, Core, CallbackInv, WorkInv
  <2>2. mutex = "worker" => work # <<>>
    BY DEF HoldInv, At
  <2> QED
    BY <2>1, <2>2, WorkIs
<1>2. work # <<>> => Head(work) \in Ordinary
  BY DEF Core, WorkInv
<1>3. mutex = "worker" => At("reply") \/ At("tell")
  BY DEF HoldInv
<1>4. ~Restore /\ ~Restored
  BY <1>2 DEF Restore, Restored, At, Ordinary
<1>5. CASE Read \/ Look \/ EmptyCallbackReturns \/ Bytes \/ TakeBusy \/ GiveBusy \/ Fail
  <2>1. /\ work # <<>> /\ Head(work) # "exit" /\ ~At("reply") /\ ~At("tell")
        /\ UNCHANGED <<plan, link, cb, session, flags, terminate, mutex, gui>>
    BY <1>5 DEF Read, Look, EmptyCallbackReturns, Bytes, TakeBusy, GiveBusy, Fail, outside, At
  <2> QED
    BY <1>1, <1>3, <2>1, WorkerKeepsCore
<1>6. CASE StartStream \/ StopStream
  <2>1. /\ work # <<>> /\ Head(work) # "exit" /\ ~At("reply") /\ ~At("tell")
        /\ UNCHANGED <<plan, link, cb, session, flags, terminate, mutex>>
        /\ gui' = "sends" <=> gui = "sends"
    BY <1>6 DEF StartStream, StopStream, outside, At
  <2> QED
    BY <1>1, <1>3, <2>1, WorkerKeepsCore
<1>7. CASE Wait
  <2>1. /\ work # <<>> /\ Head(work) # "exit" /\ ~At("reply") /\ ~At("tell")
        /\ UNCHANGED <<plan, link, cb, session, mutex, gui>>
        /\ "Disconnect" \in flags' => "Disconnect" \in flags
        /\ terminate' => terminate \/ "Disconnect" \in flags
    BY <1>7 DEF Wait, outside, At
  <2> QED
    BY <1>1, <1>3, <2>1, WorkerKeepsCore
<1>8. CASE EnterCallback
  <2>1. CASE mutex' = "worker"
    <3>1. /\ UNCHANGED <<plan, link, cb, session, flags, terminate, gui, work>> /\ mutex = "free"
          /\ (At("reply") /\ "send" \in cb) \/ (At("tell") /\ "close" \in cb)
      BY <1>8, <2>1 DEF EnterCallback, outside
    <3>2. PlanInv' /\ CallbackInv' /\ ContextInv' /\ EndingInv' /\ WorkInv'
      BY <3>1 DEF Core, PlanInv, CallbackInv, ContextInv, EndingInv, WorkInv, Ending, Clears, Transport
    <3>3. MutexInv'
      BY <2>1, <3>1 DEF Core, MutexInv, At
    <3> QED
      BY <3>2, <3>3 DEF Core
  <2>2. CASE mutex' # "worker"
    <3>1. /\ work # <<>> /\ Head(work) # "exit"
          /\ UNCHANGED <<plan, link, cb, session, flags, terminate, mutex, gui>>
      BY <1>8, <2>2 DEF EnterCallback, outside, At
    <3> QED
      BY <1>1, <2>2, <3>1, WorkerKeepsCore
  <2> QED
    BY <2>1, <2>2
<1>9. CASE CallbackReturns
  <2>1. /\ work # <<>> /\ Head(work) # "exit" /\ mutex = "worker" /\ mutex' = "free"
        /\ UNCHANGED <<plan, link, cb, session, flags, terminate, gui>>
    BY <1>3, <1>9 DEF CallbackReturns, At
  <2> QED
    BY <1>1, <2>1, WorkerKeepsCore
<1>10. CASE Check
  <2>1. /\ work # <<>> /\ Head(work) # "exit" /\ mutex # "worker"
        /\ UNCHANGED <<plan, link, cb, flags, terminate, mutex, gui>>
    BY <1>3, <1>10 DEF Check, outside, At
  <2>2. CASE ~terminate
    <3>1. session' = session
      BY <1>10, <2>2 DEF Check
    <3> QED
      BY <1>1, <2>1, <3>1, WorkerKeepsCore
  <2>3. CASE terminate
    <3>1. session' = "pending" /\ work' = <<"exit">>
      BY <1>10, <2>3 DEF Check
    <3>2. PlanInv' /\ CallbackInv' /\ ContextInv'
      BY <2>1 DEF Core, PlanInv, CallbackInv, ContextInv, Clears, Transport
    <3>3. EndingInv'
      BY <2>1, <2>3 DEF Core, EndingInv, Ending, Transport
    <3>4. WorkInv' /\ MutexInv'
      BY <1>1, <2>1, <3>1 DEF Core, WorkInv, MutexInv
    <3> QED
      BY <3>2, <3>3, <3>4 DEF Core
  <2> QED
    BY <2>2, <2>3
<1>11. CASE Exit
  <2>1. /\ work # <<>> /\ Head(work) = "exit" /\ mutex # "worker" /\ work' = Tail(work)
        /\ UNCHANGED <<plan, link, cb, session, flags, terminate, mutex, gui>>
    BY <1>3, <1>11 DEF Exit, outside, At, Done
  <2>2. PlanInv' /\ CallbackInv' /\ ContextInv' /\ EndingInv' /\ MutexInv'
    BY <2>1 DEF Core, PlanInv, CallbackInv, ContextInv, EndingInv, Ending, MutexInv, Clears, Transport
  <2>3. work = <<"exit">> => Tail(work) = <<>>
    OBVIOUS
  <2>4. WorkInv'
    BY <1>1, <2>1, <2>3 DEF Core, WorkInv
  <2> QED
    BY <2>2, <2>4 DEF Core
<1> QED
  BY <1>4, <1>5, <1>6, <1>7, <1>8, <1>9, <1>10, <1>11 DEF Work

LEMMA CallersKeepCore ==
    ASSUME TypeOK, HoldInv, Core, kind # "Ble", Open \/ Feed \/ TransportCloses
    PROVE  Core'
<1>1. /\ SetupPlan(kind) \in Seq(Step) /\ SetupPlan(kind) \in Seq(Using)
      /\ SetupPlan(kind)[1] = Set("context")
      /\ FeedPlan(kind) \in Seq(Step) /\ FeedPlan(kind) \in Seq(Using)
      /\ \A i \in DOMAIN FeedPlan(kind) : FeedPlan(kind)[i].do # "set"
  BY Typed, SetupPlanIs, FeedPlanIs
<1>2. {"transport", "service"} = Thread
  BY DEF Thread
<1>3. CASE Open
  <2>1. plan' \in [Thread -> Seq(Step)] /\ plan'["transport"] = SetupPlan(kind)
        /\ plan'["service"] = plan["service"]
    BY <1>1, <1>2, <1>3, StartsIs DEF Open
  <2>2. "session" \in link' /\ link' \subseteq {"session"}
    BY <1>3 DEF Open, Core, PlanInv
  <2>3. PlanInv' /\ EndingInv' /\ CallbackInv' /\ ContextInv'
    BY <1>1, <1>3, <2>1, <2>2 DEF Open, Core, PlanInv, EndingInv, CallbackInv, ContextInv, Transport
  <2>4. <<"read">> \in Seq(Ordinary)
    BY DEF Ordinary, Place
  <2>5. WorkInv'
    BY <1>3, <2>4 DEF Open, WorkInv
  <2>6. mutex = "free" /\ gui = "none"
    BY <1>3, Typed DEF Open, Core, MutexInv, HoldInv, At
  <2>7. MutexInv'
    BY <1>3, <2>6 DEF Open, MutexInv
  <2> QED
    BY <2>3, <2>5, <2>7 DEF Core
<1>4. CASE Feed
  <2>1. "session" \in link /\ link' = link
    BY <1>4 DEF Feed
  <2>2. plan' \in [Thread -> Seq(Step)] /\ plan'["transport"] = FeedPlan(kind)
        /\ plan'["service"] = plan["service"]
    BY <1>1, <1>2, <1>4, <2>1, StartsIs DEF Feed
  <2>3. PlanInv' /\ EndingInv' /\ CallbackInv' /\ ContextInv'
    BY <1>1, <1>4, <2>1, <2>2
    DEF Feed, Core, PlanInv, EndingInv, CallbackInv, ContextInv, Ending, Transport
  <2>4. WorkInv' /\ MutexInv'
    BY <1>4 DEF Feed, Core, WorkInv, MutexInv, At
  <2> QED
    BY <2>3, <2>4 DEF Core
<1>5. CASE TransportCloses
  <2>1. /\ ClosePlan(kind) \in Seq(Step) /\ ClosePlan(kind) \in Seq(Closing)
        /\ \A c \in {"send", "close"} : \E i \in DOMAIN ClosePlan(kind) :
                ClosePlan(kind)[i] = Clear(c)
        /\ \A i, j \in DOMAIN ClosePlan(kind) :
                i < j /\ ClosePlan(kind)[i].do = "disconnect" => ClosePlan(kind)[j].do = "join"
    BY Typed, ClosePlanIs
  <2>2. plan' \in [Thread -> Seq(Step)] /\ plan'["transport"] = ClosePlan(kind)
        /\ plan'["service"] = plan["service"]
    BY <1>2, <1>5, <2>1, StartsIs DEF TransportCloses
  <2>3. "session" \in link /\ link' = {}
    BY <1>5 DEF TransportCloses
  <2>4. PlanInv'
    BY <2>1, <2>2, <2>3 DEF Core, PlanInv, Transport
  <2>5. EndingInv'
    BY <1>5, <2>3 DEF TransportCloses, Core, EndingInv, Ending
  <2>6. CallbackInv'
    BY <1>5, <2>1, <2>2 DEF TransportCloses, Core, CallbackInv, Clears, Transport
  <2>7. WorkInv' /\ MutexInv'
    BY <1>5 DEF TransportCloses, Core, WorkInv, MutexInv, At
  <2>8. ContextInv'
    <3>1. \A i \in DOMAIN ClosePlan(kind) : ClosePlan(kind)[i] \in Closing
      BY <2>1
    <3>2. \A i \in DOMAIN ClosePlan(kind) : ClosePlan(kind)[i].do # "set"
      BY <3>1 DEF Closing
    <3> QED
      BY <1>5, <2>2, <3>2 DEF TransportCloses, Core, ContextInv, Transport
  <2> QED
    BY <2>4, <2>5, <2>6, <2>7, <2>8 DEF Core
<1> QED
  BY <1>3, <1>4, <1>5

LEMMA OthersKeepCore ==
    ASSUME TypeOK, HoldInv, Core,
           Frame \/ SendFrame \/ Timer \/ OtherTakesBusy \/ OtherGivesBusy
    PROVE  Core'
<1>1. UNCHANGED <<plan, link, cb, work, flags, terminate>>
  BY DEF Frame, SendFrame, Timer, FreeSystems, CallTerminated, FreeSession, OtherTakesBusy,
         OtherGivesBusy, quiet
<1>2. PlanInv' /\ CallbackInv' /\ ContextInv'
  BY <1>1 DEF Core, PlanInv, CallbackInv, ContextInv, Clears, Transport
<1>3. session' = session \/ Timer
  BY DEF Frame, SendFrame, OtherTakesBusy, OtherGivesBusy
<1>4. Timer => session # "running"
  BY DEF Timer, FreeSystems, CallTerminated, FreeSession
<1>5. EndingInv'
  BY <1>1, <1>3, <1>4 DEF Core, EndingInv, Ending, Transport
<1>6. WorkInv'
  BY <1>1, <1>3, <1>4 DEF Core, WorkInv
<1>7. MutexInv'
  <2>1. CASE Frame \/ SendFrame
    BY <1>1, <2>1, Typed DEF Frame, SendFrame, Core, MutexInv, At
  <2>2. CASE Timer
    BY <1>1, <2>2 DEF Timer, FreeSystems, CallTerminated, FreeSession, Core, MutexInv, At
  <2>3. CASE OtherTakesBusy \/ OtherGivesBusy
    BY <1>1, <2>3 DEF OtherTakesBusy, OtherGivesBusy, Core, MutexInv, At
  <2> QED
    BY <2>1, <2>2, <2>3
<1> QED
  BY <1>2, <1>5, <1>6, <1>7 DEF Core

LEMMA InvHolds == Spec => []Inv
<1>1. Init => Inv
  <2> SUFFICES ASSUME Init PROVE Inv
    OBVIOUS
  <2>1. <<>> \in Seq(Step) /\ <<>> \in Seq(Place) /\ <<>> \in Seq(Ordinary) /\ <<>> \in Seq(Closing)
        /\ DOMAIN <<>> = {}
    OBVIOUS
  <2>2. plan \in [Thread -> Seq(Step)] /\ plan["transport"] = <<>> /\ plan["service"] = <<>>
    BY <2>1 DEF Init, Thread
  <2>3. TypeOK
    <3>1. 0 \in 0..StreamSize /\ "none" \in Life
      BY DEF Life
    <3>2. {FALSE} \subseteq BOOLEAN
      OBVIOUS
    <3>3. /\ kind \in Kinds /\ session \in Life /\ stream \in 0..StreamSize
          /\ plan \in [Thread -> Seq(Step)] /\ work \in Seq(Place)
      BY <2>1, <2>2, <3>1 DEF Init
    <3>4. /\ link \subseteq {"session", "listen"} /\ cb \subseteq Callback
          /\ flags \subseteq {"Data", "Disconnect"}
          /\ {terminate, decode_error, asked} \subseteq BOOLEAN
      BY <3>2 DEF Init
    <3>5. /\ mutex \in {"free", "worker", "gui"} /\ busy \in {"free", "worker", "other"}
          /\ gui \in {"none", "idle", "wants", "sends"}
      BY DEF Init
    <3> QED
      BY <3>3, <3>4, <3>5 DEF TypeOK
  <2>4. HoldInv
    BY DEF Init, HoldInv
  <2>5. PlanInv /\ EndingInv
    BY <2>1, <2>2 DEF Init, PlanInv, EndingInv, Ending, Transport
  <2>6. WorkInv /\ CallbackInv /\ ContextInv /\ MutexInv
    BY <2>1, <2>2 DEF Init, WorkInv, CallbackInv, ContextInv, MutexInv, Transport
  <2> QED
    BY <2>3, <2>4, <2>5, <2>6 DEF Inv, Core
<1>2. Inv /\ [Next]_vars => Inv'
  <2> SUFFICES ASSUME Inv, [Next]_vars PROVE Inv'
    OBVIOUS
  <2>1. CASE UNCHANGED vars
    BY <2>1 DEF vars, Inv, TypeOK, HoldInv, Core, PlanInv, EndingInv, Ending, WorkInv, CallbackInv,
       ContextInv, MutexInv, Clears, Transport, At
  <2>2. CASE Next /\ Halt
    BY <2>1, <2>2 DEF Halt
  <2>3. CASE Next /\ ~Crashed
    <3>1. TypeOK' /\ HoldInv'
      BY <2>3, TypesKept, HoldsOn DEF Inv
    <3>2. kind' = kind
      BY <2>3, WorkerActs DEF Next, Halt, vars, Open, Feed, TransportCloses, ServiceCloses, Proceeds,
         Sets, Feeds, Flags, Links, Joins, Frame, SendFrame, Timer, FreeSystems, CallTerminated,
         FreeSession, OtherTakesBusy, OtherGivesBusy, quiet
    <3>3. ASSUME kind # "Ble" PROVE Core'
      <4>1. ~ServiceCloses
        BY <3>3 DEF ServiceCloses
      <4> QED
        BY <2>3, <3>3, <4>1, CallersKeepCore, OutsideKeepsCore, WorkKeepsCore, OthersKeepCore
        DEF Inv, Next, Halt
    <3> QED
      BY <3>1, <3>2, <3>3 DEF Inv
  <2> QED
    BY <2>1, <2>2, <2>3 DEF Next, Halt
<1> QED
  BY <1>1, <1>2, PTL DEF Spec

--------------------------------------------------------------------------------
(* What rpc.c promises. *)

(* Every variable keeps its type, whoever owns the session. *)
THEOREM TypeCorrect == Spec => []TypeOK
<1>1. Inv => TypeOK
  BY DEF Inv
<1> QED
  BY <1>1, InvHolds, PTL

(* A session of the USB port or of the UART calls nobody back once rpc_session_close has
   returned: the callbacks are taken away under the mutex that they are called under. *)
THEOREM ClosedCallsNobody == Spec => []NoCallbackAfterClose
<1>1. Inv => NoCallbackAfterClose
  <2> SUFFICES ASSUME Inv, kind # "Ble", Closed PROVE ~InCallback
    BY DEF NoCallbackAfterClose, CloseEndsCallbacks
  <2>1. Core /\ TypeOK
    BY DEF Inv
  <2>2. "session" \notin link
    BY <2>1, FacingIs DEF Closed, Core, Using, Closing
  <2>3. PICK t1 \in Seq(Step) : t1 = Transport
    BY <2>1, Typed DEF Transport, Thread
  <2>4. \A i \in DOMAIN t1 : t1[i].do # "clear"
    BY <2>3 DEF Closed, Transport, Thread
  <2>5. \A c \in {"send", "close"} : c \notin cb
    BY <2>1, <2>2, <2>3, <2>4 DEF Core, CallbackInv, Clears, Clear
  <2>6. mutex \notin {"worker", "gui"}
    BY <2>1, <2>5 DEF Core, MutexInv
  <2>7. ~At("empty")
    <3>1. work # <<>> => Head(work) \in Ordinary
      BY <2>1 DEF Core, WorkInv
    <3> QED
      BY <3>1 DEF At, Ordinary
  <2> QED
    BY <2>6, <2>7 DEF InCallback
<1> QED
  BY <1>1, InvHolds, PTL

(* The timer task frees a session of the USB port or of the UART, its stream and its
   systems, only when no thread feeds it, closes it or sends through it any more. *)
THEOREM SessionOutlives == Spec => []SessionOutlivesItsUsers
<1>1. Inv => SessionOutlivesItsUsers
  <2> SUFFICES ASSUME Inv, kind # "Ble"
               PROVE  /\ \A t \in Thread : ~FeedsFreed(t) /\ ~CallsFreed(t)
                      /\ ~GuiUsesFreed
    BY DEF SessionOutlivesItsUsers
  <2>1. Core /\ TypeOK
    BY DEF Inv
  <2>2. ASSUME NEW t \in Thread, NEW d \in {"feed", "flag", "avail", "set", "clear", "disconnect"},
               Facing(t, d)
        PROVE  session = "running"
    <3>1. /\ Transport # <<>> /\ Head(Transport).do # "join"
      BY <2>1, <2>2, FacingIs DEF Core
    <3>2. PICK t1 \in Seq(Step) : t1 = Transport
      BY <2>1, Typed DEF Transport, Thread
    <3>3. 1 \in DOMAIN t1 /\ t1[1] = Head(t1)
      BY <3>1, <3>2
    <3>4. ~Ending
      BY <3>1, <3>2, <3>3 DEF Ending
    <3> QED
      BY <2>1, <3>4 DEF Core, EndingInv
  <2>3. \A t \in Thread : ~FeedsFreed(t) /\ ~CallsFreed(t)
    BY <2>2 DEF FeedsFreed, CallsFreed
  <2>4. ~GuiUsesFreed
    BY <2>1 DEF Core, MutexInv, GuiUsesFreed
  <2> QED
    BY <2>3, <2>4
<1> QED
  BY <1>1, InvHolds, PTL

(* No thread uses a session of the USB port or of the UART through a NULL pointer, or
   through memory that is freed, and no callback of it is called without its context. *)
NoCrash == kind # "Ble" => ~Crashed

(* Nothing that rpc.c leaves to its callers (the order of the set-up, one close, no feed after
   it) is broken by rpc_cli.c or by expansion_worker.c. *)
THEOREM WiredSessionsDoNotCrash == Spec => []NoCrash
<1>1. Inv /\ SessionOutlivesItsUsers => NoCrash
  <2> SUFFICES ASSUME Inv, SessionOutlivesItsUsers, kind # "Ble" PROVE ~Crashed
    BY DEF NoCrash
  <2>1. Core /\ TypeOK
    BY DEF Inv
  <2>2. ~UsesNull
    BY <2>1, FacingIs DEF UsesNull, Core, Using, Closing, Thread
  <2>3. ~(InCallback /\ "context" \notin cb)
    <3>1. work # <<>> => Head(work) \in Ordinary
      BY <2>1 DEF Core, WorkInv
    <3>2. ~At("empty")
      BY <3>1 DEF At, Ordinary
    <3>3. mutex \in {"worker", "gui"} => cb # {}
      BY <2>1 DEF Core, MutexInv
    <3> QED
      BY <2>1, <3>2, <3>3 DEF InCallback, Core, ContextInv
  <2> QED
    BY <2>2, <2>3 DEF Crashed, SessionOutlivesItsUsers
<1> QED
  BY <1>1, InvHolds, SessionOutlives, PTL
================================================================================
