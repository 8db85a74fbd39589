-------------------------- MODULE ExpansionWorkerLife --------------------------
(***************************************************************************)
(* What the control thread of the expansion service relies on about a      *)
(* worker thread: the phases that Expansion.tla gives its worker, without  *)
(* the queue and the serial handles. ExpansionWorker.tla is shown to       *)
(* implement it.                                                           *)
(***************************************************************************)
VARIABLES
    phase,  \* where the thread is
    stop,   \* the Stop flag is pending
    user    \* the exit reason is User: the exit callback is not invoked

vars == <<phase, stop, user>>

Init == phase = "new" /\ stop = FALSE /\ user = FALSE

Talking == phase \in {"handshake", "connected"}

Goes(from, to) == phase = from /\ phase' = to /\ UNCHANGED <<stop, user>>

(* The control thread asks it to stop; the flag of an ended thread is lost. *)
Stop == phase /= "gone" /\ stop' = TRUE /\ UNCHANGED <<phase, user>>

(* Only a worker that has not been told, or lost what it was told, goes on. *)
SeesStop ==
    /\ Talking /\ stop
    /\ stop' = FALSE /\ user' = TRUE
    /\ phase' \in {phase, "release"}

TimesOut ==
    /\ Talking
    /\ user' = FALSE
    /\ phase' \in {phase, "release"}
    /\ UNCHANGED stop

Fails == Talking /\ phase' = "release" /\ UNCHANGED <<stop, user>>

Next ==
    \/ Goes("new", "handshake")
    \/ Goes("handshake", "putConnected")
    \/ Goes("putConnected", "connected")
    \/ Stop \/ SeesStop \/ TimesOut \/ Fails
    \/ Goes("release", IF user THEN "gone" ELSE "putExit")
    \/ Goes("putExit", "gone")

Spec == Init /\ [][Next]_vars
================================================================================
