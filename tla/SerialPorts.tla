------------------------------ MODULE SerialPorts -------------------------------
(***************************************************************************)
(* What the serial control service promises about the UARTs, without its   *)
(* queue and its requests: a port has one holder, who alone gives it back, *)
(* one port at a time is watched for a module, and the pin of the watched  *)
(* port is deaf only while somebody holds it. SerialControl is the service *)
(* that keeps this promise, Expansion the client that relies on it.        *)
(***************************************************************************)
CONSTANTS Port, None, Holder

VARIABLES
    held,     \* who holds which port
    watched,  \* the port that is watched, or None
    ears      \* the ports whose RX pin interrupts

vars == <<held, watched, ears>>

Init == held = {} /\ watched = None /\ ears = {}

(* The log, which borrows ports, sets the watch up again around each of its moves,
   and the port may then be one that is held. *)
SetUpAgain == ears' = {watched} \ {None}

Acquire(c, p) ==
    /\ \A h \in held : h[2] /= p
    /\ held' = held \union {<<c, p>>}
    /\ ears' = ears \ {p} \/ SetUpAgain
    /\ UNCHANGED watched

Release(c, p) ==
    /\ <<c, p>> \in held
    /\ held' = held \ {<<c, p>>}
    /\ ears' = ears \union ({watched} \intersect {p}) \/ SetUpAgain
    /\ UNCHANGED watched

LogMoves == SetUpAgain /\ UNCHANGED <<held, watched>>

(* A port is watched; what was watched before is not any more. *)
Watch(p) ==
    /\ watched' = p /\ ears' = {p}
    /\ UNCHANGED held

Unwatch ==
    /\ watched' = None /\ ears' = {}
    /\ UNCHANGED held

Next ==
    \/ \E c \in Holder, p \in Port : Acquire(c, p) \/ Release(c, p)
    \/ \E p \in Port : Watch(p)
    \/ Unwatch \/ LogMoves

Spec == Init /\ [][Next]_vars

(* What a client can rely on: nobody else has its port, and a module that is plugged
   into the watched port is noticed, unless somebody holds that port. *)
Promise ==
    /\ \A g, h \in held : g[2] = h[2] => g = h
    /\ ears \subseteq {watched} \ {None}
    /\ watched /= None /\ (\A h \in held : h[2] /= watched) => watched \in ears
================================================================================
