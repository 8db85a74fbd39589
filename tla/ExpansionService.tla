--------------------------- MODULE ExpansionService ----------------------------
(***************************************************************************)
(* What the expansion service promises about the serial ports, without its *)
(* threads, its queue and its messages: "Only one serial port can be used  *)
(* to communicate with an expansion module at a time" (expansion.h). The   *)
(* service is off, listens for a module on one port, or is attached to the *)
(* module that it detected there; it takes the port's handle only while it *)
(* is attached, and gives it back before it listens again or goes off.     *)
(***************************************************************************)
CONSTANTS Serial, NoSerial

VARIABLES
    mode,   \* "off", "listening" or "attached"
    port,   \* the port of a service that is not off
    held    \* the service holds the handle of its port

vars == <<mode, port, held>>

Init == mode = "off" /\ port = NoSerial /\ held = FALSE

Off ==
    /\ ~held
    /\ mode' = "off" /\ port' = NoSerial
    /\ UNCHANGED held

(* expansion_enable, expansion_set_listen_serial, the end of a module. *)
Listen(s) ==
    /\ ~held
    /\ mode' = "listening" /\ port' = s
    /\ UNCHANGED held

(* A module is detected, on the port under detection only. *)
Attach ==
    /\ mode = "listening"
    /\ mode' = "attached"
    /\ UNCHANGED <<port, held>>

Hold ==
    /\ mode = "attached" /\ ~held
    /\ held' = TRUE
    /\ UNCHANGED <<mode, port>>

Drop ==
    /\ held
    /\ held' = FALSE
    /\ UNCHANGED <<mode, port>>

Next == Off \/ Attach \/ Hold \/ Drop \/ \E s \in Serial : Listen(s)

Spec == Init /\ [][Next]_vars
================================================================================
