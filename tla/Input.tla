---------------------------------- MODULE Input -----------------------------------
(***************************************************************************)
(* The input service, applications/services/input/input.c: a thread that    *)
(* debounces the keys and publishes Press and Release, and one timer for    *)
(* each key, whose callback counts the time the key is held and publishes   *)
(* Long and Repeat from the timer task. A short press is told by a counter  *)
(* that both write. Publishing takes the mutex of the pubsub, and holds it  *)
(* while the subscriber, the gui, has no room in its queue.                 *)
(***************************************************************************)
EXTENDS Naturals

CONSTANTS
    KeyCount,       \* input_pins_count
    DebounceTicks,  \* INPUT_DEBOUNCE_TICKS
    QueueSize       \* the size of the gui's input_queue

ASSUME KeyAssumption == KeyCount \in Nat \ {0}
ASSUME DebounceAssumption == DebounceTicks \in Nat /\ DebounceTicks >= 2
ASSUME QueueAssumption == QueueSize \in Nat \ {0}

Key == 1..KeyCount
LongPressCounts == 2
Publisher == {"srv", "task"}  \* the service's thread and the timer task

VARIABLES
    level,   \* whether each key is down, as GPIO_Read tells
    isr,     \* INPUT_THREAD_FLAG_ISR
    pin,     \* InputPinState of each key
    timer,   \* press_timer of each key, and the command to it not carried out yet
    pub,     \* for each publisher, what it does and the event it publishes
    scan,    \* the loop of the service: the key it is at and is_changing
    mutex,   \* who holds the mutex of the pubsub
    queued,  \* how many events the gui has not taken
    told     \* (observed) for each key, what the subscribers have been told

vars == <<level, isr, pin, timer, pub, scan, mutex, queued, told>>

(* The start of input_srv. A key that is held then is taken as it is. *)
Init ==
    /\ level \in [Key -> BOOLEAN]
    /\ isr = FALSE
    /\ pin = [k \in Key |-> [state |-> level[k], debounce |-> DebounceTicks \div 2, counter |-> 0]]
    /\ timer = [k \in Key |-> [active |-> FALSE, command |-> "none"]]
    /\ pub = [p \in Publisher |-> [pc |-> IF p = "srv" THEN "scan" ELSE "idle",
                                   key |-> 1, type |-> "Press"]]
    /\ scan = [key |-> 1, changing |-> FALSE]
    /\ mutex = "none"
    /\ queued = 0
    /\ told = [k \in Key |-> [down |-> level[k], outcomes |-> 0]]

(* A key moves, or bounces, and input_isr runs. *)
PinMoves(k) ==
    /\ level' = [level EXCEPT ![k] = ~@]
    /\ isr' = TRUE
    /\ UNCHANGED <<pin, timer, pub, scan, mutex, queued, told>>

--------------------------------------------------------------------------------
(* furi_pubsub_publish, with gui_input_events_callback inside. *)

Publishes(p, k, type) == [pub EXCEPT ![p] = [pc |-> "lock", key |-> k, type |-> type]]

Lock(p) ==
    /\ pub[p].pc = "lock"
    /\ mutex = "none"
    /\ mutex' = p
    /\ pub' = [pub EXCEPT ![p].pc = "put"]
    /\ UNCHANGED <<level, isr, pin, timer, scan, queued, told>>

(* The event is in the queue: what the subscribers know now of a key. *)
Told(p) ==
    LET e == pub[p]
    IN  CASE e.type = "Press"     -> [told EXCEPT ![e.key].down = TRUE]
          [] e.type = "Release"   -> [told EXCEPT ![e.key] = [down |-> FALSE, outcomes |-> 0]]
          [] e.type = "Repeat"    -> told
          [] OTHER                -> [told EXCEPT ![e.key].outcomes = @ + 1]

Put(p) ==
    /\ pub[p].pc = "put"
    /\ queued < QueueSize
    /\ queued' = queued + 1
    /\ mutex' = "none"
    /\ told' = Told(p)

GuiTakes ==
    /\ queued > 0
    /\ queued' = queued - 1
    /\ UNCHANGED <<level, isr, pin, timer, pub, scan, mutex, told>>

--------------------------------------------------------------------------------
(* The loop of input_srv. *)

Debounced(k) == IF level[k]
                THEN IF pin[k].debounce < DebounceTicks THEN pin[k].debounce + 1 ELSE DebounceTicks
                ELSE IF pin[k].debounce > 0 THEN pin[k].debounce - 1 ELSE 0

(* The next key; after the last one a tick is waited for, or an interrupt. *)
NextKey(changing) ==
    IF scan.key < KeyCount
    THEN /\ scan' = [key |-> scan.key + 1, changing |-> changing]
         /\ pub' = [pub EXCEPT !["srv"].pc = "scan"]
    ELSE /\ scan' = [key |-> 1, changing |-> FALSE]
         /\ pub' = [pub EXCEPT !["srv"].pc = IF changing THEN "scan" ELSE "wait"]

(* The value read is used throughout the step. *)
ScanKey ==
    /\ pub["srv"].pc = "scan"
    /\ LET k == scan.key
           d == Debounced(k)
       IN  \/ /\ d \in 1..(DebounceTicks - 1)
              /\ pin' = [pin EXCEPT ![k].debounce = d]
              /\ NextKey(TRUE)
              /\ UNCHANGED timer
           \/ /\ d \notin 1..(DebounceTicks - 1)
              /\ pin[k].state = level[k]
              /\ pin' = [pin EXCEPT ![k].debounce = d]
              /\ NextKey(scan.changing)
              /\ UNCHANGED timer
           \/ /\ d \notin 1..(DebounceTicks - 1)
              /\ pin[k].state /= level[k]
              /\ pin' = [pin EXCEPT ![k].debounce = d, ![k].state = level[k]]
              /\ timer' = [timer EXCEPT ![k].command = IF level[k] THEN "start" ELSE "stop"]
              /\ pub' = IF level[k] THEN Publishes("srv", k, "Press")
                                    ELSE [pub EXCEPT !["srv"].pc = "stopping"]
              /\ UNCHANGED scan
    /\ UNCHANGED <<level, isr, mutex, queued, told>>

(* The timer has stopped: its callback has not run since and does not run again. *)
TimerStoppedFault(k) == TRUE  \* the stop is not waited for
TimerStopped(k) == ~timer[k].active

KeyLetGo ==
    /\ pub["srv"].pc = "stopping"
    /\ LET k == scan.key
       IN  /\ TimerStopped(k)
           /\ \/ /\ pin[k].counter < LongPressCounts
                 /\ pub' = Publishes("srv", k, "Short")
                 /\ UNCHANGED pin
              \/ /\ pin[k].counter >= LongPressCounts
                 /\ pub' = Publishes("srv", k, "Release")
                 /\ pin' = [pin EXCEPT ![k].counter = 0]
    /\ UNCHANGED <<level, isr, timer, scan, mutex, queued, told>>

Published ==
    /\ Put("srv")
    /\ \/ /\ pub["srv"].type = "Short"
          /\ pub' = Publishes("srv", scan.key, "Release")
          /\ pin' = [pin EXCEPT ![scan.key].counter = 0]
          /\ UNCHANGED scan
       \/ /\ pub["srv"].type /= "Short"
          /\ NextKey(scan.changing)
          /\ UNCHANGED pin
    /\ UNCHANGED <<level, isr, timer>>

AwaitInterruptFault ==  \* an interrupt before the wait is cleared
    /\ pub["srv"].pc = "wait" /\ isr
    /\ isr' = FALSE
    /\ \E pc \in {"wait", "scan"} : pub' = [pub EXCEPT !["srv"].pc = pc]
    /\ UNCHANGED <<level, pin, timer, scan, mutex, queued, told>>

AwaitInterrupt ==
    /\ pub["srv"].pc = "wait" /\ isr
    /\ isr' = FALSE
    /\ pub' = [pub EXCEPT !["srv"].pc = "scan"]
    /\ UNCHANGED <<level, pin, timer, scan, mutex, queued, told>>

SrvStep == ScanKey \/ KeyLetGo \/ Published \/ AwaitInterrupt \/ Lock("srv")

--------------------------------------------------------------------------------
(* The timer task. It empties its queue of commands before it looks for the next
   timer that has expired. *)

TimerCommands ==
    /\ pub["task"].pc = "idle"
    /\ \E k \in Key : timer[k].command /= "none"
    /\ timer' = [k \in Key |->
          [active |-> CASE timer[k].command = "start" -> TRUE
                        [] timer[k].command = "stop"  -> FALSE
                        [] OTHER                      -> timer[k].active,
           command |-> "none"]]
    /\ UNCHANGED <<level, isr, pin, pub, scan, mutex, queued, told>>

(* input_press_timer_callback. *)
Counted(k) ==
    LET n == pin[k].counter + 1
    IN  CASE n < LongPressCounts -> [n |-> n, type |-> "none"]
          [] n = LongPressCounts -> [n |-> n, type |-> "Long"]
          [] OTHER               -> [n |-> n - 1, type |-> "Repeat"]

TimerFires(k) ==
    /\ pub["task"].pc = "idle"
    /\ timer[k].active
    /\ pin' = [pin EXCEPT ![k].counter = Counted(k).n]
    /\ pub' = IF Counted(k).type = "none" THEN pub ELSE Publishes("task", k, Counted(k).type)
    /\ UNCHANGED <<level, isr, timer, scan, mutex, queued, told>>

TimerPublished ==
    /\ Put("task")
    /\ pub' = [pub EXCEPT !["task"].pc = "idle"]
    /\ UNCHANGED <<level, isr, pin, timer, scan>>

Next ==
    \/ SrvStep
    \/ TimerCommands \/ TimerPublished \/ Lock("task")
    \/ GuiTakes
    \/ \E k \in Key : PinMoves(k) \/ TimerFires(k)

Spec == Init /\ [][Next]_vars

(* The gui takes its events; the threads run, the waiters of the mutex get it in
   turn, and the timer task obeys its commands between any two callbacks. No key
   has to move and no timer to expire. *)
FairSpec ==
    /\ Spec
    /\ WF_vars(GuiTakes \/ TimerPublished)
    /\ SF_vars(SrvStep)
    /\ SF_vars(TimerCommands)
    /\ SF_vars(Lock("task"))

--------------------------------------------------------------------------------
(* Properties. *)

(* The types of the pins, the timers and the publishers. *)
TypeOK ==
    /\ level \in [Key -> BOOLEAN] /\ isr \in BOOLEAN
    /\ pin \in [Key -> [state : BOOLEAN, debounce : 0..DebounceTicks, counter : 0..LongPressCounts]]
    /\ timer \in [Key -> [active : BOOLEAN, command : {"none", "start", "stop"}]]
    /\ pub \in [Publisher -> [pc : {"idle", "scan", "stopping", "wait", "lock", "put"}, key : Key,
                              type : {"Press", "Short", "Long", "Repeat", "Release"}]]
    /\ scan \in [key : Key, changing : BOOLEAN]
    /\ mutex \in Publisher \union {"none"}
    /\ queued \in 0..QueueSize
    /\ told \in [Key -> [down : BOOLEAN, outcomes : 0..2]]

(* Whatever the order in which the service and the timer task publish, a key that
   is let go was told to be either short or long, once: when Release is published
   exactly one of the two has been, and the timer task publishes nothing more of a
   key that has been released. *)
OneOutcome ==
    /\ \A k \in Key :
        /\ told[k].outcomes <= 1
        /\ pub["srv"].pc = "put" /\ pub["srv"].type = "Release" /\ scan.key = k
           => told[k].outcomes = 1
    /\ pub["task"].pc \in {"lock", "put"} =>
        LET k == pub["task"].key
        IN  told[k].down \/ pin[k].state

(* No movement of a key is lost between the scan and the wait for the interrupt: a
   key that stays down, or up, is told to be so. *)
LevelIsTold ==
    \A k \in Key : /\ []<>(level[k] => told[k].down)
                   /\ []<>(told[k].down => level[k])
================================================================================
