---------------------------- MODULE StorageService -----------------------------
(***************************************************************************)
(* What the storage service promises about open files, without its queue,  *)
(* its tables, its addresses and the state of its card: a path is open for *)
(* one File at a time, a caller that wants an open path sleeps until some  *)
(* file is closed, and no path is removed or renamed while it is open. A   *)
(* path is a string to the service: nothing is promised of another         *)
(* spelling of it, nor of the directories above it.                        *)
(***************************************************************************)
CONSTANTS Client, Base

Path == [vol : {"ext", "int"}, base : Base]

VARIABLES
    opened,  \* which File has which path open, or has failed to open it
    usable,  \* those of them whose handle reaches the file
    files,   \* the files that exist
    asleep   \* the callers that wait for a close, with the name they want

vars == <<opened, usable, files, asleep>>

IsOpen(p) == \E h \in opened : h[2] = p

Init == opened = {} /\ usable = {} /\ files = {} /\ asleep = {}

(* storage_file_open, of a path that is not open. *)
Open(f, p) ==
    /\ \A h \in opened : h[1] /= f /\ h[2] /= p
    /\ opened' = opened \union {<<f, p>>}
    /\ \/ usable' = usable \union {<<f, p>>} /\ files' = files \union {p}
       \/ UNCHANGED <<usable, files>>
    /\ UNCHANGED asleep

(* The path was open. *)
Sleep(f, b) ==
    /\ \E p \in Path : p.base = b /\ IsOpen(p)
    /\ asleep' = asleep \union {<<f, b>>}
    /\ UNCHANGED <<opened, usable, files>>

(* storage_file_close: the File's own entry goes, and everybody is woken. *)
Close(f, p) ==
    /\ <<f, p>> \in opened
    /\ opened' = opened \ {<<f, p>>}
    /\ usable' = usable \ {<<f, p>>}
    /\ asleep' = {}
    /\ UNCHANGED files

(* storage_common_remove. *)
Remove(p) ==
    /\ ~IsOpen(p)
    /\ files' = files \ {p}
    /\ UNCHANGED <<opened, usable, asleep>>

(* storage_common_rename: a file on the card replaces no other. *)
Rename(p, to) ==
    /\ p \in files /\ ~IsOpen(p)
    /\ to.vol = p.vol /\ (p.vol = "ext" => to \notin files)
    /\ files' = (files \ {p}) \union {to}
    /\ UNCHANGED <<opened, usable, asleep>>

(* The card is taken out, or mounted or formatted: its handles reach no file. *)
LoseCard ==
    /\ usable' = {h \in usable : h[2].vol = "int"}
    /\ files' \in {files, {p \in files : p.vol = "int"}}
    /\ UNCHANGED <<opened, asleep>>

Next ==
    \/ LoseCard
    \/ \E f \in Client, p \in Path : Open(f, p) \/ Close(f, p)
    \/ \E f \in Client, b \in Base : Sleep(f, b)
    \/ \E p \in Path : Remove(p) \/ \E to \in Path : Rename(p, to)

Spec == Init /\ [][Next]_vars
================================================================================
