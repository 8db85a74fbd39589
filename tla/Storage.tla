-------------------------------- MODULE Storage ---------------------------------
(***************************************************************************)
(* The storage service, applications/services/storage: one thread that      *)
(* serves file operations from a queue, keeps for each volume the table of  *)
(* the open files, and between messages follows the SD card. A File finds   *)
(* its entry of the table by its file_id, the address of a list node. An    *)
(* open of a path that is open already is not refused to the caller: it     *)
(* waits for the event of a close and tries again. A directory is opened,   *)
(* waited for and closed like a file, in the same table.                    *)
(***************************************************************************)
EXTENDS Naturals, Sequences, FiniteSets

CONSTANTS
    Client,      \* the threads, each with one File
    Openers, Renamers, CardUsers,  \* those that open files, rename and remove them,
                                   \* and give commands to the card
    Base,        \* the names of files, no two of them alike but for the case of letters
    Volumes,     \* the prefixes that callers use, of "ext", "int", "any", "bad"
    Node,        \* the addresses a node of the table may have
    MaxOpens,    \* (bound) how often a client opens
    StaleClose   \* whether a File that has been closed is closed once more

QueueSize == 8
NoNode == "none"

ASSUME ClientAssumption ==
    IsFiniteSet(Client) /\ Cardinality(Client) <= QueueSize  \* no put has to wait
ASSUME NodeAssumption ==
    NoNode \notin Node /\ IsFiniteSet(Node) /\ Cardinality(Node) >= Cardinality(Client)
ASSUME RoleAssumption ==
    Openers \subseteq Client /\ Renamers \subseteq Client /\ CardUsers \subseteq Client
ASSUME VolumeAssumption == Volumes \subseteq {"ext", "int", "any", "bad"} /\ Volumes /= {}
ASSUME BaseAssumption == Base /= {}
ASSUME BoundAssumption == MaxOpens \in Nat /\ StaleClose \in BOOLEAN

BadName == [vol |-> "bad", base |-> CHOOSE b \in Base : TRUE]
Name == {n \in [vol : Volumes, base : Base] : n.vol = "bad" => n = BadName}
Path == [vol : {"ext", "int"}, base : Base]

VARIABLES
    queue,    \* Storage.message_queue, by the client whose call it is
    fileId,   \* File.file_id, kept when the File is closed
    call,     \* for each client, its call of the storage's API
    table,    \* StorageData.files of both volumes
    dir,      \* the files that exist
    card,     \* the SD card and what the service knows of it
    foreign   \* (observed) an operation has used the entry of another File

vars == <<queue, fileId, call, table, dir, card, foreign>>

(* live: the handle of the file system reaches its file; killer: (observed) what
   has ended that. *)
Entry == [node : Node, file : Client, path : Path, live : BOOLEAN,
          killer : {"none", "command", "format", "removal", "remount", "hand"}]
Used == {e.node : e \in table}

NoName == CHOOSE n \in Name : TRUE
NoCall == [pc |-> "idle", op |-> "Open", name |-> NoName, to |-> NoName, flag |-> FALSE,
           opens |-> 0]

(* storage_app_alloc, before the first tick, with volumes that are empty. *)
Init ==
    /\ queue = <<>>
    /\ fileId = [c \in Client |-> NoNode]
    /\ call = [c \in Client |-> NoCall]
    /\ table = {}
    /\ dir = {}
    /\ card \in [present : BOOLEAN, status : {"NotReady"}, was : {TRUE}, gui : {FALSE},
                 hand : {FALSE}]
    /\ foreign = FALSE

--------------------------------------------------------------------------------
(* The callers. Each builds a message, puts it and waits for the answer. *)

Send(c, op, n, to) ==
    /\ call' = [call EXCEPT ![c].pc = "queued", ![c].op = op, ![c].name = n, ![c].to = to]
    /\ queue' = Append(queue, c)

(* storage_file_open: the event of a close is subscribed to before the first try.
   A File that was used before is not opened by an invalid name, unless the caller
   would then close it as well (StaleClose). *)
FileOpen(c) ==
    /\ c \in Openers
    /\ call[c].pc = "idle" /\ call[c].opens < MaxOpens
    /\ \E n \in Name :
        /\ n.vol = "bad" => StaleClose \/ fileId[c] = NoNode
        /\ call' = [call EXCEPT ![c] = [NoCall EXCEPT !.pc = "queued", !.name = n,
                                                      !.opens = call[c].opens + 1]]
    /\ queue' = Append(queue, c)
    /\ UNCHANGED <<fileId, table, dir, card, foreign>>

(* The path was open: the caller waits for the flag and asks again. *)
AwaitClose(c) ==
    /\ call[c].pc = "denied"
    /\ call' = [call EXCEPT ![c].pc = "waiting"]
    /\ UNCHANGED <<queue, fileId, table, dir, card, foreign>>

Retry(c) ==
    /\ call[c].pc = "waiting" /\ call[c].flag
    /\ call' = [call EXCEPT ![c].pc = "queued", ![c].flag = FALSE]
    /\ queue' = Append(queue, c)
    /\ UNCHANGED <<fileId, table, dir, card, foreign>>

(* The file is read, written, sought and so on; and it is closed, "even if the
   open operation had failed". *)
FileUse(c) ==
    /\ call[c].pc = "open"
    /\ Send(c, "Use", NoName, NoName)
    /\ UNCHANGED <<fileId, table, dir, card, foreign>>

FileClose(c) ==
    /\ \/ call[c].pc \in {"open", "failed"}
       \/ StaleClose /\ call[c].pc = "idle" /\ fileId[c] /= NoNode
    /\ Send(c, "Close", NoName, NoName)
    /\ UNCHANGED <<fileId, table, dir, card, foreign>>

(* storage_file_free, and storage_file_alloc for the next use. *)
FileFree(c) ==
    /\ call[c].pc = "idle" /\ fileId[c] /= NoNode
    /\ fileId' = [fileId EXCEPT ![c] = NoNode]
    /\ UNCHANGED <<queue, call, table, dir, card, foreign>>

(* storage_common_remove, storage_sd_format, storage_sd_unmount, storage_sd_mount. *)
CommonAsk(c) ==
    /\ call[c].pc = "idle"
    /\ \/ c \in Renamers /\ \E n \in Name : n.vol /= "bad" /\ Send(c, "Remove", n, n)
       \/ c \in CardUsers /\ \E op \in {"Format", "Unmount", "Mount"} : Send(c, op, NoName, NoName)
    /\ UNCHANGED <<fileId, table, dir, card, foreign>>

(* storage_common_rename and storage_common_rename_safe: the new name is looked
   up, then removed or left alone, then the file is renamed: three messages. *)
RenameAsk(c) ==
    /\ c \in Renamers
    /\ call[c].pc = "idle"
    /\ \E n, to \in Name :
        n /= to /\ n.vol = to.vol /\ n.vol /= "bad" /\ Send(c, "Stat", n, to)
    /\ UNCHANGED <<fileId, table, dir, card, foreign>>

RenameGoesOn(c) ==
    /\ \/ call[c].pc = "exists" /\ Send(c, "RemoveNew", call[c].name, call[c].to)
       \/ call[c].pc = "rename" /\ Send(c, "Rename", call[c].name, call[c].to)
    /\ UNCHANGED <<fileId, table, dir, card, foreign>>

--------------------------------------------------------------------------------
(* storage_process_message. *)

(* storage_get_data: "/any" is the card when it is there. *)
Real(n) == IF n.vol = "any"
           THEN [n EXCEPT !.vol = IF card.status = "OK" THEN "ext" ELSE "int"]
           ELSE n

(* storage_path_already_open: the strings are compared. On the card, where FAT
   ignores case, another spelling of an open path is not found, nor is a directory
   above it on either volume; a name here has one spelling, and none is a directory
   above another. *)
BusyFault(p) == \E e \in table : e.path = p /\ e.live  \* a failed open is no entry
Busy(p) == \E e \in table : e.path = p

(* storage_get_file: the entry whose File has the file_id of c's. *)
Mine(c) == {e \in table : fileId[e.file] = fileId[c]}

Handling(ops) == queue /= <<>> /\ call[Head(queue)].op \in ops

Answered(c, pc) == IF pc \in {"idle", "open", "failed"}
                   THEN [NoCall EXCEPT !.pc = pc, !.opens = call[c].opens]
                   ELSE [call[c] EXCEPT !.pc = pc]
Answer(c, pc) == call' = [call EXCEPT ![c] = Answered(c, pc)]

Ready(p) == p.vol = "ext" => card.status = "OK"

(* storage_process_file_open. The entry is there before the file system is asked,
   and stays when that fails. *)
PushFault(c, n, p, ok) ==  \* file_id is not written
    /\ table' = table \union {[node |-> n, file |-> c, path |-> p, live |-> ok, killer |-> "none"]}
    /\ UNCHANGED fileId

Push(c, n, p, ok) ==
    /\ table' = table \union {[node |-> n, file |-> c, path |-> p, live |-> ok, killer |-> "none"]}
    /\ fileId' = [fileId EXCEPT ![c] = n]

HandleOpen ==
    /\ Handling({"Open"})
    /\ LET c == Head(queue)
           p == Real(call[c].name)
       IN  \/ /\ p.vol = "bad"
              /\ Answer(c, "failed")
              /\ UNCHANGED <<table, fileId, dir>>
           \/ /\ p.vol /= "bad" /\ Busy(p)
              /\ Answer(c, "denied")
              /\ UNCHANGED <<table, fileId, dir>>
           \/ /\ p.vol /= "bad" /\ ~Busy(p)
              /\ \E n \in Node \ Used, ok \in BOOLEAN :
                    /\ ok => Ready(p)
                    /\ Push(c, n, p, ok)
                    /\ dir' = IF ok THEN dir \union {p} ELSE dir
                    /\ Answer(c, IF ok THEN "open" ELSE "failed")
    /\ queue' = Tail(queue)
    /\ UNCHANGED <<card, foreign>>

(* The operations on an open file: what they do to it is left out. *)
HandleUse ==
    /\ Handling({"Use"})
    /\ LET c == Head(queue)
       IN  /\ foreign' = (foreign \/ \E e \in Mine(c) : e.file /= c)
           /\ Answer(c, "open")
    /\ queue' = Tail(queue)
    /\ UNCHANGED <<fileId, table, dir, card>>

(* The subscribers of the close event: every client that is in storage_file_open. *)
WaitsFault(c) == call[c].op = "Open" /\ call[c].pc = "waiting"  \* subscribed when it waits
Waits(c) == call[c].op = "Open" /\ call[c].pc \in {"queued", "denied", "waiting"}

(* storage_process_file_close. *)
HandleClose ==
    /\ Handling({"Close"})
    /\ LET c == Head(queue)
       IN  \/ /\ Mine(c) = {}
              /\ Answer(c, "idle")
              /\ UNCHANGED <<table, foreign>>
           \/ \E e \in Mine(c) :
              /\ table' = table \ {e}
              /\ foreign' = (foreign \/ e.file /= c)
              /\ call' = [d \in Client |->
                            IF d = c THEN Answered(c, "idle")
                            ELSE [call[d] EXCEPT !.flag = @ \/ Waits(d)]]
    /\ queue' = Tail(queue)
    /\ UNCHANGED <<fileId, dir, card>>

(* storage_process_common_stat, as storage_common_exists of the new name: if it is
   taken, one of the two functions goes on to remove it and the other gives up. *)
HandleStat ==
    /\ Handling({"Stat"})
    /\ LET c == Head(queue)
           p == Real(call[c].to)
       IN  \/ p \in dir /\ Ready(p) /\ \E pc \in {"exists", "idle"} : Answer(c, pc)
           \/ ~(p \in dir /\ Ready(p)) /\ Answer(c, "rename")
    /\ queue' = Tail(queue)
    /\ UNCHANGED <<fileId, table, dir, card, foreign>>

(* storage_process_common_remove. storage_common_rename does not look at its
   result. *)
Removable(p) == Ready(p) /\ ~Busy(p)

HandleRemove ==
    /\ Handling({"Remove", "RemoveNew"})
    /\ LET c == Head(queue)
           p == Real(IF call[c].op = "Remove" THEN call[c].name ELSE call[c].to)
       IN  /\ dir' = IF Removable(p) THEN dir \ {p} ELSE dir
           /\ Answer(c, IF call[c].op = "Remove" THEN "idle" ELSE "rename")
    /\ queue' = Tail(queue)
    /\ UNCHANGED <<fileId, table, card, foreign>>

(* storage_process_common_rename: only the old path is looked up in the table.
   FatFs refuses a new name that exists, littlefs replaces the file. *)
HandleRename ==
    /\ Handling({"Rename"})
    /\ LET c  == Head(queue)
           p  == Real(call[c].name)
           to == [p EXCEPT !.base = call[c].to.base]
       IN  /\ \/ /\ p \in dir /\ Ready(p) /\ ~Busy(p)
                 /\ p.vol = "ext" => to \notin dir
                 /\ dir' = (dir \ {p}) \union {to}
              \/ UNCHANGED dir
           /\ Answer(c, "idle")
    /\ queue' = Tail(queue)
    /\ UNCHANGED <<fileId, table, card, foreign>>

--------------------------------------------------------------------------------
(* The SD card. *)

(* f_mount and f_mkfs: no handle that was opened before is valid any more. *)
Kill(killer) ==
    {IF e.path.vol = "ext" /\ e.live THEN [e EXCEPT !.live = FALSE, !.killer = killer] ELSE e :
        e \in table}

(* storage_process_sd_mount and sd_mount_card: nothing happens without a card; the
   card may be taken out while it is mounted. hand: (observed) the service has not
   seen this card at a tick yet. *)
Mountable == card.status = "NotReady"

HandleMount ==
    /\ Handling({"Mount"})
    /\ \/ /\ Mountable /\ card.present
          /\ \E s \in {"OK", "Error"}, p \in BOOLEAN :
                card' = [card EXCEPT !.status = s, !.present = p, !.hand = card.was]
          /\ table' = Kill("command")
       \/ ~(Mountable /\ card.present) /\ UNCHANGED <<card, table>>
    /\ Answer(Head(queue), "idle")
    /\ queue' = Tail(queue)
    /\ UNCHANGED <<fileId, dir, foreign>>

(* storage_process_sd_unmount and storage_process_sd_format. *)
UnmountableFault == card.status /= "NotReady"  \* whatever is open
Unmountable == card.status /= "NotReady" /\ \A e \in table : e.path.vol /= "ext"

HandleUnmount ==
    /\ Handling({"Unmount"})
    /\ \/ Unmountable /\ card' = [card EXCEPT !.status = "NotReady"] /\ table' = Kill("command")
       \/ ~Unmountable /\ UNCHANGED <<card, table>>
    /\ Answer(Head(queue), "idle")
    /\ queue' = Tail(queue)
    /\ UNCHANGED <<fileId, dir, foreign>>

HandleFormat ==
    /\ Handling({"Format"})
    /\ \/ card.status = "NotReady" /\ UNCHANGED <<card, table, dir>>
       \/ /\ card.status /= "NotReady"
          /\ \E s \in {"OK", "Error"} :
                /\ s = "OK" => card.present
                /\ card' = [card EXCEPT !.status = s]
          /\ table' = Kill("format")
          /\ dir' = {p \in dir : p.vol /= "ext"}
    /\ Answer(Head(queue), "idle")
    /\ queue' = Tail(queue)
    /\ UNCHANGED <<fileId, foreign>>

(* storage_ext_tick: sd_was_present tells that there was no card at the last tick.
   A card that is found is mounted, though it may have been mounted by hand; if it
   is gone when that is done it is unmounted again. *)
TickedFault ==  \* sd_was_present is not reset
    IF card.was /\ card.present
    THEN {[card EXCEPT !.status = st, !.hand = FALSE] : st \in {"OK", "Error"}}
    ELSE IF ~card.was /\ ~card.present
         THEN {[card EXCEPT !.status = "NotReady", !.was = TRUE]}
         ELSE {card}

Ticked ==
    IF card.was /\ card.present
    THEN {[card EXCEPT !.status = st, !.was = FALSE, !.hand = FALSE] : st \in {"OK", "Error"}}
         \union {[card EXCEPT !.status = "NotReady", !.present = FALSE, !.hand = FALSE]}
    ELSE IF ~card.was /\ ~card.present
         THEN {[card EXCEPT !.status = "NotReady", !.was = TRUE]}
         ELSE {card}

(* storage_tick, when no message has come for a second: the card, then the icon,
   whose changes are published as CardMount, CardMountError and CardUnmount. *)
Tick ==
    /\ queue = <<>>
    /\ \E k \in Ticked : card' = [k EXCEPT !.gui = k.status /= "NotReady"]
    /\ table' = IF card.was = card.present
                THEN Kill(IF ~card.present THEN "removal"
                          ELSE IF card.hand THEN "hand" ELSE "remount")
                ELSE table
    /\ UNCHANGED <<queue, fileId, call, dir, foreign>>

(* The user takes the card out or puts it in. *)
CardMoves ==
    /\ card' = [card EXCEPT !.present = ~@]
    /\ UNCHANGED <<queue, fileId, call, table, dir, foreign>>

Handle ==
    \/ HandleOpen \/ HandleUse \/ HandleClose \/ HandleStat \/ HandleRemove \/ HandleRename
    \/ HandleUnmount \/ HandleMount \/ HandleFormat

ClientStep(c) ==
    \/ FileOpen(c) \/ AwaitClose(c) \/ Retry(c) \/ FileUse(c) \/ FileClose(c) \/ FileFree(c)
    \/ CommonAsk(c) \/ RenameAsk(c) \/ RenameGoesOn(c)

Next == Handle \/ Tick \/ CardMoves \/ \E c \in Client : ClientStep(c)

Spec == Init /\ [][Next]_vars

(* The service handles its messages, and ticks if it is left alone for a second
   again and again. *)
FairSpec == Spec /\ WF_vars(Handle) /\ SF_vars(Tick)

--------------------------------------------------------------------------------
(* Properties. *)

(* The types of the table, the messages and the card. *)
TypeOK ==
    /\ queue \in Seq(Client) /\ Len(queue) <= QueueSize
    /\ fileId \in [Client -> Node \union {NoNode}]
    /\ call \in [Client -> [pc : {"idle", "queued", "denied", "waiting", "open", "failed", "exists", "rename"},
                            op : {"Open", "Use", "Close", "Stat", "Remove", "RemoveNew", "Rename",
                                  "Format", "Unmount", "Mount"},
                            name : Name, to : Name, flag : BOOLEAN,
                            opens : 0..MaxOpens]]
    /\ table \subseteq Entry
    /\ dir \subseteq Path
    /\ card \in [present : BOOLEAN, status : {"NotReady", "OK", "Error"}, was : BOOLEAN,
                 gui : BOOLEAN, hand : BOOLEAN]
    /\ foreign \in BOOLEAN

(* No two entries are of one path, in one spelling: not after a failed open, not when
   "/any" comes to mean the other volume. *)
OneEntryPerPath == \A d, e \in table : d.path = e.path => d = e

(* The entry of a File is found by its file_id: every client that has a file open
   has its own entry, and none reads, writes or closes the file of another. *)
EveryFileHasItsEntry ==
    /\ ~foreign
    /\ \A c \in Client : call[c].pc = "open" => \E e \in Mine(c) : e.file = c

(* A caller that waits for a path to be closed is not forgotten: either the path is
   still in the table or the event of its close has been recorded. *)
Wanted(c) == {Real(call[c].name)} \union
             (IF call[c].name.vol = "any" THEN {p \in Path : p.base = call[c].name.base} ELSE {})
WaiterIsNotForgotten ==
    \A c \in Client : call[c].pc = "waiting" /\ ~call[c].flag => \E p \in Wanted(c) : Busy(p)

(* A handle of an open file on the card ends when the card is taken out or is
   formatted, never by an unmount or a mount that a caller asks for. A tick mounts
   the card under an open file only if it was mounted by hand before the service
   had seen that it was put in. *)
HandleEndsForAReason == \A e \in table : e.killer \notin {"command", "remount"}

(* The table as StorageService describes it. A caller is asleep while it waits and
   no close has set its flag. *)
Opened == {<<e.file, e.path>> : e \in table}
Usable == {<<e.file, e.path>> : e \in {o \in table : o.live}}
Sleeper(c) == call[c].pc = "waiting" /\ ~call[c].flag
Asleep == {<<c, call[c].name.base>> : c \in {d \in Client : Sleeper(d)}}

Service == INSTANCE StorageService
           WITH opened <- Opened, usable <- Usable, files <- dir, asleep <- Asleep

(* Whatever the order in which the messages of the clients are served, and whenever
   the card is taken out, formatted, mounted or unmounted, the table changes only as
   StorageService specifies: one File opens a path that nobody has open, closes its
   own entry only, with everybody woken who waits for a close, a path that is open is
   not removed or renamed under that spelling, and no handle on the internal storage
   is lost. *)
ImplementsService == Service!Spec

(* A card that is taken out, and stays out, is noticed, if the service is ever left
   alone again, unless the card had been mounted by hand before the service saw that
   it was put in. *)
RemovalIsNoticed ==
    []<>(queue = <<>>) =>
    (~card.present ~> (card.present \/ card.hand \/ (card.status = "NotReady" /\ ~card.gui)))

(* "The calling code MUST call storage_file_close() even if the open operation had
   failed" (storage.h:84): a close does not close the file of another thread. *)
CloseIsOwn == ~foreign
================================================================================
