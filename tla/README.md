# Xtreme firmware: the concurrent services in TLA+

This directory is a verification development of the firmware's own services:
TLA+ modules translated from the C sources, configurations that TLC checks, and
proofs that TLAPS checks. `PROJECT.json` maps every definition to the source
lines it stands for and lists the runs, the seeded faults each property is shown
to notice, the hazards and the theorems.

    tlc -config ExpansionApp.cfg Expansion.tla      # a run
    tlapm ExpansionProofs.tla                       # the proofs

## 1. The system and its parts

The firmware is a FreeRTOS system. Nearly every part of it is a *service*: a
thread with a bounded message queue, an object published under a name with
`furi_record_create`, and an API whose functions put a message (waiting for
room) and then wait on an `api_lock` that the service's thread unlocks. Services
call each other in the same way, so they can wait for each other; interrupts,
timers and callbacks put messages too, without waiting. What is hard is what
happens between the putting of a message and its handling.

| component | state | operations | talks to | what makes it correct |
|---|---|---|---|---|
| expansion service (`services/expansion/expansion.c`) | state, serial_id, settings, queue of 8, worker | enable, disable, set_listen_serial, is_connected; ModuleConnected, ModuleDisconnected, ConnectionEstablished | serial control (detection), worker (start, stop, join), settings app, applications that use a UART | after disable nothing is left; detection follows the state; calls return; messages of a dead worker do no harm |
| expansion worker (`expansion_worker.c`, `expansion_protocol.h`) | state, exit_reason, thread flags, rx_buf, session, semaphore | receive, decode, three state handlers, send from the RPC thread, stop | UART interrupt, RPC session, expansion service | every path out closes session, record and handle; a sender never meets freed memory; a stop returns |
| serial control (`furi_hal_serial_control.c`) | handles (in_use), log port, watched port, queue of 8 | acquire, release, is_busy, logging, expansion callback, edge | log, expansion service, UART users | one holder per handle; log and watch give way and come back |
| RPC (`services/rpc/rpc.c`, `rpc_*.c`) | sessions: stream, flags, callbacks under a mutex, decoder; sessions_count; busy mutex | open, feed, close, send, terminate; handlers per system | bt, cli, expansion worker, all services it exposes | no callback after close; owner freed exactly once; no lost feed |
| furi core (`furi/core`) | threads and flags, records, pubsub, timers, mutexes, queues, heap | alloc, start, join, free; open, close, create, destroy; subscribe, publish | everything | join before free; a record is destroyed only when nobody holds it; no publish to a removed subscriber |
| storage (`services/storage`) | table of open files per volume, state of the card, queue of 8 | open, read, write, close, stat, remove, rename, mkdir, mount, unmount, format; a tick | rpc_storage, loader, all applications | a path is open once; an open file keeps its card; a waiting open is not forgotten |
| loader (`services/loader`) | running application or lock, menu, browser, queue of 1 | start, start detached, lock, unlock, is_locked, menu, closed; events to the desktop | desktop, cli, rpc_app | a locked command runs alone; each start is answered; the desktop hears of each application once before and once after |
| bt (`services/bt`) | status, RPC session, flow event flags | connect, disconnect, pin, rpc bytes | rpc, ble | a blocked sender is released on disconnect |
| cli (`services/cli`) | session, line, virtual port connection | session open/close, rx, tx | usb, rpc_cli | reconnect during a command |
| gui (`services/gui`) | view ports, layers, view dispatcher, ongoing keys on two levels | add, remove, send to front, lockdown, direct draw, input, switch view, run, stop | input, desktop, rpc_gui, applications | whoever got a Press gets the Release; nothing is given to what is gone; run returns |
| input (`services/input`) | pin states, press counters, a timer per key | interrupt, scan, timer callback, publish | gui, timer task | a press is short or long, once; no movement is lost |
| notification, power, desktop, dolphin, dialogs | own small state | layers; periodic checks | gui, loader, timers | layers return |
| libraries (`lib/toolbox`, `subghz`, `nfc`, `infrared`, `lfrfid`, `ibutton`) | workers with a stop flag; decoders | start, stop, feed | hardware layer | stop returns, callbacks end |
| applications, assets, vendored libraries (FatFs, u8g2, mjs, FreeRTOS, mbedtls) | - | - | - | not modelled |

### Hard behaviours

*Interleaving*: API callers, service threads, worker threads and interrupts run
concurrently and most state is owned by one thread only, so the trouble is in
messages that are *older than the state they are applied to*. *Bounded queues*:
some senders wait for room, others drop. *Joins*: a service joins a worker that
may be waiting for that service. *Timeouts*: 250 ms of silence or of missing
acknowledgement ends a worker while an answer may be on its way. *Protocol of
the callers*: `expansion.h` obliges applications to disable, acquire, release and
enable in this order. *Callbacks under a mutex*: the pubsub tells its subscribers
with its mutex held, the gui gives input with two held, and both may wait there.
*The card* is taken out at any time, under open files. None of the state below is
persistent (what is on the card is data to these services), so there is no crash
recovery to model. The list, line by line, is under
`hazards` in `PROJECT.json`.

## 2. Plan

Written in the order of importance and of dependence; all of it is done.

1. `Expansion` with `ExpansionService`, the abstract service it implements.
2. `ExpansionProofs`.
3. `ExpansionWorker`, which opens up the worker of 1, with `ExpansionWorkerLife`
   as the abstraction the two share.
4. `SerialControl`, which opens up the serial control actions of 1, and
   `SerialPorts`, which the two share.
5. `RpcSession`: open, feed, decode, close and terminate of a session with its
   three transports. It opens up the session that 3 sees from its send callback.
6. `Loader`: start, lock, close, with the menu, the browser, the application and
   the desktop as the threads that meet in its queue and in its pubsub.
7. `Storage`: the table of open files with the waiting open, rename, removal and
   the SD card, and `StorageService`, the abstract service it implements.
8. `Input`: the keys up to the pubsub.
9. `Gui`: the keys from the gui's queue to a view of an application.
10. Proofs of the invariants of 3 to 9, each module with its type invariant and the
    inductive invariant that its properties need, and that the worker implements
    `ExpansionWorkerLife` and the storage service `StorageService`.
11. That `SerialControl` does for its clients what the serial control actions of
    `Expansion` rely on: both are proved to be `SerialPorts`.

Considered and left: `FuriRecord` (a record is created once, before its users run,
and is not destroyed outside of tests), `FuriPubSub`, `FuriTimer` and `FuriThread`
(what is hard in them shows in their users, and is modelled there: a publish that
waits in `Loader` and `Input`, a stop that races a timer's callback in `Input`,
join and the state callback in `Expansion` and `Loader`), `ExpansionProtocol` (pure
functions on bytes, which the unit tests cover).

## 3. The modules

### Expansion

The control thread is `control`: it gets a message (`ControlGet`), handles it in
one step (`Handle...`) or, when the handler joins a worker, in two (`StopWorker`
then `WorkerStopped`; `HandleModuleDisconnected` then `WorkerFreed`), because the
join is where everybody else runs. `queue` is the `FuriMessageQueue`. A client is
a thread inside an API function: it waits for room (`put`), then for its lock
(`wait`). `detect` and `irq` are what the serial control service keeps for the
expansion service; its thread has the highest priority and answers each request
at once, so a request is a part of the step that makes it (`SerialControl`
models the service itself). `worker` is the worker thread as far as the control
thread can tell: its phase, a pending Stop, whether it will report its exit.

`Boot` runs `expansion_on_system_start`. A `Holder` is an application with a
UART: disable, acquire, release, enable, as `js_serial.c`, `subghz_gps.c` and
`gpio_app.c` do. A `Caller` is the settings application (which writes
`uart_index` and then calls) or any user of `is_connected`.

Assumptions. Applications start after the start-up hooks (`Booted`). The port of
the log is not the port of the modules: what happens when it is, is
`SerialControl`'s matter. The two reads of `settings.uart_index` in the enable
handler are one. `furi_check` failures are the sticky `crashed` and the phase
`refused`.

`ExpansionService` is the promise: off, listening on one port, or attached to the
module found there; the handle is held only while attached and is given back
before anything else. `Expansion` implements it (`ImplementsService`) under the
mapping at the end of the module.

### ExpansionWorker

One worker from start to end. Bytes are counted and their content is a choice
made when the code looks at them: `decode` is the part of the frame the decoder
wants, how much of the chunk is missing and how much this call of the receive
callback has got. This is enough to reproduce what matters in
`receive_callback`: it returns what it has, and the decoder gives up only on
nothing. `flags` are the pending thread flags: `flags_wait` clears Stop and Data
and leaves Error pending. `rpc` is the RPC session seen from its send callback,
which runs in another thread inside the session's `callbacks_mutex`; closing
needs that mutex; the token is `tx_semaphore`.

`ExpansionWorkerLife` is the worker as `Expansion` knows it; `ExpansionWorker`
implements it (`ImplementsLife`), so a worker can do no more than `Expansion`
lets it.

### SerialControl

The service thread, its queue, two ports. `irq` is the set of ports whose RX pin
has the interrupt. An edge carries two facts the code does not record, the port
and whether the watch it was seen under has ended; only `NoStaleDetection` reads
them.

`SerialPorts` is the interface between this module and `Expansion`: who holds which
port, which port is watched, whose pin interrupts. `SerialControl` implements it
(`ImplementsPorts`): a handle changes hands when its request is served, and neither the
queue nor the log shows, except that the log may set the watch up again on a port that
is held (`SetUpAgain`). `Expansion`, where a request is one step with what its caller
does next, uses the ports in no other way (`UsesPorts`, which is proved and in no
run); its `Take` and `GiveBack` are the steps without the log.

### RpcSession

One session from `rpc_session_open` to its last `free`; when it is gone another
may be opened. `work` is what the worker has still to do, its place first: a
decoded message is a short program (`Decoded`), such as lock, answer, tell the
transport, unlock. `plan` is the same for the threads outside, whose calls each
take the callbacks mutex for themselves: setting up, closing and feeding are
sequences (`SetupPlan`, `ClosePlan`, `FeedPlan`) that are interrupted between any
two calls. `mutex` is `callbacks_mutex`, and its holder is inside a callback;
the buffer_is_empty callback is called without it. A piece in `stream` is what
one read asks for. The end of the thread hands the session to the timer task
(`FreeSystems`, `CallTerminated`, `FreeSession`).

`kind` is the owner: Usb (`rpc_cli.c`, waits for the terminate semaphore), Uart
(`expansion_worker.c`, waits for nothing), Ble (`bt.c`: fed and closed by the GAP
thread, also closed by the bt service, and by the service on behalf of the worker after
a decode error). nanopb is not in the repository: that it takes a message cut off after
a complete field for a complete one follows from `bytes_left = 0` (rpc.c:223), and is a
choice in `Wait`. A use of freed memory or of a NULL pointer leads to a state where
nothing more happens (`Crashed`, `Halt`), so that a deadlock is an error everywhere
else. Over Usb and Uart there is no such state (`SessionOutlivesItsUsers`). Over Ble a
late feed is one (section 5), a set-up that a close overtakes another; a third is a
worker that runs between two set-up calls of `bt_open_rpc_connection`, which sets the
buffer_is_empty callback before the context, and calls back with NULL.

`Streams` are the transports with a client that streams the screen: a thread of its own
that sends through the session. Assumptions. One session object: the next is opened when
the last is freed and no call on it is pending. Callbacks return: those of `bt.c` wait
for an event that the close sets first, those of the expansion worker have a timeout.
The assertion that a feed over Usb is complete (rpc_cli.c:75) is not checked.

### Loader

`loader` is the thread of `loader_srv` with the message it handles: a message is
taken and handled in one step, except where the handler waits, for the desktop in
the event ApplicationBeforeLoad (`before`, then `load`) and for a thread it joins
(`join`). `thread` is `app.thread`, with the magic value of the lock. `call` is, for
each of six threads, its call of the API: it waits for room in the queue of one
(`put`), then for its `api_lock` (`wait`). Three of these threads are started by
the loader (`life`): the menu, the browser and the application. A thread that ends
puts its last message from its state callback or from `closed_cb`, and ends then.
`browser` has the subscription and the thread flag of `loader_applications.c`;
`desktop` the bounded queue of the desktop's view dispatcher, its animation
(`stalled`), `animation_lock` (`go`) and whether its thread waits to send an event to
itself (`sends`). Whoever puts into that queue waits for room: the loader inside its
publish, with the mutex of the pubsub held (`publish`, `failed`, `stopped`, then
`PublishBefore` and `PublishAfter`), the gui and the timer task (`DesktopInput`, where
waiting is a guard, since nothing else of these threads is seen here), and the
desktop's own thread (`DesktopSends`). The desktop is a client of the loader too: a
key may start an application (`DesktopKey`, `desktop_run_keybind`) or become an event
of the main scene (`DesktopMainEvent`), which may show the menu or start an
application, and the auto lock asks whether the loader is locked.

Faults: a failed `furi_check` or assertion is `check`; the refusal of a start while
the cli holds the lock reads the name of a thread through the magic value, `bus`.
Nothing happens after a fault. Left out: what the menu shows, the loader's own
commands of the cli, signals, what `desktop_lock` does once it locks. The dialogs that the loader's
thread shows are answered by their user: a failed load is `LoadFails` whoever has
refused it.

### Storage

A client has one `File`; `fileId` is its `file_id`, which survives the close, and
`table` the list of both volumes, each entry at an address (`Node`) that is used
again when it is freed. A call is a message in `queue` and an answer, and
`storage_file_open` a loop of them around the event of a close (`denied`, `waiting`,
`flag`). A rename is three messages of the client (`Stat`, `RemoveNew`, `Rename`),
between which anything is served. `dir` are the files that exist, on both volumes;
`/any` is resolved when a message is handled, so that one name may mean two files
within one call. `card` is the card and what the service knows of it: status,
`sd_was_present` (which tells that there was *no* card), the icon. What FatFs and
littlefs answer is a choice, apart from what the properties speak of: FatFs refuses
to rename to a name that exists, littlefs replaces it; a mount or a format ends the
handles that were opened before. The service knows an open file by the string it was
opened by (`Busy`, `storage_path_already_open`); a file has one spelling here and there
are no directories, so "open" means open under the same spelling.

`StorageService` is what a caller can rely on, without queue, addresses, `/any` and
the state of the card: which `File` has which path open, which of these handles reach
their file, the files that exist and who sleeps. A `File` opens a path only if nobody
has it open, a caller goes to sleep only while a path of its name is open, a close
takes the `File`'s own entry and wakes everybody, remove and rename leave alone what is
open under the path they are given, and only handles of the card are ever lost. `Storage` implements it
(`ImplementsService`): an open, a close, a remove or a rename is the handling of its
message, a sleep is `AwaitClose`, `LoseCard` what a command or the tick does with the
card; every other step is a stutter.

An open that fails leaves its entry, and the client closes it, as `storage.h` asks.
A `File` that is used again is not opened by an invalid name, except with
`StaleClose` (section 5). Left out: the content of files, copy and merge (sequences
of these messages by one caller), directories, timestamps, the aliases of paths, the
virtual storage, equivalent paths.

### Input

The service's thread is `pub["srv"]` with the loop variables in `scan`, the timer
task `pub["task"]`: both publish, which takes the mutex of the pubsub (`lock`) and
holds it until the gui's queue has room (`put`). A timer has a command that the
task has not carried out yet: `furi_timer_stop` sends it, and the service then waits
until the timer is not active (`stopping`), which can be while its callback is about
to publish. Levels change at any time, and each change sets the flag of the
interrupt. A key that is held at boot is taken as it is, without a Press
(`input_srv` reads it into the pin's state), which is why `told` starts with it.
Left out: sequence numbers, and the publishers that are not the service (rpc, cli).

### Gui

`gui` is the gui's thread with `ongoing_input` and `ongoing_input_view_port`; `app`
the application's thread with its view dispatcher, which keeps the same two things
for views. `stack` is the layer Fullscreen, below it the desktop, which is always
there. An event comes from a key of the device (`held`) or from a client of the
rpc, is routed under the mutex (`GuiRoutes`), and, if it goes to the application,
is put into its queue with that mutex and the view port's still held (`GuiPuts`).
The application's callbacks stop the dispatcher, show another view or none; when
`run` returns, views and view port are removed one by one, and the next application
starts while keys may still be held. Another thread shows a view port above, moves
and removes it; `SetMode` is lockdown and direct draw.

Short, Long and Repeat are treated alike and are one type here. Clients of the rpc send
events of any type in any order. The keys of the device are mapped when they are routed
(`Mapped`, `view_port_map_input`): by the orientation of the view that is shown, and, if
it is horizontal, by the hand the device is held in (`hand`,
`FuriHalRtcFlagHandOrient`), which is turned at any time (`HandTurns`); those of the rpc
are not mapped. `odd` marks the behaviours in which the bookkeeping cannot work, section
5 says which: `twice` for a key that two have pressed at once, `turned` for a key whose
direction changed before its Release. The desktop's callback returns at once here: that
it is a dispatcher with a queue is in `Loader`. An application whose thread waits for
the gui while the gui waits for it (`MutualWait`), or that stops its dispatcher with its
queue full (`SelfWait`), goes no further (`Frozen`), and the others go on. Left out:
drawing, ascii, custom events and the tick, the stack of the scene manager, the other
layers, which are searched in the same way.

### The proofs

`ExpansionProofs`, `ExpansionWorkerProofs`, `SerialControlProofs`, `RpcSessionProofs`,
`LoaderProofs`, `StorageProofs`, `InputProofs` and `GuiProofs` extend the module they
are about. See section 7.

## 4. The runs

| run | question | instance | states |
|---|---|---|---|
| `expansion_app` | is a disabled service really off, does every worker get its port, is no message applied to a worker it does not speak of? | 2 ports, 1 application, queue 8, up to 6 waiting detections | 3 462 |
| `expansion_settings` | does detection follow the state while settings change; do calls return; is it an `ExpansionService`? | 2 ports, 1 caller, queue 4, up to 4 waiting detections | 59 262 |
| `expansion_worker` | does every exit clean up; does stop return; is it an `ExpansionWorkerLife`? | rx_buf of 2 bytes, chunks of 1 and 2, stream of 1 frame, messages of 1 and 2 frames | 181 432 |
| `serial_control` | one holder; log and watch give way and return; is it `SerialPorts`? | 2 ports, 2 users, settings, expansion, queue 4 | 89 826 |
| `rpc_session` | no callback after close, no use after free, every close ends, no feed is lost | Usb, Uart and Ble, stream of 2 pieces, screen stream over Usb and Uart, a second session on busy_mutex | 82 654 |
| `loader` | does a command run alone; is everybody told and woken, and no check failed? | 6 threads, internal and external application, browser, unknown name, desktop's queue of 2 | 2 819 956 |
| `loader_waits` | does every call return; does the animation come back? | the desktop with all its calls and a queue of 2, rpc that starts a file, the browser; no cli | 453 317 |
| `storage` | is it a `StorageService`; does a File find its own entry; do open files keep their card; is no waiter forgotten? | 2 clients that open, one that renames, the other commands the card; 2 names on `/any`, an invalid one | 702 564 |
| `input` | is each press told as short or long once; is no movement lost? | 2 keys, 4 debounce ticks, room for 1 event | 181 430 |
| `gui` | does the Release follow the Press; does `run` return? | 2 opposite keys, 2 views of which one is upright, either hand, room for 1 event, 1 rpc event, lockdown, direct draw | 4 378 944 |

Two runs end in a counterexample; each is a disagreement between the code and what
its headers say.

| run | what happens |
|---|---|
| `rpc_ble_close` | The worker is inside the buffer_is_empty callback, without the mutex, while the session is closed to its end. |
| `storage_stale_close` | A `File` was opened and closed; another thread opens a file and gets the freed node's address. The first opens an invalid path, which fails without touching `file_id`, and then closes, as the header says it must: it closes the other's file. |

The type invariant of each module is `TypeOK`. A run checks that of `Expansion`; every
one is a theorem, and so is every safety property of the passing runs (section 7). The
inductive invariants of the proofs have been checked with TLC on these instances too,
before they were proved.

## 5. Where the code is weaker than one might think

What the models showed and the properties therefore exclude, by an assumption, a
bound or an explicit exception. Each is also at its line under `hazards`.

*Expansion.* A disable queued behind seven detections (one byte on the line has
several falling edges) blocks for ever: the worker waits for room in the queue of
the thread that joins it. This is `Jammed`, the one exception of `CallsReturn` and
`ListensAgain`; it happens in `expansion_settings`, where a queue of four fills (so that
run does not take a deadlock for an error; the others do). In
`expansion_app` `MaxBounce` is six, exactly below; its properties are safety, and are
proved for any number.
With the settings as a caller, an exit or connect message of a stopped worker
reaches the next worker, and frees it: `NoStaleReport` is stated for applications
that only enable and disable. Two users at a time (the script modules `gpio` and
`serial` can be) break `WorkerGetsItsPort`: the enable of one undoes the disable of
the other.

*Worker.* A Stop that is taken in the middle of a chunk is lost while the module
keeps sending, and a later event overwrites the exit reason; `StopReturns` assumes
that the module falls silent, and `ExpansionWorkerLife` allows the report. The Error
flag is not among those that the wait clears (expansion_worker.c:103). The worker
and the RPC thread transmit without a lock.

*Serial control.* If the log and the watch share a port, or the log's settings
change while the port is held, `log_set_handle` turns the detection interrupt on for
a port in use. `OnlyTheWatchedInterrupts` says which ports may interrupt, not that
they are free.

*RPC.* Over Ble a feed may use a session that has been freed, and the worker may be
called back with a NULL context. Over Uart a decode error is not told to the
transport: the session discards until the module stops it.

*Loader.* The loader waits in its publish for the desktop's thread: before a load for
the animation to be put away, and, before and after, for room in the desktop's queue of
sixteen events. That thread may meanwhile wait for the loader (`is_locked` for the auto
lock, a shortcut or the menu with the loader's queue full), or for room in its own queue
(a key that becomes an event of the main scene). `CallsReturn` and `AnimationComesBack`
hold unless this `CircularWait` occurs, the second also unless the desktop waits for
itself alone (`SelfWait`). The
browser's flag does not say which application has ended, and survives the wait:
`BrowserHearsTheStop` says that a flag, or a thread that will set it, is there: not
that it wakes only then.

*Storage.* An open file may lose its name. `storage_path_already_open` compares strings
(storage_glue.c:108) while FAT ignores case, so that a file open as `/ext/A` is removed
or renamed as `/ext/a`; a rename looks at the old path only (storage_processing.c:413),
so that a directory above an open file is renamed; littlefs replaces an open file by a
rename to its name. `ImplementsService` therefore speaks of paths in one spelling, and
no property says that the name of an open file stays. A card that a caller mounts
before the tick has seen it is mounted again under files opened meanwhile; taken
out before the tick, its absence is never noticed. These are `killer = "hand"` and
`card.hand`.

*Gui.* A key pressed by the device and by a remote client at once is counted once, and
the first Release ends it for both (`twice`). A key of the device that is turned while
it is held has its Release under another key (`turned`): `run` then waits until the key
it has counted is pressed and released. It is turned by a view of another orientation,
which clears what the dispatcher has counted but not what is on the way, and by "Left
Handed", of which the dispatcher is not told: holding Right on that item of the menu
(xtreme_app_scene_misc_screen.c:29-37) repeats, toggles it, and the Release comes as
Left. A remote client's key is not mapped, and in a view whose keys are, it is another
key than the same one of the device. `ReleaseIsKept` excludes `twice` only,
`ReleaseIsOnItsWay` both. With the queue of its dispatcher full, an application that
shows another view waits for the mutex of its view port, which the gui holds while it
waits for room (`MutualWait`), and one that stops its dispatcher waits for room that only
it makes (`SelfWait`); a larger queue makes this rarer, and no property excludes it.
`gui.h` says that direct draw drops all input; gui.c:335 does so only until a
view port has got a key.

## 6. Bounds, fairness

*Bounds.* `MaxBounce` bounds the detections that wait at one time, not their number. The
queue of the expansion service has its real size, eight, in `expansion_app`; in
`expansion_settings` it is four, as many as detections may wait, so that it fills and
the calls, the worker and the detections compete for room; four entries are enough in `SerialControl`,
where each of four clients has at most one request, so that edges fill it and clients
wait for room. Two ports are all there are. One application is what the firmware's
loader runs. In `RpcSession` two pieces are needed to leave one behind, and a full
stream to block a feeder. In the worker a chunk of two bytes is the shortest that can be
cut, and a buffer of two the smallest in which bytes are lost and a chunk is split; a
reply of two frames needs the token twice. The loader's queue has its real size; the six
threads are all that use it at a time, rpc standing for every other caller that is not
started by it. The desktop's queue, sixteen in the code, is two: one event that waits
and one that makes the sender wait. `loader_waits` has the calls of the desktop in full
and fewer starts elsewhere, since liveness costs more. In `Storage` each client opens once per behaviour (`MaxOpens`), so that
the one's close meets the other's open; calls that leave no trace are not bounded, and
two addresses are enough for two files; the clients are fewer than the queue's places,
so no put waits. One client renames while the other opens, closes and moves the card;
two renames that interleave are covered by `StorageImplementsService`, which holds for
any clients. `Input` has the real number of
debounce ticks; two keys make the loop and the timer task interleave between keys; the
gui's queue, eight in the code, is one so that it is full often. The same holds of the
dispatcher's queue in `Gui` (sixteen in the code). Up and Down become Right and Left in
an upright view and are exchanged by the hand in the other, so two keys reach every case
of that; one rpc event is enough for two sources of one key. `Gui.cfg` follows a
behaviour up to the first odd thing (`UpToTheFirstOddThing`), after which the last
property says nothing; what the others say beyond it is covered by the theorems, which
have no such bound. No symmetry is used: the runs with liveness exclude it and the others are small enough.

*Fairness.* `FairSpec` of `Expansion`: the control thread runs (WF), a worker's
own steps run (WF), and a client that waits for room gets it in the end (SF: the
queue is FIFO for waiting tasks of equal priority). `WorkerProgress` holds
the assumption that reaches beyond the firmware: a module does not talk for ever.
In `ExpansionWorker` the same assumption is the action `ModuleFallsSilent`; WF of
the RPC thread, SF of the worker because the session's mutex comes and goes.
`SerialControl` and `Gui` have safety properties only, and no fairness; that `run`
can return is stated as the invariant `ReleaseIsOnItsWay`, since nothing obliges a
user to let go of a key. In `RpcSession` every thread that can go on does; SF where
it waits for a mutex, which FreeRTOS hands to a waiting task. Nobody need feed or
close, except a CLI thread that was asked to close: it looks every 50 ms. In
`Loader` a thread that has reported its end runs on (WF), and the loader's and the
desktop's do and get their room (SF, a queue is FIFO for its waiters); no
application need return, no user ask for anything, and no other thread is promised
room. In `Storage` the service handles its messages
(WF); its tick comes if the queue is empty again and again (SF), which
`RemovalIsNoticed` has as its premise: a service that is kept busy does not look at
the card. In `Input` the gui takes its events, the waiters of the mutex get it in
turn and the timer task obeys its commands (SF: a timer that expires over and over
does not overtake a command, since the task empties its queue first).

## 7. What is proved

Every safety property that a passing run checks, and the refinements that it checks, are
theorems of the specification without fairness, for all constants that satisfy the named
assumptions of their module. A proof has the same shape everywhere: an invariant `Inv`,
the type invariant with what the properties need to be inductive, which holds initially
and is kept by each action, in one lemma for each group of actions; a property follows
from `Inv`, or from `Inv` on both sides of a step.

**`ExpansionProofs`**, for any set of ports, clients, any queue size and any bound on
detections (the "none" values are not ports or clients, the boot thread is neither an
application nor a caller, the queue has room for at least one message).

* `TypeCorrect`: `Spec => []TypeOK`.
* `DetectionCorrect`, `WorkerHoldsItsPortAlways`: from the invariant `Inv`, which
  adds to the two properties `ControlInv` (what the control thread's place says
  about state and worker: it is joining exactly when there is a worker to join,
  and a handler that has freed a worker finds detection off) and `ClientHolds` (a
  handle held by a client is the one it remembers). `DetectionFollowsState` is not
  inductive alone: `WorkerFreed` arms detection in a state it must know to be
  `Enabled`.
* `CallsAnsweredOnce`: from `CallInv`, whose extra part is that messages without
  a lock come from nobody.
* `DisableReleases`, `PortIsFree` and `ReportsAreNotStale`: under `Solo` (no callers,
  at most one application). `SoloInv` ties the application's place to the service's:
  from its disable to its enable the state is Disabled and the worker is gone, and the
  enable comes only after the handle was released. `ReportInv` is about the order in
  the queue: while a worker exists the reports in the queue are its own; a
  ModuleDisconnected, and an enable that finds the service Disabled, have no report
  behind them; in the state Enabled there is none at all. It holds because a disable
  is handled when no other call is in the queue (`OneCall`). The number of detections
  is arbitrary here, where TLC has six.
* `Implements`: each control step maps to a step or a stutter of
  `ExpansionService`, from `Inv` on both sides of the step.
* `RequestsAreServed`: every step is one of `SerialPorts`, or a stutter. `ClientHolds`
  and `WorkerHoldsItsPort` say that who gives a handle back is its holder.

**`ExpansionWorkerProofs`**, for buffers, chunks, streams and replies of any size:
`SenderFindsWhatItUses`, `SessionGetsClosed`, `FramesArePaced`, and `WorkerImplementsLife`,
the refinement of `ExpansionWorkerLife`. `Inv` says for each place of the thread whether
the handle is held (`LineInv`), a session and its record are open (`SessionInv`), that
only an open session has a sender (`SenderInv`), and that the token and the unanswered
frame are one thing (`TokenInv`): a frame takes the token, a status gives it back.

**`SerialControlProofs`**, for any ports, users and queue size: `OneHolder`,
`LogGivesWay`, `WatchResumes`, `DetectionIsFresh`. The properties are not inductive
because a release acts on a request put long ago: `CallInv` ties each request in the queue
to what its client waits for, `EdgeInv` says that the edges in the queue are of the
present watch, or in front of the request for the next. `SerialControlImplementsPorts`
is the refinement of `SerialPorts`, which needs the same of the request that is served;
`PortsKeepTheirPromise` shows, from the steps of `SerialPorts` alone, that a port has one
holder and that the watched port is deaf only while it is held (`Promise`).

**`RpcSessionProofs`**, for a stream of any size: `ClosedCallsNobody`, `SessionOutlives`,
and `WiredSessionsDoNotCrash`, which no run states: over USB and UART nothing leads to
`Crashed`. The argument is in `PlanInv` (one thread uses the session, then closes it, and
touches it no more after the disconnection) and `EndingInv` (the worker ends only after
that); `CallbackInv` and `MutexInv` (a callback still set when the session is closed is
one still to be cleared, and the mutex is held only inside a callback that is set);
`ContextInv` (the context is set first). None of these holds over Ble, and the theorems,
`TypeCorrect` apart, are about the other two.

**`LoaderProofs`**, whatever the threads start and ask for: `CommandIsAlone`,
`ChecksHold`, `BrowserWillWake`. `LockInv` says where the one unlock is that a lock is
owed (the command runs, or its unlock is to be put, or queued), `CloseInv` that an
application reports its end once and is joined after that, `DeskInv` that the desktop
has one begin and one end at most, queued or about to be published, in this order, `BrowserInv` that the browser is
subscribed from before its start until it wakes.

**`StorageProofs`**, for any names, addresses and clients that the queue has room for:
`PathsAreUnique`, `FilesFindTheirEntries` (without `StaleClose`), `NoWaiterIsForgotten`,
`HandlesEndForAReason`. `QueueInv` says that the queue and the
clients agree on who has a call pending, `OneEntryPerNode` that addresses are not
shared, `WaitInv` that what an open is denied for is in the table until its close is
told, `CardInv` that a handle on the card is alive only while the card is mounted,
`OwnerInv` that `file_id` is the address of one's own entry. `StorageImplementsService`
is the refinement of `StorageService` (without `StaleClose`, under which a close takes
another's entry): one lemma for the steps of the clients and one for each kind of
message shows that the step is an abstract one or a stutter, from `Inv` before it. It
needs `OwnerInv` for the entry that a close removes and for a `File` that opens to have
none, `WaitInv` for the open path that a caller goes to sleep over and for a close to
wake every sleeper, and `OneEntryPerPath` for a handle to be one entry.

**`InputProofs`**, for any number of keys and debounce ticks and any room in the gui's
queue: `EveryPressHasOneOutcome`. `PubInv` says who publishes what, `DownInv` that a timer
is active only for a key that is down or whose stop is waited for, `CountInv` that the
press counter and the event that is being published together tell which outcomes have
been told.

**`GuiProofs`**, for any keys in use, any orientation of the views, any queue size and
number of rpc events: `InputReachesTheLiving`, `LockdownIsKept`, `ReleaseFollowsPress`,
`RunCanReturn`. `PressInv` says that a new Press is of a key that nobody owes a Release
of, and gives the third, however keys are mapped; `QueueInv` that whatever the dispatcher
has counted as pressed, or will when it gets to it, is followed by its Release, in the
queue or on its way under the mapping in force, and gives the last. A step that changes
the mapping keeps `QueueInv` because it turns no key that is owed, or is marked
(`TurnsKeepsQueueInv`). `StackInv` and `ViewInv` say what there is to be given input.

What the proofs found. In `Gui` the event of a remote client may be taken from the queue,
and not be routed yet, when the mapping changes under it; what is marked is therefore
decided where the event is routed, not where it is taken. Two guards of `Target` overlapped,
so that its value was left to a CHOOSE; it is one condition now. `Storage` needed names
and volumes to exist at all (`BaseAssumption`, `VolumeAssumption`), or `BadName` is no
name.

Only model-checked: liveness (`CallsReturn` and `ListensAgain` of `Expansion`,
`StopReturns`, `CloseEnds`, `StopIsObeyed`, `FeedIsHeard`, `CallsReturn` and
`AnimationComesBack` of `Loader`, `RemovalIsNoticed`, `LevelIsTold`), which needs ENABLED
and is out of this prover's reach, and the two runs that end in a counterexample.

## 8. Not modelled

Bytes on the wire and checksums, memory (leaks), power (insomnia), logging, the
settings file, the deinitialisation of the serial control service (no caller).
Most of the repository's lines are vendored (FatFs, u8g2 with its fonts, littlefs,
mbedtls, CMSIS), decoders and encoders of radio, infrared and NFC protocols, which
are data processing without interleaving, and user interfaces on top of the
services above; a state machine of them would restate them. The services that are
left (notification, power, dolphin, dialogs) each own their state in one thread
behind a queue and wait for nobody. Components without a module are listed in
`PROJECT.json` with the reason.
