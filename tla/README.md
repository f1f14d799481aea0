# Formal models of Soiav OS 2

TLA+ models of the parts of Soiav OS 2 where state, concurrency and failure
meet, TLC configurations that check them on small instances, and TLAPS proofs of
the most important properties for every instance. All definitions are translated
from the C and Java sources; `PROJECT.json` maps each one to the lines it stands
for, lists every run with what it shows, and for every property a change of the
code (a mutant) that breaks it.

## 1. The system and its parts

The repository holds thirteen source files, most of them independent programs:
kernel modules, a display server, a Java system server, a C library and a shell.
They meet through sockets, system calls and exported functions.

| Part | State it keeps | Operations | What is hard | What makes it correct |
|---|---|---|---|---|
| IPC (`Kernel/Ipc/Ipc_Soiav.c`) | the table `ipc_objects`, `next_ipc_id`, per object a reference count and its type's data: message list, value, ring buffer | create, send/receive, P/V, read/write, attach/detach, close, unload | threads inside a call while another closes; sleeps and wakeups; error paths after a reference was taken; rings that run full; a full table | no call touches released memory; references balance; no lost wakeup; FIFO order, no lost bytes; a close releases |
| Display server (`Kernel/Display_server.c`) | window list, focus, per-window framebuffer and animation, event ring, client slots | a thread per client, the compositor, the input thread | the list is changed under `global_lock` and walked without; a socket read under a window's lock; animations rewritten while applied | the list stays whole; frames are complete and in order; a packet acts on the window it names, which is its client's own unless it is a destroy; events go to one client, in order |
| System server (`System/Server.c`, Java) | clients, selection keys, reply queues, statistics; logins and rights; processes and `nextPid`; services; files; the log | the selector thread, a pool of ten workers, the heartbeat task, process monitors, shutdown | interest sets changed by two threads; reads that are not whole messages; double disconnects; unlocked maps; messages of one client worked on at the same time; files changed under a reader; a list trimmed by all threads | every request is answered once, as the login allows; dead clients go; a process is listed and its end recorded; a service shown as running runs; files hold what was written; the log keeps the newest entries |
| Input driver (`Kernel/Drivers/Input.c`) | a ring per device, the mouse's packet | two interrupt handlers, two readers | rings that overflow, lost bytes | no key lost or doubled, movements come out as made |
| C library (`USERLAND/linbc.c`) | the heap's block list; per file one buffer with `buf_pos` and `buf_len` | malloc, realloc, free; fopen, fread, fwrite, fseek, ftell, fclose; strings, memory, printing | long sequences of splits and merges; one index for reading and writing; refused writes; operands that overlap, bounds of copies, signs and bases | blocks tile the heap; the program's blocks are its own; reads and writes are those of the file; strings come out as C promises |
| Shell (`USERLAND/Shell.c`) | history ring, position, line, the child | keys, Enter, commands, PATH, fork, exec, wait | the ring going round; a repeated command; words cut where they stand; a program that goes between test and exec | the arrows walk through the last commands; the words typed go to the program PATH gives |
| File system (`Kernel/Fs/Fs_Soiav.c`) | superblock, inodes, directory, on disk and in buffers | mkfs, mount, create, readdir, readpage, writepage | a crash or a refused write between two blocks | an entry leads to its inode; what was created stays |
| Sound (`Kernel/Drivers/Sound.c`) | the playback's buffer, length, position and lock | probe, two players, the interrupt handler | three fields of one sound; a lock taken with interrupts on; a buffer freed while played | the card gets the portions of one sound, in order, to its end |
| Applications (`System/apps.c`) | the calculator's values; the file manager's list, selection, scroll position | buttons, keys, clicks, the wheel | rows computed from a scroll position; digits and operators in any order | a click selects what it was on; the value held is that of what was entered |
| Arch (`Kernel/Arch.c`, and the same file in `Kernel/arch/x86`), `Kernel.c`, `gpu.c` | descriptor tables, paging; devices | initialisation | nothing that interleaves | not modelled |

How they interact: programs call IPC through exported functions, each call on
the thread of its caller; the input driver's interrupts feed rings that readers
empty, and the display server reads the same devices through evdev and feeds its
event ring; clients of the display server and of the system server talk over
sockets, one request at a time or ahead; the shell runs on the C library's
buffered streams and its heap, and so do the applications, which are clients of
the display server.

`PROJECT.json` lists under "hazards", each at its line, what in this code is
hard to test, with the properties that are about it.

## 2. Modules

Every module models its handlers whole; a step is what the code does under one
lock, or between two points where another thread or an interrupt can be seen. A
variable has the name of the field it stands for; a variable marked "history" is
not in the code and is only used by properties. Definitions marked `Mutant:` are
changed copies of the one that follows. They are not part of the specification.

| Module | Models | State and steps |
|---|---|---|
| `IpcObject` | the life of one IPC object as an abstract specification | `stage` (new, mapped, freed), `refcount`, the `holders` inside a call, `pinned` attachments. `Acquire` is the lookup with `atomic_inc`, `Release` the `atomic_dec`, `Close` one `soiav_ipc_close` |
| `IpcTable` | the table, ids, create, lookup, attach, close, unload | each create allocates, then installs or finds no slot; the unload closes slot by slot. Implements `IpcObject` for every object |
| `IpcQueue` | send and receive | `pc` per thread; the list, its count, sleepers and wakeups are steps of their own. Extends `IpcObject`, implements `BoundedFifo` |
| `IpcSem` | `soiav_ipc_sem_op` | as the queue; ints wrap at `IntMax` |
| `IpcPipe` | the two loops over the ring | a byte is its number in the stream, so that loss, repetition and order show |
| `BoundedFifo` | a bounded buffer that refuses, or drops its oldest entry, when full | abstract; what the queue and the event ring promise |
| `EventRing` | `push_event`, `pop_event`, the reply to `SDP_GET_EVENT` | one step under `event_lock`, the socket write after it another |
| `WindowList` | the list and its walkers | a walk is a step per node; the pixels of a frame arrive whole, in part (what comes after is then read as a packet) or not at all. A read of a freed window sets `undefined`, after which the model stops |
| `WindowGeometry` | one window's geometry, flags, framebuffer, animation | `update_animations` takes the time, tests `active` and stores in three steps, with the client's thread between any two |
| `ServerConn` | the selector's rounds, the handlers, the pool, the heartbeat, shutdown | per connection: bytes on the way as whole messages, the selection key, tasks, replies. A round selects a batch and serves it key by key. `disconnectClient` takes the client out of the map, closes the channel and counts in three steps, in the selector thread and in the heartbeat task; a close that throws ends it before the count. The loop that writes a reply is a step that does not come while the client does not read |
| `ServerProcs` | process table, `nextPid++` as a read and a write, monitors | a stop destroys and then marks, with the monitor between; the common pool has `Monitors` threads, fewer than there are processes |
| `ServerServices` | start and stop of one service by several workers | a step per unlocked access; the thread of an instance calls its `start` later, which may throw, as may `stop` |
| `ServerSession` | decoding, login, rights and replies of one client whose messages several workers process | a step per field of the client and per reply |
| `ServerFiles` | read, write and delete of one path | a step per call of the file system; an open file stays what it was when the path is deleted; a delete may be refused |
| `ServerLog` | `log` | the list's `add`, `size` and `remove` are steps of their own |
| `ClientSlots` | the accept loop and the clients' threads | descriptors are the lowest free numbers, and used again; slots are not |
| `SoundPlayback` | probe, the players, `audio_interrupt` | a step per store of a player; an interrupt takes a CPU from its player, also from one that holds the lock, or comes to another one |
| `SoiavFs` | mkfs, mount and `soiavfs_create` | a step per write; the buffer cache beside the disk; crashes and refused writes; the volume is blank or was formatted and used before |
| `KeyboardInput`, `MouseInput` | the interrupt handlers, rings and readers | handler and reader hold the device's lock throughout: a step each |
| `Heap` | malloc, realloc, free | the list as a sequence of blocks; the merging pass as a recursive function |
| `Stdio` | one buffered stream over the kernel's file | a round of the loops of fread and fwrite is a step; the kernel refuses reads and writes and cuts writes short; `want`, `at` are what a program expects that knows no buffers, `dropped` and `astray` say where the library has lost it |
| `CString` | strings, memory, digits of a number | a call is a step, each of its loops a recursive function that stores byte by byte; both operands lie in one array; a `char` is signed |
| `ShellHistory` | history ring and arrow keys | a key is a step |
| `ShellCommands` | words, the search along PATH, fork, exec, wait | a round of the loop that cuts words and an element of PATH are a step each; where a path does not fit in `fullpath` the model ends |
| `FileManager`, `Calculator` | the handlers of two applications | an event of the user is a step; where a number does not fit in `display` the model ends |

`MC*` modules are what TLC runs. Several of them check parts of the system side
by side in one run (`MCIpcSemPipe`, `MCWindows`, `MCKernel`, `MCServerTasks`,
`MCUserland`): the parts share no state, a variable that never changes picks the one
that moves, and the others stay in their initial states, so that the run visits
the union of what each would visit alone, and says of each property what a run
of its own would say. A property of such a run is the conjunction of what its part
promises and of the part's type invariant; each conjunct has a name and a comment
in the module of the part. In the same way `MCWindows` and `MCServerConn` have
*scenes*, which bound the clients and what they do; a scene only takes steps
away. `*Proofs` modules hold the theorems.

## 3. Runs

All bounds are constants of the `.cfg` files. They are small, but each is large
enough for the case the properties are about.

| Run | Shows | Bounds |
|---|---|---|
| `IpcTable` | ids, slots, references and memory under every order of calls, and at the unload: the table is sound, ENOSPC means full, no call touches freed memory, every object is an `IpcObject` | 2 threads, 4 objects in 4 slots (ids start at 1, so the table runs full after three), 2 closes of an object and an attachment |
| `IpcQueue` | references, lifetime, wakeups, FIFO order | 3 threads, so that a sender meets two receivers; depth 2: the queue runs full; one close |
| `IpcSemPipe` | value, units and wakeups of a semaphore; what the ring of a pipe holds, gives out and loses | semaphore: 3 threads, values 0 to 3, operations of 1 and 2 units, ints of 4 bits; pipe: 2 threads, sizes 0, 2 and 3, 7 bytes in writes of up to 4: longer than the buffer, and several times round |
| `Windows` | the list stays whole, frames are complete, a packet acts on the window it names, focus, service; what maximizing saved can be restored, animations end | scenes "pair" (2 clients, one window created), "many" (1 client, 2 windows), "click" (1 client, 1 window, the mouse), each beside one window of the server's own; geometry: 2 positions, 2 sizes and the screen's, animations of 2 ticks. 300,830 states |
| `Kernel` | events are given out once, the newest are kept; scancodes and movements; the portions of sounds, to their end or to a handler that spins for ever; files on disk; clients' sockets | event ring of 3 slots, 5 events, 2 clients: overflow twice; input rings of 3 slots, 6 scancodes, 3 movements at the ends of the nine-bit range and about 0, one lost byte; 2 players, 3 sounds of up to two portions, one of negative length; 3 creates of 2 names, 2 faults, so that one can follow another, on a blank volume and on used ones; 3 slots and 5 connections: slots run out, and descriptors come again. 920,151 states |
| `ServerConn` | counts, replies, removal of dead clients | scenes "ahead" (1 client with 2 requests under way, pool of 2), "pair" (2 clients that wait, pool of 1), both with cut messages, replies that do not fit and closes that throw, and "polite" (1 client that waits, whole messages). 786,461 states |
| `ServerTasks` | the status of processes and services is backed; ends are recorded; the log; files; logins and replies | processes: in one task 2 workers and 2 processes, in the other 1 worker and 3 processes over 2 monitor threads: the pool runs out; services: 2 workers, 2 instances; log: 3 threads, 4 entries kept of 9, so that each is trimmed; files: 2 workers, 3 requests, contents of 1 and 2 bytes; session: 2 workers, 3 messages: one may overtake another two. 291,004 states |
| `Userland` | tiling and ownership of the heap; content, position and end of the loops of a file; strings; history and commands; the applications | heap: 32 bytes with headers of 4, requests of 0, 1, 4 and 9: up to eight blocks; file: all modes and kinds of seek, buffers of 2 bytes, a file of 3, calls of 1 and 3 bytes: a call goes over several buffers; one read or write refused or cut short; strings: every content of 5 bytes out of 0, 1 and 200, a char that is negative, every pair of operands, sizes to 3, numbers at sign, digit and width limits; history of 3 slots, 6 commands: the ring goes round; lines of up to 5 characters and 3 words, PATH of 2 directories; lists that are longer and shorter than their area and longer than `MAX_FILES`; calculations of 3 digits, points and operators in a display of 3 bytes: some do not fit. 875,904 states |

Deadlock is checked in the runs `IpcQueue` and `IpcSemPipe`. Elsewhere the
system may stop: the IPC module once it is unloaded, a client that says no more,
an input that ends, a bound that is reached, a thread whose exit ends its part, or
(in `WindowList`) undefined behaviour.

Several constants describe the environment rather than a bound, and a property
holds only under the one its run sets:

* `Rough` (server): a read may return part of a message, a reply may be too
  large for the write buffer, a close may throw; `Window`: the requests a client
  has under way;
* `Orderly` (geometry): a client maximizes a normal window, restores a maximized
  one and resizes a normal one;
* `Former` (file system): what volumes that are formatted again held before.

Losses that the environment causes are recorded by history variables and the
properties say what holds after them: `overrun` (a ring of the input driver that
was overtaken by its interrupt handler), `losses` (bytes of the mouse), `dropped`
(a refused write that fseek or fclose ignored), `rogue` (a thread released units of
a semaphore that it did not hold), `refused` (a write to the disk that failed),
`unserved` (a connection whose thread could not be created), `alone` (no other
request changed the file meanwhile), `Lost` (the calculator was given two operators
or two numbers in a row). In the same way some say where the code itself has gone
wrong, which the runs reach, and up to where it has not: `twice` (a client that
both selector and heartbeat disconnected) and the channels that are "failed" (a
close that threw); `raced` (starts or stops of a service that overlapped in one of
three ways); `Stuck` (an interrupt handler that spins for the lock of the player
under it); `Exhausted` (processes that run on hold every thread of the pool);
`dropped` and `astray` (bytes of a stream's buffer that were lost or mixed);
`overrun` (a number longer than `display`, a path longer than `fullpath`).

### Fairness

Safety properties need none. Liveness is checked under weak fairness of

* each thread inside an IPC call (`Advance(p)`): the kernel schedules it; that a
  thread *begins* a call is never assumed;
* the compositor and every client's thread while it serves a packet, not a
  client that is to send the rest of a frame (that is what `WindowListFreeze`
  is about);
* the selector, the workers, the heartbeat task and its clock; never that a
  client sends. The selector's steps are those of the client that waits for its
  reply and reads it: a client that does not read keeps the selector thread in the
  loop of `handleWrite` (`Server.c:379`) and nobody is served, which no fairness of
  the server's threads could change;
* a start under way and a monitor that has its thread; a process may run for
  ever;
* the rounds of a loop of fread or fwrite, which does not say that the loop ends;
* a sound's player that has begun, the card's interrupts and the handler: the card
  interrupts again and again while it plays. A player under an interrupt and a
  handler that waits for a lock have no step, so that nothing is assumed to end a
  handler that spins for the player it has interrupted.

No strong fairness is assumed anywhere.

## 4. Where code and comments disagree

Each of these runs checks one property that a comment states, and TLC finds a
behaviour of the code that breaks it. The lines are quoted under "findings".

| Run | What happens |
|---|---|
| `IpcTableClose` | an object closed while a call is inside it is never freed |
| `IpcPipeWait` | a reader that sleeps tests a local copy and sleeps for ever |
| `WindowListFreeze` | a client that stops within a frame stops the compositor |
| `ServerConnPipelined` | two requests read together count as one |

The models contain more behaviour of this kind, which no run singles out. The
properties that pass are stated so that they hold in spite of it:

* IPC: a semaphore created above its maximum loses units by a release
  (`Ipc_Soiav.c:463`); a write that fills a pipe makes it look empty (585), which
  is why `LossIsWholeBuffers`, a part of `PipeContents`, speaks of whole buffers.
* Display server: a destroy asks for no owner, so that any client closes any window
  (`Display_server.c:820`); the newest window is painted first, below the older ones
  (501); a maximized window is larger than its framebuffer
  (395); an animation ends before its end value is set (421), and one started while
  the compositor ends the last one is ended with it (424); `start_time` is an int of
  a millisecond clock and wraps (410); slots of clients are never used again, so the
  server refuses everyone after 256 connections in all (944).
* System server: the server ends before the confirmation of a shutdown is written
  (`Server.c:880`); exit code 0 is shown as "running" (702); lasting processes
  keep later monitors from running (699); a start of a service that overlaps another
  start, a stop that overlaps a stop, or a stop that overtakes the thread of the start
  leave an instance up that no stop reaches, or "running" without one, and a service
  that is being started survives the shutdown (931, 968, 868); a service whose `start`
  throws is shown as running (941). A close that throws leaves `activeConnections` one
  too high for good, and a client that selector and heartbeat disconnect at the same
  time one too low (394). A client that does not read its reply keeps the selector
  thread (379). A write of `interestOps` that crosses that of a worker leaves a reply
  in the queue of a client that sends ahead (386). A shutdown without a login has two replies (861), a header of
  the wrong type or a message that cannot be decoded has none, and replies carry ids
  of their own. `decode` leaves the data of an empty file null, so that none can be
  written (593); requests that overlap may mix the bytes of a file.
* Input: a full ring of scancodes looks empty (`Input.c:98`); after a lost byte
  packets mix two movements (123).
* Sound: `playback.active` is cleared at the end of a sound and set by nothing but
  the probe, so that the card plays one sound, and those that replace it in time;
  `kfree` follows the hand-over at once, so that what is played is freed memory
  (`Sound.c:188`); an interrupt on the CPU of a player that holds the lock, taken with
  interrupts enabled, spins for ever (182), which `SoundEnds` excepts and the run
  reaches.
* File system: the root's size is 0, so readdir lists nothing, and `simple_lookup`
  finds no file after a mount (`Fs_Soiav.c:395`); no inode is given `soiavfs_aops`;
  a create whose write the device refused returns 0 (359, 381); one beyond the 13th
  file runs past the directory's block (370).
* C library: a block freed between two free blocks is merged with one of them
  (`linbc.c:535`); fwrite on stdout, whose buffer has size 0, never returns, nor do
  `fputc` and printf (771); a write that the kernel takes a part of passes for a whole
  one, and the rest of the buffer is gone (774, 719, 788); a read that fails leaves -1
  in the unsigned `buf_len`, so that the old content of the buffer and what lies behind
  it pass for the file's (736); closing a stream opened with r+ and only read changes
  the file (718); a seek from where the program is, after a read, counts from the buffer's end (794);
  strncat clears the n-th byte behind the text and not the one at its end (358);
  strstr does not find an empty text in an empty one, nor strchr the end of a text;
  strchr and strrchr compare a signed char with an int, so that a byte above 127 is
  only found as the negative char it is (382); sprintf copies its format (655), and
  printf knows no width (579).
* Shell: after 100 commands repeats are stored and the arrow up goes round to
  newer commands (`Shell.c:84`, 384); the history command prints with "%5d  %s": printf
  does not know the "%5", and %s takes the number for a pointer (213), so that what it
  prints is not modelled, only what is in the ring; a path longer than `fullpath` is
  copied over what lies behind it (116); after a repeated command the arrow up starts
  where it was (85); "exit" with a blank or a word is looked up as a program (463);
  kill of what is no number kills pid 0 (256); with sprintf as it is, ps reads no
  process's name (231).
* Applications, with sprintf as it is: the calculator shows "%g" (`apps.c:77`) and the
  file manager opens "%s/%s" (386), so that the list that opens is empty. Digits are
  appended to `display` without a look at its 64 bytes (117, 194); a directory's entries
  after the 1000th are left out (242). A list shorter than its area scrolls to a negative
  position (406), and a click just above the list selects its first row (361): the
  division truncates.

## 5. Proofs

TLAPS proves the following for any threads, objects, clients, messages, sizes and
bounds that fit the assumptions. Each theorem follows from an inductive invariant
that says more than the property; TLC has checked every one of them on the
property's run before it was proved.

* `IpcQueueProofs`, the object: its reference count accounts for its creator, the
  calls inside and the attachments (`ObjAccounting`), and it is not freed under
  a call while it is closed no more often than its references allow
  (`ObjNoUseAfterFree`). `ObjInv` adds to the accounting that a freed object was
  closed as often as it had references when it went: the count itself is gone by
  then.
* `IpcQueueProofs`, the queue: a step of the queue is a step of `IpcObject` or
  none (`QueueImplementsObject`), so that the object's invariant carries over.
  `QueueInv` joins it with the queue's types, `holders` = the threads inside a
  call, `count` = the length of the list, and `WakeupPending`. From it follow
  the queue's properties, `QueueConsistent` (types and references) among them, and
  that it implements `BoundedFifo`. Without `holders = Inside` the accounting would
  not say anything about the calls; without `count = Len(messages)` the FIFO's guard
  would not follow from the code's test of `count`.
* `IpcTableProofs`: `TableInv` adds to types and `TableSound` (together
  `TableConsistent`) that the ids below the first never used one are dense, that
  creates under way have objects apart from each other, and that closes stay within
  their bound; this gives uniqueness of ids and the meaning of ENOSPC. The refinement
  of `IpcObject`, one object at a time, has a lemma for lookups, leaves and closes
  each, and reference counts and memory safety follow from it.
* `IpcSemPipeProofs`, the semaphore: units are neither made nor lost
  (`SemaphoreAccounts`). What a thread does to the value was decided when it came
  in: `Errands` says that the sign of `op` still tells which way it went and that
  what it gives back it holds, so that the test of `max_val` never swallows a unit.
* `IpcSemPipeProofs`, the pipe: the ring holds the newest bytes, bytes are lost by
  the bufferful (`PipeStaysInOrder`), and they come out forward (`PipeDelivers`).
  `PipeInv` adds that what is written and what all writers have still to write is
  within what was asked for, and that the last byte read is older than all in the
  ring; that the loss is a multiple of the size is stated with the multiplier.
* `KernelProofs`, sound (`SoundPortionsRight`): `SoundInv` adds that a player which
  has stored only some of the three fields holds the lock, and that the sound it is
  to hand over is nobody else's and not on the card yet.
* `KernelProofs`, clients (`ClientsStayApart`): `ClientInv` adds that a connection
  has one descriptor at most, and from its admission on a slot which no other has.
* `KernelProofs`, events (`EventsOnce`, `EventsImplementFifo`): `RingInv` adds that
  the ring holds the newest serial numbers one after the other and that what clients
  have is older than all of them; the refinement of `BoundedFifo` with its
  oldest entry dropped follows, with the movement of the two indices round the
  ring as arithmetic lemmas.
* `KernelProofs`, files (`FilesStayOnDisk`): `FileInv` speaks of the directory in
  the buffer, of which the disk has a beginning: its entries' numbers and inodes are
  apart, the create under way has an inode that none of them has, and inodes that no
  entry leads to are no more than the faults.
* `KernelProofs`, input (`InputStaysKept`): `KeyInv` adds that no more is held than
  was typed, `MouseInv` that the packet and what is still sent are the three bytes
  of the last movement while none was lost. Both rings stand on the same lemmas, in
  the number of slots, of what storing at the head and taking at the tail do
  (`Pushed`, `Taken`). That the text of two sequences is the one's and then the
  other's (`TextConcat`) is an induction, written as descent: the lengths for which
  it fails have no least one. Decoding undoes encoding on the whole nine-bit range
  (`DecodeOfEncode`).
* `ServerTasksProofs`, log (`LogStaysNewest`): `LogInv` adds how long the list is
  while threads are about to trim it: without it nothing says that a `remove` finds
  an entry. Processes and services (`StatusIsBacked`): `ProcsInv` adds that below
  the bound there is a pid for every thread that has read `nextPid` and not written
  it back; `ServiceInv` says, for any number of workers and until the first of the
  three races, that one worker at most is within a start or a stop, which makes `new` and
  `instance` agree, and what the status is at each place it can be at. Files (`FileBytesRight`): `FilesInv` says for each step of a
  handler how far the file and the bytes in hand agree when no other request changes
  files. Sessions (`RepliesStayRight`): `SessionInv` says for each step of a
  handler what is known of its request, of the login and of the replies so far.
* `WindowsProofs`, the list (`WindowsStaySound`, `FocusIsGivenUp`, an action
  property): `ListInv` adds that the id a walker holds has been given out and that
  of a packet whose owner was checked the window, if it is still there, is its
  client's; that ids are never used again makes the two lookups of a packet agree. For
  a destroy, which has no check, the window is the one named, anybody's.
  Frames (`FramesStayComplete`) add what is painted above the window the compositor
  is at. Geometry (`RestoredStaysFit`): `GeometryInv` adds what animations look like.
* `ServerConnProofs` (`CountsStayRight`): `activeConnections` is accounted for exactly,
  step by step of `disconnectClient` in both threads: the clients in the map, those on
  their way out, a connection too many for each close that threw and one too few for
  each client taken out twice. `ConnInv` adds that a connection that has
  not come has left nothing anywhere, that the channel of a client in the map is open,
  that no client is taken out a third time (`Once`), that a client that
  waits has one request under way at most, and that tasks being added to the pool and
  the shutdown's worker are within the pool.
* `UserlandProofs`, the heap (`HeapStaysSound`): `HeapInv` is `BlocksTile` and
  `LiveBacked` themselves, with the header's room between neighbours. That tiles are
  apart is shown from their order, by the least end of two that are not; the pass of
  free over the list is a recursive function, and that every beginning of its result
  tiles as far as the list it has passed, by the least beginning that would not.
  Which block is a pointer's follows from the blocks' places being different.
* `UserlandProofs`, files (`StreamsStayRight`), for all modes and seeks: `FileInv` says,
  until the library has dropped or mixed bytes, how far the kernel's offset is ahead of
  the program when the buffer holds what was read (`Reading`), what of the program's
  file is still in the buffer when it holds what is to be written (`Waiting`), that an
  index behind the buffer comes of a refused read (`Refilled`), and between the rounds
  of a call how much of it is done (`CallFits`). The two meanings of the one index are
  told apart by `buf_len`.
* `UserlandProofs`, the applications (`AppsStayRight`). The file manager's sort is a
  fold over pairs of places, taken as a recursive function of their number: the pairs
  passed give the places before which no directory is missing (`Leading`, `Foremost`),
  and an exchange is a bijection of places, so that no entry is lost or doubled of the
  first `MAX_FILES`. The row of a click needs that division undoes multiplication. `PocketInv` adds to what
  the calculator promises that a number being entered begins with a digit or a point,
  and that after a result the next one begins a new number; it holds to the digit that
  does not fit.
* `UserlandProofs`, the shell (`ShellStaysRight`): the history's invariant is the
  property and types, since command numbers less than a round apart have slots of their
  own (`SlotsApart`); and since every slot, once the ring has gone round, is that of one
  of the last commands, a walk further back shows these again. For a command, `Cut` says what the line is as far as it has been
  parsed: letters stand, blanks may be NUL, the words found are all those that begin
  there, in order, each ending where it did; counting them is a bijection (`CutCounts`).
  `ProgramAt` says which elements of PATH have been tested in vain.
* `UserlandProofs`, the strings (`StringsStayRight`): the invariant is the property,
  that the array is as it was until a call, and that it ends in a 0; the work is in the
  loops, all of which are taken as the code has them, byte by byte. One that ends at the first place of a set returns what it has there
  (`LoopIs`: strlen, the comparisons, strchr, strstr); a copy stores what it should if it
  reads no byte it has written, in whichever direction (`CopyIs`: memcpy, memmove);
  strcat and strncat leave one text behind another (`AppendIs`). A comparison gives the
  order since the texts agree up to where it ends (`OrderIs`). The digits of a number
  are those of its quotient and its remainder, and their value is taken digit by digit
  (`ValueOfMore`). That each recursive function exists is shown with it.

`MCIpcSemPipe`, `MCKernel`, `MCServerTasks`, `MCWindows` and `MCServerConn` put parts
side by side or bound their clients, so the theorems about them begin with a lemma
that a step of the whole is a step of the part or leaves it alone, and say what
holds of each part.

The assumptions are the named ASSUMEs of the modules, which TLC evaluates in the
runs; a part's assumption is a definition of its module that the `MC*` module
assumes of its instance. Those that are more than types: `MaxCloses \in {0, 1}` in
the queue's, the semaphore's and the pipe's module says that an object is closed
once, as its owner does; a part's threads, clients and connections are finite sets.
`RestoredStaysFit` has the hypothesis `Orderly`, which its run sets (section 3).

Only model-checked: every liveness property (`NoLostWakeup`, `PacketServed`,
`AnimationEnds`, `SoundEnds`, `ReplyArrives`, `DeadRemoved`, `EndRecorded`,
`CallsReturn`), which is beyond TLAPS as it is used here. What a recursive function
computes for every input takes induction over data, and the library's induction
theorems are out of reach of the provers; a descent to the least counterexample
(`Smallest` in `UserlandProofs`) does instead, for one recursion at a time: `TextConcat`, the sums of
`MapThenSumSet` in `IpcSemPipeProofs`, the pass of free, the sort of the file manager,
the loops of the string functions and the digits of a number.

## 6. Not modelled

* `Arch.c` and its copy in `arch/x86`: straight sequences of writes to descriptor
  tables, page tables and ports; the entries of the system call table call stubs.
  `Kernel.c` is a straight line of calls, `gpu.c` a probe and a remove without state.
* The stubs of the C library for system calls: one instruction each. Their numbers
  are not those of the kernel's table.
* IPC: the content of shared memory, `soiav_ipc_stats`, the socket type, which is
  declared and never used.
* Display server: pixels and blending, the drawing packets, the decoding of evdev.
* Sound: the removal of the device, the volume, which nothing reads, the samples.
* File system: readpage, writepage and readdir, which no file can reach (section 4);
  a directory's block that is full.
* Server: the listing of a directory, the texts of replies, statistics, the output
  of a command; the second reply that follows when `sendMessage` throws within a
  handler (the catch clauses of `Server.c:503` and 540): it throws for a key that is
  cancelled, and the reply to such a client is never written. The fields of a client are not volatile; the models take them for
  sequentially consistent.
* C library: the format loop of printf, failures of `malloc` in `fopen`, sizes near
  the end of `size_t`, what a stream does after bytes of its buffer were dropped or
  mixed, what is stored by an index that lies behind the buffer.
* Shell: what built-in commands do, a command with a slash. Applications: drawing, and
  the geometry of the buttons; anything after an array was overrun.

## 7. Plan

1. Done: IPC, event ring, clients' slots, windows, the server's connections, sessions,
   processes, services, files and log, input, sound, file system, heap, stdio, strings,
   shell, applications.
2. Done: proofs of object, queue, table, semaphore, pipe, sound, clients' slots, event
   ring, input rings, file system, log, processes, services, files, sessions, windows,
   connections, heap, buffered files, strings, shell, applications.
3. Proofs left: none of the safety properties the runs check.
