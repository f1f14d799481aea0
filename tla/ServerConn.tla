----------------------------- MODULE ServerConn -----------------------------
(***************************************************************************)
(* The connections of the system server (src/System/Server.c): the selector *)
(* thread accepts, reads and writes; the threads of the worker pool process *)
(* a message each and queue the reply; the heartbeat task disconnects       *)
(* clients that have been silent too long; one message shuts the server     *)
(* down. What a message asks for is the matter of ServerSession; here each  *)
(* has one reply, and not two or none as a few have there.                  *)
(***************************************************************************)
EXTENDS Integers, Sequences, FiniteSets

CONSTANTS
  Conns,          (* the connections clients may open, one time each        *)
  Window,         (* environment: the requests a client sends ahead of their *)
                  (* replies                                                *)
  Pool,           (* threads of the worker pool; 10 in the code             *)
  Rough           (* environment: TRUE when a read may return part of a      *)
                  (* message, a reply may be larger than BUFFER_SIZE, and the *)
                  (* close of a channel may throw an IOException             *)

ASSUME ConnAssumption ==
  /\ IsFiniteSet(Conns)
  /\ Window \in Nat \ {0} /\ Pool \in Nat \ {0} /\ Rough \in BOOLEAN

VARIABLES
  peer,           (* the client's end: "absent", "up", "closed", "reset"    *)
  inbox,          (* messages in the receive buffer of the socket           *)
  owed,           (* requests the client has sent and not seen answered     *)
  clients,        (* the connections in the map                             *)
  channel,        (* "none", "open", "closed", or "failed": its close threw  *)
  key,            (* interest of the selection key: "none", "R", "RW"       *)
  tasks,          (* messages handed to the worker pool                     *)
  queue,          (* client.messageQueue                                    *)
  adding,         (* workers between messageQueue.add and interestOps       *)
  silent,         (* now - lastHeartbeat is over the limit                  *)
  active,         (* stats.activeConnections                                *)
  twice,          (* history: clients taken out of the map a second time     *)
  pc,             (* selector thread: "select", "batch", in handleAccept     *)
                  (* "register", in handleWrite "write" and "clear", in       *)
                  (* disconnectClient "remove", "close" and "count", "ended"  *)
  batch,          (* selected keys not yet handled, with their ready ops    *)
  current,        (* the client of the handler the selector thread is in     *)
  doomed,         (* the client the heartbeat task has found silent, and how  *)
                  (* far its disconnection is: "no", "remove", "close",       *)
                  (* "count"                                                *)
  shutdown        (* the worker in handleShutdown and its client: "no",     *)
                  (* "sent", "asked", "stopping" (running is FALSE), "exit"  *)

sockets == <<peer, inbox, owed>>
registry == <<clients, channel, key, active, twice>>
selector == <<pc, batch, current>>
vars == <<sockets, registry, tasks, queue, adding, silent, selector, doomed, shutdown>>

Nobody == "nobody"
Readable(c) == inbox[c] > 0 \/ peer[c] \in {"closed", "reset"}
Ready == {<<c, "read">> : c \in {d \in Conns : key[d] # "none" /\ Readable(d)}}
         \union
         {<<c, "write">> : c \in {d \in Conns : key[d] = "RW" /\ ~ Readable(d)}}

Init ==
  /\ peer = [c \in Conns |-> "absent"]
  /\ inbox = [c \in Conns |-> 0]
  /\ owed = [c \in Conns |-> 0]
  /\ clients = {}
  /\ channel = [c \in Conns |-> "none"]
  /\ key = [c \in Conns |-> "none"]
  /\ tasks = [c \in Conns |-> 0]
  /\ queue = [c \in Conns |-> <<>>]
  /\ adding = [c \in Conns |-> 0]
  /\ silent = [c \in Conns |-> FALSE]
  /\ active = 0
  /\ twice = {}
  /\ pc = "select"
  /\ batch = {}
  /\ current = Nobody
  /\ doomed = [at |-> "no", who |-> Nobody]
  /\ shutdown = [at |-> "no", who |-> Nobody]
-----------------------------------------------------------------------------
(* The clients.                                                             *)
Send(c) ==
  /\ c \in clients
  /\ peer[c] = "up"
  /\ owed[c] < Window
  /\ inbox' = [inbox EXCEPT ![c] = @ + 1]
  /\ owed' = [owed EXCEPT ![c] = @ + 1]
  /\ UNCHANGED <<peer, registry, tasks, queue, adding, silent, selector, doomed,
                 shutdown>>

HangUp(c) ==
  /\ peer[c] = "up"
  /\ \E how \in {"closed", "reset"} : peer' = [peer EXCEPT ![c] = how]
  /\ UNCHANGED <<inbox, owed, registry, tasks, queue, adding, silent, selector,
                 doomed, shutdown>>
-----------------------------------------------------------------------------
(* The selector thread. A round handles the keys that were ready when select *)
(* returned, in any order; "running" is looked at between two rounds.       *)
Select ==
  /\ pc = "select"
  /\ batch' = Ready
  /\ pc' = "batch"
  /\ UNCHANGED <<sockets, registry, tasks, queue, adding, silent, current, doomed,
                 shutdown>>

EndRound ==
  /\ pc = "batch"
  /\ batch = {}
  /\ pc' = IF shutdown.at = "stopping" THEN "ended" ELSE "select"
  /\ UNCHANGED <<sockets, registry, tasks, queue, adding, silent, batch, current,
                 doomed, shutdown>>

(* handleAccept: into the map, and then the key and the count.               *)
handleAccept(c) ==
  /\ pc = "batch"
  /\ peer[c] = "absent"
  /\ peer' = [peer EXCEPT ![c] = "up"]
  /\ clients' = clients \union {c}
  /\ channel' = [channel EXCEPT ![c] = "open"]
  /\ pc' = "register" /\ current' = c
  /\ UNCHANGED <<inbox, owed, key, active, twice, tasks, queue, adding, silent, batch,
                 doomed, shutdown>>

Register ==
  /\ pc = "register"
  /\ key' = [key EXCEPT ![current] = "R"]
  /\ active' = active + 1
  /\ pc' = "batch" /\ current' = Nobody
  /\ UNCHANGED <<sockets, clients, channel, twice, tasks, queue, adding, silent, batch,
                 doomed, shutdown>>

(* Mutant: a disconnection that forgets to take the client out of the map.    *)
disconnectKeeps(c, step, next) ==
  \/ /\ step = "remove" /\ next = "close"
     /\ UNCHANGED registry
  \/ /\ step = "close" /\ next = "count"
     /\ channel' = [channel EXCEPT ![c] = "closed"]
     /\ key' = [key EXCEPT ![c] = "none"]
     /\ UNCHANGED <<clients, twice, active>>
  \/ /\ step = "count" /\ next = "no"
     /\ active' = active - 1
     /\ UNCHANGED <<clients, twice, channel, key>>

(* disconnectClient, by the selector thread or the heartbeat task: out of the *)
(* map, the channel closed (which cancels the key), one connection fewer. A   *)
(* close that throws skips the count; a channel is closed once, and closing   *)
(* it again does nothing.                                                  *)
disconnectClient(c, step, next) ==
  \/ /\ step = "remove" /\ next = "close"
     /\ clients' = clients \ {c}
     /\ twice' = IF c \in clients THEN twice ELSE twice \union {c}
     /\ UNCHANGED <<channel, key, active>>
  \/ /\ step = "close" /\ next = "count"
     /\ IF channel[c] = "open"
        THEN /\ channel' = [channel EXCEPT ![c] = "closed"]
             /\ key' = [key EXCEPT ![c] = "none"]
        ELSE UNCHANGED <<channel, key>>
     /\ UNCHANGED <<clients, twice, active>>
  \/ /\ step = "close" /\ next = "no"
     /\ Rough /\ channel[c] = "open"
     /\ channel' = [channel EXCEPT ![c] = "failed"]
     /\ key' \in {key, [key EXCEPT ![c] = "none"]}
     /\ UNCHANGED <<clients, twice, active>>
  \/ /\ step = "count" /\ next = "no"
     /\ active' = active - 1
     /\ UNCHANGED <<clients, twice, channel, key>>

(* The selector thread in disconnectClient.                                 *)
Disconnect ==
  /\ pc \in {"remove", "close", "count"}
  /\ \E next \in {"close", "count", "no"} :
       /\ disconnectClient(current, pc, next)
       /\ pc' = IF next = "no" THEN "batch" ELSE next
       /\ current' = IF next = "no" THEN Nobody ELSE current
  /\ UNCHANGED <<sockets, tasks, queue, adding, silent, batch, doomed, shutdown>>

Cancel(c) ==
  /\ key' = [key EXCEPT ![c] = "none"]
  /\ UNCHANGED <<clients, channel, active, twice>>

Selected(c, op) ==
  /\ pc = "batch"
  /\ <<c, op>> \in batch
  /\ batch' = batch \ {<<c, op>>}

(* handleRead: whatever has arrived goes to a worker as one message, so that *)
(* a second one behind it is lost. (A part of a message is lost whole: the   *)
(* worker cannot decode it, nor the rest.) A client that has hung up is      *)
(* disconnected. An exception only costs the key: a broken connection, or a  *)
(* pool that takes no more tasks.                                           *)
handleRead(c) ==
  /\ Selected(c, "read")
  /\ \/ /\ c \notin clients \/ peer[c] = "reset"
        /\ Cancel(c)
        /\ UNCHANGED <<tasks, inbox, pc, current>>
     \/ /\ c \in clients /\ inbox[c] = 0 /\ peer[c] = "closed"
        /\ pc' = "remove" /\ current' = c
        /\ UNCHANGED <<registry, tasks, inbox>>
     \/ /\ c \in clients /\ inbox[c] > 0 /\ peer[c] # "reset"
        /\ inbox' = [inbox EXCEPT ![c] = 0]
        /\ \/ /\ shutdown.at # "stopping"
              /\ tasks' = [tasks EXCEPT ![c] = @ + 1]
              /\ UNCHANGED registry
           \/ /\ shutdown.at # "stopping"
              /\ Rough
              /\ UNCHANGED <<tasks, registry>>
           \/ /\ shutdown.at = "stopping"
              /\ Cancel(c)
              /\ UNCHANGED tasks
        /\ UNCHANGED <<pc, current>>
  /\ UNCHANGED <<peer, owed, queue, adding, silent, doomed, shutdown>>

(* handleWrite: takes one reply to be written. An exception (no connection,   *)
(* or a reply that does not fit in the buffer) cancels the key, and the reply *)
(* is gone.                                                                *)
handleWrite(c) ==
  /\ Selected(c, "write")
  /\ \/ /\ c \notin clients
        /\ Cancel(c)
        /\ UNCHANGED <<queue, pc, current>>
     \/ /\ c \in clients
        /\ queue[c] # <<>>
        /\ queue' = [queue EXCEPT ![c] = Tail(@)]
        /\ \/ /\ pc' = "write" /\ current' = c
              /\ UNCHANGED registry
           \/ /\ Rough
              /\ Cancel(c)
              /\ UNCHANGED <<pc, current>>
     \/ /\ c \in clients
        /\ queue[c] = <<>>
        /\ pc' = "clear" /\ current' = c
        /\ UNCHANGED <<queue, registry>>
  /\ UNCHANGED <<sockets, tasks, adding, silent, doomed, shutdown>>

(* The loop in handleWrite goes round until the socket has taken the whole    *)
(* reply: as long as the client does not read, the step does not come and the *)
(* selector thread serves nobody. A broken or a closed channel throws. When   *)
(* the queue is then empty the thread goes on to clear OP_WRITE.             *)
WriteOn ==
  /\ pc = "write"
  /\ \/ /\ peer[current] # "reset" /\ channel[current] = "open"
        /\ owed' = [owed EXCEPT ![current] = @ - 1]
        /\ pc' = IF queue[current] = <<>> THEN "clear" ELSE "batch"
        /\ current' = IF queue[current] = <<>> THEN current ELSE Nobody
        /\ UNCHANGED registry
     \/ /\ peer[current] # "up" \/ channel[current] # "open"
        /\ Cancel(current)
        /\ pc' = "batch" /\ current' = Nobody
        /\ UNCHANGED owed
  /\ UNCHANGED <<peer, inbox, tasks, queue, adding, silent, batch, doomed, shutdown>>

(* The end of handleWrite: the queue was empty when the thread looked.      *)
ClearWrite ==
  /\ pc = "clear"
  /\ pc' = "batch"
  /\ current' = Nobody
  /\ key' = [key EXCEPT ![current] = IF @ = "none" THEN @ ELSE "R"]
  /\ UNCHANGED <<sockets, clients, channel, active, twice, tasks, queue, adding,
                 silent, batch, doomed, shutdown>>
-----------------------------------------------------------------------------
(* The threads of the pool that are at work.                                *)
Busy == Cardinality(UNION {{c} \X (1 .. adding[c]) : c \in Conns})
        + (IF shutdown.at = "no" THEN 0 ELSE 1)

(* The worker pool. A client's messages are processed side by side, also    *)
(* after it has been disconnected.                                          *)
processMessage(c) ==
  /\ tasks[c] > 0
  /\ Busy < Pool
  /\ tasks' = [tasks EXCEPT ![c] = @ - 1]
  /\ silent' = [silent EXCEPT ![c] = FALSE]
  /\ queue' = [queue EXCEPT ![c] = Append(@, "reply")]
  /\ adding' = [adding EXCEPT ![c] = @ + 1]
  /\ UNCHANGED <<sockets, registry, selector, doomed, shutdown>>

(* Mutant: a reply for which nobody asks to be woken.                       *)
sendQuietly(c) ==
  /\ adding[c] > 0
  /\ adding' = [adding EXCEPT ![c] = @ - 1]
  /\ UNCHANGED <<sockets, registry, tasks, queue, silent, selector, doomed, shutdown>>

(* The second half of sendMessage: ask for OP_WRITE if the key still exists. *)
sendMessage(c) ==
  /\ adding[c] > 0
  /\ adding' = [adding EXCEPT ![c] = @ - 1]
  /\ key' = [key EXCEPT ![c] = IF @ = "none" THEN @ ELSE "RW"]
  /\ UNCHANGED <<sockets, clients, channel, active, twice, tasks, queue, silent,
                 selector, doomed, shutdown>>

(* handleShutdown: the confirmation goes the way of every reply; the worker  *)
(* then clears "running" and closes the scheduler and the pool to new tasks. *)
handleShutdown(c) ==
  /\ \/ /\ shutdown.at = "no"
        /\ tasks[c] > 0
        /\ Busy < Pool
        /\ tasks' = [tasks EXCEPT ![c] = @ - 1]
        /\ silent' = [silent EXCEPT ![c] = FALSE]
        /\ queue' = [queue EXCEPT ![c] = Append(@, "bye")]
        /\ shutdown' = [at |-> "sent", who |-> c]
        /\ UNCHANGED key
     \/ /\ shutdown = [at |-> "sent", who |-> c]
        /\ key' = [key EXCEPT ![c] = IF @ = "none" THEN @ ELSE "RW"]
        /\ shutdown' = [at |-> "asked", who |-> c]
        /\ UNCHANGED <<tasks, silent, queue>>
     \/ /\ shutdown = [at |-> "asked", who |-> c]
        /\ shutdown' = [at |-> "stopping", who |-> c]
        /\ UNCHANGED <<tasks, silent, queue, key>>
  /\ UNCHANGED <<sockets, clients, channel, active, twice, adding, selector, doomed>>

(* A second later: System.exit.                                             *)
Exit ==
  /\ shutdown.at = "stopping"
  /\ shutdown' = [shutdown EXCEPT !.at = "exit"]
  /\ clients' = {} /\ twice' = {} /\ active' = 0
  /\ channel' = [c \in Conns |-> "none"]
  /\ key' = [c \in Conns |-> "none"]
  /\ tasks' = [c \in Conns |-> 0]
  /\ adding' = [c \in Conns |-> 0]
  /\ pc' = "ended" /\ batch' = {} /\ current' = Nobody
  /\ doomed' = [at |-> "no", who |-> Nobody]
  /\ UNCHANGED <<sockets, queue, silent>>
-----------------------------------------------------------------------------
(* The limit of a client's silence passes, which is far longer than a        *)
(* handleAccept.                                                           *)
Timeout(c) ==
  /\ c \in clients /\ ~ (pc = "register" /\ current = c)
  /\ silent' = [silent EXCEPT ![c] = TRUE]
  /\ UNCHANGED <<sockets, registry, tasks, queue, adding, selector, doomed, shutdown>>

(* Mutant: a test that spares clients with no key.                          *)
heartbeatSpares(c) ==
  /\ \/ /\ doomed.at = "no"
        /\ shutdown.at \notin {"stopping", "exit"}
        /\ c \in clients /\ silent[c] /\ key[c] # "none"
        /\ doomed' = [at |-> "remove", who |-> c]
        /\ UNCHANGED registry
     \/ /\ doomed.at # "no" /\ doomed.who = c
        /\ \E next \in {"close", "count", "no"} :
             /\ disconnectClient(c, doomed.at, next)
             /\ doomed' = [at |-> next, who |-> IF next = "no" THEN Nobody ELSE c]
  /\ UNCHANGED <<sockets, tasks, queue, adding, silent, selector, shutdown>>

(* The heartbeat task: the test of a client and its disconnection are two    *)
(* steps, between which the client may send or be disconnected.             *)
heartbeatCheck(c) ==
  /\ \/ /\ doomed.at = "no"
        /\ shutdown.at \notin {"stopping", "exit"}
        /\ c \in clients /\ silent[c]
        /\ doomed' = [at |-> "remove", who |-> c]
        /\ UNCHANGED registry
     \/ /\ doomed.at # "no" /\ doomed.who = c
        /\ \E next \in {"close", "count", "no"} :
             /\ disconnectClient(c, doomed.at, next)
             /\ doomed' = [at |-> next, who |-> IF next = "no" THEN Nobody ELSE c]
  /\ UNCHANGED <<sockets, tasks, queue, adding, silent, selector, shutdown>>

Selector ==
  \/ Select \/ EndRound \/ Register \/ WriteOn \/ ClearWrite \/ Disconnect
  \/ \E c \in Conns : handleRead(c) \/ handleWrite(c)

Worker(c) == processMessage(c) \/ sendMessage(c) \/ handleShutdown(c)

Next ==
  \/ \E c \in Conns : Send(c) \/ HangUp(c) \/ handleAccept(c)
  \/ Selector
  \/ \E c \in Conns : Worker(c) \/ Timeout(c) \/ heartbeatCheck(c)
  \/ Exit

Spec == Init /\ [][Next]_vars

-----------------------------------------------------------------------------
TypeOK ==
  /\ peer \in [Conns -> {"absent", "up", "closed", "reset"}]
  /\ inbox \in [Conns -> 0 .. Window]
  /\ owed \in [Conns -> 0 .. Window]
  /\ clients \subseteq Conns
  /\ key \in [Conns -> {"none", "R", "RW"}]
  /\ tasks \in [Conns -> 0 .. Window]
  /\ adding \in [Conns -> 0 .. Pool] /\ Busy <= Pool
  /\ queue \in [Conns -> Seq({"reply", "bye"})]
  /\ active \in Int
  /\ channel \in [Conns -> {"none", "open", "closed", "failed"}]
  /\ \A c \in Conns : c \in clients => channel[c] = "open"

(* The disconnections that are past the map and not yet counted.             *)
Underway == (IF pc \in {"close", "count"} THEN 1 ELSE 0)
            + (IF doomed.at \in {"close", "count"} THEN 1 ELSE 0)

(* activeConnections, which selector and heartbeat task count down on their   *)
(* own, is the number of clients in the map, but for an accept or a           *)
(* disconnection under way, a connection too many for each close that threw   *)
(* and one too few for each client both have disconnected: it strays by these *)
(* only, though for good, as no client is disconnected a third time.          *)
CountedConnections ==
  active = Cardinality(clients) + Underway - (IF pc = "register" THEN 1 ELSE 0)
           + Cardinality({c \in Conns : channel[c] = "failed"})
           - Cardinality(twice)

(* The requests of a client between its sending and the reply's.             *)
Waiting(c) ==
  inbox[c] + tasks[c] + Len(queue[c]) + (IF pc = "write" /\ current = c THEN 1 ELSE 0)

(* A request on its way through selector, pool and queue is in one place: a  *)
(* client is never sent a reply it did not ask for, and as long as it keeps  *)
(* its key it is sent one for each request.                                 *)
NoReplyTooMany == \A c \in Conns : Waiting(c) <= owed[c]
EveryRequestCounts ==
  \A c \in Conns : key[c] # "none" => Waiting(c) = owed[c]

(* Line 354 says that what was read, the message, is processed in the pool.  *)
MessageProcessed == EveryRequestCounts

=============================================================================
