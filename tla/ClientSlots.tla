----------------------------- MODULE ClientSlots -----------------------------
(***************************************************************************)
(* The clients of the display server (src/Kernel/Display_server.c): the thread *)
(* that accepts connections, the array of slots, and a thread per client that  *)
(* works on its slot until it disconnects.  Slots are not used again.        *)
(* Connections are numbered; 0 is none.  File descriptors are the lowest free  *)
(* ones, and a number that was closed is soon another connection's.          *)
(***************************************************************************)
EXTENDS Integers, FiniteSets

CONSTANTS
  MAX_CLIENTS,    (* 256 in the code                                       *)
  MaxConns        (* bound: connections made                               *)

(* Assumed of the constants; the modules that instantiate this one check it. *)
SlotAssumption == MAX_CLIENTS \in Nat /\ MaxConns \in Nat

VARIABLES
  open,           (* per file descriptor the connection it stands for          *)
  conns,          (* connections accepted so far                           *)
  client_fd,      (* the descriptor accept has returned, or -1               *)
  client_count,
  socket,         (* per slot the client's socket                          *)
  thread,         (* per connection its thread: "none", or where it is         *)
  slot,           (* per connection the slot its thread was given            *)
  unserved        (* history: connections whose thread could not be created    *)

vars == <<open, conns, client_fd, client_count, socket, thread, slot, unserved>>

Fds == 1 .. MaxConns
Slots == 1 .. MAX_CLIENTS
Conns == 1 .. MaxConns

Init ==
  /\ open = [d \in Fds |-> 0]
  /\ conns = 0 /\ client_fd = -1 /\ client_count = 0
  /\ socket = [s \in Slots |-> 0]
  /\ thread = [c \in Conns |-> "none"]
  /\ slot = [c \in Conns |-> 0]
  /\ unserved = {}

LowestFree == CHOOSE d \in Fds : open[d] = 0 /\ \A e \in Fds : open[e] = 0 => d <= e

(* accept returns a connection.                                            *)
Accept ==
  /\ client_fd = -1
  /\ conns < MaxConns
  /\ conns' = conns + 1
  /\ client_fd' = LowestFree
  /\ open' = [open EXCEPT ![LowestFree] = conns']
  /\ UNCHANGED <<client_count, socket, thread, slot, unserved>>

(* All slots have been used: the connection is closed.                       *)
Refuse ==
  /\ client_fd # -1
  /\ client_count >= MAX_CLIENTS
  /\ open' = [open EXCEPT ![client_fd] = 0]
  /\ client_fd' = -1
  /\ UNCHANGED <<conns, client_count, socket, thread, slot, unserved>>

(* The next slot is filled and given to a new thread, under global_lock.  That  *)
(* pthread_create may fail is not looked at.                                 *)
Admit ==
  /\ client_fd # -1
  /\ client_count < MAX_CLIENTS
  /\ client_count' = client_count + 1
  /\ socket' = [socket EXCEPT ![client_count'] = client_fd]
  /\ slot' = [slot EXCEPT ![conns] = client_count']
  /\ \/ thread' = [thread EXCEPT ![conns] = "serves"] /\ UNCHANGED unserved
     \/ unserved' = unserved \union {conns} /\ UNCHANGED thread
  /\ client_fd' = -1
  /\ UNCHANGED <<open, conns>>

(* Mutant: a client that leaves makes room for another one.                  *)
disconnect_uncounted(c) ==
  /\ thread[c] = "serves"
  /\ open' = [open EXCEPT ![socket[slot[c]]] = 0]
  /\ thread' = [thread EXCEPT ![c] = "closed"]
  /\ client_count' = client_count - 1
  /\ UNCHANGED <<conns, client_fd, socket, slot, unserved>>

(* SDP_CLOSE, or a read that finds the end: the socket is closed.             *)
disconnect(c) ==
  /\ thread[c] = "serves"
  /\ open' = [open EXCEPT ![socket[slot[c]]] = 0]
  /\ thread' = [thread EXCEPT ![c] = "closed"]
  /\ UNCHANGED <<conns, client_fd, client_count, socket, slot, unserved>>

(* client->socket = -1, and the thread ends.                                *)
ThreadEnds(c) ==
  /\ thread[c] = "closed"
  /\ socket' = [socket EXCEPT ![slot[c]] = -1]
  /\ thread' = [thread EXCEPT ![c] = "ended"]
  /\ UNCHANGED <<open, conns, client_fd, client_count, slot, unserved>>

Next ==
  \/ Accept \/ Refuse \/ Admit
  \/ \E c \in Conns : disconnect(c) \/ ThreadEnds(c)

Spec == Init /\ [][Next]_vars
-----------------------------------------------------------------------------
TypeOK ==
  /\ open \in [Fds -> 0 .. conns]
  /\ client_fd \in Fds \union {-1}
  /\ client_count \in 0 .. MAX_CLIENTS
  /\ socket \in [Slots -> Fds \union {-1, 0}]
  /\ thread \in [Conns -> {"none", "serves", "closed", "ended"}]

(* A thread reads from its own connection and from no other, although numbers  *)
(* of descriptors are used again; no two clients have one slot, whose number is *)
(* the owner of their windows; and a descriptor is open for the accepting        *)
(* thread, for a client's thread, or because that thread was not created.      *)
ClientsApart ==
  /\ \A c \in Conns : thread[c] = "serves" => open[socket[slot[c]]] = c
  /\ \A c, d \in Conns : slot[c] # 0 /\ slot[c] = slot[d] => c = d
  /\ \A f \in Fds : open[f] # 0 =>
       f = client_fd \/ thread[open[f]] = "serves" \/ open[f] \in unserved
=============================================================================
