----------------------------- MODULE WindowList -----------------------------
(***************************************************************************)
(* The windows of the display server (src/Kernel/Display_server.c): one     *)
(* linked list, newest window first, that the threads of the clients change *)
(* under global_lock and that every thread walks without it: the compositor *)
(* twice a frame, the input thread for the window under the mouse, a        *)
(* client's thread for the window a packet names.                          *)
(*                                                                         *)
(* A window is known by its id, which is never used again. create_window    *)
(* and destroy_window hold global_lock throughout and are one step each; a  *)
(* walk is a step per node. A thread that reads a window after its free, or *)
(* through NULL, sets "undefined": from there on the program promises       *)
(* nothing, and the model stops. Geometry is WindowGeometry's subject.      *)
(***************************************************************************)
EXTENDS Integers, Sequences, FiniteSets

CONSTANTS
  Clients,
  Demo,           (* the windows main creates for itself; 3 in the code     *)
  MaxWindow       (* bound: the largest window id                           *)

ASSUME WindowAssumption ==
  /\ MaxWindow \in Nat
  /\ Demo \in 0 .. MaxWindow + 1
  /\ {"server", "compositor", "input"} \intersect Clients = {}

VARIABLES
  next,           (* win->next of every window that is not freed            *)
  first,          (* server.windows                                         *)
  owner,          (* win->client_id of every window that is not freed       *)
  hidden,         (* the windows whose visible flag is clear                *)
  count,          (* server.window_count                                    *)
  nextId,         (* server.next_window_id                                  *)
  focused,        (* server.focused_window                                  *)
  pc,             (* where each thread is                                   *)
  at,             (* the window each thread points to                       *)
  want,           (* the packet the thread of a client serves               *)
  painted,        (* the windows painted in this frame, in that order       *)
  stay,           (* history: visible ever since this frame's painting began *)
  undefined       (* undefined behaviour has happened                       *)

list == <<next, first, owner, count, nextId>>
vars == <<list, hidden, focused, pc, at, want, painted, stay, undefined>>

NULL == -1
Ids == 0 .. MaxWindow
None == [op |-> "none", id |-> NULL]
Live == DOMAIN next
Threads == Clients \union {"compositor", "input"}

(* The windows whose lock is held while its owner's thread reads a frame    *)
(* from the socket. Every other use of win->lock is inside one step.        *)
Locked == {at[c] : c \in {d \in Clients : pc[d] = "reading"}}

(* main: the demo windows belong to client 0, which no client is. Focus, like *)
(* every field of the server, starts as zero.                               *)
Init ==
  /\ next = [i \in 0 .. Demo - 1 |-> i - 1]
  /\ first = Demo - 1
  /\ owner = [i \in 0 .. Demo - 1 |-> "server"]
  /\ hidden = {}
  /\ count = Demo
  /\ nextId = Demo
  /\ focused = 0
  /\ pc = [t \in Threads |-> "idle"]
  /\ at = [t \in Threads |-> NULL]
  /\ want = [c \in Clients |-> None]
  /\ painted = <<>>
  /\ stay = {}
  /\ undefined = FALSE

(* Thread t takes a step; nobody does after undefined behaviour.            *)
Goto(t, from, to, w) ==
  /\ ~ undefined
  /\ pc[t] = from
  /\ pc' = [pc EXCEPT ![t] = to]
  /\ at' = [at EXCEPT ![t] = w]

(* The thread of a client is done with its packet.                          *)
Finish(c, from) ==
  /\ Goto(c, from, "idle", NULL)
  /\ want' = [want EXCEPT ![c] = None]

(* Thread t is about to read the window it points to, and may.             *)
Reads(t) == at[t] \in Live
-----------------------------------------------------------------------------
(* The thread of a client: one packet at a time.                            *)

(* SDP_CREATE_WINDOW: the new window goes to the head of the list.          *)
create_window(c) ==
  /\ nextId \in Ids
  /\ Goto(c, "idle", "opened", nextId)
  /\ next' = [i \in Live \union {nextId} |->
                IF i = nextId THEN first ELSE next[i]]
  /\ owner' = [i \in Live \union {nextId} |->
                 IF i = nextId THEN c ELSE owner[i]]
  /\ first' = nextId
  /\ count' = count + 1
  /\ nextId' = nextId + 1
  /\ UNCHANGED <<hidden, focused, want, painted, stay, undefined>>

(* Without the lock: the id goes to the client, the opening animation starts. *)
Opened(c) ==
  /\ Reads(c)
  /\ Finish(c, "opened")
  /\ UNCHANGED <<list, hidden, focused, painted, stay, undefined>>

(* A packet that names a window; find_window starts at the head. A resize    *)
(* goes the way of flags that leave the window visible.                     *)
Request(c) ==
  \E op \in {"destroy", "move", "flags", "frame"}, i \in Ids :
    /\ Goto(c, "idle", "find", first)
    /\ want' = [want EXCEPT ![c] = [op |-> op, id |-> i]]
    /\ UNCHANGED <<list, hidden, focused, painted, stay, undefined>>

(* Mutant: a search that looks at the first window only, again and again.    *)
find_first(c) ==
  /\ pc[c] \in {"find", "find again"}
  /\ \/ /\ Reads(c)
        /\ at[c] # want[c].id
        /\ Goto(c, pc[c], pc[c], at[c])
     \/ /\ at[c] \in (Live \intersect {want[c].id}) \union {NULL}
        /\ Goto(c, pc[c], IF pc[c] = "find" THEN "found" ELSE "act", at[c])
  /\ UNCHANGED <<list, hidden, focused, want, painted, stay, undefined>>

(* find_window, first for the handler and then, for a resize and for flags,  *)
(* once more for the function it calls.                                     *)
find_window(c) ==
  /\ pc[c] \in {"find", "find again"}
  /\ \/ /\ Reads(c)
        /\ at[c] # want[c].id
        /\ Goto(c, pc[c], pc[c], next[at[c]])
     \/ /\ at[c] \in (Live \intersect {want[c].id}) \union {NULL}
        /\ Goto(c, pc[c], IF pc[c] = "find" THEN "found" ELSE "act", at[c])
  /\ UNCHANGED <<list, hidden, focused, want, painted, stay, undefined>>

(* Mutant: a handler that does not ask whose window it is.                  *)
CheckExists(c) ==
  /\ want[c].op # "destroy"
  /\ \/ at[c] = NULL /\ Finish(c, "found")
     \/ /\ Reads(c)
        /\ \/ want[c].op # "flags" /\ Goto(c, "found", "act", at[c])
           \/ want[c].op = "flags" /\ Goto(c, "found", "find again", first)
        /\ UNCHANGED want
  /\ UNCHANGED <<list, hidden, focused, painted, stay, undefined>>

(* "win && win->client_id == client->id", for every packet but a destroy.   *)
Check(c) ==
  /\ want[c].op # "destroy"
  /\ \/ /\ at[c] = NULL \/ (Reads(c) /\ owner[at[c]] # c)
        /\ Finish(c, "found")
     \/ /\ Reads(c)
        /\ owner[at[c]] = c
        /\ \/ want[c].op # "flags" /\ Goto(c, "found", "act", at[c])
           \/ want[c].op = "flags" /\ Goto(c, "found", "find again", first)
        /\ UNCHANGED want
  /\ UNCHANGED <<list, hidden, focused, painted, stay, undefined>>

(* The work on the window: a move starts an animation, flags are set or      *)
(* cleared under its lock (nothing, when the second search failed).         *)
Act(c) ==
  /\ want[c].op # "frame"
  /\ Finish(c, "act")
  /\ \/ at[c] = NULL /\ UNCHANGED hidden
     \/ Reads(c) /\ want[c].op = "move" /\ UNCHANGED hidden
     \/ /\ Reads(c)
        /\ want[c].op = "flags"
        /\ at[c] \notin Locked
        /\ hidden' \in {hidden \union {at[c]}, hidden \ {at[c]}}
  /\ stay' = stay \ hidden'
  /\ UNCHANGED <<list, focused, painted, undefined>>

(* SDP_UPDATE_FRAME reads the socket with the lock of the window in hand ... *)
LockFrame(c) ==
  /\ want[c].op = "frame"
  /\ Reads(c)
  /\ at[c] \notin Locked
  /\ Goto(c, "act", "reading", at[c])
  /\ UNCHANGED <<list, hidden, focused, want, painted, stay, undefined>>

(* ... until some bytes of the frame have come or the client has closed its *)
(* end. The one read() of line 860 may return a part of the frame; the       *)
(* thread then takes the rest for packets, so that what it serves next is    *)
(* any packet at all, which Request allows of every client at any time.      *)
FrameArrives(c) ==
  /\ Reads(c)
  /\ Finish(c, "reading")
  /\ UNCHANGED <<list, hidden, focused, painted, stay, undefined>>

(* SDP_DESTROY_WINDOW: animate_window_close on what find_window returned,   *)
(* NULL included, whoever owns it.                                          *)
CloseAnimation(c) ==
  /\ want[c].op = "destroy"
  /\ Reads(c)
  /\ Goto(c, "found", "destroy", at[c])
  /\ UNCHANGED <<list, hidden, focused, want, painted, stay, undefined>>

(* Mutant: a removal that leaves the focus alone.                           *)
destroy_keeps_focus(c) ==
  LET id == want[c].id
      skip(w) == IF w = id /\ id \in Live THEN next[id] ELSE w
  IN /\ Finish(c, "destroy")
     /\ next' = [i \in Live \ {id} |-> skip(next[i])]
     /\ owner' = [i \in Live \ {id} |-> owner[i]]
     /\ first' = skip(first)
     /\ count' = IF id \in Live THEN count - 1 ELSE count
     /\ hidden' = hidden \ {id}
     /\ stay' = stay \ {id}
     /\ UNCHANGED <<nextId, focused, painted, undefined>>

(* destroy_window: unlink and free the window with this id if it is still in *)
(* the list; take the focus from this id in any case.                       *)
destroy_window(c) ==
  LET id == want[c].id
      skip(w) == IF w = id /\ id \in Live THEN next[id] ELSE w
  IN /\ Finish(c, "destroy")
     /\ next' = [i \in Live \ {id} |-> skip(next[i])]
     /\ owner' = [i \in Live \ {id} |-> owner[i]]
     /\ first' = skip(first)
     /\ count' = IF id \in Live THEN count - 1 ELSE count
     /\ hidden' = hidden \ {id}
     /\ stay' = stay \ {id}
     /\ focused' = IF focused = id THEN 0 ELSE focused
     /\ UNCHANGED <<nextId, painted, undefined>>

(* SDP_CLOSE, or the end of the stream. The client's windows stay.          *)
Disconnect(c) ==
  /\ Goto(c, "idle", "gone", NULL)
  /\ UNCHANGED <<list, hidden, focused, want, painted, stay, undefined>>
-----------------------------------------------------------------------------
(* The compositor: a walk over the animations, then a walk that paints.     *)
update_animations ==
  /\ \/ Goto("compositor", "idle", "animate", first) /\ UNCHANGED <<painted, stay>>
     \/ /\ Reads("compositor")
        /\ Goto("compositor", "animate", "animate", next[at["compositor"]])
        /\ UNCHANGED <<painted, stay>>
     \/ /\ at["compositor"] = NULL
        /\ Goto("compositor", "animate", "paint", first)
        /\ painted' = <<>>
        /\ stay' = Live \ hidden
  /\ UNCHANGED <<list, hidden, focused, want, undefined>>

(* Mutant: a walk that goes back to the head for every window it paints.    *)
composite_again ==
  LET w == at["compositor"]
  IN /\ \/ /\ w \in hidden
           /\ Goto("compositor", "paint", "paint", next[w])
           /\ UNCHANGED painted
        \/ /\ w \in Live \ (hidden \union Locked)
           /\ Goto("compositor", "paint", "paint",
                   IF Len(painted) = 0 THEN first ELSE next[w])
           /\ painted' = Append(painted, w)
        \/ /\ w = NULL
           /\ Goto("compositor", "paint", "idle", NULL)
           /\ painted' = <<>>
     /\ stay' = IF w = NULL THEN {} ELSE stay
     /\ UNCHANGED <<list, hidden, focused, want, undefined>>

(* composite_frame: a visible window is painted under its lock, for which the *)
(* compositor waits while a frame is being read into it.                    *)
composite_frame ==
  LET w == at["compositor"]
  IN /\ \/ /\ w \in hidden
           /\ Goto("compositor", "paint", "paint", next[w])
           /\ UNCHANGED painted
        \/ /\ w \in Live \ (hidden \union Locked)
           /\ Goto("compositor", "paint", "paint", next[w])
           /\ painted' = Append(painted, w)
        \/ /\ w = NULL
           /\ Goto("compositor", "paint", "idle", NULL)
           /\ painted' = <<>>
     /\ stay' = IF w = NULL THEN {} ELSE stay
     /\ UNCHANGED <<list, hidden, focused, want, undefined>>
-----------------------------------------------------------------------------
(* The input thread: the first visible window under the mouse, or under it   *)
(* with its title, gets the event; a click on the title takes its id as the  *)
(* focus in a later step. Where the mouse is does not matter here: any       *)
(* visible window may be the one.                                           *)
handle_mouse_event ==
  LET w == at["input"]
  IN /\ \/ Goto("input", "idle", "test", first) /\ UNCHANGED focused
        \/ /\ Reads("input")
           /\ Goto("input", "test", "test", next[w])
           /\ UNCHANGED focused
        \/ /\ w \in Live \ hidden
           /\ \E to \in {"focus", "idle"} :
                Goto("input", "test", to, IF to = "focus" THEN w ELSE NULL)
           /\ UNCHANGED focused
        \/ /\ w = NULL
           /\ Goto("input", "test", "idle", NULL)
           /\ UNCHANGED focused
        \/ /\ Goto("input", "focus", "idle", NULL)
           /\ focused' = w
     /\ UNCHANGED <<list, hidden, want, painted, stay, undefined>>

(* A thread reads a window that has been freed; a destroy follows NULL.     *)
Stray(t) ==
  /\ ~ undefined
  /\ \/ /\ pc[t] \in {"opened", "find", "find again", "found", "act", "reading",
                      "animate", "paint", "test"}
        /\ at[t] \notin Live \union {NULL}
     \/ /\ pc[t] = "found"
        /\ at[t] = NULL
        /\ want[t].op = "destroy"
  /\ undefined' = TRUE
  /\ UNCHANGED <<list, hidden, focused, pc, at, want, painted, stay>>

Serve(c) ==
  \/ Opened(c) \/ find_window(c) \/ Check(c) \/ Act(c) \/ LockFrame(c)
  \/ CloseAnimation(c) \/ destroy_window(c)

Next ==
  \/ \E c \in Clients :
       create_window(c) \/ Request(c) \/ Serve(c) \/ FrameArrives(c)
       \/ Disconnect(c)
  \/ update_animations
  \/ composite_frame
  \/ handle_mouse_event
  \/ \E t \in Threads : Stray(t)

Spec == Init /\ [][Next]_vars

(* Every thread is scheduled. Nothing makes a client send a packet, or the   *)
(* pixels it has announced.                                                 *)
FairSpec ==
  /\ Spec
  /\ WF_vars(update_animations \/ composite_frame)
  /\ \A c \in Clients : WF_vars(Serve(c))
  /\ \A t \in Threads : WF_vars(Stray(t))
-----------------------------------------------------------------------------
TypeOK ==
  /\ Live \subseteq Ids
  /\ next \in [Live -> Ids \union {NULL}]
  /\ owner \in [Live -> Clients \union {"server"}]
  /\ first \in Live \union {NULL}
  /\ hidden \subseteq Live
  /\ count \in Nat
  /\ nextId \in 0 .. MaxWindow + 1
  /\ focused \in Ids
  /\ at \in [Threads -> Ids \union {NULL}]
  /\ painted \in Seq(Ids)
  /\ stay \subseteq Live \ hidden
  /\ undefined \in BOOLEAN

(* create_window and destroy_window keep the list whole: it runs through     *)
(* every window that is not freed, the newest first, and window_count is its *)
(* length, whatever a client asks to destroy.                               *)
ListWhole ==
  /\ count = Cardinality(Live)
  /\ first = NULL <=> Live = {}
  /\ \A w \in Live :
       /\ w <= first /\ w < nextId
       /\ next[w] = NULL <=> \A v \in Live : w <= v
       /\ next[w] # NULL => /\ next[w] \in Live
                            /\ next[w] < w
                            /\ \A v \in Live : v < w => v <= next[w]

(* composite_frame walks the list while windows come and go: a window that   *)
(* has been there and visible since the painting began is painted, once,     *)
(* unless the compositor still has it before it.                            *)
FrameComplete ==
  pc["compositor"] = "paint" /\ at["compositor"] \in Live \union {NULL} =>
    /\ \A i, j \in DOMAIN painted : i < j => painted[i] > painted[j]
    /\ \A w \in stay :
         (w > at["compositor"]) <=> \E i \in DOMAIN painted : painted[i] = w

(* A packet acts on the window it names, and on one that its client created  *)
(* unless it is a destroy, for which the code asks nothing (lines 820-823):   *)
(* any client may close any window. The search, the check and the work are   *)
(* steps without global_lock, so the window may be freed between them (Reads *)
(* excepts that, Stray follows it), but never become another or change hands. *)
OnlyNamedWindows ==
  \A c \in Clients :
    pc[c] \in {"act", "reading", "destroy"} /\ Reads(c) =>
      /\ at[c] = want[c].id
      /\ owner[at[c]] = c \/ pc[c] = "destroy"

(* A packet is served: find_window ends although windows come in front of    *)
(* the list meanwhile, and nobody waits for a window for ever, except for    *)
(* the pixels of a frame.                                                   *)
PacketServed ==
  \A c \in Clients :
    pc[c] \notin {"idle", "gone", "reading"} ~>
      pc[c] \in {"idle", "reading"} \/ undefined

(* destroy_window never leaves the focus with the window it frees. The only  *)
(* step that gives it to a window no longer there is the store of a click    *)
(* whose walk found the window before the destroy.                          *)
FocusGivenUp ==
  [][focused' \notin Live' \union {0} =>
       focused \notin Live \/ pc["input"] = "focus"]_vars

(* Line 974 says that the compositor draws 60 frames a second: each frame it *)
(* starts comes to its end.                                                 *)
FramesContinue ==
  pc["compositor"] = "paint" ~> pc["compositor"] = "idle" \/ undefined
=============================================================================
