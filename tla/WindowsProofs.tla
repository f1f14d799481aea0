---------------------------- MODULE WindowsProofs ----------------------------
(***************************************************************************)
(* Theorems about the windows of the display server, for any clients, any     *)
(* number of windows and any geometry.  A scene only takes steps away, so that  *)
(* each step of SceneSpec is a step of the list, of the geometry, or neither.  *)
(***************************************************************************)
EXTENDS MCWindows, FiniteSetTheorems, TLAPS

-----------------------------------------------------------------------------
(* The geometry of a window.  The inductive invariant adds to the types what the   *)
(* animation and the one that start_animation has still to write down look like,   *)
(* and that the client is orderly.                                          *)
Kinds == {"move", "fade"}
Ends == Positions \union Geometry!Opacities
AnimationTypes ==
  /\ anim \in [type : Kinds, end : Ends, left : 0 .. Duration, active : BOOLEAN]
  /\ starting \in [type : Kinds, end : Ends, left : 0 .. Duration]

GeometryInv == Orderly /\ RestoredFits /\ AnimationTypes

LEMMA GeometryStep == [SceneNext]_sceneVars => [Geometry!Next]_(Geometry!vars)
BY DEF SceneNext, Bounded, sceneVars, geometryVars, Geometry!vars

LEMMA GeometryInvInit == Orderly /\ SceneInit => GeometryInv
<1> SUFFICES ASSUME Orderly, Geometry!Init PROVE GeometryInv
  BY DEF SceneInit
<1>a. Geometry!GeometryAssumption
  BY GeometryAssumed DEF Geometry!GeometryAssumption
<1>1. Geometry!TypeOK
  <2>1. geom \in [pos : Positions, size : Sizes \union {Screen}] /\ fb \in Sizes
    BY DEF Geometry!Init
  <2>2. saved \in [pos : Positions, size : Sizes \union {Screen}]
    BY <2>1 DEF Geometry!Init
  <2>3. opacity \in Geometry!Opacities /\ anim.left \in 0 .. Duration
    BY <1>a DEF Geometry!Init, Geometry!GeometryAssumption, Geometry!Opacities
  <2>4. /\ maximized \in BOOLEAN
        /\ mover \in {"idle", "activate", "describe"}
        /\ frame \in {"none", "late", "early", "end", "advance"}
    BY Zenon DEF Geometry!Init
  <2>5. QED
    BY <2>1, <2>2, <2>3, <2>4 DEF Geometry!TypeOK
<1>2. Geometry!RestoredFits
  BY DEF Geometry!Init, Geometry!RestoredFits
<1>3. AnimationTypes
  BY <1>a
  DEF Geometry!Init, Geometry!GeometryAssumption, Geometry!Opacities, Geometry!Fade,
      AnimationTypes, Kinds, Ends
<1>4. QED
  BY <1>1, <1>2, <1>3 DEF GeometryInv, RestoredFits

LEMMA GeometryInvNext ==
  GeometryInv /\ [Geometry!Next]_(Geometry!vars) => GeometryInv'
<1> SUFFICES ASSUME GeometryInv, [Geometry!Next]_(Geometry!vars) PROVE GeometryInv'
  OBVIOUS
<1> USE DEF GeometryInv, RestoredFits, Geometry!TypeOK, Geometry!RestoredFits,
            AnimationTypes
<1>a. /\ 0 \in Positions /\ Screen \in Nat /\ Sizes \subseteq Nat
      /\ Duration \in Nat \ {0}
  BY GeometryAssumed DEF Geometry!GeometryAssumption
<1>1. CASE Geometry!start_animation
  BY <1>1, <1>a DEF Geometry!start_animation
<1>2. ASSUME NEW x \in Positions, Geometry!MoveWindow(x) PROVE GeometryInv'
  BY <1>2, <1>a DEF Geometry!MoveWindow, Geometry!Move, Kinds, Ends
<1>3. ASSUME NEW n \in Sizes, Geometry!resize_window(n) PROVE GeometryInv'
  BY <1>3, <1>a DEF Geometry!resize_window
<1>4. ASSUME NEW on \in BOOLEAN, Geometry!set_window_flags(on) PROVE GeometryInv'
  BY <1>4, <1>a DEF Geometry!set_window_flags
<1>5. CASE Geometry!update_animations
  BY <1>5, <1>a DEF Geometry!update_animations, Geometry!Advance
<1>6. CASE Geometry!Tick
  BY <1>6, <1>a DEF Geometry!Tick
<1>7. CASE UNCHANGED Geometry!vars
  BY <1>7 DEF Geometry!vars
<1>8. QED
  BY <1>1, <1>2, <1>3, <1>4, <1>5, <1>6, <1>7 DEF Geometry!Next

(* For a client that maximizes a normal window, restores a maximized one and      *)
(* resizes a normal one, a window that is restored has exactly the pixels it       *)
(* shows, whatever its sizes and whatever animations run meanwhile.              *)
THEOREM RestoredStaysFit == Orderly /\ SceneSpec => []RestoredFits
<1>1. GeometryInv => RestoredFits
  BY DEF GeometryInv
<1>2. QED
  BY <1>1, GeometryInvInit, GeometryStep, GeometryInvNext, PTL DEF SceneSpec

-----------------------------------------------------------------------------
(* The list of windows.  An id is never used again, so that a thread that holds    *)
(* one a window had, knows a window with that id to be the same one: the invariant  *)
(* says that what threads point to and what packets named when it was looked up    *)
(* has been given out, and whose it is where the owner has been checked.          *)
Places(t) ==
  IF t = "compositor" THEN {"idle", "animate", "paint"}
  ELSE IF t = "input" THEN {"idle", "test", "focus"}
  ELSE {"idle", "opened", "find", "find again", "found", "act", "reading", "destroy",
        "gone"}

AllPlaces == UNION {Places(t) : t \in Threads}

Packets ==
  [op : {"none", "destroy", "move", "flags", "frame"}, id : Ids \union {NULL}]

ListTypes ==
  /\ TypeOK
  /\ pc \in [Threads -> AllPlaces]
  /\ \A t \in Threads : pc[t] \in Places(t)
  /\ want \in [Clients -> Packets]

(* Where a thread points to: into what has been given out, or nowhere.        *)
Pointers ==
  /\ \A t \in Threads : at[t] < nextId
  /\ pc["input"] = "focus" => at["input"] # NULL

(* Where a thread holds what find_window has given it.                          *)
Holding == {"found", "act", "reading", "destroy"}
USE DEF Holding

(* What find_window has found and what has been checked.                    *)
Found ==
  \A c \in Clients :
    /\ pc[c] \in Holding => at[c] \in {NULL, want[c].id}
    /\ pc[c] \in {"find again", "act", "reading"} =>
         /\ want[c].id < nextId
         /\ want[c].id \in Live => owner[want[c].id] = c

ListInv == ListTypes /\ ListWhole /\ Pointers /\ Found

(* The walk that paints: above the window that it is at everything is painted.   *)
Painting ==
  pc["compositor"] = "paint" =>
    /\ \A i, j \in DOMAIN painted : i < j => painted[i] > painted[j]
    /\ \A i \in DOMAIN painted : painted[i] > at["compositor"]
    /\ \A w \in stay : w > at["compositor"] <=> \E i \in DOMAIN painted : painted[i] = w

LEMMA ListStepOf == [SceneNext]_sceneVars => [Next]_vars
BY DEF SceneNext, Bounded, sceneVars, geometryVars

LEMMA Names ==
  /\ "compositor" \in Threads /\ "input" \in Threads
  /\ \A c \in Clients : c \in Threads /\ c # "compositor" /\ c # "input"
BY WindowAssumption DEF Threads

(* A step of one thread that leaves the list alone.                          *)
Moves(t) ==
  /\ pc' = [pc EXCEPT ![t] = pc'[t]]
  /\ at' = [at EXCEPT ![t] = at'[t]]

LEMMA GotoMoves ==
  ASSUME ListTypes, NEW t \in Threads, NEW from, NEW to, NEW w, Goto(t, from, to, w)
  PROVE  Moves(t) /\ pc[t] = from /\ pc'[t] = to /\ at'[t] = w
BY DEF ListTypes, TypeOK, Goto, Moves

LEMMA ListInvInit == SceneInit => ListInv /\ Painting
<1> SUFFICES ASSUME Init PROVE ListInv /\ Painting
  BY DEF SceneInit
<1>a. /\ MaxWindow \in Nat /\ Demo \in 0 .. MaxWindow + 1
      /\ Live = 0 .. Demo - 1
  BY WindowAssumption DEF Init, Live
<1>b. /\ next = [i \in 0 .. Demo - 1 |-> i - 1] /\ first = Demo - 1
      /\ count = Demo /\ nextId = Demo /\ focused = 0
  BY DEF Init
<1>1. TypeOK
  <2>1. next \in [Live -> Ids \union {NULL}] /\ Live \subseteq Ids
    BY <1>a, <1>b DEF Ids, NULL
  <2>2. owner \in [Live -> Clients \union {"server"}]
    BY <1>a DEF Init
  <2>3. /\ first \in Live \union {NULL} /\ count \in Nat
        /\ nextId \in 0 .. MaxWindow + 1 /\ focused \in Ids
    BY <1>a, <1>b DEF Ids, NULL
  <2>4. at \in [Threads -> Ids \union {NULL}] /\ painted \in Seq(Ids)
    BY DEF Init
  <2>5. hidden \subseteq Live /\ stay \subseteq Live \ hidden /\ undefined \in BOOLEAN
    BY DEF Init
  <2>6. QED
    BY <2>1, <2>2, <2>3, <2>4, <2>5 DEF TypeOK
<1>2. pc \in [Threads -> AllPlaces] /\ \A t \in Threads : pc[t] \in Places(t)
  BY DEF Init, AllPlaces, Places
<1>3. want \in [Clients -> Packets]
  BY DEF Init, Packets, None
<1>4. ListWhole
  <2>1. Cardinality(Live) = Demo
    BY <1>a, FS_Interval
  <2>2. first = NULL <=> Live = {}
    BY <1>a, <1>b DEF NULL
  <2>3. \A w \in Live : w \in Int /\ 0 <= w /\ w < Demo /\ next[w] = w - 1
    BY <1>a, <1>b
  <2>4. ASSUME NEW w \in Live
        PROVE  next[w] # NULL => next[w] \in Live
    BY <1>a, <2>3 DEF NULL
  <2>5. ASSUME NEW w \in Live
        PROVE  next[w] = NULL <=> \A v \in Live : w <= v
    <3>1. 0 \in Live /\ w \in Int /\ 0 <= w /\ next[w] = w - 1
      BY <1>a, <2>3
    <3>2. CASE w = 0
      BY <2>3, <3>1, <3>2 DEF NULL
    <3>3. CASE w > 0
      BY <3>1, <3>3 DEF NULL
    <3>4. QED
      BY <3>1, <3>2, <3>3
  <2>6. count = Cardinality(Live)
    BY <2>1, <1>b
  <2>7. ASSUME NEW w \in Live
        PROVE  /\ w <= first /\ w < nextId
               /\ next[w] < w /\ \A v \in Live : v < w => v <= next[w]
    BY <2>3, <1>a, <1>b
  <2>8. QED
    BY <2>2, <2>4, <2>5, <2>6, <2>7, Zenon DEF ListWhole
<1>5. Pointers /\ Found /\ Painting
  <2>1. \A t \in Threads : at[t] = -1 /\ pc[t] = "idle"
    BY DEF Init, NULL
  <2>2. Pointers
    BY <2>1, <1>a, <1>b, Names DEF Pointers
  <2>3. Found /\ Painting
    BY <2>1, Names DEF Found, Painting
  <2>4. QED
    BY <2>2, <2>3
<1>6. QED
  BY <1>1, <1>2, <1>3, <1>4, <1>5 DEF ListInv, ListTypes

(* A step of one thread that leaves the list alone; c's packet may be done or     *)
(* may have been taken, and only what c found or checked has to be looked at.    *)
LEMMA ListInvMoves ==
  ASSUME ListInv, NEW t \in Threads, Moves(t), UNCHANGED list,
         pc'[t] \in Places(t),
         at'[t] \in Ids \union {NULL}, at'[t] < nextId,
         t = "input" /\ pc'[t] = "focus" => at'[t] # NULL,
         want' \in [Clients -> Packets],
         \A c \in Clients : c # t => want'[c] = want[c],
         t \in Clients =>
           /\ pc'[t] \in Holding => at'[t] \in {NULL, want'[t].id}
           /\ pc'[t] \in {"find again", "act", "reading"} =>
                /\ want'[t].id < nextId
                /\ want'[t].id \in Live => owner[want'[t].id] = t,
         hidden' \subseteq Live, stay' \subseteq Live \ hidden', focused' \in Ids,
         painted' \in Seq(Ids), undefined' \in BOOLEAN
  PROVE  ListInv'
<1>a. ListTypes /\ ListWhole /\ Pointers /\ Found
  BY DEF ListInv
<1>b. next' = next /\ first' = first /\ owner' = owner /\ count' = count /\ nextId' = nextId
  BY DEF list
<1>c. Live' = Live
  BY <1>b DEF Live
<1>d. /\ pc \in [Threads -> AllPlaces] /\ at \in [Threads -> Ids \union {NULL}]
      /\ \A u \in Threads : pc[u] \in Places(u)
  BY <1>a DEF ListTypes, TypeOK
<1>e. pc'[t] \in AllPlaces
  BY DEF AllPlaces
<1>f. /\ pc' \in [Threads -> AllPlaces] /\ at' \in [Threads -> Ids \union {NULL}]
      /\ \A u \in Threads : u # t => pc'[u] = pc[u] /\ at'[u] = at[u]
  BY <1>d, <1>e DEF Moves
<1>1. TypeOK'
  BY <1>a, <1>b, <1>c, <1>f DEF ListTypes, TypeOK
<1>2. ListTypes'
  BY <1>1, <1>d, <1>f DEF ListTypes
<1>3. ListWhole'
  BY <1>a, <1>b, <1>c, Zenon DEF ListWhole
<1>4. Pointers'
  <2>1. \A u \in Threads : at'[u] < nextId'
    BY <1>a, <1>b, <1>f DEF Pointers
  <2>2. pc'["input"] = "focus" => at'["input"] # NULL
    <3>1. CASE t = "input"
      BY <3>1
    <3>2. CASE t # "input"
      BY <1>a, <1>f, <3>2, Names DEF Pointers
    <3>3. QED
      BY <3>1, <3>2
  <2>3. QED
    BY <2>1, <2>2 DEF Pointers
<1>5. Found'
  <2> SUFFICES ASSUME NEW c \in Clients
               PROVE  /\ pc'[c] \in Holding => at'[c] \in {NULL, want'[c].id}
                      /\ pc'[c] \in {"find again", "act", "reading"} =>
                           /\ want'[c].id < nextId
                           /\ want'[c].id \in Live => owner[want'[c].id] = c
    BY <1>b, <1>c DEF Found
  <2>1. CASE c = t
    BY <2>1
  <2>2. CASE c # t
    BY <1>a, <1>f, <2>2, Names DEF Found
  <2>3. QED
    BY <2>1, <2>2
<1>6. QED
  BY <1>2, <1>3, <1>4, <1>5 DEF ListInv

(* The facts about one thread that the steps below rest on.                    *)
LEMMA ListFacts ==
  ASSUME ListInv
  PROVE  /\ MaxWindow \in Nat /\ NULL = -1 /\ Ids = 0 .. MaxWindow
         /\ \A x \in Live \union {NULL} : x \in Int
         /\ Live \subseteq Ids /\ NULL \notin Ids /\ first \in Live \union {NULL}
         /\ nextId \in 0 .. MaxWindow + 1 /\ nextId \in Nat
         /\ first < nextId /\ NULL < nextId
         /\ \A w \in Live : w < nextId /\ next[w] \in Live \union {NULL} /\ next[w] < w
         /\ hidden \subseteq Live /\ stay \subseteq Live \ hidden /\ focused \in Ids
         /\ painted \in Seq(Ids) /\ undefined \in BOOLEAN
         /\ \A t \in Threads : at[t] \in Ids \union {NULL} /\ at[t] < nextId
         /\ want \in [Clients -> Packets]
<1>1. MaxWindow \in Nat /\ NULL = -1 /\ Ids = 0 .. MaxWindow /\ NULL \notin Ids
  BY WindowAssumption DEF NULL, Ids
<1>2. /\ Live \subseteq Ids /\ first \in Live \union {NULL}
      /\ nextId \in 0 .. MaxWindow + 1
      /\ hidden \subseteq Live /\ stay \subseteq Live \ hidden /\ focused \in Ids
      /\ painted \in Seq(Ids) /\ undefined \in BOOLEAN
      /\ at \in [Threads -> Ids \union {NULL}] /\ want \in [Clients -> Packets]
      /\ next \in [Live -> Ids \union {NULL}]
  BY DEF ListInv, ListTypes, TypeOK
<1>3. \A w \in Live : w < nextId /\ (next[w] # NULL => next[w] \in Live /\ next[w] < w)
  BY DEF ListInv, ListWhole
<1>4. \A t \in Threads : at[t] < nextId
  BY DEF ListInv, Pointers
<1>5. \A w \in Live : next[w] \in Live \union {NULL} /\ next[w] < w
  BY <1>1, <1>2, <1>3
<1>6. nextId \in Nat /\ first < nextId /\ NULL < nextId
  BY <1>1, <1>2, <1>3
<1>7. \A x \in Live \union {NULL} : x \in Int
  BY <1>1, <1>2
<1>8. QED
  BY <1>1, <1>2, <1>3, <1>4, <1>5, <1>6, <1>7

LEMMA ListInvServe ==
  ASSUME ListInv, NEW c \in Clients,
         Opened(c) \/ Request(c) \/ find_window(c) \/ Check(c) \/ Act(c) \/ LockFrame(c)
         \/ CloseAnimation(c) \/ FrameArrives(c) \/ Disconnect(c)
  PROVE  ListInv'
<1>a. /\ c \in Threads /\ c # "compositor" /\ c # "input"
      /\ Places(c) = {"idle", "opened", "find", "find again", "found", "act", "reading",
                      "destroy", "gone"}
  BY Names DEF Places
<1>b. ListTypes /\ Found
  BY DEF ListInv
<1>f. /\ NULL \notin Ids /\ Live \subseteq Ids /\ first \in Live \union {NULL}
      /\ nextId \in Nat /\ first < nextId /\ NULL < nextId
      /\ \A w \in Live : w < nextId /\ next[w] \in Live \union {NULL} /\ next[w] < w
      /\ hidden \subseteq Live /\ stay \subseteq Live \ hidden /\ focused \in Ids
      /\ painted \in Seq(Ids) /\ undefined \in BOOLEAN
      /\ want \in [Clients -> Packets]
      /\ at[c] \in Ids \union {NULL} /\ at[c] < nextId
  BY <1>a, ListFacts, Zenon
<1>m. ASSUME Moves(c), UNCHANGED <<list, focused, painted, undefined>>,
             hidden' \subseteq Live, stay' \subseteq Live \ hidden',
             pc'[c] \in Places(c), at'[c] \in Ids \union {NULL}, at'[c] < nextId,
             want' \in [Clients -> Packets],
             \A d \in Clients : d # c => want'[d] = want[d],
             pc'[c] \in Holding => at'[c] \in {NULL, want'[c].id},
             pc'[c] \in {"find again", "act", "reading"} =>
               /\ want'[c].id < nextId
               /\ want'[c].id \in Live => owner[want'[c].id] = c
      PROVE  ListInv'
  <2>1. focused' \in Ids /\ painted' \in Seq(Ids) /\ undefined' \in BOOLEAN
    BY <1>m, <1>f
  <2>2. UNCHANGED list
    BY <1>m
  <2>3. QED
    BY <1>m, <1>a, <2>1, <2>2, ListInvMoves
<1>k. ASSUME Moves(c), UNCHANGED <<list, hidden, focused, want, painted, stay, undefined>>,
             pc'[c] \in Places(c), at'[c] \in {at[c], first, NULL} \union Live,
             pc'[c] \in Holding => at'[c] \in {NULL, want[c].id},
             pc'[c] \in {"find again", "act", "reading"} =>
               /\ want[c].id < nextId
               /\ want[c].id \in Live => owner[want[c].id] = c
      PROVE  ListInv'
  <2>1. at'[c] \in Ids \union {NULL} /\ at'[c] < nextId
    <3>1. CASE at'[c] \in Live
      BY <1>f, <3>1
    <3>2. CASE at'[c] \in {at[c], first, NULL}
      BY <1>f, <3>2
    <3>3. QED
      BY <1>k, <3>1, <3>2
  <2>2. /\ want' = want /\ hidden' = hidden /\ stay' = stay
        /\ UNCHANGED <<list, focused, painted, undefined>>
    BY <1>k
  <2>3. QED
    BY <1>m, <1>k, <1>f, <2>1, <2>2
<1>n. ASSUME NEW from, Finish(c, from), UNCHANGED <<list, focused, painted, undefined>>,
             hidden' \subseteq Live, stay' \subseteq Live \ hidden'
      PROVE  ListInv'
  <2>1. Moves(c) /\ pc'[c] = "idle" /\ at'[c] = NULL
    BY <1>n, <1>a, <1>b, GotoMoves DEF Finish
  <2>2. want' \in [Clients -> Packets] /\ \A d \in Clients : d # c => want'[d] = want[d]
    BY <1>n, <1>f DEF Finish, Packets, None
  <2>3. /\ at'[c] \in Ids \union {NULL} /\ at'[c] < nextId
        /\ pc'[c] \in Places(c)
    BY <1>a, <1>f, <2>1
  <2>4. QED
    BY <1>m, <1>n, <2>1, <2>2, <2>3
<1>1. CASE Opened(c) \/ FrameArrives(c)
  BY <1>1, <1>n, <1>f DEF Opened, FrameArrives
<1>2. CASE Request(c)
  <2>1. PICK op \in {"destroy", "move", "flags", "frame"}, i \in Ids :
          /\ Goto(c, "idle", "find", first)
          /\ want' = [want EXCEPT ![c] = [op |-> op, id |-> i]]
          /\ UNCHANGED <<list, hidden, focused, painted, stay, undefined>>
    BY <1>2 DEF Request
  <2>2. Moves(c) /\ pc'[c] = "find" /\ at'[c] = first
    BY <2>1, <1>a, <1>b, GotoMoves
  <2>3. want' \in [Clients -> Packets] /\ \A d \in Clients : d # c => want'[d] = want[d]
    BY <2>1, <1>f DEF Packets
  <2>4. /\ at'[c] \in Ids \union {NULL} /\ at'[c] < nextId /\ pc'[c] \in Places(c)
        /\ hidden' \subseteq Live /\ stay' \subseteq Live \ hidden'
    BY <1>a, <1>f, <2>1, <2>2
  <2>5. QED
    BY <1>m, <2>1, <2>2, <2>3, <2>4
<1>3. CASE find_window(c)
  <2>1. /\ UNCHANGED <<list, hidden, focused, want, painted, stay, undefined>>
        /\ pc[c] \in {"find", "find again"}
    BY <1>3 DEF find_window
  <2>2. CASE Reads(c) /\ Goto(c, pc[c], pc[c], next[at[c]])
    <3>1. Moves(c) /\ pc'[c] = pc[c] /\ at'[c] = next[at[c]]
      BY <2>2, <1>a, <1>b, GotoMoves
    <3>2. at'[c] \in Live \union {NULL}
      BY <2>2, <3>1, <1>f DEF Reads
    <3>3. pc[c] = "find again" =>
            want[c].id < nextId /\ (want[c].id \in Live => owner[want[c].id] = c)
      BY <1>b DEF Found
    <3>4. QED
      BY <1>a, <1>k, <2>1, <3>1, <3>2, <3>3
  <2>3. CASE /\ at[c] \in (Live \intersect {want[c].id}) \union {NULL}
             /\ Goto(c, pc[c], IF pc[c] = "find" THEN "found" ELSE "act", at[c])
    <3>1. /\ Moves(c) /\ pc'[c] = (IF pc[c] = "find" THEN "found" ELSE "act")
          /\ at'[c] = at[c]
      BY <2>3, <1>a, <1>b, GotoMoves
    <3>2. pc[c] = "find again" =>
            want[c].id < nextId /\ (want[c].id \in Live => owner[want[c].id] = c)
      BY <1>b DEF Found
    <3>3. QED
      BY <1>a, <1>k, <2>1, <2>3, <3>1, <3>2
  <2>4. QED
    BY <1>3, <2>2, <2>3 DEF find_window
<1>4. CASE Check(c)
  <2>1. UNCHANGED <<list, hidden, focused, painted, stay, undefined>>
    BY <1>4 DEF Check
  <2>2. CASE Finish(c, "found")
    BY <2>1, <2>2, <1>n, <1>f
  <2>3. ASSUME NEW to \in {"act", "find again"}, Goto(c, "found", to, at'[c]),
               at'[c] \in {at[c], first}, to = "act" => at'[c] = at[c],
               Reads(c), owner[at[c]] = c, UNCHANGED want
        PROVE  ListInv'
    <3>1. Moves(c) /\ pc'[c] = to /\ pc[c] = "found" /\ at[c] \in Live
      BY <2>3, <1>a, <1>b, GotoMoves DEF Reads
    <3>2. at[c] = want[c].id
      <4>1. at[c] \in {NULL, want[c].id}
        BY <1>b, <3>1 DEF Found
      <4>2. QED
        BY <1>f, <3>1, <4>1
    <3>3. want[c].id < nextId
      BY <1>f, <3>2
    <3>4. QED
      BY <1>a, <1>k, <2>1, <2>3, <3>1, <3>2, <3>3
  <2>4. ASSUME Reads(c), owner[at[c]] = c, UNCHANGED want,
               \/ Goto(c, "found", "act", at[c])
               \/ Goto(c, "found", "find again", first)
        PROVE  ListInv'
    <3>1. CASE Goto(c, "found", "act", at[c])
      <4>1. at'[c] = at[c]
        BY <3>1, <1>a, <1>b, GotoMoves
      <4>2. QED
        BY <2>3, <2>4, <3>1, <4>1
    <3>2. CASE Goto(c, "found", "find again", first)
      <4>1. at'[c] = first
        BY <3>2, <1>a, <1>b, GotoMoves
      <4>2. QED
        BY <2>3, <2>4, <3>2, <4>1
    <3>3. QED
      BY <2>4, <3>1, <3>2
  <2>5. QED
    BY <1>4, <2>2, <2>4 DEF Check
<1>5. CASE Act(c)
  <2>1. hidden' \subseteq Live
    BY <1>5, <1>f DEF Act, Reads
  <2>2. QED
    BY <1>5, <1>n, <1>f, <2>1 DEF Act
<1>6. CASE LockFrame(c)
  <2>1. Goto(c, "act", "reading", at[c])
        /\ UNCHANGED <<list, hidden, focused, want, painted, stay, undefined>>
    BY <1>6 DEF LockFrame
  <2>2. Moves(c) /\ pc'[c] = "reading" /\ pc[c] = "act" /\ at'[c] = at[c]
    BY <1>a, <1>b, <2>1, GotoMoves
  <2>3. /\ at[c] \in {NULL, want[c].id} /\ want[c].id < nextId
        /\ want[c].id \in Live => owner[want[c].id] = c
    BY <1>b, <2>2 DEF Found
  <2>4. QED
    BY <1>a, <1>k, <2>1, <2>2, <2>3
<1>7. CASE CloseAnimation(c)
  <2>1. Goto(c, "found", "destroy", at[c])
        /\ UNCHANGED <<list, hidden, focused, want, painted, stay, undefined>>
    BY <1>7 DEF CloseAnimation
  <2>2. Moves(c) /\ pc'[c] = "destroy" /\ pc[c] = "found" /\ at'[c] = at[c]
    BY <1>a, <1>b, <2>1, GotoMoves
  <2>3. at[c] \in {NULL, want[c].id}
    BY <1>b, <2>2 DEF Found
  <2>4. QED
    BY <1>a, <1>k, <2>1, <2>2, <2>3
<1>8. CASE Disconnect(c)
  <2>1. Goto(c, "idle", "gone", NULL)
        /\ UNCHANGED <<list, hidden, focused, want, painted, stay, undefined>>
    BY <1>8 DEF Disconnect
  <2>2. Moves(c) /\ pc'[c] = "gone" /\ at'[c] = NULL
    BY <1>a, <1>b, <2>1, GotoMoves
  <2>3. QED
    BY <1>a, <1>k, <2>1, <2>2
<1>9. QED
  BY <1>1, <1>2, <1>3, <1>4, <1>5, <1>6, <1>7, <1>8

LEMMA ListInvCreate ==
  ASSUME ListInv, NEW c \in Clients, create_window(c)
  PROVE  ListInv'
<1>a. /\ c \in Threads /\ c # "compositor" /\ c # "input"
      /\ "opened" \in Places(c) /\ "opened" \in AllPlaces
  BY Names DEF Places, AllPlaces
<1>b. ListTypes /\ ListWhole /\ Pointers /\ Found
  BY DEF ListInv
<1>1. PICK n \in Ids : n = nextId
  BY DEF create_window
<1>f. /\ MaxWindow \in Nat /\ NULL = -1 /\ Ids = 0 .. MaxWindow
      /\ Live \subseteq Ids /\ first \in Live \union {NULL}
      /\ \A w \in Live : w < n /\ next[w] \in Live \union {NULL} /\ next[w] < w
      /\ hidden \subseteq Live /\ stay \subseteq Live \ hidden /\ focused \in Ids
      /\ painted \in Seq(Ids) /\ undefined \in BOOLEAN /\ want \in [Clients -> Packets]
  BY <1>1, ListFacts, Zenon
<1>2. /\ Goto(c, "idle", "opened", n)
      /\ next' = [i \in Live \union {n} |-> IF i = n THEN first ELSE next[i]]
      /\ owner' = [i \in Live \union {n} |-> IF i = n THEN c ELSE owner[i]]
      /\ first' = n /\ count' = count + 1 /\ nextId' = n + 1
      /\ UNCHANGED <<hidden, focused, want, painted, stay, undefined>>
  BY <1>1 DEF create_window
<1>3. Moves(c) /\ pc[c] = "idle" /\ pc'[c] = "opened" /\ at'[c] = n
  BY <1>a, <1>b, <1>2, GotoMoves
<1>4. Live' = Live \union {n} /\ n \notin Live
  <2>1. Live' = Live \union {n}
    BY <1>2 DEF Live
  <2>2. n \notin Live
    BY <1>f
  <2>3. QED
    BY <2>1, <2>2
<1>5. /\ pc' \in [Threads -> AllPlaces] /\ at' \in [Threads -> Ids \union {NULL}]
      /\ \A t \in Threads : t # c => pc'[t] = pc[t] /\ at'[t] = at[t]
  BY <1>a, <1>b, <1>3 DEF Moves, ListTypes, TypeOK
<1>6. /\ \A w \in Live : next'[w] = next[w] /\ owner'[w] = owner[w]
      /\ next'[n] = first /\ owner'[n] = c
  BY <1>2, <1>4
<1>7. TypeOK'
  <2>1. next' \in [Live' -> Ids \union {NULL}] /\ owner' \in [Live' -> Clients \union {"server"}]
    BY <1>2, <1>4, <1>b, <1>f DEF ListTypes, TypeOK
  <2>2. /\ Live' \subseteq Ids /\ first' \in Live' \union {NULL} /\ nextId' \in 0 .. MaxWindow + 1
        /\ hidden' \subseteq Live' /\ stay' \subseteq Live' \ hidden'
    BY <1>2, <1>4, <1>f
  <2>3. count' \in Nat
    BY <1>2, <1>b DEF ListTypes, TypeOK
  <2>4. focused' \in Ids /\ painted' \in Seq(Ids) /\ undefined' \in BOOLEAN
    BY <1>2, <1>f, Zenon
  <2>5. QED
    BY <1>5, <2>1, <2>2, <2>3, <2>4 DEF TypeOK
<1>8. ListTypes'
  <2>1. \A t \in Threads : pc'[t] \in Places(t)
    BY <1>a, <1>b, <1>3, <1>5 DEF ListTypes
  <2>2. want' \in [Clients -> Packets]
    BY <1>2, <1>f
  <2>3. QED
    BY <1>5, <1>7, <2>1, <2>2 DEF ListTypes
<1>9. ListWhole'
  <2>1. count' = Cardinality(Live')
    <3>1. IsFiniteSet(Live)
      <4>1. IsFiniteSet(0 .. MaxWindow) /\ Live \in SUBSET (0 .. MaxWindow)
        BY <1>f, FS_Interval
      <4>2. QED
        BY <4>1, FS_Subset
    <3>2. QED
      BY <1>2, <1>4, <1>b, <3>1, FS_AddElement DEF ListWhole
  <2>2. first' = NULL <=> Live' = {}
    BY <1>2, <1>4, <1>f
  <2>3. ASSUME NEW w \in Live
        PROVE  /\ w <= first' /\ w < nextId'
               /\ next'[w] = NULL <=> \A v \in Live' : w <= v
               /\ next'[w] # NULL => /\ next'[w] \in Live' /\ next'[w] < w
                                     /\ \A v \in Live' : v < w => v <= next'[w]
    <3>1. /\ next[w] = NULL <=> \A v \in Live : w <= v
          /\ next[w] # NULL => \A v \in Live : v < w => v <= next[w]
      BY <1>b DEF ListWhole
    <3>2. w < n /\ w \in Nat /\ n \in Nat /\ next[w] \in Live \union {NULL} /\ next[w] < w
      BY <1>f
    <3>3. QED
      BY <1>2, <1>4, <1>6, <3>1, <3>2
  <2>4. /\ n <= first' /\ n < nextId'
        /\ next'[n] = NULL <=> \A v \in Live' : n <= v
        /\ next'[n] # NULL => /\ next'[n] \in Live' /\ next'[n] < n
                              /\ \A v \in Live' : v < n => v <= next'[n]
    <3>1. first = NULL <=> Live = {}
      BY <1>b DEF ListWhole
    <3>2. \A v \in Live : v <= first /\ v < n /\ v \in Nat
      BY <1>b, <1>f DEF ListWhole
    <3>3. QED
      BY <1>2, <1>4, <1>6, <1>f, <3>1, <3>2
  <2>5. \A w \in Live' :
          /\ w <= first' /\ w < nextId'
          /\ next'[w] = NULL <=> \A v \in Live' : w <= v
          /\ next'[w] # NULL => /\ next'[w] \in Live' /\ next'[w] < w
                                /\ \A v \in Live' : v < w => v <= next'[w]
    <3>1. SUFFICES ASSUME NEW w \in Live', w # n
                   PROVE  w \in Live
      BY <2>3, <2>4, Zenon
    <3>2. QED
      BY <1>4, <3>1
  <2>6. QED
    BY <2>1, <2>2, <2>5, Zenon DEF ListWhole
<1>10. Pointers'
  <2>1. \A t \in Threads : at[t] < n
    BY <1>1, <1>b DEF Pointers
  <2>2. \A t \in Threads : at'[t] < n + 1
    BY <1>3, <1>5, <1>f, <2>1 DEF ListTypes, TypeOK
  <2>3. pc'["input"] = "focus" => at'["input"] # NULL
    BY <1>a, <1>b, <1>5, Names DEF Pointers
  <2>4. QED
    BY <1>2, <2>2, <2>3 DEF Pointers
<1>11. Found'
  <2> SUFFICES ASSUME NEW d \in Clients
               PROVE  /\ pc'[d] \in Holding => at'[d] \in {NULL, want[d].id}
                      /\ pc'[d] \in {"find again", "act", "reading"} =>
                           /\ want[d].id < n + 1
                           /\ want[d].id \in Live' => owner'[want[d].id] = d
    BY <1>2 DEF Found
  <2>1. CASE d = c
    BY <1>3, <2>1
  <2>2. CASE d # c
    <3>1. pc'[d] = pc[d] /\ at'[d] = at[d]
      BY <1>5, <2>2, Names
    <3>2. want[d].id \in Ids \union {NULL}
      BY <1>f DEF Packets
    <3>3. QED
      <4>1. /\ pc[d] \in Holding => at[d] \in {NULL, want[d].id}
            /\ pc[d] \in {"find again", "act", "reading"} =>
                 /\ want[d].id < n
                 /\ want[d].id \in Live => owner[want[d].id] = d
        BY <1>1, <1>b DEF Found
      <4>2. want[d].id \in Int /\ n \in Int
        BY <1>f, <3>2
      <4>3. want[d].id < n => want[d].id < n + 1 /\ want[d].id # n
        BY <4>2
      <4>4. want[d].id # n /\ want[d].id \in Live' =>
              want[d].id \in Live /\ owner'[want[d].id] = owner[want[d].id]
        BY <1>4, <1>6
      <4>5. QED
        BY <3>1, <4>1, <4>3, <4>4, Zenon
  <2>3. QED
    BY <2>1, <2>2
<1>12. QED
  BY <1>8, <1>9, <1>10, <1>11 DEF ListInv

LEMMA ListInvDestroy ==
  ASSUME ListInv, NEW c \in Clients, destroy_window(c)
  PROVE  ListInv'
<1> DEFINE id == want[c].id
<1>a. /\ c \in Threads /\ c # "compositor" /\ c # "input"
      /\ "idle" \in Places(c) /\ "idle" \in AllPlaces
  BY Names DEF Places, AllPlaces
<1>b. ListTypes /\ ListWhole /\ Pointers /\ Found
  BY DEF ListInv
<1>f. /\ MaxWindow \in Nat /\ NULL = -1 /\ Ids = 0 .. MaxWindow /\ NULL \notin Ids
      /\ \A x \in Live \union {NULL} : x \in Int
      /\ Live \subseteq Ids /\ first \in Live \union {NULL}
      /\ nextId \in 0 .. MaxWindow + 1 /\ NULL < nextId
      /\ hidden \subseteq Live /\ stay \subseteq Live \ hidden /\ focused \in Ids
      /\ painted \in Seq(Ids) /\ undefined \in BOOLEAN /\ want \in [Clients -> Packets]
  BY ListFacts, Zenon
<1>1. PICK i \in Ids \union {NULL} : i = id
  BY <1>f DEF Packets
<1> DEFINE skip(w) == IF w = i /\ i \in Live THEN next[i] ELSE w
<1>2. /\ Finish(c, "destroy")
      /\ next' = [w \in Live \ {i} |-> skip(next[w])]
      /\ owner' = [w \in Live \ {i} |-> owner[w]]
      /\ first' = skip(first)
      /\ count' = IF i \in Live THEN count - 1 ELSE count
      /\ hidden' = hidden \ {i} /\ stay' = stay \ {i}
      /\ focused' = IF focused = i THEN 0 ELSE focused
      /\ nextId' = nextId /\ painted' = painted /\ undefined' = undefined
  BY <1>1 DEF destroy_window
<1>3. /\ Moves(c) /\ pc'[c] = "idle" /\ at'[c] = NULL
      /\ want' = [want EXCEPT ![c] = None]
  BY <1>a, <1>b, <1>2, GotoMoves DEF Finish
<1>4. Live' = Live \ {i}
  BY <1>2 DEF Live
<1>5. /\ pc' \in [Threads -> AllPlaces] /\ at' \in [Threads -> Ids \union {NULL}]
      /\ \A t \in Threads : t # c => pc'[t] = pc[t] /\ at'[t] = at[t]
  BY <1>a, <1>b, <1>3 DEF Moves, ListTypes, TypeOK
<1>6. \A w \in Live' : next'[w] = skip(next[w]) /\ owner'[w] = owner[w] /\ w \in Live /\ w # i
  BY <1>2, <1>4
<1>7. ASSUME NEW w \in Live
      PROVE  /\ w \in Nat /\ w <= first /\ w < nextId
             /\ next[w] \in Live \union {NULL} /\ next[w] < w
             /\ next[w] = NULL => \A v \in Live : w <= v
             /\ (\A v \in Live : w <= v) => next[w] = NULL
             /\ \A v \in Live : v < w => v <= next[w]
  <2>1. /\ w <= first /\ w < nextId /\ w \in Nat
        /\ next[w] = NULL <=> \A v \in Live : w <= v
        /\ next[w] # NULL => /\ next[w] \in Live /\ next[w] < w
                             /\ \A v \in Live : v < w => v <= next[w]
    BY <1>b, <1>f DEF ListWhole
  <2>2. CASE next[w] = NULL
    <3>1. \A v \in Live : v \in Nat
      BY <1>f
    <3>2. QED
      BY <1>f, <2>1, <2>2, <3>1
  <2>3. CASE next[w] # NULL
    BY <2>1, <2>3
  <2>4. QED
    BY <2>2, <2>3
<1>8. /\ first' \in Live' \union {NULL}
      /\ first' = NULL <=> Live' = {}
      /\ \A w \in Live' : w <= first'
  <2>1. first = NULL <=> Live = {}
    BY <1>b DEF ListWhole
  <2>2. CASE first # i \/ i \notin Live
    <3>1. first' = first
      BY <1>2, <2>2
    <3>2. QED
      BY <1>4, <1>7, <1>f, <2>1, <2>2, <3>1
  <2>3. CASE first = i /\ i \in Live
    <3>1. first' = next[i]
      BY <1>2, <2>3
    <3>2. \A w \in Live' : w \in Live /\ w # i /\ w < i
      BY <1>4, <1>7, <2>3
    <3>3. \A w \in Live' : w <= next[i]
      BY <1>7, <2>3, <3>2
    <3>4. next[i] = NULL => Live' = {}
      BY <1>7, <2>3, <3>2
    <3>5. next[i] # NULL => next[i] \in Live'
      BY <1>4, <1>7, <2>3
    <3>6. QED
      BY <1>f, <3>1, <3>3, <3>4, <3>5
  <2>4. QED
    BY <2>2, <2>3
<1>9. ASSUME NEW w \in Live'
      PROVE  /\ w < nextId'
             /\ next'[w] \in Live' \union {NULL}
             /\ next'[w] = NULL <=> \A v \in Live' : w <= v
             /\ next'[w] # NULL => /\ next'[w] \in Live' /\ next'[w] < w
                                   /\ \A v \in Live' : v < w => v <= next'[w]
  <2>1. next'[w] = skip(next[w]) /\ w \in Live /\ w # i
    BY <1>6
  <2>2. w < nextId'
    BY <1>2, <1>7, <2>1
  <2>3. CASE next[w] # i \/ i \notin Live
    <3>1. next'[w] = next[w] /\ next[w] \in Live' \union {NULL}
      BY <1>4, <1>7, <2>1, <2>3
    <3>2. \A v \in Live' : v \in Live /\ v \in Nat
      BY <1>4, <1>7
    <3>3. (\A v \in Live' : w <= v) => next[w] = NULL
      BY <1>7, <2>1, <3>1, <3>2
    <3>4. QED
      BY <1>7, <2>1, <2>2, <3>1, <3>2, <3>3
  <2>4. CASE next[w] = i /\ i \in Live
    <3>1. next'[w] = next[i] /\ i < w /\ next[i] < i /\ next[i] \in Live' \union {NULL}
      BY <1>4, <1>7, <2>1, <2>4
    <3>2. \A v \in Live' : v \in Live /\ v \in Nat /\ v # i
      BY <1>4, <1>7
    <3>3. \A v \in Live' : v < w => v <= next[i]
      <4>1. \A v \in Live' : v < w => v <= i
        BY <1>7, <2>1, <2>4, <3>2
      <4>2. \A v \in Live' : v < w => v < i
        BY <3>2, <4>1, <1>f
      <4>3. QED
        BY <1>7, <2>4, <3>2, <4>2
    <3>4. next[i] = NULL => \A v \in Live' : w <= v
      BY <1>f, <2>1, <1>7, <3>2, <3>3
    <3>5. next[i] < w
      <4>1. i \in Nat /\ w \in Nat /\ next[i] \in Live \union {NULL}
        BY <1>7, <2>1, <2>4
      <4>2. next[i] \in Int
        BY <1>f, <4>1
      <4>3. QED
        BY <3>1, <4>1, <4>2
    <3>6. (\A v \in Live' : w <= v) => next[i] = NULL
      <4>1. next[i] \in Live' => next[i] \in Nat /\ w \in Nat
        BY <1>7, <2>1, <3>2
      <4>2. QED
        BY <3>1, <3>5, <4>1
    <3>7. QED
      BY <2>2, <3>1, <3>3, <3>4, <3>5, <3>6
  <2>5. QED
    BY <2>3, <2>4
<1>10. count' = Cardinality(Live') /\ count' \in Nat
  <2>1. IsFiniteSet(0 .. MaxWindow) /\ Live \in SUBSET (0 .. MaxWindow)
    BY <1>f, FS_Interval
  <2>2. IsFiniteSet(Live) /\ count = Cardinality(Live)
    BY <1>b, <2>1, FS_Subset DEF ListWhole
  <2>3. /\ IsFiniteSet(Live')
        /\ Cardinality(Live') = IF i \in Live THEN Cardinality(Live) - 1 ELSE Cardinality(Live)
    BY <1>4, <2>2, FS_RemoveElement
  <2>4. QED
    BY <1>2, <2>2, <2>3, FS_CardinalityType
<1>11. TypeOK'
  <2>1. \A w \in Live' : next'[w] \in Ids \union {NULL} /\ owner[w] \in Clients \union {"server"}
    BY <1>9, <1>4, <1>6, <1>f, <1>b DEF ListTypes, TypeOK
  <2>2. next' \in [Live' -> Ids \union {NULL}] /\ owner' \in [Live' -> Clients \union {"server"}]
    BY <1>2, <1>4, <1>6, <2>1
  <2>3. Live' \subseteq Ids /\ hidden' \subseteq Live' /\ stay' \subseteq Live' \ hidden'
    BY <1>2, <1>4, <1>f
  <2>4. nextId' \in 0 .. MaxWindow + 1 /\ focused' \in Ids
    BY <1>2, <1>f
  <2>5. painted' \in Seq(Ids) /\ undefined' \in BOOLEAN
    BY <1>2, <1>f, Zenon
  <2>6. QED
    BY <1>5, <1>8, <1>10, <2>2, <2>3, <2>4, <2>5 DEF TypeOK
<1>12. ListTypes'
  <2>1. \A t \in Threads : pc'[t] \in Places(t)
    BY <1>a, <1>b, <1>3, <1>5 DEF ListTypes
  <2>2. want' \in [Clients -> Packets]
    BY <1>3, <1>f DEF Packets, None
  <2>3. QED
    BY <1>5, <1>11, <2>1, <2>2 DEF ListTypes
<1>13. ListWhole'
  BY <1>8, <1>9, <1>10, Zenon DEF ListWhole
<1>14. Pointers'
  <2>1. \A t \in Threads : at'[t] < nextId
    BY <1>b, <1>3, <1>5, <1>f DEF Pointers
  <2>2. pc'["input"] = "focus" => at'["input"] # NULL
    BY <1>a, <1>b, <1>5, Names DEF Pointers
  <2>3. QED
    BY <1>2, <2>1, <2>2 DEF Pointers
<1>15. Found'
  <2> SUFFICES ASSUME NEW d \in Clients
               PROVE  /\ pc'[d] \in Holding => at'[d] \in {NULL, want'[d].id}
                      /\ pc'[d] \in {"find again", "act", "reading"} =>
                           /\ want'[d].id < nextId
                           /\ want'[d].id \in Live' => owner'[want'[d].id] = d
    BY <1>2 DEF Found
  <2>1. CASE d = c
    BY <1>3, <2>1
  <2>2. CASE d # c
    <3>1. pc'[d] = pc[d] /\ at'[d] = at[d] /\ want'[d] = want[d]
      BY <1>3, <1>5, <1>f, <2>2, Names
    <3>2. /\ pc[d] \in Holding => at[d] \in {NULL, want[d].id}
          /\ pc[d] \in {"find again", "act", "reading"} =>
               /\ want[d].id < nextId
               /\ want[d].id \in Live => owner[want[d].id] = d
      BY <1>b DEF Found
    <3>3. want[d].id \in Live' =>
            want[d].id \in Live /\ owner'[want[d].id] = owner[want[d].id]
      BY <1>6
    <3>4. QED
      BY <3>1, <3>2, <3>3, Zenon
  <2>3. QED
    BY <2>1, <2>2
<1>16. QED
  BY <1>12, <1>13, <1>14, <1>15 DEF ListInv

LEMMA ListInvOthers ==
  ASSUME ListInv, update_animations \/ composite_frame \/ handle_mouse_event
  PROVE  ListInv'
<1>a. /\ "compositor" \in Threads /\ "input" \in Threads
      /\ "compositor" \notin Clients /\ "input" \notin Clients
      /\ Places("compositor") = {"idle", "animate", "paint"}
      /\ Places("input") = {"idle", "test", "focus"}
  BY Names DEF Places
<1>b. ListTypes
  BY DEF ListInv
<1>f. /\ NULL \notin Ids /\ Live \subseteq Ids /\ first \in Live \union {NULL}
      /\ first < nextId /\ NULL < nextId
      /\ \A w \in Live : w < nextId /\ next[w] \in Live \union {NULL}
      /\ hidden \subseteq Live /\ stay \subseteq Live \ hidden /\ focused \in Ids
      /\ painted \in Seq(Ids) /\ undefined \in BOOLEAN
      /\ want \in [Clients -> Packets]
      /\ \A t \in Threads : at[t] \in Ids \union {NULL} /\ at[t] < nextId
  BY ListFacts, Zenon
<1>m. ASSUME NEW t \in {"compositor", "input"}, Moves(t),
             UNCHANGED <<list, hidden, want, undefined>>,
             pc'[t] \in Places(t), at'[t] \in Live \union {at[t], NULL},
             t = "input" /\ pc'[t] = "focus" => at'[t] # NULL,
             stay' \subseteq Live \ hidden, focused' \in Ids, painted' \in Seq(Ids)
      PROVE  ListInv'
  <2>1. t \in Threads /\ t \notin Clients
    BY <1>a
  <2>2. at'[t] \in Ids \union {NULL} /\ at'[t] < nextId
    BY <1>f, <1>m, <2>1
  <2>3. /\ UNCHANGED list /\ want' = want /\ hidden' = hidden /\ undefined' = undefined
    BY <1>m
  <2>4. /\ want' \in [Clients -> Packets] /\ \A c \in Clients : want'[c] = want[c]
        /\ hidden' \subseteq Live /\ stay' \subseteq Live \ hidden' /\ undefined' \in BOOLEAN
    BY <1>f, <1>m, <2>3
  <2>5. QED
    BY <1>m, <2>1, <2>2, <2>3, <2>4, ListInvMoves
<1>1. CASE update_animations
  <2>1. UNCHANGED <<list, hidden, focused, want, undefined>>
    BY <1>1 DEF update_animations
  <2>2. /\ Moves("compositor") /\ pc'["compositor"] \in {"animate", "paint"}
        /\ at'["compositor"] \in Live \union {NULL}
        /\ stay' \subseteq Live \ hidden /\ painted' \in Seq(Ids)
    <3>1. CASE Goto("compositor", "idle", "animate", first) /\ UNCHANGED <<painted, stay>>
      BY <1>a, <1>b, <1>f, <3>1, GotoMoves
    <3>2. CASE /\ Reads("compositor")
               /\ Goto("compositor", "animate", "animate", next[at["compositor"]])
               /\ UNCHANGED <<painted, stay>>
      BY <1>a, <1>b, <1>f, <3>2, GotoMoves DEF Reads
    <3>3. CASE /\ Goto("compositor", "animate", "paint", first)
               /\ painted' = <<>> /\ stay' = Live \ hidden
      BY <1>a, <1>b, <1>f, <3>3, GotoMoves
    <3>4. QED
      BY <1>1, <3>1, <3>2, <3>3 DEF update_animations
  <2>3. QED
    BY <1>a, <1>f, <1>m, <2>1, <2>2
<1>2. CASE composite_frame
  <2> DEFINE w == at["compositor"]
  <2>1. /\ UNCHANGED <<list, hidden, focused, want, undefined>>
        /\ stay' = IF w = NULL THEN {} ELSE stay
    BY <1>2 DEF composite_frame
  <2>2. /\ Moves("compositor") /\ pc'["compositor"] \in {"idle", "paint"}
        /\ at'["compositor"] \in Live \union {NULL} /\ painted' \in Seq(Ids)
    <3>1. CASE w \in Live /\ Goto("compositor", "paint", "paint", next[w])
      <4>1. /\ Moves("compositor") /\ pc'["compositor"] = "paint"
            /\ at'["compositor"] = next[w]
        BY <1>a, <1>b, <3>1, GotoMoves
      <4>2. painted' \in {painted, Append(painted, w), <<>>}
        BY <1>2 DEF composite_frame
      <4>3. Append(painted, w) \in Seq(Ids) /\ painted \in Seq(Ids) /\ <<>> \in Seq(Ids)
        BY <1>f, <3>1
      <4>4. painted' \in Seq(Ids)
        BY <4>2, <4>3
      <4>5. QED
        BY <1>f, <3>1, <4>1, <4>4
    <3>2. CASE w = NULL /\ Goto("compositor", "paint", "idle", NULL) /\ painted' = <<>>
      BY <1>a, <1>b, <3>2, GotoMoves
    <3>3. QED
      BY <1>2, <1>f, <3>1, <3>2 DEF composite_frame
  <2>3. stay' \subseteq Live \ hidden
    BY <1>f, <2>1
  <2>4. QED
    BY <1>a, <1>f, <1>m, <2>1, <2>2, <2>3
<1>3. CASE handle_mouse_event
  <2> DEFINE w == at["input"]
  <2>1. UNCHANGED <<list, hidden, want, painted, stay, undefined>>
    BY <1>3 DEF handle_mouse_event
  <2>2. CASE Goto("input", "idle", "test", first) /\ UNCHANGED focused
    BY <1>a, <1>b, <1>f, <1>m, <2>1, <2>2, GotoMoves
  <2>3. CASE Reads("input") /\ Goto("input", "test", "test", next[w]) /\ UNCHANGED focused
    <3>1. w \in Live
      BY <2>3 DEF Reads
    <3>2. QED
      BY <1>a, <1>b, <1>f, <1>m, <2>1, <2>3, <3>1, GotoMoves
  <2>4. CASE /\ w \in Live \ hidden /\ UNCHANGED focused
             /\ \E to \in {"focus", "idle"} :
                  Goto("input", "test", to, IF to = "focus" THEN w ELSE NULL)
    <3>1. PICK to \in {"focus", "idle"} :
            Goto("input", "test", to, IF to = "focus" THEN w ELSE NULL)
      BY <2>4
    <3>2. /\ Moves("input") /\ pc'["input"] = to
          /\ at'["input"] = IF to = "focus" THEN w ELSE NULL
      BY <1>a, <1>b, <3>1, GotoMoves
    <3>3. QED
      BY <1>a, <1>f, <1>m, <2>1, <2>4, <3>2
  <2>5. CASE Goto("input", "test", "idle", NULL) /\ UNCHANGED focused
    BY <1>a, <1>b, <1>f, <1>m, <2>1, <2>5, GotoMoves
  <2>6. CASE Goto("input", "focus", "idle", NULL) /\ focused' = w
    <3>1. Moves("input") /\ pc["input"] = "focus" /\ pc'["input"] = "idle" /\ at'["input"] = NULL
      BY <1>a, <1>b, <2>6, GotoMoves
    <3>2. w \in Ids
      BY <1>a, <1>f, <3>1 DEF ListInv, Pointers
    <3>3. QED
      BY <1>a, <1>f, <1>m, <2>1, <2>6, <3>1, <3>2
  <2>7. QED
    BY <1>3, <2>2, <2>3, <2>4, <2>5, <2>6 DEF handle_mouse_event
<1>4. QED
  BY <1>1, <1>2, <1>3

LEMMA ListInvNext == ListInv /\ [Next]_vars => ListInv'
<1> SUFFICES ASSUME ListInv, [Next]_vars PROVE ListInv'
  OBVIOUS
<1>1. ASSUME NEW t \in Threads, Stray(t) PROVE ListInv'
  <2>1. UNCHANGED <<list, hidden, focused, pc, at, want, painted, stay>> /\ undefined' = TRUE
    BY <1>1 DEF Stray
  <2>2. ListTypes' /\ ListWhole' /\ Pointers' /\ Found'
    BY <2>1 DEF ListInv, ListTypes, TypeOK, ListWhole, Pointers, Found, list, Live
  <2>3. QED
    BY <2>2 DEF ListInv
<1>2. CASE UNCHANGED vars
  BY <1>2
  DEF ListInv, ListTypes, TypeOK, ListWhole, Pointers, Found, vars, list, Live
<1>3. QED
  BY <1>1, <1>2, ListInvServe, ListInvCreate, ListInvDestroy, ListInvOthers
  DEF Next, Serve

(* create_window and destroy_window keep the list whole under every thread that   *)
(* walks it without the lock. The window a packet acts on is the one it named and, *)
(* unless the packet is a destroy, one that its client created, although the       *)
(* search, the check and the work are steps apart. A destroy, which the code does   *)
(* not check for an owner, acts on the window it named, whosever it is.          *)
THEOREM WindowsStaySound == SceneSpec => []WindowsSound
<1>1. ListInv => WindowsSound
  <2> SUFFICES ASSUME ListInv, NEW c \in Clients,
                      pc[c] \in {"act", "reading", "destroy"}, Reads(c)
               PROVE  at[c] = want[c].id /\ (owner[at[c]] = c \/ pc[c] = "destroy")
    BY DEF ListInv, ListTypes, WindowsSound, OnlyNamedWindows
  <2>1. at[c] \in Live /\ NULL \notin Live
    BY ListFacts DEF Reads
  <2>2. QED
    BY <2>1 DEF ListInv, Found
<1>2. QED
  BY <1>1, ListInvInit, ListStepOf, ListInvNext, PTL DEF SceneSpec

-----------------------------------------------------------------------------
(* The compositor paints.  ids are given out upwards and the list runs down      *)
(* through them, so that a walk along it neither meets a new window nor passes    *)
(* one that stays; that is ListWhole of the list, which Painting rests on.        *)
LEMMA PaintingNext == ListInv /\ Painting /\ [Next]_vars => Painting'
<1> SUFFICES ASSUME ListInv, Painting, [Next]_vars PROVE Painting'
  OBVIOUS
<1> DEFINE w == at["compositor"]
<1>a. /\ "compositor" \in Threads /\ "input" \in Threads
      /\ "compositor" \notin Clients /\ "input" # "compositor"
  BY Names
<1>b. ListTypes /\ ListWhole
  BY DEF ListInv
<1>f. /\ NULL = -1 /\ Live \subseteq Ids
      /\ first \in Live \union {NULL} /\ \A x \in Live \union {NULL} : x \in Int
      /\ \A v \in Live : next[v] \in Live \union {NULL} /\ next[v] < v
      /\ hidden \subseteq Live /\ stay \subseteq Live \ hidden /\ painted \in Seq(Ids)
  BY ListFacts, Zenon
<1>g. /\ \A x \in Ids : x \in Nat /\ x > NULL
  BY ListFacts DEF Ids
<1>h. /\ \A v \in Live : v <= first
      /\ \A v \in Live : next[v] = NULL <=> \A u \in Live : v <= u
      /\ \A v \in Live : next[v] # NULL => \A u \in Live : u < v => u <= next[v]
  BY <1>b DEF ListWhole
<1>k. ASSUME stay' \subseteq stay, painted' = painted,
             pc'["compositor"] = pc["compositor"], at'["compositor"] = w
      PROVE  Painting'
  BY <1>k DEF Painting
<1>1. ASSUME NEW c \in Clients,
             create_window(c) \/ Request(c) \/ Serve(c) \/ FrameArrives(c) \/ Disconnect(c)
      PROVE  Painting'
  <2>1. c \in Threads /\ c # "compositor"
    BY Names
  <2>2. stay' \subseteq stay /\ painted' = painted
    BY <1>1
    DEF create_window, Request, Serve, Opened, find_window, Check, Act, LockFrame,
        CloseAnimation, destroy_window, FrameArrives, Disconnect
  <2>3. \E from, to, p : Goto(c, from, to, p)
    BY <1>1
    DEF create_window, Request, Serve, Opened, find_window, Check, Act, LockFrame,
        CloseAnimation, destroy_window, FrameArrives, Disconnect, Finish
  <2>4. pc'["compositor"] = pc["compositor"] /\ at'["compositor"] = w
    BY <1>a, <1>b, <2>1, <2>3 DEF Goto, ListTypes, TypeOK
  <2>5. QED
    BY <1>k, <2>2, <2>4
<1>2. CASE update_animations
  <2>1. CASE pc'["compositor"] # "paint"
    BY <2>1 DEF Painting
  <2>2. CASE pc'["compositor"] = "paint"
    <3>1. Goto("compositor", "animate", "paint", first) /\ painted' = <<>> /\ stay' = Live \ hidden
      BY <1>2, <2>2, <1>a, <1>b, GotoMoves DEF update_animations
    <3>2. at'["compositor"] = first
      BY <3>1, <1>a, <1>b, GotoMoves
    <3>3. ASSUME NEW v \in Live PROVE ~(v > first)
      <4>1. v \in Int /\ first \in Int /\ v <= first
        BY <1>f, <1>h
      <4>2. QED
        BY <4>1
    <3>4. \A v \in stay' : ~(v > first)
      BY <3>1, <3>3
    <3>5. QED
      BY <3>1, <3>2, <3>4 DEF Painting
  <2>3. QED
    BY <2>1, <2>2
<1>3. CASE composite_frame
  <2>1. CASE w = NULL
    <3>1. pc'["compositor"] = "idle"
      BY <1>3, <1>a, <1>b, <1>f, <2>1, GotoMoves, ListFacts DEF composite_frame
    <3>2. QED
      BY <3>1 DEF Painting
  <2>2. CASE w # NULL
    <3>1. /\ Goto("compositor", "paint", "paint", next[w]) /\ stay' = stay /\ w \in Live
          /\ \/ w \in hidden /\ painted' = painted
             \/ w \notin hidden /\ painted' = Append(painted, w)
      BY <1>3, <1>f, <2>2 DEF composite_frame
    <3>2. at'["compositor"] = next[w] /\ pc["compositor"] = "paint"
      BY <1>a, <1>b, <3>1, GotoMoves
    <3>3. PICK n \in Int, u \in Nat : n = next[w] /\ u = w /\ n < u
      BY <1>f, <1>g, <3>1
    <3>4. ASSUME NEW v \in Live
          PROVE  v > n <=> v > u \/ v = u
      <4>1. v \in Nat /\ u \in Live
        BY <1>f, <1>g, <3>1, <3>3
      <4>2. v < u => v <= n
        <5>1. CASE next[u] = NULL
          BY <1>h, <3>3, <4>1, <5>1
        <5>2. CASE next[u] # NULL
          BY <1>h, <3>3, <4>1, <5>2
        <5>3. QED
          BY <5>1, <5>2
      <4>3. QED
        BY <3>3, <4>1, <4>2
    <3>5. PICK s \in Seq(Nat) : s = painted
      <4>1. painted \in Seq(Nat)
        BY <1>f, <1>g
      <4>2. QED
        BY <4>1
    <3>6. /\ \A i, j \in DOMAIN s : i < j => s[i] > s[j]
          /\ \A i \in DOMAIN s : s[i] > u
          /\ \A v \in stay : v > u <=> \E i \in DOMAIN s : s[i] = v
      BY <3>2, <3>3, <3>5 DEF Painting
    <3>7. CASE w \in hidden /\ painted' = painted
      <4>1. \A i \in DOMAIN s : s[i] > n
        BY <3>3, <3>6
      <4>2. \A v \in stay : v > n <=> \E i \in DOMAIN s : s[i] = v
        BY <1>f, <3>3, <3>4, <3>6, <3>7
      <4>3. QED
        BY <3>1, <3>2, <3>3, <3>5, <3>6, <3>7, <4>1, <4>2 DEF Painting
    <3>8. CASE painted' = Append(painted, w)
      <4>1. PICK r \in Seq(Nat) : r = Append(s, u)
        <5>1. Append(s, u) \in Seq(Nat)
          OBVIOUS
        <5>2. QED
          BY <5>1
      <4>2. /\ Len(s) \in Nat /\ DOMAIN s = 1 .. Len(s) /\ DOMAIN r = 1 .. Len(s) + 1
            /\ r[Len(s) + 1] = u /\ \A i \in DOMAIN s : r[i] = s[i]
        BY <4>1
      <4>3. \A i \in DOMAIN r : i \in DOMAIN s \/ i = Len(s) + 1
        BY <4>2
      <4>4. \A i, j \in DOMAIN r : i < j => r[i] > r[j]
        <5>1. SUFFICES ASSUME NEW i \in DOMAIN r, NEW j \in DOMAIN r, i < j
                       PROVE  r[i] > r[j]
          OBVIOUS
        <5>2. i \in DOMAIN s
          BY <4>2, <5>1
        <5>3. CASE j \in DOMAIN s
          BY <3>6, <4>2, <5>1, <5>2, <5>3
        <5>4. CASE j = Len(s) + 1
          BY <3>6, <4>2, <5>2, <5>4
        <5>5. QED
          BY <4>3, <5>3, <5>4
      <4>5. \A i \in DOMAIN r : r[i] > n
        <5>1. \A i \in DOMAIN s : s[i] \in Nat /\ s[i] > n
          BY <3>3, <3>5, <3>6
        <5>2. QED
          BY <3>3, <4>2, <4>3, <5>1
      <4>6. ASSUME NEW v \in stay
            PROVE  v > n <=> \E i \in DOMAIN r : r[i] = v
        <5>1. v > n <=> v = u \/ \E i \in DOMAIN s : s[i] = v
          BY <1>f, <3>4, <3>6
        <5>2. (\E i \in DOMAIN r : r[i] = v) <=> v = u \/ \E i \in DOMAIN s : s[i] = v
          BY <4>2, <4>3
        <5>3. QED
          BY <5>1, <5>2
      <4>7. painted' = r /\ stay' = stay /\ at'["compositor"] = n
        BY <3>1, <3>2, <3>3, <3>5, <3>8, <4>1
      <4>8. QED
        BY <4>4, <4>5, <4>6, <4>7 DEF Painting
    <3>9. QED
      BY <3>1, <3>7, <3>8
  <2>3. QED
    BY <2>1, <2>2
<1>4. CASE handle_mouse_event
  <2>1. stay' = stay /\ painted' = painted
    BY <1>4 DEF handle_mouse_event
  <2>2. \E from, to, p : Goto("input", from, to, p)
    BY <1>4 DEF handle_mouse_event
  <2>3. pc'["compositor"] = pc["compositor"] /\ at'["compositor"] = w
    BY <1>a, <1>b, <2>2 DEF Goto, ListTypes, TypeOK
  <2>4. QED
    BY <1>k, <2>1, <2>3
<1>5. ASSUME NEW t \in Threads, Stray(t) PROVE Painting'
  BY <1>5, <1>k DEF Stray
<1>6. CASE UNCHANGED vars
  BY <1>6, <1>k DEF vars
<1>7. QED
  BY <1>1, <1>2, <1>3, <1>4, <1>5, <1>6 DEF Next

(* A frame has every window that has been there and visible since its painting     *)
(* began, once and in the order of the list, whatever windows come and go.       *)
THEOREM FramesStayComplete == SceneSpec => []FrameComplete
<1>1. Painting => FrameComplete
  BY DEF Painting, FrameComplete
<1>2. QED
  BY <1>1, ListInvInit, ListStepOf, ListInvNext, PaintingNext, PTL DEF SceneSpec

-----------------------------------------------------------------------------
(* destroy_window takes the focus from the window it frees; only a click that      *)
(* found the window before can give the focus to it after.                      *)
THEOREM FocusIsGivenUp == SceneSpec => FocusGivenUp
<1> DEFINE Kept == focused' \notin Live' \union {0} => focused \notin Live \/ pc["input"] = "focus"
<1>1. [Next]_vars => [Kept]_vars
  <2> SUFFICES ASSUME Next, focused' \notin Live' \union {0}, focused \in Live,
                      pc["input"] # "focus"
               PROVE  FALSE
    OBVIOUS
  <2>1. ASSUME NEW c \in Clients, destroy_window(c) PROVE FALSE
    <3>1. Live' = Live \ {want[c].id}
      BY <2>1 DEF destroy_window, Live
    <3>2. focused' = IF focused = want[c].id THEN 0 ELSE focused
      BY <2>1 DEF destroy_window
    <3>3. QED
      BY <3>1, <3>2
  <2>2. ASSUME NEW c \in Clients, create_window(c) PROVE FALSE
    <3>1. Live' = Live \union {nextId} /\ focused' = focused
      BY <2>2 DEF create_window, Live
    <3>2. QED
      BY <3>1
  <2>3. ASSUME UNCHANGED <<list, focused>> PROVE FALSE
    BY <2>3 DEF list, Live
  <2>4. CASE handle_mouse_event
    <3>1. UNCHANGED list
      BY <2>4 DEF handle_mouse_event
    <3>2. focused' = focused
      BY <2>4 DEF handle_mouse_event, Goto
    <3>3. QED
      BY <2>3, <3>1, <3>2
  <2>5. QED
    BY <2>1, <2>2, <2>3, <2>4
    DEF Next, Serve, Request, Opened, find_window, Check, Act, LockFrame, CloseAnimation,
        FrameArrives, Disconnect, update_animations, composite_frame, Stray
<1>2. QED
  BY <1>1, ListStepOf, PTL DEF SceneSpec, FocusGivenUp
=============================================================================
