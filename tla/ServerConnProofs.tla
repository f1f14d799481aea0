--------------------------- MODULE ServerConnProofs ---------------------------
(***************************************************************************)
(* The theorem about MCServerConn: connections and replies are counted right *)
(* for any number of clients, any pool and any number of requests ahead of   *)
(* their replies.                                                          *)
(***************************************************************************)
EXTENDS MCServerConn, SequenceTheorems, FiniteSetTheorems, TLAPS

(* For numbers f[x], of x in a finite set S, as many pairs as their sum.        *)
Pairs(f, S) == UNION {{x} \X (1 .. f[x]) : x \in S}
SumOver(f, S) == Cardinality(Pairs(f, S))

LEMMA PairsOfOne ==
  ASSUME NEW x, NEW n \in Nat
  PROVE  IsFiniteSet({x} \X (1 .. n)) /\ Cardinality({x} \X (1 .. n)) = n
<1>1. IsFiniteSet({x}) /\ Cardinality({x}) = 1
  BY FS_Singleton
<1>2. IsFiniteSet(1 .. n) /\ Cardinality(1 .. n) = n
  <2>1. Cardinality(1 .. n) = IF 1 > n THEN 0 ELSE n - 1 + 1
    BY FS_Interval
  <2>2. QED
    BY <2>1, FS_Interval
<1>3. /\ IsFiniteSet({x} \X (1 .. n))
      /\ Cardinality({x} \X (1 .. n)) = Cardinality({x}) * Cardinality(1 .. n)
  BY <1>1, <1>2, FS_Product
<1>4. QED
  BY <1>1, <1>2, <1>3

LEMMA SumType ==
  ASSUME NEW S, IsFiniteSet(S), NEW f \in [S -> Nat]
  PROVE  /\ IsFiniteSet(Pairs(f, S)) /\ SumOver(f, S) \in Nat
         /\ \A x \in S : f[x] <= SumOver(f, S)
<1> DEFINE sets == {{x} \X (1 .. f[x]) : x \in S}
<1>1. \A x \in S : IsFiniteSet({x} \X (1 .. f[x])) /\ Cardinality({x} \X (1 .. f[x])) = f[x]
  BY PairsOfOne
<1>2. IsFiniteSet(sets)
  <2> DEFINE g == [x \in S |-> {x} \X (1 .. f[x])]
  <2>1. g \in Surjection(S, sets)
    BY DEF Surjection
  <2>2. QED
    <3> HIDE DEF g, sets
    <3> QED BY <2>1, FS_Surjection
<1>3. \A s \in sets : IsFiniteSet(s)
  BY <1>1
<1>4. IsFiniteSet(UNION sets)
  <2> HIDE DEF sets
  <2> QED BY <1>2, <1>3, FS_UNION
<1>5. IsFiniteSet(Pairs(f, S)) /\ SumOver(f, S) \in Nat
  BY <1>4, FS_CardinalityType DEF Pairs, SumOver
<1>6. ASSUME NEW x \in S PROVE f[x] <= SumOver(f, S)
  <2>1. {x} \X (1 .. f[x]) \subseteq Pairs(f, S)
    BY DEF Pairs
  <2>2. Cardinality({x} \X (1 .. f[x])) <= Cardinality(Pairs(f, S))
    BY <1>5, <2>1, FS_Subset
  <2>3. QED
    BY <1>1, <2>2 DEF SumOver
<1>7. QED
  BY <1>5, <1>6

LEMMA SumZero ==
  ASSUME NEW S, NEW f \in [S -> Nat], \A x \in S : f[x] = 0
  PROVE  SumOver(f, S) = 0
<1>1. 1 .. 0 = {}
  OBVIOUS
<1>2. Pairs(f, S) = {}
  BY <1>1 DEF Pairs
<1>3. QED
  BY <1>2, FS_EmptySet DEF SumOver

LEMMA SumUpdate ==
  ASSUME NEW S, IsFiniteSet(S), NEW f \in [S -> Nat], NEW new \in [S -> Nat],
         NEW p \in S, \A x \in S \ {p} : new[x] = f[x]
  PROVE  SumOver(new, S) = SumOver(f, S) - f[p] + new[p]
<1> DEFINE a == {p} \X (1 .. f[p])
           b == {p} \X (1 .. new[p])
           rest == Pairs(f, S) \ a
<1>1. /\ IsFiniteSet(a) /\ Cardinality(a) = f[p]
      /\ IsFiniteSet(b) /\ Cardinality(b) = new[p]
      /\ IsFiniteSet(Pairs(f, S))
  BY PairsOfOne, SumType
<1>2. a \subseteq Pairs(f, S)
  BY DEF Pairs
<1>3. Pairs(new, S) = rest \union b /\ rest \intersect b = {}
  <2>1. \A w : w \in rest <=> \E x \in S \ {p} : w \in {x} \X (1 .. f[x])
    BY DEF Pairs
  <2>2. \A w : w \in Pairs(new, S) <=> w \in b \/ \E x \in S \ {p} : w \in {x} \X (1 .. f[x])
    BY DEF Pairs
  <2>3. ASSUME NEW w \in b PROVE w \notin rest
    BY <2>1
  <2>4. QED
    BY <2>1, <2>2, <2>3
<1> HIDE DEF a, b
<1>4. IsFiniteSet(rest) /\ Cardinality(rest) = Cardinality(Pairs(f, S)) - Cardinality(a)
  <2>1. Pairs(f, S) \intersect a = a
    BY <1>2
  <2>2. IsFiniteSet(rest) /\ Cardinality(rest) =
          Cardinality(Pairs(f, S)) - Cardinality(Pairs(f, S) \intersect a)
    BY <1>1, FS_Difference
  <2>3. QED
    BY <2>1, <2>2
<1> HIDE DEF rest
<1>5. Cardinality(rest \union b) =
        Cardinality(rest) + Cardinality(b) - Cardinality(rest \intersect b)
  BY <1>1, <1>4, FS_Union
<1>6. Cardinality(rest \intersect b) = 0
  BY <1>3, FS_EmptySet
<1>7. Cardinality(Pairs(f, S)) \in Nat /\ f[p] \in Nat /\ new[p] \in Nat
  BY SumType DEF SumOver
<1>8. QED
  BY <1>1, <1>3, <1>4, <1>5, <1>6, <1>7 DEF SumOver
-----------------------------------------------------------------------------

PeerStates == {"absent", "up", "closed", "reset"}
Interests == {"none", "R", "RW"}
Replies == {"reply", "bye"}
Channels == {"none", "open", "closed", "failed"}
Idle == {"select", "batch", "ended"}
Phases == {"register", "write", "clear", "remove", "close", "count"}

(* The worker that handles the shutdown.                                    *)
Closing == IF shutdown.at = "no" THEN 0 ELSE 1

ConnTypes ==
  /\ peer \in [Conns -> PeerStates]
  /\ inbox \in [Conns -> Nat]
  /\ owed \in [Conns -> 0 .. Window]
  /\ clients \subseteq Conns
  /\ key \in [Conns -> Interests]
  /\ tasks \in [Conns -> Nat]
  /\ queue \in [Conns -> Seq(Replies)]
  /\ adding \in [Conns -> Nat]
  /\ active \in Int
  /\ channel \in [Conns -> Channels]
  /\ twice \subseteq Conns
  /\ pc \in Idle \union Phases
  /\ pc \in Phases => current \in Conns
  /\ doomed \in [at : {"no", "remove", "close", "count"}, who : Conns \union {Nobody}]
  /\ shutdown \in [at : {"no", "sent", "asked", "stopping", "exit"},
                   who : Conns \union {Nobody}]

(* The selector thread is at a handler's step for a connection.              *)
In(step, c) == pc = step /\ current = c

(* A connection whose key is there, or about to be.                         *)
Keyed(c) == key[c] # "none" \/ In("register", c)

(* What holds of one connection.  That the counts are right takes that        *)
(* nothing is left of a connection before its client comes, and that a client *)
(* that waits for its replies has at most one request on the way.            *)
Sound(c) ==
  /\ c \in clients => channel[c] = "open" /\ c \notin twice
  /\ peer[c] = "absent" =>
       /\ c \notin clients /\ c \notin twice /\ channel[c] = "none" /\ ~ In("write", c)
       /\ inbox[c] = 0 /\ owed[c] = 0 /\ tasks[c] = 0 /\ queue[c] = <<>>
  /\ Waiting(c) <= owed[c]
  /\ scene = "polite" => owed[c] <= 1 /\ (Keyed(c) => Waiting(c) = owed[c])

(* The workers are within the pool.                                        *)
Manned == SumOver(adding, Conns) + Closing <= Pool

(* The selector thread and the heartbeat task take a client out that neither  *)
(* has taken out twice, and that is in the map when both are about to.        *)
Once ==
  /\ pc = "remove" => current \notin twice
  /\ pc \in {"remove", "close", "count"} => channel[current] # "none"
  /\ pc \in {"close", "count"} => current \notin clients
  /\ doomed.at # "no" => doomed.who \in Conns /\ channel[doomed.who] # "none"
  /\ doomed.at = "remove" => doomed.who \notin twice
  /\ doomed.at \in {"close", "count"} => doomed.who \notin clients
  /\ pc = "remove" /\ doomed.at = "remove" /\ doomed.who = current => current \in clients

Counts == CountedConnections /\ Once

ConnInv ==
  /\ ConnTypes
  /\ \A c \in Conns : Sound(c)
  /\ Counts
  /\ Manned

LEMMA Constants ==
  /\ IsFiniteSet(Conns) /\ Rough \in BOOLEAN
  /\ Window \in Nat /\ Window >= 1 /\ Pool \in Nat /\ Pool >= 1
BY ConnAssumption

LEMMA BusyIsSum == Busy = SumOver(adding, Conns) + Closing
BY DEF Busy, Closing, SumOver, Pairs

LEMMA ConnInvInit == SceneInit => ConnInv
<1> SUFFICES ASSUME SceneInit PROVE ConnInv
  OBVIOUS
<1> USE DEF SceneInit, Init
<1>1. ConnTypes
  BY Constants DEF ConnTypes, PeerStates, Interests, Channels, Idle, Phases
<1>2. \A c \in Conns : Sound(c)
  BY DEF Sound, Waiting, In, Keyed
<1>3. Counts
  <2>1. {c \in Conns : channel[c] = "failed"} = {}
    OBVIOUS
  <2>2. Cardinality({c \in Conns : channel[c] = "failed"}) = 0 /\ Cardinality({}) = 0
    BY <2>1, FS_EmptySet
  <2>3. Underway = 0
    BY DEF Underway
  <2>4. CountedConnections
    BY <2>2, <2>3 DEF CountedConnections
  <2>5. QED
    BY <2>4 DEF Counts, Once
<1>4. Manned
  <2>1. adding \in [Conns -> Nat] /\ \A c \in Conns : adding[c] = 0
    OBVIOUS
  <2>2. SumOver(adding, Conns) = 0
    BY <2>1, Constants, SumZero
  <2>3. QED
    BY <2>2, Constants DEF Manned, Closing
<1>5. QED
  BY <1>1, <1>2, <1>3, <1>4 DEF ConnInv

-----------------------------------------------------------------------------
(* A set of connections grows and shrinks by one.                           *)
LEMMA SetCount ==
  ASSUME NEW S \in SUBSET Conns, NEW c \in Conns
  PROVE  /\ Cardinality(S) \in Nat
         /\ Cardinality(S \union {c}) = IF c \in S THEN Cardinality(S) ELSE Cardinality(S) + 1
         /\ Cardinality(S \ {c}) = IF c \in S THEN Cardinality(S) - 1 ELSE Cardinality(S)
<1>1. IsFiniteSet(S)
  BY Constants, FS_Subset
<1>2. c \notin S => S \ {c} = S
  OBVIOUS
<1>3. c \in S => S \union {c} = S
  OBVIOUS
<1>4. QED
  BY <1>1, <1>2, <1>3, FS_CardinalityType, FS_AddElement, FS_RemoveElement

LEMMA SetType ==
  ASSUME NEW S \in SUBSET Conns
  PROVE  Cardinality(S) \in Int
<1>1. IsFiniteSet(S)
  BY Constants, FS_Subset
<1>2. QED
  BY <1>1, FS_CardinalityType

LEMMA AddingMoves ==
  ASSUME adding \in [Conns -> Nat], adding' \in [Conns -> Nat], NEW c \in Conns,
         \A d \in Conns \ {c} : adding'[d] = adding[d]
  PROVE  /\ SumOver(adding', Conns) = SumOver(adding, Conns) - adding[c] + adding'[c]
         /\ SumOver(adding, Conns) \in Int
<1>1. IsFiniteSet(Conns)
  BY Constants
<1>2. QED
  BY <1>1, SumUpdate, SumType

(* The reply that the selector thread is writing.                           *)
Written(c) == IF In("write", c) THEN 1 ELSE 0

LEMMA WaitingIs ==
  ASSUME ConnTypes, NEW c \in Conns
  PROVE  /\ Waiting(c) = inbox[c] + tasks[c] + Len(queue[c]) + Written(c)
         /\ inbox[c] \in Nat /\ tasks[c] \in Nat /\ queue[c] \in Seq(Replies)
         /\ Len(queue[c]) \in Nat /\ Written(c) \in {0, 1}
         /\ owed[c] \in Nat /\ owed[c] <= Window /\ Window \in Nat
         /\ Waiting(c) \in Nat
<1>1. /\ inbox[c] \in Nat /\ tasks[c] \in Nat /\ queue[c] \in Seq(Replies)
      /\ owed[c] \in 0 .. Window
  BY DEF ConnTypes
<1>2. Len(queue[c]) \in Nat
  BY <1>1, LenProperties
<1>3. Written(c) \in {0, 1}
  BY DEF Written
<1>4. Waiting(c) = inbox[c] + tasks[c] + Len(queue[c]) + Written(c)
  BY DEF Waiting, Written, In
<1>5. Waiting(c) \in Nat
  BY <1>1, <1>2, <1>3, <1>4
<1>6. QED
  BY <1>1, <1>2, <1>3, <1>4, <1>5, Constants

(* A step about one connection: what is to be shown is about it alone.       *)
LEMMA OneMoves ==
  ASSUME ConnInv, NEW c \in Conns,
         ConnTypes', scene' = scene,
         \A d \in Conns \ {c} :
           /\ peer'[d] = peer[d] /\ inbox'[d] = inbox[d] /\ owed'[d] = owed[d]
           /\ key'[d] = key[d] /\ tasks'[d] = tasks[d] /\ queue'[d] = queue[d]
           /\ adding'[d] = adding[d] /\ channel'[d] = channel[d]
           /\ d \in clients' <=> d \in clients
           /\ d \in twice' <=> d \in twice,
         UNCHANGED <<pc, current>> \/ ((pc \in Idle \/ current = c) /\ (pc' \in Idle \/ current' = c)),
         Sound(c)', Counts',
         adding'[c] + Closing' <= adding[c] + Closing \/
           (adding'[c] + Closing' = adding[c] + Closing + 1 /\ Busy < Pool)
  PROVE  ConnInv'
<1>1. ASSUME NEW d \in Conns \ {c} PROVE Sound(d)'
  <2>1. Sound(d)
    BY DEF ConnInv
  <2>2. (In("write", d)' <=> In("write", d)) /\ (In("register", d)' <=> In("register", d))
    BY DEF In, Idle
  <2>3. Waiting(d)' = Waiting(d) /\ (Keyed(d)' <=> Keyed(d))
    BY <2>2 DEF Waiting, Keyed, In
  <2>4. QED
    BY <2>1, <2>2, <2>3 DEF Sound
<1>2. Manned'
  <2>1. adding \in [Conns -> Nat] /\ adding' \in [Conns -> Nat]
    BY DEF ConnInv, ConnTypes
  <2>2. /\ SumOver(adding', Conns) = SumOver(adding, Conns) - adding[c] + adding'[c]
        /\ SumOver(adding, Conns) \in Int /\ adding[c] \in Nat /\ adding'[c] \in Nat
    BY <2>1, AddingMoves
  <2>3. Closing \in Nat /\ Closing' \in Nat /\ Pool \in Nat
    BY Constants DEF Closing
  <2>4. SumOver(adding, Conns) + Closing <= Pool
    BY DEF ConnInv, Manned
  <2>5. Busy < Pool => SumOver(adding, Conns) + Closing < Pool
    BY BusyIsSum
  <2>6. SumOver(adding', Conns) + Closing' <= Pool
    BY <2>2, <2>3, <2>4, <2>5
  <2>7. QED
    BY <2>6 DEF Manned
<1>3. QED
  BY <1>1, <1>2 DEF ConnInv

(* A step that neither accepts nor disconnects keeps the counts.             *)
LEMMA CountsSame ==
  ASSUME ConnInv, UNCHANGED <<clients, active, channel, twice, doomed>>,
         \/ UNCHANGED <<pc, current>>
         \/ /\ pc \notin {"register", "remove", "close", "count"}
            /\ pc' \notin {"register", "close", "count"}
            /\ pc' = "remove" => current' \in clients
  PROVE  Counts'
<1>1. CountedConnections /\ Once /\ ConnTypes /\ \A c \in Conns : Sound(c)
  BY DEF ConnInv, Counts
<1>2. Underway' = Underway /\ (pc' = "register" <=> pc = "register")
  BY DEF Underway
<1>3. CountedConnections'
  BY <1>1, <1>2 DEF CountedConnections
<1>4. Once'
  BY <1>1 DEF Once, ConnTypes, Sound
<1>5. QED
  BY <1>3, <1>4 DEF Counts

LEMMA SameWorkers ==
  ASSUME ConnTypes, NEW c \in Conns, adding' = adding, shutdown' = shutdown
  PROVE  adding'[c] + Closing' <= adding[c] + Closing
<1>1. adding[c] \in Nat /\ Closing \in Nat /\ Closing' = Closing
  BY DEF ConnTypes, Closing
<1>2. QED
  BY <1>1

LEMMA SendKeeps ==
  ASSUME ConnInv, NEW c \in Conns, Send(c), scene' = scene,
         scene = "polite" => owed[c] < 1
  PROVE  ConnInv'
<1>1. ConnTypes /\ Sound(c)
  BY DEF ConnInv
<1>2. /\ inbox[c] \in Nat /\ owed[c] \in Nat /\ owed[c] < Window /\ tasks[c] \in Nat
      /\ Len(queue[c]) \in Nat /\ Window \in Nat /\ Written(c) \in Nat
  BY <1>1, WaitingIs DEF Send
<1>3. /\ inbox'[c] = inbox[c] + 1 /\ owed'[c] = owed[c] + 1
      /\ inbox' \in [Conns -> Nat] /\ owed' \in [Conns -> 0 .. Window]
  <2>1. inbox[c] + 1 \in Nat /\ owed[c] + 1 \in 0 .. Window
    BY <1>2
  <2>2. inbox \in [Conns -> Nat] /\ owed \in [Conns -> 0 .. Window]
    BY <1>1 DEF ConnTypes
  <2>3. inbox' = [inbox EXCEPT ![c] = @ + 1] /\ owed' = [owed EXCEPT ![c] = @ + 1]
    BY DEF Send
  <2>4. QED
    BY <2>1, <2>2, <2>3
<1>4. ConnTypes'
  BY <1>1, <1>3 DEF Send, ConnTypes, sockets, selector, registry
<1>5. Sound(c)'
  <2>1. /\ UNCHANGED <<peer, clients, key, channel, twice, tasks, queue, pc, current>>
        /\ peer[c] = "up" /\ c \in clients
    BY DEF Send, registry, selector
  <2>2. Waiting(c)' = Waiting(c) + 1 /\ Waiting(c) \in Nat
    <3>1. Waiting(c)' = inbox'[c] + tasks[c] + Len(queue[c]) + Written(c)
      BY <2>1 DEF Waiting, Written, In
    <3>2. Waiting(c) = inbox[c] + tasks[c] + Len(queue[c]) + Written(c)
      BY <1>1, WaitingIs
    <3>3. inbox'[c] = inbox[c] + 1
      BY <1>3
    <3> DEFINE i == inbox[c]  t == tasks[c]  l == Len(queue[c])  w == Written(c)
               new == Waiting(c)'  old == Waiting(c)
    <3>4. /\ i \in Nat /\ t \in Nat /\ l \in Nat /\ w \in Nat
          /\ new = (i + 1) + t + l + w /\ old = i + t + l + w
      BY <1>2, <3>1, <3>2, <3>3
    <3> HIDE DEF i, t, l, w, new, old
    <3>5. new = old + 1 /\ old \in Nat
      BY <3>4
    <3>6. QED
      BY <3>5 DEF new, old
  <2>3. /\ Waiting(c) <= owed[c]
        /\ scene = "polite" /\ Keyed(c) => Waiting(c) = owed[c]
    BY <1>1 DEF Sound
  <2>4. Waiting(c)' <= owed'[c]
    BY <1>2, <1>3, <2>2, <2>3
  <2>5. Keyed(c)' <=> Keyed(c)
    BY <2>1 DEF Keyed, In
  <2>6. scene' = "polite" =>
          owed'[c] <= 1 /\ (Keyed(c)' => Waiting(c)' = owed'[c])
    BY <1>2, <1>3, <2>2, <2>3, <2>5
  <2>7. QED
    BY <1>1, <2>1, <2>4, <2>6 DEF Sound
<1>6. Counts'
  BY CountsSame DEF Send, registry, selector
<1>7. \A d \in Conns \ {c} : inbox'[d] = inbox[d] /\ owed'[d] = owed[d]
  BY <1>1 DEF Send, ConnTypes
<1>8. adding'[c] + Closing' <= adding[c] + Closing
  BY <1>1, SameWorkers DEF Send
<1>9. QED
  BY <1>4, <1>5, <1>6, <1>7, <1>8, OneMoves DEF Send, registry, selector

LEMMA HangUpKeeps ==
  ASSUME ConnInv, NEW c \in Conns, HangUp(c), scene' = scene
  PROVE  ConnInv'
<1>1. ConnTypes /\ Sound(c)
  BY DEF ConnInv
<1>2. /\ peer' \in [Conns -> PeerStates] /\ peer'[c] # "absent"
      /\ \A d \in Conns \ {c} : peer'[d] = peer[d]
  BY <1>1 DEF HangUp, ConnTypes, PeerStates
<1>3. ConnTypes'
  BY <1>1, <1>2 DEF HangUp, ConnTypes, selector, registry
<1>4. Sound(c)'
  <2>1. Waiting(c)' = Waiting(c) /\ (Keyed(c)' <=> Keyed(c))
    BY DEF HangUp, registry, selector, Waiting, Keyed, In
  <2>2. QED
    BY <1>1, <1>2, <2>1 DEF Sound, HangUp, registry, selector
<1>5. Counts'
  BY CountsSame DEF HangUp, registry, selector
<1>6. adding'[c] + Closing' <= adding[c] + Closing
  BY <1>1, SameWorkers DEF HangUp
<1>7. QED
  BY <1>2, <1>3, <1>4, <1>5, <1>6, OneMoves DEF HangUp, registry, selector

LEMMA AcceptKeeps ==
  ASSUME ConnInv, NEW c \in Conns, handleAccept(c), scene' = scene
  PROVE  ConnInv'
<1>1. ConnTypes /\ Sound(c)
  BY DEF ConnInv
<1>2. /\ peer' \in [Conns -> PeerStates] /\ peer'[c] = "up"
      /\ channel' \in [Conns -> Channels] /\ channel'[c] = "open"
      /\ clients' = clients \union {c} /\ pc' = "register" /\ current' = c
      /\ \A d \in Conns \ {c} : peer'[d] = peer[d] /\ channel'[d] = channel[d]
  BY <1>1 DEF handleAccept, ConnTypes, PeerStates, Channels
<1>3. /\ c \notin clients /\ c \notin twice /\ channel[c] = "none"
      /\ inbox[c] = 0 /\ owed[c] = 0 /\ tasks[c] = 0 /\ queue[c] = <<>>
  BY <1>1 DEF handleAccept, Sound
<1>4. ConnTypes'
  BY <1>1, <1>2, SMTT(30) DEF handleAccept, ConnTypes, Phases
<1>5. Sound(c)'
  <2>1. Waiting(c)' = 0
    BY <1>2, <1>3 DEF Waiting, handleAccept
  <2>2. QED
    BY <1>2, <1>3, <2>1 DEF Sound, handleAccept
<1>6. Counts'
  <2>1. Cardinality(clients') = Cardinality(clients) + 1 /\ Cardinality(clients) \in Nat
    BY <1>1, <1>2, <1>3, SetCount DEF ConnTypes
  <2>2. {d \in Conns : channel'[d] = "failed"} = {d \in Conns : channel[d] = "failed"}
    BY <1>2, <1>3
  <2>3. /\ Cardinality({d \in Conns : channel[d] = "failed"}) \in Int
        /\ Cardinality(twice) \in Int /\ active \in Int
    <3>1. {d \in Conns : channel[d] = "failed"} \in SUBSET Conns /\ twice \in SUBSET Conns
      BY <1>1 DEF ConnTypes
    <3>2. QED
      BY <1>1, <3>1, SetType DEF ConnTypes
  <2>4. Underway' = Underway /\ Underway \in Int
    BY DEF handleAccept, Underway
  <2>5. CountedConnections
    BY DEF ConnInv, Counts
  <2>6. pc = "batch" /\ UNCHANGED <<active, twice, doomed>>
    BY DEF handleAccept
  <2>7. CountedConnections'
    <3>1. active = Cardinality(clients) + Underway - 0
                   + Cardinality({d \in Conns : channel[d] = "failed"}) - Cardinality(twice)
      BY <2>5, <2>6 DEF CountedConnections
    <3>2. active' = Cardinality(clients') + Underway' - 1
                    + Cardinality({d \in Conns : channel'[d] = "failed"}) - Cardinality(twice')
      <4>1. active' = active /\ twice' = twice
        BY <2>6
      <4> DEFINE n == Cardinality(clients)  u == Underway  t == Cardinality(twice)  a == active
                 m == Cardinality({d \in Conns : channel[d] = "failed"})
                 new == Cardinality(clients')
      <4>2. /\ n \in Int /\ u \in Int /\ t \in Int /\ a \in Int /\ m \in Int
            /\ new = n + 1 /\ a = n + u - 0 + m - t
        BY <2>1, <2>3, <2>4, <3>1
      <4> HIDE DEF n, u, t, a, m, new
      <4>3. a = new + u - 1 + m - t
        BY <4>2
      <4>4. QED
        BY <2>2, <2>4, <4>1, <4>3 DEF n, u, t, a, m, new
    <3>3. QED
      BY <1>2, <3>2 DEF CountedConnections
  <2>8. Once'
    <3>1. Once
      BY DEF ConnInv, Counts
    <3>2. doomed.at # "no" => doomed.who \in Conns \ {c}
      BY <1>3, <3>1 DEF Once
    <3>3. doomed.at # "no" => channel'[doomed.who] = channel[doomed.who]
      BY <1>2, <3>2
    <3>4. QED
      BY <1>2, <2>6, <3>1, <3>2, <3>3 DEF Once
  <2>9. QED
    BY <2>7, <2>8 DEF Counts
<1>7. adding'[c] + Closing' <= adding[c] + Closing
  BY <1>1, SameWorkers DEF handleAccept
<1>8. pc \in Idle
  BY DEF handleAccept, Idle
<1>9. QED
  BY <1>2, <1>4, <1>5, <1>6, <1>7, <1>8, OneMoves DEF handleAccept

LEMMA RegisterKeeps ==
  ASSUME ConnInv, Register, scene' = scene
  PROVE  ConnInv'
<1>1. ConnTypes /\ pc = "register" /\ current \in Conns
  BY DEF ConnInv, Register, ConnTypes, Phases
<1>2. PICK c \in Conns : c = current
  BY <1>1
<1>3. Sound(c)
  BY DEF ConnInv
<1>4. /\ key' \in [Conns -> Interests] /\ key'[c] = "R" /\ pc' = "batch"
      /\ \A d \in Conns \ {c} : key'[d] = key[d]
      /\ active' = active + 1 /\ active' \in Int
      /\ UNCHANGED <<peer, inbox, owed, clients, channel, twice, tasks, queue, adding,
                     silent, batch, doomed, shutdown>>
  BY <1>1, <1>2 DEF Register, sockets, ConnTypes, Interests
<1>5. ConnTypes'
  BY <1>1, <1>4 DEF ConnTypes, Idle, Phases
<1>6. Sound(c)'
  <2>1. Keyed(c) /\ ~ In("write", c) /\ ~ In("write", c)'
    BY <1>1, <1>2, <1>4 DEF Keyed, In
  <2>2. Waiting(c)' = Waiting(c)
    BY <1>4, <2>1 DEF Waiting, In
  <2>3. QED
    BY <1>3, <1>4, <2>1, <2>2 DEF Sound
<1>7. Counts'
  <2>1. /\ Cardinality(clients) \in Int /\ Cardinality(twice) \in Int
        /\ Cardinality({d \in Conns : channel[d] = "failed"}) \in Int
    <3>1. {d \in Conns : channel[d] = "failed"} \in SUBSET Conns /\ twice \in SUBSET Conns
      BY <1>1 DEF ConnTypes
    <3>2. QED
      BY <1>1, <3>1, SetType DEF ConnTypes
  <2>2. Underway' = Underway /\ Underway \in Int
    BY <1>1, <1>4 DEF Underway
  <2>3. CountedConnections'
    <3>1. active = Cardinality(clients) + Underway - 1
                   + Cardinality({d \in Conns : channel[d] = "failed"}) - Cardinality(twice)
      BY <1>1 DEF ConnInv, Counts, CountedConnections
    <3>2. active' = Cardinality(clients') + Underway' - 0
                    + Cardinality({d \in Conns : channel'[d] = "failed"}) - Cardinality(twice')
      BY <1>4, <2>1, <2>2, <3>1
    <3>3. QED
      BY <1>4, <3>2 DEF CountedConnections
  <2>4. Once'
    BY <1>4 DEF ConnInv, Counts, Once
  <2>5. QED
    BY <2>3, <2>4 DEF Counts
<1>8. adding'[c] + Closing' <= adding[c] + Closing
  BY <1>1, <1>4, SameWorkers
<1>9. pc' \in Idle /\ current = c
  BY <1>2, <1>4 DEF Idle
<1>10. QED
  BY <1>4, <1>5, <1>6, <1>7, <1>8, <1>9, OneMoves

(* A step of a disconnection, of a client that is not taken out a third time. *)
LEMMA DisconnectCounts ==
  ASSUME ConnInv, NEW c \in Conns, NEW step, NEW next, disconnectClient(c, step, next),
         step = "remove" => c \notin twice, step # "remove" => c \notin clients,
         channel[c] # "none"
  PROVE  /\ clients' \subseteq clients /\ twice' \subseteq Conns /\ active' \in Int
         /\ channel' \in [Conns -> Channels] /\ key' \in [Conns -> Interests]
         /\ key'[c] \in {key[c], "none"}
         /\ c \in clients' => channel'[c] = "open" /\ c \notin twice'
         /\ channel'[c] # "none" /\ (step = "remove" => c \notin clients')
         /\ step # "remove" => clients' = clients /\ twice' = twice
         /\ \A d \in Conns \ {c} :
              /\ key'[d] = key[d] /\ channel'[d] = channel[d]
              /\ d \in clients' <=> d \in clients
              /\ d \in twice' <=> d \in twice
         /\ active' - Cardinality(clients')
              - Cardinality({d \in Conns : channel'[d] = "failed"}) + Cardinality(twice')
            = active - Cardinality(clients)
              - Cardinality({d \in Conns : channel[d] = "failed"}) + Cardinality(twice)
              + (IF next \in {"close", "count"} THEN 1 ELSE 0)
              - (IF step \in {"close", "count"} THEN 1 ELSE 0)
<1> DEFINE missed == {d \in Conns : channel[d] = "failed"}
<1>1. ConnTypes /\ Sound(c)
  BY DEF ConnInv
<1>2. /\ clients \in SUBSET Conns /\ twice \in SUBSET Conns /\ missed \in SUBSET Conns
      /\ active \in Int
      /\ channel \in [Conns -> Channels] /\ key \in [Conns -> Interests]
      /\ c \in clients => channel[c] = "open" /\ c \notin twice
  BY <1>1 DEF ConnTypes, Sound
<1> HIDE DEF missed
<1>3. /\ Cardinality(clients) \in Int /\ Cardinality(twice) \in Int
      /\ Cardinality(missed) \in Int
      /\ Cardinality(clients \ {c}) =
           IF c \in clients THEN Cardinality(clients) - 1 ELSE Cardinality(clients)
      /\ c \notin twice => Cardinality(twice \union {c}) = Cardinality(twice) + 1
      /\ c \notin missed => Cardinality(missed \union {c}) = Cardinality(missed) + 1
  <2>1. /\ Cardinality(clients) \in Int /\ Cardinality(twice) \in Int
        /\ Cardinality(missed) \in Int
    BY <1>2, SetType
  <2>2. Cardinality(clients \ {c}) =
          IF c \in clients THEN Cardinality(clients) - 1 ELSE Cardinality(clients)
    BY <1>2, SetCount
  <2>3. c \notin twice => Cardinality(twice \union {c}) = Cardinality(twice) + 1
    BY <1>2, SetCount
  <2>4. c \notin missed => Cardinality(missed \union {c}) = Cardinality(missed) + 1
    BY <1>2, SetCount
  <2>5. QED
    BY <2>1, <2>2, <2>3, <2>4
<1>4. CASE /\ step = "remove" /\ next = "close"
           /\ clients' = clients \ {c}
           /\ twice' = IF c \in clients THEN twice ELSE twice \union {c}
           /\ UNCHANGED <<channel, key, active>>
  <2>1. {d \in Conns : channel'[d] = "failed"} = missed
    BY <1>4 DEF missed
  <2>2. Cardinality(twice') - Cardinality(clients') = Cardinality(twice) - Cardinality(clients) + 1
    BY <1>3, <1>4
  <2>3. Cardinality(twice') \in Int /\ Cardinality(clients') \in Int
    BY <1>3, <1>4
  <2>4. active' - Cardinality(clients') - Cardinality(missed) + Cardinality(twice')
        = active - Cardinality(clients) - Cardinality(missed) + Cardinality(twice) + 1 - 0
    BY <1>2, <1>3, <1>4, <2>2, <2>3
  <2>5. QED
    BY <1>2, <1>4, <2>1, <2>4 DEF missed
<1>5. CASE /\ step = "close" /\ next = "count"
           /\ IF channel[c] = "open"
              THEN /\ channel' = [channel EXCEPT ![c] = "closed"]
                   /\ key' = [key EXCEPT ![c] = "none"]
              ELSE UNCHANGED <<channel, key>>
           /\ c \notin clients
           /\ UNCHANGED <<clients, twice, active>>
  <2>1. /\ channel' \in [Conns -> Channels] /\ key' \in [Conns -> Interests]
        /\ key'[c] \in {key[c], "none"} /\ channel'[c] # "none"
        /\ \A d \in Conns \ {c} : key'[d] = key[d] /\ channel'[d] = channel[d]
        /\ channel'[c] = "failed" <=> channel[c] = "failed"
    BY <1>2, <1>5 DEF Channels, Interests
  <2>2. {d \in Conns : channel'[d] = "failed"} = missed
    BY <2>1 DEF missed
  <2>3. active' - Cardinality(clients') - Cardinality(missed) + Cardinality(twice')
        = active - Cardinality(clients) - Cardinality(missed) + Cardinality(twice) + 1 - 1
    BY <1>2, <1>3, <1>5
  <2>4. QED
    BY <1>2, <1>5, <2>1, <2>2, <2>3 DEF missed
<1>6. CASE /\ step = "close" /\ next = "no" /\ channel[c] = "open"
           /\ channel' = [channel EXCEPT ![c] = "failed"]
           /\ key' \in {key, [key EXCEPT ![c] = "none"]}
           /\ c \notin clients
           /\ UNCHANGED <<clients, twice, active>>
  <2>1. /\ channel' \in [Conns -> Channels] /\ key' \in [Conns -> Interests]
        /\ key'[c] \in {key[c], "none"}
        /\ \A d \in Conns \ {c} : key'[d] = key[d] /\ channel'[d] = channel[d]
        /\ channel'[c] = "failed" /\ channel[c] # "failed"
    BY <1>2, <1>6 DEF Channels, Interests
  <2>2. {d \in Conns : channel'[d] = "failed"} = missed \union {c} /\ c \notin missed
    BY <2>1 DEF missed
  <2>3. active' - Cardinality(clients') - Cardinality(missed \union {c}) + Cardinality(twice')
        = active - Cardinality(clients) - Cardinality(missed) + Cardinality(twice) + 0 - 1
    BY <1>2, <1>3, <1>6, <2>2
  <2>4. QED
    BY <1>2, <1>6, <2>1, <2>2, <2>3 DEF missed
<1>7. CASE /\ step = "count" /\ next = "no" /\ active' = active - 1
           /\ UNCHANGED <<clients, twice, channel, key>>
  <2>1. active' - Cardinality(clients') - Cardinality(missed) + Cardinality(twice')
        = active - Cardinality(clients) - Cardinality(missed) + Cardinality(twice) + 0 - 1
    BY <1>2, <1>3, <1>7
  <2>2. active' \in Int
    BY <1>2, <1>7
  <2>3. QED
    BY <1>2, <1>7, <2>1, <2>2 DEF missed
<1>8. QED
  BY <1>4, <1>5, <1>6, <1>7 DEF disconnectClient

(* Where the disconnections of selector thread and heartbeat task are.       *)
LEMMA OnceAt ==
  ASSUME ConnInv, NEW c \in Conns,
         (pc \in {"remove", "close", "count"} /\ current = c)
           \/ (doomed.at \in {"remove", "close", "count"} /\ doomed.who = c)
  PROVE  channel[c] # "none" /\ peer[c] # "absent"
<1>1. Once /\ Sound(c)
  BY DEF ConnInv, Counts
<1>2. QED
  BY <1>1 DEF Once, Sound

(* What a step of a disconnection leaves of its client.                      *)
LEMMA DisconnectSound ==
  ASSUME ConnInv, NEW c \in Conns, NEW step, NEW next, disconnectClient(c, step, next),
         step = "remove" => c \notin twice, step # "remove" => c \notin clients,
         channel[c] # "none", scene' = scene,
         UNCHANGED <<peer, inbox, owed, tasks, queue>>,
         \/ UNCHANGED <<pc, current>>
         \/ pc \in {"remove", "close", "count"} /\ pc' \in {"remove", "close", "count", "batch"}
  PROVE  Sound(c)'
<1>1. ConnTypes /\ Sound(c)
  BY DEF ConnInv
<1>2. /\ key'[c] \in {key[c], "none"}
      /\ c \in clients' => channel'[c] = "open" /\ c \notin twice'
  BY DisconnectCounts
<1>3. (In("write", c)' <=> In("write", c)) /\ (In("register", c)' <=> In("register", c))
  BY DEF In
<1>4. Waiting(c)' = Waiting(c) /\ (Keyed(c)' => Keyed(c))
  BY <1>2, <1>3 DEF Waiting, Keyed, In
<1>5. peer[c] # "absent"
  BY <1>1 DEF Sound
<1>6. QED
  BY <1>1, <1>2, <1>4, <1>5 DEF Sound

LEMMA DisconnectKeeps ==
  ASSUME ConnInv, Disconnect, scene' = scene
  PROVE  ConnInv'
<1>1. /\ ConnTypes /\ Once /\ CountedConnections
      /\ pc \in {"remove", "close", "count"} /\ current \in Conns
  BY DEF ConnInv, Counts, Disconnect, ConnTypes, Phases
<1>2. PICK c \in Conns : c = current
  BY <1>1
<1>3. PICK next \in {"close", "count", "no"} :
        /\ disconnectClient(c, pc, next)
        /\ pc' = IF next = "no" THEN "batch" ELSE next
        /\ current' = IF next = "no" THEN Nobody ELSE current
  BY <1>2 DEF Disconnect
<1>4. UNCHANGED <<peer, inbox, owed, tasks, queue, adding, doomed, shutdown>>
  BY DEF Disconnect, sockets
<1>5. /\ pc = "remove" => c \notin twice
      /\ pc # "remove" => c \notin clients
      /\ channel[c] # "none"
  BY <1>1, <1>2 DEF Once
<1>6. /\ clients' \subseteq clients /\ twice' \subseteq Conns /\ active' \in Int
      /\ channel' \in [Conns -> Channels] /\ key' \in [Conns -> Interests]
      /\ channel'[c] # "none" /\ (pc = "remove" => c \notin clients')
      /\ pc # "remove" => clients' = clients /\ twice' = twice
      /\ \A d \in Conns \ {c} :
           /\ key'[d] = key[d] /\ channel'[d] = channel[d]
           /\ d \in clients' <=> d \in clients
           /\ d \in twice' <=> d \in twice
      /\ active' - Cardinality(clients')
           - Cardinality({d \in Conns : channel'[d] = "failed"}) + Cardinality(twice')
         = active - Cardinality(clients)
           - Cardinality({d \in Conns : channel[d] = "failed"}) + Cardinality(twice)
           + (IF next \in {"close", "count"} THEN 1 ELSE 0)
           - (IF pc \in {"close", "count"} THEN 1 ELSE 0)
  BY <1>3, <1>5, DisconnectCounts
<1>7. /\ next = "close" <=> pc = "remove"
      /\ pc' \in {"close", "count", "batch"}
      /\ pc' \in Phases => current' \in Conns
      /\ pc' = "batch" \/ current' = c
  BY <1>1, <1>2, <1>3 DEF disconnectClient, Phases
<1>8. ConnTypes'
  BY <1>1, <1>4, <1>6, <1>7 DEF ConnTypes, Idle, Phases
<1>9. Sound(c)'
  BY <1>1, <1>3, <1>4, <1>5, <1>7, DisconnectSound
<1>10. Counts'
  <2>1. CountedConnections'
    <3> DEFINE missed == {d \in Conns : channel[d] = "failed"}
               missing == {d \in Conns : channel'[d] = "failed"}
               other == IF doomed.at \in {"close", "count"} THEN 1 ELSE 0
    <3>1. /\ missed \in SUBSET Conns /\ missing \in SUBSET Conns
          /\ clients \in SUBSET Conns /\ clients' \in SUBSET Conns
          /\ twice \in SUBSET Conns /\ twice' \in SUBSET Conns
      BY <1>1, <1>6 DEF ConnTypes
    <3>2. other \in Int
      OBVIOUS
    <3>3. active = Cardinality(clients) + ((IF pc \in {"close", "count"} THEN 1 ELSE 0) + other) - 0
                   + Cardinality(missed) - Cardinality(twice)
      BY <1>1 DEF CountedConnections, Underway
    <3>4. active' - Cardinality(clients') - Cardinality(missing) + Cardinality(twice')
          = active - Cardinality(clients) - Cardinality(missed) + Cardinality(twice)
             + (IF next \in {"close", "count"} THEN 1 ELSE 0)
             - (IF pc \in {"close", "count"} THEN 1 ELSE 0)
      BY <1>6
    <3> HIDE DEF missed, missing, other
    <3>5. /\ Cardinality(clients) \in Int /\ Cardinality(clients') \in Int
          /\ Cardinality(missed) \in Int /\ Cardinality(missing) \in Int
          /\ Cardinality(twice) \in Int /\ Cardinality(twice') \in Int
          /\ active \in Int /\ active' \in Int
      <4>1. active \in Int /\ active' \in Int
        BY <1>1, <1>6 DEF ConnTypes
      <4>2. QED
        BY <3>1, <4>1, SetType
    <3>6. active' = Cardinality(clients') + ((IF next \in {"close", "count"} THEN 1 ELSE 0) + other) - 0
                    + Cardinality(missing) - Cardinality(twice')
      BY <3>2, <3>3, <3>4, <3>5
    <3>7. Underway' = (IF next \in {"close", "count"} THEN 1 ELSE 0) + other
      BY <1>3, <1>4 DEF Underway, other
    <3>8. pc' # "register"
      BY <1>7
    <3>9. QED
      BY <3>6, <3>7, <3>8 DEF CountedConnections, missing
  <2>2. Once'
    <3>1. pc' # "remove" /\ (pc' \in {"close", "count"} => current' \notin clients' /\ channel'[current'] # "none")
      BY <1>5, <1>6, <1>7
    <3>2. doomed.at # "no" => doomed.who \in Conns
      BY <1>1 DEF Once
    <3>3. ASSUME doomed.at # "no" PROVE channel'[doomed.who] # "none"
      BY <1>1, <1>6, <3>2, <3>3 DEF Once
    <3>4. ASSUME doomed.at = "remove" PROVE doomed.who \notin twice'
      <4>1. CASE doomed.who # c
        BY <1>1, <1>6, <3>2, <3>4, <4>1 DEF Once
      <4>2. CASE doomed.who = c /\ pc = "remove"
        <5>1. c \in clients /\ c \notin twice
          BY <1>1, <1>2, <1>5, <3>4, <4>2 DEF Once
        <5>2. twice' = twice
          BY <1>3, <4>2, <5>1 DEF disconnectClient
        <5>3. QED
          BY <4>2, <5>1, <5>2
      <4>3. CASE pc # "remove"
        BY <1>1, <1>6, <3>4, <4>3 DEF Once
      <4>4. QED
        BY <4>1, <4>2, <4>3
    <3>5. ASSUME doomed.at \in {"close", "count"} PROVE doomed.who \notin clients'
      BY <1>1, <1>6, <3>5 DEF Once
    <3>6. QED
      BY <1>4, <3>1, <3>2, <3>3, <3>4, <3>5 DEF Once
  <2>3. QED
    BY <2>1, <2>2 DEF Counts
<1>11. adding'[c] + Closing' <= adding[c] + Closing
  BY <1>1, <1>4, SameWorkers
<1>12. current = c /\ (pc' \in Idle \/ current' = c)
  BY <1>2, <1>7 DEF Idle
<1>13. QED
  BY <1>4, <1>6, <1>8, <1>9, <1>10, <1>11, <1>12, OneMoves

LEMMA HeartbeatKeeps ==
  ASSUME ConnInv, NEW c \in Conns, heartbeatCheck(c), scene' = scene
  PROVE  ConnInv'
<1>1. ConnTypes /\ Once /\ CountedConnections /\ Sound(c)
  BY DEF ConnInv, Counts
<1>2. UNCHANGED <<peer, inbox, owed, tasks, queue, adding, shutdown, pc, current>>
  BY DEF heartbeatCheck, sockets, selector
<1>3. CASE /\ doomed.at = "no" /\ c \in clients
           /\ doomed' = [at |-> "remove", who |-> c] /\ UNCHANGED registry
  <2>1. ConnTypes'
    BY <1>1, <1>2, <1>3 DEF ConnTypes, registry
  <2>2. \A d \in Conns : Sound(d)'
    <3>1. \A d \in Conns : Sound(d)
      BY DEF ConnInv
    <3>2. QED
      BY <1>2, <1>3, <3>1 DEF Sound, Waiting, Keyed, In, registry
  <2>3. Counts'
    <3>1. Underway' = Underway
      BY <1>2, <1>3 DEF Underway
    <3>2. CountedConnections'
      BY <1>1, <1>2, <1>3, <3>1 DEF CountedConnections, registry
    <3>3. Once'
      BY <1>1, <1>2, <1>3 DEF Once, Sound, registry
    <3>4. QED
      BY <3>2, <3>3 DEF Counts
  <2>4. Manned'
    BY <1>2 DEF ConnInv, Manned, Closing
  <2>5. QED
    BY <2>1, <2>2, <2>3, <2>4 DEF ConnInv
<1>4. ASSUME NEW next \in {"close", "count", "no"}, doomed.at # "no", doomed.who = c,
             disconnectClient(c, doomed.at, next),
             doomed' = [at |-> next, who |-> IF next = "no" THEN Nobody ELSE c]
      PROVE  ConnInv'
  <2>1. /\ doomed.at = "remove" => c \notin twice
        /\ doomed.at # "remove" => c \notin clients
        /\ channel[c] # "none" /\ doomed.at \in {"remove", "close", "count"}
    BY <1>1, <1>4 DEF Once, ConnTypes
  <2>2. /\ clients' \subseteq clients /\ twice' \subseteq Conns /\ active' \in Int
        /\ channel' \in [Conns -> Channels] /\ key' \in [Conns -> Interests]
        /\ channel'[c] # "none" /\ (doomed.at = "remove" => c \notin clients')
        /\ doomed.at # "remove" => clients' = clients /\ twice' = twice
        /\ \A d \in Conns \ {c} :
             /\ key'[d] = key[d] /\ channel'[d] = channel[d]
             /\ d \in clients' <=> d \in clients
             /\ d \in twice' <=> d \in twice
        /\ active' - Cardinality(clients')
             - Cardinality({d \in Conns : channel'[d] = "failed"}) + Cardinality(twice')
           = active - Cardinality(clients)
             - Cardinality({d \in Conns : channel[d] = "failed"}) + Cardinality(twice)
             + (IF next \in {"close", "count"} THEN 1 ELSE 0)
             - (IF doomed.at \in {"close", "count"} THEN 1 ELSE 0)
    BY <1>4, <2>1, DisconnectCounts
  <2>3. /\ doomed' \in [at : {"no", "remove", "close", "count"}, who : Conns \union {Nobody}]
        /\ doomed'.at = next /\ (next # "no" => doomed'.who = c)
        /\ next = "close" <=> doomed.at = "remove"
    <3>1. next = "close" <=> doomed.at = "remove"
      BY <1>4, <2>1 DEF disconnectClient
    <3>2. QED
      BY <1>4, <3>1
  <2>4. ConnTypes'
    BY <1>1, <1>2, <2>2, <2>3 DEF ConnTypes
  <2>5. Sound(c)'
    BY <1>1, <1>2, <1>4, <2>1, DisconnectSound
  <2>6. CountedConnections'
    <3> DEFINE missed == {d \in Conns : channel[d] = "failed"}
               missing == {d \in Conns : channel'[d] = "failed"}
               other == IF pc \in {"close", "count"} THEN 1 ELSE 0
               entry == IF pc = "register" THEN 1 ELSE 0
    <3>1. /\ missed \in SUBSET Conns /\ missing \in SUBSET Conns
          /\ clients \in SUBSET Conns /\ clients' \in SUBSET Conns
          /\ twice \in SUBSET Conns /\ twice' \in SUBSET Conns
      BY <1>1, <2>2 DEF ConnTypes
    <3>2. other \in Int /\ entry \in Int
      OBVIOUS
    <3>3. active = Cardinality(clients) + (other + (IF doomed.at \in {"close", "count"} THEN 1 ELSE 0))
                   - entry + Cardinality(missed) - Cardinality(twice)
      BY <1>1 DEF CountedConnections, Underway
    <3>4. active' - Cardinality(clients') - Cardinality(missing) + Cardinality(twice')
          = active - Cardinality(clients) - Cardinality(missed) + Cardinality(twice)
             + (IF next \in {"close", "count"} THEN 1 ELSE 0)
             - (IF doomed.at \in {"close", "count"} THEN 1 ELSE 0)
      BY <2>2
    <3> HIDE DEF missed, missing, other, entry
    <3>5. /\ Cardinality(clients) \in Int /\ Cardinality(clients') \in Int
          /\ Cardinality(missed) \in Int /\ Cardinality(missing) \in Int
          /\ Cardinality(twice) \in Int /\ Cardinality(twice') \in Int
          /\ active \in Int /\ active' \in Int
      <4>1. active \in Int /\ active' \in Int
        BY <1>1, <2>2 DEF ConnTypes
      <4>2. QED
        BY <3>1, <4>1, SetType
    <3>6. active' = Cardinality(clients') + (other + (IF next \in {"close", "count"} THEN 1 ELSE 0))
                    - entry + Cardinality(missing) - Cardinality(twice')
      BY <3>2, <3>3, <3>4, <3>5
    <3>7. Underway' = other + (IF next \in {"close", "count"} THEN 1 ELSE 0)
      BY <1>2, <2>3 DEF Underway, other
    <3>8. entry = IF pc' = "register" THEN 1 ELSE 0
      BY <1>2 DEF entry
    <3>9. QED
      BY <3>6, <3>7, <3>8 DEF CountedConnections, missing
  <2>7. Once'
    <3>1. doomed'.at # "remove" /\ (doomed'.at # "no" => doomed'.who = c)
      BY <2>3
    <3>2. doomed'.at \in {"close", "count"} => c \notin clients'
      BY <2>1, <2>2, <2>3
    <3>3. ASSUME pc \in {"remove", "close", "count"}
          PROVE  current \in Conns /\ channel'[current] # "none"
      <4>1. current \in Conns /\ channel[current] # "none"
        BY <1>1, <3>3 DEF Once, ConnTypes, Phases
      <4>2. QED
        BY <2>2, <4>1
    <3>4. ASSUME pc = "remove" PROVE current \notin twice'
      <4>1. current \in Conns /\ current \notin twice
        BY <1>1, <3>3, <3>4 DEF Once
      <4>2. CASE current # c
        BY <2>2, <4>1, <4>2
      <4>3. CASE current = c /\ doomed.at = "remove"
        <5>1. c \in clients
          BY <1>1, <1>4, <3>4, <4>3 DEF Once
        <5>2. twice' = twice
          BY <1>4, <4>3, <5>1 DEF disconnectClient
        <5>3. QED
          BY <4>1, <5>2
      <4>4. CASE doomed.at # "remove"
        BY <2>2, <4>1, <4>4
      <4>5. QED
        BY <4>2, <4>3, <4>4
    <3>5. ASSUME pc \in {"close", "count"} PROVE current \notin clients'
      BY <1>1, <2>2, <3>5 DEF Once
    <3>6. QED
      BY <1>2, <1>4, <2>2, <2>3, <3>1, <3>2, <3>3, <3>4, <3>5 DEF Once
  <2>8. adding'[c] + Closing' <= adding[c] + Closing
    BY <1>1, <1>2, SameWorkers
  <2>9. Counts'
    BY <2>6, <2>7 DEF Counts
  <2>10. QED
    BY <1>2, <2>2, <2>4, <2>5, <2>8, <2>9, OneMoves
<1>5. QED
  BY <1>3, <1>4 DEF heartbeatCheck

(* Cancelling a key.                                                        *)
LEMMA KeyGoes ==
  ASSUME ConnInv, NEW c \in Conns, Cancel(c) \/ UNCHANGED registry
  PROVE  /\ UNCHANGED <<clients, channel, active, twice>>
         /\ key' \in [Conns -> Interests]
         /\ key'[c] = "none" \/ key'[c] = key[c]
         /\ \A d \in Conns \ {c} : key'[d] = key[d]
<1>1. key \in [Conns -> Interests]
  BY DEF ConnInv, ConnTypes
<1>2. key' = key \/ key' = [key EXCEPT ![c] = "none"]
  BY DEF Cancel, registry
<1>3. UNCHANGED <<clients, channel, active, twice>>
  BY DEF Cancel, registry
<1>4. QED
  BY <1>1, <1>2, <1>3 DEF Interests

(* A message leaves the socket, whole; it goes to the pool or is lost.       *)
LEMMA ReadKeeps ==
  ASSUME ConnInv, NEW c \in Conns, handleRead(c), scene' = scene,
         scene = "polite" => \/ key'[c] = "none" \/ UNCHANGED <<inbox, tasks>>
                             \/ tasks' = [tasks EXCEPT ![c] = @ + 1]
  PROVE  ConnInv'
<1>1. ConnTypes /\ Sound(c)
  BY DEF ConnInv
<1>2. Cancel(c) \/ UNCHANGED registry
  BY DEF handleRead
<1>3. /\ UNCHANGED <<clients, channel, active, twice>>
      /\ key' \in [Conns -> Interests]
      /\ key'[c] = "none" \/ key'[c] = key[c]
      /\ \A d \in Conns \ {c} : key'[d] = key[d]
  BY <1>2, KeyGoes
<1>4. /\ pc = "batch" 
      /\ (pc' = pc /\ current' = current) \/ (pc' = "remove" /\ current' = c /\ c \in clients)
  BY DEF handleRead, Selected
<1>5. \/ UNCHANGED <<tasks, inbox>>
      \/ /\ inbox[c] > 0 /\ inbox' = [inbox EXCEPT ![c] = 0]
         /\ tasks' = tasks \/ tasks' = [tasks EXCEPT ![c] = @ + 1]
  BY DEF handleRead
<1>6. /\ inbox[c] \in Nat /\ owed[c] \in Nat /\ tasks[c] \in Nat
      /\ Len(queue[c]) \in Nat
      /\ Waiting(c) = inbox[c] + tasks[c] + Len(queue[c]) + 0
      /\ Waiting(c) \in Nat
  <2>1. Written(c) = 0
    BY <1>4 DEF Written, In
  <2>2. QED
    BY <1>1, <2>1, WaitingIs
<1>7. /\ inbox' \in [Conns -> Nat] /\ tasks' \in [Conns -> Nat]
      /\ \A d \in Conns \ {c} : inbox'[d] = inbox[d] /\ tasks'[d] = tasks[d]
      /\ \/ inbox'[c] = inbox[c] /\ tasks'[c] = tasks[c]
         \/ /\ inbox[c] > 0 /\ inbox'[c] = 0
            /\ \/ tasks'[c] = tasks[c] + 1
               \/ /\ tasks'[c] = tasks[c]
                  /\ scene = "polite" => key'[c] = "none"
  <2>1. CASE UNCHANGED <<tasks, inbox>>
    BY <1>1, <2>1 DEF ConnTypes
  <2>2. CASE inbox[c] > 0 /\ inbox' = [inbox EXCEPT ![c] = 0] /\ tasks' = tasks
    <3>1. inbox'[c] = 0 /\ tasks'[c] = tasks[c] /\ tasks'[c] # tasks[c] + 1
      BY <1>1, <1>6, <2>2 DEF ConnTypes
    <3>2. tasks' # [tasks EXCEPT ![c] = @ + 1]
      BY <1>1, <3>1 DEF ConnTypes
    <3>3. inbox' # inbox
      BY <1>6, <2>2, <3>1
    <3>4. QED
      BY <1>1, <2>2, <3>1, <3>2, <3>3 DEF ConnTypes
  <2>3. CASE /\ inbox[c] > 0 /\ inbox' = [inbox EXCEPT ![c] = 0]
             /\ tasks' = [tasks EXCEPT ![c] = @ + 1]
    <3>1. tasks[c] + 1 \in Nat /\ inbox \in [Conns -> Nat] /\ tasks \in [Conns -> Nat]
      <4>1. tasks[c] \in Nat
        BY <1>6
      <4>2. QED
        BY <1>1, <4>1 DEF ConnTypes
    <3>2. /\ inbox' \in [Conns -> Nat] /\ inbox'[c] = 0
          /\ \A d \in Conns \ {c} : inbox'[d] = inbox[d]
      BY <2>3, <3>1
    <3>3. /\ tasks' \in [Conns -> Nat] /\ tasks'[c] = tasks[c] + 1
          /\ \A d \in Conns \ {c} : tasks'[d] = tasks[d]
      BY <2>3, <3>1
    <3>4. QED
      BY <2>3, <3>2, <3>3
  <2>4. QED
    BY <1>5, <2>1, <2>2, <2>3
<1>8. UNCHANGED <<peer, owed, queue, adding, doomed, shutdown>>
  BY DEF handleRead
<1>9. ConnTypes'
  BY <1>1, <1>3, <1>4, <1>7, <1>8 DEF ConnTypes, Idle, Phases
<1>10. Sound(c)'
  <2>1. peer[c] = "absent" => inbox'[c] = 0 /\ tasks'[c] = 0 /\ ~ In("write", c)'
    BY <1>1, <1>4, <1>6, <1>7 DEF Sound, In
  <2>2. Waiting(c) <= owed[c] /\ (scene = "polite" =>
          owed[c] <= 1 /\ (Keyed(c) => Waiting(c) = owed[c]))
    BY <1>1 DEF Sound
  <2>3. /\ inbox'[c] \in Nat /\ tasks'[c] \in Nat
        /\ Waiting(c)' = inbox'[c] + tasks'[c] + Len(queue[c])
    <3>1. Waiting(c)' = inbox'[c] + tasks'[c] + Len(queue[c]) + 0
      BY <1>4, <1>8 DEF Waiting
    <3>2. inbox'[c] \in Nat /\ tasks'[c] \in Nat
      BY <1>7
    <3> DEFINE i == inbox'[c]  t == tasks'[c]  l == Len(queue[c])
    <3>3. i \in Nat /\ t \in Nat /\ l \in Nat
      BY <1>6, <3>2
    <3> HIDE DEF i, t, l
    <3>4. i + t + l + 0 = i + t + l
      BY <3>3
    <3>5. QED
      BY <3>1, <3>2, <3>4 DEF i, t, l
  <2>4. /\ inbox'[c] + tasks'[c] + Len(queue[c]) <= inbox[c] + tasks[c] + Len(queue[c]) + 0
        /\ inbox'[c] + tasks'[c] + Len(queue[c]) \in Nat
    <3> DEFINE i == inbox[c]  t == tasks[c]  l == Len(queue[c])  j == inbox'[c]  u == tasks'[c]
    <3>1. /\ i \in Nat /\ t \in Nat /\ l \in Nat /\ j \in Nat /\ u \in Nat
          /\ (j = i /\ u = t) \/ (i > 0 /\ j = 0 /\ (u = t + 1 \/ u = t))
      BY <1>6, <1>7, <2>3
    <3> HIDE DEF i, t, l, j, u
    <3>2. j + u + l <= i + t + l + 0 /\ j + u + l \in Nat
      BY <3>1
    <3>3. QED
      BY <3>2 DEF i, t, l, j, u
  <2>5. Waiting(c)' <= Waiting(c) /\ Waiting(c)' \in Nat
    BY <1>6, <2>3, <2>4, Zenon
  <2>6. Keyed(c)' => Keyed(c) /\ key'[c] # "none"
    BY <1>3, <1>4 DEF Keyed, In
  <2>7. ASSUME scene = "polite", Keyed(c)' PROVE Waiting(c)' = Waiting(c)
    <3> DEFINE i == inbox[c]  t == tasks[c]  l == Len(queue[c])  j == inbox'[c]  u == tasks'[c]
               v == Waiting(c)
    <3>1. /\ i \in Nat /\ t \in Nat /\ l \in Nat /\ j \in Nat /\ u \in Nat
          /\ (j = i /\ u = t) \/ (i > 0 /\ j = 0 /\ u = t + 1)
      BY <1>6, <1>7, <2>3, <2>6, <2>7
    <3>2. v <= owed[c] /\ owed[c] <= 1 /\ owed[c] \in Nat /\ v = i + t + l + 0
      BY <1>6, <2>2, <2>7
    <3> HIDE DEF i, t, l, j, u, v
    <3>3. j + u + l = v
      BY <3>1, <3>2
    <3>4. QED
      BY <2>3, <3>3 DEF i, t, l, j, u, v
  <2>8. Waiting(c)' <= owed'[c]
    BY <1>6, <1>8, <2>2, <2>5
  <2>9. scene' = "polite" => owed'[c] <= 1 /\ (Keyed(c)' => Waiting(c)' = owed'[c])
    BY <1>8, <2>2, <2>6, <2>7
  <2>10. QED
    BY <1>1, <1>3, <1>8, <2>1, <2>8, <2>9 DEF Sound
<1>11. Counts'
  BY <1>3, <1>4, <1>8, CountsSame
<1>12. adding'[c] + Closing' <= adding[c] + Closing
  BY <1>1, <1>8, SameWorkers
<1>13. UNCHANGED <<pc, current>> \/ (pc \in Idle /\ current' = c)
  BY <1>4 DEF Idle
<1>14. QED
  BY <1>3, <1>7, <1>8, <1>9, <1>10, <1>11, <1>12, <1>13, OneMoves

(* A step that leaves requests and replies where they are.                  *)
LEMMA CountsStay ==
  ASSUME ConnInv, NEW c \in Conns,
         UNCHANGED <<peer, inbox, owed, tasks, queue, clients, channel, active, twice,
                     doomed, scene>>,
         key' \in [Conns -> Interests], adding' \in [Conns -> Nat],
         shutdown' \in [at : {"no", "sent", "asked", "stopping", "exit"},
                        who : Conns \union {Nobody}],
         key'[c] = "none" \/ key[c] # "none",
         UNCHANGED <<pc, current>> \/ (pc = "clear" /\ current = c /\ pc' = "batch"),
         \A d \in Conns \ {c} : key'[d] = key[d] /\ adding'[d] = adding[d],
         adding'[c] <= adding[c], Closing' <= Closing
  PROVE  ConnInv'
<1>1. ConnTypes /\ Sound(c)
  BY DEF ConnInv
<1>2. ConnTypes'
  BY <1>1 DEF ConnTypes, Idle, Phases
<1>3. Waiting(c)' = Waiting(c) /\ (Keyed(c)' => Keyed(c)) /\ (In("write", c)' <=> In("write", c))
  BY DEF Waiting, Keyed, In
<1>4. Sound(c)'
  BY <1>1, <1>3 DEF Sound
<1>5. Counts'
  BY CountsSame
<1>6. adding'[c] + Closing' <= adding[c] + Closing
  <2>1. /\ adding[c] \in Nat /\ adding'[c] \in Nat
        /\ Closing \in Nat /\ Closing' \in Nat
    BY <1>1 DEF ConnTypes, Closing
  <2>2. QED
    BY <2>1
<1>7. UNCHANGED <<pc, current>> \/ (current = c /\ pc' \in Idle)
  BY DEF Idle
<1>8. QED
  BY <1>2, <1>4, <1>5, <1>6, <1>7, OneMoves

(* A step about no connection.                                              *)
LEMMA NothingMoves ==
  ASSUME ConnInv,
         UNCHANGED <<peer, inbox, owed, registry, tasks, queue, adding, doomed, current,
                     shutdown, scene>>,
         pc' = pc \/ (pc \in Idle /\ pc' \in Idle)
  PROVE  ConnInv'
<1>1. ConnTypes /\ UNCHANGED <<clients, channel, key, active, twice>>
  BY DEF ConnInv, registry
<1>2. \A c \in Conns : Sound(c)'
  <2>1. ASSUME NEW c \in Conns PROVE Sound(c)'
    <3>1. Waiting(c)' = Waiting(c) /\ (Keyed(c)' => Keyed(c)) /\ (In("write", c)' <=> In("write", c))
      BY <1>1 DEF Waiting, Keyed, In, Idle
    <3>2. Sound(c)
      BY DEF ConnInv
    <3>3. QED
      BY <1>1, <3>1, <3>2 DEF Sound
  <2>2. QED
    BY <2>1
<1>3. ConnTypes'
  BY <1>1 DEF ConnTypes, Idle, Phases
<1>4. Counts'
  BY <1>1, CountsSame DEF Idle
<1>5. QED
  BY <1>2, <1>3, <1>4 DEF ConnInv, Manned, Closing

(* handleWrite takes a reply from the queue: to write it, or to lose it with  *)
(* the key.                                                                *)
LEMMA WriteKeeps ==
  ASSUME ConnInv, NEW c \in Conns, handleWrite(c), scene' = scene
  PROVE  ConnInv'
<1>1. ConnTypes /\ Sound(c)
  BY DEF ConnInv
<1>2. Cancel(c) \/ UNCHANGED registry
  BY DEF handleWrite
<1>3. /\ UNCHANGED <<clients, channel, active, twice>>
      /\ key' \in [Conns -> Interests]
      /\ key'[c] = "none" \/ key'[c] = key[c]
      /\ \A d \in Conns \ {c} : key'[d] = key[d]
  BY <1>2, KeyGoes
<1>4. /\ UNCHANGED <<peer, inbox, owed, tasks, adding, doomed, shutdown>>
      /\ pc = "batch"
  BY DEF handleWrite, sockets, Selected
<1>5. /\ inbox[c] \in Nat /\ owed[c] \in Nat /\ tasks[c] \in Nat
      /\ queue[c] \in Seq(Replies) /\ Len(queue[c]) \in Nat
      /\ Waiting(c) = inbox[c] + tasks[c] + Len(queue[c]) + 0
  <2>1. Written(c) = 0
    BY <1>4 DEF Written, In
  <2>2. QED
    BY <1>1, <2>1, WaitingIs
<1>6. \/ /\ queue' = queue
         /\ UNCHANGED <<pc, current>> \/ (pc' = "clear" /\ current' = c)
      \/ /\ queue[c] # <<>> /\ queue' = [queue EXCEPT ![c] = Tail(@)]
         /\ \/ pc' = "write" /\ current' = c
            \/ key' = [key EXCEPT ![c] = "none"] /\ UNCHANGED <<pc, current>>
  BY DEF handleWrite, Cancel
<1>7. adding'[c] + Closing' <= adding[c] + Closing
  BY <1>1, <1>4, SameWorkers
<1>8. Counts'
  BY <1>3, <1>4, <1>6, CountsSame
<1>9. UNCHANGED <<pc, current>> \/ (pc \in Idle /\ current' = c)
  BY <1>4, <1>6 DEF Idle
<1>10. /\ pc' \in {"batch", "clear", "write"}
       /\ pc' \in Phases => current' \in Conns
  BY <1>4, <1>6 DEF Phases
<1>11. CASE /\ queue' = queue
            /\ UNCHANGED <<pc, current>> \/ (pc' = "clear" /\ current' = c)
  <2>1. ConnTypes'
    BY <1>1, <1>3, <1>4, <1>10, <1>11 DEF ConnTypes, Idle, Phases
  <2>2. /\ Waiting(c)' = Waiting(c) /\ (Keyed(c)' => Keyed(c))
        /\ ~ In("write", c)'
    BY <1>3, <1>4, <1>11 DEF Waiting, Keyed, In
  <2>3. Sound(c)'
    <3>1. UNCHANGED <<peer, inbox, owed, tasks, queue, clients, channel, twice, scene>>
      BY <1>3, <1>4, <1>11
    <3>2. QED
      BY <1>1, <2>2, <3>1 DEF Sound
  <2>4. QED
    BY <1>3, <1>4, <1>7, <1>8, <1>9, <1>11, <2>1, <2>3, OneMoves
<1>12. CASE /\ queue[c] # <<>> /\ queue' = [queue EXCEPT ![c] = Tail(@)]
            /\ \/ pc' = "write" /\ current' = c
               \/ key' = [key EXCEPT ![c] = "none"] /\ UNCHANGED <<pc, current>>
  <2>1. /\ Tail(queue[c]) \in Seq(Replies)
        /\ Len(Tail(queue[c])) = Len(queue[c]) - 1 /\ Len(queue[c]) > 0
    BY <1>5, <1>12, HeadTailProperties, EmptySeq
  <2>2. /\ queue' \in [Conns -> Seq(Replies)] /\ queue'[c] = Tail(queue[c])
        /\ \A d \in Conns \ {c} : queue'[d] = queue[d]
    BY <1>1, <1>12, <2>1 DEF ConnTypes
  <2>3. ConnTypes'
    BY <1>1, <1>3, <1>4, <1>10, <2>2 DEF ConnTypes, Idle, Phases
  <2>4. Waiting(c)' = inbox[c] + tasks[c] + (Len(queue[c]) - 1) + Written(c)'
    BY <1>4, <2>1, <2>2 DEF Waiting, Written, In
  <2>5. Written(c)' = 1 \/ (Written(c)' = 0 /\ key'[c] = "none" /\ ~ Keyed(c)')
    BY <1>1, <1>4, <1>12 DEF Written, In, Keyed, ConnTypes
  <2>6. /\ Waiting(c)' = Waiting(c) \/ (Waiting(c)' = Waiting(c) - 1 /\ ~ Keyed(c)')
        /\ Waiting(c) \in Nat /\ Waiting(c) > 0
    <3> DEFINE i == inbox[c]  t == tasks[c]  l == Len(queue[c])  w == Written(c)'
               new == Waiting(c)'  old == Waiting(c)
    <3>1. /\ i \in Nat /\ t \in Nat /\ l \in Nat /\ l > 0
          /\ w = 1 \/ (w = 0 /\ ~ Keyed(c)')
          /\ new = i + t + (l - 1) + w /\ old = i + t + l + 0
      BY <1>5, <2>1, <2>4, <2>5
    <3> HIDE DEF i, t, l, w, new, old
    <3>2. (new = old \/ (new = old - 1 /\ ~ Keyed(c)')) /\ old \in Nat /\ old > 0
      BY <3>1
    <3>3. QED
      BY <3>2 DEF new, old
  <2>7. Sound(c)'
    <3>1. peer[c] # "absent"
      BY <1>1, <1>5, <2>6 DEF Sound
    <3>2. Keyed(c)' => Keyed(c)
      BY <1>3, <1>4, <1>12 DEF Keyed, In
    <3>3. Waiting(c)' <= owed'[c]
      BY <1>1, <1>4, <1>5, <2>6 DEF Sound
    <3>4. QED
      BY <1>1, <1>3, <1>4, <2>6, <3>1, <3>2, <3>3 DEF Sound
  <2>8. QED
    BY <1>3, <1>4, <1>7, <1>8, <1>9, <2>2, <2>3, <2>7, OneMoves
<1>13. QED
  BY <1>6, <1>11, <1>12

(* The reply is out, or lost with the key.                                  *)
LEMMA WriteOnKeeps ==
  ASSUME ConnInv, WriteOn, scene' = scene
  PROVE  ConnInv'
<1>1. ConnTypes /\ pc = "write" /\ current \in Conns
  BY DEF ConnInv, WriteOn, ConnTypes, Phases
<1>2. PICK c \in Conns : c = current
  BY <1>1
<1>3. Sound(c) /\ UNCHANGED <<peer, inbox, tasks, queue, adding, doomed, shutdown>>
  BY DEF ConnInv, WriteOn
<1>4. Cancel(c) \/ UNCHANGED registry
  BY <1>2 DEF WriteOn
<1>5. /\ UNCHANGED <<clients, channel, active, twice>>
      /\ key' \in [Conns -> Interests]
      /\ key'[c] = "none" \/ key'[c] = key[c]
      /\ \A d \in Conns \ {c} : key'[d] = key[d]
  BY <1>4, KeyGoes
<1>6. /\ pc' \in {"clear", "batch"} /\ (pc' = "clear" => current' = c)
      /\ owed' = [owed EXCEPT ![c] = @ - 1] \/ (owed' = owed /\ Cancel(c))
  BY <1>2 DEF WriteOn
<1>7. /\ owed[c] \in Nat /\ owed[c] <= Window /\ Window \in Nat
      /\ Waiting(c) \in Nat /\ Waiting(c) > 0
      /\ Waiting(c)' = Waiting(c) - 1
  <2>1. /\ inbox[c] \in Nat /\ tasks[c] \in Nat /\ Len(queue[c]) \in Nat
        /\ Waiting(c) = inbox[c] + tasks[c] + Len(queue[c]) + Written(c)
        /\ owed[c] \in Nat /\ owed[c] <= Window /\ Window \in Nat
    BY <1>1, WaitingIs
  <2>2. Written(c) = 1
    BY <1>1, <1>2 DEF Written, In
  <2>3. Waiting(c)' = inbox[c] + tasks[c] + Len(queue[c]) + 0
    BY <1>3, <1>6 DEF Waiting
  <2> DEFINE i == inbox[c]  t == tasks[c]  l == Len(queue[c])
             new == Waiting(c)'  old == Waiting(c)
  <2>4. /\ i \in Nat /\ t \in Nat /\ l \in Nat
        /\ old = i + t + l + 1 /\ new = i + t + l + 0
    BY <2>1, <2>2, <2>3
  <2> HIDE DEF i, t, l, new, old
  <2>5. old \in Nat /\ old > 0 /\ new = old - 1
    BY <2>4
  <2>6. QED
    BY <2>1, <2>5 DEF new, old
<1>8. Waiting(c) <= owed[c] /\ (scene = "polite" => owed[c] <= 1 /\ (Keyed(c) => Waiting(c) = owed[c]))
  BY <1>3 DEF Sound
<1>9. /\ owed' \in [Conns -> 0 .. Window]
      /\ owed'[c] = owed[c] - 1 \/ (owed'[c] = owed[c] /\ key'[c] = "none")
      /\ \A d \in Conns \ {c} : owed'[d] = owed[d]
  <2>1. owed[c] - 1 \in 0 .. Window
    BY <1>7, <1>8
  <2>2. owed \in [Conns -> 0 .. Window] /\ key \in [Conns -> Interests]
    BY <1>1 DEF ConnTypes
  <2>3. QED
    BY <1>6, <2>1, <2>2 DEF Cancel
<1>10. ConnTypes'
  BY <1>1, <1>3, <1>5, <1>6, <1>9 DEF ConnTypes, Idle, Phases
<1>11. Sound(c)'
  <2>1. Keyed(c)' => Keyed(c) /\ key'[c] # "none"
    BY <1>1, <1>5, <1>6 DEF Keyed, In
  <2>2. peer[c] # "absent"
    BY <1>1, <1>2, <1>3 DEF Sound, In
  <2>3. Waiting(c)' <= owed'[c]
    BY <1>7, <1>8, <1>9
  <2>4. scene = "polite" => owed'[c] <= 1 /\ (Keyed(c)' => Waiting(c)' = owed'[c])
    BY <1>7, <1>8, <1>9, <2>1
  <2>5. QED
    BY <1>3, <1>5, <2>2, <2>3, <2>4 DEF Sound
<1>12. Counts'
  BY <1>1, <1>3, <1>5, <1>6, CountsSame
<1>13. adding'[c] + Closing' <= adding[c] + Closing
  BY <1>1, <1>3, SameWorkers
<1>14. current = c /\ (pc' \in Idle \/ current' = c)
  BY <1>2, <1>6 DEF Idle
<1>15. QED
  BY <1>3, <1>5, <1>9, <1>10, <1>11, <1>12, <1>13, <1>14, OneMoves

(* A worker takes a message and queues its reply.                           *)
LEMMA WorkerTakes ==
  ASSUME ConnInv, NEW c \in Conns, NEW r \in Replies,
         tasks[c] > 0, Busy < Pool,
         tasks' = [tasks EXCEPT ![c] = @ - 1],
         queue' = [queue EXCEPT ![c] = Append(@, r)],
         UNCHANGED <<peer, inbox, owed, clients, channel, key, active, twice, pc, current,
                     doomed, scene>>,
         \/ adding' = [adding EXCEPT ![c] = @ + 1] /\ shutdown' = shutdown
         \/ /\ adding' = adding /\ shutdown.at = "no"
            /\ shutdown' = [at |-> "sent", who |-> c]
  PROVE  ConnInv'
<1>1. ConnTypes /\ Sound(c)
  BY DEF ConnInv
<1>2. /\ inbox[c] \in Nat /\ owed[c] \in Nat /\ tasks[c] \in Nat
      /\ queue[c] \in Seq(Replies) /\ Len(queue[c]) \in Nat /\ adding[c] \in Nat
  BY <1>1, LenProperties DEF ConnTypes
<1>3. /\ Append(queue[c], r) \in Seq(Replies)
      /\ Len(Append(queue[c], r)) = Len(queue[c]) + 1
  BY <1>2, AppendProperties
<1>4. /\ tasks' \in [Conns -> Nat] /\ tasks'[c] = tasks[c] - 1
      /\ \A d \in Conns \ {c} : tasks'[d] = tasks[d]
  <2>1. tasks[c] - 1 \in Nat /\ tasks \in [Conns -> Nat]
    BY <1>1, <1>2, SMTT(30) DEF ConnTypes
  <2>2. QED
    BY <2>1
<1>5. /\ queue' \in [Conns -> Seq(Replies)] /\ queue'[c] = Append(queue[c], r)
      /\ \A d \in Conns \ {c} : queue'[d] = queue[d]
  BY <1>1, <1>3 DEF ConnTypes
<1>6. /\ adding' \in [Conns -> Nat]
      /\ \A d \in Conns \ {c} : adding'[d] = adding[d]
      /\ adding'[c] + Closing' = adding[c] + Closing + 1
  <2>1. CASE adding' = [adding EXCEPT ![c] = @ + 1] /\ shutdown' = shutdown
    <3>1. /\ adding' \in [Conns -> Nat] /\ adding'[c] = adding[c] + 1
          /\ \A d \in Conns \ {c} : adding'[d] = adding[d]
      <4>1. adding[c] + 1 \in Nat /\ adding \in [Conns -> Nat]
        BY <1>1, <1>2, SMTT(30) DEF ConnTypes
      <4>2. QED
        BY <2>1, <4>1
    <3>2. Closing' = Closing /\ Closing \in Nat
      BY <2>1 DEF Closing
    <3>3. QED
      BY <1>2, <3>1, <3>2
  <2>2. CASE /\ adding' = adding /\ shutdown.at = "no"
             /\ shutdown' = [at |-> "sent", who |-> c]
    <3>1. Closing = 0 /\ Closing' = 1
      BY <2>2 DEF Closing
    <3>2. QED
      BY <1>1, <1>2, <2>2, <3>1 DEF ConnTypes
  <2>3. QED
    BY <2>1, <2>2
<1>7. shutdown' \in [at : {"no", "sent", "asked", "stopping", "exit"},
                     who : Conns \union {Nobody}]
  BY <1>1, SMTT(30) DEF ConnTypes
<1>8. ConnTypes'
  BY <1>1, <1>4, <1>5, <1>6, <1>7 DEF ConnTypes
<1>9. Waiting(c)' = Waiting(c)
  <2>1. Written(c) \in Nat
    BY DEF Written
  <2>2. Waiting(c)' = inbox[c] + (tasks[c] - 1) + (Len(queue[c]) + 1) + Written(c)
    BY <1>3, <1>4, <1>5 DEF Waiting, Written, In
  <2>3. Waiting(c) = inbox[c] + tasks[c] + Len(queue[c]) + Written(c)
    BY <1>1, WaitingIs
  <2> DEFINE i == inbox[c]  t == tasks[c]  l == Len(queue[c])  w == Written(c)
             new == Waiting(c)'  old == Waiting(c)
  <2>4. /\ i \in Nat /\ t \in Nat /\ l \in Nat /\ w \in Nat
        /\ new = i + (t - 1) + (l + 1) + w /\ old = i + t + l + w
    BY <1>2, <2>1, <2>2, <2>3
  <2> HIDE DEF i, t, l, w, new, old
  <2>5. new = old
    BY <2>4
  <2>6. QED
    BY <2>5 DEF new, old
<1>10. Sound(c)'
  <2>1. peer[c] # "absent"
    BY <1>1, <1>2 DEF Sound
  <2>2. Keyed(c)' <=> Keyed(c)
    BY DEF Keyed, In
  <2>3. QED
    BY <1>1, <1>9, <2>1, <2>2 DEF Sound
<1>11. Counts'
  BY CountsSame
<1>12. QED
  BY <1>4, <1>5, <1>6, <1>8, <1>10, <1>11, OneMoves

LEMMA WorkerKeeps ==
  ASSUME ConnInv, NEW c \in Conns, Worker(c), scene' = scene
  PROVE  ConnInv'
<1>1. ConnTypes
  BY DEF ConnInv
<1>2. CASE processMessage(c)
  BY <1>2, WorkerTakes DEF processMessage, sockets, registry, selector, Replies
<1>3. ASSUME UNCHANGED <<peer, inbox, owed, tasks, queue, clients, channel, active, twice,
                         pc, current, doomed>>,
             key' = key \/ key' = [key EXCEPT ![c] = IF @ = "none" THEN @ ELSE "RW"],
             \/ adding' = adding
             \/ adding[c] > 0 /\ adding' = [adding EXCEPT ![c] = @ - 1],
             shutdown' \in [at : {"no", "sent", "asked", "stopping", "exit"},
                            who : Conns \union {Nobody}],
             Closing' <= Closing
      PROVE  ConnInv'
  <2>1. /\ key' \in [Conns -> Interests]
        /\ key'[c] = "none" \/ key[c] # "none"
        /\ \A d \in Conns \ {c} : key'[d] = key[d]
    BY <1>1, <1>3 DEF ConnTypes, Interests
  <2>2. /\ adding' \in [Conns -> Nat] /\ adding'[c] <= adding[c]
        /\ \A d \in Conns \ {c} : adding'[d] = adding[d]
    <3>1. adding[c] \in Nat /\ (adding[c] > 0 => adding[c] - 1 \in Nat)
      BY <1>1 DEF ConnTypes
    <3>2. QED
      <4>1. adding \in [Conns -> Nat]
        BY <1>1 DEF ConnTypes
      <4>2. CASE adding' = adding
        BY <3>1, <4>1, <4>2
      <4>3. CASE adding[c] > 0 /\ adding' = [adding EXCEPT ![c] = @ - 1]
        BY <3>1, <4>1, <4>3
      <4>4. QED
        BY <1>3, <4>2, <4>3
  <2>3. QED
    BY <1>3, <2>1, <2>2, CountsStay
<1>4. CASE sendMessage(c)
  <2>1. shutdown' = shutdown /\ Closing' <= Closing
    BY <1>4 DEF sendMessage, Closing
  <2>2. QED
    BY <1>1, <1>3, <1>4, <2>1 DEF sendMessage, sockets, selector, ConnTypes
<1>5. CASE handleShutdown(c)
  <2>1. UNCHANGED <<peer, inbox, owed, clients, channel, active, twice, adding, pc, current,
                    doomed>>
    BY <1>5 DEF handleShutdown, sockets, selector
  <2>2. CASE /\ shutdown.at = "no" /\ tasks[c] > 0 /\ Busy < Pool
             /\ tasks' = [tasks EXCEPT ![c] = @ - 1]
             /\ queue' = [queue EXCEPT ![c] = Append(@, "bye")]
             /\ shutdown' = [at |-> "sent", who |-> c] /\ key' = key
    BY <2>1, <2>2, WorkerTakes DEF Replies
  <2>3. CASE /\ shutdown.at \in {"sent", "asked"} /\ UNCHANGED <<tasks, queue>>
             /\ \/ shutdown' = [at |-> "asked", who |-> c]
                \/ shutdown' = [at |-> "stopping", who |-> c]
             /\ \/ key' = key
                \/ key' = [key EXCEPT ![c] = IF @ = "none" THEN @ ELSE "RW"]
    <3>1. Closing = 1 /\ Closing' = 1
      BY <2>3 DEF Closing
    <3>2. shutdown' \in [at : {"no", "sent", "asked", "stopping", "exit"},
                         who : Conns \union {Nobody}]
      BY <2>3
    <3>3. QED
      BY <1>3, <2>1, <2>3, <3>1, <3>2
  <2>4. QED
    BY <1>5, <2>2, <2>3 DEF handleShutdown
<1>6. QED
  BY <1>2, <1>4, <1>5 DEF Worker

LEMMA ClearKeeps ==
  ASSUME ConnInv, ClearWrite, scene' = scene
  PROVE  ConnInv'
<1>1. ConnTypes /\ pc = "clear" /\ current \in Conns
  BY DEF ConnInv, ClearWrite, ConnTypes, Phases
<1>2. /\ UNCHANGED <<peer, inbox, owed, tasks, queue, clients, channel, active, twice,
                     adding, doomed, shutdown>>
      /\ key' = [key EXCEPT ![current] = IF @ = "none" THEN @ ELSE "R"]
      /\ pc' = "batch"
  BY DEF ClearWrite, sockets
<1>3. /\ key' \in [Conns -> Interests]
      /\ key'[current] = "none" \/ key[current] # "none"
      /\ \A d \in Conns \ {current} : key'[d] = key[d]
  BY <1>1, <1>2 DEF ConnTypes, Interests
<1>4. adding'[current] <= adding[current] /\ Closing' <= Closing
  BY <1>1, <1>2 DEF ConnTypes, Closing
<1>5. QED
  BY <1>1, <1>2, <1>3, <1>4, CountsStay DEF ConnTypes

LEMMA ExitKeeps ==
  ASSUME ConnInv, Exit, scene' = scene
  PROVE  ConnInv'
<1>1. ConnTypes /\ \A c \in Conns : Sound(c)
  BY DEF ConnInv
<1>2. /\ shutdown' = [shutdown EXCEPT !.at = "exit"]
      /\ clients' = {} /\ active' = 0 /\ twice' = {}
      /\ channel' = [c \in Conns |-> "none"]
      /\ key' = [c \in Conns |-> "none"]
      /\ tasks' = [c \in Conns |-> 0] /\ adding' = [c \in Conns |-> 0]
      /\ pc' = "ended" /\ doomed' = [at |-> "no", who |-> Nobody]
      /\ UNCHANGED <<peer, inbox, owed, queue, silent>>
  BY DEF Exit, sockets
<1>3. shutdown' \in [at : {"no", "sent", "asked", "stopping", "exit"},
                     who : Conns \union {Nobody}]
  BY <1>1, <1>2 DEF ConnTypes
<1>4. ConnTypes'
  BY <1>1, <1>2, <1>3, SMTT(30) DEF ConnTypes, Interests, Channels, Idle, Phases
<1>5. ASSUME NEW c \in Conns PROVE Sound(c)'
  <2>1. /\ inbox[c] \in Nat /\ tasks[c] \in Nat /\ Len(queue[c]) \in Nat
        /\ owed[c] \in Nat /\ Written(c) \in {0, 1}
        /\ Waiting(c) = inbox[c] + tasks[c] + Len(queue[c]) + Written(c)
    BY <1>1, WaitingIs
  <2>2. /\ Waiting(c) <= owed[c]
        /\ scene = "polite" => owed[c] <= 1
        /\ peer[c] = "absent" => inbox[c] = 0 /\ owed[c] = 0 /\ queue[c] = <<>>
    BY <1>1 DEF Sound
  <2>3. Waiting(c)' = inbox[c] + 0 + Len(queue[c]) + 0 /\ tasks'[c] = 0
    BY <1>2 DEF Waiting
  <2>4. Waiting(c)' <= owed'[c]
    BY <1>2, <2>1, <2>2, <2>3
  <2>5. ~ Keyed(c)' /\ ~ In("write", c)'
    BY <1>2 DEF Keyed, In
  <2>6. QED
    BY <1>2, <2>2, <2>3, <2>4, <2>5 DEF Sound
<1>6. Counts'
  <2>1. {c \in Conns : channel'[c] = "failed"} = {}
    BY <1>2
  <2>2. Cardinality({c \in Conns : channel'[c] = "failed"}) = 0 /\ Cardinality({}) = 0
    BY <2>1, FS_EmptySet
  <2>3. Underway' = 0
    BY <1>2 DEF Underway
  <2>4. CountedConnections'
    BY <1>2, <2>2, <2>3 DEF CountedConnections
  <2>5. QED
    BY <1>2, <2>4 DEF Counts, Once
<1>7. Manned'
  <2>1. adding' \in [Conns -> Nat] /\ \A c \in Conns : adding'[c] = 0
    BY <1>2
  <2>2. SumOver(adding', Conns) = 0
    <3> DEFINE none == [c \in Conns |-> 0]
    <3>1. SumOver(none, Conns) = 0
      <4>1. none \in [Conns -> Nat] /\ \A c \in Conns : none[c] = 0
        OBVIOUS
      <4>2. IsFiniteSet(Conns)
        BY Constants
      <4> HIDE DEF none
      <4>3. QED
        BY <4>1, <4>2, SumZero
    <3>2. QED
      BY <1>2, <3>1
  <2>3. Closing' = 0 \/ Closing' = 1
    BY DEF Closing
  <2>4. SumOver(adding', Conns) + Closing' <= Pool
    <3>1. Pool \in Nat /\ Pool >= 1
      BY Constants
    <3>2. 0 + Closing' <= Pool
      BY ONLY <2>3, <3>1
    <3>3. QED
      BY ONLY <2>2, <3>2, Zenon
  <2>5. QED
    BY <2>4 DEF Manned
<1>8. QED
  BY <1>4, <1>5, <1>6, <1>7 DEF ConnInv

-----------------------------------------------------------------------------
(* The three kinds of clients take the steps of the server; the polite one    *)
(* does not send before its reply came, and what it sends arrives whole.     *)
LEMMA SceneSteps ==
  ASSUME ConnTypes, SceneNext
  PROVE  /\ scene' = scene
         /\ \/ \E c \in Conns :
                 \/ Send(c) /\ (scene = "polite" => owed[c] < 1)
                 \/ HangUp(c) \/ handleAccept(c)
                 \/ /\ handleRead(c)
                    /\ scene = "polite" =>
                         \/ key'[c] = "none" \/ UNCHANGED <<inbox, tasks>>
                         \/ tasks' = [tasks EXCEPT ![c] = @ + 1]
                 \/ handleWrite(c) \/ Worker(c) \/ heartbeatCheck(c) \/ Timeout(c)
            \/ Select \/ EndRound \/ Register \/ WriteOn \/ ClearWrite \/ Disconnect \/ Exit
<1>1. /\ scene' = scene
      /\ \/ scene = "ahead" /\ Next
         \/ scene = "pair" /\ Pair!Next
         \/ scene = "polite" /\ Polite!Next
  BY DEF SceneNext
<1>2. ASSUME NEW c \in Conns, owed[c] < 1 PROVE owed[c] < Window
  BY <1>2, Constants DEF ConnTypes
<1>3. Busy < 1 => Busy < Pool
  <2>1. Busy \in Int
    <3>1. adding \in [Conns -> Nat] /\ IsFiniteSet(Conns)
      BY Constants DEF ConnTypes
    <3>2. SumOver(adding, Conns) \in Nat
      BY <3>1, SumType
    <3>3. QED
      BY <3>2, BusyIsSum DEF Closing
  <2>2. QED
    BY <2>1, Constants
<1>4. CASE scene = "ahead" /\ Next
  BY <1>1, <1>4 DEF Next, Selector
<1>5. CASE scene = "pair" /\ Pair!Next
  <2>1. ASSUME NEW c \in Conns
        PROVE  /\ Pair!HangUp(c) <=> HangUp(c)
               /\ Pair!handleAccept(c) <=> handleAccept(c)
               /\ Pair!Timeout(c) <=> Timeout(c)
    BY DEF Pair!HangUp, HangUp, Pair!handleAccept, handleAccept, Pair!Timeout, Timeout,
           Pair!sockets, sockets, Pair!selector, selector, Pair!registry, registry
  <2>2. ASSUME NEW c \in Conns, Pair!Send(c) PROVE Send(c) /\ owed[c] < 1
    BY <1>2, <2>2 DEF Pair!Send, Send, Pair!selector, selector, Pair!registry, registry
  <2>3. /\ Pair!Select <=> Select
        /\ Pair!EndRound <=> EndRound
        /\ Pair!Register <=> Register
        /\ Pair!ClearWrite <=> ClearWrite
        /\ Pair!WriteOn <=> WriteOn
        /\ Pair!Exit <=> Exit
    BY DEF Pair!Select, Select, Pair!Ready, Ready, Pair!Readable, Readable,
           Pair!EndRound, EndRound, Pair!ClearWrite, ClearWrite, Pair!Exit, Exit,
           Pair!Register, Register, Pair!WriteOn, WriteOn, Pair!Cancel, Cancel,
           Pair!sockets, sockets, Pair!registry, registry, Pair!Nobody, Nobody
  <2>4. ASSUME NEW c \in Conns, Pair!handleRead(c)
        PROVE  /\ handleRead(c)
               /\ scene = "polite" =>
                    \/ key'[c] = "none" \/ UNCHANGED <<inbox, tasks>>
                    \/ tasks' = [tasks EXCEPT ![c] = @ + 1]
    BY <1>5, <2>4 DEF Pair!handleRead, handleRead, Pair!Selected, Selected,
         Pair!Cancel, Cancel, Pair!registry, registry
  <2>5. Pair!Busy = Busy
    BY DEF Pair!Busy, Busy, Pair!Cardinality, Cardinality
  <2>6. ASSUME NEW c \in Conns, Pair!handleWrite(c) PROVE handleWrite(c)
    BY <2>6 DEF Pair!handleWrite, handleWrite, Pair!Selected, Selected,
                Pair!Cancel, Cancel, Pair!sockets, sockets, Pair!registry, registry
  <2>7. ASSUME NEW c \in Conns, Pair!Worker(c) PROVE Worker(c)
    BY <1>3, <2>5, <2>7 DEF Pair!Worker, Worker, Pair!processMessage, processMessage,
         Pair!sendMessage, sendMessage, Pair!handleShutdown, handleShutdown,
         Pair!sockets, sockets, Pair!selector, selector, Pair!registry, registry
  <2>8. ASSUME NEW c, NEW step, NEW next, Pair!disconnectClient(c, step, next)
        PROVE  disconnectClient(c, step, next)
    BY <2>8, Constants DEF Pair!disconnectClient, disconnectClient
  <2>9. Pair!Disconnect => Disconnect
    BY <2>8 DEF Pair!Disconnect, Disconnect, Pair!sockets, sockets, Pair!Nobody, Nobody
  <2>10. ASSUME NEW c \in Conns, Pair!heartbeatCheck(c) PROVE heartbeatCheck(c)
    BY <2>8, <2>10 DEF Pair!heartbeatCheck, heartbeatCheck, Pair!sockets, sockets,
         Pair!registry, registry, Pair!selector, selector, Pair!Nobody, Nobody
  <2>11. QED
    BY <1>1, <1>5, <2>1, <2>2, <2>3, <2>4, <2>6, <2>7, <2>9, <2>10 DEF Pair!Next, Pair!Selector
<1>6. CASE scene = "polite" /\ Polite!Next
  <2>1. ASSUME NEW c \in Conns
        PROVE  /\ Polite!HangUp(c) <=> HangUp(c)
               /\ Polite!handleAccept(c) <=> handleAccept(c)
               /\ Polite!Timeout(c) <=> Timeout(c)
    BY DEF Polite!HangUp, HangUp, Polite!handleAccept, handleAccept, Polite!Timeout, Timeout,
           Polite!sockets, sockets, Polite!selector, selector, Polite!registry, registry
  <2>2. ASSUME NEW c \in Conns, Polite!Send(c) PROVE Send(c) /\ owed[c] < 1
    BY <1>2, <2>2 DEF Polite!Send, Send, Polite!selector, selector, Polite!registry, registry
  <2>3. /\ Polite!Select <=> Select
        /\ Polite!EndRound <=> EndRound
        /\ Polite!Register <=> Register
        /\ Polite!ClearWrite <=> ClearWrite
        /\ Polite!WriteOn <=> WriteOn
        /\ Polite!Exit <=> Exit
    BY DEF Polite!Select, Select, Polite!Ready, Ready, Polite!Readable, Readable,
           Polite!EndRound, EndRound, Polite!ClearWrite, ClearWrite, Polite!Exit, Exit,
           Polite!Register, Register, Polite!WriteOn, WriteOn, Polite!Cancel, Cancel,
           Polite!sockets, sockets, Polite!registry, registry, Polite!Nobody, Nobody
  <2>4. ASSUME NEW c \in Conns, Polite!handleRead(c)
        PROVE  /\ handleRead(c)
               /\ scene = "polite" =>
                    \/ key'[c] = "none" \/ UNCHANGED <<inbox, tasks>>
                    \/ tasks' = [tasks EXCEPT ![c] = @ + 1]
    <3>1. handleRead(c)
      BY <2>4 DEF Polite!handleRead, handleRead, Polite!Selected, Selected,
           Polite!Cancel, Cancel, Polite!registry, registry
    <3>2. \/ key' = [key EXCEPT ![c] = "none"] \/ UNCHANGED <<inbox, tasks>>
          \/ tasks' = [tasks EXCEPT ![c] = @ + 1]
      BY <2>4 DEF Polite!handleRead, Polite!Cancel
    <3>3. QED
      BY <3>1, <3>2 DEF ConnTypes
  <2>5. Polite!Busy = Busy
    BY DEF Polite!Busy, Busy, Polite!Cardinality, Cardinality
  <2>6. ASSUME NEW c \in Conns, Polite!handleWrite(c) PROVE handleWrite(c)
    BY <2>6 DEF Polite!handleWrite, handleWrite, Polite!Selected, Selected,
                Polite!Cancel, Cancel, Polite!sockets, sockets, Polite!registry, registry
  <2>7. ASSUME NEW c \in Conns, Polite!Worker(c) PROVE Worker(c)
    BY <1>3, <2>5, <2>7 DEF Polite!Worker, Worker, Polite!processMessage, processMessage,
         Polite!sendMessage, sendMessage, Polite!handleShutdown, handleShutdown,
         Polite!sockets, sockets, Polite!selector, selector, Polite!registry, registry
  <2>8. ASSUME NEW c, NEW step, NEW next, Polite!disconnectClient(c, step, next)
        PROVE  disconnectClient(c, step, next)
    BY <2>8, Constants DEF Polite!disconnectClient, disconnectClient
  <2>9. Polite!Disconnect => Disconnect
    BY <2>8 DEF Polite!Disconnect, Disconnect, Polite!sockets, sockets, Polite!Nobody, Nobody
  <2>10. ASSUME NEW c \in Conns, Polite!heartbeatCheck(c) PROVE heartbeatCheck(c)
    BY <2>8, <2>10 DEF Polite!heartbeatCheck, heartbeatCheck, Polite!sockets, sockets,
         Polite!registry, registry, Polite!selector, selector, Polite!Nobody, Nobody
  <2>11. QED
    BY <1>1, <1>6, <2>1, <2>2, <2>3, <2>4, <2>6, <2>7, <2>9, <2>10 DEF Polite!Next, Polite!Selector
<1>7. QED
  BY <1>1, <1>4, <1>5, <1>6

LEMMA ConnInvNext == ConnInv /\ [SceneNext]_sceneVars => ConnInv'
<1> SUFFICES ASSUME ConnInv, [SceneNext]_sceneVars PROVE ConnInv'
  OBVIOUS
<1>1. CASE UNCHANGED sceneVars
  BY <1>1, NothingMoves DEF sceneVars, vars, sockets, selector
<1>2. CASE SceneNext
  <2>1. ConnTypes
    BY DEF ConnInv
  <2>2. ASSUME NEW c \in Conns, Timeout(c), scene' = scene PROVE ConnInv'
    BY <2>2, NothingMoves DEF Timeout, sockets, selector
  <2>3. ASSUME Select \/ EndRound, scene' = scene PROVE ConnInv'
    BY <2>3, NothingMoves DEF Select, EndRound, sockets, Idle
  <2>4. QED
    BY <1>2, <2>1, <2>2, <2>3, SceneSteps, SendKeeps, HangUpKeeps, AcceptKeeps, RegisterKeeps,
       ReadKeeps, WriteKeeps, WriteOnKeeps, WorkerKeeps, HeartbeatKeeps, ClearKeeps,
       DisconnectKeeps, ExitKeeps
<1>3. QED
  BY <1>1, <1>2

(* activeConnections is the number of clients in the map, but for an accept or  *)
(* disconnections under way, one too many for each close that threw and one too *)
(* few for each client that handleRead and the heartbeat task both disconnect;  *)
(* a client is never sent a reply it did not ask for, and one that waits for    *)
(* its replies has one on the way for each request as long as it keeps its key. *)
THEOREM CountsStayRight == SceneSpec => []CountsRight
<1>1. ConnInv => CountsRight
  <2> SUFFICES ASSUME ConnInv PROVE CountsRight
    OBVIOUS
  <2>1. Busy <= Pool
    BY BusyIsSum DEF ConnInv, Manned
  <2>2. adding \in [Conns -> 0 .. Pool]
    <3>1. adding \in [Conns -> Nat]
      BY DEF ConnInv, ConnTypes
    <3>2. /\ SumOver(adding, Conns) \in Nat
          /\ \A c \in Conns : adding[c] <= SumOver(adding, Conns)
      BY <3>1, Constants, SumType
    <3>3. SumOver(adding, Conns) <= Pool
      BY <3>2, Constants DEF ConnInv, Manned, Closing
    <3>4. \A c \in Conns : adding[c] \in 0 .. Pool
      BY <3>1, <3>2, <3>3, Constants
    <3>5. QED
      BY <3>1, <3>4
  <2>3. inbox \in [Conns -> 0 .. Window] /\ tasks \in [Conns -> 0 .. Window]
    <3>1. ASSUME NEW c \in Conns
          PROVE  inbox[c] \in 0 .. Window /\ tasks[c] \in 0 .. Window
      <4>1. /\ inbox[c] \in Nat /\ tasks[c] \in Nat /\ Len(queue[c]) \in Nat
            /\ owed[c] \in 0 .. Window
        BY LenProperties DEF ConnInv, ConnTypes
      <4>2. /\ inbox[c] + tasks[c] + Len(queue[c]) + Written(c) <= owed[c]
            /\ Written(c) \in {0, 1}
        BY WaitingIs DEF ConnInv, Sound
      <4>3. QED
        BY <4>1, <4>2, Constants
    <3>2. QED
      BY <3>1 DEF ConnInv, ConnTypes
  <2>4. TypeOK
    BY <2>1, <2>2, <2>3 DEF ConnInv, ConnTypes, PeerStates, Interests, Replies,
                            Channels, Sound, TypeOK
  <2>5. QED
    BY <2>4 DEF ConnInv, Counts, Sound, Keyed, CountsRight, NoReplyTooMany,
                EveryRequestCounts
<1>2. QED
  BY ConnInvInit, ConnInvNext, <1>1, PTL DEF SceneSpec
=============================================================================
