---------------------------- MODULE MCServerConn ----------------------------
(***************************************************************************)
(* The connections of the server with clients that behave in three ways:     *)
(*   "ahead"   one client that sends requests before their replies came,      *)
(*             over a network that cuts messages                            *)
(*   "pair"    two clients that wait for each reply, over such a network     *)
(*   "polite"  one client that waits for each reply, and whole messages      *)
(***************************************************************************)
EXTENDS ServerConn

CONSTANT First    (* the only client, and the first of a pair to connect   *)

VARIABLE scene

Pair == INSTANCE ServerConn WITH Window <- 1, Pool <- 1
Polite == INSTANCE ServerConn WITH Window <- 1, Rough <- FALSE

sceneVars == <<vars, scene>>

Alone == \A c \in Conns \ {First} : peer'[c] = "absent"

SceneInit == scene \in {"ahead", "pair", "polite"} /\ Init

SceneNext ==
  /\ scene' = scene
  /\ \/ scene = "ahead" /\ Next /\ Alone
     \/ /\ scene = "pair" /\ Pair!Next
        /\ (peer'[First] = "absent" => Alone) /\ shutdown' = shutdown
     \/ scene = "polite" /\ Polite!Next /\ Alone

Served(A) == scene = "polite" /\ A /\ scene' = scene

SceneSpec ==
  /\ SceneInit /\ [][SceneNext]_sceneVars
  /\ WF_sceneVars(Served(Polite!Selector))
  /\ \A c \in Conns :
       /\ WF_sceneVars(Served(Polite!Worker(c)))
       /\ WF_sceneVars(Served(Polite!heartbeatCheck(c)))
       /\ WF_sceneVars(Served(Polite!Timeout(c) /\ key[c] = "none"))

-----------------------------------------------------------------------------
(* stats.activeConnections is the number of clients in the map, but for what is  *)
(* under way, closes that threw and clients that both selector and heartbeat       *)
(* disconnected.  A client is never sent a reply it did not ask for; one that       *)
(* waits for its replies has one on the way for each request, as long as it keeps  *)
(* its key.                                                                  *)
CountsRight ==
  /\ TypeOK /\ CountedConnections
  /\ NoReplyTooMany /\ (scene = "polite" => EveryRequestCounts)

(* A client that waits for each reply gets it: the flags that the pool sets    *)
(* and the selector clears do not cross.                                    *)
ReplyArrives ==
  \A c \in Conns :
    scene = "polite" /\ owed[c] > 0 ~>
      owed[c] = 0 \/ key[c] = "none" \/ shutdown.at # "no"

(* A client whose key an exception has cancelled is taken out of the map.      *)
DeadRemoved ==
  \A c \in Conns :
    scene = "polite" /\ c \in clients /\ key[c] = "none" /\ pc # "register" ~>
      c \notin clients \/ shutdown.at # "no"
=============================================================================
