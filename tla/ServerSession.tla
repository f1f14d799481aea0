---------------------------- MODULE ServerSession ----------------------------
(***************************************************************************)
(* What the system server (src/System/Server.c) answers one client: workers     *)
(* that process the client's messages at the same time, the login, and the       *)
(* replies in the order of client.messageQueue.  What the handlers do besides    *)
(* is the matter of ServerFiles, ServerProcs and ServerServices; here their       *)
(* work succeeds or fails.                                                  *)
(*                                                                         *)
(* COMMAND, FILE, PROCESS and SERVICE, whose handlers begin and end alike, are   *)
(* one type here, "work".  The content of a message is                       *)
(*   "good"       what its handler needs;                                    *)
(*   "bad"        what the handler refuses: wrong credentials, no parameter, an  *)
(*                action it does not know;                                   *)
(*   "ill-typed"  a header that is cast to String and is none;                 *)
(*   "garbled"    bytes that Message.decode throws at.                        *)
(*                                                                         *)
(* The client's key is valid throughout.  On a cancelled one sendMessage queues    *)
(* the reply and throws (line 983), upon which handlers with a try queue an error  *)
(* behind it (lines 503-505, 540-542) and a shutdown stops short of its end; what   *)
(* is queued by then is sent to nobody, and the model ends before it.           *)
(***************************************************************************)
EXTENDS Naturals, Sequences

CONSTANTS
  Workers,
  MaxRequests     (* bound: messages of the client                         *)

(* Assumed of the constants; the modules that instantiate this one check it. *)
SessionAssumption == MaxRequests \in Nat

VARIABLES
  authenticated, permissions,                (* fields of the client         *)
  at,             (* where each worker is                                  *)
  mine,           (* the request it processes                               *)
  requests,       (* history: the requests, in the order they were taken up    *)
  replies,        (* history: client.messageQueue, whole                     *)
  running         (* the server's                                          *)

vars == <<authenticated, permissions, at, mine, requests, replies, running>>

Types == {"PING", "AUTH", "work", "SHUTDOWN", "other"}

(* Only the handlers of AUTH and "work" look at headers, and the type of a      *)
(* garbled message does not matter.                                         *)
Messages ==
  [type : Types, content : {"good"}] \union
  [type : {"AUTH", "work"}, content : {"bad", "ill-typed"}] \union
  {[type |-> "other", content |-> "garbled"]}

Requests == DOMAIN requests
Request(w) == requests[mine[w]]
Goto(w, from, to) == at[w] = from /\ at' = [at EXCEPT ![w] = to]

Init ==
  /\ authenticated = FALSE /\ permissions = 0
  /\ at = [w \in Workers |-> "idle"]
  /\ mine = [w \in Workers |-> 0]
  /\ requests = <<>> /\ replies = <<>>
  /\ running = TRUE

login == <<authenticated, permissions>>

(* A reply to the request of worker w; sendError and the handlers' own replies.  *)
Answer(w, status) == replies' = Append(replies, [request |-> mine[w], status |-> status])

(* The pool runs processMessage.  greeted: a good login was answered before.    *)
Take(w) ==
  /\ Goto(w, "idle", "decode")
  /\ Len(requests) < MaxRequests
  /\ \E m \in Messages :
       requests' = Append(requests, [type |-> m.type, content |-> m.content,
         greeted |-> \E k \in DOMAIN replies :
           replies[k].status = "ok" /\ requests[replies[k].request].type = "AUTH"])
  /\ mine' = [mine EXCEPT ![w] = Len(requests')]
  /\ UNCHANGED <<login, replies, running>>

(* processMessage: what cannot be decoded is logged and has no reply.         *)
Dispatch(w) ==
  /\ at[w] = "decode"
  /\ LET r == Request(w) IN
       Goto(w, "decode",
         CASE r.content = "garbled" -> "idle"
           [] r.content # "garbled" /\ r.type \in {"PING", "other"} -> "answer"
           [] r.type = "AUTH" -> "credentials"
           [] OTHER -> "checkAuth")
  /\ UNCHANGED <<login, mine, requests, replies, running>>

(* handlePing, and the default branch: an error.                             *)
handlePing(w) ==
  /\ Goto(w, "answer", "idle")
  /\ Answer(w, IF Request(w).type = "PING" THEN "ok" ELSE "error")
  /\ UNCHANGED <<login, mine, requests, running>>

(* handleAuth: a header that is no string throws out of the handler; bad         *)
(* credentials are an error, as none are.                                    *)
AuthRefused(w) ==
  /\ Goto(w, "credentials", "idle")
  /\ Request(w).content # "good"
  /\ IF Request(w).content = "bad" THEN Answer(w, "error") ELSE UNCHANGED replies
  /\ UNCHANGED <<login, mine, requests, running>>

AuthGiven(w) ==
  /\ Goto(w, "credentials", "permissions")
  /\ Request(w).content = "good"
  /\ authenticated' = TRUE
  /\ UNCHANGED <<permissions, mine, requests, replies, running>>

Permissions(w) ==
  /\ Goto(w, "permissions", "session")
  /\ permissions' = 7
  /\ UNCHANGED <<authenticated, mine, requests, replies, running>>

AuthAnswered(w) ==
  /\ Goto(w, "session", "idle")
  /\ Answer(w, "ok")
  /\ UNCHANGED <<login, mine, requests, running>>

(* checkAuth, which answers for a client that has not logged in.  handleShutdown *)
(* goes on to an error of its own.                                          *)
checkAuth(w) ==
  /\ at[w] = "checkAuth"
  /\ Goto(w, "checkAuth",
       IF Request(w).type = "SHUTDOWN"
         THEN IF authenticated THEN "rights" ELSE "refuse"
         ELSE IF authenticated THEN "work" ELSE "idle")
  /\ IF authenticated THEN UNCHANGED replies ELSE Answer(w, "denied")
  /\ UNCHANGED <<login, mine, requests, running>>

(* handleCommand, handleFile, handleProcess, handleService: the casts are before *)
(* the try of the handlers, so an ill-typed header has no reply; what the work     *)
(* throws, and an action that is missing, is an error.                        *)
Work(w) ==
  /\ Goto(w, "work", "idle")
  /\ CASE Request(w).content = "ill-typed" -> UNCHANGED replies
       [] Request(w).content = "bad" -> Answer(w, "error")
       [] OTHER -> Answer(w, "ok") \/ Answer(w, "error")
  /\ UNCHANGED <<login, mine, requests, running>>

(* handleShutdown: the second half of its guard, and its error.               *)
Rights(w) ==
  /\ Goto(w, "rights", IF permissions < 7 THEN "refuse" ELSE "stop services")
  /\ UNCHANGED <<login, mine, requests, replies, running>>

Refuse(w) ==
  /\ Goto(w, "refuse", "idle")
  /\ Answer(w, "error")
  /\ UNCHANGED <<login, mine, requests, running>>

(* The services are stopped; the reply is queued; running is set.             *)
Confirm(w) ==
  /\ Goto(w, "stop services", "stop")
  /\ Answer(w, "ok")
  /\ UNCHANGED <<login, mine, requests, running>>

Stop(w) ==
  /\ Goto(w, "stop", "sleep")
  /\ running' = FALSE
  /\ UNCHANGED <<login, mine, requests, replies>>

(* Mutant: the reply is queued before the client's fields are set.             *)
handleAuth_late(w) ==
  \/ AuthRefused(w)
  \/ /\ Goto(w, "credentials", "session") /\ Request(w).content = "good"
     /\ Answer(w, "ok")
     /\ UNCHANGED <<login, mine, requests, running>>
  \/ /\ Goto(w, "session", "idle")
     /\ authenticated' = TRUE /\ permissions' = 7
     /\ UNCHANGED <<mine, requests, replies, running>>

handleAuth(w) == AuthRefused(w) \/ AuthGiven(w) \/ Permissions(w) \/ AuthAnswered(w)
handleShutdown(w) == Rights(w) \/ Refuse(w) \/ Confirm(w) \/ Stop(w)

Next ==
  \E w \in Workers :
    \/ Take(w) \/ Dispatch(w) \/ handlePing(w) \/ handleAuth(w)
    \/ checkAuth(w) \/ Work(w) \/ handleShutdown(w)

Spec == Init /\ [][Next]_vars
-----------------------------------------------------------------------------
TypeOK ==
  /\ authenticated \in BOOLEAN /\ permissions \in {0, 7} /\ running \in BOOLEAN
  /\ mine \in [Workers -> 0 .. Len(requests)]

Done(r) == \A w \in Workers : mine[w] = r => at[w] \in {"idle", "sleep"}

(* The second reply is the error that follows a denied shutdown.              *)
SecondOf(j, k) ==
  /\ j < k
  /\ requests[replies[j].request].type = "SHUTDOWN"
  /\ replies[j].status = "denied" /\ replies[k].status = "error"

(* However a client's messages overlap: each has one reply, but for a denied     *)
(* shutdown, which has two, and for messages that cannot be read, which may have *)
(* none; nothing is done for a client that has not logged in; one whose login      *)
(* was answered is not denied, nor its shutdown refused; and the server only       *)
(* stops for a shutdown that was confirmed.                                  *)
RepliesRight ==
  /\ \A r \in Requests :
       Done(r) /\ requests[r].content \in {"good", "bad"} =>
         \E k \in DOMAIN replies : replies[k].request = r
  /\ \A j, k \in DOMAIN replies :
       j # k /\ replies[j].request = replies[k].request => SecondOf(j, k) \/ SecondOf(k, j)
  /\ \A k \in DOMAIN replies :
       LET r == requests[replies[k].request] IN
         /\ r.type \in {"work", "SHUTDOWN"} /\ replies[k].status = "ok" => authenticated
         /\ r.greeted => replies[k].status # "denied"
         /\ r.greeted /\ r.type = "SHUTDOWN" => replies[k].status = "ok"
  /\ ~running => \E k \in DOMAIN replies :
       replies[k].status = "ok" /\ requests[replies[k].request].type = "SHUTDOWN"
=============================================================================
