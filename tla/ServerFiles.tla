----------------------------- MODULE ServerFiles -----------------------------
(***************************************************************************)
(* The files the system server reads, writes and deletes for its clients       *)
(* (src/System/Server.c): workers that work on one path at the same time, each  *)
(* call of the file system a step of its own.  An open file stays what it was   *)
(* when the path is deleted or made anew, so the path leads to one file after    *)
(* another.  0 is no file.                                                  *)
(***************************************************************************)
EXTENDS Integers, Sequences

CONSTANTS
  Workers,
  Data,           (* what clients write: not empty, since Message.decode       *)
                  (* leaves data null then, and bytes other than 0           *)
  MaxCalls        (* bound: requests                                       *)

(* Assumed of the constants; the modules that instantiate this one check it. *)
FilesAssumption ==
  /\ Data \subseteq Seq(Nat \ {0}) \ {<<>>}
  /\ MaxCalls \in Nat

VARIABLES
  path,           (* the file the path leads to                             *)
  made,           (* files made so far                                     *)
  content,        (* per file its bytes                                    *)
  at,             (* where each worker is in its handler                     *)
  file,           (* the file it has open                                  *)
  data,           (* the bytes it has read, or is writing                    *)
  pos,            (* how many of them it has written                        *)
  calls,
  alone,          (* history: no other request wrote or deleted meanwhile      *)
  before          (* history: the content of the path when its request began    *)

vars == <<path, made, content, at, file, data, pos, calls, alone, before>>

Missing == <<-1>>
At(f) == IF f = 0 THEN Missing ELSE content[f]
Goto(w, from, to) == at[w] = from /\ at' = [at EXCEPT ![w] = to]

Init ==
  /\ path = 0 /\ made = 0
  /\ content = [f \in 1 .. MaxCalls |-> <<>>]
  /\ at = [w \in Workers |-> "idle"]
  /\ file = [w \in Workers |-> 0]
  /\ data = [w \in Workers |-> <<>>]
  /\ pos = [w \in Workers |-> 0]
  /\ calls = 0
  /\ alone = [w \in Workers |-> TRUE]
  /\ before = [w \in Workers |-> Missing]

Changing == {"open", "write", "delete"}
request == <<calls, alone, before>>

(* A request comes to worker w, which goes to step l.                        *)
Begin(w, l) ==
  /\ Goto(w, "idle", l)
  /\ calls < MaxCalls
  /\ calls' = calls + 1
  /\ before' = [before EXCEPT ![w] = At(path)]
  /\ alone' = [v \in Workers |->
       IF v = w THEN \A u \in Workers \ {w} : at[u] \notin Changing
       ELSE alone[v] /\ l \notin Changing]
  /\ UNCHANGED <<path, made, content, file, pos>>

(* handleFileRead: a path that leads nowhere is an error, at the test or, when  *)
(* it was deleted since, where the stream is opened.                         *)
Exists(w) ==
  /\ Goto(w, "exists", IF path = 0 THEN "idle" ELSE "stream")
  /\ UNCHANGED <<path, made, content, file, data, pos, request>>

Stream(w) ==
  /\ Goto(w, "stream", IF path = 0 THEN "idle" ELSE "length")
  /\ file' = [file EXCEPT ![w] = path]
  /\ UNCHANGED <<path, made, content, data, pos, request>>

(* file.length() asks the path again: 0 when it leads nowhere by now.         *)
Length(w) ==
  /\ Goto(w, "length", "read")
  /\ data' = [data EXCEPT ![w] =
       [i \in 1 .. IF path = 0 THEN 0 ELSE Len(content[path]) |-> 0]]
  /\ UNCHANGED <<path, made, content, file, pos, request>>

(* fis.read: the bytes there are by now; the rest of the array stays 0.       *)
ReadBytes(w) ==
  /\ Goto(w, "read", "has read")
  /\ LET bytes == content[file[w]] IN
       data' = [data EXCEPT ![w] =
                  [i \in DOMAIN @ |-> IF i \in DOMAIN bytes THEN bytes[i] ELSE 0]]
  /\ UNCHANGED <<path, made, content, file, pos, request>>

(* Mutant: a file that exists is not cut off.                                *)
Open_uncut(w) ==
  /\ Goto(w, "open", "write")
  /\ made' = IF path = 0 THEN made + 1 ELSE made
  /\ path' = IF path = 0 THEN made' ELSE path
  /\ file' = [file EXCEPT ![w] = path']
  /\ pos' = [pos EXCEPT ![w] = 0]
  /\ UNCHANGED <<content, data, request>>

(* handleFileWrite: FileOutputStream makes the file, or cuts it off at 0.      *)
Open(w) ==
  /\ Goto(w, "open", "write")
  /\ made' = IF path = 0 THEN made + 1 ELSE made
  /\ path' = IF path = 0 THEN made' ELSE path
  /\ content' = [content EXCEPT ![path'] = <<>>]
  /\ file' = [file EXCEPT ![w] = path']
  /\ pos' = [pos EXCEPT ![w] = 0]
  /\ UNCHANGED <<data, request>>

(* One write of the loop inside fos.write: some of the bytes, at the position   *)
(* of this stream; a gap that another request left by cutting the file off is    *)
(* filled with 0.                                                          *)
WriteBytes(w) ==
  /\ at[w] = "write"
  /\ \E n \in pos[w] + 1 .. Len(data[w]) :
       /\ pos' = [pos EXCEPT ![w] = n]
       /\ content' = [content EXCEPT ![file[w]] =
            [i \in 1 .. (IF n > Len(@) THEN n ELSE Len(@)) |->
               IF i \in pos[w] + 1 .. n THEN data[w][i]
               ELSE IF i \in DOMAIN @ THEN @[i] ELSE 0]]
       /\ Goto(w, "write", IF n = Len(data[w]) THEN "has written" ELSE "write")
  /\ UNCHANGED <<path, made, file, data, request>>

(* An exception while opening or writing: an error, and what was done stays.    *)
WriteFails(w) ==
  /\ Goto(w, "open", "idle") \/ Goto(w, "write", "idle")
  /\ UNCHANGED <<path, made, content, file, data, pos, request>>

(* handleFileDelete: delete() may refuse, and the reply says so.              *)
handleFileDelete(w) ==
  /\ Goto(w, "delete", "idle")
  /\ path' \in {0, path}
  /\ UNCHANGED <<made, content, file, data, pos, request>>

(* The stream is closed and the reply queued.                               *)
Reply(w) ==
  /\ Goto(w, "has read", "idle") \/ Goto(w, "has written", "idle")
  /\ UNCHANGED <<path, made, content, file, data, pos, request>>

handleFileRead(w) ==
  \/ Begin(w, "exists") /\ data' = [data EXCEPT ![w] = <<>>]
  \/ Exists(w) \/ Stream(w) \/ Length(w) \/ ReadBytes(w)

handleFileWrite(w) ==
  \/ \E d \in Data : Begin(w, "open") /\ data' = [data EXCEPT ![w] = d]
  \/ Open(w) \/ WriteBytes(w) \/ WriteFails(w)

Next ==
  \E w \in Workers :
    \/ handleFileRead(w) \/ handleFileWrite(w) \/ Reply(w)
    \/ Begin(w, "delete") /\ UNCHANGED data
    \/ handleFileDelete(w)

Spec == Init /\ [][Next]_vars
-----------------------------------------------------------------------------
TypeOK ==
  /\ path \in 0 .. made /\ made <= calls
  /\ \A w \in Workers : file[w] \in 0 .. made /\ pos[w] \in Nat

(* A read or a write that no other request changed the path under gets, or       *)
(* leaves, exactly the bytes; and whatever overlaps, a byte that is read or in   *)
(* the file was written at its place by some client, or is 0.                 *)
FilesRight ==
  /\ \A w \in Workers :
       /\ at[w] = "has read" /\ alone[w] => data[w] = before[w]
       /\ at[w] = "has written" /\ alone[w] => At(path) = data[w]
  /\ LET Right(bytes) == \A i \in DOMAIN bytes :
           bytes[i] = 0 \/ \E d \in Data : i \in DOMAIN d /\ d[i] = bytes[i]
     IN /\ \A f \in DOMAIN content : Right(content[f])
        /\ \A w \in Workers : Right(data[w])
=============================================================================
