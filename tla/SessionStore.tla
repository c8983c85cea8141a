---------------------------- MODULE SessionStore ----------------------------
(***************************************************************************)
(* The file-based session store (core/session-store.ts): one <id>.json per *)
(* session, an index.json that lists them, and a promise chain that makes  *)
(* the writers take turns.                                                 *)
(*                                                                         *)
(* Every await of the code is a step of its own, so calls interleave here  *)
(* exactly where Node lets them interleave.  create, appendMessage,        *)
(* updateTitle and delete run under withWriteLock; updateSummary does the  *)
(* same reads and writes without it.  A write is writeFile(<path>.tmp)     *)
(* followed by rename; both paths are shared by all calls.                 *)
(*                                                                         *)
(* A call is one invocation of a method.  It also names what it writes:    *)
(* the message call c appends, the title it sets and the summary it stores *)
(* are all written c.                                                      *)
(*                                                                         *)
(* Left out: timestamps, the constant fields of a session (model, policy,  *)
(* owner, metadata) and the bytes of the JSON; writeFile is one step.      *)
(***************************************************************************)
EXTENDS Naturals, Sequences, FiniteSets

CONSTANTS Session,      \* the ids randomUUID() can return
          Call,         \* the method calls of a behaviour
          SummaryCall,  \* those of them that call updateSummary
          MaxFaults,    \* bound: I/O errors and process crashes in a behaviour
          None,         \* no file, no index entry, no value
          Gone          \* for the abstract map: a deleted session

ASSUME CallAssumption  == SummaryCall \subseteq Call
ASSUME FaultAssumption == MaxFaults \in Nat

VARIABLES
  file,       \* file[s]: what <s>.json holds
  tmp,        \* tmp[s]: what <s>.json.tmp holds
  index,      \* index[s]: the entry of s in index.json
  indexTmp,   \* what index.json.tmp holds
  queue,      \* the promise chain writeLock; its head holds the lock
  pc,         \* pc[c]: how far call c has come
  op,         \* op[c]: the method it calls
  target,     \* target[c]: the session it is about
  seen,       \* seen[c]: the session object it has in memory
  seenIndex,  \* seenIndex[c]: the index object it has in memory
  issued,     \* the ids create() has drawn
  unlinked,   \* history: the sessions whose file a delete removed
  faults      \* bounded by MaxFaults

fsVars == <<file, tmp, index, indexTmp>>
vars   == <<file, tmp, index, indexTmp, queue, pc, op, target, seen,
            seenIndex, issued, unlinked, faults>>

SessionFile == [msgs    : Seq(Call),
                title   : Call \cup {None},
                summary : Call \cup {None}]
IndexEntry  == [count   : Nat,
                title   : Call \cup {None},
                summary : Call \cup {None}]
Index       == [Session -> IndexEntry \cup {None}]

Locked  == {"create", "append", "title", "delete"}

ASSUME NoneAssumption ==
  /\ None \notin Session
  /\ None \notin Call
  /\ None \notin Locked \cup {"summary"}
  /\ None \notin SessionFile
  /\ None \notin IndexEntry
  /\ None \notin Index
  /\ Gone \notin SessionFile \cup {None}

Busy    == {"write", "rename", "unlink", "readIndex", "writeIndex", "renameIndex"}
Active  == Busy \cup {"queued"}
Settled == {"done", "failed", "lost"}

TypeOK ==
  /\ file \in [Session -> SessionFile \cup {None}]
  /\ tmp \in [Session -> SessionFile \cup {None}]
  /\ index \in Index
  /\ indexTmp \in Index \cup {None}
  /\ queue \in Seq(Call)
  /\ pc \in [Call -> Active \cup Settled \cup {"idle"}]
  /\ op \in [Call -> Locked \cup {"summary", None}]
  /\ target \in [Call -> Session \cup {None}]
  /\ seen \in [Call -> SessionFile \cup {None}]
  /\ seenIndex \in [Call -> Index \cup {None}]
  /\ issued \subseteq Session
  /\ unlinked \subseteq Session
  /\ faults \in 0..MaxFaults

Init ==
  /\ file = [s \in Session |-> None]
  /\ tmp = [s \in Session |-> None]
  /\ index = [s \in Session |-> None]
  /\ indexTmp = None
  /\ queue = <<>>
  /\ pc = [c \in Call |-> "idle"]
  /\ op = [c \in Call |-> None]
  /\ target = [c \in Call |-> None]
  /\ seen = [c \in Call |-> None]
  /\ seenIndex = [c \in Call |-> None]
  /\ issued = {}
  /\ unlinked = {}
  /\ faults = 0

-----------------------------------------------------------------------------
(* Calling a method, and leaving it. *)

\* randomUUID() never runs out of ids; Session is finite, so create() is called
\* at most once per id.
IdsLeft == Cardinality({c \in Call : op[c] = "create"}) < Cardinality(Session)

\* A locked method joins the promise chain at once; updateSummary does not.
Invoke(c) ==
  /\ pc[c] = "idle"
  /\ pc' = [pc EXCEPT ![c] = "queued"]
  /\ \/ /\ c \in SummaryCall
        /\ op' = [op EXCEPT ![c] = "summary"]
        /\ \E s \in Session : target' = [target EXCEPT ![c] = s]
        /\ UNCHANGED queue
     \/ /\ c \notin SummaryCall
        /\ \E o \in Locked, s \in Session :
             /\ o = "create" => IdsLeft
             /\ op' = [op EXCEPT ![c] = o]
             \* create() draws its id only when it runs
             /\ target' = [target EXCEPT ![c] = IF o = "create" THEN None ELSE s]
        /\ queue' = Append(queue, c)
  /\ UNCHANGED <<fsVars, seen, seenIndex, issued, unlinked, faults>>

\* Mutant: withWriteLock() that runs its argument at once.
MayRunUnlocked(c) == TRUE

\* Whose turn it is: the head of the chain, and any unlocked call.
MayRun(c) == op[c] = "summary" \/ (queue # <<>> /\ Head(queue) = c)

\* Mutant: a lock that is handed on only after success, then(fn) for then(fn, fn).
SettleOnSuccess(c, outcome) ==
  /\ pc' = [pc EXCEPT ![c] = outcome]
  /\ queue' = IF op[c] = "summary" \/ outcome = "failed" THEN queue ELSE Tail(queue)
  /\ seen' = [seen EXCEPT ![c] = None]
  /\ seenIndex' = [seenIndex EXCEPT ![c] = None]

\* The method returns or throws; either way the chain goes on to the next.
Settle(c, outcome) ==
  /\ pc' = [pc EXCEPT ![c] = outcome]
  /\ queue' = IF op[c] = "summary" THEN queue ELSE Tail(queue)
  /\ seen' = [seen EXCEPT ![c] = None]
  /\ seenIndex' = [seenIndex EXCEPT ![c] = None]

Goto(c, label) == pc' = [pc EXCEPT ![c] = label]

-----------------------------------------------------------------------------
(* The first await of each method. *)

\* create(): a fresh id and an empty session, in memory.
BeginCreate(c) ==
  /\ pc[c] = "queued" /\ op[c] = "create" /\ MayRun(c)
  /\ \E s \in Session \ issued, t \in {c, None} :
       /\ issued' = issued \cup {s}
       /\ target' = [target EXCEPT ![c] = s]
       /\ seen' = [seen EXCEPT ![c] =
                     [msgs |-> <<>>, title |-> t, summary |-> None]]
  /\ Goto(c, "write")
  /\ UNCHANGED <<fsVars, queue, op, seenIndex, unlinked, faults>>

\* Mutant: appendMessage() that works on get(id, false), without the messages.
EditedEmpty(c, f) ==
  IF op[c] = "append" THEN [f EXCEPT !.msgs = <<c>>]
  ELSE IF op[c] = "title" THEN [f EXCEPT !.title = c]
  ELSE [f EXCEPT !.summary = c]

\* What the object read by get() becomes before it is written back.
Edited(c, f) ==
  IF op[c] = "append" THEN [f EXCEPT !.msgs = Append(@, c)]
  ELSE IF op[c] = "title" THEN [f EXCEPT !.title = c]
  ELSE [f EXCEPT !.summary = c]

\* appendMessage(), updateTitle(), updateSummary(): get(), then the edit.
BeginUpdate(c) ==
  /\ pc[c] = "queued" /\ op[c] \in {"append", "title", "summary"} /\ MayRun(c)
  /\ \/ /\ file[target[c]] = None          \* Session not found
        /\ Settle(c, "failed")
     \/ /\ file[target[c]] # None
        /\ seen' = [seen EXCEPT ![c] = Edited(c, file[target[c]])]
        /\ Goto(c, "write")
        /\ UNCHANGED <<queue, seenIndex>>
  /\ UNCHANGED <<fsVars, op, target, issued, unlinked, faults>>

\* delete(): access().
BeginDelete(c) ==
  /\ pc[c] = "queued" /\ op[c] = "delete" /\ MayRun(c)
  /\ \/ /\ file[target[c]] = None          \* Session not found
        /\ Settle(c, "failed")
     \/ /\ file[target[c]] # None
        /\ Goto(c, "unlink")
        /\ UNCHANGED <<queue, seen, seenIndex>>
  /\ UNCHANGED <<fsVars, op, target, issued, unlinked, faults>>

-----------------------------------------------------------------------------
(* The session file. *)

\* writeSession(): writeFile(<id>.json.tmp).
WriteTmp(c) ==
  /\ pc[c] = "write"
  /\ tmp' = [tmp EXCEPT ![target[c]] = seen[c]]
  /\ Goto(c, "rename")
  /\ UNCHANGED <<file, index, indexTmp, queue, op, target, seen, seenIndex,
                 issued, unlinked, faults>>

\* writeSession(): rename() of whatever the shared temporary file now holds;
\* it fails when another call has renamed that file away.
RenameTmp(c) ==
  /\ pc[c] = "rename"
  /\ \/ /\ tmp[target[c]] = None           \* ENOENT
        /\ Settle(c, "failed")
        /\ UNCHANGED <<file, tmp>>
     \/ /\ tmp[target[c]] # None
        /\ file' = [file EXCEPT ![target[c]] = tmp[target[c]]]
        /\ tmp' = [tmp EXCEPT ![target[c]] = None]
        /\ Goto(c, "readIndex")
        /\ UNCHANGED <<queue, seen, seenIndex>>
  /\ UNCHANGED <<index, indexTmp, op, target, issued, unlinked, faults>>

\* delete(): unlink().
Unlink(c) ==
  /\ pc[c] = "unlink"
  /\ file' = [file EXCEPT ![target[c]] = None]
  /\ unlinked' = unlinked \cup {target[c]}
  /\ Goto(c, "readIndex")
  /\ UNCHANGED <<tmp, index, indexTmp, queue, op, target, seen, seenIndex,
                 issued, faults>>

-----------------------------------------------------------------------------
(* The index. *)

\* Mutant: the count taken before the message is pushed.
NewEntryEarly(c, e) ==
  CASE op[c] = "create"  -> [count |-> 0, title |-> seen[c].title, summary |-> None]
    [] op[c] = "append"  -> [e EXCEPT !.count = Len(seen[c].msgs) - 1]
    [] op[c] = "title"   -> [e EXCEPT !.title = c]
    [] op[c] = "summary" -> [e EXCEPT !.summary = c]
    [] op[c] = "delete"  -> None

\* The entry of the call's session after its own edit.
NewEntry(c, e) ==
  CASE op[c] = "create"  -> [count |-> 0, title |-> seen[c].title, summary |-> None]
    [] op[c] = "append"  -> [e EXCEPT !.count = Len(seen[c].msgs)]
    [] op[c] = "title"   -> [e EXCEPT !.title = c]
    [] op[c] = "summary" -> [e EXCEPT !.summary = c]
    [] op[c] = "delete"  -> None

\* readIndex(), then the edit.  updateIndex() does nothing more when the
\* session has no entry; addToIndex() and removeFromIndex() always write.
ReadIndex(c) ==
  LET s == target[c] IN
  /\ pc[c] = "readIndex"
  /\ \/ /\ op[c] \in {"append", "title", "summary"}
        /\ index[s] = None
        /\ Settle(c, "done")
     \/ /\ op[c] \in {"create", "delete"} \/ index[s] # None
        /\ seenIndex' = [seenIndex EXCEPT ![c] =
                           [index EXCEPT ![s] = NewEntry(c, index[s])]]
        /\ Goto(c, "writeIndex")
        /\ UNCHANGED <<queue, seen>>
  /\ UNCHANGED <<fsVars, op, target, issued, unlinked, faults>>

\* writeIndex(): writeFile(index.json.tmp).
WriteIndexTmp(c) ==
  /\ pc[c] = "writeIndex"
  /\ indexTmp' = seenIndex[c]
  /\ Goto(c, "renameIndex")
  /\ UNCHANGED <<file, tmp, index, queue, op, target, seen, seenIndex,
                 issued, unlinked, faults>>

\* Mutant: a rename that takes the temporary file for granted.
RenameIndexBlind(c) ==
  /\ pc[c] = "renameIndex"
  /\ index' = indexTmp
  /\ indexTmp' = None
  /\ Settle(c, "done")
  /\ UNCHANGED <<file, tmp, op, target, issued, unlinked, faults>>

\* writeIndex(): rename(); the last step of every method.
RenameIndex(c) ==
  /\ pc[c] = "renameIndex"
  /\ \/ /\ indexTmp = None                 \* ENOENT
        /\ Settle(c, "failed")
        /\ UNCHANGED <<index, indexTmp>>
     \/ /\ indexTmp # None
        /\ index' = indexTmp
        /\ indexTmp' = None
        /\ Settle(c, "done")
  /\ UNCHANGED <<file, tmp, op, target, issued, unlinked, faults>>

-----------------------------------------------------------------------------
(* What goes wrong around the store. *)

\* A file operation throws (disk full, permission): the method rejects where
\* it stands and undoes nothing.
IOError(c) ==
  /\ faults < MaxFaults
  /\ pc[c] \in Busy
  /\ faults' = faults + 1
  /\ Settle(c, "failed")
  /\ UNCHANGED <<fsVars, op, target, issued, unlinked>>

\* The daemon dies and is started again: files stay, memory goes.
Crash ==
  /\ faults < MaxFaults
  /\ \E c \in Call : pc[c] \in Active
  /\ faults' = faults + 1
  /\ pc' = [c \in Call |-> IF pc[c] \in Active THEN "lost" ELSE pc[c]]
  /\ queue' = <<>>
  /\ seen' = [c \in Call |-> None]
  /\ seenIndex' = [c \in Call |-> None]
  /\ UNCHANGED <<fsVars, op, target, issued, unlinked>>

Step(c) ==
  \/ BeginCreate(c) \/ BeginUpdate(c) \/ BeginDelete(c)
  \/ WriteTmp(c) \/ RenameTmp(c) \/ Unlink(c)
  \/ ReadIndex(c) \/ WriteIndexTmp(c) \/ RenameIndex(c)

Next == Crash \/ \E c \in Call : Invoke(c) \/ Step(c) \/ IOError(c)

Spec == Init /\ [][Next]_vars

\* Node completes every file operation it was asked for, so a call that can
\* take a step takes one.  Nothing forces a caller to make a call.
FairSpec == Spec /\ \A c \in Call : WF_vars(Step(c))

-----------------------------------------------------------------------------
(* Properties. *)

\* No updateSummary() was ever called for s; no summary at all.
Quiet(s)    == \A c \in Call : op[c] = "summary" => target[c] # s
NoSummaries == \A c \in Call : op[c] # "summary"

Holds(s, c) == /\ file[s] # None
               /\ \E i \in 1..Len(file[s].msgs) : file[s].msgs[i] = c

\* A message whose appendMessage() returned is in the session file until the
\* session is deleted, whatever failed, crashed or ran in between, as long as
\* no summary of that session is written.
AckedMessagesKept ==
  \A c \in Call :
    (op[c] = "append" /\ pc[c] = "done" /\ Quiet(target[c]))
      => (target[c] \in unlinked \/ Holds(target[c], c))

\* A session file that delete() removed does not come back, as long as no
\* summary of that session is written.
DeletedStaysDeleted ==
  \A s \in unlinked : Quiet(s) => file[s] = None

\* The conversation of a session that is never summarised only grows: no step
\* rewrites or drops what an earlier one stored.
Prolongs(f, g) == /\ Len(f.msgs) <= Len(g.msgs)
                 /\ \A i \in 1..Len(f.msgs) : g.msgs[i] = f.msgs[i]

HistoryAppendOnly ==
  [][\A s \in Session :
       (Quiet(s)' /\ file[s] # None /\ file'[s] # None)
         => Prolongs(file[s], file'[s])]_vars

\* The index entry a session file calls for.
Listing(f) ==
  IF f = None THEN None
  ELSE [count |-> Len(f.msgs), title |-> f.title, summary |-> f.summary]

\* Without summaries the index lists exactly the sessions there are, with the
\* right title and count: an entry is off only while a call about that session
\* is between its two renames, or after one was cut off there.
IndexAgrees ==
  NoSummaries =>
    \A s \in Session :
      (\A c \in Call : target[c] = s =>
         pc[c] \notin {"readIndex", "writeIndex", "renameIndex", "failed", "lost"})
      => index[s] = Listing(file[s])

\* Whatever fails in a locked call, the promise chain goes on: every call that
\* was made returns, throws or dies with the daemon.
EveryCallSettles ==
  \A c \in Call : (pc[c] = "queued") ~> (pc[c] \in Settled)

\* The store as the atomic map its callers see; an id is Gone once unlinked.
Map == INSTANCE SessionMap WITH
         Write    <- Call,
         Absent   <- None,
         sessions <- [s \in Session |-> IF s \in unlinked THEN Gone ELSE file[s]]

\* Calls that all take the lock implement the atomic map: each takes effect at
\* one instant, its rename or unlink, also across failures and crashes.
ImplementsMap == Map!MapSpec

-----------------------------------------------------------------------------
(* The inductive invariant behind these properties. *)

\* What a call has in hand, by how far it has come.
CallShape(c) ==
  /\ pc[c] = "idle" <=> op[c] = None
  /\ op[c] = "summary" => c \in SummaryCall
  /\ op[c] \in {"append", "title", "summary", "delete"} => target[c] \in Session
  /\ pc[c] \in Busy => target[c] \in issued
  /\ pc[c] \in {"write", "rename"} => op[c] # "delete"
  /\ pc[c] = "unlink" => op[c] = "delete"
  /\ (pc[c] \in {"write", "rename", "readIndex"} /\ op[c] # "delete")
       => seen[c] \in SessionFile
  /\ pc[c] \in {"writeIndex", "renameIndex"} => seenIndex[c] \in Index

\* The chain holds locked calls, each once; only its head has begun.
ChainInv ==
  /\ \A i \in 1..Len(queue) :
       /\ pc[queue[i]] \in Active
       /\ op[queue[i]] \in Locked
       /\ i > 1 => pc[queue[i]] = "queued"
  /\ \A i, j \in 1..Len(queue) : queue[i] = queue[j] => i = j
  /\ \A c \in Call :
       (pc[c] \in Busy /\ op[c] \in Locked) => (queue # <<>> /\ queue[1] = c)

IdsInv ==
  /\ unlinked \subseteq issued
  /\ \A s \in Session : file[s] # None => s \in issued

\* Nothing has touched the session since the call read it: what it is about to
\* store is its own edit of what the file still holds.
Current(c) ==
  /\ pc[c] \in {"write", "rename"} =>
       \/ /\ op[c] = "create"
          /\ file[target[c]] = None
          /\ target[c] \notin unlinked
          /\ seen[c].msgs = <<>>
          /\ seen[c].summary = None
       \/ /\ op[c] \in {"append", "title"}
          /\ file[target[c]] # None
          /\ seen[c] = Edited(c, file[target[c]])
  /\ pc[c] = "rename" => tmp[target[c]] = seen[c]
  /\ pc[c] = "unlink" => file[target[c]] # None
  /\ (op[c] = "append" /\ pc[c] \in {"readIndex", "writeIndex", "renameIndex", "done"})
       => (target[c] \in unlinked \/ Holds(target[c], c))

IInv ==
  /\ TypeOK
  /\ \A c \in Call : CallShape(c)
  /\ ChainInv
  /\ IdsInv
  /\ \A c \in Call : (op[c] # None /\ Quiet(target[c])) => Current(c)
  /\ DeletedStaysDeleted

Indexing == {"readIndex", "writeIndex", "renameIndex"}

\* No call about the session threw or died half way.
Unharmed(s) == \A c \in Call : target[c] = s => pc[c] \notin {"failed", "lost"}

\* What an index update in progress will leave behind: the entry the session
\* file calls for, and every other entry as it is.
Relists(c) ==
  /\ (pc[c] = "readIndex" /\ Unharmed(target[c])) =>
       /\ op[c] \in {"append", "title"} => index[target[c]] # None
       /\ NewEntry(c, index[target[c]]) = Listing(file[target[c]])
  /\ pc[c] \in {"writeIndex", "renameIndex"} =>
       /\ \A s \in Session \ {target[c]} : seenIndex[c][s] = index[s]
       /\ Unharmed(target[c]) => seenIndex[c][target[c]] = Listing(file[target[c]])
  /\ pc[c] = "renameIndex" => indexTmp = seenIndex[c]

IndexInv == NoSummaries => (IndexAgrees /\ \A c \in Call : Relists(c))

-----------------------------------------------------------------------------
(* What the documents say, which summaries break. *)

\* "Each session is <uuid>.json containing the full conversation history":
\* every acknowledged message of a session that was not deleted is in its file.
FullHistory ==
  \A c \in Call :
    (op[c] = "append" /\ pc[c] = "done")
      => (target[c] \in unlinked \/ Holds(target[c], c))

=============================================================================
