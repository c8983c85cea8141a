------------------------- MODULE SessionStoreProofs -------------------------
(***************************************************************************)
(* What holds of the session store for any number of sessions, calls and   *)
(* faults.  IInv ties what a call has in memory to what the files hold: a  *)
(* locked call that has read a session nobody summarises is the only one   *)
(* that writes it until it settles.                                        *)
(***************************************************************************)
EXTENDS SessionStore, TLAPS

-----------------------------------------------------------------------------
(* Types. *)

\* What get() returned is still a session file after the edit.
LEMMA EditedType ==
  ASSUME NEW c \in Call, NEW f \in SessionFile
  PROVE  Edited(c, f) \in SessionFile
<1>1. [f EXCEPT !.msgs = Append(@, c)] \in SessionFile
  <2>1. Append(f.msgs, c) \in Seq(Call)
    BY DEF SessionFile
  <2> QED BY <2>1 DEF SessionFile
<1>2. [f EXCEPT !.title = c] \in SessionFile /\ [f EXCEPT !.summary = c] \in SessionFile
  BY DEF SessionFile
<1> QED BY <1>1, <1>2 DEF Edited

\* The invariant without the parts about contents.
ShapeInv == TypeOK /\ (\A c \in Call : CallShape(c)) /\ ChainInv /\ IdsInv

\* The initial states have that shape.
LEMMA ShapeInit == Init => ShapeInv
<1> SUFFICES ASSUME Init PROVE ShapeInv
  OBVIOUS
<1>1. TypeOK
  BY FaultAssumption DEF Init, TypeOK, Index
<1>2. \A c \in Call : CallShape(c)
  BY NoneAssumption DEF Init, CallShape, Busy, Locked
<1>3. ChainInv
  BY DEF Init, ChainInv, Busy
<1>4. IdsInv
  BY DEF Init, IdsInv
<1>. QED BY <1>1, <1>2, <1>3, <1>4 DEF ShapeInv

\* Settle() keeps the variables it changes within their types.
LEMMA SettleType ==
  ASSUME TypeOK, NEW c \in Call, MayRun(c), NEW o \in Settled, Settle(c, o)
  PROVE  /\ queue' \in Seq(Call)
         /\ pc' \in [Call -> Active \cup Settled \cup {"idle"}]
         /\ seen' \in [Call -> SessionFile \cup {None}]
         /\ seenIndex' \in [Call -> Index \cup {None}]
<1>1. queue' \in Seq(Call)
  BY DEF TypeOK, Settle, MayRun
<1>2. pc' \in [Call -> Active \cup Settled \cup {"idle"}]
  BY DEF TypeOK, Settle
<1>3. /\ seen' \in [Call -> SessionFile \cup {None}]
      /\ seenIndex' \in [Call -> Index \cup {None}]
  BY DEF TypeOK, Settle
<1>. QED BY <1>1, <1>2, <1>3

-----------------------------------------------------------------------------
(* The promise chain. *)

\* A locked call that has begun holds the lock; an unlocked one needs none.
LEMMA BusyMayRun ==
  ASSUME TypeOK, ChainInv, NEW c \in Call, CallShape(c), pc[c] \in Busy
  PROVE  MayRun(c)
BY DEF TypeOK, ChainInv, CallShape, MayRun, Busy

\* A call that moves on keeps its place at the head of the promise chain.
LEMMA AdvanceChain ==
  ASSUME TypeOK, ChainInv, NEW c \in Call, pc[c] \in Active, MayRun(c),
         NEW l \in Busy, Goto(c, l), UNCHANGED <<queue, op>>
  PROVE  ChainInv'
<1>1. \A i \in 1..Len(queue) : i > 1 => queue[i] # c
  BY DEF TypeOK, ChainInv, MayRun, Locked
<1>2. \A i \in 1..Len(queue) :
         /\ queue[i] \in Call
         /\ pc'[queue[i]] \in Active
         /\ i > 1 => pc'[queue[i]] = "queued"
  BY <1>1 DEF TypeOK, ChainInv, Goto, Active
<1>3. \A d \in Call :
         (pc'[d] \in Busy /\ op[d] \in Locked) => (queue # <<>> /\ queue[1] = d)
  BY DEF TypeOK, ChainInv, Goto, MayRun, Locked
<1>. QED BY <1>2, <1>3 DEF ChainInv, TypeOK

\* A call that settles hands the chain to the next one.
LEMMA SettleChain ==
  ASSUME TypeOK, ChainInv, NEW c \in Call, pc[c] \in Active, MayRun(c),
         NEW o \in Settled, Settle(c, o), UNCHANGED op
  PROVE  ChainInv'
<1>0. o \notin Active
  BY DEF Settled, Active, Busy
<1>1. CASE op[c] = "summary"
  <2>1. queue' = queue /\ \A i \in 1..Len(queue) : queue[i] # c
    BY <1>1 DEF ChainInv, Settle, Locked
  <2>2. \A d \in Call : d # c => pc'[d] = pc[d]
    BY DEF TypeOK, Settle
  <2>3. \A i \in 1..Len(queue) : pc'[queue[i]] = pc[queue[i]]
    BY <2>1, <2>2 DEF TypeOK
  <2>4. \A d \in Call : op[d] \in Locked => pc'[d] = pc[d]
    BY <1>1, <2>2 DEF Locked
  <2>. QED BY <2>1, <2>3, <2>4 DEF ChainInv
<1>2. CASE op[c] # "summary"
  <2>1. queue # <<>> /\ queue[1] = c /\ queue' = Tail(queue)
    BY <1>2 DEF TypeOK, MayRun, Settle
  <2>2. /\ Len(queue') = Len(queue) - 1
        /\ \A i \in 1..Len(queue') : queue'[i] = queue[i + 1]
    BY <2>1 DEF TypeOK
  <2>3. \A i \in 1..Len(queue') : /\ queue[i + 1] # c
                                  /\ pc[queue[i + 1]] = "queued"
                                  /\ queue[i + 1] \in Call
                                  /\ op[queue[i + 1]] \in Locked
    BY <2>1, <2>2 DEF TypeOK, ChainInv
  <2>4. \A i \in 1..Len(queue') : pc'[queue'[i]] = "queued"
    BY <2>2, <2>3 DEF TypeOK, Settle
  <2>5. \A d \in Call : op[d] \in Locked => pc'[d] \notin Busy
    BY <1>0, <2>1 DEF TypeOK, ChainInv, Settle, Active
  <2>6. \A i \in 1..Len(queue') :
           pc'[queue'[i]] = "queued" /\ op[queue'[i]] \in Locked
    BY <2>2, <2>3, <2>4
  <2>7. \A i, j \in 1..Len(queue') : queue'[i] = queue'[j] => i = j
    <3> SUFFICES ASSUME NEW i \in 1..Len(queue'), NEW j \in 1..Len(queue'),
                        queue'[i] = queue'[j]
                 PROVE  i = j
      OBVIOUS
    <3>1. i + 1 \in 1..Len(queue) /\ j + 1 \in 1..Len(queue)
      BY <2>2 DEF TypeOK
    <3>2. queue[i + 1] = queue[j + 1]
      BY <2>2
    <3>3. i + 1 = j + 1
      BY <3>1, <3>2 DEF ChainInv
    <3>. QED BY <3>3
  <2>. QED BY <2>5, <2>6, <2>7 DEF ChainInv, Active
<1>. QED BY <1>1, <1>2

-----------------------------------------------------------------------------
(* The shape is preserved: one lemma per kind of step. *)

\* Calling a method: the call joins the chain.
LEMMA ShapeInvoke ==
  ASSUME ShapeInv, NEW c \in Call, Invoke(c)
  PROVE  ShapeInv'
<1> USE DEF ShapeInv
<1>1. TypeOK'
  <2>1. op' \in [Call -> Locked \cup {"summary", None}]
    BY DEF TypeOK, Invoke
  <2>2. target' \in [Call -> Session \cup {None}]
    BY DEF TypeOK, Invoke
  <2>3. queue' = queue \/ queue' = Append(queue, c)
    BY DEF Invoke
  <2>4. queue' \in Seq(Call)
    BY <2>3 DEF TypeOK
  <2>5. pc' \in [Call -> Active \cup Settled \cup {"idle"}]
    BY DEF TypeOK, Invoke, Active
  <2>. QED BY <2>1, <2>2, <2>4, <2>5 DEF TypeOK, Invoke, fsVars
<1>2. ASSUME NEW d \in Call PROVE CallShape(d)'
  <2>1. CASE d = c
    BY <2>1, NoneAssumption DEF TypeOK, CallShape, Invoke, Locked, Busy
  <2>2. CASE d # c
    BY <2>2 DEF TypeOK, CallShape, Invoke
  <2>. QED BY <2>1, <2>2
<1>3. ChainInv'
  <2>1. CASE c \in SummaryCall
    <3>1. /\ queue' = queue
          /\ \A i \in 1..Len(queue) : queue[i] \in Call /\ queue[i] # c
      BY <2>1, CallAssumption DEF Invoke, ChainInv, TypeOK, Active, Busy
    <3>2. \A d \in Call : d # c => pc'[d] = pc[d] /\ op'[d] = op[d]
      BY DEF Invoke, TypeOK
    <3>3. pc'[c] \notin Busy
      BY DEF Invoke, TypeOK, Busy
    <3>. QED BY <3>1, <3>2, <3>3 DEF ChainInv
  <2>2. CASE c \notin SummaryCall
    <3>1. /\ queue' = Append(queue, c)
          /\ op'[c] \in Locked
          /\ pc'[c] = "queued"
      BY <2>2 DEF Invoke, TypeOK
    <3>2. \A d \in Call : d # c => pc'[d] = pc[d] /\ op'[d] = op[d]
      BY DEF Invoke, TypeOK
    <3>3. \A i \in 1..Len(queue) : queue[i] \in Call /\ queue[i] # c
      <4>1. \A i \in 1..Len(queue) : queue[i] \in Call
        BY DEF TypeOK
      <4>2. "idle" \notin Active /\ pc[c] = "idle"
        BY DEF Active, Busy, Invoke
      <4>. QED BY <4>1, <4>2 DEF ChainInv
    <3>4. /\ Len(queue') = Len(queue) + 1
          /\ queue'[Len(queue) + 1] = c
          /\ \A i \in 1..Len(queue) : queue'[i] = queue[i]
      BY <3>1 DEF TypeOK
    <3>5. \A i \in 1..Len(queue') :
             /\ pc'[queue'[i]] \in Active
             /\ op'[queue'[i]] \in Locked
             /\ i > 1 => pc'[queue'[i]] = "queued"
      <4> SUFFICES ASSUME NEW i \in 1..Len(queue')
                   PROVE  /\ pc'[queue'[i]] \in Active
                          /\ op'[queue'[i]] \in Locked
                          /\ i > 1 => pc'[queue'[i]] = "queued"
        OBVIOUS
      <4>1. CASE i = Len(queue) + 1
        BY <3>1, <3>4, <4>1 DEF Active
      <4>2. CASE i \in 1..Len(queue)
        BY <3>2, <3>3, <3>4, <4>2 DEF ChainInv
      <4>. QED BY <3>4, <4>1, <4>2 DEF TypeOK
    <3>6. \A i, j \in 1..Len(queue') : queue'[i] = queue'[j] => i = j
      <4> SUFFICES ASSUME NEW i \in 1..Len(queue'), NEW j \in 1..Len(queue'),
                          queue'[i] = queue'[j]
                   PROVE  i = j
        OBVIOUS
      <4>1. /\ i = Len(queue) + 1 \/ i \in 1..Len(queue)
            /\ j = Len(queue) + 1 \/ j \in 1..Len(queue)
        BY <3>4 DEF TypeOK
      <4>. QED BY <3>3, <3>4, <4>1 DEF ChainInv
    <3>7. ASSUME NEW d \in Call, pc'[d] \in Busy, op'[d] \in Locked
          PROVE  queue' # <<>> /\ queue'[1] = d
      <4>1. d # c /\ queue # <<>> /\ queue[1] = d
        BY <3>1, <3>2, <3>7 DEF ChainInv, Busy
      <4>2. 1 \in 1..Len(queue)
        BY <4>1 DEF TypeOK
      <4>. QED BY <3>4, <4>1, <4>2 DEF TypeOK
    <3>. QED BY <3>5, <3>6, <3>7 DEF ChainInv
  <2>. QED BY <2>1, <2>2
<1>4. IdsInv'
  BY DEF IdsInv, Invoke, fsVars
<1>. QED BY <1>1, <1>2, <1>3, <1>4

\* create() drawing its id.
LEMMA ShapeBeginCreate ==
  ASSUME ShapeInv, NEW c \in Call, BeginCreate(c)
  PROVE  ShapeInv'
<1> USE DEF ShapeInv
<1>0. PICK s \in Session \ issued, t \in {c, None} :
        /\ issued' = issued \cup {s}
        /\ target' = [target EXCEPT ![c] = s]
        /\ seen' = [seen EXCEPT ![c] =
                      [msgs |-> <<>>, title |-> t, summary |-> None]]
  BY DEF BeginCreate
<1>1. [msgs |-> <<>>, title |-> t, summary |-> None] \in SessionFile
  BY DEF SessionFile
<1>2. TypeOK'
  BY <1>0, <1>1 DEF TypeOK, BeginCreate, fsVars, Goto, Active, Busy
<1>3. ASSUME NEW d \in Call PROVE CallShape(d)'
  <2>1. CASE d = c
    BY <1>0, <1>1, <2>1, NoneAssumption DEF TypeOK, CallShape, BeginCreate, Goto, Locked, Busy
  <2>2. CASE d # c
    BY <1>0, <2>2 DEF TypeOK, CallShape, BeginCreate, Goto
  <2>. QED BY <2>1, <2>2
<1>4. ChainInv'
  <2>. "write" \in Busy /\ pc[c] \in Active
    BY DEF Busy, Active, BeginCreate
  <2>. QED BY AdvanceChain DEF BeginCreate
<1>5. IdsInv'
  BY <1>0 DEF IdsInv, BeginCreate, fsVars
<1>. QED BY <1>2, <1>3, <1>4, <1>5

\* Any step that only settles a call.
LEMMA ShapeSettle ==
  ASSUME ShapeInv, NEW c \in Call, pc[c] \in Active, MayRun(c),
         NEW o \in Settled, Settle(c, o),
         UNCHANGED <<op, target, issued>>
  PROVE  ChainInv' /\ \A d \in Call : CallShape(d)'
<1> USE DEF ShapeInv
<1>1. ChainInv'
  BY SettleChain
<1>2. ASSUME NEW d \in Call PROVE CallShape(d)'
  <2>1. CASE d = c
    BY <2>1 DEF TypeOK, CallShape, Settle, Settled, Active, Busy
  <2>2. CASE d # c
    BY <2>2 DEF TypeOK, CallShape, Settle
  <2>. QED BY <2>1, <2>2
<1>. QED BY <1>1, <1>2

\* Any step that only moves a call on.
LEMMA ShapeAdvance ==
  ASSUME ShapeInv, NEW c \in Call, pc[c] \in Active, MayRun(c),
         NEW l \in Busy, Goto(c, l),
         UNCHANGED <<queue, op, target, issued>>,
         \A d \in Call \ {c} : seen'[d] = seen[d] /\ seenIndex'[d] = seenIndex[d],
         target[c] \in issued,
         l \in {"write", "rename"} => op[c] # "delete",
         l = "unlink" => op[c] = "delete",
         (l \in {"write", "rename", "readIndex"} /\ op[c] # "delete")
           => seen'[c] \in SessionFile,
         l \in {"writeIndex", "renameIndex"} => seenIndex'[c] \in Index
  PROVE  ChainInv' /\ \A d \in Call : CallShape(d)'
<1> USE DEF ShapeInv
<1>1. ChainInv'
  BY AdvanceChain
<1>2. ASSUME NEW d \in Call PROVE CallShape(d)'
  <2>1. CASE d = c
    BY <2>1 DEF TypeOK, CallShape, Goto, Active, Busy
  <2>2. CASE d # c
    BY <2>2 DEF TypeOK, CallShape, Goto
  <2>. QED BY <2>1, <2>2
<1>. QED BY <1>1, <1>2

\* The first step of an update and of a delete.
LEMMA ShapeBegin ==
  ASSUME ShapeInv, NEW c \in Call, BeginUpdate(c) \/ BeginDelete(c)
  PROVE  ShapeInv'
<1> USE DEF ShapeInv
<1>0. /\ pc[c] = "queued" /\ pc[c] \in Active /\ MayRun(c)
      /\ op[c] \in {"append", "title", "summary", "delete"}
      /\ target[c] \in Session
      /\ UNCHANGED <<file, tmp, index, indexTmp, op, target, issued, unlinked, faults>>
  BY DEF BeginUpdate, BeginDelete, Active, CallShape, fsVars
<1>1. CASE Settle(c, "failed")
  <2>0. "failed" \in Settled
    BY DEF Settled
  <2>1. TypeOK'
    BY <1>0, <1>1, <2>0, SettleType DEF TypeOK
  <2>2. ChainInv' /\ \A d \in Call : CallShape(d)'
    BY <1>0, <1>1, <2>0, ShapeSettle
  <2>. QED BY <1>0, <2>1, <2>2 DEF IdsInv
<1>2. CASE ~Settle(c, "failed") /\ BeginUpdate(c)
  <2>1. /\ file[target[c]] \in SessionFile
        /\ target[c] \in issued
        /\ seen' = [seen EXCEPT ![c] = Edited(c, file[target[c]])]
        /\ Goto(c, "write")
        /\ UNCHANGED <<queue, seenIndex>>
        /\ op[c] # "delete"
    BY <1>0, <1>2 DEF BeginUpdate, TypeOK, IdsInv
  <2>2. seen' \in [Call -> SessionFile \cup {None}] /\ seen'[c] \in SessionFile
    BY <2>1, EditedType DEF TypeOK
  <2>3. TypeOK'
    BY <1>0, <2>1, <2>2 DEF TypeOK, Goto, Active, Busy
  <2>4. \A d \in Call \ {c} : seen'[d] = seen[d] /\ seenIndex'[d] = seenIndex[d]
    BY <2>1 DEF TypeOK
  <2>5. ChainInv' /\ \A d \in Call : CallShape(d)'
    <3>. "write" \in Busy
      BY DEF Busy
    <3>. QED BY <1>0, <2>1, <2>2, <2>4, ShapeAdvance
  <2>. QED BY <1>0, <2>3, <2>5 DEF IdsInv
<1>3. CASE ~Settle(c, "failed") /\ BeginDelete(c)
  <2>1. /\ target[c] \in issued
        /\ Goto(c, "unlink")
        /\ UNCHANGED <<queue, seen, seenIndex>>
        /\ op[c] = "delete"
    BY <1>0, <1>3 DEF BeginDelete, TypeOK, IdsInv
  <2>2. TypeOK'
    BY <1>0, <2>1 DEF TypeOK, Goto, Active, Busy
  <2>3. ChainInv' /\ \A d \in Call : CallShape(d)'
    <3>. "unlink" \in Busy
      BY DEF Busy
    <3>. QED BY <1>0, <2>1, ShapeAdvance
  <2>. QED BY <1>0, <2>2, <2>3 DEF IdsInv
<1>. QED BY <1>1, <1>2, <1>3

\* The steps on the session file.
LEMMA ShapeFile ==
  ASSUME ShapeInv, NEW c \in Call, WriteTmp(c) \/ RenameTmp(c) \/ Unlink(c)
  PROVE  ShapeInv'
<1> USE DEF ShapeInv
<1>0. /\ pc[c] \in Busy /\ pc[c] \in Active /\ MayRun(c)
      /\ target[c] \in issued /\ target[c] \in Session
      /\ UNCHANGED <<index, indexTmp, op, target, issued, faults>>
  <2>1. pc[c] \in Busy
    BY DEF WriteTmp, RenameTmp, Unlink, Busy
  <2>2. target[c] \in issued /\ target[c] \in Session
    BY <2>1 DEF CallShape, TypeOK
  <2>. QED BY <2>1, <2>2, BusyMayRun DEF WriteTmp, RenameTmp, Unlink, Active
<1>1. CASE WriteTmp(c)
  <2>1. /\ Goto(c, "rename")
        /\ UNCHANGED <<queue, seen, seenIndex, file, unlinked>>
        /\ op[c] # "delete" /\ seen[c] \in SessionFile
    BY <1>1 DEF WriteTmp, CallShape
  <2>2. TypeOK'
    BY <1>0, <1>1, <2>1 DEF TypeOK, WriteTmp, Goto, Active, Busy
  <2>3. ChainInv' /\ \A d \in Call : CallShape(d)'
    <3>. "rename" \in Busy
      BY DEF Busy
    <3>. QED BY <1>0, <2>1, ShapeAdvance
  <2>. QED BY <1>0, <2>1, <2>2, <2>3 DEF IdsInv
<1>2. CASE RenameTmp(c) /\ Settle(c, "failed")
  <2>0. "failed" \in Settled
    BY DEF Settled
  <2>1. UNCHANGED <<file, tmp, unlinked>>
    <3>1. pc'[c] = "failed"
      BY <1>2 DEF Settle, TypeOK
    <3>. QED BY <1>2, <3>1 DEF RenameTmp, Goto, TypeOK
  <2>2. TypeOK'
    BY <1>0, <1>2, <2>0, <2>1, SettleType DEF TypeOK
  <2>3. ChainInv' /\ \A d \in Call : CallShape(d)'
    BY <1>0, <1>2, <2>0, ShapeSettle
  <2>. QED BY <1>0, <2>1, <2>2, <2>3 DEF IdsInv
<1>3. CASE RenameTmp(c) /\ ~Settle(c, "failed")
  <2>1. /\ Goto(c, "readIndex")
        /\ file' = [file EXCEPT ![target[c]] = tmp[target[c]]]
        /\ tmp' = [tmp EXCEPT ![target[c]] = None]
        /\ UNCHANGED <<queue, seen, seenIndex, unlinked>>
        /\ op[c] # "delete" /\ seen[c] \in SessionFile
    BY <1>3 DEF RenameTmp, CallShape
  <2>2. TypeOK'
    BY <1>0, <2>1 DEF TypeOK, Goto, Active, Busy
  <2>3. ChainInv' /\ \A d \in Call : CallShape(d)'
    <3>. "readIndex" \in Busy
      BY DEF Busy
    <3>. QED BY <1>0, <2>1, ShapeAdvance
  <2>4. IdsInv'
    BY <1>0, <2>1 DEF IdsInv, TypeOK
  <2>. QED BY <2>2, <2>3, <2>4
<1>4. CASE Unlink(c)
  <2>1. /\ Goto(c, "readIndex")
        /\ UNCHANGED <<queue, seen, seenIndex, tmp>>
        /\ op[c] = "delete"
    BY <1>4 DEF Unlink, CallShape
  <2>2. TypeOK'
    BY <1>0, <1>4, <2>1 DEF TypeOK, Unlink, Goto, Active, Busy
  <2>3. ChainInv' /\ \A d \in Call : CallShape(d)'
    <3>. "readIndex" \in Busy
      BY DEF Busy
    <3>. QED BY <1>0, <2>1, ShapeAdvance
  <2>4. IdsInv'
    BY <1>0, <1>4 DEF IdsInv, TypeOK, Unlink
  <2>. QED BY <2>2, <2>3, <2>4
<1>. QED BY <1>1, <1>2, <1>3, <1>4

\* The entry a call computes for its session is an index entry.
LEMMA NewEntryType ==
  ASSUME ShapeInv, NEW c \in Call, pc[c] = "readIndex", target[c] \in Session,
         op[c] \in {"create", "delete"} \/ index[target[c]] # None
  PROVE  NewEntry(c, index[target[c]]) \in IndexEntry \cup {None}
<1>1. op[c] # "delete" => seen[c] \in SessionFile
  BY DEF ShapeInv, CallShape
<1>2. index[target[c]] \in IndexEntry \cup {None}
  BY DEF ShapeInv, TypeOK, Index
<1>3. op[c] \in Locked \cup {"summary"}
  BY DEF ShapeInv, CallShape, TypeOK
<1>4. CASE op[c] = "create"
  BY <1>1, <1>4 DEF NewEntry, SessionFile, IndexEntry
<1>5. CASE op[c] = "append"
  <2>1. Len(seen[c].msgs) \in Nat
    BY <1>1, <1>5 DEF SessionFile
  <2>2. NewEntry(c, index[target[c]])
          = [index[target[c]] EXCEPT !.count = Len(seen[c].msgs)]
    BY <1>5 DEF NewEntry
  <2>. QED BY <1>2, <1>5, <2>1, <2>2 DEF IndexEntry
<1>6. CASE op[c] = "title"
  <2>1. NewEntry(c, index[target[c]]) = [index[target[c]] EXCEPT !.title = c]
    BY <1>6 DEF NewEntry
  <2>. QED BY <1>2, <1>6, <2>1 DEF IndexEntry
<1>7. CASE op[c] = "summary"
  <2>1. NewEntry(c, index[target[c]]) = [index[target[c]] EXCEPT !.summary = c]
    BY <1>7 DEF NewEntry
  <2>. QED BY <1>2, <1>7, <2>1 DEF IndexEntry
<1>8. CASE op[c] = "delete"
  BY <1>8 DEF NewEntry
<1>. QED BY <1>3, <1>4, <1>5, <1>6, <1>7, <1>8 DEF Locked

\* The steps on the index.
LEMMA ShapeIndex ==
  ASSUME ShapeInv, NEW c \in Call,
         ReadIndex(c) \/ WriteIndexTmp(c) \/ RenameIndex(c)
  PROVE  ShapeInv'
<1> USE DEF ShapeInv
<1>0. /\ pc[c] \in Busy /\ pc[c] \in Active /\ MayRun(c)
      /\ target[c] \in issued /\ target[c] \in Session
      /\ UNCHANGED <<file, tmp, op, target, issued, unlinked, faults>>
      /\ IdsInv'
  <2>1. pc[c] \in Busy
    BY DEF ReadIndex, WriteIndexTmp, RenameIndex, Busy
  <2>2. target[c] \in issued /\ target[c] \in Session
    BY <2>1 DEF CallShape, TypeOK
  <2>3. UNCHANGED <<file, tmp, op, target, issued, unlinked, faults>>
    BY DEF ReadIndex, WriteIndexTmp, RenameIndex, fsVars
  <2>. QED BY <2>1, <2>2, <2>3, BusyMayRun DEF Active, IdsInv
<1>. "failed" \in Settled /\ "done" \in Settled
  BY DEF Settled
<1>1. CASE ReadIndex(c) /\ Settle(c, "done")
  <2>1. TypeOK'
    <3>1. UNCHANGED <<index, indexTmp>>
      BY <1>1 DEF ReadIndex, fsVars
    <3>. QED BY <1>0, <1>1, <3>1, SettleType DEF TypeOK
  <2>2. ChainInv' /\ \A d \in Call : CallShape(d)'
    BY <1>0, <1>1, ShapeSettle
  <2>. QED BY <1>0, <2>1, <2>2
<1>2. CASE ReadIndex(c) /\ ~Settle(c, "done")
  <2>1. /\ pc[c] = "readIndex"
        /\ op[c] \in {"create", "delete"} \/ index[target[c]] # None
        /\ seenIndex' = [seenIndex EXCEPT ![c] =
              [index EXCEPT ![target[c]] = NewEntry(c, index[target[c]])]]
        /\ Goto(c, "writeIndex")
        /\ UNCHANGED <<queue, seen, index, indexTmp>>
    BY <1>2 DEF ReadIndex, fsVars
  <2>2. [index EXCEPT ![target[c]] = NewEntry(c, index[target[c]])] \in Index
    <3>1. NewEntry(c, index[target[c]]) \in IndexEntry \cup {None}
      BY <1>0, <2>1, NewEntryType
    <3>. QED BY <3>1 DEF TypeOK, Index
  <2>3. seenIndex' \in [Call -> Index \cup {None}] /\ seenIndex'[c] \in Index
    BY <2>1, <2>2 DEF TypeOK
  <2>4. TypeOK'
    BY <1>0, <2>1, <2>3 DEF TypeOK, Goto, Active, Busy
  <2>5. ChainInv' /\ \A d \in Call : CallShape(d)'
    <3>1. "writeIndex" \in Busy
      BY DEF Busy
    <3>2. \A d \in Call \ {c} : seen'[d] = seen[d] /\ seenIndex'[d] = seenIndex[d]
      BY <2>1 DEF TypeOK
    <3>. QED BY <1>0, <2>1, <2>3, <3>1, <3>2, ShapeAdvance
  <2>. QED BY <1>0, <2>4, <2>5
<1>3. CASE WriteIndexTmp(c)
  <2>1. /\ Goto(c, "renameIndex")
        /\ indexTmp' = seenIndex[c] /\ seenIndex[c] \in Index
        /\ UNCHANGED <<queue, seen, seenIndex, index>>
    BY <1>3 DEF WriteIndexTmp, CallShape
  <2>2. TypeOK'
    BY <1>0, <2>1 DEF TypeOK, Goto, Active, Busy
  <2>3. ChainInv' /\ \A d \in Call : CallShape(d)'
    <3>. "renameIndex" \in Busy
      BY DEF Busy
    <3>. QED BY <1>0, <2>1, ShapeAdvance
  <2>. QED BY <1>0, <2>2, <2>3
<1>4. CASE RenameIndex(c)
  <2>1. PICK o \in {"failed", "done"} : Settle(c, o)
    BY <1>4 DEF RenameIndex
  <2>2. index' \in Index /\ indexTmp' \in Index \cup {None}
    BY <1>4 DEF RenameIndex, TypeOK
  <2>3. TypeOK'
    BY <1>0, <2>1, <2>2, SettleType DEF TypeOK
  <2>4. ChainInv' /\ \A d \in Call : CallShape(d)'
    BY <1>0, <2>1, ShapeSettle
  <2>. QED BY <1>0, <2>3, <2>4
<1>. QED BY <1>1, <1>2, <1>3, <1>4

\* A failing file operation.
LEMMA ShapeIOError ==
  ASSUME ShapeInv, NEW c \in Call, IOError(c)
  PROVE  ShapeInv'
<1> USE DEF ShapeInv
<1>1. /\ pc[c] \in Active /\ MayRun(c) /\ "failed" \in Settled
      /\ Settle(c, "failed")
      /\ UNCHANGED <<file, tmp, index, indexTmp, op, target, issued, unlinked>>
      /\ faults' \in 0..MaxFaults
  BY BusyMayRun, FaultAssumption DEF IOError, Active, Settled, fsVars, TypeOK
<1>2. TypeOK'
  BY <1>1, SettleType DEF TypeOK
<1>3. ChainInv' /\ \A d \in Call : CallShape(d)'
  BY <1>1, ShapeSettle
<1>. QED BY <1>1, <1>2, <1>3 DEF IdsInv

\* A crash of the daemon.
LEMMA ShapeCrash ==
  ASSUME ShapeInv, Crash
  PROVE  ShapeInv'
<1> USE DEF ShapeInv
<1>1. TypeOK'
  BY FaultAssumption DEF TypeOK, Crash, Settled, fsVars
<1>2. ASSUME NEW d \in Call PROVE CallShape(d)'
  BY DEF TypeOK, CallShape, Crash, Active, Busy
<1>3. ChainInv'
  BY DEF ChainInv, Crash, TypeOK, Active, Busy
<1>4. IdsInv'
  BY DEF IdsInv, Crash, fsVars
<1>. QED BY <1>1, <1>2, <1>3, <1>4

\* Every step keeps the shape.
LEMMA ShapeNext == ShapeInv /\ [Next]_vars => ShapeInv'
<1> SUFFICES ASSUME ShapeInv, [Next]_vars PROVE ShapeInv'
  OBVIOUS
<1>1. CASE UNCHANGED vars
  BY <1>1 DEF vars, ShapeInv, TypeOK, CallShape, ChainInv, IdsInv
<1>2. CASE Crash
  BY <1>2, ShapeCrash
<1>3. ASSUME NEW c \in Call, Invoke(c) \/ Step(c) \/ IOError(c) PROVE ShapeInv'
  BY <1>3, ShapeInvoke, ShapeBeginCreate, ShapeBegin, ShapeFile, ShapeIndex, ShapeIOError
     DEF Step
<1>. QED BY <1>1, <1>2, <1>3 DEF Next

\* The variables keep their types in every behaviour.
THEOREM TypeCorrect == Spec => []TypeOK
<1>1. Spec => []ShapeInv
  BY ShapeInit, ShapeNext, PTL DEF Spec
<1>2. ShapeInv => TypeOK
  BY DEF ShapeInv
<1>. QED BY <1>1, <1>2, PTL

-----------------------------------------------------------------------------
(* Contents. *)

\* The shape is part of the inductive invariant.
LEMMA IInvShape == IInv => ShapeInv
BY DEF IInv, ShapeInv

\* The inductive invariant holds at the start.
LEMMA IInvInit == Init => IInv
<1> SUFFICES ASSUME Init PROVE IInv
  OBVIOUS
<1>1. ShapeInv
  BY ShapeInit
<1>2. \A c \in Call : op[c] = None
  BY DEF Init
<1>3. DeletedStaysDeleted
  BY DEF Init, DeletedStaysDeleted
<1>. QED BY <1>1, <1>2, <1>3 DEF IInv, ShapeInv

\* A call that was made keeps its method, and its session once it has one.
LEMMA CallStays ==
  ASSUME ShapeInv, [Next]_vars, NEW c \in Call, op[c] # None
  PROVE  /\ op'[c] = op[c]
         /\ target'[c] # target[c] => (op[c] = "create" /\ pc[c] = "queued")
<1>0. pc[c] # "idle" /\ op \in [Call -> Locked \cup {"summary", None}]
      /\ target \in [Call -> Session \cup {None}]
  BY DEF ShapeInv, CallShape, TypeOK
<1>1. CASE UNCHANGED vars
  BY <1>1 DEF vars
<1>2. CASE Crash
  BY <1>2 DEF Crash
<1>3. ASSUME NEW d \in Call, Invoke(d) \/ Step(d) \/ IOError(d)
      PROVE  /\ op'[c] = op[c]
             /\ target'[c] # target[c] => (op[c] = "create" /\ pc[c] = "queued")
  <2>1. CASE Invoke(d)
    <3>1. d # c
      BY <1>0, <2>1 DEF Invoke
    <3>. QED BY <1>0, <2>1, <3>1 DEF Invoke
  <2>2. CASE BeginCreate(d)
    BY <1>0, <2>2 DEF BeginCreate
  <2>3. CASE ~Invoke(d) /\ ~BeginCreate(d)
    BY <1>3, <2>3 DEF Step, BeginUpdate, BeginDelete, WriteTmp, RenameTmp, Unlink,
                      ReadIndex, WriteIndexTmp, RenameIndex, IOError
  <2>. QED BY <2>1, <2>2, <2>3
<1>. QED BY <1>1, <1>2, <1>3 DEF Next

\* A session without summaries had none before.
LEMMA QuietBack ==
  ASSUME ShapeInv, [Next]_vars, NEW s, Quiet(s)'
  PROVE  Quiet(s)
<1> SUFFICES ASSUME NEW c \in Call, op[c] = "summary" PROVE target[c] # s
  BY DEF Quiet
<1>1. op'[c] = "summary" /\ target'[c] = target[c]
  BY NoneAssumption, CallStays
<1>. QED BY <1>1 DEF Quiet

\* The lock at work: two calls about a session without summaries are never
\* both under way.
LEMMA Exclusive ==
  ASSUME ShapeInv, NEW c \in Call, NEW d \in Call, pc[c] \in Busy, pc[d] \in Busy,
         target[c] = target[d], Quiet(target[c])
  PROVE  c = d
<1>1. op[c] \in Locked /\ op[d] \in Locked
  <2>1. /\ op[c] \in Locked \cup {"summary", None} /\ op[c] # None /\ op[c] # "summary"
        /\ op[d] \in Locked \cup {"summary", None} /\ op[d] # None /\ op[d] # "summary"
    BY DEF ShapeInv, TypeOK, CallShape, Busy, Quiet
  <2>. QED BY <2>1
<1>. QED BY <1>1 DEF ShapeInv, ChainInv

\* What a step may do to the file of a session without summaries.
Kept(s)    == file'[s] = file[s] /\ (s \in unlinked' <=> s \in unlinked)
Born(s)    == /\ file[s] = None /\ s \notin unlinked /\ unlinked' = unlinked
              /\ \E t \in Call \cup {None} :
                   file'[s] = [msgs |-> <<>>, title |-> t, summary |-> None]
Added(s)   == /\ file[s] # None /\ unlinked' = unlinked
              /\ \E c \in Call : file'[s] = [file[s] EXCEPT !.msgs = Append(@, c)]
Titled(s)  == /\ file[s] # None /\ unlinked' = unlinked
              /\ \E c \in Call : file'[s] = [file[s] EXCEPT !.title = c]
Removed(s) == /\ file[s] # None /\ file'[s] = None
              /\ unlinked' = unlinked \cup {s}

Changed(s) == Born(s) \/ Added(s) \/ Titled(s) \/ Removed(s)

\* A step leaves every session file alone, or a call stores or removes one.
LEMMA FileStep ==
  ASSUME IInv, [Next]_vars
  PROVE  \/ \A s \in Session : Kept(s)
         \/ \E c \in Call : /\ target[c] \in Session
                            /\ pc[c] \in {"rename", "unlink"}
                            /\ \A s \in Session \ {target[c]} : Kept(s)
                            /\ Quiet(target[c]) => Changed(target[c])
<1> USE IInvShape
<1>1. CASE UNCHANGED <<file, unlinked>>
  BY <1>1 DEF Kept
<1>2. ASSUME NEW c \in Call, RenameTmp(c), ~UNCHANGED <<file, unlinked>>
      PROVE  /\ target[c] \in Session
             /\ pc[c] \in {"rename", "unlink"}
             /\ \A s \in Session \ {target[c]} : Kept(s)
             /\ Quiet(target[c]) => Changed(target[c])
  <2>1. /\ pc[c] = "rename" /\ target[c] \in Session /\ op[c] # None
        /\ file' = [file EXCEPT ![target[c]] = tmp[target[c]]]
        /\ unlinked' = unlinked
        /\ file \in [Session -> SessionFile \cup {None}]
        /\ seen[c] \in SessionFile
    BY <1>2 DEF RenameTmp, ShapeInv, CallShape, TypeOK, Busy
  <2>2. \A s \in Session \ {target[c]} : Kept(s)
    BY <2>1 DEF Kept
  <2>3. ASSUME Quiet(target[c]) PROVE Changed(target[c])
    <3>1. Current(c)
      BY <2>1, <2>3 DEF IInv
    <3>2. file'[target[c]] = seen[c]
      BY <2>1, <3>1 DEF Current
    <3>3. CASE op[c] = "create"
      <4>1. seen[c] = [msgs |-> <<>>, title |-> seen[c].title, summary |-> None]
            /\ seen[c].title \in Call \cup {None}
        BY <2>1, <3>1, <3>3 DEF Current, SessionFile
      <4>. QED BY <2>1, <3>1, <3>2, <3>3, <4>1 DEF Current, Changed, Born
    <3>4. CASE op[c] = "append"
      BY <2>1, <3>1, <3>2, <3>4 DEF Current, Edited, Changed, Added
    <3>5. CASE op[c] = "title"
      BY <2>1, <3>1, <3>2, <3>5 DEF Current, Edited, Changed, Titled
    <3>. QED BY <2>1, <3>1, <3>3, <3>4, <3>5 DEF Current
  <2>. QED BY <2>1, <2>2, <2>3
<1>3. ASSUME NEW c \in Call, Unlink(c)
      PROVE  /\ target[c] \in Session
             /\ pc[c] \in {"rename", "unlink"}
             /\ \A s \in Session \ {target[c]} : Kept(s)
             /\ Quiet(target[c]) => Changed(target[c])
  <2>1. /\ pc[c] = "unlink" /\ target[c] \in Session /\ op[c] # None
        /\ file' = [file EXCEPT ![target[c]] = None]
        /\ unlinked' = unlinked \cup {target[c]}
        /\ file \in [Session -> SessionFile \cup {None}]
    BY <1>3 DEF Unlink, ShapeInv, CallShape, TypeOK, Busy
  <2>2. Quiet(target[c]) => file[target[c]] # None
    BY <2>1 DEF IInv, Current
  <2>. QED BY <2>1, <2>2 DEF Kept, Changed, Removed
<1>4. CASE ~UNCHANGED <<file, unlinked>>
  <2>1. PICK c \in Call : RenameTmp(c) \/ Unlink(c)
    BY <1>4 DEF Next, vars, Crash, fsVars, Invoke, Step, IOError, BeginCreate, BeginUpdate,
                BeginDelete, WriteTmp, ReadIndex, WriteIndexTmp, RenameIndex
  <2>. QED BY <1>2, <1>3, <1>4, <2>1
<1>. QED BY <1>1, <1>4

\* Messages stay where they are; only a delete takes them away.
LEMMA HoldsStays ==
  ASSUME ShapeInv, NEW s \in Session, NEW c \in Call,
         s \in unlinked \/ Holds(s, c),
         Kept(s) \/ Changed(s)
  PROVE  s \in unlinked' \/ Holds(s, c)'
<1>0. file[s] # None => (file[s] \in SessionFile /\ Len(file[s].msgs) \in Nat)
  BY DEF ShapeInv, TypeOK, SessionFile
<1>1. CASE Kept(s)
  BY <1>1 DEF Kept, Holds
<1>2. CASE Born(s)
  BY <1>2 DEF Born, Holds
<1>3. CASE Added(s)
  <2>1. PICK d \in Call : file'[s] = [file[s] EXCEPT !.msgs = Append(@, d)]
    BY <1>3 DEF Added
  <2>2. file'[s].msgs = Append(file[s].msgs, d) /\ file[s].msgs \in Seq(Call)
    BY <1>0, <1>3, <2>1 DEF Added, SessionFile
  <2>3. file'[s] \in SessionFile
    <3>. DEFINE new == Append(file[s].msgs, d)
    <3>1. new \in Seq(Call)
      BY <2>2
    <3>2. file'[s] = [file[s] EXCEPT !.msgs = new]
      BY <2>1
    <3>. HIDE DEF new
    <3>. QED BY <1>0, <1>3, <3>1, <3>2 DEF Added, SessionFile
  <2>4. \A i \in 1..Len(file[s].msgs) :
           i \in 1..Len(file'[s].msgs) /\ file'[s].msgs[i] = file[s].msgs[i]
    BY <2>2
  <2>. QED BY <1>3, <2>3, <2>4, NoneAssumption DEF Added, Holds
<1>4. CASE Titled(s)
  <2>1. file'[s] \in SessionFile /\ file'[s].msgs = file[s].msgs
    BY <1>0, <1>4 DEF Titled, SessionFile
  <2>. QED BY <1>4, <2>1, NoneAssumption DEF Titled, Holds
<1>5. CASE Removed(s)
  BY <1>5 DEF Removed
<1>. QED BY <1>1, <1>2, <1>3, <1>4, <1>5 DEF Changed

\* The same, for one session.
LEMMA QuietFileStep ==
  ASSUME IInv, [Next]_vars, NEW s \in Session, Quiet(s)
  PROVE  Kept(s) \/ Changed(s)
BY FileStep

\* A step reaches the files of one session only, and by a call under way.
LEMMA Locality ==
  ASSUME ShapeInv, [Next]_vars
  PROVE  \/ UNCHANGED <<file, tmp, unlinked>>
         \/ \E c \in Call :
              /\ pc[c] \in Busy /\ pc'[c] # pc[c]
              /\ \A s \in Session \ {target[c]} :
                   /\ file'[s] = file[s] /\ tmp'[s] = tmp[s]
                   /\ s \in unlinked' <=> s \in unlinked
<1>1. ASSUME NEW c \in Call, WriteTmp(c) \/ RenameTmp(c) \/ Unlink(c)
      PROVE  /\ pc[c] \in Busy /\ pc'[c] # pc[c]
             /\ \A s \in Session \ {target[c]} :
                  /\ file'[s] = file[s] /\ tmp'[s] = tmp[s]
                  /\ s \in unlinked' <=> s \in unlinked
  BY <1>1 DEF ShapeInv, TypeOK, Busy, WriteTmp, RenameTmp, Unlink, Settle, Goto
<1>2. CASE ~UNCHANGED <<file, tmp, unlinked>>
  <2>1. PICK c \in Call : WriteTmp(c) \/ RenameTmp(c) \/ Unlink(c)
    BY <1>2 DEF Next, vars, Crash, fsVars, Invoke, Step, IOError, BeginCreate, BeginUpdate,
                BeginDelete, ReadIndex, WriteIndexTmp, RenameIndex
  <2>. QED BY <1>1, <2>1
<1>. QED BY <1>2

\* A call that does not move keeps what it has in hand.
LEMMA HandStays ==
  ASSUME ShapeInv, [Next]_vars, NEW d \in Call, op[d] # None, pc'[d] = pc[d]
  PROVE  /\ target'[d] = target[d]
         /\ pc[d] \in Active => seen'[d] = seen[d]
<1>1. CASE UNCHANGED vars
  BY <1>1 DEF vars
<1>2. CASE Crash
  BY <1>2 DEF Crash, ShapeInv, TypeOK, Active, Busy
<1>3. ASSUME NEW c \in Call, Invoke(c) \/ Step(c) \/ IOError(c)
      PROVE  /\ target'[d] = target[d]
             /\ seen'[d] = seen[d]
  <2>0. pc'[c] # pc[c]
    BY <1>3 DEF ShapeInv, TypeOK, Busy, Invoke, Step, IOError, BeginCreate, BeginUpdate,
                BeginDelete, WriteTmp, RenameTmp, Unlink, ReadIndex, WriteIndexTmp,
                RenameIndex, Settle, Goto
  <2>1. c # d
    BY <2>0
  <2>. QED
    BY <1>3, <2>1 DEF ShapeInv, TypeOK, Invoke, Step, IOError, BeginCreate, BeginUpdate,
                BeginDelete, WriteTmp, RenameTmp, Unlink, ReadIndex, WriteIndexTmp,
                RenameIndex, Settle, Goto
<1>. QED BY <1>1, <1>2, <1>3 DEF Next

\* What a call that does not move has in hand is still current.
LEMMA OthersCurrent ==
  ASSUME IInv, [Next]_vars, NEW d \in Call, op[d] # None, pc'[d] = pc[d],
         Quiet(target[d])
  PROVE  Current(d)'
<1> USE IInvShape
<1>0. op'[d] = op[d] /\ target'[d] = target[d] /\ Current(d)
  BY CallStays, HandStays DEF IInv
<1>1. CASE pc[d] \in {"write", "rename", "unlink"}
  <2>1. target[d] \in Session /\ pc[d] \in Busy /\ seen'[d] = seen[d]
    BY <1>1, HandStays DEF ShapeInv, CallShape, TypeOK, Busy, Active
  <2>2. /\ file'[target[d]] = file[target[d]] /\ tmp'[target[d]] = tmp[target[d]]
        /\ target[d] \in unlinked' <=> target[d] \in unlinked
    <3>1. CASE UNCHANGED <<file, tmp, unlinked>>
      BY <3>1
    <3>2. ASSUME NEW c \in Call, pc[c] \in Busy, pc'[c] # pc[c] PROVE target[c] # target[d]
      BY <2>1, <3>2, Exclusive
    <3>. QED BY <2>1, <3>1, <3>2, Locality
  <2>. QED BY <1>0, <1>1, <2>1, <2>2 DEF Current, Edited
<1>2. CASE pc[d] \notin {"write", "rename", "unlink"}
  <2>1. ASSUME op[d] = "append", pc[d] \in {"readIndex", "writeIndex", "renameIndex", "done"}
        PROVE  target[d] \in unlinked' \/ Holds(target[d], d)'
    <3>1. target[d] \in Session
      BY <2>1 DEF ShapeInv, CallShape
    <3>. QED BY <1>0, <2>1, <3>1, QuietFileStep, HoldsStays DEF Current
  <2>. QED BY <1>0, <1>2, <2>1 DEF Current, Holds
<1>. QED BY <1>1, <1>2

\* The file holds the message a call has just stored.
LEMMA AppendedHeld ==
  ASSUME NEW s \in Session, NEW c \in Call, NEW f \in SessionFile, op[c] = "append",
         file'[s] = Edited(c, f)
  PROVE  /\ file'[s] # None
         /\ \E i \in 1..Len(file'[s].msgs) : file'[s].msgs[i] = c
<1>1. f.msgs \in Seq(Call)
  BY DEF SessionFile
<1>2. Edited(c, f) \in SessionFile /\ Edited(c, f).msgs = Append(f.msgs, c)
  <2>1. Edited(c, f) \in SessionFile
    BY EditedType
  <2>. QED BY <2>1 DEF Edited, SessionFile
<1>3. /\ Len(f.msgs) + 1 \in 1..Len(file'[s].msgs)
      /\ file'[s].msgs[Len(f.msgs) + 1] = c
  BY <1>1, <1>2
<1>. QED BY <1>2, <1>3, NoneAssumption

\* The step of a call leaves what it has in hand current.
LEMMA OwnCurrent ==
  ASSUME IInv, [Next]_vars, NEW d \in Call, pc'[d] # pc[d],
         (op[d] # None /\ target'[d] = target[d]) => Quiet(target[d])
  PROVE  Current(d)'
<1> USE IInvShape
<1>a. pc \in [Call -> Active \cup Settled \cup {"idle"}]
  BY DEF ShapeInv, TypeOK
<1>1. CASE Crash
  <2>1. pc'[d] = "lost"
    BY <1>1, <1>a DEF Crash
  <2>. QED BY <2>1 DEF Current
<1>2. CASE Invoke(d)
  <2>1. pc'[d] = "queued"
    BY <1>2, <1>a DEF Invoke
  <2>. QED BY <2>1 DEF Current
<1>3. CASE BeginCreate(d)
  <2>1. PICK s \in Session \ issued, t \in {d, None} :
           /\ target' = [target EXCEPT ![d] = s]
           /\ seen' = [seen EXCEPT ![d] =
                         [msgs |-> <<>>, title |-> t, summary |-> None]]
    BY <1>3 DEF BeginCreate
  <2>2. /\ pc'[d] = "write" /\ op'[d] = "create" /\ target'[d] = s
        /\ seen'[d] = [msgs |-> <<>>, title |-> t, summary |-> None]
        /\ file'[s] = file[s] /\ unlinked' = unlinked
    BY <1>3, <1>a, <2>1 DEF BeginCreate, Goto, fsVars, ShapeInv, TypeOK
  <2>3. file[s] = None /\ s \notin unlinked
    BY <2>1 DEF ShapeInv, IdsInv
  <2>. QED BY <2>2, <2>3 DEF Current
<1>4. ASSUME Step(d), ~BeginCreate(d) PROVE Current(d)'
  <2>0. /\ pc[d] \in Active /\ pc[d] # "idle" /\ op[d] # None
        /\ Quiet(target[d]) /\ Current(d) /\ op[d] # "summary"
        /\ op'[d] = op[d] /\ target'[d] = target[d]
    <3>1. pc[d] \in Active
      BY <1>4 DEF Step, BeginUpdate, BeginDelete, WriteTmp, RenameTmp, Unlink,
                  ReadIndex, WriteIndexTmp, RenameIndex, Active, Busy
    <3>2. pc[d] # "idle" /\ op[d] # None
      BY <3>1 DEF Active, Busy, ShapeInv, CallShape
    <3>3. op' = op /\ target' = target
      BY <1>4 DEF Step, BeginUpdate, BeginDelete, WriteTmp, RenameTmp, Unlink,
                  ReadIndex, WriteIndexTmp, RenameIndex
    <3>. QED BY <3>1, <3>2, <3>3 DEF IInv, Quiet
  <2>1. CASE BeginUpdate(d)
    <3>1. CASE pc'[d] = "failed"
      BY <3>1 DEF Current
    <3>2. CASE pc'[d] # "failed"
      <4>1. /\ op[d] \in {"append", "title"} /\ pc'[d] = "write"
            /\ file[target[d]] # None
            /\ seen'[d] = Edited(d, file[target[d]])
            /\ file' = file
        BY <1>a, <2>0, <2>1, <3>2 DEF BeginUpdate, Settle, Goto, fsVars, ShapeInv, TypeOK
      <4>. QED BY <2>0, <4>1 DEF Current, Edited
    <3>. QED BY <3>1, <3>2
  <2>2. CASE BeginDelete(d)
    <3>1. /\ op[d] = "delete" /\ file' = file
          /\ pc'[d] = "failed" \/ (pc'[d] = "unlink" /\ file[target[d]] # None)
      BY <1>a, <2>2 DEF BeginDelete, Settle, Goto, fsVars
    <3>. QED BY <2>0, <3>1 DEF Current
  <2>3. CASE WriteTmp(d)
    <3>1. /\ pc[d] = "write" /\ pc'[d] = "rename"
          /\ target[d] \in Session
          /\ tmp'[target[d]] = seen[d]
          /\ UNCHANGED <<file, seen, unlinked>>
      BY <1>a, <2>3 DEF WriteTmp, Goto, ShapeInv, TypeOK, CallShape, Busy
    <3>. QED BY <2>0, <3>1 DEF Current, Edited
  <2>4. CASE RenameTmp(d)
    <3>1. CASE pc'[d] = "failed"
      BY <3>1 DEF Current
    <3>2. CASE pc'[d] # "failed"
      <4>1. /\ pc[d] = "rename" /\ pc'[d] = "readIndex" /\ target[d] \in Session
            /\ file' = [file EXCEPT ![target[d]] = tmp[target[d]]]
        BY <1>a, <2>4, <3>2 DEF RenameTmp, Settle, Goto, ShapeInv, TypeOK, CallShape, Busy
      <4>2. file'[target[d]] = seen[d]
        BY <2>0, <4>1 DEF Current, ShapeInv, TypeOK
      <4>3. ASSUME op[d] = "append" PROVE Holds(target[d], d)'
        <5>1. seen[d] = Edited(d, file[target[d]]) /\ file[target[d]] \in SessionFile
          BY <2>0, <4>1, <4>3 DEF Current, ShapeInv, TypeOK
        <5>. QED BY <2>0, <4>1, <4>2, <4>3, <5>1, AppendedHeld DEF Holds
      <4>. QED BY <2>0, <4>1, <4>3 DEF Current, Holds
    <3>. QED BY <3>1, <3>2
  <2>5. CASE Unlink(d)
    <3>1. pc'[d] = "readIndex" /\ op[d] = "delete"
      BY <1>a, <2>5 DEF Unlink, Goto, ShapeInv, CallShape
    <3>. QED BY <2>0, <3>1 DEF Current
  <2>6. CASE ReadIndex(d) \/ WriteIndexTmp(d) \/ RenameIndex(d)
    <3>1. /\ pc[d] \in {"readIndex", "writeIndex", "renameIndex"}
          /\ pc'[d] \in {"writeIndex", "renameIndex", "done", "failed"}
          /\ UNCHANGED <<file, unlinked>>
      BY <1>a, <2>6 DEF ReadIndex, WriteIndexTmp, RenameIndex, Settle, Goto, fsVars
    <3>. QED BY <2>0, <3>1 DEF Current, Holds
  <2>. QED BY <1>4, <2>1, <2>2, <2>3, <2>4, <2>5, <2>6 DEF Step
<1>5. CASE IOError(d)
  <2>1. pc'[d] = "failed"
    BY <1>5, <1>a DEF IOError, Settle
  <2>. QED BY <2>1 DEF Current
<1>6. Crash \/ Invoke(d) \/ Step(d) \/ IOError(d)
  <2>1. ASSUME NEW c \in Call, c # d, Invoke(c) \/ Step(c) \/ IOError(c)
        PROVE  pc'[d] = pc[d]
    BY <1>a, <2>1 DEF Invoke, Step, IOError, BeginCreate, BeginUpdate,
                BeginDelete, WriteTmp, RenameTmp, Unlink, ReadIndex, WriteIndexTmp,
                RenameIndex, Settle, Goto
  <2>. QED BY <2>1 DEF Next, vars
<1>. QED BY <1>1, <1>2, <1>3, <1>4, <1>5, <1>6

\* Every step keeps the inductive invariant.
LEMMA IInvNext == IInv /\ [Next]_vars => IInv'
<1> SUFFICES ASSUME IInv, [Next]_vars PROVE IInv'
  OBVIOUS
<1>1. ShapeInv'
  BY IInvShape, ShapeNext
<1>2. ASSUME NEW d \in Call, op'[d] # None, Quiet(target[d])'
      PROVE  Current(d)'
  <2>1. (op[d] # None /\ target'[d] = target[d]) => Quiet(target[d])
    <3>1. PICK t : t = target'[d]
      OBVIOUS
    <3>2. Quiet(t)'
      BY <1>2, <3>1 DEF Quiet
    <3>3. Quiet(t)
      BY <3>2, IInvShape, QuietBack
    <3>. QED BY <3>1, <3>3
  <2>2. CASE pc'[d] # pc[d]
    BY <2>1, <2>2, OwnCurrent
  <2>3. CASE pc'[d] = pc[d]
    <3>1. op[d] # None
      BY <1>1, <1>2, <2>3, IInvShape DEF ShapeInv, CallShape
    <3>. QED BY <2>1, <2>3, <3>1, HandStays, IInvShape, OthersCurrent
  <2>. QED BY <2>2, <2>3
<1>3. DeletedStaysDeleted'
  <2> SUFFICES ASSUME NEW s \in unlinked', Quiet(s)' PROVE file'[s] = None
    BY DEF DeletedStaysDeleted
  <2>1. s \in Session /\ Quiet(s)
    BY <1>1, IInvShape, QuietBack DEF ShapeInv, TypeOK
  <2>2. Kept(s) \/ Changed(s)
    BY <2>1, QuietFileStep
  <2>. QED BY <2>1, <2>2 DEF IInv, DeletedStaysDeleted, Kept, Changed, Born, Added, Titled,
                             Removed
<1>. QED BY <1>1, <1>2, <1>3 DEF IInv, ShapeInv

-----------------------------------------------------------------------------
(* What follows for every behaviour. *)

\* So it holds in every behaviour.
LEMMA IInvCorrect == Spec => []IInv
BY IInvInit, IInvNext, PTL DEF Spec

\* A message whose appendMessage() returned stays in its session until the
\* session is deleted, unless that session is summarised.
THEOREM MessagesKept == Spec => []AckedMessagesKept
<1>1. IInv => AckedMessagesKept
  <2> SUFFICES ASSUME IInv, NEW c \in Call, op[c] = "append", pc[c] = "done",
                      Quiet(target[c])
               PROVE  target[c] \in unlinked \/ Holds(target[c], c)
    BY DEF AckedMessagesKept
  <2>1. op[c] # None
    BY NoneAssumption DEF Locked
  <2>. QED BY <2>1 DEF IInv, Current
<1>. QED BY <1>1, IInvCorrect, PTL

\* A deleted session does not come back, unless it is summarised.
THEOREM DeletedForGood == Spec => []DeletedStaysDeleted
<1>1. IInv => DeletedStaysDeleted
  BY DEF IInv
<1>. QED BY <1>1, IInvCorrect, PTL

\* The conversation of a session that is never summarised only grows.
THEOREM HistoryGrows == Spec => HistoryAppendOnly
<1>1. ASSUME IInv, [Next]_vars, NEW s \in Session, Quiet(s)',
             file[s] # None, file'[s] # None
      PROVE  Prolongs(file[s], file'[s])
  <2>0. Quiet(s)
    BY <1>1, IInvShape, QuietBack
  <2>1. Kept(s) \/ Changed(s)
    BY <1>1, <2>0, QuietFileStep
  <2>2. file[s] \in SessionFile /\ file[s].msgs \in Seq(Call)
    BY <1>1 DEF IInv, TypeOK, SessionFile
  <2>3. CASE Kept(s)
    BY <2>2, <2>3 DEF Kept, Prolongs
  <2>4. CASE Added(s)
    <3>1. PICK c \in Call : file'[s] = [file[s] EXCEPT !.msgs = Append(@, c)]
      BY <2>4 DEF Added
    <3>2. file'[s].msgs = Append(file[s].msgs, c)
      BY <2>2, <3>1 DEF SessionFile
    <3>. QED BY <2>2, <3>2 DEF Prolongs
  <2>5. CASE Titled(s)
    <3>1. file'[s].msgs = file[s].msgs
      BY <2>2, <2>5 DEF Titled, SessionFile
    <3>. QED BY <2>2, <3>1 DEF Prolongs
  <2>. QED BY <1>1, <2>1, <2>3, <2>4, <2>5 DEF Changed, Born, Removed
<1>2. IInv /\ [Next]_vars
        => [\A s \in Session : (Quiet(s)' /\ file[s] # None /\ file'[s] # None)
              => Prolongs(file[s], file'[s])]_vars
  BY <1>1
<1>. QED BY <1>2, IInvCorrect, PTL DEF Spec, HistoryAppendOnly

-----------------------------------------------------------------------------
(* The index, while nobody summarises. *)

\* Files and index agree at the start.
LEMMA IndexInit == Init => IndexInv
BY DEF Init, IndexInv, IndexAgrees, Relists, Listing

\* A store without summaries had none before.
LEMMA NoSummariesBack ==
  ASSUME ShapeInv, [Next]_vars, NoSummaries'
  PROVE  NoSummaries /\ \A s \in Session : Quiet(s)
<1>1. ASSUME NEW c \in Call PROVE op[c] # "summary"
  BY NoneAssumption, CallStays DEF NoSummaries
<1>. QED BY <1>1 DEF NoSummaries, Quiet

\* Without summaries one call at a time is under way.
LEMMA Solo ==
  ASSUME ShapeInv, NoSummaries, NEW c \in Call, NEW d \in Call,
         pc[c] \in Busy, pc[d] \in Busy
  PROVE  c = d
<1>1. op[c] \in Locked /\ op[d] \in Locked
  BY DEF ShapeInv, TypeOK, CallShape, Busy, NoSummaries
<1>. QED BY <1>1 DEF ShapeInv, ChainInv

\* A step that leaves the files and the index alone, starts no index update
\* and ends none otherwise than by failing.
LEMMA IndexIdle ==
  ASSUME IndexInv, NoSummaries,
         UNCHANGED <<file, index, indexTmp>>,
         \A d \in Call : pc'[d] \in Indexing =>
            /\ pc'[d] = pc[d] /\ op'[d] = op[d] /\ target'[d] = target[d]
            /\ seen'[d] = seen[d] /\ seenIndex'[d] = seenIndex[d],
         \A d \in Call : pc[d] \in Indexing \cup {"failed", "lost"} =>
            /\ target'[d] = target[d]
            /\ pc'[d] \in Indexing \cup {"failed", "lost"}
            /\ pc[d] \in {"failed", "lost"} => pc'[d] = pc[d]
  PROVE  IndexInv'
<1>1. ASSUME NEW s, Unharmed(s)' PROVE Unharmed(s)
  BY <1>1 DEF Unharmed
<1>2. IndexAgrees'
  <2> SUFFICES ASSUME NEW s \in Session,
                      \A c \in Call : target'[c] = s =>
                        pc'[c] \notin {"readIndex", "writeIndex", "renameIndex", "failed", "lost"}
               PROVE  index'[s] = Listing(file[s])
    BY DEF IndexAgrees, Listing
  <2>1. \A c \in Call : target[c] = s =>
           pc[c] \notin {"readIndex", "writeIndex", "renameIndex", "failed", "lost"}
    BY DEF Indexing
  <2>. QED BY <2>1 DEF IndexInv, IndexAgrees
<1>3. ASSUME NEW d \in Call PROVE Relists(d)'
  <2>1. Relists(d)
    BY DEF IndexInv
  <2>2. CASE pc'[d] \notin Indexing
    BY <2>2 DEF Relists, Indexing
  <2>3. CASE pc'[d] \in Indexing
    <3>1. PICK t : t = target[d]
      OBVIOUS
    <3>2. target'[d] = t /\ (Unharmed(t)' => Unharmed(t))
      BY <1>1, <2>3, <3>1
    <3>3. Unharmed(target[d])' => Unharmed(target[d])
      <4>1. Unharmed(target[d])' <=> Unharmed(t)'
        BY <3>1, <3>2 DEF Unharmed
      <4>. QED BY <3>1, <3>2, <4>1
    <3>4. /\ pc'[d] = pc[d] /\ op'[d] = op[d] /\ target'[d] = target[d]
          /\ seen'[d] = seen[d] /\ seenIndex'[d] = seenIndex[d]
      BY <2>3
    <3>5. CASE pc[d] = "readIndex"
      BY <2>1, <3>3, <3>4, <3>5 DEF Relists, NewEntry, Listing
    <3>6. CASE pc[d] # "readIndex"
      BY <2>1, <3>3, <3>4, <3>6 DEF Relists, Listing
    <3>. QED BY <3>5, <3>6
  <2>. QED BY <2>2, <2>3
<1>. QED BY <1>2, <1>3 DEF IndexInv

\* The steps that only concern memory, the session's temporary file or the end
\* of a call that failed.
LEMMA IndexUntouched ==
  ASSUME ShapeInv, IndexInv, NoSummaries,
         \/ UNCHANGED vars
         \/ Crash
         \/ \E c \in Call : \/ Invoke(c) \/ BeginCreate(c) \/ BeginUpdate(c)
                            \/ BeginDelete(c) \/ WriteTmp(c) \/ IOError(c)
  PROVE  IndexInv'
<1>0. /\ pc \in [Call -> Active \cup Settled \cup {"idle"}]
      /\ op \in [Call -> Locked \cup {"summary", None}]
      /\ target \in [Call -> Session \cup {None}]
      /\ seen \in [Call -> SessionFile \cup {None}]
      /\ seenIndex \in [Call -> Index \cup {None}]
  BY DEF ShapeInv, TypeOK
<1>1. CASE UNCHANGED vars
  BY <1>0, <1>1, IndexIdle DEF vars, Indexing
<1>2. CASE Crash
  BY <1>0, <1>2, IndexIdle DEF Crash, fsVars, Indexing, Active, Busy
<1>3. ASSUME NEW c \in Call,
             \/ Invoke(c) \/ BeginCreate(c) \/ BeginUpdate(c)
             \/ BeginDelete(c) \/ WriteTmp(c) \/ IOError(c)
      PROVE  IndexInv'
  <2>1. UNCHANGED <<file, index, indexTmp>>
    BY <1>3 DEF Invoke, BeginCreate, BeginUpdate, BeginDelete, WriteTmp, IOError, fsVars
  <2>2. \A d \in Call \ {c} :
           /\ pc'[d] = pc[d] /\ op'[d] = op[d] /\ target'[d] = target[d]
           /\ seen'[d] = seen[d] /\ seenIndex'[d] = seenIndex[d]
    BY <1>0, <1>3 DEF Invoke, BeginCreate, BeginUpdate, BeginDelete, WriteTmp, IOError,
                      Settle, Goto
  <2>3. /\ pc'[c] \notin Indexing
        /\ pc[c] \notin {"failed", "lost"}
        /\ pc[c] \in Indexing => (target'[c] = target[c] /\ pc'[c] = "failed")
    BY <1>0, <1>3 DEF Invoke, BeginCreate, BeginUpdate, BeginDelete, WriteTmp, IOError,
                      Settle, Goto, Indexing, Busy
  <2>. QED BY <2>1, <2>2, <2>3, IndexIdle
<1>. QED BY <1>1, <1>2, <1>3

\* A call at work on its session or on the index is the only one: the others
\* keep still, and none of them is updating the index.
LEMMA OthersStill ==
  ASSUME ShapeInv, NoSummaries, NEW c \in Call,
         \/ RenameTmp(c) \/ Unlink(c) \/ ReadIndex(c)
         \/ WriteIndexTmp(c) \/ RenameIndex(c)
  PROVE  /\ pc[c] \in Busy /\ target[c] \in Session
         /\ op[c] \in Locked
         /\ op' = op /\ target' = target
         /\ \A d \in Call \ {c} : pc'[d] = pc[d] /\ pc[d] \notin Indexing
<1>1. pc[c] \in Busy
  BY DEF RenameTmp, Unlink, ReadIndex, WriteIndexTmp, RenameIndex, Busy
<1>2. target[c] \in Session /\ op[c] \in Locked
  BY <1>1 DEF ShapeInv, CallShape, TypeOK, NoSummaries, Busy
<1>3. op' = op /\ target' = target
  BY DEF RenameTmp, Unlink, ReadIndex, WriteIndexTmp, RenameIndex
<1>4. ASSUME NEW d \in Call \ {c} PROVE pc'[d] = pc[d]
  BY DEF RenameTmp, Unlink, ReadIndex, WriteIndexTmp, RenameIndex, Settle, Goto,
         ShapeInv, TypeOK
<1>5. ASSUME NEW d \in Call \ {c} PROVE pc[d] \notin Indexing
  BY <1>1, Solo DEF Indexing, Busy
<1>. QED BY <1>1, <1>2, <1>3, <1>4, <1>5

\* The entry that follows from the old one by the call's own edit.
LEMMA EditedListing ==
  ASSUME NEW c \in Call, NEW f \in SessionFile, op[c] \in {"append", "title"},
         seen[c] = Edited(c, f)
  PROVE  NewEntry(c, Listing(f)) = Listing(seen[c])
<1>1. Edited(c, f) \in SessionFile /\ f # None /\ Edited(c, f) # None
  BY EditedType, NoneAssumption
<1>2. CASE op[c] = "append"
  <2>1. seen[c] = [f EXCEPT !.msgs = Append(f.msgs, c)]
    BY <1>2 DEF Edited
  <2>2. NewEntry(c, Listing(f)) = [Listing(f) EXCEPT !.count = Len(seen[c].msgs)]
    BY <1>2 DEF NewEntry
  <2>3. Listing(f) = [count |-> Len(f.msgs), title |-> f.title, summary |-> f.summary]
    BY <1>1 DEF Listing
  <2>4. Listing(seen[c]) = [count |-> Len(seen[c].msgs), title |-> seen[c].title,
                            summary |-> seen[c].summary]
    BY <1>1 DEF Listing
  <2>5. seen[c].title = f.title /\ seen[c].summary = f.summary
    BY <2>1 DEF SessionFile
  <2>. QED BY <2>2, <2>3, <2>4, <2>5
<1>3. CASE op[c] = "title"
  <2>1. seen[c] = [f EXCEPT !.title = c]
    BY <1>3 DEF Edited
  <2>2. NewEntry(c, Listing(f)) = [Listing(f) EXCEPT !.title = c]
    BY <1>3 DEF NewEntry
  <2>3. Listing(f) = [count |-> Len(f.msgs), title |-> f.title, summary |-> f.summary]
    BY <1>1 DEF Listing
  <2>4. Listing(seen[c]) = [count |-> Len(seen[c].msgs), title |-> seen[c].title,
                            summary |-> seen[c].summary]
    BY <1>1 DEF Listing
  <2>5. /\ seen[c].title = c /\ seen[c].summary = f.summary
        /\ seen[c].msgs = f.msgs
    BY <2>1 DEF SessionFile
  <2>. QED BY <2>2, <2>3, <2>4, <2>5
<1>. QED BY <1>2, <1>3

\* A call that has stored or removed the session file: the entry it will
\* compute is the one the file now calls for.
LEMMA IndexStored ==
  ASSUME IInv, IndexInv, NoSummaries, \A s \in Session : Quiet(s),
         NEW c \in Call, RenameTmp(c) \/ Unlink(c), pc'[c] = "readIndex"
  PROVE  IndexInv'
<1> USE IInvShape
<1>. DEFINE BadPc == {"readIndex", "writeIndex", "renameIndex", "failed", "lost"}
<1>0. /\ pc[c] \in Busy /\ op[c] \in Locked
      /\ op' = op /\ target' = target
      /\ \A d \in Call \ {c} : pc'[d] = pc[d] /\ pc[d] \notin Indexing
  BY OthersStill
<1>1. PICK t \in Session : target[c] = t
  BY OthersStill
<1>2. /\ Current(c)
      /\ UNCHANGED <<index, indexTmp, seen, seenIndex>>
      /\ \A s \in Session \ {t} : file'[s] = file[s]
  <2>1. Current(c)
    BY <1>0, <1>1 DEF IInv, ShapeInv, CallShape, Busy
  <2>2. pc'[c] # "failed" /\ pc \in [Call -> Active \cup Settled \cup {"idle"}]
    BY DEF ShapeInv, TypeOK
  <2>3. UNCHANGED <<index, indexTmp, seen, seenIndex>>
    BY <2>2 DEF RenameTmp, Unlink, Settle
  <2>4. \A s \in Session \ {t} : file'[s] = file[s]
    BY <1>1 DEF RenameTmp, Unlink, ShapeInv, TypeOK
  <2>. QED BY <2>1, <2>3, <2>4
<1>3. ASSUME NEW s, Unharmed(s)' PROVE Unharmed(s)
  <2>1. pc[c] \notin {"failed", "lost"}
    BY <1>0 DEF Busy
  <2>. QED BY <1>0, <1>3, <2>1 DEF Unharmed
<1>4. IndexAgrees'
  <2> SUFFICES ASSUME NEW s \in Session,
                      \A d \in Call : target'[d] = s => pc'[d] \notin BadPc
               PROVE  index'[s] = Listing(file'[s])
    BY DEF IndexAgrees, Listing
  <2>1. s # t
    BY <1>0, <1>1
  <2>2. \A d \in Call : target[d] = s => pc[d] \notin BadPc
    BY <1>0, <1>1, <2>1
  <2>3. index[s] = Listing(file[s])
    BY <2>2 DEF IndexInv, IndexAgrees
  <2>. QED BY <1>2, <2>1, <2>3
<1>5. ASSUME Unharmed(t)
      PROVE  /\ op[c] \in {"append", "title"} => index[t] # None
             /\ NewEntry(c, index[t]) = Listing(file'[t])
  <2>1. index[t] = Listing(file[t])
    <3>1. \A d \in Call : target[d] = t => pc[d] \notin BadPc
      <4>1. pc[c] \in {"rename", "unlink"}
        BY DEF RenameTmp, Unlink
      <4>. QED BY <1>0, <1>5, <4>1 DEF Unharmed, Indexing
    <3>. QED BY <3>1 DEF IndexInv, IndexAgrees
  <2>2. CASE RenameTmp(c)
    <3>1. /\ pc[c] = "rename" /\ op[c] # "delete"
          /\ seen[c] \in SessionFile
          /\ file'[t] = seen[c]
      <4>1. pc[c] = "rename" /\ op[c] # "delete" /\ seen[c] \in SessionFile
        BY <2>2 DEF RenameTmp, ShapeInv, CallShape
      <4>2. tmp[t] = seen[c]
        BY <1>1, <1>2, <4>1 DEF Current
      <4>3. file' = [file EXCEPT ![t] = tmp[t]]
        BY <1>1, <2>2, <4>1, <4>2, NoneAssumption DEF RenameTmp
      <4>. QED BY <4>1, <4>2, <4>3 DEF ShapeInv, TypeOK
    <3>2. CASE op[c] = "create"
      <4>1. seen[c].msgs = <<>> /\ seen[c].summary = None
        BY <1>2, <3>1, <3>2 DEF Current
      <4>2. Listing(seen[c]) = [count |-> 0, title |-> seen[c].title, summary |-> None]
        BY <3>1, <4>1, NoneAssumption DEF Listing
      <4>. QED BY <3>1, <3>2, <4>2 DEF NewEntry
    <3>3. CASE op[c] \in {"append", "title"}
      <4>1. file[t] \in SessionFile /\ seen[c] = Edited(c, file[t])
        BY <1>1, <1>2, <3>1, <3>3 DEF Current, ShapeInv, TypeOK
      <4>2. index[t] # None
        <5>1. index[t] = [count |-> Len(file[t].msgs), title |-> file[t].title,
                          summary |-> file[t].summary]
          BY <2>1, <4>1, NoneAssumption DEF Listing
        <5>2. index[t] \in IndexEntry
          BY <4>1, <5>1 DEF SessionFile, IndexEntry
        <5>. QED BY <5>2, NoneAssumption
      <4>. QED BY <2>1, <3>1, <3>3, <4>1, <4>2, EditedListing
    <3>. QED BY <1>0, <3>1, <3>2, <3>3 DEF Locked
  <2>3. CASE Unlink(c)
    <3>1. op[c] = "delete" /\ file'[t] = None
      BY <1>1, <2>3 DEF Unlink, ShapeInv, CallShape, TypeOK
    <3>. QED BY <3>1 DEF NewEntry, Listing
  <2>. QED BY <2>2, <2>3
<1>6. ASSUME NEW d \in Call PROVE Relists(d)'
  <2>1. CASE d # c
    BY <1>0, <2>1 DEF Relists, Indexing
  <2>2. CASE d = c
    <3>1. Unharmed(target[c])' => Unharmed(t)
      <4>1. Unharmed(target[c])' <=> Unharmed(t)'
        BY <1>0, <1>1 DEF Unharmed
      <4>. QED BY <1>3, <4>1
    <3>. QED BY <1>0, <1>1, <1>2, <1>5, <2>2, <3>1 DEF Relists, NewEntry, Listing
  <2>. QED BY <2>1, <2>2
<1>. QED BY <1>4, <1>6 DEF IndexInv

\* Reading the index: the object in memory is the index as it is but for the
\* call's own session.
LEMMA IndexRead ==
  ASSUME ShapeInv, IndexInv, NoSummaries, NEW c \in Call, ReadIndex(c)
  PROVE  IndexInv'
<1>. DEFINE BadPc == {"readIndex", "writeIndex", "renameIndex", "failed", "lost"}
<1>0. /\ pc[c] = "readIndex" /\ op[c] \in Locked /\ op' = op /\ target' = target
      /\ \A d \in Call \ {c} : pc'[d] = pc[d] /\ pc[d] \notin Indexing
      /\ UNCHANGED <<file, index, indexTmp>>
  BY OthersStill DEF ReadIndex, fsVars
<1>1. PICK t \in Session : target[c] = t
  BY OthersStill
<1>2. \/ /\ op[c] \in {"append", "title"} /\ index[t] = None /\ pc'[c] = "done"
      \/ /\ pc'[c] = "writeIndex"
         /\ seenIndex'[c] = [index EXCEPT ![t] = NewEntry(c, index[t])]
  BY <1>0, <1>1 DEF ReadIndex, Settle, Goto, ShapeInv, TypeOK, Locked
<1>3. ASSUME NEW s, Unharmed(s)' PROVE Unharmed(s)
  BY <1>0, <1>3 DEF Unharmed
<1>4. ASSUME Unharmed(t)
      PROVE  /\ pc'[c] = "writeIndex"
             /\ NewEntry(c, index[t]) = Listing(file[t])
  BY <1>0, <1>1, <1>2, <1>4 DEF IndexInv, Relists
<1>5. IndexAgrees'
  <2> SUFFICES ASSUME NEW s \in Session,
                      \A d \in Call : target'[d] = s => pc'[d] \notin BadPc
               PROVE  index[s] = Listing(file[s])
    BY <1>0 DEF IndexAgrees, Listing
  <2>1. s # t
    <3>1. ASSUME s = t PROVE Unharmed(t)
      BY <1>0, <1>1, <3>1 DEF Unharmed
    <3>. QED BY <1>0, <1>1, <1>4, <3>1
  <2>2. \A d \in Call : target[d] = s => pc[d] \notin BadPc
    BY <1>0, <1>1, <2>1
  <2>. QED BY <2>2 DEF IndexInv, IndexAgrees
<1>6. ASSUME NEW d \in Call PROVE Relists(d)'
  <2>1. CASE d # c \/ pc'[c] = "done"
    BY <1>0, <2>1 DEF Relists, Indexing
  <2>2. CASE d = c /\ pc'[c] = "writeIndex"
    <3>1. Unharmed(target[c])' => Unharmed(t)
      <4>1. Unharmed(target[c])' <=> Unharmed(t)'
        BY <1>0, <1>1 DEF Unharmed
      <4>. QED BY <1>3, <4>1
    <3>2. /\ seenIndex'[c] = [index EXCEPT ![t] = NewEntry(c, index[t])]
          /\ index \in [Session -> IndexEntry \cup {None}]
      BY <1>2, <2>2 DEF ShapeInv, TypeOK, Index
    <3>3. seenIndex'[c][t] = NewEntry(c, index[t])
      BY <3>2
    <3>4. \A s \in Session \ {t} : seenIndex'[c][s] = index[s]
      BY <3>2
    <3>5. target'[c] = t /\ index' = index /\ file' = file
      BY <1>0, <1>1
    <3>. QED BY <1>4, <2>2, <3>1, <3>3, <3>4, <3>5 DEF Relists, Listing
  <2>. QED BY <1>2, <2>1, <2>2
<1>. QED BY <1>5, <1>6 DEF IndexInv

\* Writing the index: what is renamed into place is what the call had in
\* memory, and no other call has changed the index since it was read.
LEMMA IndexWritten ==
  ASSUME ShapeInv, IndexInv, NoSummaries, NEW c \in Call,
         WriteIndexTmp(c) \/ RenameIndex(c)
  PROVE  IndexInv'
<1>. DEFINE BadPc == {"readIndex", "writeIndex", "renameIndex", "failed", "lost"}
<1>0. /\ op' = op /\ target' = target /\ file' = file
      /\ \A d \in Call \ {c} : pc'[d] = pc[d] /\ pc[d] \notin Indexing
  BY OthersStill DEF WriteIndexTmp, RenameIndex
<1>1. PICK t \in Session : target[c] = t
  BY OthersStill
<1>2. /\ Relists(c) /\ pc[c] \in {"writeIndex", "renameIndex"}
      /\ seenIndex[c] \in Index
  BY DEF IndexInv, WriteIndexTmp, RenameIndex, ShapeInv, CallShape
<1>3. ASSUME NEW s, Unharmed(s)' PROVE Unharmed(s)
  BY <1>0, <1>2, <1>3 DEF Unharmed
<1>4. \/ /\ WriteIndexTmp(c) /\ pc'[c] = "renameIndex"
         /\ indexTmp' = seenIndex[c] /\ UNCHANGED <<seenIndex, index>>
      \/ /\ RenameIndex(c) /\ pc'[c] = "done" /\ index' = seenIndex[c]
  <2>1. CASE WriteIndexTmp(c)
    BY <2>1 DEF WriteIndexTmp, Goto, ShapeInv, TypeOK
  <2>2. CASE RenameIndex(c)
    <3>1. indexTmp = seenIndex[c] /\ indexTmp # None
      BY <1>2, <2>2, NoneAssumption DEF Relists, RenameIndex
    <3>. QED BY <2>2, <3>1 DEF RenameIndex, Settle, ShapeInv, TypeOK
  <2>. QED BY <2>1, <2>2
<1>5. IndexAgrees'
  <2> SUFFICES ASSUME NEW s \in Session,
                      \A d \in Call : target'[d] = s => pc'[d] \notin BadPc
               PROVE  index'[s] = Listing(file[s])
    BY <1>0 DEF IndexAgrees, Listing
  <2>1. CASE s = t
    <3>1. pc'[c] = "done" /\ index' = seenIndex[c]
      BY <1>0, <1>1, <1>4, <2>1
    <3>2. Unharmed(t)
      BY <1>0, <1>2, <2>1 DEF Unharmed
    <3>. QED BY <1>1, <1>2, <2>1, <3>1, <3>2 DEF Relists
  <2>2. CASE s # t
    <3>1. \A d \in Call : target[d] = s => pc[d] \notin BadPc
      BY <1>0, <1>1, <2>2
    <3>2. index[s] = Listing(file[s])
      BY <3>1 DEF IndexInv, IndexAgrees
    <3>3. index'[s] = index[s]
      BY <1>1, <1>2, <1>4, <2>2 DEF Relists
    <3>. QED BY <3>2, <3>3
  <2>. QED BY <2>1, <2>2
<1>6. ASSUME NEW d \in Call PROVE Relists(d)'
  <2>1. CASE d # c \/ pc'[c] = "done"
    BY <1>0, <2>1 DEF Relists, Indexing
  <2>2. CASE d = c /\ pc'[c] = "renameIndex"
    <3>1. Unharmed(target[c])' => Unharmed(t)
      <4>1. Unharmed(target[c])' <=> Unharmed(t)'
        BY <1>0, <1>1 DEF Unharmed
      <4>. QED BY <1>3, <4>1
    <3>2. indexTmp' = seenIndex[c] /\ UNCHANGED <<seenIndex, index>>
      BY <1>4, <2>2
    <3>. QED BY <1>0, <1>1, <1>2, <2>2, <3>1, <3>2 DEF Relists, Listing
  <2>. QED BY <1>4, <2>1, <2>2
<1>. QED BY <1>5, <1>6 DEF IndexInv

\* Every step keeps files and index in agreement.
LEMMA IndexNext == IInv /\ IndexInv /\ [Next]_vars => IndexInv'
<1> SUFFICES ASSUME IInv, IndexInv, [Next]_vars, NoSummaries' PROVE IndexInv'
  BY DEF IndexInv
<1>0. ShapeInv /\ NoSummaries /\ \A s \in Session : Quiet(s)
  BY IInvShape, NoSummariesBack
<1>1. CASE \/ UNCHANGED vars
           \/ Crash
           \/ \E c \in Call : \/ Invoke(c) \/ BeginCreate(c) \/ BeginUpdate(c)
                              \/ BeginDelete(c) \/ WriteTmp(c) \/ IOError(c)
  BY <1>0, <1>1, IndexUntouched
<1>2. ASSUME NEW c \in Call, RenameTmp(c) \/ Unlink(c) PROVE IndexInv'
  <2>0. /\ pc[c] \in {"rename", "unlink"} /\ target[c] \in Session /\ op[c] # None
        /\ pc \in [Call -> Active \cup Settled \cup {"idle"}]
    BY <1>0, <1>2 DEF RenameTmp, Unlink, ShapeInv, CallShape, TypeOK, Busy
  <2>1. pc'[c] = "readIndex"
    <3>1. RenameTmp(c) => tmp[target[c]] # None
      <4>1. RenameTmp(c) => (pc[c] = "rename" /\ seen[c] \in SessionFile)
        BY <1>0 DEF RenameTmp, ShapeInv, CallShape
      <4>2. Current(c)
        BY <1>0, <2>0 DEF IInv
      <4>. QED BY <4>1, <4>2, NoneAssumption DEF Current
    <3>. QED BY <1>2, <2>0, <3>1 DEF RenameTmp, Unlink, Goto
  <2>. QED BY <1>0, <1>2, <2>1, IndexStored
<1>3. ASSUME NEW c \in Call, ReadIndex(c) PROVE IndexInv'
  BY <1>0, <1>3, IndexRead
<1>4. ASSUME NEW c \in Call, WriteIndexTmp(c) \/ RenameIndex(c) PROVE IndexInv'
  BY <1>0, <1>4, IndexWritten
<1>. QED BY <1>1, <1>2, <1>3, <1>4 DEF Next, Step

\* Without summaries the index lists the sessions there are, with their title
\* and count, however many calls, faults and sessions there are: an entry is
\* off only while a call is between its two renames, or after one was cut off.
THEOREM IndexListsSessions == Spec => []IndexAgrees
<1>1. Spec => []IndexInv
  BY IndexInit, IndexNext, IInvCorrect, PTL DEF Spec
<1>2. IndexInv => IndexAgrees
  BY DEF IndexInv, IndexAgrees
<1>. QED BY <1>1, <1>2, PTL

-----------------------------------------------------------------------------
(* The locked store implements the atomic map. *)

View == [s \in Session |-> IF s \in unlinked THEN Gone ELSE file[s]]

\* When every call takes the lock, the store is the atomic map: each step of
\* it is a step of the map or invisible.
THEOREM LockedStoreImplementsMap ==
  ASSUME SummaryCall = {}
  PROVE  Spec => ImplementsMap
<1>1. Init => Map!MapInit
  BY DEF Init, Map!MapInit
<1>2. ASSUME IInv, [Next]_vars PROVE [Map!MapNext]_View
  <2>0. \A s \in Session : Quiet(s)
    BY <1>2 DEF IInv, CallShape, Quiet
  <2>1. CASE \A s \in Session : Kept(s)
    BY <2>1 DEF View, Kept
  <2>2. ASSUME NEW c \in Call, target[c] \in Session, Changed(target[c]),
               \A s \in Session \ {target[c]} : Kept(s)
        PROVE  Map!MapNext
    <3>1. PICK s \in Session : s = target[c]
      BY <2>2
    <3>2. /\ Changed(s)
          /\ \A r \in Session \ {s} : Kept(r)
          /\ file[s] \in SessionFile \cup {None}
          /\ s \in unlinked => file[s] = None
      BY <1>2, <2>0, <2>2, <3>1 DEF IInv, TypeOK, DeletedStaysDeleted
    <3>3. \A r \in Session \ {s} : View'[r] = View[r]
      BY <3>2 DEF View, Kept
    <3>4. View' = [View EXCEPT ![s] = View'[s]]
      BY <3>3 DEF View
    <3>5. CASE Born(s)
      <4>1. /\ View[s] = None
            /\ \E t \in Call \cup {None} :
                 View'[s] = [msgs |-> <<>>, title |-> t, summary |-> None]
        BY <3>5 DEF Born, View
      <4>2. Map!Create(s)
        BY <3>4, <4>1 DEF Map!Create, View
      <4>. QED BY <4>2 DEF Map!MapNext
    <3>6. ASSUME file[s] # None PROVE Map!Live(s) /\ View[s] = file[s]
      BY <3>2, <3>6, NoneAssumption DEF Map!Live, View
    <3>7. CASE Added(s)
      <4>1. PICK m \in Call : View'[s] = [View[s] EXCEPT !.msgs = Append(@, m)]
        BY <3>2, <3>6, <3>7 DEF Added, View
      <4>2. Map!AddMessage(s)
        <5>1. Map!Live(s)
          BY <3>6, <3>7 DEF Added
        <5>2. View' = [View EXCEPT ![s] = [View[s] EXCEPT !.msgs = Append(@, m)]]
          BY <3>4, <4>1
        <5>3. \E n \in Call :
                 View' = [View EXCEPT ![s].msgs = Append(@, n)]
          BY <5>2
        <5>. QED BY <5>1, <5>3 DEF Map!AddMessage, View
      <4>. QED BY <4>2 DEF Map!MapNext
    <3>8. CASE Titled(s)
      <4>1. PICK m \in Call : View'[s] = [View[s] EXCEPT !.title = m]
        BY <3>2, <3>6, <3>8 DEF Titled, View
      <4>2. Map!SetTitle(s)
        BY <3>4, <3>6, <3>8, <4>1 DEF Map!SetTitle, View, Titled
      <4>. QED BY <4>2 DEF Map!MapNext
    <3>9. CASE Removed(s)
      <4>1. View'[s] = Gone
        BY <3>9 DEF Removed, View
      <4>2. Map!Delete(s)
        BY <3>4, <3>6, <3>9, <4>1 DEF Map!Delete, View, Removed
      <4>. QED BY <4>2 DEF Map!MapNext
    <3>. QED BY <3>2, <3>5, <3>7, <3>8, <3>9 DEF Changed
  <2>. QED BY <1>2, <2>0, <2>1, <2>2, FileStep
<1>3. IInv /\ [Next]_vars => [Map!MapNext]_View
  BY <1>2
<1>. QED BY <1>1, <1>3, IInvCorrect, PTL DEF Spec, ImplementsMap, Map!MapSpec, View
=============================================================================
