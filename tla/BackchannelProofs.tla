--------------------------- MODULE BackchannelProofs ---------------------------
(***************************************************************************)
(* For any number of windows, tool calls, folder names and tools, nobody   *)
(* waits over the backchannel for an answer that is not pending, and named *)
(* tools belong to an open connection of that folder.                      *)
(***************************************************************************)
EXTENDS Backchannel, TLAPS, SequenceTheorems

\* A folder is known only after the answer to the first request, and nothing
\* happens to a connection before it is opened.
FolderLate ==
  \A c \in Conn : /\ c \notin opened => shake[c] = "none"
                  /\ shake[c] \in {"none", "soon", "workspace"} => path[c] = None

\* PendingAwaited, request by request.
Awaited ==
  \A c \in Conn :
    /\ \A r \in pending[c] : \/ \E w \in Waiting : r = <<w, c>>
                             \/ \E k \in Call : r = <<"invoke", k>>
    /\ \A w \in Waiting : <<w, c>> \in pending[c] <=> shake[c] = w
    /\ \A k \in Call : <<"invoke", k>> \in pending[c] <=> call[k].pc = "waiting" /\ call[k].over = c

IInv == TypeOK /\ Awaited /\ NamedToolsOwned /\ FolderLate

--------------------------------------------------------------------------------
(* The parts of a step. *)

\* A connection's tools are kept under the name of a source.
LEMMA SourceType ==
  ASSUME TypeOK, NEW c \in Conn
  PROVE  SourceOf(c) \in Source
BY DEF TypeOK, SourceOf, Source

\* Removing from a source and adding to it yields a registry.
LEMMA RegistryType ==
  ASSUME TypeOK, NEW n \in Source, NEW c \in Conn, NEW T \in SUBSET Tool
  PROVE  /\ Cleared(n) \in [Source -> [Tool -> Conn \cup {None}]]
         /\ Added(registry, n, c, T) \in [Source -> [Tool -> Conn \cup {None}]]
         /\ Added(Cleared(n), n, c, T) \in [Source -> [Tool -> Conn \cup {None}]]
<1>1. Empty \in [Tool -> Conn \cup {None}]
  BY DEF Empty
<1>2. Cleared(n) \in [Source -> [Tool -> Conn \cup {None}]]
  BY <1>1 DEF Cleared, TypeOK
<1>3. ASSUME NEW reg \in [Source -> [Tool -> Conn \cup {None}]]
      PROVE  Added(reg, n, c, T) \in [Source -> [Tool -> Conn \cup {None}]]
  <2>1. [t \in Tool |-> IF t \in T THEN c ELSE reg[n][t]] \in [Tool -> Conn \cup {None}]
    OBVIOUS
  <2> QED BY <2>1 DEF Added
<1>4. registry \in [Source -> [Tool -> Conn \cup {None}]]
  BY DEF TypeOK
<1> QED BY <1>2, <1>3, <1>4

\* A connection that is removed leaves the others in the map.
LEMMA RemoveAtProperties ==
  ASSUME NEW S, NEW s \in Seq(S), NEW i \in DOMAIN s
  PROVE  /\ RemoveAt(s, i) \in Seq(S)
         /\ \A x \in Range(s) : x # s[i] => x \in Range(RemoveAt(s, i))
<1> DEFINE a == SubSeq(s, 1, i - 1)
           b == SubSeq(s, i + 1, Len(s))
<1>1. DOMAIN s = 1..Len(s) /\ Len(s) \in Nat /\ \A j \in 1..Len(s) : s[j] \in S
  BY LenProperties, ElementOfSeq
<1>2. /\ a \in Seq(S) /\ Len(a) = i - 1
      /\ \A j \in 1..(i - 1) : a[j] = s[j]
  BY <1>1, SubSeqProperties
<1>3. /\ b \in Seq(S) /\ Len(b) = Len(s) - i
      /\ \A j \in 1..(Len(s) - i) : b[j] = s[i + j]
  BY <1>1, SubSeqProperties
<1> HIDE DEF a, b
<1>4. /\ a \o b \in Seq(S) /\ Range(a \o b) = Range(a) \cup Range(b)
      /\ Range(a) = {a[j] : j \in 1..Len(a)} /\ Range(b) = {b[j] : j \in 1..Len(b)}
  BY <1>2, <1>3, ConcatProperties, RangeConcatenation, RangeEquality
<1>5. ASSUME NEW j \in 1..Len(s), s[j] # s[i]
      PROVE  s[j] \in Range(a) \cup Range(b)
  <2>1. CASE j < i
    BY <2>1, <1>1, <1>2, <1>4
  <2>2. CASE j > i
    <3> DEFINE k == j - i
    <3>1. k \in 1..(Len(s) - i) /\ i + k = j
      BY <2>2, <1>1
    <3> HIDE DEF k
    <3>2. b[k] = s[j] /\ k \in 1..Len(b)
      BY <3>1, <1>3
    <3> QED BY <3>2, <1>4
  <2> QED BY <1>1, <1>5, <2>1, <2>2
<1>6. RemoveAt(s, i) = a \o b
  BY DEF RemoveAt, a, b
<1>7. \A x \in Range(s) : \E j \in 1..Len(s) : x = s[j]
  BY RangeEquality
<1> QED BY <1>4, <1>5, <1>6, <1>7

\* A request that is written to a stream, or lost.
LEMMA SendType ==
  ASSUME TypeOK, NEW c \in Conn, NEW r \in Request, Send(c, r)
  PROVE  pending' \in [Conn -> SUBSET Request] /\ out' \in [Conn -> Seq(Request)]
<1>1. out[c] \in Seq(Request) /\ Append(out[c], r) \in Seq(Request)
  BY AppendProperties DEF TypeOK
<1> QED BY <1>1 DEF Send, TypeOK

\* Requests that are rejected are no longer pending, and who waits for them fails.
LEMMA RejectType ==
  ASSUME TypeOK, NEW c \in Conn, NEW R, Reject(c, R)
  PROVE  /\ pending' \in [Conn -> SUBSET Request]
         /\ shake' \in [Conn -> Waiting \cup {"none", "soon", "done", "failed"}]
         /\ call' \in [Call -> [pc : {"idle", "waiting", "done", "failed"}, over : Conn \cup {None}]]
BY DEF Reject, TypeOK


\* The two forms are the same.
LEMMA AwaitedIsPending ==
  ASSUME TypeOK
  PROVE  PendingAwaited <=> Awaited
<1> DEFINE W(c) == {<<w, c>> : w \in Waiting \cap {shake[c]}}
           K(c) == {j \in Call : call[j] = [pc |-> "waiting", over |-> c]}
           I(c) == {<<"invoke", k>> : k \in K(c)}
<1>1. \A c \in Conn : \A w : <<w, c>> \in W(c) <=> w \in Waiting /\ shake[c] = w
  OBVIOUS
<1>2. \A c \in Conn : \A w \in Waiting : <<w, c>> \notin I(c)
  BY DEF Waiting
<1>3. \A c \in Conn : \A k : <<"invoke", k>> \notin W(c)
  BY DEF Waiting
<1>4. \A c \in Conn : \A k : <<"invoke", k>> \in I(c) <=> k \in K(c)
  OBVIOUS
<1>5. \A c \in Conn : \A k \in Call : k \in K(c) <=> call[k].pc = "waiting" /\ call[k].over = c
  BY DEF TypeOK
<1>6. \A c \in Conn : \A r \in W(c) \cup I(c) : \/ \E w \in Waiting : r = <<w, c>>
                                              \/ \E k \in Call : r = <<"invoke", k>>
  OBVIOUS
<1>7. PendingAwaited <=> \A c \in Conn : pending[c] = W(c) \cup I(c)
  BY DEF PendingAwaited
<1> HIDE DEF W, I, K
<1>8. ASSUME \A c \in Conn : pending[c] = W(c) \cup I(c)
      PROVE  Awaited
  BY <1>1, <1>2, <1>3, <1>4, <1>5, <1>6, <1>8 DEF Awaited
<1>9. ASSUME Awaited, NEW c \in Conn
      PROVE  pending[c] = W(c) \cup I(c)
  <2>1. ASSUME NEW r \in pending[c] PROVE r \in W(c) \cup I(c)
    BY <2>1, <1>9, <1>1, <1>4, <1>5 DEF Awaited
  <2>2. ASSUME NEW r \in W(c) \cup I(c) PROVE r \in pending[c]
    BY <2>2, <1>9, <1>1, <1>2, <1>3, <1>4, <1>5, <1>6 DEF Awaited
  <2> QED BY <2>1, <2>2
<1> QED BY <1>7, <1>8, <1>9

\* Requests that c has pending and that are rejected: those who wait for them
\* fail, and nobody else does.
LEMMA RejectKeeps ==
  ASSUME TypeOK, Awaited, NEW c \in Conn, NEW R \in SUBSET pending[c], Reject(c, R)
  PROVE  Awaited'
<1>1. pending' = [pending EXCEPT ![c] = @ \ R]
  BY DEF Reject
<1>2. ASSUME NEW d \in Conn, NEW w \in Waiting
      PROVE  <<w, d>> \in pending'[d] <=> shake'[d] = w
  <2>1. shake' = IF \E v \in Waiting : <<v, c>> \in R
                 THEN [shake EXCEPT ![c] = "failed"] ELSE shake
    BY DEF Reject
  <2>2. shake \in [Conn -> Waiting \cup {"none", "soon", "done", "failed"}] /\ pending[c] \in SUBSET Request
    BY DEF TypeOK
  <2>3. <<w, d>> \in pending[d] <=> shake[d] = w
    BY DEF Awaited
  <2>4. CASE d # c
    BY <1>1, <2>1, <2>2, <2>3, <2>4 DEF TypeOK
  <2>5. CASE d = c /\ <<w, c>> \in R
    <3>1. shake'[c] = "failed"
      BY <2>1, <2>2, <2>5
    <3> QED BY <1>1, <2>5, <3>1 DEF TypeOK, Waiting
  <2>6. CASE d = c /\ <<w, c>> \notin R
    <3>1. <<w, c>> \in pending'[c] <=> <<w, c>> \in pending[c]
      BY <1>1, <2>6 DEF TypeOK
    <3>2. CASE shake' = shake
      BY <3>1, <3>2, <2>3, <2>6
    <3>3. CASE \E v \in Waiting : <<v, c>> \in R
      <4>1. PICK v \in Waiting : <<v, c>> \in R
        BY <3>3
      <4>2. shake[c] = v /\ v # w
        BY <4>1, <2>6 DEF Awaited
      <4>3. shake'[c] = "failed" /\ w # "failed"
        BY <2>1, <2>2, <3>3 DEF Waiting
      <4> QED BY <3>1, <4>2, <4>3, <2>3, <2>6
    <3> QED BY <2>1, <3>2, <3>3
  <2> QED BY <2>4, <2>5, <2>6
<1>3. ASSUME NEW d \in Conn, NEW k \in Call
      PROVE  <<"invoke", k>> \in pending'[d] <=> call'[k].pc = "waiting" /\ call'[k].over = d
  BY DEF Reject, TypeOK, Awaited
<1>4. \A d \in Conn : pending'[d] \subseteq pending[d]
  BY <1>1 DEF TypeOK
<1> QED BY <1>2, <1>3, <1>4 DEF Awaited

\* A step that settles some of the three parts of Awaited and leaves the others.
LEMMA AwaitedStep ==
  ASSUME Awaited,
         \A c \in Conn : \A r \in pending'[c] :
            r \in pending[c] \/ (\E w \in Waiting : r = <<w, c>>) \/ (\E k \in Call : r = <<"invoke", k>>),
         \A c \in Conn, w \in Waiting :
            \/ <<w, c>> \in pending'[c] <=> shake'[c] = w
            \/ /\ <<w, c>> \in pending'[c] <=> <<w, c>> \in pending[c]
               /\ shake'[c] = w <=> shake[c] = w,
         \A c \in Conn, k \in Call :
            \/ <<"invoke", k>> \in pending'[c] <=> call'[k].pc = "waiting" /\ call'[k].over = c
            \/ /\ <<"invoke", k>> \in pending'[c] <=> <<"invoke", k>> \in pending[c]
               /\ call'[k] = call[k]
  PROVE  Awaited'
<1>1. \A c \in Conn : \A r \in pending'[c] : \/ \E w \in Waiting : r = <<w, c>>
                                             \/ \E k \in Call : r = <<"invoke", k>>
  BY DEF Awaited
<1>2. \A c \in Conn, w \in Waiting : <<w, c>> \in pending'[c] <=> shake'[c] = w
  BY DEF Awaited
<1>3. ASSUME NEW c \in Conn, NEW k \in Call
      PROVE  <<"invoke", k>> \in pending'[c] <=> call'[k].pc = "waiting" /\ call'[k].over = c
  <2>1. <<"invoke", k>> \in pending[c] <=> call[k].pc = "waiting" /\ call[k].over = c
    BY DEF Awaited
  <2>2. CASE /\ <<"invoke", k>> \in pending'[c] <=> <<"invoke", k>> \in pending[c]
             /\ call'[k] = call[k]
    BY <2>1, <2>2
  <2> QED BY <2>2
<1> QED BY <1>1, <1>2, <1>3 DEF Awaited

--------------------------------------------------------------------------------
(* The daemon's requests. *)

\* A window that connects joins the connections and has nothing registered yet.
LEMMA OpenKeeps ==
  ASSUME IInv, NEW c \in Conn, Open(c)
  PROVE  IInv'
<1>0. TypeOK /\ Awaited /\ NamedToolsOwned /\ FolderLate
  BY DEF IInv
<1>1. conns' \in Seq(Conn) /\ \A d \in Connected : d \in Connected'
  <2>1. conns \in Seq(Conn) /\ conns' = Append(conns, c)
    BY <1>0 DEF Open, TypeOK
  <2>2. conns' \in Seq(Conn) /\ conns' = conns \o <<c>> /\ <<c>> \in Seq(Conn)
    BY <2>1, AppendProperties, AppendIsConcat
  <2>3. Range(conns') = Range(conns) \cup Range(<<c>>)
    BY <2>1, <2>2, RangeConcatenation
  <2> QED BY <2>2, <2>3 DEF Connected
<1>2. TypeOK'
  BY <1>0, <1>1 DEF Open, TypeOK, windowVars
<1>3. shake[c] = "none" /\ shake' = [shake EXCEPT ![c] = "soon"]
  BY <1>0 DEF Open, FolderLate
<1>4. Awaited'
  <2>1. UNCHANGED <<pending, call>>
    BY DEF Open
  <2>2. \A d \in Conn, w \in Waiting : shake'[d] = w <=> shake[d] = w
    BY <1>0, <1>3 DEF TypeOK, Waiting
  <2> QED BY <1>0, <2>1, <2>2, AwaitedStep
<1>5. NamedToolsOwned'
  BY <1>0, <1>1 DEF Open, NamedToolsOwned
<1>6. FolderLate'
  BY <1>0, <1>3 DEF Open, FolderLate, TypeOK
<1> QED BY <1>2, <1>4, <1>5, <1>6 DEF IInv

\* The handshake asks for the workspace, and waits for the answer.
LEMMA HandshakeKeeps ==
  ASSUME IInv, NEW c \in Conn, Handshake(c)
  PROVE  IInv'
<1>0. TypeOK /\ Awaited /\ NamedToolsOwned /\ FolderLate
  BY DEF IInv
<1>1. /\ shake[c] = "soon"
      /\ UNCHANGED <<conns, path, registry, call, up, opened, back, busy, folder, offered, changes>>
  BY DEF Handshake, windowVars
<1>2. NamedToolsOwned'
  BY <1>0, <1>1 DEF NamedToolsOwned, Connected
<1>3. CASE shake' = [shake EXCEPT ![c] = "workspace"] /\ Send(c, <<"workspace", c>>)
  <2>1. <<"workspace", c>> \in Request
    BY DEF Request
  <2>2. TypeOK'
    BY <1>0, <1>1, <1>3, <2>1, SendType DEF TypeOK, Waiting
  <2>3. pending' = [pending EXCEPT ![c] = @ \cup {<<"workspace", c>>}]
    BY <1>3 DEF Send
  <2>4. Awaited'
    <3>1. pending \in [Conn -> SUBSET Request] /\ shake \in [Conn -> Waiting \cup {"none", "soon", "done", "failed"}]
      BY <1>0 DEF TypeOK
    <3>2. \A d \in Conn : \A r \in pending'[d] : r \in pending[d] \/ (d = c /\ r = <<"workspace", c>>)
      BY <2>3, <3>1
    <3>3. \A d \in Conn : \A r \in pending[d] : r \in pending'[d]
      BY <2>3, <3>1
    <3>4. <<"workspace", c>> \in pending'[c] /\ shake'[c] = "workspace" /\ "workspace" \in Waiting
      BY <1>3, <2>3, <3>1 DEF Waiting
    <3>5. ASSUME NEW d \in Conn, NEW w \in Waiting
          PROVE  \/ <<w, d>> \in pending'[d] <=> shake'[d] = w
                 \/ /\ <<w, d>> \in pending'[d] <=> <<w, d>> \in pending[d]
                    /\ shake'[d] = w <=> shake[d] = w
      <4>1. CASE d = c /\ w = "workspace"
        BY <4>1, <3>4
      <4>2. CASE d = c /\ w # "workspace"
        BY <4>2, <1>1, <3>2, <3>3, <3>4 DEF Waiting
      <4>3. CASE d # c
        BY <4>3, <1>3, <3>1, <3>2, <3>3
      <4> QED BY <4>1, <4>2, <4>3
    <3>6. \A d \in Conn, k \in Call : <<"invoke", k>> \in pending'[d] <=> <<"invoke", k>> \in pending[d]
      BY <3>2, <3>3
    <3> QED BY <1>0, <1>1, <3>2, <3>4, <3>5, <3>6, AwaitedStep
  <2>5. FolderLate'
    BY <1>0, <1>1, <1>3 DEF FolderLate, TypeOK
  <2> QED BY <1>2, <2>2, <2>4, <2>5 DEF IInv
<1>4. CASE shake' = [shake EXCEPT ![c] = "failed"] /\ UNCHANGED <<pending, out>>
  <2>1. TypeOK'
    BY <1>0, <1>1, <1>4 DEF TypeOK
  <2>2. Awaited'
    <3>1. \A d \in Conn, w \in Waiting : shake'[d] = w <=> shake[d] = w
      BY <1>0, <1>1, <1>4 DEF TypeOK, Waiting
    <3> QED BY <1>0, <1>1, <1>4, <3>1, AwaitedStep
  <2>3. FolderLate'
    BY <1>0, <1>1, <1>4 DEF FolderLate, TypeOK
  <2> QED BY <1>2, <2>1, <2>2, <2>3 DEF IInv
<1> QED BY <1>3, <1>4 DEF Handshake

\* A tool call goes to the first connection and waits there, or fails at once.
LEMMA InvokeKeeps ==
  ASSUME IInv, NEW k \in Call, Invoke(k)
  PROVE  IInv'
<1>0. TypeOK /\ Awaited /\ NamedToolsOwned /\ FolderLate
  BY DEF IInv
<1>1. /\ call[k].pc = "idle"
      /\ UNCHANGED <<conns, path, registry, shake, up, opened, back, busy, folder, offered, changes>>
  BY DEF Invoke, windowVars
<1>2. NamedToolsOwned' /\ FolderLate'
  BY <1>0, <1>1 DEF NamedToolsOwned, Connected, FolderLate
<1>3. CASE /\ conns # <<>> /\ Send(conns[1], <<"invoke", k>>)
           /\ call' = [call EXCEPT ![k] = [pc |-> "waiting", over |-> conns[1]]]
  <2>1. <<"invoke", k>> \in Request
    BY DEF Request
  <2>2. conns[1] \in Conn
    BY <1>0, <1>3 DEF TypeOK
  <2>3. TypeOK'
    BY <1>0, <1>1, <1>3, <2>1, <2>2, SendType DEF TypeOK
  <2>4. pending' = [pending EXCEPT ![conns[1]] = @ \cup {<<"invoke", k>>}]
    BY <1>3 DEF Send
  <2>5. Awaited'
    <3> DEFINE c == conns[1]
    <3>1. pending \in [Conn -> SUBSET Request]
      BY <1>0 DEF TypeOK
    <3> HIDE DEF c
    <3>2. \A d \in Conn : \A r \in pending'[d] : r \in pending[d] \/ (d = c /\ r = <<"invoke", k>>)
      BY <2>2, <2>4, <3>1 DEF c
    <3>3. \A d \in Conn : \A r \in pending[d] : r \in pending'[d]
      BY <2>2, <2>4, <3>1 DEF c
    <3>4. <<"invoke", k>> \in pending'[c] /\ call'[k].pc = "waiting" /\ call'[k].over = c
      BY <1>0, <1>3, <2>2, <2>4, <3>1 DEF c, TypeOK
    <3>5. \A d \in Conn, w \in Waiting : <<w, d>> \in pending'[d] <=> <<w, d>> \in pending[d]
      BY <3>2, <3>3 DEF Waiting
    <3>6. ASSUME NEW d \in Conn, NEW j \in Call
          PROVE  \/ <<"invoke", j>> \in pending'[d] <=> call'[j].pc = "waiting" /\ call'[j].over = d
                 \/ /\ <<"invoke", j>> \in pending'[d] <=> <<"invoke", j>> \in pending[d]
                    /\ call'[j] = call[j]
      <4>1. CASE j # k
        BY <4>1, <1>0, <1>3, <3>2, <3>3 DEF TypeOK
      <4>2. CASE j = k /\ d = c
        BY <4>2, <3>4
      <4>3. CASE j = k /\ d # c
        <5>1. <<"invoke", k>> \notin pending[d]
          BY <1>0, <1>1 DEF Awaited
        <5> QED BY <4>3, <5>1, <3>2, <3>4
      <4> QED BY <4>1, <4>2, <4>3
    <3> QED BY <1>0, <1>1, <3>2, <3>5, <3>6, AwaitedStep
  <2> QED BY <1>2, <2>3, <2>5 DEF IInv
<1>4. CASE call' = [call EXCEPT ![k].pc = "failed"] /\ UNCHANGED <<pending, out>>
  <2>1. TypeOK'
    BY <1>0, <1>1, <1>4 DEF TypeOK
  <2>2. Awaited'
    BY <1>0, <1>1, <1>4 DEF Awaited, TypeOK
  <2> QED BY <1>2, <2>1, <2>2 DEF IInv
<1> QED BY <1>3, <1>4 DEF Invoke

\* A request that takes too long is rejected.
LEMMA TimeoutKeeps ==
  ASSUME IInv, NEW c \in Conn, Timeout(c)
  PROVE  IInv'
<1>0. TypeOK /\ Awaited /\ NamedToolsOwned /\ FolderLate
  BY DEF IInv
<1> PICK r \in pending[c] : Reject(c, {r})
  BY DEF Timeout
<1>1. UNCHANGED <<conns, path, registry, up, opened, back, out, busy, folder, offered, changes>>
  BY DEF Timeout, windowVars
<1>2. TypeOK'
  BY <1>0, <1>1, RejectType DEF TypeOK
<1>3. {r} \in SUBSET pending[c]
  OBVIOUS
<1>4. Awaited'
  BY <1>0, <1>3, RejectKeeps
<1>5. NamedToolsOwned' /\ FolderLate'
  <2>1. \A d \in Conn : shake'[d] \in {shake[d], "failed"}
    BY <1>0 DEF Reject, TypeOK
  <2>2. \A w \in Waiting : <<w, c>> = r => shake[c] = w
    BY <1>0 DEF Awaited
  <2>3. shake'[c] # shake[c] => shake[c] \in Waiting
    BY <1>0, <2>2 DEF Reject, TypeOK
  <2>4. \A d \in Conn : shake[d] = "none" => shake'[d] = "none"
    BY <1>0, <2>3 DEF Reject, TypeOK, Waiting
  <2>5. FolderLate'
    BY <1>0, <1>1, <2>1, <2>4 DEF FolderLate
  <2> QED BY <1>0, <1>1, <2>5 DEF NamedToolsOwned, Connected
<1> QED BY <1>2, <1>4, <1>5 DEF IInv

--------------------------------------------------------------------------------
(* What the daemon does with messages, and how a stream ends. *)

\* Nothing but messages to the daemon is taken from back.
LEMMA ReceiveType ==
  ASSUME IInv, NEW c \in Conn, Receive(c)
  PROVE  /\ Head(back[c]) \in Message /\ back' \in [Conn -> Seq(Message)]
         /\ c \in Connected
         /\ UNCHANGED <<conns, busy, folder, offered, changes, up, opened>>
<1>1. back[c] \in Seq(Message) /\ back[c] # <<>>
  BY DEF IInv, TypeOK, Receive
<1>2. Head(back[c]) \in Message /\ Tail(back[c]) \in Seq(Message)
  BY <1>1, HeadTailProperties
<1> QED BY <1>2 DEF IInv, TypeOK, Receive, windowVars

\* Tools that c registers under its own name are its own.
LEMMA AddedOwned ==
  ASSUME TypeOK, NamedToolsOwned, NEW c \in Connected, c \in Conn, NEW T \in SUBSET Tool,
         conns' = conns, path' = path,
         \/ registry' = Added(registry, SourceOf(c), c, T)
         \/ registry' = Added(Cleared(SourceOf(c)), SourceOf(c), c, T)
  PROVE  NamedToolsOwned'
<1> SUFFICES ASSUME NEW n \in Name, NEW t \in Tool, registry'[n][t] # None
             PROVE  registry'[n][t] \in Connected /\ path[registry'[n][t]] = n
  BY DEF NamedToolsOwned, Connected
<1>1. n \in Source /\ SourceOf(c) \in Source /\ None \notin Conn /\ n # Vscode
  BY SourceType, DistinctNames DEF Source
<1>2. registry'[n][t] \in {registry[n][t], None} \/ (n = SourceOf(c) /\ registry'[n][t] = c)
  BY <1>1 DEF TypeOK, Added, Cleared, Empty
<1>3. n = SourceOf(c) => path[c] = n
  BY <1>1 DEF SourceOf
<1> QED BY <1>2, <1>3 DEF NamedToolsOwned

\* What a window answers or announces: the request it was waited for is settled,
\* and the tools are registered for it.
LEMMA ReceiveKeeps ==
  ASSUME IInv, NEW c \in Conn, Receive(c)
  PROVE  IInv'
<1> DEFINE m == Head(back[c])
<1>0. TypeOK /\ Awaited /\ NamedToolsOwned /\ FolderLate
  BY DEF IInv
<1>r. /\ m \in Message /\ back' \in [Conn -> Seq(Message)] /\ c \in Connected
      /\ UNCHANGED <<conns, busy, folder, offered, changes, up, opened>>
  BY ReceiveType
<1> HIDE DEF m
<1>t. m.tools \in SUBSET Tool
  BY <1>r DEF Message
<1>s. SourceOf(c) \in Source
  BY <1>0, SourceType
<1>1. CASE Notified(c, m)
  <2>1. registry' = Added(Cleared(SourceOf(c)), SourceOf(c), c, m.tools)
        /\ UNCHANGED <<path, pending, shake, call, out>>
    BY <1>1 DEF Notified
  <2>2. TypeOK'
    BY <1>0, <1>r, <1>s, <1>t, <2>1, RegistryType DEF TypeOK
  <2>3. NamedToolsOwned'
    BY <1>0, <1>r, <1>t, <2>1, AddedOwned
  <2> QED BY <1>0, <1>r, <2>1, <2>2, <2>3 DEF IInv, Awaited, FolderLate
<1>2. CASE TooLate(c, m)
  BY <1>0, <1>r, <1>2 DEF TooLate, IInv, TypeOK, Awaited, FolderLate, NamedToolsOwned, Connected
<1>3. CASE WorkspaceKnown(c, m)
  <2>1. /\ shake[c] = "workspace" /\ <<"workspace", c>> \in pending[c]
        /\ path[c] = None /\ m.answers = <<"workspace", c>>
        /\ path' = [path EXCEPT ![c] = KnownPath(c)] /\ UNCHANGED <<registry, call>>
    <3>1. /\ <<"workspace", c>> \in pending[c] /\ m.answers = <<"workspace", c>>
          /\ path' = [path EXCEPT ![c] = KnownPath(c)] /\ UNCHANGED <<registry, call>>
      BY <1>3 DEF WorkspaceKnown
    <3>2. shake[c] = "workspace"
      BY <1>0, <3>1 DEF Awaited, Waiting
    <3> QED BY <1>0, <3>1, <3>2 DEF FolderLate
  <2>2. KnownPath(c) \in Name \cup {None}
    BY <1>0 DEF KnownPath, TypeOK
  <2>3. NamedToolsOwned'
    <3> SUFFICES ASSUME NEW n \in Name, NEW t \in Tool, registry[n][t] # None
                 PROVE  registry[n][t] \in Connected /\ path'[registry[n][t]] = n
      BY <1>r, <2>1 DEF NamedToolsOwned, Connected
    <3>1. registry[n][t] \in Connected /\ path[registry[n][t]] = n
      BY <1>0 DEF NamedToolsOwned
    <3>2. registry[n][t] # c
      BY <2>1, <3>1, DistinctNames
    <3> QED BY <1>0, <2>1, <3>1, <3>2 DEF TypeOK
  <2>4. CASE /\ shake' = [shake EXCEPT ![c] = "tools"]
             /\ pending' = [pending EXCEPT ![c] = (@ \ {m.answers}) \cup {<<"tools", c>>}]
             /\ out' = IF c \in up THEN [out EXCEPT ![c] = Append(@, <<"tools", c>>)] ELSE out
    <3>1. <<"tools", c>> \in Request /\ pending \in [Conn -> SUBSET Request]
      BY <1>0 DEF Request, TypeOK
    <3>2. out[c] \in Seq(Request) /\ Append(out[c], <<"tools", c>>) \in Seq(Request)
      BY <1>0, <3>1, AppendProperties DEF TypeOK
    <3>3. TypeOK'
      BY <1>0, <1>r, <2>1, <2>2, <2>4, <3>1, <3>2 DEF TypeOK, Waiting
    <3>4. \A d \in Conn : \A r : r \in pending'[d] <=>
             \/ r \in pending[d] /\ ~(d = c /\ r = <<"workspace", c>>)
             \/ d = c /\ r = <<"tools", c>>
      BY <2>1, <2>4, <3>1
    <3>5. \A d \in Conn : shake'[d] = IF d = c THEN "tools" ELSE shake[d]
      BY <1>0, <2>4 DEF TypeOK
    <3>6. ASSUME NEW d \in Conn, NEW w \in Waiting
          PROVE  \/ <<w, d>> \in pending'[d] <=> shake'[d] = w
                 \/ /\ <<w, d>> \in pending'[d] <=> <<w, d>> \in pending[d]
                    /\ shake'[d] = w <=> shake[d] = w
      <4>1. CASE d # c
        BY <4>1, <3>4, <3>5
      <4>2. CASE d = c /\ w = "tools"
        BY <4>2, <3>4, <3>5
      <4>3. CASE d = c /\ w = "workspace"
        BY <4>3, <3>4, <3>5
      <4> QED BY <4>1, <4>2, <4>3 DEF Waiting
    <3>7. \A d \in Conn, k \in Call : <<"invoke", k>> \in pending'[d] <=> <<"invoke", k>> \in pending[d]
      BY <3>4
    <3>8. \A d \in Conn : \A r \in pending'[d] :
             r \in pending[d] \/ (\E w \in Waiting : r = <<w, d>>) \/ (\E k \in Call : r = <<"invoke", k>>)
      BY <3>4 DEF Waiting
    <3>9. Awaited'
      BY <1>0, <2>1, <3>6, <3>7, <3>8, AwaitedStep
    <3>10. FolderLate'
      BY <1>0, <1>r, <2>1, <3>5 DEF FolderLate, TypeOK
    <3> QED BY <2>3, <3>3, <3>9, <3>10 DEF IInv
  <2>5. CASE /\ shake' = [shake EXCEPT ![c] = "failed"]
             /\ pending' = [pending EXCEPT ![c] = @ \ {m.answers}]
             /\ UNCHANGED out
    <3>1. TypeOK'
      BY <1>0, <1>r, <2>1, <2>2, <2>5 DEF TypeOK, Waiting
    <3>2. \A d \in Conn : \A r : r \in pending'[d] <=> r \in pending[d] /\ ~(d = c /\ r = <<"workspace", c>>)
      BY <1>0, <2>1, <2>5 DEF TypeOK
    <3>3. \A d \in Conn : shake'[d] = IF d = c THEN "failed" ELSE shake[d]
      BY <1>0, <2>5 DEF TypeOK
    <3>4. ASSUME NEW d \in Conn, NEW w \in Waiting
          PROVE  \/ <<w, d>> \in pending'[d] <=> shake'[d] = w
                 \/ /\ <<w, d>> \in pending'[d] <=> <<w, d>> \in pending[d]
                    /\ shake'[d] = w <=> shake[d] = w
      <4>1. CASE d # c
        BY <4>1, <3>2, <3>3
      <4>2. CASE d = c /\ w = "tools"
        BY <4>2, <2>1, <3>2, <3>3
      <4>3. CASE d = c /\ w = "workspace"
        BY <4>3, <3>2, <3>3
      <4> QED BY <4>1, <4>2, <4>3 DEF Waiting
    <3>5. \A d \in Conn, k \in Call : <<"invoke", k>> \in pending'[d] <=> <<"invoke", k>> \in pending[d]
      BY <3>2
    <3>6. Awaited'
      BY <1>0, <2>1, <3>2, <3>4, <3>5, AwaitedStep
    <3>7. FolderLate'
      BY <1>0, <1>r, <2>1, <3>3 DEF FolderLate, TypeOK
    <3> QED BY <2>3, <3>1, <3>6, <3>7 DEF IInv
  <2> QED BY <1>3, <2>4, <2>5 DEF WorkspaceKnown
<1>4. CASE ToolsKnown(c, m)
  <2>1. /\ shake[c] = "tools" /\ m.answers = <<"tools", c>>
        /\ pending' = [pending EXCEPT ![c] = @ \ {m.answers}]
        /\ registry' = Added(registry, SourceOf(c), c, m.tools)
        /\ shake' = [shake EXCEPT ![c] = "done"] /\ UNCHANGED <<path, call, out>>
    BY <1>0, <1>4 DEF ToolsKnown, Awaited, Waiting
  <2>2. TypeOK'
    BY <1>0, <1>r, <1>s, <1>t, <2>1, RegistryType DEF TypeOK
  <2>3. NamedToolsOwned'
    BY <1>0, <1>r, <1>t, <2>1, AddedOwned
  <2>4. \A d \in Conn : \A r : r \in pending'[d] <=> r \in pending[d] /\ ~(d = c /\ r = <<"tools", c>>)
    BY <1>0, <2>1 DEF TypeOK
  <2>5. \A d \in Conn : shake'[d] = IF d = c THEN "done" ELSE shake[d]
    BY <1>0, <2>1 DEF TypeOK
  <2>6. ASSUME NEW d \in Conn, NEW w \in Waiting
        PROVE  \/ <<w, d>> \in pending'[d] <=> shake'[d] = w
               \/ /\ <<w, d>> \in pending'[d] <=> <<w, d>> \in pending[d]
                  /\ shake'[d] = w <=> shake[d] = w
    <3>1. CASE d # c
      BY <3>1, <2>4, <2>5
    <3>2. CASE d = c /\ w = "tools"
      BY <3>2, <2>4, <2>5
    <3>3. CASE d = c /\ w = "workspace"
      BY <3>3, <2>1, <2>4, <2>5
    <3> QED BY <3>1, <3>2, <3>3 DEF Waiting
  <2>7. \A d \in Conn, k \in Call : <<"invoke", k>> \in pending'[d] <=> <<"invoke", k>> \in pending[d]
    BY <2>4
  <2>8. Awaited'
    BY <1>0, <2>1, <2>4, <2>6, <2>7, AwaitedStep
  <2>9. FolderLate'
    BY <1>0, <1>r, <2>1, <2>5 DEF FolderLate, TypeOK
  <2> QED BY <2>2, <2>3, <2>8, <2>9 DEF IInv
<1>5. CASE Returned(c, m)
  <2> PICK k \in Call : m.answers = <<"invoke", k>> /\ call' = [call EXCEPT ![k].pc = "done"]
    BY <1>5 DEF Returned
  <2>1. /\ <<"invoke", k>> \in pending[c] /\ call[k].pc = "waiting" /\ call[k].over = c
        /\ pending' = [pending EXCEPT ![c] = @ \ {m.answers}]
        /\ UNCHANGED <<path, registry, shake, out>>
    <3>1. /\ <<"invoke", k>> \in pending[c]
          /\ pending' = [pending EXCEPT ![c] = @ \ {m.answers}]
          /\ UNCHANGED <<path, registry, shake, out>>
      BY <1>5 DEF Returned
    <3> QED BY <1>0, <3>1 DEF Awaited
  <2>2. TypeOK'
    BY <1>0, <1>r, <2>1 DEF TypeOK
  <2>3. \A d \in Conn : \A r : r \in pending'[d] <=> r \in pending[d] /\ ~(d = c /\ r = <<"invoke", k>>)
    BY <1>0, <2>1 DEF TypeOK
  <2>4. \A d \in Conn, w \in Waiting : <<w, d>> \in pending'[d] <=> <<w, d>> \in pending[d]
    BY <2>3 DEF Waiting
  <2>5. ASSUME NEW d \in Conn, NEW j \in Call
        PROVE  \/ <<"invoke", j>> \in pending'[d] <=> call'[j].pc = "waiting" /\ call'[j].over = d
               \/ /\ <<"invoke", j>> \in pending'[d] <=> <<"invoke", j>> \in pending[d]
                  /\ call'[j] = call[j]
    <3>1. CASE j # k
      BY <3>1, <1>0, <2>3 DEF TypeOK
    <3>2. CASE j = k
      <4>1. <<"invoke", k>> \notin pending'[d]
        BY <1>0, <2>1, <2>3 DEF Awaited
      <4>2. call'[k].pc = "done"
        BY <1>0 DEF TypeOK
      <4> QED BY <3>2, <4>1, <4>2
    <3> QED BY <3>1, <3>2
  <2>6. Awaited'
    BY <1>0, <2>1, <2>3, <2>4, <2>5, AwaitedStep
  <2>7. NamedToolsOwned' /\ FolderLate'
    BY <1>0, <1>r, <2>1 DEF NamedToolsOwned, Connected, FolderLate
  <2> QED BY <2>2, <2>6, <2>7 DEF IInv
<1> QED BY <1>1, <1>2, <1>3, <1>4, <1>5 DEF Receive, m

\* The tools of c that bear a name go with it; those of others stay.
LEMMA EndedKeeps ==
  ASSUME IInv, NEW c \in Conn, Ended(c)
  PROVE  IInv'
<1>0. TypeOK /\ Awaited /\ NamedToolsOwned /\ FolderLate
  BY DEF IInv
<1>1. /\ Reject(c, pending[c]) /\ registry' = Cleared(SourceOf(c)) /\ c \in Connected
      /\ back' = [back EXCEPT ![c] = <<>>]
      /\ UNCHANGED <<path, busy, folder, offered, changes, up, opened, out>>
  BY DEF Ended, windowVars
<1> PICK i \in DOMAIN conns : conns[i] = c /\ conns' = RemoveAt(conns, i)
  BY DEF Ended
<1>2. conns \in Seq(Conn) /\ SourceOf(c) \in Source
  BY <1>0, SourceType DEF TypeOK
<1>3. conns' \in Seq(Conn) /\ \A d \in Connected : d # c => d \in Connected'
  BY <1>2, RemoveAtProperties DEF Connected
<1>4. registry' \in [Source -> [Tool -> Conn \cup {None}]]
  BY <1>0, <1>1, <1>2, RegistryType
<1>5. TypeOK'
  BY <1>0, <1>1, <1>3, <1>4, RejectType DEF TypeOK
<1>6. Awaited'
  BY <1>0, <1>1, RejectKeeps
<1>7. NamedToolsOwned'
  <2> SUFFICES ASSUME NEW n \in Name, NEW t \in Tool, registry'[n][t] # None
               PROVE  registry'[n][t] \in Connected' /\ path[registry'[n][t]] = n
    BY <1>1 DEF NamedToolsOwned
  <2>1. n \in Source /\ n # SourceOf(c) /\ registry'[n][t] = registry[n][t]
    BY <1>0, <1>1, <1>2 DEF Source, Cleared, Empty, TypeOK
  <2>2. registry[n][t] \in Connected /\ path[registry[n][t]] = n
    BY <1>0, <2>1 DEF NamedToolsOwned
  <2>3. registry[n][t] # c
    BY <2>1, <2>2, DistinctNames DEF SourceOf
  <2> QED BY <1>3, <2>1, <2>2, <2>3
<1>8. FolderLate'
  <2>1. \A w \in Waiting : <<w, c>> \in pending[c] => shake[c] = w
    BY <1>0 DEF Awaited
  <2>2. shake'[c] # shake[c] => shake[c] \in Waiting /\ shake'[c] = "failed"
    BY <1>0, <1>1, <2>1 DEF Reject, TypeOK
  <2>3. \A d \in Conn : d # c => shake'[d] = shake[d]
    BY <1>0, <1>1 DEF Reject, TypeOK
  <2> QED BY <1>0, <1>1, <2>2, <2>3 DEF FolderLate, Waiting
<1> QED BY <1>5, <1>6, <1>7, <1>8 DEF IInv

--------------------------------------------------------------------------------
(* The window. *)

\* The window's steps leave the daemon alone and put messages and requests, as
\* they are, where they belong.
LEMMA WindowTypes ==
  ASSUME TypeOK, NEW c \in Conn, Break(c) \/ Take(c) \/ Answer(c) \/ ToolsChange(c)
  PROVE  TypeOK' /\ UNCHANGED <<daemonVars, opened>>
<1>1. CASE Break(c)
  BY <1>1 DEF Break, TypeOK, daemonVars
<1>2. CASE Take(c)
  <2>1. out[c] \in Seq(Request) /\ out[c] # <<>>
    BY <1>2 DEF Take, TypeOK
  <2>2. Head(out[c]) \in Request /\ Tail(out[c]) \in Seq(Request)
    BY <2>1, HeadTailProperties
  <2> QED BY <1>2, <2>2 DEF Take, TypeOK, daemonVars
<1>3. CASE Answer(c)
  <2> DEFINE m == [answers |-> busy[c], tools |-> offered[c]]
  <2>1. m \in Message /\ back[c] \in Seq(Message)
    BY <1>3 DEF Answer, TypeOK, Message
  <2>2. Append(back[c], m) \in Seq(Message)
    BY <2>1, AppendProperties
  <2> QED BY <1>3, <2>2 DEF Answer, TypeOK, daemonVars
<1>4. CASE ToolsChange(c)
  <2> PICK T \in SUBSET Tool :
         /\ offered' = [offered EXCEPT ![c] = T]
         /\ back' = IF c \in up
                    THEN [back EXCEPT ![c] = Append(@, [answers |-> None, tools |-> T])]
                    ELSE back
    BY <1>4 DEF ToolsChange
  <2> DEFINE m == [answers |-> None, tools |-> T]
  <2>1. m \in Message /\ back[c] \in Seq(Message)
    BY DEF TypeOK, Message
  <2>2. Append(back[c], m) \in Seq(Message)
    BY <2>1, AppendProperties
  <2>3. changes' \in 0..MaxChanges
    BY <1>4, BoundAssumption DEF ToolsChange, TypeOK
  <2> QED BY <1>4, <2>2, <2>3 DEF ToolsChange, TypeOK, daemonVars
<1> QED BY <1>1, <1>2, <1>3, <1>4

\* What happens in a window does not touch the daemon.
LEMMA WindowKeeps ==
  ASSUME IInv, NEW c \in Conn, Break(c) \/ Take(c) \/ Answer(c) \/ ToolsChange(c)
  PROVE  IInv'
<1>1. TypeOK' /\ UNCHANGED <<daemonVars, opened>>
  BY WindowTypes DEF IInv
<1> QED BY <1>1 DEF IInv, daemonVars, Awaited, NamedToolsOwned, Connected, FolderLate

--------------------------------------------------------------------------------
(* The inductive invariant. *)

\* Nothing is open, pending or registered when the daemon starts.
LEMMA InitInv == Init => IInv
<1> SUFFICES ASSUME Init PROVE IInv
  OBVIOUS
<1>1. TypeOK
  BY BoundAssumption DEF Init, TypeOK, Empty
<1>2. Awaited
  BY DEF Init, Awaited, Waiting
<1>3. NamedToolsOwned /\ FolderLate
  BY DEF Init, NamedToolsOwned, FolderLate, Empty, Source
<1> QED BY <1>1, <1>2, <1>3 DEF IInv

\* Every step of the daemon, of a window and of a stream keeps it.
LEMMA StepInv == IInv /\ [Next]_vars => IInv'
<1> SUFFICES ASSUME IInv, [Next]_vars PROVE IInv'
  OBVIOUS
<1>1. CASE \E c \in Conn : Open(c) \/ Handshake(c) \/ Timeout(c) \/ Receive(c) \/ Ended(c)
  BY <1>1, OpenKeeps, HandshakeKeeps, TimeoutKeeps, ReceiveKeeps, EndedKeeps
<1>2. CASE \E c \in Conn : Break(c) \/ Take(c) \/ Answer(c) \/ ToolsChange(c)
  BY <1>2, WindowKeeps
<1>3. CASE \E k \in Call : Invoke(k)
  BY <1>3, InvokeKeeps
<1>4. CASE UNCHANGED vars
  BY <1>4 DEF IInv, TypeOK, Awaited, NamedToolsOwned, Connected, FolderLate, vars, daemonVars, windowVars
<1> QED BY <1>1, <1>2, <1>3, <1>4 DEF Next

--------------------------------------------------------------------------------
\* Every variable of the daemon, the streams and the windows keeps its type.
THEOREM TypeCorrect == Spec => []TypeOK
<1>1. IInv => TypeOK
  BY DEF IInv
<1> QED BY InitInv, StepInv, <1>1, PTL DEF Spec

\* Whoever waits over a connection has a request pending there and the other
\* way round, for any number of windows and tool calls (pendingRequests).
THEOREM NobodyForgotten == Spec => []PendingAwaited
<1>1. IInv => PendingAwaited
  BY AwaitedIsPending DEF IInv
<1> QED BY InitInv, StepInv, <1>1, PTL DEF Spec

\* Tools under a folder's name belong to an open connection of that folder,
\* however many windows share names and come and go (unregisterVSCodeConnection).
THEOREM ToolsHaveOwners == Spec => []NamedToolsOwned
<1>1. IInv => NamedToolsOwned
  BY DEF IInv
<1> QED BY InitInv, StepInv, <1>1, PTL DEF Spec
================================================================================
