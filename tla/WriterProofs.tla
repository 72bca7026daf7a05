----------------------------- MODULE WriterProofs -----------------------------
(***************************************************************************)
(* What is true of Writer for any set of requests, any number of crashes   *)
(* and any number of refused writes: the types of its variables, the order *)
(* of its pipeline, and from that order the durability of what was         *)
(* acknowledged.                                                           *)
(***************************************************************************)
EXTENDS Writer, TLAPS

-------------------------------------------------------------------------------
(* Prefixes *)

\* A prefix is a shorter sequence that agrees wherever it is defined.
LEMMA PrefixPointwise ==
    ASSUME NEW S, NEW s \in Seq(S), NEW t \in Seq(S)
    PROVE  IsPrefix(s, t) <=> /\ Len(s) <= Len(t)
                              /\ \A i \in 1..Len(s) : s[i] = t[i]
  BY DEF IsPrefix

LEMMA PrefixReflexive ==
    ASSUME NEW S, NEW s \in Seq(S)
    PROVE  IsPrefix(s, s)
  BY PrefixPointwise

LEMMA PrefixTransitive ==
    ASSUME NEW S, NEW s \in Seq(S), NEW t \in Seq(S), NEW u \in Seq(S),
           IsPrefix(s, t), IsPrefix(t, u)
    PROVE  IsPrefix(s, u)
  BY PrefixPointwise

\* A value stays a prefix of the value in memory when a transaction is applied.
LEMMA PrefixAppend ==
    ASSUME NEW S, NEW s \in Seq(S), NEW t \in Seq(S), NEW e \in S,
           IsPrefix(s, t)
    PROVE  IsPrefix(s, Append(t, e))
<1> DEFINE u == Append(t, e)
<1>1. /\ u \in Seq(S)
      /\ Len(u) = Len(t) + 1
      /\ \A i \in 1..Len(t) : u[i] = t[i]
  OBVIOUS
<1>. HIDE DEF u
<1>2. IsPrefix(s, u)
  BY <1>1, PrefixPointwise
<1>. QED
  BY <1>2 DEF u

\* What a prefix contains, the longer sequence contains.
LEMMA PrefixRange ==
    ASSUME NEW S, NEW s \in Seq(S), NEW t \in Seq(S), IsPrefix(s, t)
    PROVE  Range(s) \subseteq Range(t)
  BY PrefixPointwise DEF Range

-------------------------------------------------------------------------------
(* Types *)

\* The keys and writes of the commits so far stay keys and writes.
LEMMA KeysKept == com' = com => Keys' = Keys /\ Writes' = Writes
  BY DEF Keys, Writes

LEMMA EmptyDbType == EmptyDb \in Db
<1>1. <<>> \in Seq(Tx) /\ 0 \in Nat
  OBVIOUS
<1>. QED
  BY <1>1 DEF EmptyDb, Db

\* TypeOK is inductive.
LEMMA TypeInit == Init => TypeOK
<1>. SUFFICES ASSUME Init PROVE TypeOK
  OBVIOUS
<1>1. SchemaKey(EmptyDb) \in Keys
  <2>1. Range(EmptyDb.txs) = {}
    BY DEF EmptyDb, Range
  <2>. QED
    BY <2>1 DEF SchemaKey, Keys
<1>2. com = <<[txs |-> <<>>, maxTx |-> 0, parent |-> 0]>>
  BY DEF Init
<1>3. com \in Seq(Commit) /\ com # <<>> /\ Len(com) = 1
  BY <1>2 DEF Commit
<1>4. CommitKey(1) \in Keys /\ Branch \in Keys
  BY <1>3 DEF Keys
<1>5. TypeClient
  BY DEF Init, TypeClient, Answers
<1>6. TypeProc
  <2>1. txid \in [Tx -> Nat] /\ txq \in Seq(Tx)
    BY DEF Init
  <2>2. /\ txOpen \in BOOLEAN /\ proc \in {"run", "put", "stopped"}
        /\ proc # "put" /\ old = EmptyDb /\ bg \subseteq AsyncTx
    BY DEF Init
  <2>. QED
    BY <2>1, <2>2, EmptyDbType DEF TypeProc
<1>7. TypeCommit
  <2>1. /\ cmq \in Seq(Db) /\ \A i \in DOMAIN cmq : cmq[i].txs # <<>>
        /\ batch \in Seq(Db) /\ \A i \in DOMAIN batch : batch[i].txs # <<>>
    BY DEF Init
  <2>2. /\ cmOpen \in BOOLEAN /\ cpc = "stopped"
        /\ addressed \subseteq Tx /\ kvs = {} /\ wcache \subseteq Keys
    BY DEF Init
  <2>. QED
    BY <1>3, <2>1, <2>2 DEF TypeCommit, Phases
<1>8. TypeStore /\ TypeConn
  <2>1. /\ multi \in BOOLEAN /\ head = 1 /\ inflight = {} /\ refused = {} /\ torn = {}
        /\ status = "down" /\ conn = 1 /\ registered = FALSE
    BY DEF Init
  <2>2. store \subseteq Keys
    BY <1>1, <1>4 DEF Init
  <2>3. 1 \in 1..Len(com)
    BY <1>3
  <2>. QED
    BY <2>1, <2>2, <2>3 DEF TypeStore, TypeConn
<1>. QED
  BY <1>5, <1>6, <1>7, <1>8 DEF Init, TypeOK

\* What Flush makes of the batch: a commit of its newest result, with keys and
\* writes of its number.
LEMMA FlushTypes == TypeOK /\ Flush => TypeOK'
<1>. SUFFICES ASSUME TypeOK, Flush PROVE TypeOK'
  OBVIOUS
<1>. USE DEF clientVars, procVars, connVars, boundVars
<1> DEFINE db == ToCommit(batch)
           n == Len(com) + 1
           nodes == NodesToWrite(db)
           schema == SchemaToWrite(db)
           c == [txs |-> db.txs, maxTx |-> db.maxTx, parent |-> head]
<1>1. db \in Db
  BY DEF Flush, ToCommit, Last, TypeOK, TypeCommit
<1>2. c \in Commit /\ head \in Nat
  BY <1>1 DEF Db, Commit, TypeOK, TypeStore, TypeCommit
<1>3. com' = Append(com, c)
  BY DEF Flush
<1>4. com' \in Seq(Commit) /\ com' # <<>> /\ Len(com') = n /\ Len(com) \in Nat
  BY <1>2, <1>3 DEF TypeOK, TypeCommit
<1>5. Keys \subseteq Keys'
  BY <1>4 DEF Keys
<1>6. Writes \subseteq Writes'
  BY <1>4, <1>5 DEF Writes
<1>7. Range(db.txs) \subseteq Tx
  BY <1>1 DEF Db, Range
<1>8. nodes \subseteq {Leaf(t) : t \in Tx} /\ nodes \subseteq Keys'
  BY <1>7 DEF NodesToWrite, Keys
<1>9. SchemaKey(db) \in Keys'
  BY DEF SchemaKey, Keys
<1>10. CommitKey(n) \in Keys' /\ Branch \in Keys' /\ n \in 1..Len(com')
  BY <1>4 DEF Keys
<1>11. inflight' \subseteq Writes'
  <2>1. AtomicWrite(n, schema \cup nodes) \subseteq Writes'
    BY <1>8, <1>9, <1>10 DEF AtomicWrite, Write, Writes, SchemaToWrite
  <2>2. {Write(n, schema)} \subseteq Writes'
    BY <1>9, <1>10 DEF Write, Writes, SchemaToWrite
  <2>3. NodeWrites(n, nodes) \subseteq Writes'
    BY <1>8, <1>10 DEF NodeWrites, Write, Writes
  <2>4. inflight \subseteq Writes'
    BY <1>6 DEF TypeOK, TypeStore
  <2>. QED
    BY <2>1, <2>2, <2>3, <2>4 DEF Flush
<1>12. TypeStore'
  BY <1>4, <1>5, <1>6, <1>11 DEF TypeOK, TypeStore, Flush
<1>13. TypeCommit'
  BY <1>4, <1>5, <1>7, <1>8, <1>9 DEF TypeOK, TypeCommit, Flush, Phases
<1>14. TypeClient' /\ TypeProc' /\ TypeConn'
  BY <1>4 DEF TypeOK, TypeClient, TypeProc, TypeConn, Flush
<1>. QED
  BY <1>12, <1>13, <1>14 DEF TypeOK, Flush

\* The commits whose write is lost were tried.
LEMMA LostTypes ==
    ASSUME TypeOK, NEW writes \in SUBSET inflight
    PROVE  LostCommits(writes) \subseteq 1..Len(com)
  BY DEF TypeOK, TypeStore, LostCommits, Writes

LEMMA TypeStep == TypeOK /\ [Next]_vars => TypeOK'
<1>. SUFFICES ASSUME TypeOK, [Next]_vars PROVE TypeOK'
  OBVIOUS
<1>. USE DEF clientVars, procVars, commitVars, storeVars, connVars, boundVars
<1>1. ASSUME NEW t \in Tx, Call(t) PROVE TypeOK'
  BY <1>1, KeysKept DEF TypeOK, TypeClient, TypeProc, TypeCommit, TypeStore,
         TypeConn, Call, Answers
<1>2. ASSUME NEW t \in Tx, Dispatch(t) PROVE TypeOK'
  <2>1. TypeClient' /\ TypeProc'
    <3>1. answer' \in [Tx -> Answers]
      BY <1>2 DEF TypeOK, TypeClient, Dispatch, Answers
    <3>2. Append(txq, t) \in Seq(Tx) /\ Append(sent, t) \in Seq(Tx)
      BY DEF TypeOK, TypeClient, TypeProc
    <3>. QED
      BY <1>2, <3>1, <3>2 DEF TypeOK, TypeClient, TypeProc, Dispatch, Accepted
  <2>2. TypeCommit' /\ TypeStore' /\ TypeConn'
    BY <1>2, KeysKept DEF TypeOK, TypeCommit, TypeStore, TypeConn, Dispatch
  <2>. QED
    BY <1>2, <2>1, <2>2 DEF TypeOK, Dispatch
<1>3. ASSUME NEW t \in Tx, FinishBackground(t) PROVE TypeOK'
  BY <1>3, KeysKept DEF TypeOK, TypeClient, TypeProc, TypeCommit, TypeStore,
         TypeConn, FinishBackground, Answers
<1>4. CASE TransactOk
  <2>1. com[conn].maxTx \in Nat
    <3>1. com[conn] \in Commit
      BY DEF TypeOK, TypeCommit, TypeConn
    <3>. QED
      BY <3>1 DEF Commit
  <2>2. Base(old) \in Db /\ Head(txq) \in Tx /\ Tail(txq) \in Seq(Tx)
    <3>1. Base(old) \in Db
      BY <2>1 DEF TypeOK, TypeProc, Base, Db
    <3>. QED
      BY <1>4, <3>1 DEF TypeOK, TypeProc, TransactOk, Processing
  <2>3. old' \in Db /\ old'.txs # <<>>
    <3> DEFINE b == Base(old)
               a == Append(b.txs, Head(txq))
    <3>1. b.txs \in Seq(Tx) /\ b.maxTx \in Nat
      BY <2>2 DEF Db
    <3>2. a \in Seq(Tx) /\ a # <<>> /\ b.maxTx + 1 \in Nat
      <4>1. Head(txq) \in Tx
        BY <2>2
      <4>. HIDE DEF b
      <4>. QED
        BY <3>1, <4>1
    <3>3. old' = [txs |-> a, maxTx |-> b.maxTx + 1]
      BY <1>4 DEF TransactOk
    <3>. QED
      BY <3>2, <3>3 DEF Db
  <2>4. TypeProc'
    BY <1>4, <2>2, <2>3 DEF TypeOK, TypeProc, TransactOk, Db
  <2>5. TypeClient' /\ TypeCommit' /\ TypeStore' /\ TypeConn'
    BY <1>4, KeysKept DEF TypeOK, TypeClient, TypeCommit, TypeStore, TypeConn,
                          TransactOk
  <2>. QED
    BY <1>4, <2>4, <2>5 DEF TypeOK, TransactOk
<1>5. CASE TransactError
  BY <1>5, KeysKept DEF TypeOK, TypeClient, TypeProc, TypeCommit, TypeStore,
         TypeConn, TransactError, Processing, AfterError, Answers
<1>6. CASE StartBackground
  BY <1>6, KeysKept DEF TypeOK, TypeClient, TypeProc, TypeCommit, TypeStore,
         TypeConn, StartBackground, Processing
<1>7. CASE Enqueue
  BY <1>7, KeysKept DEF TypeOK, TypeClient, TypeProc, TypeCommit, TypeStore,
         TypeConn, Enqueue
<1>8. CASE StopProcessing
  BY <1>8, KeysKept DEF TypeOK, TypeClient, TypeProc, TypeCommit, TypeStore,
         TypeConn, StopProcessing
<1>9. CASE Take
  BY <1>9, KeysKept DEF TypeOK, TypeClient, TypeProc, TypeCommit, TypeStore,
         TypeConn, Take, Phases
<1>10. CASE StopCommitting
  BY <1>10, KeysKept DEF TypeOK, TypeClient, TypeProc, TypeCommit, TypeStore,
         TypeConn, StopCommitting, Phases
<1>11. CASE Flush
  BY <1>11, FlushTypes
<1>12. CASE SchemaWritten
  <2>1. kvs \subseteq Keys /\ This \in 1..Len(com)
    BY DEF TypeOK, TypeCommit, This, Keys
  <2>2. NodeWrites(This, kvs) \subseteq Writes
    BY <2>1 DEF NodeWrites, Write, Writes
  <2>3. TypeStore'
    BY <1>12, <2>2, KeysKept DEF TypeOK, TypeStore, SchemaWritten
  <2>4. TypeClient' /\ TypeProc' /\ TypeCommit' /\ TypeConn'
    BY <1>12, KeysKept DEF TypeOK, TypeClient, TypeProc, TypeCommit, TypeConn,
                           SchemaWritten, Phases
  <2>. QED
    BY <1>12, <2>3, <2>4 DEF TypeOK, SchemaWritten
<1>13. CASE NodesWritten
  <2>1. CommitKey(This) \in Keys /\ Branch \in Keys /\ This \in 1..Len(com)
    BY DEF TypeOK, TypeCommit, This, Keys
  <2>2. RootWrites(This) \subseteq Writes
    BY <2>1 DEF RootWrites, Write, Writes
  <2>3. TypeStore'
    BY <1>13, <2>2, KeysKept DEF TypeOK, TypeStore, NodesWritten
  <2>4. TypeClient' /\ TypeProc' /\ TypeCommit' /\ TypeConn'
    BY <1>13, KeysKept DEF TypeOK, TypeClient, TypeProc, TypeCommit, TypeConn,
                           NodesWritten, Phases
  <2>. QED
    BY <1>13, <2>3, <2>4 DEF TypeOK, NodesWritten
<1>14. CASE Publish
  BY <1>14, KeysKept DEF TypeOK, TypeClient, TypeProc, TypeCommit, TypeStore,
         TypeConn, Publish, Phases, This
<1>15. CASE Confirm
  <2>1. AnswerNext("ok")
    BY <1>15 DEF Confirm
  <2>2. TypeClient' /\ batch' = Tail(batch) /\ batch # <<>>
    BY <2>1 DEF TypeOK, TypeClient, AnswerNext, Answers
  <2>3. /\ batch' \in Seq(Db)
        /\ Len(batch') = Len(batch) - 1
        /\ \A i \in DOMAIN batch' : i + 1 \in DOMAIN batch /\ batch'[i] = batch[i + 1]
    BY <2>2 DEF TypeOK, TypeCommit
  <2>4. TypeCommit'
    <3>1. /\ cpc' \in Phases
          /\ cpc' \in {"flush", "schema", "nodes", "roots", "answer"} => batch' # <<>>
      BY <1>15, <2>2, <2>3 DEF TypeOK, TypeCommit, Confirm, Phases
    <3>2. \A i \in DOMAIN batch' : batch'[i].txs # <<>>
      BY <2>3 DEF TypeOK, TypeCommit
    <3>. QED
      BY <2>1, <2>3, <3>1, <3>2, KeysKept DEF TypeOK, TypeCommit, AnswerNext
  <2>5. TypeProc' /\ TypeStore' /\ TypeConn'
    BY <2>1, KeysKept DEF TypeOK, TypeProc, TypeStore, TypeConn, AnswerNext
  <2>. QED
    BY <2>1, <2>2, <2>4, <2>5 DEF TypeOK, AnswerNext
<1>16. CASE CommitError
  BY <1>16, KeysKept DEF TypeOK, TypeClient, TypeProc, TypeCommit, TypeStore,
         TypeConn, CommitError, Phases
<1>17. CASE ReportError
  <2>1. AnswerNext("failed")
    BY <1>17 DEF ReportError
  <2>2. TypeClient' /\ batch' = Tail(batch) /\ batch # <<>>
    BY <2>1 DEF TypeOK, TypeClient, AnswerNext, Answers
  <2>3. /\ batch' \in Seq(Db)
        /\ Len(batch') = Len(batch) - 1
        /\ \A i \in DOMAIN batch' : i + 1 \in DOMAIN batch /\ batch'[i] = batch[i + 1]
    BY <2>2 DEF TypeOK, TypeCommit
  <2>4. TypeCommit'
    <3>1. /\ cpc' \in Phases
          /\ cpc' \in {"flush", "schema", "nodes", "roots", "answer"} => batch' # <<>>
      BY <1>17, <2>2, <2>3 DEF TypeOK, TypeCommit, ReportError, Phases
    <3>2. \A i \in DOMAIN batch' : batch'[i].txs # <<>>
      BY <2>3 DEF TypeOK, TypeCommit
    <3>. QED
      BY <2>1, <2>3, <3>1, <3>2, KeysKept DEF TypeOK, TypeCommit, AnswerNext
  <2>5. TypeProc' /\ TypeStore' /\ TypeConn'
    BY <2>1, KeysKept DEF TypeOK, TypeProc, TypeStore, TypeConn, AnswerNext
  <2>. QED
    BY <2>1, <2>2, <2>4, <2>5 DEF TypeOK, AnswerNext
<1>18. CASE CloseQueues
  BY <1>18, KeysKept DEF TypeOK, TypeClient, TypeProc, TypeCommit, TypeStore,
         TypeConn, CloseQueues, Phases
<1>19. ASSUME NEW w \in inflight, Land(w) PROVE TypeOK'
  BY <1>19, KeysKept DEF TypeOK, TypeClient, TypeProc, TypeCommit, TypeStore,
         TypeConn, Land, Writes
<1>20. ASSUME NEW w \in inflight, Refuse(w) PROVE TypeOK'
  <2>1. LostCommits({w}) \subseteq 1..Len(com)
    BY LostTypes
  <2>2. TypeStore'
    BY <1>20, <2>1, KeysKept DEF TypeOK, TypeStore, Refuse
  <2>. QED
    BY <1>20, <2>2, KeysKept DEF TypeOK, TypeClient, TypeProc, TypeCommit, TypeConn, Refuse
<1>21. CASE Release
  BY <1>21, KeysKept DEF TypeOK, TypeClient, TypeProc, TypeCommit, TypeStore,
         TypeConn, Release
<1>22. CASE Crash
  <2>1. TypeClient'
    BY <1>22 DEF TypeOK, TypeClient, Crash, Answers
  <2>2. TypeProc' /\ TypeConn'
    <3>1. /\ txid' = txid /\ txq' = <<>> /\ txOpen' = FALSE
          /\ proc' = "stopped" /\ old' = EmptyDb /\ bg' = {}
          /\ status' = "down" /\ registered' = FALSE /\ conn' = conn /\ com' = com
      BY <1>22 DEF Crash
    <3>2. txq' \in Seq(Tx)
      BY <3>1
    <3>. QED
      BY <3>1, <3>2, EmptyDbType DEF TypeOK, TypeProc, TypeConn
  <2>3. TypeCommit' /\ TypeStore'
    <3>1. /\ cmq' \in Seq(Db) /\ \A i \in DOMAIN cmq' : cmq'[i].txs # <<>>
          /\ batch' \in Seq(Db) /\ \A i \in DOMAIN batch' : batch'[i].txs # <<>>
      BY <1>22 DEF Crash
    <3>2. /\ cmOpen' = FALSE /\ cpc' = "stopped" /\ kvs' = {} /\ addressed' = {}
          /\ wcache' = {} /\ inflight' = {} /\ refused' = {}
          /\ com' = com /\ multi' = multi /\ store' = store /\ head' = head
          /\ torn' = torn \cup LostCommits(inflight)
      BY <1>22 DEF Crash
    <3>3. LostCommits(inflight) \subseteq 1..Len(com)
      BY LostTypes
    <3>. QED
      BY <3>1, <3>2, <3>3, KeysKept DEF TypeOK, TypeCommit, TypeStore, Phases
  <2>. QED
    BY <1>22, <2>1, <2>2, <2>3 DEF TypeOK, Crash
<1>23. CASE Connect
  <2>1. head \in 1..Len(com) /\ com[head] \in Commit
    BY DEF TypeOK, TypeCommit, TypeStore
  <2>2. Range(com[head].txs) \subseteq Tx
    BY <2>1 DEF Commit, Range
  <2>3. old' \in Db /\ old'.txs = com[head].txs
    BY <1>23, <2>1 DEF Connect, Loaded, Commit, Db
  <2>4. TypeClient' /\ TypeProc' /\ TypeConn'
    BY <1>23, <2>1, <2>3 DEF TypeOK, TypeClient, TypeProc, TypeConn, Connect, Loaded
  <2>5. TypeCommit' /\ TypeStore'
    BY <1>23, <2>2, KeysKept DEF TypeOK, TypeCommit, TypeStore, Connect, Loaded, Phases
  <2>. QED
    BY <1>23, <2>4, <2>5 DEF TypeOK, Connect
<1>24. CASE UNCHANGED vars
  BY <1>24, KeysKept DEF TypeOK, TypeClient, TypeProc, TypeCommit, TypeStore,
         TypeConn, vars
<1>. QED
  BY <1>1, <1>2, <1>3, <1>4, <1>5, <1>6, <1>7, <1>8, <1>9, <1>10, <1>11, <1>12, <1>13, <1>14, <1>15, <1>16, <1>17, <1>18, <1>19, <1>20, <1>21, <1>22, <1>23, <1>24 DEF Next, ProcessingLoop, CommitLoop

\* The variables of Writer have their types in every reachable state, whatever
\* Tx, MaxCrash and MaxFail are.
THEOREM TypeCorrect == Spec => []TypeOK
<1>1. Init => TypeOK
  BY TypeInit
<1>2. TypeOK /\ [Next]_vars => TypeOK'
  BY TypeStep
<1>. QED
  BY <1>1, <1>2, PTL DEF Spec

-------------------------------------------------------------------------------
(* The inductive invariant *)

\* Without a process nothing is under way.
DownEmpty == status = "down" => /\ inflight = {} /\ cmq = <<>> /\ batch = <<>>
                                /\ cpc = "stopped" /\ proc = "stopped"

\* Once the root writes have started, the branch is being set to this commit,
\* has been, or a write was refused.
RootsStarted == cpc = "roots" => This \in Roots \/ Failed # {}

\* Callbacks are called when the commit is durable and shown.
AnswersCommitted == cpc = "answer" => head = This /\ conn = This

\* What the order of the pipeline has to be strengthened with to be inductive.
IInv == /\ TypeOK /\ PipelineOrdered
        /\ DownEmpty /\ RootsStarted /\ AnswersCommitted
        /\ AckedDurable /\ ConnDurable /\ ReadYourWrites

\* The facts about types that the steps need.
LEMMA Facts ==
    ASSUME TypeOK
    PROVE  /\ This \in Nat /\ This >= 1
           /\ Roots \subseteq 1..This /\ head \in Roots /\ head \in 1..This
           /\ conn \in 1..This
           /\ \A k \in 1..This : com[k].txs \in Seq(Tx)
           /\ old.txs \in Seq(Tx)
           /\ \A i \in DOMAIN cmq : cmq[i].txs \in Seq(Tx)
           /\ \A i \in DOMAIN batch : batch[i].txs \in Seq(Tx)
<1>1. This \in Nat /\ This >= 1
  BY DEF TypeOK, TypeCommit, This
<1>2. Roots \subseteq 1..This /\ head \in Roots /\ head \in 1..This /\ conn \in 1..This
  BY DEF TypeOK, TypeStore, TypeConn, This, Roots, Writes
<1>3. \A k \in 1..This : com[k].txs \in Seq(Tx)
  <2>1. \A k \in 1..This : com[k] \in Commit
    BY DEF TypeOK, TypeCommit, This
  <2>. QED
    BY <2>1 DEF Commit
<1>4. old.txs \in Seq(Tx)
  BY DEF TypeOK, TypeProc, Db
<1>5. /\ \A i \in DOMAIN cmq : cmq[i].txs \in Seq(Tx)
      /\ \A i \in DOMAIN batch : batch[i].txs \in Seq(Tx)
  <2>1. /\ \A i \in DOMAIN cmq : cmq[i] \in Db
        /\ \A i \in DOMAIN batch : batch[i] \in Db
    BY DEF TypeOK, TypeCommit
  <2>. QED
    BY <2>1 DEF Db
<1>. QED
  BY <1>1, <1>2, <1>3, <1>4, <1>5

LEMMA BelowReflexive ==
    ASSUME NEW u, u.txs \in Seq(Tx) PROVE Below(u, u)
  BY PrefixReflexive DEF Below

LEMMA BelowTransitive ==
    ASSUME NEW u, NEW v, NEW w, u.txs \in Seq(Tx), v.txs \in Seq(Tx),
           w.txs \in Seq(Tx), Below(u, v), Below(v, w)
    PROVE  Below(u, w)
  BY PrefixTransitive DEF Below

\* A step that touches neither the pipeline nor the connection, and tells
\* nobody "ok", preserves the invariant.
LEMMA QuietStep ==
    ASSUME IInv, TypeOK',
           UNCHANGED <<old, cmq, cpc, batch, com, head, inflight, refused,
                       status, conn>>,
           status = "down" => proc' = "stopped",
           \A t \in Tx : answer'[t] = "ok" => answer[t] = "ok"
    PROVE  IInv'
<1>1. Roots' = Roots /\ This' = This /\ Failed' = Failed /\ Log' = Log
  BY DEF Roots, This, Failed, Log
<1>2. PipelineOrdered'
  BY <1>1 DEF IInv, PipelineOrdered, RootsOrdered, MemoryNewest, QueueOrdered,
              BatchOrdered, ProgressOrdered, BatchCommitted
<1>3. DownEmpty' /\ RootsStarted' /\ AnswersCommitted'
  BY <1>1 DEF IInv, DownEmpty, RootsStarted, AnswersCommitted
<1>4. AckedDurable' /\ ConnDurable' /\ ReadYourWrites'
  BY <1>1 DEF IInv, AckedDurable, ConnDurable, ReadYourWrites
<1>. QED
  BY <1>2, <1>3, <1>4 DEF IInv

\* A step of the commit loop to a place where no commit is in progress, which
\* tells nobody "ok".
LEMMA IdleStep ==
    ASSUME IInv, TypeOK',
           UNCHANGED <<old, cmq, com, head, inflight, refused, status, conn, proc>>,
           cpc' \in {"take", "error", "stopped"}, status # "down",
           \A t \in Tx : answer'[t] = "ok" => answer[t] = "ok"
    PROVE  IInv'
<1>1. Roots' = Roots /\ This' = This /\ Log' = Log
  BY DEF Roots, This, Log
<1>2. PipelineOrdered'
  BY <1>1 DEF IInv, PipelineOrdered, RootsOrdered, MemoryNewest, QueueOrdered,
              BatchOrdered, ProgressOrdered, BatchCommitted
<1>3. DownEmpty' /\ RootsStarted' /\ AnswersCommitted'
  BY DEF IInv, DownEmpty, RootsStarted, AnswersCommitted
<1>4. AckedDurable' /\ ConnDurable' /\ ReadYourWrites'
  BY <1>1 DEF IInv, AckedDurable, ConnDurable, ReadYourWrites
<1>. QED
  BY <1>2, <1>3, <1>4 DEF IInv

\* Applying a transaction: the value in memory grows.
LEMMA TransactOkStep ==
    ASSUME IInv, TypeOK', TransactOk
    PROVE  IInv'
<1>1. /\ UNCHANGED <<answer, cmq, cpc, batch, com, head, inflight, refused, status, conn>>
      /\ status = "open"
  BY DEF TransactOk, clientVars, commitVars, storeVars, connVars
<1>2. Roots' = Roots /\ This' = This /\ Failed' = Failed /\ Log' = Log
  BY <1>1 DEF Roots, This, Failed, Log
<1>3. ASSUME NEW u, u.txs \in Seq(Tx), Below(u, old)
      PROVE  Below(u, old')
  <2>1. Head(txq) \in Tx
    BY DEF IInv, TypeOK, TypeProc, TransactOk, Processing
  <2>2. Base(old).txs = old.txs /\ old.txs \in Seq(Tx)
    BY DEF Base, IInv, TypeOK, TypeProc, Db
  <2>3. old'.txs = Append(old.txs, Head(txq))
    BY <2>2 DEF TransactOk
  <2>. QED
    BY <1>3, <2>1, <2>2, <2>3, PrefixAppend DEF Below
<1>4. PipelineOrdered'
  <2>1. RootsOrdered'
    BY <1>1, <1>2 DEF IInv, PipelineOrdered, RootsOrdered
  <2>2. MemoryNewest'
    BY <1>1, <1>2, <1>3, Facts DEF IInv, PipelineOrdered, MemoryNewest
  <2>3. QueueOrdered'
    BY <1>1, <1>2, <1>3, Facts DEF IInv, PipelineOrdered, QueueOrdered
  <2>4. BatchOrdered'
    BY <1>1, <1>2, <1>3, Facts DEF IInv, PipelineOrdered, BatchOrdered
  <2>5. ProgressOrdered'
    BY <1>1, <1>2, <1>3, Facts DEF IInv, PipelineOrdered, ProgressOrdered
  <2>6. BatchCommitted'
    BY <1>1, <1>2 DEF IInv, PipelineOrdered, BatchCommitted
  <2>. QED
    BY <2>1, <2>2, <2>3, <2>4, <2>5, <2>6 DEF PipelineOrdered
<1>5. DownEmpty' /\ RootsStarted' /\ AnswersCommitted'
  BY <1>1, <1>2 DEF IInv, DownEmpty, RootsStarted, AnswersCommitted
<1>6. AckedDurable' /\ ConnDurable' /\ ReadYourWrites'
  BY <1>1, <1>2 DEF IInv, AckedDurable, ConnDurable, ReadYourWrites
<1>. QED
  BY <1>4, <1>5, <1>6 DEF IInv

\* Putting the value in memory on the commit queue.
LEMMA EnqueueStep ==
    ASSUME IInv, TypeOK', Enqueue
    PROVE  IInv'
<1>1. /\ UNCHANGED <<answer, old, cpc, batch, com, head, inflight, refused, status, conn>>
      /\ proc = "put"
  BY DEF Enqueue, clientVars, storeVars, connVars
<1>2. Roots' = Roots /\ This' = This /\ Failed' = Failed /\ Log' = Log
  BY <1>1 DEF Roots, This, Failed, Log
<1>3. status # "down"
  BY <1>1 DEF IInv, DownEmpty
<1>4. CASE ~cmOpen
  BY <1>1, <1>3, <1>4, QuietStep DEF Enqueue
<1>5. CASE cmOpen
  <2>1. cmq' = Append(cmq, old)
    BY <1>5 DEF Enqueue
  <2>2. ASSUME NEW i \in DOMAIN cmq'
        PROVE  \/ i \in DOMAIN cmq /\ cmq'[i] = cmq[i] /\ i < Len(cmq')
               \/ i = Len(cmq') /\ cmq'[i] = old
    BY <2>1 DEF IInv, TypeOK, TypeProc, TypeCommit
  <2>3. Below(old, old)
    BY Facts, BelowReflexive DEF IInv
  <2>4. QueueOrdered'
    <3>1. ASSUME NEW i \in DOMAIN cmq' PROVE Below(cmq'[i], old')
      BY <1>1, <2>2, <2>3 DEF IInv, PipelineOrdered, QueueOrdered
    <3>2. ASSUME NEW i \in DOMAIN cmq', NEW j \in DOMAIN cmq', i <= j
          PROVE  Below(cmq'[i], cmq'[j])
      <4>1. CASE j = Len(cmq') /\ cmq'[j] = old
        BY <1>1, <3>1, <4>1
      <4>2. CASE j \in DOMAIN cmq /\ cmq'[j] = cmq[j] /\ j < Len(cmq')
        <5>1. i \in DOMAIN cmq /\ cmq'[i] = cmq[i]
          BY <2>1, <2>2, <3>2, <4>2 DEF IInv, TypeOK, TypeCommit
        <5>. QED
          BY <3>2, <4>2, <5>1 DEF IInv, PipelineOrdered, QueueOrdered
      <4>. QED
        BY <2>2, <4>1, <4>2
    <3>3. ASSUME NEW i \in DOMAIN cmq', NEW r \in Roots' PROVE Below(com'[r], cmq'[i])
      BY <1>1, <1>2, <1>3, <2>2 DEF IInv, PipelineOrdered, QueueOrdered, MemoryNewest
    <3>. QED
      BY <3>1, <3>2, <3>3 DEF QueueOrdered
  <2>5. RootsOrdered' /\ MemoryNewest'
    BY <1>1, <1>2 DEF IInv, PipelineOrdered, RootsOrdered, MemoryNewest
  <2>6. BatchOrdered'
    BY <1>1, <1>2, <2>2 DEF IInv, PipelineOrdered, BatchOrdered
  <2>7. ProgressOrdered'
    BY <1>1, <1>2, <2>2 DEF IInv, PipelineOrdered, ProgressOrdered
  <2>8. BatchCommitted'
    BY <1>1, <1>2 DEF IInv, PipelineOrdered, BatchCommitted
  <2>9. DownEmpty' /\ RootsStarted' /\ AnswersCommitted'
    BY <1>1, <1>2, <1>3 DEF IInv, DownEmpty, RootsStarted, AnswersCommitted
  <2>10. AckedDurable' /\ ConnDurable' /\ ReadYourWrites'
    BY <1>1, <1>2 DEF IInv, AckedDurable, ConnDurable, ReadYourWrites
  <2>. QED
    BY <2>4, <2>5, <2>6, <2>7, <2>8, <2>9, <2>10 DEF IInv, PipelineOrdered
<1>. QED
  BY <1>4, <1>5 DEF IInv, TypeOK, TypeCommit

\* Taking the waiting results: the queue becomes the batch.
LEMMA TakeStep ==
    ASSUME IInv, TypeOK', Take
    PROVE  IInv'
<1>1. /\ UNCHANGED <<answer, old, com, head, inflight, refused, status, conn, proc>>
      /\ batch' = cmq /\ cmq' = <<>> /\ cpc' = "flush" /\ cmq # <<>>
  BY DEF Take, clientVars, procVars, storeVars, connVars
<1>2. Roots' = Roots /\ This' = This /\ Log' = Log
  BY <1>1 DEF Roots, This, Log
<1>3. status # "down"
  BY <1>1 DEF IInv, DownEmpty
<1>4. RootsOrdered' /\ MemoryNewest'
  BY <1>1, <1>2 DEF IInv, PipelineOrdered, RootsOrdered, MemoryNewest
<1>5. QueueOrdered' /\ ProgressOrdered' /\ BatchCommitted'
  BY <1>1 DEF QueueOrdered, ProgressOrdered, BatchCommitted
<1>6. BatchOrdered'
  <2>1. ASSUME NEW i \in DOMAIN cmq' PROVE FALSE
    BY <1>1
  <2>. QED
    BY <1>1, <1>2, <2>1 DEF IInv, PipelineOrdered, QueueOrdered, BatchOrdered
<1>7. DownEmpty' /\ RootsStarted' /\ AnswersCommitted'
  BY <1>1, <1>3 DEF DownEmpty, RootsStarted, AnswersCommitted
<1>8. AckedDurable' /\ ConnDurable' /\ ReadYourWrites'
  BY <1>1, <1>2 DEF IInv, AckedDurable, ConnDurable, ReadYourWrites
<1>. QED
  BY <1>4, <1>5, <1>6, <1>7, <1>8 DEF IInv, PipelineOrdered

\* The key of the branch is neither that of a node nor that of a schema record.
LEMMA BranchKey == /\ \A t : Branch # Leaf(t)
                   /\ \A db : Branch # SchemaKey(db)
  BY DEF Branch, Leaf, SchemaKey

\* Starting a commit: its value holds the roots and is held by what waits.
LEMMA FlushStep ==
    ASSUME IInv, TypeOK', Flush
    PROVE  IInv'
<1> DEFINE db == ToCommit(batch)
           n == Len(com) + 1
           nodes == NodesToWrite(db)
           schema == SchemaToWrite(db)
<1>1. /\ UNCHANGED <<answer, old, cmq, batch, head, refused, status, conn, proc>>
      /\ cpc = "flush" /\ cpc' \in {"schema", "nodes", "roots"}
      /\ \A w \in inflight : Branch \notin w.keys
  BY DEF Flush, clientVars, procVars, connVars
<1>2. status # "down"
  BY <1>1 DEF IInv, DownEmpty
<1>3. /\ batch # <<>> /\ Len(batch) \in DOMAIN batch /\ db = batch[Len(batch)]
      /\ db.txs \in Seq(Tx)
      /\ \A i \in DOMAIN batch : i <= Len(batch)
  <2>1. batch # <<>> /\ batch \in Seq(Db)
    BY <1>1 DEF IInv, TypeOK, TypeCommit
  <2>. QED
    BY <2>1, Facts DEF IInv, ToCommit, Last
<1>4. /\ This' = n /\ This = Len(com) /\ n \in Nat
      /\ com'[n].txs = db.txs
      /\ \A k \in 1..This : com'[k] = com[k]
  <2> DEFINE c == [txs |-> db.txs, maxTx |-> db.maxTx, parent |-> head]
  <2>1. com' = Append(com, c) /\ com \in Seq(Commit)
    BY DEF Flush, IInv, TypeOK, TypeCommit
  <2>2. c.txs = db.txs
    OBVIOUS
  <2>. HIDE DEF c
  <2>. QED
    BY <2>1, <2>2 DEF This
<1>5. Roots = {head}
  BY <1>1 DEF Roots
<1>6. Roots' = {head} \/ (Roots' = {head, n} /\ cpc' = "roots")
  <2>1. CASE multi
    <3> DEFINE w == Write(n, (schema \cup nodes) \cup {CommitKey(n), Branch})
    <3>1. inflight' = inflight \cup {w} /\ cpc' = "roots"
      BY <2>1 DEF Flush, AtomicWrite
    <3>2. w.n = n /\ Branch \in w.keys
      BY DEF Write
    <3>. HIDE DEF w, n
    <3>3. Roots' = {head, n}
      BY <1>1, <3>1, <3>2 DEF Roots
    <3>. QED
      BY <3>1, <3>3
  <2>2. CASE ~multi
    <3>1. \A w \in inflight' : Branch \notin w.keys
      <4>1. Branch \notin schema /\ Branch \notin nodes
        BY BranchKey DEF SchemaToWrite, NodesToWrite
      <4>. HIDE DEF schema, nodes
      <4>2. \/ inflight' = inflight \cup {Write(n, schema)}
            \/ inflight' = inflight \cup NodeWrites(n, nodes)
        BY <2>2 DEF Flush, schema, nodes
      <4>. QED
        BY <1>1, <4>1, <4>2 DEF Write, NodeWrites
    <3>. QED
      BY <1>1, <3>1 DEF Roots
  <2>. QED
    BY <2>1, <2>2
<1>. HIDE DEF db
<1>7. /\ Below(com[head], db) /\ Below(db, old) /\ Below(db, db)
      /\ \A j \in DOMAIN cmq : Below(db, cmq[j])
      /\ \A i \in DOMAIN batch : Below(batch[i], db)
  BY <1>1, <1>3, <1>5, BelowReflexive DEF IInv, PipelineOrdered, BatchOrdered
<1>8. head \in 1..This /\ com'[head] = com[head] /\ conn \in 1..This /\ com'[conn] = com[conn]
  BY <1>4, Facts DEF IInv
<1>9. /\ Below(com[head], com'[n]) /\ Below(com'[n], old) /\ Below(com'[n], com'[n])
      /\ \A j \in DOMAIN cmq : Below(com'[n], cmq[j])
      /\ \A i \in DOMAIN batch : Below(batch[i], com'[n])
  BY <1>4, <1>7 DEF Below
<1>10. RootsOrdered'
  <2>1. Below(com[head], com[head]) /\ head <= head /\ head < n
    BY <1>4, <1>8, Facts, BelowReflexive DEF IInv
  <2>. QED
    BY <1>1, <1>4, <1>6, <1>8, <1>9, <2>1 DEF RootsOrdered
<1>11. MemoryNewest'
  BY <1>1, <1>5, <1>6, <1>8, <1>9 DEF IInv, PipelineOrdered, MemoryNewest
<1>12. QueueOrdered'
  BY <1>1, <1>5, <1>6, <1>8, <1>9 DEF IInv, PipelineOrdered, QueueOrdered
<1>13. BatchOrdered' /\ BatchCommitted'
  BY <1>1, <1>4, <1>9 DEF BatchOrdered, BatchCommitted
<1>14. ProgressOrdered'
  BY <1>1, <1>4, <1>6, <1>8, <1>9 DEF ProgressOrdered
<1>15. DownEmpty' /\ AnswersCommitted'
  BY <1>1, <1>2 DEF DownEmpty, AnswersCommitted
<1>16. RootsStarted'
  <2>1. CASE multi
    <3>1. Write(n, (schema \cup nodes) \cup {CommitKey(n), Branch}) \in inflight'
      BY <2>1 DEF Flush, AtomicWrite, db
    <3>. QED
      BY <1>4, <3>1 DEF RootsStarted, Roots, Write
  <2>2. CASE ~multi
    BY <2>2 DEF Flush, RootsStarted
  <2>. QED
    BY <2>1, <2>2
<1>17. AckedDurable' /\ ConnDurable' /\ ReadYourWrites'
  BY <1>1, <1>8 DEF IInv, AckedDurable, ConnDurable, ReadYourWrites, Log
<1>. QED
  BY <1>10, <1>11, <1>12, <1>13, <1>14, <1>15, <1>16, <1>17 DEF IInv, PipelineOrdered

\* The schema record is written: node writes are no roots.
LEMMA SchemaWrittenStep ==
    ASSUME IInv, TypeOK', SchemaWritten
    PROVE  IInv'
<1>1. /\ UNCHANGED <<answer, old, cmq, batch, com, head, refused, status, conn, proc>>
      /\ cpc = "schema" /\ cpc' = "nodes"
      /\ inflight' = inflight \cup NodeWrites(This, kvs)
  BY DEF SchemaWritten, clientVars, procVars, connVars
<1>2. Roots' = Roots /\ This' = This /\ Log' = Log
  <2>1. \A w \in NodeWrites(This, kvs) : Branch \notin w.keys
    BY BranchKey DEF IInv, TypeOK, TypeCommit, NodeWrites, Write
  <2>. QED
    BY <1>1, <2>1 DEF Roots, This, Log
<1>3. PipelineOrdered'
  BY <1>1, <1>2 DEF IInv, PipelineOrdered, RootsOrdered, MemoryNewest, QueueOrdered,
                    BatchOrdered, ProgressOrdered, BatchCommitted
<1>4. DownEmpty' /\ RootsStarted' /\ AnswersCommitted'
  BY <1>1 DEF IInv, DownEmpty, RootsStarted, AnswersCommitted
<1>5. AckedDurable' /\ ConnDurable' /\ ReadYourWrites'
  BY <1>1, <1>2 DEF IInv, AckedDurable, ConnDurable, ReadYourWrites
<1>. QED
  BY <1>3, <1>4, <1>5 DEF IInv

\* The nodes are written: the commit in progress becomes a root.
LEMMA NodesWrittenStep ==
    ASSUME IInv, TypeOK', NodesWritten
    PROVE  IInv'
<1>1. /\ UNCHANGED <<answer, old, cmq, batch, com, head, refused, status, conn, proc>>
      /\ cpc = "nodes" /\ cpc' = "roots"
      /\ inflight' = inflight \cup RootWrites(This)
  BY DEF NodesWritten, clientVars, procVars, connVars
<1>2. This' = This /\ Log' = Log
  BY <1>1 DEF This, Log
<1>3. Roots' = Roots \cup {This}
  <2>1. inflight' = inflight \cup {Write(This, {CommitKey(This)}), Write(This, {Branch})}
    BY <1>1 DEF RootWrites
  <2>2. /\ Write(This, {Branch}) \in inflight' /\ Write(This, {Branch}).n = This
        /\ Branch \in Write(This, {Branch}).keys
    BY <2>1 DEF Write
  <2>3. This \in Roots'
    BY <2>2 DEF Roots
  <2>4. Roots \subseteq Roots'
    BY <1>1 DEF Roots
  <2>5. Roots' \subseteq Roots \cup {This}
    BY <1>1, <2>1 DEF Roots, Write
  <2>. QED
    BY <2>3, <2>4, <2>5
<1>4. /\ \A r \in Roots : r <= This /\ Below(com[r], com[This])
      /\ Below(com[This], com[This]) /\ Below(com[This], old)
      /\ \A j \in DOMAIN cmq : Below(com[This], cmq[j])
  <2>1. This \in 1..This /\ \A r \in Roots : r <= This
    BY Facts DEF IInv
  <2>. QED
    BY <1>1, <2>1, Facts, BelowReflexive DEF IInv, PipelineOrdered, ProgressOrdered
<1>5. RootsOrdered'
  <2>1. Roots \subseteq Nat /\ This \in Nat /\ head \in Roots /\ head \in Nat
    BY Facts DEF IInv
  <2>2. ASSUME NEW q \in Roots', NEW r \in Roots'
        PROVE  head <= r /\ (q <= r => Below(com[q], com[r]))
    <3>1. CASE q \in Roots /\ r \in Roots
      BY <3>1 DEF IInv, PipelineOrdered, RootsOrdered
    <3>2. CASE r = This
      BY <1>3, <1>4, <2>1, <3>2
    <3>3. CASE q = This /\ r \in Roots
      <4>1. q <= r => q = r
        BY <1>4, <2>1, <3>3
      <4>2. head <= r
        BY <2>1, <3>3 DEF IInv, PipelineOrdered, RootsOrdered
      <4>. QED
        BY <1>4, <3>3, <4>1, <4>2
    <3>. QED
      BY <1>3, <3>1, <3>2, <3>3
  <2>. QED
    BY <1>1, <2>2 DEF RootsOrdered
<1>6. MemoryNewest'
  BY <1>1, <1>3, <1>4 DEF IInv, PipelineOrdered, MemoryNewest
<1>7. QueueOrdered'
  BY <1>1, <1>3, <1>4 DEF IInv, PipelineOrdered, QueueOrdered
<1>8. BatchOrdered' /\ ProgressOrdered' /\ BatchCommitted'
  BY <1>1, <1>2 DEF IInv, PipelineOrdered, BatchOrdered, ProgressOrdered, BatchCommitted
<1>9. DownEmpty' /\ RootsStarted' /\ AnswersCommitted'
  BY <1>1, <1>2, <1>3 DEF IInv, DownEmpty, RootsStarted, AnswersCommitted
<1>10. AckedDurable' /\ ConnDurable' /\ ReadYourWrites'
  BY <1>1, <1>2 DEF IInv, AckedDurable, ConnDurable, ReadYourWrites
<1>. QED
  BY <1>5, <1>6, <1>7, <1>8, <1>9, <1>10 DEF IInv, PipelineOrdered

\* commit! returned: the branch points to this commit, and so does the
\* connection.
LEMMA PublishStep ==
    ASSUME IInv, TypeOK', Publish
    PROVE  IInv'
<1>1. /\ UNCHANGED <<answer, old, cmq, batch, com, head, inflight, refused, proc>>
      /\ cpc = "roots" /\ cpc' = "answer" /\ Unfinished = {} /\ Failed = {}
      /\ conn' = This /\ status' = "open"
  BY DEF Publish, clientVars, procVars, storeVars, Awaited
<1>2. Roots' = Roots /\ This' = This /\ Log' = Log
  BY <1>1 DEF Roots, This, Log
<1>3. head = This
  BY <1>1 DEF IInv, RootsStarted, Roots, Unfinished
<1>4. status # "down"
  BY <1>1 DEF IInv, DownEmpty
<1>5. PipelineOrdered'
  BY <1>1, <1>2, <1>4 DEF IInv, PipelineOrdered, RootsOrdered, MemoryNewest,
                          QueueOrdered, BatchOrdered, ProgressOrdered, BatchCommitted
<1>6. DownEmpty' /\ RootsStarted' /\ AnswersCommitted'
  BY <1>1, <1>2, <1>3 DEF IInv, DownEmpty, RootsStarted, AnswersCommitted
<1>7. AckedDurable'
  BY <1>1, <1>2 DEF IInv, AckedDurable
<1>8. ConnDurable'
  <2>1. Below(com[head], com[head])
    BY Facts, BelowReflexive DEF IInv
  <2>. QED
    BY <1>1, <1>3, <2>1 DEF ConnDurable, Log, Below
<1>9. ReadYourWrites'
  BY <1>1, <1>3 DEF IInv, AckedDurable, ReadYourWrites, Log
<1>. QED
  BY <1>5, <1>6, <1>7, <1>8, <1>9 DEF IInv, PipelineOrdered

\* What a value holds, a value above it holds.
LEMMA BelowRange ==
    ASSUME NEW u, NEW v, u.txs \in Seq(Tx), v.txs \in Seq(Tx), Below(u, v)
    PROVE  Range(u.txs) \subseteq Range(v.txs)
  BY PrefixRange DEF Below

\* A caller is answered "ok": its transaction is in the commit of the batch.
LEMMA ConfirmStep ==
    ASSUME IInv, TypeOK', Confirm
    PROVE  IInv'
<1> DEFINE b == Head(batch)
<1>1. /\ UNCHANGED <<old, cmq, com, head, inflight, refused, status, conn, proc>>
      /\ cpc = "answer" /\ cpc' \in {"take", "answer"}
      /\ batch # <<>> /\ batch' = Tail(batch)
      /\ answer' = [answer EXCEPT ![Owner(b)] = "ok"]
  BY DEF Confirm, AnswerNext, procVars, storeVars, connVars
<1>2. Roots' = Roots /\ This' = This /\ Failed' = Failed /\ Log' = Log
  BY <1>1 DEF Roots, This, Failed, Log
<1>3. status # "down"
  BY <1>1 DEF IInv, DownEmpty
<1>4. /\ b = batch[1] /\ 1 \in DOMAIN batch
      /\ b.txs \in Seq(Tx) /\ b.txs # <<>>
      /\ \A i \in DOMAIN batch' : i + 1 \in DOMAIN batch /\ batch'[i] = batch[i + 1]
  <2>1. batch \in Seq(Db) /\ \A i \in DOMAIN batch : batch[i].txs # <<>>
    BY DEF IInv, TypeOK, TypeCommit
  <2>2. b = batch[1] /\ 1 \in DOMAIN batch
    BY <1>1, <2>1
  <2>3. \A i \in DOMAIN batch' : i + 1 \in DOMAIN batch /\ batch'[i] = batch[i + 1]
    BY <1>1, <2>1
  <2>. QED
    BY <2>1, <2>2, <2>3, Facts DEF IInv
<1>5. Owner(b) \in Range(Log)
  <2>1. head = This /\ Below(b, com[This])
    BY <1>1, <1>4 DEF IInv, AnswersCommitted, PipelineOrdered, BatchCommitted
  <2>2. Owner(b) \in Range(b.txs)
    <3> DEFINE s == b.txs
    <3>1. s \in Seq(Tx) /\ s # <<>>
      BY <1>4
    <3>. HIDE DEF s
    <3>2. Len(s) \in DOMAIN s
      BY <3>1
    <3>3. s[Len(s)] \in Range(s)
      BY <3>2 DEF Range
    <3>. QED
      BY <3>3 DEF Owner, Last, s
  <2>3. com[This].txs \in Seq(Tx)
    BY Facts DEF IInv
  <2>. QED
    BY <1>4, <2>1, <2>2, <2>3, BelowRange DEF Log
<1>. HIDE DEF b
<1>6. RootsOrdered' /\ MemoryNewest' /\ QueueOrdered' /\ BatchOrdered' /\ ProgressOrdered'
  BY <1>1, <1>2 DEF IInv, PipelineOrdered, RootsOrdered, MemoryNewest,
                    QueueOrdered, BatchOrdered, ProgressOrdered
<1>7. BatchCommitted'
  BY <1>1, <1>2, <1>4 DEF IInv, PipelineOrdered, BatchCommitted
<1>8. DownEmpty' /\ RootsStarted' /\ AnswersCommitted' /\ ConnDurable'
  BY <1>1, <1>2, <1>3 DEF IInv, DownEmpty, RootsStarted, AnswersCommitted, ConnDurable
<1>9. \A t \in Tx : answer'[t] = "ok" => t = Owner(b) \/ answer[t] = "ok"
  BY <1>1 DEF IInv, TypeOK, TypeClient
<1>10. AckedDurable'
  BY <1>2, <1>5, <1>9 DEF IInv, AckedDurable
<1>11. ReadYourWrites'
  <2>1. head = This /\ conn = This
    BY <1>1 DEF IInv, AnswersCommitted
  <2>. QED
    BY <1>1, <1>5, <1>9, <2>1 DEF IInv, ReadYourWrites, Log
<1>. QED
  BY <1>6, <1>7, <1>8, <1>10, <1>11 DEF IInv, PipelineOrdered

\* A write lands: if it is one of the branch, the first of the branch writes
\* under way becomes the durable value.
LEMMA LandStep ==
    ASSUME IInv, TypeOK', NEW w \in inflight, Land(w)
    PROVE  IInv'
<1>1. /\ UNCHANGED <<answer, old, cmq, cpc, batch, com, refused, status, conn, proc>>
      /\ inflight' = inflight \ {w}
      /\ head' = IF Branch \in w.keys THEN w.n ELSE head
      /\ Branch \in w.keys => \A v \in inflight : Branch \in v.keys => w.n <= v.n
  BY DEF Land, clientVars, procVars, commitVars, connVars
<1>2. This' = This /\ Failed' = Failed
  BY <1>1 DEF This, Failed
<1>3. Roots' \subseteq Roots /\ head' \in Roots
  BY <1>1 DEF Roots
<1>4. \A r \in Roots' : head' <= r
  <2>1. CASE Branch \in w.keys
    <3>1. head' = w.n /\ w.n \in Roots
      BY <1>1, <2>1 DEF Roots
    <3>2. \A r \in Roots' : r = head' \/ \E v \in inflight : Branch \in v.keys /\ r = v.n
      BY <1>1 DEF Roots
    <3>3. w.n \in Nat
      BY <3>1, Facts DEF IInv
    <3>. QED
      BY <1>1, <2>1, <3>1, <3>2, <3>3
  <2>2. CASE Branch \notin w.keys
    BY <1>1, <1>3, <2>2 DEF IInv, PipelineOrdered, RootsOrdered
  <2>. QED
    BY <2>1, <2>2
<1>5. RootsOrdered' /\ MemoryNewest' /\ QueueOrdered' /\ BatchOrdered'
      /\ ProgressOrdered' /\ BatchCommitted'
  BY <1>1, <1>2, <1>3, <1>4 DEF IInv, PipelineOrdered, RootsOrdered, MemoryNewest,
                    QueueOrdered, BatchOrdered, ProgressOrdered, BatchCommitted
<1>6. DownEmpty'
  BY <1>1 DEF IInv, DownEmpty
<1>7. head = This => head' = This
  <2>1. head <= head' /\ head \in Nat /\ head' \in Nat /\ head' <= This /\ This \in Nat
    BY <1>3, Facts DEF IInv, PipelineOrdered, RootsOrdered
  <2>. QED
    BY <2>1
<1>8. RootsStarted'
  <2>1. This \in Roots => This \in Roots'
    <3>1. CASE This = head
      BY <1>7, <3>1 DEF Roots
    <3>2. CASE \E v \in inflight : Branch \in v.keys /\ v.n = This
      BY <1>1, <3>2 DEF Roots
    <3>. QED
      BY <3>1, <3>2 DEF Roots
  <2>. QED
    BY <1>1, <1>2, <2>1 DEF IInv, RootsStarted
<1>9. AnswersCommitted'
  BY <1>1, <1>2, <1>7 DEF IInv, AnswersCommitted
<1>10. Below(com[head], com[head'])
  BY <1>3, Facts DEF IInv, PipelineOrdered, RootsOrdered
<1>11. /\ com[head].txs \in Seq(Tx) /\ com[head'].txs \in Seq(Tx)
       /\ com[conn].txs \in Seq(Tx)
  BY <1>3, Facts DEF IInv
<1>12. AckedDurable'
  <2>1. Range(com[head].txs) \subseteq Range(com[head'].txs)
    BY <1>10, <1>11, BelowRange
  <2>. QED
    BY <1>1, <2>1 DEF IInv, AckedDurable, Log
<1>13. ConnDurable'
  BY <1>1, <1>10, <1>11, PrefixTransitive DEF IInv, ConnDurable, Log, Below
<1>14. ReadYourWrites'
  BY <1>1 DEF IInv, ReadYourWrites
<1>. QED
  BY <1>5, <1>6, <1>8, <1>9, <1>12, <1>13, <1>14 DEF IInv, PipelineOrdered

\* A refused write is no longer a root, which weakens every conjunct but one.
LEMMA RefuseStep ==
    ASSUME IInv, TypeOK', NEW w \in inflight, Refuse(w)
    PROVE  IInv'
<1>1. /\ UNCHANGED <<answer, old, cmq, cpc, batch, com, head, status, conn, proc>>
      /\ inflight' = inflight \ {w} /\ refused' = refused \cup {w}
  BY DEF Refuse, clientVars, procVars, commitVars, connVars
<1>2. This' = This /\ Log' = Log /\ Roots' \subseteq Roots /\ head \in Roots'
  BY <1>1 DEF This, Log, Roots
<1>3. PipelineOrdered'
  BY <1>1, <1>2 DEF IInv, PipelineOrdered, RootsOrdered, MemoryNewest, QueueOrdered,
                    BatchOrdered, ProgressOrdered, BatchCommitted
<1>4. DownEmpty' /\ AnswersCommitted'
  BY <1>1, <1>2 DEF IInv, DownEmpty, AnswersCommitted
<1>5. RootsStarted'
  BY <1>1, <1>2 DEF IInv, RootsStarted, Roots, Failed
<1>6. AckedDurable' /\ ConnDurable' /\ ReadYourWrites'
  BY <1>1, <1>2 DEF IInv, AckedDurable, ConnDurable, ReadYourWrites
<1>. QED
  BY <1>3, <1>4, <1>5, <1>6 DEF IInv

\* Releasing the connection disturbs nothing that is under way.
LEMMA ReleaseStep ==
    ASSUME IInv, TypeOK', Release
    PROVE  IInv'
<1>1. /\ UNCHANGED <<answer, old, cmq, cpc, batch, com, head, inflight, refused, conn>>
      /\ status = "open" /\ status' = "released"
  BY DEF Release, clientVars, commitVars, storeVars
<1>2. This' = This /\ Log' = Log /\ Roots' = Roots /\ Failed' = Failed
  BY <1>1 DEF This, Log, Roots, Failed
<1>3. PipelineOrdered'
  BY <1>1, <1>2 DEF IInv, PipelineOrdered, RootsOrdered, MemoryNewest, QueueOrdered,
                    BatchOrdered, ProgressOrdered, BatchCommitted
<1>4. DownEmpty' /\ AnswersCommitted' /\ RootsStarted'
  BY <1>1, <1>2 DEF IInv, DownEmpty, AnswersCommitted, RootsStarted
<1>5. AckedDurable' /\ ConnDurable' /\ ReadYourWrites'
  BY <1>1, <1>2 DEF IInv, AckedDurable, ConnDurable, ReadYourWrites
<1>. QED
  BY <1>3, <1>4, <1>5 DEF IInv

\* A crash leaves the durable value, and no other root.
LEMMA CrashStep ==
    ASSUME IInv, TypeOK', Crash
    PROVE  IInv'
<1>1. /\ UNCHANGED <<com, head, conn>>
      /\ status' = "down" /\ proc' = "stopped" /\ cpc' = "stopped"
      /\ cmq' = <<>> /\ batch' = <<>> /\ inflight' = {}
      /\ \A t \in Tx : answer'[t] = "ok" => answer[t] = "ok"
  BY DEF Crash
<1>2. Roots' = {head} /\ Log' = Log
  BY <1>1 DEF Roots, Log
<1>3. RootsOrdered'
  <2>1. head \in Nat /\ Below(com[head], com[head])
    BY Facts, BelowReflexive DEF IInv
  <2>. QED
    BY <1>1, <1>2, <2>1 DEF RootsOrdered
<1>4. MemoryNewest' /\ BatchOrdered' /\ ProgressOrdered' /\ BatchCommitted'
  BY <1>1 DEF MemoryNewest, BatchOrdered, ProgressOrdered, BatchCommitted
<1>5. QueueOrdered'
  <2>1. ASSUME NEW i \in DOMAIN cmq' PROVE FALSE
    BY <1>1
  <2>. QED
    BY <2>1 DEF QueueOrdered
<1>6. DownEmpty' /\ RootsStarted' /\ AnswersCommitted'
  BY <1>1 DEF DownEmpty, RootsStarted, AnswersCommitted
<1>7. AckedDurable' /\ ConnDurable' /\ ReadYourWrites'
  BY <1>1, <1>2 DEF IInv, AckedDurable, ConnDurable, ReadYourWrites
<1>. QED
  BY <1>3, <1>4, <1>5, <1>6, <1>7 DEF IInv, PipelineOrdered

\* A new process starts from the durable value.
LEMMA ConnectStep ==
    ASSUME IInv, TypeOK', Connect
    PROVE  IInv'
<1>1. /\ UNCHANGED <<answer, cmq, batch, com, head, inflight, refused>>
      /\ status = "down" /\ status' = "open" /\ conn' = head
      /\ cpc' = "take" /\ old'.txs = com[head].txs
      /\ cmq = <<>> /\ inflight = {}
  BY DEF Connect, Loaded, clientVars, storeVars, IInv, DownEmpty
<1>2. Roots = {head} /\ Roots' = {head} /\ Log' = Log
  BY <1>1 DEF Roots, Log
<1>3. Below(com[head], com[head])
  BY Facts, BelowReflexive DEF IInv
<1>4. RootsOrdered'
  BY <1>1, <1>2 DEF IInv, PipelineOrdered, RootsOrdered
<1>5. MemoryNewest'
  BY <1>1, <1>2, <1>3 DEF MemoryNewest, Below
<1>6. QueueOrdered'
  <2>1. ASSUME NEW i \in DOMAIN cmq' PROVE FALSE
    BY <1>1
  <2>. QED
    BY <2>1 DEF QueueOrdered
<1>7. BatchOrdered' /\ ProgressOrdered' /\ BatchCommitted'
  BY <1>1 DEF BatchOrdered, ProgressOrdered, BatchCommitted
<1>8. DownEmpty' /\ RootsStarted' /\ AnswersCommitted'
  BY <1>1 DEF DownEmpty, RootsStarted, AnswersCommitted
<1>9. AckedDurable' /\ ConnDurable' /\ ReadYourWrites'
  BY <1>1, <1>2, <1>3 DEF IInv, AckedDurable, ConnDurable, ReadYourWrites, Log, Below
<1>. QED
  BY <1>4, <1>5, <1>6, <1>7, <1>8, <1>9 DEF IInv, PipelineOrdered

LEMMA InvInit == Init => IInv
<1>. SUFFICES ASSUME Init PROVE IInv
  OBVIOUS
<1>1. TypeOK
  BY TypeInit
<1>2. /\ inflight = {} /\ cmq = <<>> /\ batch = <<>> /\ status = "down"
      /\ cpc = "stopped" /\ proc = "stopped"
      /\ \A t \in Tx : answer[t] = "none"
  BY DEF Init
<1>3. Roots = {head}
  BY <1>2 DEF Roots
<1>4. Below(com[head], com[head]) /\ head \in Nat
  BY <1>1, Facts, BelowReflexive
<1>5. RootsOrdered
  BY <1>3, <1>4 DEF RootsOrdered
<1>6. QueueOrdered
  <2>1. ASSUME NEW i \in DOMAIN cmq PROVE FALSE
    BY <1>2
  <2>. QED
    BY <2>1 DEF QueueOrdered
<1>7. MemoryNewest /\ BatchOrdered /\ ProgressOrdered /\ BatchCommitted
  BY <1>2 DEF MemoryNewest, BatchOrdered, ProgressOrdered, BatchCommitted
<1>8. DownEmpty /\ RootsStarted /\ AnswersCommitted
  BY <1>2 DEF DownEmpty, RootsStarted, AnswersCommitted
<1>9. AckedDurable /\ ConnDurable /\ ReadYourWrites
  BY <1>2 DEF AckedDurable, ConnDurable, ReadYourWrites
<1>. QED
  BY <1>1, <1>5, <1>6, <1>7, <1>8, <1>9 DEF IInv, PipelineOrdered

LEMMA InvStep == IInv /\ [Next]_vars => IInv'
<1>. SUFFICES ASSUME IInv, [Next]_vars PROVE IInv'
  OBVIOUS
<1>1. TypeOK'
  BY TypeStep DEF IInv
<1>. USE DEF clientVars, procVars, commitVars, storeVars, connVars, boundVars
<1>2. answer \in [Tx -> Answers]
  BY DEF IInv, TypeOK, TypeClient
<1>3. status = "down" => proc = "stopped" /\ cpc = "stopped" /\ batch = <<>>
  BY DEF IInv, DownEmpty
<1>4. ASSUME NEW t \in Tx, Call(t) PROVE IInv'
  BY <1>1, <1>2, <1>3, <1>4, QuietStep DEF Call
<1>5. ASSUME NEW t \in Tx, Dispatch(t) PROVE IInv'
  BY <1>1, <1>2, <1>3, <1>5, QuietStep DEF Dispatch
<1>6. ASSUME NEW t \in Tx, FinishBackground(t) PROVE IInv'
  BY <1>1, <1>2, <1>3, <1>6, QuietStep DEF FinishBackground
<1>7. CASE TransactOk
  BY <1>1, <1>7, TransactOkStep
<1>8. CASE TransactError
  BY <1>1, <1>2, <1>3, <1>8, QuietStep DEF TransactError, AfterError
<1>9. CASE StartBackground
  BY <1>1, <1>3, <1>9, QuietStep DEF StartBackground
<1>10. CASE Enqueue
  BY <1>1, <1>10, EnqueueStep
<1>11. CASE StopProcessing
  BY <1>1, <1>11, QuietStep DEF StopProcessing
<1>12. CASE Take
  BY <1>1, <1>12, TakeStep
<1>13. CASE StopCommitting
  BY <1>1, <1>3, <1>13, IdleStep DEF StopCommitting
<1>14. CASE Flush
  BY <1>1, <1>14, FlushStep
<1>15. CASE SchemaWritten
  BY <1>1, <1>15, SchemaWrittenStep
<1>16. CASE NodesWritten
  BY <1>1, <1>16, NodesWrittenStep
<1>17. CASE Publish
  BY <1>1, <1>17, PublishStep
<1>18. CASE Confirm
  BY <1>1, <1>18, ConfirmStep
<1>19. CASE CommitError
  BY <1>1, <1>3, <1>19, IdleStep DEF CommitError
<1>20. CASE ReportError
  <2>1. \A t \in Tx : answer'[t] = "ok" => answer[t] = "ok"
    BY <1>2, <1>20 DEF ReportError, AnswerNext
  <2>. QED
    BY <1>1, <1>3, <1>20, <2>1, IdleStep DEF ReportError, AnswerNext
<1>21. CASE CloseQueues
  BY <1>1, <1>3, <1>21, IdleStep DEF CloseQueues
<1>22. ASSUME NEW w \in inflight, Land(w) PROVE IInv'
  BY <1>1, <1>22, LandStep
<1>23. ASSUME NEW w \in inflight, Refuse(w) PROVE IInv'
  BY <1>1, <1>23, RefuseStep
<1>24. CASE Release
  BY <1>1, <1>24, ReleaseStep
<1>25. CASE Crash
  BY <1>1, <1>25, CrashStep
<1>26. CASE Connect
  BY <1>1, <1>26, ConnectStep
<1>27. CASE UNCHANGED vars
  BY <1>1, <1>3, <1>27, QuietStep DEF vars
<1>. QED
  BY <1>4, <1>5, <1>6, <1>7, <1>8, <1>9, <1>10, <1>11, <1>12, <1>13, <1>14, <1>15,
     <1>16, <1>17, <1>18, <1>19, <1>20, <1>21, <1>22, <1>23, <1>24, <1>25, <1>26,
     <1>27 DEF Next, ProcessingLoop, CommitLoop

-------------------------------------------------------------------------------
(* Theorems *)

\* The inductive invariant holds in every reachable state.
THEOREM Invariant == Spec => []IInv
<1>. QED
  BY InvInit, InvStep, PTL DEF Spec

\* The values in the pipeline of the writer are ordered, whatever fails.
THEOREM PipelineCorrect == Spec => []PipelineOrdered
<1>1. IInv => PipelineOrdered
  BY DEF IInv
<1>. QED
  BY <1>1, Invariant, PTL

\* Durability: what a caller was told is committed is in the durable value,
\* after any number of later commits, refused writes, releases and crashes.
THEOREM Durability == Spec => []AckedDurable
<1>1. IInv => AckedDurable
  BY DEF IInv
<1>. QED
  BY <1>1, Invariant, PTL

\* The connection never shows what is not durable.
THEOREM ConnectionDurable == Spec => []ConnDurable
<1>1. IInv => ConnDurable
  BY DEF IInv
<1>. QED
  BY <1>1, Invariant, PTL

\* A caller that got its report finds its transaction in the connection.
THEOREM ReadsSeeWrites == Spec => []ReadYourWrites
<1>1. IInv => ReadYourWrites
  BY DEF IInv
<1>. QED
  BY <1>1, Invariant, PTL
===============================================================================
