--------------------------- MODULE WriterLogProofs ---------------------------
(***************************************************************************)
(* What is true of the log of Writer for any set of requests, any number   *)
(* of crashes and any number of refused writes: the durable transactions   *)
(* are in the order in which the queue accepted them, and the writer       *)
(* implements DurableLog.                                                  *)
(***************************************************************************)
EXTENDS WriterProofs

-------------------------------------------------------------------------------
(* The inductive invariant *)

\* The queue accepted a before b.
Precedes(a, b) == \E k, l \in DOMAIN sent : k < l /\ sent[k] = a /\ sent[l] = b

\* The sequence s consists of requests in the order in which they were accepted.
Ordered(s) == /\ Range(s) \subseteq Range(sent)
              /\ \A i, j \in DOMAIN s : i < j => Precedes(s[i], s[j])

\* Every request is dispatched once.
SentOnce == /\ \A i, j \in DOMAIN sent : sent[i] = sent[j] => i = j
            /\ \A t \in Range(sent) : answer[t] \notin {"none", "called"}

\* All commits, the value in memory, and the queue behind it are in that order.
AllOrdered == /\ \A n \in 1..Len(com) : Ordered(com[n].txs)
              /\ Ordered(old.txs) /\ Ordered(txq)
              /\ \A a \in Range(old.txs), b \in Range(txq) : Precedes(a, b)

\* What is in memory only is not answered, unless with an error of its commit.
MemoryOpen == \A t \in Range(old.txs) :
                 /\ t \notin AsyncTx
                 /\ t \in Range(Log) \/ answer[t] \in {"waiting", "failed"}

\* What has not passed the processing loop is not answered.
QueueOpen == /\ \A t \in Range(txq) \cup bg : answer[t] = "waiting"
             /\ bg \cap Range(txq) = {}

\* Nor are the owners of the results, which have one each.
Results(s) == /\ \A i \in DOMAIN s : /\ Owner(s[i]) \in Range(old.txs)
                                     /\ answer[Owner(s[i])] = "waiting"
              /\ \A i, j \in DOMAIN s : Owner(s[i]) = Owner(s[j]) => i = j

ResultsOpen ==
    /\ Results(batch) /\ Results(cmq)
    /\ \A i \in DOMAIN batch, j \in DOMAIN cmq : Owner(batch[i]) # Owner(cmq[j])
    /\ proc = "put" => /\ answer[Owner(old)] = "waiting"
                       /\ \A i \in DOMAIN batch : Owner(batch[i]) # Owner(old)
                       /\ \A i \in DOMAIN cmq : Owner(cmq[i]) # Owner(old)

\* Without a process nothing waits.
DownIdle == status = "down" => txq = <<>> /\ ~txOpen /\ bg = {}

\* What runs in the background is in no commit.
AsyncApart == \A n \in 1..Len(com) : Range(com[n].txs) \cap AsyncTx = {}

LInv == /\ SentOnce /\ AllOrdered /\ AsyncApart /\ DownIdle
        /\ MemoryOpen /\ QueueOpen /\ ResultsOpen

-------------------------------------------------------------------------------
(* Sequences *)

LEMMA RangeElements ==
    ASSUME NEW S, NEW s \in Seq(S)
    PROVE  /\ Range(s) \subseteq S
           /\ \A i \in DOMAIN s : s[i] \in Range(s)
           /\ \A e \in Range(s) : \E i \in DOMAIN s : s[i] = e
  BY DEF Range

LEMMA AppendRange ==
    ASSUME NEW S, NEW s \in Seq(S), NEW e \in S
    PROVE  /\ Append(s, e) \in Seq(S)
           /\ DOMAIN Append(s, e) = 1..Len(s) + 1 /\ DOMAIN s = 1..Len(s)
           /\ \A i \in 1..Len(s) : Append(s, e)[i] = s[i]
           /\ Append(s, e)[Len(s) + 1] = e
           /\ Len(s) \in Nat /\ Len(Append(s, e)) = Len(s) + 1
           /\ Range(Append(s, e)) = Range(s) \cup {e}
<1> DEFINE a == Append(s, e)
<1>1. /\ a \in Seq(S) /\ Len(s) \in Nat
      /\ DOMAIN a = 1..Len(s) + 1 /\ DOMAIN s = 1..Len(s) /\ Len(a) = Len(s) + 1
      /\ \A i \in 1..Len(s) : a[i] = s[i]
      /\ a[Len(s) + 1] = e
  OBVIOUS
<1>. HIDE DEF a
<1>2. Range(a) = Range(s) \cup {e}
  <2>1. ASSUME NEW x \in Range(a) PROVE x \in Range(s) \cup {e}
    <3>1. PICK i \in 1..Len(s) + 1 : a[i] = x
      BY <1>1, <2>1 DEF Range
    <3>. QED
      BY <1>1, <3>1 DEF Range
  <2>2. Range(s) \subseteq Range(a)
    <3>1. ASSUME NEW i \in 1..Len(s) PROVE s[i] \in Range(a)
      BY <1>1, <3>1 DEF Range
    <3>. QED
      BY <1>1, <3>1 DEF Range
  <2>3. e \in Range(a)
    BY <1>1 DEF Range
  <2>. QED
    BY <2>1, <2>2, <2>3
<1>. QED
  BY <1>1, <1>2 DEF a

LEMMA TailElements ==
    ASSUME NEW S, NEW s \in Seq(S), s # <<>>
    PROVE  /\ Head(s) = s[1] /\ 1 \in DOMAIN s /\ Head(s) \in S
           /\ Tail(s) \in Seq(S)
           /\ \A i \in DOMAIN Tail(s) : i + 1 \in DOMAIN s /\ Tail(s)[i] = s[i + 1]
           /\ \A i \in DOMAIN Tail(s) : i \in Nat /\ i >= 1
           /\ Range(Tail(s)) \subseteq Range(s) /\ Head(s) \in Range(s)
<1> DEFINE u == Tail(s)
<1>1. /\ Head(s) = s[1] /\ 1 \in DOMAIN s /\ Head(s) \in S /\ u \in Seq(S)
      /\ \A i \in DOMAIN u : i + 1 \in DOMAIN s /\ u[i] = s[i + 1]
      /\ \A i \in DOMAIN u : i \in Nat /\ i >= 1
  OBVIOUS
<1>. HIDE DEF u
<1>2. Range(u) \subseteq Range(s) /\ Head(s) \in Range(s)
  BY <1>1 DEF Range
<1>. QED
  BY <1>1, <1>2 DEF u

-------------------------------------------------------------------------------
(* Order *)

\* An accepted request is not before itself.
LEMMA PrecedesStrict ==
    ASSUME SentOnce, sent \in Seq(Tx), NEW a, NEW b, Precedes(a, b)
    PROVE  a # b
<1>1. PICK k, l \in DOMAIN sent : k < l /\ sent[k] = a /\ sent[l] = b
  BY DEF Precedes
<1>2. k \in Nat /\ l \in Nat
  BY <1>1
<1>. QED
  BY <1>1, <1>2 DEF SentOnce

\* What is ordered has no duplicates.
LEMMA OrderedInjective ==
    ASSUME SentOnce, sent \in Seq(Tx), NEW s \in Seq(Tx), Ordered(s)
    PROVE  \A i, j \in DOMAIN s : s[i] = s[j] => i = j
<1>1. SUFFICES ASSUME NEW i \in DOMAIN s, NEW j \in DOMAIN s, i # j
               PROVE  s[i] # s[j]
  OBVIOUS
<1>2. i < j \/ j < i
  BY <1>1
<1>3. Precedes(s[i], s[j]) \/ Precedes(s[j], s[i])
  BY <1>2 DEF Ordered
<1>. QED
  BY <1>3, PrecedesStrict

LEMMA OrderedPrefix ==
    ASSUME NEW s \in Seq(Tx), NEW r \in Seq(Tx), Ordered(s), IsPrefix(r, s)
    PROVE  Ordered(r)
<1>1. Range(r) \subseteq Range(s)
  BY PrefixRange
<1>2. \A i \in DOMAIN r : i \in DOMAIN s /\ r[i] = s[i]
  BY PrefixPointwise
<1>. QED
  BY <1>1, <1>2 DEF Ordered

LEMMA OrderedAppend ==
    ASSUME NEW s \in Seq(Tx), NEW b \in Tx, Ordered(s), b \in Range(sent),
           \A a \in Range(s) : Precedes(a, b)
    PROVE  Ordered(Append(s, b))
<1> DEFINE u == Append(s, b)
<1>1. /\ DOMAIN u = 1..Len(s) + 1 /\ DOMAIN s = 1..Len(s) /\ Len(s) \in Nat
      /\ \A i \in 1..Len(s) : u[i] = s[i]
      /\ u[Len(s) + 1] = b /\ Range(u) = Range(s) \cup {b}
  BY AppendRange
<1>. HIDE DEF u
<1>2. ASSUME NEW i \in DOMAIN u, NEW j \in DOMAIN u, i < j
      PROVE  Precedes(u[i], u[j])
  <2>1. i \in 1..Len(s) /\ u[i] = s[i] /\ s[i] \in Range(s)
    BY <1>1, <1>2, RangeElements
  <2>2. CASE j = Len(s) + 1
    BY <1>1, <2>1, <2>2
  <2>3. CASE j # Len(s) + 1
    <3>1. j \in 1..Len(s) /\ u[j] = s[j]
      BY <1>1, <2>3
    <3>. QED
      BY <1>1, <1>2, <2>1, <3>1 DEF Ordered
  <2>. QED
    BY <2>2, <2>3
<1>3. Ordered(u)
  BY <1>1, <1>2 DEF Ordered
<1>. QED
  BY <1>3 DEF u

LEMMA OrderedTail ==
    ASSUME NEW s \in Seq(Tx), Ordered(s), s # <<>>
    PROVE  /\ Ordered(Tail(s))
           /\ \A b \in Range(Tail(s)) : Precedes(Head(s), b)
<1> DEFINE u == Tail(s)
<1>1. /\ Head(s) = s[1] /\ 1 \in DOMAIN s /\ u \in Seq(Tx)
      /\ \A i \in DOMAIN u : i + 1 \in DOMAIN s /\ u[i] = s[i + 1]
      /\ \A i \in DOMAIN u : i \in Nat /\ i >= 1
      /\ Range(u) \subseteq Range(s)
  BY TailElements
<1>. HIDE DEF u
<1>2. ASSUME NEW i \in DOMAIN u, NEW j \in DOMAIN u, i < j
      PROVE  Precedes(u[i], u[j])
  <2>1. i + 1 \in DOMAIN s /\ j + 1 \in DOMAIN s /\ i + 1 < j + 1
    BY <1>1, <1>2
  <2>2. Precedes(s[i + 1], s[j + 1])
    BY <2>1 DEF Ordered
  <2>. QED
    BY <1>1, <2>2
<1>3. ASSUME NEW b \in Range(u) PROVE Precedes(Head(s), b)
  <2>1. PICK i \in DOMAIN u : u[i] = b
    BY <1>1, <1>3, RangeElements
  <2>2. Precedes(s[1], s[i + 1])
    <3>1. i + 1 \in DOMAIN s /\ 1 < i + 1
      BY <1>1
    <3>. QED
      BY <1>1, <3>1 DEF Ordered
  <2>. QED
    BY <1>1, <2>1, <2>2
<1>. QED
  BY <1>1, <1>2, <1>3 DEF Ordered, u

-------------------------------------------------------------------------------
(* Steps: the order *)

\* The facts about types that the steps need.
LEMMA LogFacts ==
    ASSUME TypeOK
    PROVE  /\ sent \in Seq(Tx) /\ txq \in Seq(Tx) /\ old.txs \in Seq(Tx)
           /\ Range(sent) \subseteq Tx /\ Range(txq) \subseteq Tx /\ Range(old.txs) \subseteq Tx
           /\ bg \subseteq Tx /\ bg \subseteq AsyncTx
           /\ answer \in [Tx -> Answers]
<1>1. /\ sent \in Seq(Tx) /\ txq \in Seq(Tx) /\ bg \subseteq AsyncTx
      /\ answer \in [Tx -> Answers]
  BY DEF TypeOK, TypeClient, TypeProc
<1>2. old.txs \in Seq(Tx)
  BY Facts
<1>. QED
  BY <1>1, <1>2, RangeElements, TxAssumption

\* A step that leaves the sequences alone leaves their order alone.
LEMMA OrderFrame ==
    ASSUME AllOrdered, UNCHANGED <<sent, com, old, txq>>
    PROVE  AllOrdered'
  BY DEF AllOrdered, Ordered, Precedes

\* A request dispatched is the last one accepted.
LEMMA DispatchOrder ==
    ASSUME TypeOK, TypeOK', LInv, NEW t \in Tx, Dispatch(t), txOpen
    PROVE  SentOnce' /\ AllOrdered'
<1>1. /\ sent' = Append(sent, t) /\ txq' = Append(txq, t) /\ com' = com /\ old' = old
      /\ answer' = [answer EXCEPT ![t] = "waiting"] /\ answer[t] = "called"
  BY DEF Dispatch, Accepted, commitVars
<1>2. /\ DOMAIN sent' = 1..Len(sent) + 1 /\ DOMAIN sent = 1..Len(sent) /\ Len(sent) \in Nat
      /\ \A i \in 1..Len(sent) : sent'[i] = sent[i]
      /\ sent'[Len(sent) + 1] = t /\ Range(sent') = Range(sent) \cup {t}
  BY <1>1, LogFacts, AppendRange
<1>3. t \notin Range(sent)
  BY <1>1 DEF LInv, SentOnce
<1>4. SentOnce'
  <2>1. \A u \in Range(sent') : answer'[u] \notin {"none", "called"}
    BY <1>1, <1>2, LogFacts DEF LInv, SentOnce
  <2>2. \A i \in 1..Len(sent) : sent[i] # t
    BY <1>2, <1>3 DEF Range
  <2>3. ASSUME NEW i \in DOMAIN sent', NEW j \in DOMAIN sent', sent'[i] = sent'[j]
        PROVE  i = j
    <3>1. CASE i = Len(sent) + 1 \/ j = Len(sent) + 1
      BY <1>2, <2>2, <2>3, <3>1
    <3>2. CASE i # Len(sent) + 1 /\ j # Len(sent) + 1
      <4>1. i \in 1..Len(sent) /\ j \in 1..Len(sent)
        BY <1>2, <3>2
      <4>. QED
        BY <1>2, <2>3, <4>1 DEF LInv, SentOnce
    <3>. QED
      BY <3>1, <3>2
  <2>. QED
    BY <2>1, <2>3 DEF SentOnce
<1>5. ASSUME NEW a, NEW b, Precedes(a, b) PROVE Precedes(a, b)'
  BY <1>2, <1>5 DEF Precedes
<1>6. ASSUME NEW a \in Range(sent) PROVE Precedes(a, t)'
  <2>1. PICK i \in 1..Len(sent) : sent[i] = a
    BY <1>2 DEF Range
  <2>2. i \in DOMAIN sent' /\ Len(sent) + 1 \in DOMAIN sent' /\ i < Len(sent) + 1
    BY <1>2
  <2>. QED
    BY <1>2, <2>1, <2>2 DEF Precedes
<1>7. ASSUME NEW s, Ordered(s) PROVE Ordered(s)'
  BY <1>2, <1>5, <1>7 DEF Ordered
<1>8. Ordered(txq)'
  <2>1. Ordered(txq)
    BY DEF LInv, AllOrdered
  <2>2. /\ DOMAIN txq' = 1..Len(txq) + 1 /\ DOMAIN txq = 1..Len(txq) /\ Len(txq) \in Nat
        /\ \A i \in 1..Len(txq) : txq'[i] = txq[i]
        /\ txq'[Len(txq) + 1] = t /\ Range(txq') = Range(txq) \cup {t}
    BY <1>1, LogFacts, AppendRange
  <2>3. ASSUME NEW i \in DOMAIN txq', NEW j \in DOMAIN txq', i < j,
               NEW a, a = txq'[i], NEW b, b = txq'[j]
        PROVE  Precedes(a, b)'
    <3>1. i \in 1..Len(txq) /\ a = txq[i] /\ a \in Range(sent)
      BY <2>1, <2>2, <2>3 DEF Ordered, Range
    <3>2. CASE j = Len(txq) + 1
      BY <1>6, <2>2, <2>3, <3>1, <3>2
    <3>3. CASE j # Len(txq) + 1
      <4>1. j \in 1..Len(txq) /\ b = txq[j]
        BY <2>2, <2>3, <3>3
      <4>2. Precedes(a, b)
        BY <2>1, <2>2, <2>3, <3>1, <4>1 DEF Ordered
      <4>. QED
        BY <1>5, <4>2
    <3>. QED
      BY <3>2, <3>3
  <2>4. Range(txq') \subseteq Range(sent')
    BY <1>2, <2>1, <2>2 DEF Ordered
  <2>. QED
    BY <2>3, <2>4 DEF Ordered, Precedes
<1>9. \A a \in Range(old.txs), b \in Range(txq') : Precedes(a, b)'
  <2>1. Range(txq') = Range(txq) \cup {t}
    BY <1>1, LogFacts, AppendRange
  <2>2. Range(old.txs) \subseteq Range(sent)
    BY DEF LInv, AllOrdered, Ordered
  <2>. QED
    BY <1>5, <1>6, <2>1, <2>2 DEF LInv, AllOrdered
<1>. QED
  BY <1>1, <1>4, <1>7, <1>8, <1>9 DEF LInv, AllOrdered

\* The next of the queue joins the value in memory, ...
LEMMA TransactOkOrder ==
    ASSUME TypeOK, LInv, TransactOk
    PROVE  AllOrdered'
<1> DEFINE t == Head(txq)
<1>1. /\ UNCHANGED <<sent, com>> /\ txq # <<>> /\ txq' = Tail(txq)
      /\ old'.txs = Append(old.txs, t)
  BY DEF TransactOk, Processing, Base, clientVars, commitVars, TypeOK, TypeProc, Db
<1>2. t \in Tx /\ t \in Range(txq) /\ Range(Tail(txq)) \subseteq Range(txq)
  BY <1>1, LogFacts, TailElements
<1>3. Ordered(txq) /\ Ordered(old.txs) /\ \A a \in Range(old.txs) : Precedes(a, t)
  BY <1>2 DEF LInv, AllOrdered
<1>4. t \in Range(sent)
  BY <1>2, <1>3 DEF Ordered
<1>5. Ordered(Append(old.txs, t)) /\ Range(Append(old.txs, t)) = Range(old.txs) \cup {t}
  BY <1>2, <1>3, <1>4, LogFacts, OrderedAppend, AppendRange
<1>6. Ordered(Tail(txq)) /\ \A b \in Range(Tail(txq)) : Precedes(t, b)
  BY <1>1, <1>3, LogFacts, OrderedTail
<1>7. \A a \in Range(old'.txs), b \in Range(txq') : Precedes(a, b)
  BY <1>1, <1>2, <1>5, <1>6 DEF LInv, AllOrdered
<1>. HIDE DEF t
<1>8. \A a, b : Precedes(a, b)' <=> Precedes(a, b)
  BY <1>1 DEF Precedes
<1>9. \A s : Ordered(s)' <=> Ordered(s)
  BY <1>1, <1>8 DEF Ordered
<1>10. Ordered(old.txs)' /\ Ordered(txq)'
  BY <1>1, <1>5, <1>6, <1>8 DEF Ordered
<1>. QED
  BY <1>1, <1>7, <1>8, <1>9, <1>10 DEF LInv, AllOrdered

\* ... or leaves without it.
LEMMA DropOrder ==
    ASSUME TypeOK, LInv, UNCHANGED <<sent, com, old>>, txq # <<>>, txq' = Tail(txq)
    PROVE  AllOrdered'
<1>1. Range(Tail(txq)) \subseteq Range(txq)
  BY LogFacts, TailElements
<1>2. Ordered(Tail(txq))
  BY LogFacts, OrderedTail DEF LInv, AllOrdered
<1>3. Ordered(txq)'
  BY <1>2 DEF Ordered, Precedes
<1>. QED
  BY <1>1, <1>3 DEF LInv, AllOrdered, Ordered, Precedes

\* A commit is made of a result, which is a part of the value in memory.
LEMMA FlushOrder ==
    ASSUME IInv, LInv, Flush
    PROVE  AllOrdered'
<1> DEFINE db == ToCommit(batch)
<1>1. /\ UNCHANGED <<sent, old, txq>> /\ cpc = "flush"
      /\ com' = Append(com, [txs |-> db.txs, maxTx |-> db.maxTx, parent |-> head])
  BY DEF Flush, clientVars, procVars
<1>2. /\ com \in Seq(Commit) /\ batch \in Seq(Db) /\ batch # <<>>
      /\ db = batch[Len(batch)] /\ Len(batch) \in DOMAIN batch
  BY <1>1 DEF IInv, TypeOK, TypeCommit, ToCommit, Last
<1>3. db.txs \in Seq(Tx) /\ old.txs \in Seq(Tx) /\ Below(db, old)
  BY <1>1, <1>2, Facts DEF IInv, PipelineOrdered, BatchOrdered
<1>4. Ordered(db.txs)
  BY <1>3, OrderedPrefix DEF LInv, AllOrdered, Below
<1>. HIDE DEF db
<1>5. \A n \in 1..Len(com') : com'[n].txs = db.txs \/ (n \in 1..Len(com) /\ com'[n] = com[n])
  BY <1>1, <1>2
<1>6. \A n \in 1..Len(com') : Ordered(com'[n].txs)
  BY <1>4, <1>5 DEF LInv, AllOrdered
<1>. QED
  BY <1>1, <1>6 DEF LInv, AllOrdered, Ordered, Precedes

\* The process dies: nothing is queued.
LEMMA CrashOrder ==
    ASSUME LInv, Crash
    PROVE  AllOrdered' /\ DownIdle'
<1>1. /\ UNCHANGED <<sent, com>> /\ old'.txs = <<>> /\ txq' = <<>> /\ txOpen' = FALSE /\ bg' = {}
  BY DEF Crash, EmptyDb
<1>2. Range(<<>>) = {} /\ DOMAIN <<>> = {}
  BY DEF Range
<1>. QED
  BY <1>1, <1>2 DEF LInv, AllOrdered, Ordered, Precedes, DownIdle

\* A new one starts from the durable value.
LEMMA ConnectOrder ==
    ASSUME TypeOK, LInv, Connect
    PROVE  AllOrdered' /\ DownIdle'
<1>1. /\ UNCHANGED <<sent, com>> /\ txq' = <<>> /\ txq = <<>>
      /\ old'.txs = com[head].txs /\ status' = "open"
  BY DEF Connect, Loaded, clientVars, LInv, DownIdle
<1>2. Range(<<>>) = {} /\ head \in 1..Len(com)
  BY DEF Range, TypeOK, TypeStore
<1>3. Ordered(com[head].txs)
  BY <1>2 DEF LInv, AllOrdered
<1>4. Ordered(old.txs)'
  BY <1>1, <1>3 DEF Ordered, Precedes
<1>. QED
  BY <1>1, <1>2, <1>4 DEF LInv, AllOrdered, Ordered, Precedes, DownIdle

LEMMA OrderStep ==
    ASSUME IInv, LInv, TypeOK', [Next]_vars
    PROVE  SentOnce' /\ AllOrdered' /\ DownIdle'
<1>. USE DEF clientVars, procVars, commitVars, storeVars, connVars, boundVars
<1>1. /\ TypeOK /\ SentOnce /\ DownIdle /\ answer \in [Tx -> Answers]
      /\ \A t \in Tx : answer'[t] \in {"none", "called"} => answer[t] \in {"none", "called"}
      /\ \A a \in Range(sent) : a \in Tx
  <2>1. TypeOK /\ answer \in [Tx -> Answers] /\ Range(sent) \subseteq Tx
    BY LogFacts DEF IInv
  <2>2. \A t \in Tx : answer'[t] \in {"none", "called"} => answer[t] \in {"none", "called"}
    BY <2>1 DEF Next, vars, ProcessingLoop, CommitLoop, Call, Dispatch, FinishBackground,
                TransactOk, TransactError, StartBackground, Enqueue, StopProcessing,
                Take, StopCommitting, Flush, SchemaWritten, NodesWritten, Publish, Confirm,
                CommitError, ReportError, AnswerNext, CloseQueues, Land, Refuse, Release,
                Crash, Connect
  <2>. QED
    BY <2>1, <2>2 DEF LInv
<1>2. ASSUME sent' = sent PROVE SentOnce'
  BY <1>1, <1>2 DEF SentOnce
<1>3. status = "down" => proc = "stopped" /\ cpc = "stopped" /\ batch = <<>> /\ inflight = {}
  BY DEF IInv, DownEmpty
<1>4. ASSUME NEW t \in Tx, Dispatch(t) PROVE SentOnce' /\ AllOrdered' /\ DownIdle'
  <2>1. CASE txOpen
    <3>1. SentOnce' /\ AllOrdered'
      BY <1>1, <1>4, <2>1, DispatchOrder
    <3>. QED
      BY <1>1, <1>4, <2>1, <3>1 DEF Dispatch, DownIdle
  <2>2. CASE ~txOpen
    BY <1>1, <1>2, <1>4, <2>2, OrderFrame DEF LInv, Dispatch, DownIdle
  <2>. QED
    BY <2>1, <2>2
<1>5. CASE TransactOk
  <2>1. AllOrdered'
    BY <1>1, <1>5, TransactOkOrder
  <2>. QED
    BY <1>1, <1>2, <1>3, <1>5, <2>1 DEF TransactOk, DownIdle
<1>6. ASSUME TransactError \/ StartBackground PROVE SentOnce' /\ AllOrdered' /\ DownIdle'
  <2>1. AllOrdered'
    BY <1>1, <1>6, DropOrder DEF TransactError, StartBackground, Processing, AfterError
  <2>. QED
    BY <1>1, <1>2, <1>3, <1>6, <2>1 DEF TransactError, StartBackground, Processing, DownIdle
<1>7. CASE Flush
  <2>1. AllOrdered'
    BY <1>7, FlushOrder
  <2>. QED
    BY <1>1, <1>2, <1>7, <2>1 DEF Flush, DownIdle
<1>8. CASE Crash
  BY <1>2, <1>8, CrashOrder DEF Crash
<1>9. CASE Connect
  BY <1>1, <1>2, <1>9, ConnectOrder DEF Connect
<1>10. ASSUME UNCHANGED <<sent, com, old, txq>>, DownIdle'
       PROVE  SentOnce' /\ AllOrdered' /\ DownIdle'
  BY <1>2, <1>10, OrderFrame DEF LInv
<1>11. ASSUME \/ \E t \in Tx : Call(t) \/ FinishBackground(t)
              \/ Enqueue \/ StopProcessing
              \/ Take \/ StopCommitting \/ SchemaWritten \/ NodesWritten
       PROVE  UNCHANGED <<sent, com, old, txq>> /\ DownIdle'
  BY <1>1, <1>11 DEF Call, FinishBackground, Enqueue, StopProcessing, Take, StopCommitting,
                     SchemaWritten, NodesWritten, DownIdle
<1>12. ASSUME Publish \/ Confirm \/ CommitError \/ ReportError \/ CloseQueues
       PROVE  UNCHANGED <<sent, com, old, txq>> /\ DownIdle'
  <2>1. UNCHANGED <<sent, com, old, txq>>
    BY <1>12 DEF Publish, Confirm, CommitError, ReportError, AnswerNext, CloseQueues
  <2>2. CASE Publish
    BY <1>1, <2>2 DEF Publish, DownIdle
  <2>3. CASE Confirm \/ CommitError \/ ReportError
    BY <1>1, <2>3 DEF Confirm, CommitError, ReportError, AnswerNext, DownIdle
  <2>4. CASE CloseQueues
    BY <1>1, <1>3, <2>4 DEF CloseQueues, DownIdle
  <2>. QED
    BY <1>12, <2>1, <2>2, <2>3, <2>4
<1>13. ASSUME (\E w \in inflight : Land(w) \/ Refuse(w)) \/ Release \/ UNCHANGED vars
       PROVE  UNCHANGED <<sent, com, old, txq>> /\ DownIdle'
  <2>1. ASSUME NEW w \in inflight, Land(w) \/ Refuse(w)
        PROVE  UNCHANGED <<sent, com, old, txq, status, txOpen, bg>>
    BY <2>1 DEF Land, Refuse
  <2>2. CASE \E w \in inflight : Land(w) \/ Refuse(w)
    BY <1>1, <2>1, <2>2 DEF DownIdle
  <2>3. CASE Release
    BY <1>1, <2>3 DEF Release, DownIdle
  <2>4. CASE UNCHANGED vars
    BY <1>1, <2>4 DEF vars, DownIdle
  <2>. QED
    BY <1>13, <2>2, <2>3, <2>4
<1>. QED
  BY <1>4, <1>5, <1>6, <1>7, <1>8, <1>9, <1>10, <1>11, <1>12, <1>13
     DEF Next, ProcessingLoop, CommitLoop

\* Only a commit that starts adds to the commits, and only a write that lands
\* moves the branch.
LEMMA ComUnchanged ==
    ASSUME [Next]_vars
    PROVE  /\ Flush \/ com' = com
           /\ (\E w \in inflight : Land(w)) \/ head' = head
<1>. USE DEF clientVars, procVars, commitVars, storeVars, connVars, boundVars
<1>1. ASSUME \/ \E t \in Tx : Call(t) \/ Dispatch(t) \/ FinishBackground(t)
             \/ ProcessingLoop \/ Take \/ StopCommitting \/ SchemaWritten \/ NodesWritten
      PROVE  head' = head /\ com' = com
  BY <1>1 DEF ProcessingLoop, Call, Dispatch, FinishBackground, TransactOk, TransactError,
              StartBackground, Enqueue, StopProcessing, Take, StopCommitting,
              SchemaWritten, NodesWritten
<1>2. ASSUME \/ Publish \/ Confirm \/ CommitError \/ ReportError \/ CloseQueues
             \/ \E w \in inflight : Refuse(w)
             \/ Release \/ Crash \/ Connect \/ UNCHANGED vars
      PROVE  head' = head /\ com' = com
  BY <1>2 DEF Publish, Confirm, CommitError, ReportError, AnswerNext, CloseQueues,
              Refuse, Release, Crash, Connect, vars
<1>3. ASSUME NEW w \in inflight, Land(w) PROVE com' = com
  BY <1>3 DEF Land
<1>4. Flush => head' = head
  BY DEF Flush
<1>. QED
  BY <1>1, <1>2, <1>3, <1>4 DEF Next, CommitLoop

\* The log is only added to.
LEMMA LogGrows ==
    ASSUME IInv, TypeOK', [Next]_vars
    PROVE  /\ IsPrefix(Log, Log')
           /\ Log \in Seq(Tx) /\ Log' \in Seq(Tx)
           /\ (\A w \in inflight : ~Land(w)) => Log' = Log
<1>. USE DEF clientVars, procVars, commitVars, storeVars, connVars, boundVars
<1>1. /\ head \in 1..This /\ com \in Seq(Commit) /\ This = Len(com)
      /\ Log \in Seq(Tx) /\ Log' \in Seq(Tx)
  <2>1. TypeOK
    BY DEF IInv
  <2>2. head \in 1..This /\ Log \in Seq(Tx)
    BY <2>1, Facts DEF Log
  <2>3. Log' \in Seq(Tx)
    <3>1. com' \in Seq(Commit) /\ head' \in 1..Len(com')
      BY DEF TypeOK, TypeCommit, TypeStore
    <3>2. com'[head'] \in Commit
      BY <3>1
    <3>. QED
      BY <3>2 DEF Log, Commit
  <2>. QED
    BY <2>1, <2>2, <2>3 DEF TypeOK, TypeCommit, This
<1>2. ASSUME head' = head, com'[head] = com[head] PROVE Log' = Log
  BY <1>2 DEF Log
<1>3. CASE Flush
  <2>1. head' = head /\ com'[head] = com[head]
    BY <1>1, <1>3 DEF Flush
  <2>. QED
    BY <1>1, <1>2, <2>1, PrefixReflexive
<1>4. ASSUME NEW w \in inflight, Land(w) PROVE IsPrefix(Log, Log')
  <2>1. com' = com /\ head' \in Roots
    BY <1>4 DEF Land, Roots
  <2>2. Below(com[head], com[head'])
    BY <2>1, Facts DEF IInv, PipelineOrdered, RootsOrdered
  <2>. QED
    BY <2>1, <2>2 DEF Below, Log
<1>5. ASSUME head' = head, com' = com PROVE Log' = Log /\ IsPrefix(Log, Log')
  BY <1>1, <1>2, <1>5, PrefixReflexive
<1>. QED
  BY <1>1, <1>2, <1>3, <1>4, <1>5, ComUnchanged

\* A caller is only answered "ok" when its transaction is durable.
LEMMA ConfirmInLog ==
    ASSUME IInv, Confirm
    PROVE  Owner(Head(batch)) \in Range(Log)
<1> DEFINE b == Head(batch)
<1>1. cpc = "answer" /\ batch # <<>>
  BY DEF Confirm, AnswerNext
<1>2. b = batch[1] /\ 1 \in DOMAIN batch /\ b.txs \in Seq(Tx) /\ b.txs # <<>>
  <2>1. batch \in Seq(Db) /\ \A i \in DOMAIN batch : batch[i].txs # <<>>
    BY DEF IInv, TypeOK, TypeCommit
  <2>2. b = batch[1] /\ 1 \in DOMAIN batch
    BY <1>1, <2>1
  <2>. QED
    BY <2>1, <2>2, Facts DEF IInv
<1>3. head = This /\ Below(b, com[This]) /\ com[This].txs \in Seq(Tx)
  BY <1>1, <1>2, Facts DEF IInv, AnswersCommitted, PipelineOrdered, BatchCommitted
<1>4. Owner(b) \in Range(b.txs)
  <2> DEFINE s == b.txs
  <2>1. s \in Seq(Tx) /\ s # <<>>
    BY <1>2
  <2>. HIDE DEF s
  <2>2. Len(s) \in DOMAIN s
    BY <2>1
  <2>. QED
    BY <2>2 DEF Owner, Last, Range, s
<1>. QED
  BY <1>2, <1>3, <1>4, BelowRange DEF Log

-------------------------------------------------------------------------------
(* Steps: the answers *)

\* What the steps preserve of the answers.
OpenInv == MemoryOpen /\ QueueOpen /\ ResultsOpen

\* The processing loop does not know the durable transactions, or their owners,
\* among the requests it has not processed.
LEMMA QueueApart ==
    ASSUME TypeOK, LInv
    PROVE  /\ \A a \in Range(old.txs), b \in Range(txq) : a # b
           /\ \A a \in Range(old.txs), b \in bg : a # b
           /\ \A i, j \in DOMAIN txq : txq[i] = txq[j] => i = j
<1>1. \A a \in Range(old.txs), b \in Range(txq) : a # b
  BY LogFacts, PrecedesStrict DEF LInv, AllOrdered
<1>2. \A a \in Range(old.txs), b \in bg : a # b
  BY LogFacts DEF LInv, MemoryOpen
<1>3. \A i, j \in DOMAIN txq : txq[i] = txq[j] => i = j
  BY LogFacts, OrderedInjective DEF LInv, AllOrdered
<1>. QED
  BY <1>1, <1>2, <1>3

\* Nobody is answered, and nothing moves.
LEMMA QuietOpen ==
    ASSUME LInv, UNCHANGED <<answer, old, txq, bg, batch, cmq>>,
           proc' = "put" => proc = "put", Range(Log) \subseteq Range(Log')
    PROVE  OpenInv'
<1>1. MemoryOpen'
  BY DEF LInv, MemoryOpen
<1>2. QueueOpen' /\ ResultsOpen'
  BY DEF LInv, QueueOpen, ResultsOpen, Results, Owner, Last
<1>. QED
  BY <1>1, <1>2 DEF OpenInv

\* A call goes its way to the queue.
LEMMA CallOpen ==
    ASSUME TypeOK, LInv, NEW t \in Tx, answer[t] \in {"none", "called"},
           NEW said, answer' = [answer EXCEPT ![t] = said],
           UNCHANGED <<old, bg, batch, cmq, proc, head, com>>,
           \/ txq' = txq
           \/ txq' = Append(txq, t) /\ said = "waiting"
    PROVE  OpenInv'
<1>1. answer \in [Tx -> Answers]
  BY LogFacts
<1>2. \A a \in Tx : a # t => answer'[a] = answer[a]
  BY <1>1
<1>3. \A a : answer[a] \in {"waiting", "failed"} => a # t
  OBVIOUS
<1>4. MemoryOpen'
  <2>1. Log' = Log /\ Range(old.txs) \subseteq Tx
    BY LogFacts DEF Log
  <2>. QED
    BY <1>2, <1>3, <2>1 DEF LInv, MemoryOpen
<1>5. QueueOpen'
  <2>1. Range(txq) \cup bg \subseteq Tx
    BY LogFacts
  <2>2. CASE txq' = txq
    BY <1>2, <1>3, <2>1, <2>2 DEF LInv, QueueOpen
  <2>3. CASE txq' = Append(txq, t) /\ said = "waiting"
    <3>1. Range(txq') = Range(txq) \cup {t} /\ answer'[t] = "waiting"
      BY <1>1, <2>3, LogFacts, AppendRange
    <3>. QED
      BY <1>2, <1>3, <2>1, <3>1 DEF LInv, QueueOpen
  <2>. QED
    BY <2>2, <2>3
<1>6. ResultsOpen'
  <2>1. Range(old.txs) \subseteq Tx
    BY LogFacts
  <2>2. ASSUME NEW a, answer[a] = "waiting", a \in Tx PROVE answer'[a] = "waiting"
    BY <1>2, <1>3, <2>2
  <2>3. proc = "put" => Owner(old) \in Tx
    <3>1. proc = "put" => old.txs \in Seq(Tx) /\ old.txs # <<>>
      BY LogFacts DEF TypeOK, TypeProc
    <3>. QED
      BY <3>1 DEF Owner, Last
  <2>4. UNCHANGED <<old, batch, cmq, proc>>
    OBVIOUS
  <2>. QED
    BY <2>1, <2>2, <2>3, <2>4 DEF LInv, ResultsOpen, Results, Owner, Last
<1>. QED
  BY <1>4, <1>5, <1>6 DEF OpenInv

\* Its owner is in the value in memory, until that is on the commit queue.
LEMMA OwnerInMemory ==
    ASSUME TypeOK
    PROVE  proc = "put" => Owner(old) \in Range(old.txs)
<1>1. proc = "put" => old.txs \in Seq(Tx) /\ old.txs # <<>>
  BY LogFacts DEF TypeOK, TypeProc
<1>2. old.txs \in Seq(Tx) /\ old.txs # <<>> => Len(old.txs) \in DOMAIN old.txs
  OBVIOUS
<1>. QED
  BY <1>1, <1>2 DEF Owner, Last, Range

\* A request is answered that has not passed the processing loop.
LEMMA UnprocessedOpen ==
    ASSUME TypeOK, LInv, NEW t \in Tx, t \notin Range(old.txs),
           NEW said, answer' = [answer EXCEPT ![t] = said],
           UNCHANGED <<old, batch, cmq, proc, head, com>>, proc = "put" => Owner(old) # t,
           Range(txq') \cup bg' \subseteq (Range(txq) \cup bg) \ {t},
           bg' \cap Range(txq') = {}
    PROVE  OpenInv'
<1>1. answer \in [Tx -> Answers]
  BY LogFacts
<1>2. \A a \in Tx : a # t => answer'[a] = answer[a]
  BY <1>1
<1>3. Range(old.txs) \subseteq Tx /\ Range(txq) \cup bg \subseteq Tx /\ Log' = Log
  BY LogFacts DEF Log
<1>4. MemoryOpen'
  BY <1>2, <1>3 DEF LInv, MemoryOpen
<1>5. QueueOpen'
  BY <1>2, <1>3 DEF LInv, QueueOpen
<1>6. ResultsOpen'
  <2>1. ASSUME NEW a \in Range(old.txs), answer[a] = "waiting" PROVE answer'[a] = "waiting"
    BY <1>2, <1>3, <2>1
  <2>2. proc = "put" => Owner(old) \in Range(old.txs)
    BY OwnerInMemory
  <2>3. UNCHANGED <<old, batch, cmq, proc>>
    OBVIOUS
  <2>. QED
    BY <2>1, <2>2, <2>3 DEF LInv, ResultsOpen, Results, Owner, Last
<1>. QED
  BY <1>4, <1>5, <1>6 DEF OpenInv

\* What leaves the queue is not in it any more.
LEMMA HeadGone ==
    ASSUME TypeOK, LInv, txq # <<>>
    PROVE  /\ Head(txq) \in Range(txq) /\ Head(txq) \in Tx /\ Head(txq) \notin Range(Tail(txq))
           /\ Range(Tail(txq)) \subseteq Range(txq) \ {Head(txq)}
           /\ Head(txq) \notin Range(old.txs) /\ Head(txq) \notin bg
<1>1. /\ Head(txq) = txq[1] /\ 1 \in DOMAIN txq /\ Head(txq) \in Tx /\ Tail(txq) \in Seq(Tx)
      /\ \A i \in DOMAIN Tail(txq) : i + 1 \in DOMAIN txq /\ Tail(txq)[i] = txq[i + 1]
      /\ \A i \in DOMAIN Tail(txq) : i \in Nat /\ i >= 1
      /\ Range(Tail(txq)) \subseteq Range(txq) /\ Head(txq) \in Range(txq)
  BY LogFacts, TailElements
<1>2. \A i \in DOMAIN Tail(txq) : Tail(txq)[i] # Head(txq)
  BY <1>1, QueueApart
<1>3. Head(txq) \notin Range(Tail(txq))
  BY <1>2 DEF Range
<1>. QED
  BY <1>1, <1>3, QueueApart DEF LInv, QueueOpen

\* The next request becomes the owner of the value in memory.
LEMMA TransactOkOpen ==
    ASSUME TypeOK, LInv, TransactOk
    PROVE  OpenInv'
<1> DEFINE t == Head(txq)
<1>1. /\ UNCHANGED <<answer, batch, cmq, bg, head, com>> /\ txq # <<>> /\ txq' = Tail(txq)
      /\ old'.txs = Append(old.txs, t) /\ proc = "run" /\ proc' = "put" /\ t \notin AsyncTx
  BY DEF TransactOk, Processing, Base, clientVars, commitVars, storeVars, TypeOK, TypeProc, Db
<1>2. /\ t \in Range(txq) /\ t \in Tx
      /\ Range(Tail(txq)) \subseteq Range(txq)
      /\ t \notin Range(old.txs)
  BY <1>1, HeadGone
<1>3. /\ Range(old'.txs) = Range(old.txs) \cup {t}
      /\ old'.txs[Len(old'.txs)] = t
  BY <1>1, <1>2, LogFacts, AppendRange
<1>4. answer[t] = "waiting" /\ Owner(old') = t /\ Log' = Log
  BY <1>1, <1>2, <1>3 DEF LInv, QueueOpen, Owner, Last, Log
<1>. HIDE DEF t
<1>5. MemoryOpen'
  BY <1>1, <1>3, <1>4 DEF LInv, MemoryOpen
<1>6. QueueOpen'
  BY <1>1, <1>2 DEF LInv, QueueOpen
<1>7. ResultsOpen'
  <2>1. /\ \A i \in DOMAIN batch : Owner(batch[i]) \in Range(old.txs)
        /\ \A i \in DOMAIN cmq : Owner(cmq[i]) \in Range(old.txs)
    BY DEF LInv, ResultsOpen, Results
  <2>2. Results(batch)' /\ Results(cmq)'
    BY <1>1, <1>3 DEF LInv, ResultsOpen, Results, Owner, Last
  <2>3. /\ answer'[Owner(old')] = "waiting"
        /\ \A i \in DOMAIN batch' : Owner(batch'[i]) # Owner(old')
        /\ \A i \in DOMAIN cmq' : Owner(cmq'[i]) # Owner(old')
    BY <1>1, <1>2, <1>4, <2>1
  <2>4. \A i \in DOMAIN batch', j \in DOMAIN cmq' : Owner(batch'[i]) # Owner(cmq'[j])
    BY <1>1 DEF LInv, ResultsOpen
  <2>. QED
    BY <2>2, <2>3, <2>4 DEF ResultsOpen, Owner
<1>. QED
  BY <1>5, <1>6, <1>7 DEF OpenInv

\* The value in memory waits for its commit.
LEMMA EnqueueOpen ==
    ASSUME TypeOK, LInv, Enqueue
    PROVE  OpenInv'
<1>1. /\ UNCHANGED <<answer, old, txq, bg, batch, head, com>>
      /\ proc = "put" /\ proc' = "run"
      /\ cmq' = cmq \/ cmq' = Append(cmq, old)
  BY DEF Enqueue, clientVars, storeVars
<1>2. MemoryOpen' /\ QueueOpen'
  BY <1>1 DEF LInv, MemoryOpen, QueueOpen, Log
<1>3. CASE cmq' = cmq
  <2>1. ResultsOpen'
    BY <1>1, <1>3 DEF LInv, ResultsOpen, Results, Owner, Last
  <2>. QED
    BY <1>2, <2>1 DEF OpenInv
<1>4. CASE cmq' = Append(cmq, old)
  <2>1. cmq \in Seq(Db) /\ old \in Db /\ old.txs \in Seq(Tx) /\ old.txs # <<>>
    BY <1>1, LogFacts DEF TypeOK, TypeProc, TypeCommit
  <2>2. /\ DOMAIN cmq' = 1..Len(cmq) + 1 /\ DOMAIN cmq = 1..Len(cmq) /\ Len(cmq) \in Nat
        /\ \A i \in 1..Len(cmq) : cmq'[i] = cmq[i]
        /\ cmq'[Len(cmq) + 1] = old
    BY <1>4, <2>1, AppendRange
  <2>3. Owner(old) \in Range(old.txs)
    <3>1. Len(old.txs) \in DOMAIN old.txs
      BY <2>1
    <3>. QED
      BY <3>1 DEF Owner, Last, Range
  <2>4. /\ answer[Owner(old)] = "waiting"
        /\ \A i \in DOMAIN batch : Owner(batch[i]) # Owner(old)
        /\ \A i \in DOMAIN cmq : Owner(cmq[i]) # Owner(old)
    BY <1>1 DEF LInv, ResultsOpen
  <2>5. \A i \in DOMAIN cmq' : cmq'[i] = old \/ (i \in DOMAIN cmq /\ cmq'[i] = cmq[i])
    BY <2>2
  <2>6. \A i \in DOMAIN cmq' : Owner(cmq'[i]) \in Range(old.txs) /\ answer[Owner(cmq'[i])] = "waiting"
    BY <2>3, <2>4, <2>5 DEF LInv, ResultsOpen, Results
  <2>7. ASSUME NEW i \in DOMAIN cmq', NEW j \in DOMAIN cmq', Owner(cmq'[i]) = Owner(cmq'[j])
        PROVE  i = j
    <3>1. CASE i \in DOMAIN cmq /\ j \in DOMAIN cmq
      BY <2>2, <2>7, <3>1 DEF LInv, ResultsOpen, Results
    <3>2. CASE i \notin DOMAIN cmq /\ j \notin DOMAIN cmq
      BY <2>2, <3>2
    <3>3. CASE (i \in DOMAIN cmq) # (j \in DOMAIN cmq)
      <4>1. \/ i \in DOMAIN cmq /\ cmq'[i] = cmq[i] /\ cmq'[j] = old
            \/ j \in DOMAIN cmq /\ cmq'[j] = cmq[j] /\ cmq'[i] = old
        BY <2>2, <2>5, <3>3
      <4>. QED
        BY <2>4, <2>7, <4>1
    <3>. QED
      BY <3>1, <3>2, <3>3
  <2>8. \A i \in DOMAIN batch, j \in DOMAIN cmq' : Owner(batch[i]) # Owner(cmq'[j])
    BY <2>4, <2>5 DEF LInv, ResultsOpen
  <2>9. Results(batch)'
    BY <1>1 DEF LInv, ResultsOpen, Results, Owner
  <2>10. Results(cmq)'
    BY <1>1, <2>6, <2>7 DEF Results, Owner
  <2>11. ResultsOpen'
    BY <1>1, <2>8, <2>9, <2>10 DEF ResultsOpen, Owner
  <2>. QED
    BY <1>2, <2>11 DEF OpenInv
<1>. QED
  BY <1>1, <1>3, <1>4

\* The results that wait become the batch.
LEMMA TakeOpen ==
    ASSUME LInv, Take
    PROVE  OpenInv'
<1>1. /\ UNCHANGED <<answer, old, txq, bg, proc, head, com>> /\ batch' = cmq /\ cmq' = <<>>
  BY DEF Take, clientVars, procVars, storeVars
<1>2. MemoryOpen' /\ QueueOpen'
  BY <1>1 DEF LInv, MemoryOpen, QueueOpen, Log
<1>3. ResultsOpen'
  <2>1. DOMAIN <<>> = {}
    OBVIOUS
  <2>2. Results(batch)' /\ Results(cmq)'
    BY <1>1, <2>1 DEF LInv, ResultsOpen, Results, Owner
  <2>. QED
    BY <1>1, <2>1, <2>2 DEF LInv, ResultsOpen, Owner
<1>. QED
  BY <1>2, <1>3 DEF OpenInv

\* The owner of the next result of the batch is answered.
LEMMA AnswerOpen ==
    ASSUME TypeOK, LInv, NEW said, AnswerNext(said),
           said = "failed" \/ Owner(Head(batch)) \in Range(Log)
    PROVE  OpenInv'
<1> DEFINE t == Owner(Head(batch))
<1>1. /\ UNCHANGED <<old, txq, bg, proc, head, com, cmq>>
      /\ answer' = [answer EXCEPT ![t] = said]
      /\ batch # <<>> /\ batch' = Tail(batch) /\ batch \in Seq(Db)
  BY DEF AnswerNext, procVars, storeVars, TypeOK, TypeCommit
<1>2. /\ Head(batch) = batch[1] /\ 1 \in DOMAIN batch
      /\ \A i \in DOMAIN batch' : i + 1 \in DOMAIN batch /\ batch'[i] = batch[i + 1]
      /\ \A i \in DOMAIN batch' : i \in Nat /\ i >= 1
  BY <1>1, TailElements
<1>3. t = Owner(batch[1])
  BY <1>2
<1>. HIDE DEF t
<1>4. answer[t] = "waiting" /\ t \in Range(old.txs) /\ Results(batch) /\ Results(cmq)
  BY <1>2, <1>3 DEF LInv, ResultsOpen, Results
<1>5. /\ Range(old.txs) \subseteq Tx /\ Range(txq) \cup bg \subseteq Tx
      /\ answer \in [Tx -> Answers] /\ Log' = Log
  BY <1>1, LogFacts DEF Log
<1>6. (\A a \in Tx : a # t => answer'[a] = answer[a]) /\ answer'[t] = said
  BY <1>1, <1>4, <1>5
<1>7. MemoryOpen'
  BY <1>1, <1>4, <1>5, <1>6 DEF LInv, MemoryOpen, t
<1>8. QueueOpen'
  <2>1. \A a \in Range(txq) \cup bg : a # t
    BY <1>4, QueueApart
  <2>. QED
    BY <1>1, <1>5, <1>6, <2>1 DEF LInv, QueueOpen
<1>9. \A i \in DOMAIN batch' : Owner(batch'[i]) # t
  BY <1>2, <1>3, <1>4 DEF Results
<1>10. \A i \in DOMAIN cmq : Owner(cmq[i]) # t
  BY <1>2, <1>3 DEF LInv, ResultsOpen
<1>11. proc = "put" => Owner(old) # t /\ Owner(old) \in Range(old.txs)
  BY <1>2, <1>3, OwnerInMemory DEF LInv, ResultsOpen
<1>12. ResultsOpen'
  <2>1. Results(batch)'
    <3>1. \A i \in DOMAIN batch' : /\ Owner(batch'[i]) \in Range(old.txs)
                                   /\ answer'[Owner(batch'[i])] = "waiting"
      BY <1>2, <1>4, <1>5, <1>6, <1>9 DEF Results
    <3>2. ASSUME NEW i \in DOMAIN batch', NEW j \in DOMAIN batch',
                 Owner(batch'[i]) = Owner(batch'[j])
          PROVE  i = j
      <4>1. i + 1 = j + 1
        BY <1>2, <1>4, <3>2 DEF Results
      <4>. QED
        BY <1>2, <4>1
    <3>. QED
      BY <1>1, <3>1, <3>2 DEF Results, Owner
  <2>2. Results(cmq)'
    BY <1>1, <1>4, <1>5, <1>6, <1>10 DEF Results, Owner
  <2>3. \A i \in DOMAIN batch', j \in DOMAIN cmq : Owner(batch'[i]) # Owner(cmq[j])
    BY <1>2 DEF LInv, ResultsOpen
  <2>4. proc = "put" => /\ answer'[Owner(old)] = "waiting"
                        /\ \A i \in DOMAIN batch' : Owner(batch'[i]) # Owner(old)
                        /\ \A i \in DOMAIN cmq : Owner(cmq[i]) # Owner(old)
    BY <1>2, <1>5, <1>6, <1>11 DEF LInv, ResultsOpen
  <2>. QED
    BY <1>1, <2>1, <2>2, <2>3, <2>4 DEF ResultsOpen, Owner
<1>. QED
  BY <1>7, <1>8, <1>12 DEF OpenInv

\* The owner of the next result waits, and runs in the foreground.
LEMMA HeadOwner ==
    ASSUME TypeOK, LInv, NEW said, AnswerNext(said)
    PROVE  /\ Owner(Head(batch)) \in Tx /\ answer[Owner(Head(batch))] = "waiting"
           /\ Owner(Head(batch)) \notin AsyncTx
<1>1. batch # <<>> /\ batch \in Seq(Db)
  BY DEF AnswerNext, TypeOK, TypeCommit
<1>2. Head(batch) = batch[1] /\ 1 \in DOMAIN batch
  BY <1>1, TailElements
<1>. QED
  BY <1>2, LogFacts DEF LInv, ResultsOpen, Results, MemoryOpen

\* The process dies, and its callers with it.
LEMMA CrashOpen ==
    ASSUME LInv, Crash
    PROVE  OpenInv'
<1>1. /\ old'.txs = <<>> /\ txq' = <<>> /\ bg' = {} /\ batch' = <<>> /\ cmq' = <<>>
      /\ proc' = "stopped"
  BY DEF Crash, EmptyDb
<1>2. Range(<<>>) = {} /\ DOMAIN <<>> = {}
  BY DEF Range
<1>. QED
  BY <1>1, <1>2 DEF OpenInv, MemoryOpen, QueueOpen, ResultsOpen, Results

\* A new process has only the durable value.
LEMMA ConnectOpen ==
    ASSUME IInv, LInv, Connect
    PROVE  OpenInv'
<1>1. /\ UNCHANGED <<answer, txq, bg, batch, cmq, head, com>>
      /\ old'.txs = Log /\ proc' = "run" /\ status = "down"
  BY DEF Connect, Loaded, Log, clientVars, storeVars
<1>2. txq = <<>> /\ bg = {} /\ batch = <<>> /\ cmq = <<>>
  BY <1>1 DEF LInv, DownIdle, IInv, DownEmpty
<1>3. Range(<<>>) = {} /\ DOMAIN <<>> = {}
  BY DEF Range
<1>4. MemoryOpen'
  <2>1. head \in 1..Len(com)
    BY DEF IInv, TypeOK, TypeStore
  <2>2. Range(Log) \cap AsyncTx = {}
    BY <2>1 DEF LInv, AsyncApart, Log
  <2>3. Log' = Log
    BY <1>1 DEF Log
  <2>. QED
    BY <1>1, <2>2, <2>3 DEF MemoryOpen
<1>5. QueueOpen' /\ ResultsOpen'
  BY <1>1, <1>2, <1>3 DEF QueueOpen, ResultsOpen, Results
<1>. QED
  BY <1>4, <1>5 DEF OpenInv

LEMMA OpenStep ==
    ASSUME IInv, LInv, TypeOK', [Next]_vars
    PROVE  OpenInv'
<1>. USE DEF clientVars, procVars, commitVars, storeVars, connVars, boundVars
<1>1. TypeOK /\ Range(Log) \subseteq Range(Log')
  BY LogGrows, PrefixRange DEF IInv
<1>2. ASSUME NEW t \in Tx, Call(t) PROVE OpenInv'
  BY <1>1, <1>2, CallOpen DEF Call
<1>3. ASSUME NEW t \in Tx, Dispatch(t) PROVE OpenInv'
  BY <1>1, <1>3, CallOpen DEF Dispatch, Accepted
<1>4. ASSUME NEW t \in Tx, FinishBackground(t) PROVE OpenInv'
  <2>1. t \in bg /\ t \notin Range(old.txs) /\ t \notin Range(txq)
    BY <1>1, <1>4, QueueApart DEF FinishBackground, LInv, QueueOpen
  <2>2. proc = "put" => Owner(old) # t
    BY <1>1, <2>1, OwnerInMemory
  <2>. QED
    BY <1>1, <1>4, <2>1, <2>2, UnprocessedOpen DEF FinishBackground, LInv, QueueOpen
<1>5. CASE TransactOk
  BY <1>1, <1>5, TransactOkOpen
<1>6. CASE TransactError
  <2>1. Processing /\ txq # <<>> /\ proc = "run"
    BY <1>6 DEF TransactError, Processing
  <2>. QED
    BY <1>1, <1>6, <2>1, HeadGone, UnprocessedOpen
       DEF TransactError, AfterError, LInv, QueueOpen
<1>7. CASE StartBackground
  <2>1. txq # <<>> /\ Head(txq) \in Range(txq)
    BY <1>1, <1>7, HeadGone DEF StartBackground, Processing
  <2>2. MemoryOpen' /\ ResultsOpen'
    BY <1>7 DEF StartBackground, LInv, MemoryOpen, ResultsOpen, Results, Owner, Last, Log
  <2>3. QueueOpen'
    BY <1>1, <1>7, <2>1, HeadGone DEF StartBackground, LInv, QueueOpen
  <2>. QED
    BY <2>2, <2>3 DEF OpenInv
<1>8. CASE Enqueue
  BY <1>1, <1>8, EnqueueOpen
<1>9. CASE Take
  BY <1>9, TakeOpen
<1>10. CASE Confirm
  <2>1. Owner(Head(batch)) \in Range(Log)
    BY <1>10, ConfirmInLog
  <2>. QED
    BY <1>1, <1>10, <2>1, AnswerOpen DEF Confirm
<1>11. CASE ReportError
  BY <1>1, <1>11, AnswerOpen DEF ReportError
<1>12. CASE Crash
  BY <1>12, CrashOpen
<1>13. CASE Connect
  BY <1>13, ConnectOpen
<1>14. ASSUME \/ StopProcessing \/ StopCommitting \/ Flush \/ SchemaWritten \/ NodesWritten
              \/ Publish \/ CommitError \/ CloseQueues
              \/ \E w \in inflight : Land(w) \/ Refuse(w)
              \/ Release \/ UNCHANGED vars
       PROVE  OpenInv'
  <2>1. UNCHANGED <<answer, old, txq, bg, batch, cmq>> /\ (proc' = "put" => proc = "put")
    BY <1>14 DEF StopProcessing, StopCommitting, Flush, SchemaWritten, NodesWritten, Publish,
                 CommitError, CloseQueues, Land, Refuse, Release, vars
  <2>. QED
    BY <1>1, <2>1, QuietOpen
<1>. QED
  BY <1>2, <1>3, <1>4, <1>5, <1>6, <1>7, <1>8, <1>9, <1>10, <1>11, <1>12, <1>13, <1>14
     DEF Next, ProcessingLoop, CommitLoop

\* A new commit has nothing that runs in the background.
LEMMA AsyncStep ==
    ASSUME IInv, LInv, [Next]_vars
    PROVE  AsyncApart'
<1>. USE DEF clientVars, procVars, commitVars, storeVars, connVars, boundVars
<1>1. CASE Flush
  <2> DEFINE db == ToCommit(batch)
  <2>1. com' = Append(com, [txs |-> db.txs, maxTx |-> db.maxTx, parent |-> head])
        /\ cpc = "flush"
    BY <1>1 DEF Flush
  <2>2. /\ com \in Seq(Commit) /\ batch \in Seq(Db) /\ batch # <<>>
        /\ db = batch[Len(batch)] /\ Len(batch) \in DOMAIN batch
    BY <2>1 DEF IInv, TypeOK, TypeCommit, ToCommit, Last
  <2>3. db.txs \in Seq(Tx) /\ old.txs \in Seq(Tx) /\ Below(db, old)
    BY <2>1, <2>2, Facts DEF IInv, PipelineOrdered, BatchOrdered
  <2>4. Range(db.txs) \cap AsyncTx = {}
    BY <2>3, BelowRange DEF LInv, MemoryOpen
  <2>. HIDE DEF db
  <2>5. \A n \in 1..Len(com') : com'[n].txs = db.txs \/ (n \in 1..Len(com) /\ com'[n] = com[n])
    BY <2>1, <2>2
  <2>. QED
    BY <2>4, <2>5 DEF LInv, AsyncApart
<1>2. ASSUME com' = com PROVE AsyncApart'
  BY <1>2 DEF LInv, AsyncApart
<1>. QED
  BY <1>1, <1>2, ComUnchanged

LEMMA LogInit == Init => LInv
<1>. SUFFICES ASSUME Init PROVE LInv
  OBVIOUS
<1>1. /\ sent = <<>> /\ txq = <<>> /\ old.txs = <<>> /\ bg = {} /\ batch = <<>> /\ cmq = <<>>
      /\ proc = "stopped" /\ ~txOpen
      /\ Len(com) = 1 /\ com[1].txs = <<>>
  BY DEF Init, EmptyDb
<1>2. Range(<<>>) = {} /\ DOMAIN <<>> = {}
  BY DEF Range
<1>3. SentOnce /\ DownIdle
  BY <1>1, <1>2 DEF SentOnce, DownIdle
<1>4. \A n \in 1..Len(com) : com[n].txs = <<>>
  BY <1>1
<1>5. AllOrdered /\ AsyncApart
  BY <1>1, <1>2, <1>4 DEF AllOrdered, Ordered, AsyncApart
<1>6. MemoryOpen /\ QueueOpen /\ ResultsOpen
  BY <1>1, <1>2 DEF MemoryOpen, QueueOpen, ResultsOpen, Results
<1>. QED
  BY <1>3, <1>5, <1>6 DEF LInv

LEMMA LogStep == IInv /\ TypeOK' /\ LInv /\ [Next]_vars => LInv'
<1>. SUFFICES ASSUME IInv, TypeOK', LInv, [Next]_vars PROVE LInv'
  OBVIOUS
<1>. QED
  BY OrderStep, AsyncStep, OpenStep DEF LInv, OpenInv

\* The requests are answered in the order of the log, in every reachable state.
THEOREM LogInvariant == Spec => [](IInv /\ LInv)
<1>1. IInv => TypeOK
  BY DEF IInv
<1>. QED
  BY <1>1, Invariant, LogInit, LogStep, PTL DEF Spec

\* Durable transactions are in the log once each, in the order in which the
\* queue accepted them.
THEOREM LogOrdered == Spec => []CommitOrder
<1>1. IInv /\ LInv => CommitOrder
  <2>. SUFFICES ASSUME IInv, LInv PROVE CommitOrder
    OBVIOUS
  <2>1. Ordered(Log)
    BY DEF IInv, TypeOK, TypeStore, LInv, AllOrdered, Log
  <2>. QED
    BY <2>1 DEF Ordered, Precedes, CommitOrder
<1>. QED
  BY <1>1, LogInvariant, PTL

-------------------------------------------------------------------------------
(* Refinement *)

LEMMA RefinementInit == Init => DL!DLInit
<1>. SUFFICES ASSUME Init PROVE DL!DLInit
  OBVIOUS
<1>1. com[1].txs = <<>> /\ head = 1 /\ answer = [t \in Tx |-> "none"]
  BY DEF Init
<1>. QED
  BY <1>1 DEF DL!DLInit, Log

\* A branch write that lands extends the log by what was in memory only.
LEMMA LandExtends ==
    ASSUME IInv, LInv, LInv', TypeOK', NEW w \in inflight, Land(w), Log' # Log
    PROVE  DL!Extend
<1>1. /\ answer' = answer /\ old' = old /\ com' = com /\ sent' = sent
      /\ head' \in Roots /\ status # "down"
  BY DEF Land, clientVars, procVars, commitVars, Roots, IInv, DownEmpty
<1>2. IsPrefix(Log, Log') /\ Log \in Seq(Tx) /\ Log' \in Seq(Tx)
  <2>1. [Next]_vars
    BY DEF Next
  <2>. QED
    BY <2>1, LogGrows
<1>3. Below(com[head'], old) /\ old.txs \in Seq(Tx) /\ Log' = com[head'].txs
  BY <1>1, LogFacts DEF IInv, PipelineOrdered, MemoryNewest, Log
<1>4. Ordered(Log')
  BY <1>1, <1>2, <1>3, OrderedPrefix DEF Below, LInv, AllOrdered
<1>5. \A i, j \in DOMAIN Log' : Log'[i] = Log'[j] => i = j
  BY <1>2, <1>4, LogFacts, OrderedInjective DEF LInv, IInv
<1>6. /\ Len(Log) \in Nat /\ Len(Log') \in Nat /\ Len(Log) <= Len(Log')
      /\ \A i \in 1..Len(Log) : Log[i] = Log'[i]
      /\ DOMAIN Log = 1..Len(Log) /\ DOMAIN Log' = 1..Len(Log')
  BY <1>2, PrefixPointwise
<1>7. ASSUME NEW i \in Len(Log)+1..Len(Log')
      PROVE  Log'[i] \in Tx \ AsyncTx /\ answer[Log'[i]] \in {"waiting", "failed"}
  <2>1. i \in DOMAIN Log' /\ Log'[i] \in Tx /\ Log'[i] \in Range(Log')
    BY <1>2, <1>6, RangeElements
  <2>2. Log'[i] \in Range(old.txs)
    BY <1>2, <1>3, <2>1, PrefixRange DEF Below
  <2>3. Log'[i] \notin Range(Log)
    <3>1. \A j \in 1..Len(Log) : Log[j] # Log'[i]
      BY <1>5, <1>6, <2>1
    <3>. QED
      BY <1>6, <3>1 DEF Range
  <2>. QED
    BY <2>1, <2>2, <2>3 DEF LInv, MemoryOpen
<1>8. DL!IsStrictPrefix(Log, Log')
  BY <1>2 DEF DL!IsStrictPrefix, DL!IsPrefix, IsPrefix
<1>9. DL!IsInjective(Log')
  BY <1>5 DEF DL!IsInjective
<1>. QED
  BY <1>1, <1>7, <1>8, <1>9 DEF DL!Extend

LEMMA RefinementStep ==
    IInv /\ LInv /\ LInv' /\ TypeOK' /\ [Next]_vars => [DL!DLNext]_(DL!dlvars)
<1>. SUFFICES ASSUME IInv, LInv, LInv', TypeOK', [Next]_vars
              PROVE  [DL!DLNext]_(DL!dlvars)
  OBVIOUS
<1>. USE DEF clientVars, procVars, commitVars, storeVars, connVars, boundVars
<1>1. TypeOK /\ answer \in [Tx -> Answers]
  BY LogFacts DEF IInv
<1>2. (\A w \in inflight : ~Land(w)) => Log' = Log
  BY LogGrows
<1>3. ASSUME com' = com, head' = head PROVE Log' = Log
  BY <1>3 DEF Log
<1>4. ASSUME NEW t \in Tx, Call(t) \/ Dispatch(t) PROVE DL!Ask(t)
  BY <1>3, <1>4 DEF Call, Dispatch, DL!Ask
<1>5. ASSUME NEW t \in Tx, FinishBackground(t) PROVE DL!FinishBackground(t)
  BY <1>1, <1>3, <1>5, LogFacts
     DEF FinishBackground, DL!FinishBackground, LInv, QueueOpen
<1>6. ASSUME TransactError PROVE \E t \in Tx : DL!Reject(t)
  <2> DEFINE t == Head(txq)
  <2>1. txq # <<>> /\ status # "down" /\ answer' = [answer EXCEPT ![t] = "rejected"]
    BY <1>6 DEF TransactError, Processing, IInv, DownEmpty
  <2>2. t \in Tx /\ t \in Range(txq) /\ t \notin Range(old.txs)
    BY <1>1, <2>1, HeadGone
  <2>3. Range(Log) \subseteq Range(old.txs)
    BY <1>1, <2>1, Facts, BelowRange DEF IInv, PipelineOrdered, MemoryNewest, Log
  <2>4. ~ \E i \in DOMAIN Log : Log[i] = t
    BY <2>2, <2>3 DEF Range
  <2>5. Log' = Log
    BY <1>3, <1>6 DEF TransactError
  <2>. HIDE DEF t
  <2>. QED
    BY <2>1, <2>2, <2>4, <2>5 DEF DL!Reject, LInv, QueueOpen
<1>7. ASSUME Confirm PROVE \E t \in Tx : DL!Acknowledge(t)
  <2> DEFINE t == Owner(Head(batch))
  <2>1. answer' = [answer EXCEPT ![t] = "ok"] /\ t \in Range(Log)
    BY <1>7, ConfirmInLog DEF Confirm, AnswerNext
  <2>2. t \in Tx /\ answer[t] = "waiting"
    BY <1>1, <1>7, HeadOwner DEF Confirm
  <2>3. Log' = Log
    BY <1>3, <1>7 DEF Confirm, AnswerNext
  <2>. HIDE DEF t
  <2>. QED
    BY <2>1, <2>2, <2>3 DEF DL!Acknowledge, Range
<1>8. ASSUME ReportError PROVE \E t \in Tx : DL!GiveUp(t)
  <2> DEFINE t == Owner(Head(batch))
  <2>1. answer' = [answer EXCEPT ![t] = "failed"]
    BY <1>8 DEF ReportError, AnswerNext
  <2>2. t \in Tx /\ answer[t] = "waiting" /\ t \notin AsyncTx
    BY <1>1, <1>8, HeadOwner DEF ReportError
  <2>3. Log' = Log
    BY <1>3, <1>8 DEF ReportError, AnswerNext
  <2>. HIDE DEF t
  <2>. QED
    BY <2>1, <2>2, <2>3 DEF DL!GiveUp
<1>9. CASE Crash
  BY <1>3, <1>9 DEF Crash, DL!ProcessDies, DL!DLNext
<1>10. ASSUME NEW w \in inflight, Land(w) PROVE [DL!DLNext]_(DL!dlvars)
  <2>1. answer' = answer
    BY <1>10 DEF Land
  <2>. QED
    BY <1>10, <2>1, LandExtends DEF DL!DLNext, DL!dlvars
<1>11. ASSUME answer' = answer, Log' = Log PROVE UNCHANGED DL!dlvars
  BY <1>11 DEF DL!dlvars
<1>12. ASSUME \/ TransactOk \/ StartBackground \/ Enqueue \/ StopProcessing
              \/ Take \/ StopCommitting \/ SchemaWritten \/ NodesWritten
              \/ Publish \/ CommitError \/ CloseQueues
              \/ \E w \in inflight : Refuse(w)
              \/ Release \/ Connect \/ UNCHANGED vars
       PROVE  answer' = answer /\ com' = com /\ head' = head
  BY <1>12 DEF TransactOk, StartBackground, Enqueue, StopProcessing, Take, StopCommitting,
               SchemaWritten, NodesWritten, Publish, CommitError, CloseQueues, Refuse,
               Release, Connect, vars
<1>13. ASSUME Flush PROVE answer' = answer /\ Log' = Log
  <2>1. answer' = answer /\ head' = head /\ \E c : com' = Append(com, c)
    BY <1>13 DEF Flush
  <2>2. com \in Seq(Commit) /\ head \in 1..Len(com)
    BY <1>1 DEF TypeOK, TypeCommit, TypeStore
  <2>3. com'[head] = com[head]
    BY <2>1, <2>2
  <2>. QED
    BY <2>1, <2>3 DEF Log
<1>14. DL!DLNext <=> \/ \E t \in Tx : \/ DL!Ask(t) \/ DL!Acknowledge(t) \/ DL!Reject(t)
                                     \/ DL!GiveUp(t) \/ DL!FinishBackground(t)
                     \/ DL!Extend \/ DL!ProcessDies
  BY DEF DL!DLNext
<1>. QED
  BY <1>3, <1>4, <1>5, <1>6, <1>7, <1>8, <1>9, <1>10, <1>11, <1>12, <1>13, <1>14
     DEF Next, ProcessingLoop, CommitLoop

\* The writer keeps the promise of DurableLog, whatever fails and whenever the
\* process dies.
THEOREM WriterDurable == Spec => ImplementsDurableLog
<1>1. IInv => TypeOK
  BY DEF IInv
<1>. QED
  BY <1>1, RefinementInit, RefinementStep, LogInvariant, PTL
     DEF Spec, ImplementsDurableLog, DL!DLSpec
===============================================================================
