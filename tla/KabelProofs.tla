------------------------------ MODULE KabelProofs ------------------------------
(***************************************************************************)
(* What is true of Kabel for any transactions and any connections of the   *)
(* client: the types of its variables, that a caller reads its writes, and *)
(* that no waiter is forgotten.                                            *)
(***************************************************************************)
EXTENDS Kabel, SequenceTheorems, TLAPS

-------------------------------------------------------------------------------
(* Types *)

LEMMA MaxTxType ==
    ASSUME TypeOwner, NEW v \in Values
    PROVE  MaxTx(v) \in Nat
<1>1. CASE v = 0
  BY <1>1 DEF MaxTx
<1>2. CASE v # 0
  <2>1. v \in 1..Len(log)
    BY <1>2 DEF Values, TypeOwner
  <2>2. log[v] \in Tx
    BY <2>1 DEF TypeOwner
  <2>. QED
    BY <1>2, <2>2 DEF MaxTx, TypeOwner
<1>. QED
  BY <1>1, <1>2

LEMMA NewestType == TypeOwner => Newest \in Values /\ Newest \in Nat
  BY DEF TypeOwner, Newest, Values

\* What a commit makes of log and mem.
LEMMA CommitSeqs ==
    ASSUME TypeOwner, NEW k \in 1..Len(mem), Commit(k)
    PROVE  /\ log' \in Seq(Tx) /\ mem' \in Seq(Tx)
           /\ Len(log') = Len(log) + k /\ Len(mem') = Len(mem) - k
           /\ \A i \in 1..Len(log') : log'[i] = IF i <= Len(log) THEN log[i] ELSE mem[i - Len(log)]
           /\ \A i \in 1..Len(mem') : mem'[i] = mem[i + k]
<1> DEFINE s == SubSeq(mem, 1, k)
<1>1. log \in Seq(Tx) /\ mem \in Seq(Tx) /\ Len(mem) \in Nat /\ Len(log) \in Nat
  BY DEF TypeOwner
<1>2. s \in Seq(Tx) /\ Len(s) = k /\ \A i \in 1..k : s[i] = mem[i]
  BY <1>1
<1>3. mem' \in Seq(Tx) /\ Len(mem') = Len(mem) - k /\ \A i \in 1..Len(mem') : mem'[i] = mem[i + k]
  BY <1>1 DEF Commit
<1>4. log' = log \o s
  BY DEF Commit
<1>. HIDE DEF s
<1>5. /\ log' \in Seq(Tx) /\ Len(log') = Len(log) + k
      /\ \A i \in 1..Len(log') : log'[i] = IF i <= Len(log) THEN log[i] ELSE s[i - Len(log)]
  <2>1. /\ log \o s \in Seq(Tx) /\ Len(log \o s) = Len(log) + Len(s)
        /\ \A i \in 1..Len(log)+Len(s) :
              (log \o s)[i] = IF i <= Len(log) THEN log[i] ELSE s[i - Len(log)]
    BY <1>1, <1>2, ConcatProperties, Zenon
  <2>. QED
    BY <1>2, <1>4, <2>1
<1>. QED
  BY <1>1, <1>2, <1>3, <1>5

LEMMA TypeInit == Init => TypeOK
<1>. SUFFICES ASSUME Init PROVE TypeOK
  OBVIOUS
<1>1. TypeOwner
  BY DEF Init, TypeOwner
<1>2. TypeCalls
  BY DEF Init, TypeCalls, Stages, Outcomes
<1>3. Values = {0}
  BY DEF Init, Values
<1>4. TypeClient
  BY <1>3 DEF Init, TypeClient, NoValue
<1>. QED
  BY <1>1, <1>2, <1>4 DEF TypeOK

\* The steps of the owner.
LEMMA TypeOwnerSteps ==
    ASSUME TypeOK, Owner \/ StopSync \/ Unhost \/ \E t \in Tx : CallLocal(t)
    PROVE  TypeOK'
<1>. USE DEF ownerVars, callVars, storeVars, connVars, writerVars
<1>1. ASSUME NEW t \in Tx, CallLocal(t) PROVE TypeOK'
  <2>1. TypeOwner' /\ TypeClient'
    BY <1>1 DEF CallLocal, TypeOK, TypeOwner, TypeClient, Gone, Values
  <2>2. TypeCalls'
    BY <1>1 DEF CallLocal, TypeOK, TypeCalls, Stages, Outcomes, Remote
  <2>. QED
    BY <2>1, <2>2 DEF TypeOK
<1>2. ASSUME NEW t \in Tx, Process(t) PROVE TypeOK'
  <2>1. NextId \in Nat
    BY NewestType, MaxTxType DEF TypeOK, NextId
  <2>2. TypeOwner'
    BY <1>2, <2>1 DEF Process, TypeOK, TypeOwner
  <2>3. TypeClient'
    BY <1>2 DEF Process, TypeOK, TypeClient, Gone, Values
  <2>4. TypeCalls'
    BY <1>2 DEF Process, TypeOK, TypeCalls, Stages, Outcomes, Remote
  <2>. QED
    BY <2>2, <2>3, <2>4 DEF TypeOK
<1>3. ASSUME NEW t \in Tx, Refuse(t) PROVE TypeOK'
  <2>1. TypeOwner' /\ TypeClient'
    BY <1>3 DEF Refuse, TypeOK, TypeOwner, TypeClient, Gone, Values
  <2>2. TypeCalls'
    BY <1>3 DEF Refuse, TypeOK, TypeCalls, Stages, Outcomes, Remote
  <2>. QED
    BY <2>1, <2>2 DEF TypeOK
<1>4. ASSUME NEW t \in Tx, Reply(t) PROVE TypeOK'
  <2>1. TypeOwner' /\ TypeClient'
    BY <1>4 DEF Reply, TypeOK, TypeOwner, TypeClient, Gone, Values
  <2>2. TypeCalls'
    BY <1>4 DEF Reply, TypeOK, TypeCalls, Stages, Outcomes, Remote
  <2>. QED
    BY <2>1, <2>2 DEF TypeOK
<1>5. ASSUME NEW k \in 1..Len(mem), Commit(k) PROVE TypeOK'
  <2>1. /\ log' \in Seq(Tx) /\ mem' \in Seq(Tx)
        /\ Len(log') = Len(log) + k /\ Len(log) \in Nat /\ k \in Nat
    BY <1>5, CommitSeqs DEF TypeOK, TypeOwner
  <2>2. TypeOwner'
    BY <1>5, <2>1 DEF Commit, TypeOK, TypeOwner
  <2>3. TypeCalls'
    BY <1>5 DEF Commit, TypeOK, TypeCalls, Remote
  <2>4. Values \subseteq Values' /\ Newest + k \in Values'
    BY <2>1 DEF Values, Newest
  <2>5. feed' \in [Conn -> Seq(Values')]
    <3>1. ASSUME NEW c \in Conn
          PROVE  feed[c] \in Seq(Values') /\ Append(feed[c], Newest + k) \in Seq(Values')
      <4>1. feed[c] \in Seq(Values)
        BY DEF TypeOK, TypeClient, Gone
      <4>2. feed[c] \in Seq(Values')
        BY <2>4, <4>1, SeqMonotonic
      <4>. QED
        BY <2>4, <4>2, AppendProperties
    <3>. QED
      BY <1>5, <3>1 DEF Commit
  <2>6. TypeClient'
    BY <1>5, <2>4, <2>5 DEF Commit, TypeOK, TypeClient, Gone
  <2>. QED
    BY <2>2, <2>3, <2>6 DEF TypeOK
<1>6. ASSUME StopSync \/ Unhost PROVE TypeOK'
  <2>1. TypeOwner' /\ TypeClient'
    BY <1>6 DEF StopSync, Unhost, TypeOK, TypeOwner, TypeClient, Gone, Values
  <2>2. TypeCalls'
    BY <1>6 DEF StopSync, Unhost, TypeOK, TypeCalls, Remote
  <2>. QED
    BY <2>1, <2>2 DEF TypeOK
<1>. QED
  BY <1>1, <1>2, <1>3, <1>4, <1>5, <1>6 DEF Owner

\* The steps of a call.
LEMMA TypeCallSteps ==
    ASSUME TypeOK, NEW t \in Tx, Dispatching(t) \/ \E c \in Conn : Invoke(t, c)
    PROVE  TypeOK'
<1>. USE DEF ownerVars, callVars, storeVars, connVars, writerVars
<1>1. TypeOwner' /\ TypeClient'
  BY DEF Dispatching, Invoke, ReceiveError, Register, CheckArrived, CheckNotArrived,
         WakeSynced, WakeShutDown, Finalize, TypeOK, TypeOwner, TypeClient, Gone, Values
<1>2. ASSUME NEW c \in Conn, Invoke(t, c) PROVE TypeCalls'
  BY <1>2, ConnAssumption DEF Invoke, TypeOK, TypeCalls, Stages, Outcomes, Remote
<1>3. ASSUME ReceiveError(t) \/ CheckNotArrived(t) \/ WakeShutDown(t) PROVE TypeCalls'
  BY <1>3 DEF ReceiveError, CheckNotArrived, WakeShutDown, TypeOK, TypeCalls, Stages,
              Outcomes, Remote
<1>4. ASSUME Register(t) PROVE TypeCalls'
  <2>1. /\ via[t] \in Conn /\ Waiting(t) \subseteq Tx
        /\ \A u \in Waiting(t) : u # t => u \in pending[via[t]]
    BY <1>4 DEF Register, Waiting, Others, Remote, TypeOK, TypeCalls
  <2>. QED
    BY <1>4, <2>1 DEF Register, TypeOK, TypeCalls, Stages, Outcomes, Remote
<1>5. ASSUME Finalize(t), call[t] \in {"check", "parked"} PROVE TypeCalls'
  <2>1. /\ via[t] \in Conn /\ t \notin Others(t) /\ Others(t) \subseteq pending[via[t]]
    BY <1>5 DEF Others, Remote, TypeOK, TypeCalls
  <2>. QED
    BY <1>5, <2>1 DEF Finalize, TypeOK, TypeCalls, Stages, Outcomes, Remote
<1>6. TypeCalls'
  BY <1>2, <1>3, <1>4, <1>5 DEF Dispatching, CheckArrived, WakeSynced
<1>. QED
  BY <1>1, <1>6 DEF TypeOK

\* The value of the next update, and the feed without it.
LEMMA UpdateTypes ==
    ASSUME TypeOK, NEW c \in Conn, Update(c)
    PROVE  /\ Head(feed[c]) \in Values
           /\ feed' \in [Conn -> Seq(Values)]
           /\ local' \in Values \cup {NoValue}
           /\ tiered' = tiered /\ offered' = offered
<1>1. feed[c] \in Seq(Values) /\ feed[c] # <<>>
  BY DEF Update, TypeOK, TypeClient, Gone
<1>2. Head(feed[c]) \in Values /\ Tail(feed[c]) \in Seq(Values)
  BY <1>1
<1>. QED
  BY <1>2 DEF Update, TypeOK, TypeClient, Gone

\* The steps of a connection.
LEMMA TypeConnSteps ==
    ASSUME TypeOK, NEW c \in Conn,
           ReadCached(c) \/ Subscribe(c) \/ Updating(c) \/ Connecting(c) \/ Release(c)
    PROVE  TypeOK'
<1>. USE DEF ownerVars, callVars, storeVars, connVars, writerVars
<1>1. TypeOwner' /\ Values' = Values
  BY DEF ReadCached, Subscribe, Updating, UpdateStored, UpdateShown, UpdateReleased, NotifyMax, NotifyWake,
         Connecting, Take, Open, Release, TypeOK, TypeOwner, Values
<1>2a. ASSUME ReadCached(c) PROVE TypeCalls' /\ TypeClient'
  <2>1. TypeCalls'
    BY <1>2a DEF ReadCached, TypeOK, TypeCalls, Remote
  <2>2. TypeClient'
    BY <1>1, <1>2a DEF ReadCached, TypeOK, TypeClient, Gone
  <2>. QED
    BY <2>1, <2>2
<1>2. ASSUME Subscribe(c) PROVE TypeCalls' /\ TypeClient'
  <2>1. TypeCalls'
    BY <1>2 DEF Subscribe, TypeOK, TypeCalls, Remote
  <2>2. Newest \in Values
    BY NewestType DEF TypeOK
  <2>3. <<>> \in Seq(Values) /\ <<Newest>> \in Seq(Values)
    BY <2>2
  <2>4. TypeClient'
    BY <1>1, <1>2, <2>3 DEF Subscribe, TypeOK, TypeClient, Gone
  <2>. QED
    BY <2>1, <2>4
<1>3. ASSUME UpdateStored(c) PROVE TypeCalls' /\ TypeClient'
  <2>1. TypeCalls'
    BY <1>3 DEF UpdateStored, TypeOK, TypeCalls, Remote
  <2>2. feed' \in [Conn -> Seq(Values)] /\ local' \in Values \cup {NoValue}
        /\ tiered' = tiered /\ offered' = offered /\ Head(feed[c]) \in Values
    BY <1>3, UpdateTypes DEF UpdateStored
  <2>3. TypeClient'
    BY <1>1, <1>3, <2>2 DEF UpdateStored, TypeOK, TypeClient, Gone
  <2>. QED
    BY <2>1, <2>3
<1>4. ASSUME UpdateShown(c) PROVE TypeCalls' /\ TypeClient'
  <2>1. TypeCalls'
    BY <1>4 DEF UpdateShown, TypeOK, TypeCalls, Remote
  <2>2. feed' \in [Conn -> Seq(Values)] /\ local' \in Values \cup {NoValue}
        /\ tiered' = tiered /\ offered' = offered
        /\ Head(feed[c]) \in Values
    BY <1>4, UpdateTypes DEF UpdateShown
  <2>3. TypeClient'
    BY <1>1, <1>4, <2>2 DEF UpdateShown, TypeOK, TypeClient, Gone
  <2>. QED
    BY <2>1, <2>3
<1>5. ASSUME UpdateReleased(c) PROVE TypeCalls' /\ TypeClient'
  <2>1. TypeCalls'
    BY <1>5 DEF UpdateReleased, TypeOK, TypeCalls, Remote
  <2>2. feed' \in [Conn -> Seq(Values)] /\ local' \in Values \cup {NoValue}
        /\ tiered' = tiered /\ offered' = offered
    BY <1>5, UpdateTypes DEF UpdateReleased
  <2>3. phase[c] \in {"released", "revived"} /\ phase' \in {phase, [phase EXCEPT ![c] = "revived"]}
    BY <1>5 DEF UpdateReleased, Gone
  <2>4. TypeClient'
    BY <1>1, <1>5, <2>2, <2>3 DEF UpdateReleased, TypeOK, TypeClient, Gone
  <2>. QED
    BY <2>1, <2>4
<1>6. ASSUME NotifyMax(c) PROVE TypeCalls' /\ TypeClient'
  <2>1. MaxTx(notify[c].value) \in Nat
    BY MaxTxType DEF TypeOK, TypeClient, Gone
  <2>2. TypeCalls'
    BY <1>6, <2>1 DEF NotifyMax, TypeOK, TypeCalls, Remote
  <2>3. TypeClient'
    BY <1>1, <1>6 DEF NotifyMax, TypeOK, TypeClient, Gone
  <2>. QED
    BY <2>2, <2>3
<1>7. ASSUME NotifyWake(c) PROVE TypeCalls' /\ TypeClient'
  <2>1. TypeCalls'
    BY <1>7 DEF NotifyWake, Due, Signalled, TypeOK, TypeCalls, Outcomes, Remote
  <2>2. TypeClient'
    BY <1>1, <1>7 DEF NotifyWake, TypeOK, TypeClient, Gone
  <2>. QED
    BY <2>1, <2>2
<1>8. ASSUME Take(c) PROVE TypeCalls' /\ TypeClient'
  BY <1>1, <1>8 DEF Take, Ready, TypeOK, TypeCalls, TypeClient, Gone, Remote
<1>9. ASSUME Open(c) PROVE TypeCalls' /\ TypeClient'
  BY <1>1, <1>9 DEF Open, TypeOK, TypeCalls, TypeClient, Gone, Remote
<1>10. ASSUME Release(c) PROVE TypeCalls' /\ TypeClient'
  <2>1. TypeCalls'
    BY <1>10 DEF Release, ShutDown, Signalled, TypeOK, TypeCalls, Outcomes, Remote
  <2>2. TypeClient'
    BY <1>1, <1>10 DEF Release, TypeOK, TypeClient, Gone
  <2>. QED
    BY <2>1, <2>2
<1>. QED
  BY <1>1, <1>2a, <1>2, <1>3, <1>4, <1>5, <1>6, <1>7, <1>8, <1>9, <1>10
     DEF Updating, Connecting, TypeOK

LEMMA TypeNext == TypeOK /\ [Next]_vars => TypeOK'
<1>. SUFFICES ASSUME TypeOK, [Next]_vars PROVE TypeOK'
  OBVIOUS
<1>1. CASE UNCHANGED vars
  BY <1>1 DEF vars, ownerVars, callVars, storeVars, connVars, writerVars, TypeOK, TypeOwner,
              TypeCalls, TypeClient, Gone, Values, Remote
<1>. QED
  BY <1>1, TypeOwnerSteps, TypeCallSteps, TypeConnSteps DEF Next

\* The variables keep the types that the code gives them, for any number of
\* transactions and connections.
THEOREM TypeCorrect == Spec => []TypeOK
<1>. QED
  BY TypeInit, TypeNext, PTL DEF Spec

-------------------------------------------------------------------------------
(* The log, and what the writer of the owner will append to it *)

\* The transactions in the order of their processing, committed or not.
At(i) == IF i <= Len(log) THEN log[i] ELSE mem[i - Len(log)]
Total == Len(log) + Len(mem)

\* Each is there once, and ids never decrease; none exceeds the next one.
ChainOK ==
    /\ \A i, j \in 1..Total : At(i) = At(j) => i = j
    /\ \A i, j \in 1..Total : i <= j => id[At(i)] <= id[At(j)]
    /\ \A i \in 1..Total : id[At(i)] <= MaxTx(Newest) + 1

\* The calls that the writer of the owner has not processed, or never will.
Unprocessed == {"none", "sent", "error", "rejected"}

\* How far the calls of these transactions are; a reply is given for what is
\* committed.
StagesOK ==
    /\ \A i \in 1..Len(log) : call[log[i]] \notin Unprocessed
    /\ \A i \in 1..Len(mem) : call[mem[i]] = "server"
    /\ \A t \in Tx : call[t] \in Unprocessed => id[t] = 0
    /\ \A t \in Tx : call[t] \notin Unprocessed => id[t] >= 1
    /\ \A t \in Tx : call[t] \notin Unprocessed \cup {"server"} => In(t, Newest)

LEMMA AtTypes ==
    ASSUME TypeOwner
    PROVE  /\ Len(log) \in Nat /\ Len(mem) \in Nat /\ Total \in Nat
           /\ \A i \in 1..Total : At(i) \in Tx /\ id[At(i)] \in Nat
           /\ \A i \in 1..Len(log) : At(i) = log[i] /\ i \in 1..Total
           /\ \A i \in 1..Len(mem) : At(Len(log) + i) = mem[i] /\ Len(log) + i \in 1..Total
<1>1. Len(log) \in Nat /\ Len(mem) \in Nat /\ Total \in Nat
  BY DEF TypeOwner, Total
<1>2. ASSUME NEW i \in 1..Total PROVE At(i) \in Tx /\ id[At(i)] \in Nat
  <2>1. CASE i <= Len(log)
    BY <1>1, <2>1 DEF TypeOwner, At
  <2>2. CASE i > Len(log)
    <3>1. i - Len(log) \in 1..Len(mem)
      BY <1>1, <2>2 DEF Total
    <3>. QED
      BY <1>1, <2>2, <3>1 DEF TypeOwner, At
  <2>. QED
    BY <1>1, <2>1, <2>2
<1>3. ASSUME NEW i \in 1..Len(log) PROVE At(i) = log[i] /\ i \in 1..Total
  BY <1>1 DEF At, Total
<1>4. ASSUME NEW i \in 1..Len(mem)
      PROVE  At(Len(log) + i) = mem[i] /\ Len(log) + i \in 1..Total
  BY <1>1 DEF At, Total
<1>. QED
  BY <1>1, <1>2, <1>3, <1>4

\* A newer value has no smaller id.
LEMMA MaxTxMonotone ==
    ASSUME TypeOwner, ChainOK, NEW v \in Values, NEW w \in Values, v <= w
    PROVE  MaxTx(v) <= MaxTx(w)
<1>1. MaxTx(v) \in Nat /\ MaxTx(w) \in Nat /\ v \in Nat /\ w \in Nat
  BY MaxTxType DEF Values
<1>2. CASE v = 0
  BY <1>1, <1>2 DEF MaxTx
<1>3. CASE v # 0
  <2>1. v \in 1..Len(log) /\ w \in 1..Len(log)
    BY <1>1, <1>3, AtTypes DEF Values
  <2>2. id[At(v)] <= id[At(w)] /\ At(v) = log[v] /\ At(w) = log[w]
    BY <2>1, AtTypes DEF ChainOK
  <2>. QED
    BY <1>1, <1>3, <2>1, <2>2 DEF MaxTx
<1>. QED
  BY <1>2, <1>3

\* Whoever is in the log or about to be was processed.
LEMMA AtStage ==
    ASSUME TypeOwner, StagesOK, NEW i \in 1..Total
    PROVE  call[At(i)] \notin Unprocessed
<1>1. CASE i <= Len(log)
  BY <1>1, AtTypes DEF StagesOK, At
<1>2. CASE i > Len(log)
  <2>1. i - Len(log) \in 1..Len(mem) /\ At(i) = mem[i - Len(log)]
    BY <1>2, AtTypes DEF At, Total
  <2>. QED
    BY <2>1 DEF StagesOK, Unprocessed
<1>. QED
  BY <1>1, <1>2, AtTypes

\* A step adds to the log, and gives an id to nobody but the call it processes.
LEMMA IdsKept ==
    ASSUME TypeOK, StagesOK, [Next]_vars
    PROVE  /\ Len(log) <= Len(log') /\ \A i \in 1..Len(log) : log'[i] = log[i]
           /\ \A t \in Tx : call[t] # "sent" => id'[t] = id[t]
           /\ \A v \in Values : v \in Values' /\ MaxTx(v)' = MaxTx(v)
<1>. USE DEF ownerVars, callVars, storeVars, connVars, writerVars
<1>1. Len(log) \in Nat /\ log \in Seq(Tx)
  BY DEF TypeOK, TypeOwner
<1>2. /\ Len(log) <= Len(log') /\ \A i \in 1..Len(log) : log'[i] = log[i]
      /\ \A t \in Tx : call[t] # "sent" => id'[t] = id[t]
  <2>1. ASSUME NEW t \in Tx, Process(t) PROVE <1>2
    BY <1>1, <2>1 DEF Process, TypeOK, TypeOwner
  <2>2. ASSUME NEW k \in 1..Len(mem), Commit(k) PROVE <1>2
    <3>1. /\ k \in Nat /\ Len(log') = Len(log) + k
          /\ \A i \in 1..Len(log') : log'[i] = IF i <= Len(log) THEN log[i] ELSE mem[i - Len(log)]
      BY <2>2, CommitSeqs DEF TypeOK
    <3>2. id' = id
      BY <2>2 DEF Commit
    <3>. QED
      BY <1>1, <3>1, <3>2
  <2>3. ASSUME log' = log, id' = id PROVE <1>2
    BY <1>1, <2>3
  <2>4. ASSUME NEW t \in Tx, Refuse(t) \/ Reply(t) \/ CallLocal(t) PROVE log' = log /\ id' = id
    BY <2>4 DEF Refuse, Reply, CallLocal
  <2>5. ASSUME StopSync \/ Unhost PROVE log' = log /\ id' = id
    BY <2>5 DEF StopSync, Unhost
  <2>6. ASSUME NEW t \in Tx, Dispatching(t) \/ \E c \in Conn : Invoke(t, c)
        PROVE  log' = log /\ id' = id
    BY <2>6 DEF Dispatching, Invoke, ReceiveError, Register, CheckArrived, CheckNotArrived,
                WakeSynced, WakeShutDown, Finalize
  <2>7. ASSUME NEW c \in Conn, \/ ReadCached(c) \/ Subscribe(c) \/ Updating(c)
                               \/ Connecting(c) \/ Release(c)
        PROVE  log' = log /\ id' = id
    BY <2>7 DEF ReadCached, Subscribe, Updating, UpdateStored, UpdateShown, UpdateReleased, NotifyMax,
                NotifyWake, Connecting, Take, Open, Release
  <2>8. ASSUME UNCHANGED vars PROVE log' = log /\ id' = id
    BY <2>8 DEF vars
  <2>. QED
    BY <2>1, <2>2, <2>3, <2>4, <2>5, <2>6, <2>7, <2>8 DEF Next, Owner
<1>3. ASSUME NEW v \in Values PROVE v \in Values' /\ MaxTx(v)' = MaxTx(v)
  <2>1. v \in Values'
    <3>1. Len(log') \in Nat
      BY TypeNext DEF TypeOK, TypeOwner
    <3>. QED
      BY <1>1, <1>2, <3>1 DEF Values
  <2>2. CASE v = 0
    BY <2>1, <2>2 DEF MaxTx
  <2>3. CASE v # 0
    <3>1. v \in 1..Len(log)
      BY <1>1, <2>3 DEF Values
    <3>2. log[v] \in Tx /\ call[log[v]] # "sent"
      BY <1>1, <3>1 DEF StagesOK, Unprocessed
    <3>. QED
      <4>1. log'[v] = log[v] /\ id'[log[v]] = id[log[v]]
        BY <1>2, <3>1, <3>2
      <4>. QED
        BY <2>1, <2>3, <4>1 DEF MaxTx
  <2>. QED
    BY <2>1, <2>2, <2>3
<1>. QED
  BY <1>2, <1>3

\* A processed transaction is the last of the chain, and gets the greatest id.
LEMMA ChainProcess ==
    ASSUME TypeOK, ChainOK, StagesOK, NEW t \in Tx, Process(t)
    PROVE  ChainOK' /\ StagesOK'
<1>1. TypeOwner /\ TypeOwner'
  <2>1. [Next]_vars
    BY DEF Next, Owner
  <2>. QED
    BY <2>1, TypeNext DEF TypeOK
<1>2. /\ call[t] = "sent" /\ mem' = Append(mem, t) /\ log' = log
      /\ call' = [call EXCEPT ![t] = "server"] /\ id' = [id EXCEPT ![t] = NextId]
  BY DEF Process, ownerVars
<1>3. Newest \in Values /\ MaxTx(Newest) \in Nat /\ NextId = MaxTx(Newest) + 1
  BY <1>1, NewestType, MaxTxType DEF NextId
<1>4. /\ Len(log) \in Nat /\ Len(mem) \in Nat /\ Len(mem') = Len(mem) + 1
      /\ Total \in Nat /\ Total' = Total + 1
      /\ \A i \in 1..Len(mem) : mem'[i] = mem[i]
      /\ mem'[Len(mem) + 1] = t
  BY <1>1, <1>2 DEF TypeOwner, Total
<1>5. \A i \in 1..Total : At(i)' = At(i) /\ At(i) \in Tx /\ At(i) # t /\ id[At(i)] \in Nat
  <2>. SUFFICES ASSUME NEW i \in 1..Total
                PROVE  At(i)' = At(i) /\ At(i) \in Tx /\ At(i) # t /\ id[At(i)] \in Nat
    OBVIOUS
  <2>1. At(i) \in Tx /\ id[At(i)] \in Nat
    BY <1>1, AtTypes
  <2>2. At(i) # t
    BY <1>1, <1>2, AtStage DEF Unprocessed
  <2>3. CASE i <= Len(log)
    BY <1>2, <2>1, <2>2, <2>3 DEF At
  <2>4. CASE i > Len(log)
    <3>1. i - Len(log) \in 1..Len(mem)
      BY <1>4, <2>4 DEF Total
    <3>2. mem'[i - Len(log)] = mem[i - Len(log)]
      BY <1>4, <3>1
    <3>. QED
      BY <1>2, <2>1, <2>2, <2>4, <3>2 DEF At
  <2>. QED
    BY <1>4, <2>3, <2>4
<1>6. \A i : i = Total + 1 => At(i)' = t
  BY <1>2, <1>4 DEF At, Total
<1>7. \A i \in 1..Total : (id[At(i)])' = id[At(i)]
  BY <1>1, <1>2, <1>5 DEF TypeOwner
<1>8. \A i : i = Total + 1 => (id[At(i)])' = NextId
  BY <1>1, <1>2, <1>6 DEF TypeOwner
<1>9. MaxTx(Newest)' = MaxTx(Newest) /\ Newest' = Newest
  <2>1. [Next]_vars
    BY DEF Next, Owner
  <2>2. Newest' = Newest
    BY <1>2 DEF Newest
  <2>3. \A v \in Values : MaxTx(v)' = MaxTx(v)
    BY <2>1, IdsKept
  <2>4. CASE Newest = 0
    BY <2>2, <2>4 DEF MaxTx
  <2>5. CASE Newest # 0
    <3>1. Newest \in 1..Len(log)
      BY <1>3, <1>4, <2>5 DEF Values
    <3>2. log[Newest] = At(Newest) /\ Newest \in 1..Total
      BY <1>1, <3>1, AtTypes
    <3>3. log[Newest] # t /\ log[Newest] \in Tx
      BY <1>5, <3>2
    <3>4. id'[log[Newest]] = id[log[Newest]]
      BY <1>1, <1>2, <3>3 DEF TypeOwner
    <3>. QED
      BY <1>2, <2>2, <2>5, <3>4 DEF MaxTx
  <2>. QED
    BY <2>2, <2>4, <2>5
<1>10. ChainOK'
  <2>1. ASSUME NEW i \in 1..Total', NEW j \in 1..Total', At(i)' = At(j)'
        PROVE  i = j
    <3>1. CASE i \in 1..Total /\ j \in 1..Total
      BY <1>5, <2>1, <3>1 DEF ChainOK
    <3>2. CASE i = Total + 1 \/ j = Total + 1
      BY <1>4, <1>5, <1>6, <2>1, <3>2
    <3>. QED
      BY <1>4, <3>1, <3>2
  <2>2. ASSUME NEW i \in 1..Total', NEW j \in 1..Total', i <= j
        PROVE  (id[At(i)])' <= (id[At(j)])'
    <3>1. CASE j \in 1..Total
      BY <1>4, <1>7, <2>2, <3>1 DEF ChainOK
    <3>2. CASE j = Total + 1 /\ i \in 1..Total
      <4>1. (id[At(j)])' = MaxTx(Newest) + 1 /\ (id[At(i)])' = id[At(i)]
        BY <1>3, <1>7, <1>8, <3>2
      <4>2. id[At(i)] <= MaxTx(Newest) + 1
        BY <3>2 DEF ChainOK
      <4>. QED
        BY <4>1, <4>2
    <3>3. CASE j = Total + 1 /\ i = Total + 1
      BY <1>3, <1>8, <3>3
    <3>. QED
      BY <1>4, <2>2, <3>1, <3>2, <3>3
  <2>3. ASSUME NEW i \in 1..Total' PROVE (id[At(i)])' <= MaxTx(Newest)' + 1
    <3>1. CASE i \in 1..Total
      BY <1>7, <1>9, <3>1 DEF ChainOK
    <3>2. CASE i = Total + 1
      BY <1>3, <1>8, <1>9, <3>2
    <3>. QED
      BY <1>4, <3>1, <3>2
  <2>. QED
    BY <2>1, <2>2, <2>3 DEF ChainOK
<1>11. StagesOK'
  <2>1. \A i \in 1..Len(log) : log[i] \in Tx /\ log[i] # t
    BY <1>1, <1>5, AtTypes
  <2>2. \A i \in 1..Len(mem) : mem[i] \in Tx /\ mem[i] # t
    BY <1>1, <1>5, AtTypes
  <2>3. call \in [Tx -> Stages] /\ id \in [Tx -> Nat]
    BY DEF TypeOK, TypeOwner, TypeCalls
  <2>4. \A i \in 1..Len(log') : call'[log'[i]] \notin Unprocessed
    BY <1>2, <2>1, <2>3 DEF StagesOK
  <2>5. \A i \in 1..Len(mem') : call'[mem'[i]] = "server"
    <3>. SUFFICES ASSUME NEW i \in 1..Len(mem') PROVE call'[mem'[i]] = "server"
      OBVIOUS
    <3>1. CASE i \in 1..Len(mem)
      BY <1>2, <1>4, <2>2, <2>3, <3>1 DEF StagesOK
    <3>2. CASE i = Len(mem) + 1
      BY <1>2, <1>4, <2>3, <3>2
    <3>. QED
      BY <1>4, <3>1, <3>2
  <2>6. \A u \in Tx : /\ call'[u] \in Unprocessed => id'[u] = 0
                      /\ call'[u] \notin Unprocessed => id'[u] >= 1
    BY <1>2, <1>3, <2>3 DEF StagesOK, Unprocessed
  <2>7. \A u \in Tx : call'[u] \notin Unprocessed \cup {"server"} => In(u, Newest)'
    BY <1>2, <1>9, <2>3 DEF StagesOK, In
  <2>. QED
    BY <2>4, <2>5, <2>6, <2>7 DEF StagesOK
<1>. QED
  BY <1>10, <1>11

\* A commit moves the end of the log along the chain.
LEMMA ChainCommit ==
    ASSUME TypeOK, ChainOK, StagesOK, NEW k \in 1..Len(mem), Commit(k)
    PROVE  ChainOK' /\ StagesOK'
<1>1. TypeOwner /\ call' = call /\ id' = id
  BY DEF TypeOK, Commit, callVars
<1>2. /\ log' \in Seq(Tx) /\ mem' \in Seq(Tx) /\ k \in Nat
      /\ Len(log') = Len(log) + k /\ Len(mem') = Len(mem) - k
      /\ \A i \in 1..Len(log') : log'[i] = IF i <= Len(log) THEN log[i] ELSE mem[i - Len(log)]
      /\ \A i \in 1..Len(mem') : mem'[i] = mem[i + k]
  BY <1>1, CommitSeqs
<1>3. Len(log) \in Nat /\ Len(mem) \in Nat /\ Total \in Nat /\ Total' = Total /\ k <= Len(mem)
  BY <1>1, <1>2, AtTypes DEF Total
<1>4. \A i \in 1..Total : At(i)' = At(i)
  <2>. SUFFICES ASSUME NEW i \in 1..Total PROVE At(i)' = At(i)
    OBVIOUS
  <2>1. CASE i <= Len(log')
    BY <1>2, <1>3, <2>1 DEF At
  <2>2. CASE i > Len(log')
    <3>1. /\ i - Len(log') \in 1..Len(mem') /\ i > Len(log)
          /\ (i - Len(log')) + k = i - Len(log)
      BY <1>2, <1>3, <2>2 DEF Total
    <3>2. mem'[i - Len(log')] = mem[i - Len(log)]
      BY <1>2, <3>1
    <3>. QED
      BY <2>2, <3>1, <3>2 DEF At
  <2>. QED
    BY <1>2, <1>3, <2>1, <2>2
<1>5. /\ Newest \in Values /\ MaxTx(Newest) \in Nat
      /\ Newest' = Newest + k /\ Newest + k \in 1..Total
      /\ MaxTx(Newest)' = id[At(Newest + k)]
  <2>1. Newest \in Values /\ MaxTx(Newest) \in Nat
    BY <1>1, NewestType, MaxTxType
  <2>2. Newest' = Newest + k /\ Newest + k \in 1..Total /\ Newest + k # 0
    BY <1>2, <1>3 DEF Newest, Total
  <2>3. log'[Newest + k] = At(Newest + k)
    <3>1. Len(log) + k \in 1..Len(log') /\ ~(Len(log) + k <= Len(log))
      BY <1>2, <1>3
    <3>2. log'[Len(log) + k] = mem[(Len(log) + k) - Len(log)]
      BY <1>2, <3>1
    <3>. QED
      BY <3>1, <3>2 DEF At, Newest
  <2>. QED
    BY <1>1, <2>1, <2>2, <2>3 DEF MaxTx
<1>6. MaxTx(Newest) <= MaxTx(Newest)'
  <2>1. CASE Newest = 0
    <3>1. MaxTx(Newest) = 0 /\ id[At(Newest + k)] \in Nat
      BY <1>1, <1>5, <2>1, AtTypes DEF MaxTx
    <3>. QED
      BY <1>5, <3>1
  <2>2. CASE Newest # 0
    <3>1. Newest \in 1..Len(log) /\ Newest <= Newest + k
      BY <1>2, <1>3, <2>2 DEF Newest
    <3>2. At(Newest) = log[Newest] /\ Newest \in 1..Total
      BY <1>1, <3>1, AtTypes
    <3>3. id[At(Newest)] <= id[At(Newest + k)]
      BY <1>5, <3>1, <3>2 DEF ChainOK
    <3>. QED
      BY <1>5, <2>2, <3>2, <3>3 DEF MaxTx
  <2>. QED
    BY <2>1, <2>2
<1>7. ChainOK'
  <2>1. ASSUME NEW i \in 1..Total' PROVE (id[At(i)])' <= MaxTx(Newest)' + 1
    <3>1. (id[At(i)])' = id[At(i)] /\ id[At(i)] <= MaxTx(Newest) + 1 /\ id[At(i)] \in Nat
      BY <1>1, <1>3, <1>4, AtTypes DEF ChainOK
    <3>2. MaxTx(Newest)' \in Nat
      BY <1>1, <1>5, AtTypes
    <3>. QED
      BY <1>5, <1>6, <3>1, <3>2
  <2>2. ASSUME NEW i \in 1..Total', NEW j \in 1..Total'
        PROVE  /\ At(i)' = At(j)' => i = j
               /\ i <= j => (id[At(i)])' <= (id[At(j)])'
    BY <1>1, <1>3, <1>4 DEF ChainOK
  <2>. QED
    BY <2>1, <2>2 DEF ChainOK
<1>8. StagesOK'
  <2>1. ASSUME NEW i \in 1..Len(log') PROVE call'[log'[i]] \notin Unprocessed
    <3>1. CASE i <= Len(log)
      BY <1>1, <1>2, <1>3, <3>1 DEF StagesOK
    <3>2. CASE i > Len(log)
      <4>1. i - Len(log) \in 1..Len(mem) /\ log'[i] = mem[i - Len(log)]
        BY <1>2, <1>3, <3>2
      <4>. QED
        BY <1>1, <4>1 DEF StagesOK, Unprocessed
    <3>. QED
      BY <1>2, <1>3, <3>1, <3>2
  <2>2. ASSUME NEW i \in 1..Len(mem') PROVE call'[mem'[i]] = "server"
    <3>1. i + k \in 1..Len(mem) /\ mem'[i] = mem[i + k]
      BY <1>2, <1>3
    <3>. QED
      BY <1>1, <3>1 DEF StagesOK
  <2>3. ASSUME NEW t \in Tx, In(t, Newest) PROVE In(t, Newest)'
    <3>1. PICK i \in 1..Newest : log[i] = t
      BY <2>3 DEF In
    <3>2. i \in 1..Newest' /\ log'[i] = t
      BY <1>2, <1>3, <3>1 DEF Newest
    <3>. QED
      BY <3>2 DEF In
  <2>. QED
    BY <1>1, <2>1, <2>2, <2>3 DEF StagesOK
<1>. QED
  BY <1>7, <1>8

\* The other steps leave log, mem and ids alone.
LEMMA ChainFrame ==
    ASSUME TypeOwner, ChainOK, log' = log, mem' = mem, id' = id
    PROVE  ChainOK'
<1>1. Total' = Total /\ Newest' = Newest /\ \A i : At(i)' = At(i)
  BY DEF Total, Newest, At
<1>2. MaxTx(Newest)' = MaxTx(Newest)
  BY <1>1 DEF MaxTx
<1>. QED
  BY <1>1, <1>2 DEF ChainOK

LEMMA ChainNext == TypeOK /\ ChainOK /\ StagesOK /\ [Next]_vars => ChainOK' /\ StagesOK'
<1>. SUFFICES ASSUME TypeOK, ChainOK, StagesOK, [Next]_vars PROVE ChainOK' /\ StagesOK'
  OBVIOUS
<1>. USE DEF ownerVars, callVars, storeVars, connVars, writerVars
<1>1. ASSUME log' = log, mem' = mem, id' = id, call' = call PROVE ChainOK' /\ StagesOK'
  BY <1>1, ChainFrame DEF TypeOK, StagesOK, In, Newest
<1>2. ASSUME log' = log, mem' = mem, id' = id, NEW t \in Tx, NEW stage,
             call' = [call EXCEPT ![t] = stage],
             \/ call[t] \in Unprocessed /\ stage \in Unprocessed
             \/ /\ call[t] \notin Unprocessed /\ stage \notin Unprocessed
                /\ call[t] = "server" => In(t, Newest)
                /\ \A i \in 1..Len(mem) : mem[i] # t
      PROVE  ChainOK' /\ StagesOK'
  <2>1. call \in [Tx -> Stages] /\ log \in Seq(Tx) /\ mem \in Seq(Tx)
    BY DEF TypeOK, TypeOwner, TypeCalls
  <2>2. \A i \in 1..Len(log) : log[i] \in Tx
    BY <2>1
  <2>3. \A i \in 1..Len(mem) : mem[i] \in Tx
    BY <2>1
  <2>4. \A u \in Tx : In(u, Newest)' <=> In(u, Newest)
    BY <1>2 DEF In, Newest
  <2>5. \A u \in Tx : call'[u] = IF u = t THEN stage ELSE call[u]
    BY <1>2, <2>1
  <2>6. \A i \in 1..Len(log') : call'[log'[i]] \notin Unprocessed
    BY <1>2, <2>2, <2>5 DEF StagesOK
  <2>7. \A i \in 1..Len(mem') : call'[mem'[i]] = "server"
    BY <1>2, <2>3, <2>5 DEF StagesOK, Unprocessed
  <2>8. \A u \in Tx : /\ call'[u] \in Unprocessed => id'[u] = 0
                      /\ call'[u] \notin Unprocessed => id'[u] >= 1
    BY <1>2, <2>5 DEF StagesOK
  <2>9. \A u \in Tx : call'[u] \notin Unprocessed \cup {"server"} => In(u, Newest)'
    BY <1>2, <2>4, <2>5 DEF StagesOK
  <2>. QED
    BY <1>2, <2>6, <2>7, <2>8, <2>9, ChainFrame DEF TypeOK, StagesOK
<1>3. ASSUME NEW t \in Tx, \/ CallLocal(t) \/ Refuse(t) \/ ReceiveError(t)
                           \/ \E c \in Conn : Invoke(t, c)
      PROVE  ChainOK' /\ StagesOK'
  <2>1. /\ log' = log /\ mem' = mem /\ id' = id
        /\ \E stage \in Unprocessed : call' = [call EXCEPT ![t] = stage]
        /\ call[t] \in Unprocessed
    BY <1>3 DEF CallLocal, Refuse, ReceiveError, Invoke, Unprocessed
  <2>. QED
    BY <1>2, <2>1
<1>4. ASSUME NEW t \in Tx, \/ Reply(t) \/ Register(t) \/ CheckNotArrived(t) \/ WakeShutDown(t)
                           \/ CheckArrived(t) \/ WakeSynced(t)
      PROVE  ChainOK' /\ StagesOK'
  <2>1. /\ log' = log /\ mem' = mem /\ id' = id
        /\ \E stage \in {"ok", "failed", "report", "check", "parked"} :
              call' = [call EXCEPT ![t] = stage]
        /\ call[t] \in {"server", "report", "check", "parked"}
        /\ call[t] = "server" => In(t, Newest)
    BY <1>4 DEF Reply, Durable, Register, CheckNotArrived, WakeShutDown, CheckArrived,
                WakeSynced, Finalize
  <2>2. ASSUME NEW i \in 1..Len(mem), mem[i] = t PROVE FALSE
    <3>1. call[t] = "server"
      BY <2>2 DEF StagesOK
    <3>2. PICK j \in 1..Newest : log[j] = t
      BY <2>1, <3>1 DEF In
    <3>3. At(j) = t /\ At(Len(log) + i) = t /\ j \in 1..Total /\ Len(log) + i \in 1..Total
      BY <2>2, <3>2, AtTypes DEF TypeOK, Newest
    <3>4. j = Len(log) + i
      BY <3>3 DEF ChainOK
    <3>. QED
      BY <3>2, <3>4, AtTypes DEF TypeOK, Newest
  <2>3. PICK stage \in {"ok", "failed", "report", "check", "parked"} :
            call' = [call EXCEPT ![t] = stage]
    BY <2>1
  <2>4. call[t] \notin Unprocessed /\ stage \notin Unprocessed
    BY <2>1, <2>3 DEF Unprocessed
  <2>. QED
    BY <1>2, <2>1, <2>2, <2>3, <2>4
<1>5. ASSUME NEW c \in Conn, ReadCached(c) \/ Subscribe(c) \/ Updating(c) \/ Connecting(c) \/ Release(c)
      PROVE  ChainOK' /\ StagesOK'
  BY <1>1, <1>5 DEF ReadCached, Subscribe, Updating, UpdateStored, UpdateShown, UpdateReleased, NotifyMax,
                    NotifyWake, Connecting, Take, Open, Release
<1>6. ASSUME StopSync \/ Unhost \/ UNCHANGED vars PROVE ChainOK' /\ StagesOK'
  BY <1>1, <1>6 DEF StopSync, Unhost, vars
<1>. QED
  BY <1>3, <1>4, <1>5, <1>6, ChainProcess, ChainCommit DEF Next, Owner, Dispatching

-------------------------------------------------------------------------------
(* A connection does not go back *)

\* What is still to come is no older than what came, and in order; nothing is
\* sent before the subscription.
Ahead(c) ==
    /\ phase[c] \in {"new", "cached"} => feed[c] = <<>>
    /\ \A i \in 1..Len(feed[c]) : shown[c] <= feed[c][i] /\ stored[c] <= feed[c][i]
    /\ \A i, j \in 1..Len(feed[c]) : i <= j => feed[c][i] <= feed[c][j]

FeedOK == \A c \in Conn : Ahead(c)

\* The callback takes the first of the updates of its connection.
LEMMA UpdateFeed ==
    ASSUME TypeOK, NEW c \in Conn, Update(c)
    PROVE  /\ feed[c] \in Seq(Values) /\ 1 \in 1..Len(feed[c]) /\ Head(feed[c]) = feed[c][1]
           /\ Len(feed'[c]) = Len(feed[c]) - 1 /\ Len(feed[c]) \in Nat
           /\ \A i \in 1..Len(feed'[c]) : i + 1 \in 1..Len(feed[c]) /\ feed'[c][i] = feed[c][i + 1]
           /\ \A d \in Conn \ {c} : feed'[d] = feed[d]
<1>1. feed[c] \in Seq(Values) /\ feed[c] # <<>> /\ feed \in [Conn -> Seq(Values)]
  BY DEF Update, TypeOK, TypeClient
<1>2. feed'[c] = Tail(feed[c]) /\ \A d \in Conn \ {c} : feed'[d] = feed[d]
  BY <1>1 DEF Update
<1>. QED
  BY <1>1, <1>2

LEMMA FeedNext == TypeOK /\ FeedOK /\ [Next]_vars => FeedOK'
<1>. SUFFICES ASSUME TypeOK, FeedOK, [Next]_vars PROVE FeedOK'
  OBVIOUS
<1>. USE DEF ownerVars, callVars, storeVars, connVars, writerVars
<1>1. ASSUME feed' = feed, shown' = shown, stored' = stored,
             \A c \in Conn : phase'[c] \in {"new", "cached"} => phase'[c] = phase[c]
      PROVE  FeedOK'
  BY <1>1 DEF FeedOK, Ahead
<1>2. ASSUME NEW k \in 1..Len(mem), Commit(k) PROVE FeedOK'
  <2>. SUFFICES ASSUME NEW c \in Conn PROVE Ahead(c)'
    BY DEF FeedOK
  <2>1. /\ shown' = shown /\ stored' = stored /\ phase' = phase
        /\ phase[c] \in {"new", "cached"} => feed'[c] = feed[c]
    BY <1>2 DEF Commit
  <2>2. feed[c] \in Seq(Values) /\ Len(feed[c]) \in Nat /\ Ahead(c)
    BY DEF TypeOK, TypeClient, FeedOK
  <2>3. CASE feed'[c] = feed[c]
    BY <2>1, <2>2, <2>3 DEF Ahead
  <2>4. CASE feed'[c] = Append(feed[c], Newest + k) /\ phase[c] \notin {"new", "cached"}
    <3>1. Newest \in Nat /\ k \in Nat /\ Values = 0..Newest /\ Len(mem) \in Nat
      BY DEF TypeOK, TypeOwner, Newest, Values
    <3>2. /\ shown[c] \in Values \cup {NoValue} /\ stored[c] \in Values \cup {NoValue}
          /\ \A i \in 1..Len(feed[c]) : feed[c][i] \in Values
      BY <2>2 DEF TypeOK, TypeClient
    <3>3. /\ Len(feed'[c]) = Len(feed[c]) + 1
          /\ \A i \in 1..Len(feed[c]) : feed'[c][i] = feed[c][i]
          /\ feed'[c][Len(feed[c]) + 1] = Newest + k
      BY <2>2, <2>4
    <3>4. /\ shown[c] <= Newest + k /\ stored[c] <= Newest + k
          /\ \A i \in 1..Len(feed[c]) : feed[c][i] <= Newest + k
      BY <3>1, <3>2 DEF NoValue
    <3>5. ASSUME NEW i \in 1..Len(feed'[c])
          PROVE  shown[c] <= feed'[c][i] /\ stored[c] <= feed'[c][i] /\ feed'[c][i] <= Newest + k
      <4>1. CASE i \in 1..Len(feed[c])
        BY <2>2, <3>3, <3>4, <4>1 DEF Ahead
      <4>2. CASE i = Len(feed[c]) + 1
        BY <3>1, <3>3, <3>4, <4>2
      <4>. QED
        BY <2>2, <3>3, <4>1, <4>2
    <3>6. ASSUME NEW i \in 1..Len(feed'[c]), NEW j \in 1..Len(feed'[c]), i <= j
          PROVE  feed'[c][i] <= feed'[c][j]
      <4>1. CASE j \in 1..Len(feed[c])
        <5>1. i \in 1..Len(feed[c]) /\ feed'[c][i] = feed[c][i] /\ feed'[c][j] = feed[c][j]
          BY <2>2, <3>3, <3>6, <4>1
        <5>. QED
          BY <2>2, <3>6, <4>1, <5>1 DEF Ahead
      <4>2. CASE j = Len(feed[c]) + 1
        BY <3>3, <3>5, <4>2
      <4>. QED
        BY <2>2, <3>3, <4>1, <4>2
    <3>. QED
      BY <2>1, <2>4, <3>5, <3>6 DEF Ahead
  <2>. QED
    BY <1>2, <2>3, <2>4 DEF Commit
<1>3a. ASSUME NEW c \in Conn, ReadCached(c) PROVE FeedOK'
  <2>1. feed' = feed /\ feed[c] = <<>>
    BY <1>3a DEF ReadCached, FeedOK, Ahead
  <2>. SUFFICES ASSUME NEW d \in Conn PROVE Ahead(d)'
    BY DEF FeedOK
  <2>2. CASE d # c
    BY <1>3a, <2>1, <2>2 DEF ReadCached, FeedOK, Ahead, TypeOK, TypeClient
  <2>3. CASE d = c
    BY <2>1, <2>3 DEF Ahead
  <2>. QED
    BY <2>2, <2>3
<1>3. ASSUME NEW c \in Conn, Subscribe(c) PROVE FeedOK'
  <2>. SUFFICES ASSUME NEW d \in Conn PROVE Ahead(d)'
    BY DEF FeedOK
  <2>1. CASE d # c
    BY <1>3, <2>1 DEF Subscribe, FeedOK, Ahead, TypeOK, TypeClient
  <2>2. CASE d = c
    <3>1. Newest \in Nat /\ Values = 0..Newest
      BY DEF TypeOK, TypeOwner, Newest, Values
    <3>2. /\ shown' = shown /\ stored' = stored /\ phase'[c] = "subscribed"
          /\ feed'[c] \in {<<>>, <<Newest>>}
      BY <1>3 DEF Subscribe, TypeOK, TypeClient
    <3>3. shown'[c] <= Newest /\ stored'[c] <= Newest
      BY <3>1, <3>2 DEF TypeOK, TypeClient, NoValue
    <3>. QED
      BY <2>2, <3>1, <3>2, <3>3 DEF Ahead
  <2>. QED
    BY <2>1, <2>2
<1>4. ASSUME NEW c \in Conn, Update(c),
             shown'[c] \in {shown[c], Head(feed[c])}, stored'[c] \in {stored[c], Head(feed[c])},
             \A d \in Conn \ {c} : shown'[d] = shown[d] /\ stored'[d] = stored[d],
             \A d \in Conn : phase'[d] \in {"new", "cached"} => phase'[d] = phase[d],
             phase[c] \notin {"new", "cached"}
      PROVE  FeedOK'
  <2>. SUFFICES ASSUME NEW d \in Conn PROVE Ahead(d)'
    BY DEF FeedOK
  <2>1. CASE d # c
    BY <1>4, <2>1, UpdateFeed DEF FeedOK, Ahead
  <2>2. CASE d = c
    <3>1. Ahead(c)
      BY DEF FeedOK
    <3>2. /\ 1 \in 1..Len(feed[c]) /\ Head(feed[c]) = feed[c][1]
          /\ Len(feed'[c]) = Len(feed[c]) - 1 /\ Len(feed[c]) \in Nat
          /\ \A i \in 1..Len(feed'[c]) : i + 1 \in 1..Len(feed[c]) /\ feed'[c][i] = feed[c][i + 1]
      BY <1>4, UpdateFeed
    <3>3. ASSUME NEW i \in 1..Len(feed'[c])
          PROVE  shown'[c] <= feed'[c][i] /\ stored'[c] <= feed'[c][i]
      <4>1. /\ shown[c] <= feed[c][i + 1] /\ stored[c] <= feed[c][i + 1]
            /\ feed[c][1] <= feed[c][i + 1]
        BY <3>1, <3>2 DEF Ahead
      <4>. QED
        BY <1>4, <3>2, <4>1
    <3>4. ASSUME NEW i \in 1..Len(feed'[c]), NEW j \in 1..Len(feed'[c]), i <= j
          PROVE  feed'[c][i] <= feed'[c][j]
      BY <3>1, <3>2, <3>4 DEF Ahead
    <3>. QED
      BY <1>4, <2>2, <3>3, <3>4 DEF Ahead
  <2>. QED
    BY <2>1, <2>2
<1>5. ASSUME NEW c \in Conn, UpdateStored(c) \/ UpdateShown(c) \/ UpdateReleased(c) PROVE FeedOK'
  BY <1>4, <1>5 DEF UpdateStored, UpdateShown, UpdateReleased, Gone, TypeOK, TypeClient
<1>6. ASSUME NEW c \in Conn, Take(c) PROVE FeedOK'
  BY <1>6 DEF Take, FeedOK, Ahead, TypeOK, TypeClient
<1>7. ASSUME NEW c \in Conn, NotifyMax(c) \/ NotifyWake(c) \/ Open(c) \/ Release(c) PROVE FeedOK'
  BY <1>1, <1>7 DEF NotifyMax, NotifyWake, Open, Release, TypeOK, TypeClient
<1>8. ASSUME NEW t \in Tx, \/ CallLocal(t) \/ Process(t) \/ Refuse(t) \/ Reply(t)
                           \/ Dispatching(t) \/ \E c \in Conn : Invoke(t, c)
      PROVE  FeedOK'
  BY <1>1, <1>8 DEF CallLocal, Process, Refuse, Reply, Dispatching, Invoke, ReceiveError, Register,
                    CheckArrived, CheckNotArrived, WakeSynced, WakeShutDown, Finalize
<1>9. ASSUME StopSync \/ Unhost \/ UNCHANGED vars PROVE FeedOK'
  BY <1>1, <1>9 DEF StopSync, Unhost, vars
<1>. QED
  BY <1>2, <1>3a, <1>3, <1>5, <1>6, <1>7, <1>8, <1>9 DEF Next, Owner, Updating, Connecting

-------------------------------------------------------------------------------
(* What a call knows has arrived *)

\* Connection c was returned, released or not.
Made(c) == phase[c] = "open" \/ Gone(c)

\* The id of the writer is no newer than the value of the connection, and what
\* a call was woken for, or returned for, is in that value.
ShownOK ==
    /\ \A c \in Conn : IF Made(c)
                       THEN /\ current[c] <= MaxTx(shown[c])
                            /\ notify[c].at # "idle" => notify[c].value = shown[c]
                       ELSE current[c] = 0 /\ notify[c].at = "idle"
    /\ \A t \in Remote : Made(via[t])
    /\ \A t \in Tx : signal[t] = "synced" => t \in Remote /\ id[t] <= MaxTx(shown[via[t]])
    /\ \A t \in Remote : call[t] = "ok" => id[t] <= MaxTx(shown[via[t]])

\* Who waits is among the waiters, and will be woken if its id has arrived.
WaitOK ==
    \A t \in Tx :
        LET c == via[t]
        IN call[t] \in {"check", "parked"} /\ signal[t] = "none" /\ phase[c] = "open" /\ Distinct(t) =>
              /\ t \in pending[c]
              /\ call[t] = "parked" /\ Arrived(t) =>
                    notify[c].at = "wake" /\ MaxTx(notify[c].value) >= id[t]

IInv == TypeOK /\ ChainOK /\ StagesOK /\ FeedOK /\ ShownOK /\ WaitOK

\* Nobody else gets the id of a processed transaction back.
LEMMA DistinctKept ==
    ASSUME TypeOK, StagesOK, [Next]_vars, NEW t \in Tx, call[t] \notin Unprocessed, Distinct(t)'
    PROVE  Distinct(t)
<1>. SUFFICES ASSUME NEW u \in Tx \ {t}, id[u] = id[t] PROVE FALSE
  BY DEF Distinct
<1>1. id[t] >= 1 /\ id'[t] = id[t]
  BY IdsKept DEF StagesOK, Unprocessed
<1>2. call[u] # "sent" /\ id'[u] = id[u]
  BY <1>1, IdsKept DEF StagesOK, Unprocessed
<1>. QED
  BY <1>1, <1>2 DEF Distinct

\* Steps that leave the values of connections alone and wake nobody, and after
\* which nobody was told of success but who could be.
LEMMA ShownFrame ==
    ASSUME TypeOK, StagesOK, [Next]_vars, ShownOK,
           UNCHANGED <<notify, current>>,
           \A c \in Conn : (Made(c)' <=> Made(c)) /\ (Made(c) => shown'[c] = shown[c]),
           \A t \in Tx : signal'[t] = "synced" => signal[t] = "synced",
           \A t \in Tx : \/ via'[t] = via[t]
                         \/ call[t] = "none" /\ call'[t] # "ok" /\ Made(via'[t]) /\ via'[t] \in Conn,
           \A t \in Remote' : call'[t] = "ok" =>
               t \in Remote /\ call[t] # "sent" /\ id[t] <= MaxTx(shown[via[t]])
    PROVE  ShownOK'
<1>1. /\ \A t \in Tx : call[t] # "sent" => id'[t] = id[t]
      /\ \A v \in Values : MaxTx(v)' = MaxTx(v)
  BY IdsKept
<1>2. ASSUME NEW c \in Conn, Made(c)
      PROVE  shown'[c] = shown[c] /\ shown[c] \in Values /\ MaxTx(shown[c])' = MaxTx(shown[c])
  <2>1. shown[c] \in Values /\ shown'[c] = shown[c]
    BY <1>2 DEF Made, Gone, TypeOK, TypeClient
  <2>. QED
    BY <1>1, <2>1
<1>3. \A t \in Tx : call[t] \in Unprocessed => signal[t] = "none"
  BY DEF TypeOK, TypeCalls, Unprocessed
<1>4. \A t \in Remote : via[t] \in Conn
  BY DEF Remote, TypeOK, TypeCalls
<1>5. ASSUME NEW c \in Conn
      PROVE  IF Made(c)'
             THEN /\ current'[c] <= MaxTx(shown[c])'
                  /\ notify'[c].at # "idle" => notify'[c].value = shown'[c]
             ELSE current'[c] = 0 /\ notify'[c].at = "idle"
  BY <1>2 DEF ShownOK
<1>6. ASSUME NEW t \in Tx, t \in Remote' PROVE Made(via[t])'
  BY <1>4, <1>6 DEF ShownOK, Remote
<1>7. ASSUME NEW t \in Tx, signal'[t] = "synced"
      PROVE  t \in Remote' /\ id'[t] <= MaxTx(shown[via[t]])'
  <2>1. signal[t] = "synced" /\ call[t] \notin Unprocessed
    BY <1>3, <1>7
  <2>2. via'[t] = via[t] /\ id'[t] = id[t] /\ t \in Remote /\ t \in Remote'
    BY <1>1, <2>1 DEF Unprocessed, ShownOK, Remote
  <2>3. id[t] <= MaxTx(shown[via[t]]) /\ Made(via[t])
    BY <2>1, <2>2 DEF ShownOK
  <2>. QED
    BY <1>2, <1>4, <2>2, <2>3
<1>8. ASSUME NEW t \in Tx, t \in Remote', call'[t] = "ok"
      PROVE  id'[t] <= MaxTx(shown[via[t]])'
  <2>1. t \in Remote /\ call[t] # "sent" /\ id[t] <= MaxTx(shown[via[t]])
    BY <1>8
  <2>2. via'[t] = via[t] /\ id'[t] = id[t] /\ Made(via[t])
    BY <1>1, <1>8, <2>1 DEF ShownOK
  <2>. QED
    BY <1>2, <1>4, <2>1, <2>2
<1>. QED
  BY <1>5, <1>6, <1>7, <1>8 DEF ShownOK, Remote

LEMMA ShownNext == IInv /\ [Next]_vars => ShownOK'
<1>. SUFFICES ASSUME IInv, [Next]_vars PROVE ShownOK'
  OBVIOUS
<1>. USE DEF ownerVars, callVars, storeVars, connVars, writerVars
<1>1. TypeOK /\ TypeOK' /\ TypeOwner /\ ChainOK /\ StagesOK /\ FeedOK /\ ShownOK
  BY TypeNext DEF IInv, TypeOK
<1>2. /\ \A v \in Values : MaxTx(v) \in Nat /\ MaxTx(v)' = MaxTx(v)
      /\ \A c \in Conn : Made(c) => shown[c] \in Values
  BY <1>1, IdsKept, MaxTxType DEF Made, Gone, TypeOK, TypeClient
<1>3. ASSUME NEW t \in Tx, \/ CallLocal(t) \/ Process(t) \/ Refuse(t) \/ Reply(t)
                           \/ \E c \in Conn : Invoke(t, c)
      PROVE  ShownOK'
  <2>1. UNCHANGED <<phase, shown, notify, current, signal>>
    BY <1>3 DEF CallLocal, Process, Refuse, Reply, Invoke
  <2>2. \A u \in Tx : \/ via'[u] = via[u]
                      \/ call[u] = "none" /\ call'[u] # "ok" /\ Made(via'[u]) /\ via'[u] \in Conn
    BY <1>1, <1>3 DEF CallLocal, Process, Refuse, Reply, Invoke, Made, TypeOK, TypeCalls, TypeClient
  <2>3. \A u \in Remote' : call'[u] = "ok" => u \in Remote /\ call[u] = "ok"
    BY <1>1, <1>3 DEF CallLocal, Process, Refuse, Reply, Invoke, Remote, TypeOK, TypeCalls
  <2>4. \A u \in Remote' : call'[u] = "ok" =>
            u \in Remote /\ call[u] # "sent" /\ id[u] <= MaxTx(shown[via[u]])
    BY <1>1, <2>3 DEF ShownOK
  <2>5. \A c \in Conn : Made(c)' <=> Made(c)
    BY <2>1 DEF Made, Gone
  <2>. QED
    BY <1>1, <2>1, <2>2, <2>4, <2>5, ShownFrame
<1>4. ASSUME NEW t \in Tx, Dispatching(t) PROVE ShownOK'
  <2>1. UNCHANGED <<phase, shown, notify, current, signal, via>>
    BY <1>4 DEF Dispatching, ReceiveError, Register, CheckArrived, CheckNotArrived, WakeSynced,
                WakeShutDown, Finalize
  <2>2. CASE CheckArrived(t) \/ WakeSynced(t)
    <3>1. /\ call[t] \in {"check", "parked"} /\ (Arrived(t) \/ signal[t] = "synced")
          /\ \A u \in Tx \ {t} : call'[u] = call[u]
      BY <1>1, <2>2 DEF CheckArrived, WakeSynced, Finalize, TypeOK, TypeCalls
    <3>2. t \in Remote /\ via[t] \in Conn /\ Made(via[t]) /\ call[t] # "sent"
      BY <1>1, <2>2 DEF CheckArrived, WakeSynced, TypeOK, TypeCalls, Remote, ShownOK
    <3>3. id[t] <= MaxTx(shown[via[t]])
      <4>1. CASE signal[t] = "synced"
        BY <1>1, <4>1 DEF ShownOK
      <4>2. CASE Arrived(t)
        <5>1. current[via[t]] <= MaxTx(shown[via[t]]) /\ current[via[t]] >= id[t]
          BY <1>1, <3>2, <4>2 DEF ShownOK, Arrived
        <5>2. MaxTx(shown[via[t]]) \in Nat /\ current[via[t]] \in Nat /\ id[t] \in Nat
          BY <1>1, <1>2, <3>2 DEF TypeOK, TypeOwner, TypeCalls
        <5>. QED
          BY <5>1, <5>2
      <4>. QED
        BY <3>1, <4>1, <4>2
    <3>4. \A u \in Remote' : call'[u] = "ok" =>
              u \in Remote /\ call[u] # "sent" /\ id[u] <= MaxTx(shown[via[u]])
      BY <1>1, <2>1, <3>1, <3>2, <3>3 DEF ShownOK, Remote
    <3>5. \A c \in Conn : Made(c)' <=> Made(c)
      BY <2>1 DEF Made, Gone
    <3>. QED
      BY <1>1, <2>1, <3>4, <3>5, ShownFrame
  <2>3. CASE ReceiveError(t) \/ Register(t) \/ CheckNotArrived(t) \/ WakeShutDown(t)
    <3>1. \A u \in Remote' : call'[u] = "ok" => u \in Remote /\ call[u] = "ok"
      BY <1>1, <2>1, <2>3 DEF ReceiveError, Register, CheckNotArrived, WakeShutDown, Remote,
                              TypeOK, TypeCalls
    <3>2. \A u \in Remote' : call'[u] = "ok" =>
              u \in Remote /\ call[u] # "sent" /\ id[u] <= MaxTx(shown[via[u]])
      BY <1>1, <3>1 DEF ShownOK
    <3>3. \A c \in Conn : Made(c)' <=> Made(c)
      BY <2>1 DEF Made, Gone
    <3>. QED
      BY <1>1, <2>1, <3>2, <3>3, ShownFrame
  <2>. QED
    BY <1>4, <2>2, <2>3 DEF Dispatching
<1>5. ASSUME UNCHANGED <<notify, current, call, via>>,
             \A c \in Conn : (Made(c)' <=> Made(c)) /\ (Made(c) => shown'[c] = shown[c]),
             \A t \in Tx : signal'[t] = "synced" => signal[t] = "synced"
      PROVE  ShownOK'
  <2>1. \A u \in Remote' : call'[u] = "ok" =>
            u \in Remote /\ call[u] # "sent" /\ id[u] <= MaxTx(shown[via[u]])
    BY <1>1, <1>5 DEF ShownOK, Remote
  <2>. QED
    BY <1>1, <1>5, <2>1, ShownFrame
<1>6. ASSUME \/ \E k \in 1..Len(mem) : Commit(k)
             \/ StopSync \/ Unhost \/ UNCHANGED vars
      PROVE  ShownOK'
  BY <1>5, <1>6 DEF Commit, StopSync, Unhost, vars, Made, Gone
<1>7. ASSUME NEW c \in Conn, ReadCached(c) \/ Subscribe(c) \/ UpdateStored(c) \/ UpdateReleased(c) \/ Take(c)
      PROVE  ShownOK'
  <2>1. UNCHANGED <<notify, current, call, via, signal>>
    BY <1>7 DEF ReadCached, Subscribe, UpdateStored, UpdateReleased, Take
  <2>2. \A d \in Conn : (Made(d)' <=> Made(d)) /\ (Made(d) => shown'[d] = shown[d])
    BY <1>1, <1>7 DEF ReadCached, Subscribe, UpdateStored, UpdateReleased, Take, Made, Gone, TypeOK, TypeClient
  <2>. QED
    BY <1>5, <2>1, <2>2
<1>8. ASSUME NEW c \in Conn, Release(c) PROVE ShownOK'
  <2>1. UNCHANGED <<notify, current, call, via, shown>>
    BY <1>8 DEF Release
  <2>2. \A d \in Conn : Made(d)' <=> Made(d)
    BY <1>1, <1>8 DEF Release, Made, Gone, TypeOK, TypeClient
  <2>3. \A t \in Tx : signal'[t] = "synced" => signal[t] = "synced"
    BY <1>1, <1>8 DEF Release, ShutDown, Signalled, TypeOK, TypeCalls
  <2>. QED
    BY <1>5, <2>1, <2>2, <2>3<1>9. ASSUME NEW c \in Conn, UpdateShown(c) PROVE ShownOK'
  <2>1. /\ UNCHANGED <<phase, current, call, via, signal, id, log>>
        /\ phase[c] = "open" /\ Update(c)
        /\ shown' = [shown EXCEPT ![c] = Head(feed[c])]
        /\ notify' = [notify EXCEPT ![c] = [at |-> "max", value |-> Head(feed[c])]]
    BY <1>9 DEF UpdateShown, Update
  <2>2. /\ shown[c] \in Values /\ Head(feed[c]) \in Values /\ shown[c] <= Head(feed[c])
        /\ shown'[c] = Head(feed[c]) /\ \A d \in Conn \ {c} : shown'[d] = shown[d]
    <3>1. Head(feed[c]) = feed[c][1] /\ 1 \in 1..Len(feed[c]) /\ feed[c] \in Seq(Values)
      BY <1>1, <2>1, UpdateFeed
    <3>2. shown[c] <= feed[c][1] /\ feed[c][1] \in Values
      BY <1>1, <3>1 DEF FeedOK, Ahead
    <3>3. shown[c] \in Values /\ shown \in [Conn -> Values \cup {NoValue}]
      BY <1>1, <2>1 DEF TypeOK, TypeClient
    <3>. QED
      BY <2>1, <3>1, <3>2, <3>3
  <2>3. MaxTx(shown[c]) <= MaxTx(Head(feed[c]))
    BY <1>1, <2>2, MaxTxMonotone
  <2>4. \A d \in Conn : Made(d) => MaxTx(shown[d]) <= MaxTx(shown'[d]) /\ MaxTx(shown'[d]) \in Nat
                                   /\ MaxTx(shown[d]) \in Nat
    BY <1>2, <2>2, <2>3
  <2>5. \A v : MaxTx(v)' = MaxTx(v)
    BY <2>1 DEF MaxTx
  <2>6. \A d \in Conn : MaxTx(shown[d])' = MaxTx(shown'[d]) /\ (Made(d)' <=> Made(d))
    BY <2>1 DEF MaxTx, Made, Gone
  <2>7. Made(c) /\ current \in [Conn -> Nat] /\ id \in [Tx -> Nat]
    BY <1>1, <2>1 DEF Made, TypeOK, TypeCalls, TypeOwner
  <2>8. ASSUME NEW d \in Conn
        PROVE  IF Made(d)'
               THEN /\ current'[d] <= MaxTx(shown[d])'
                    /\ notify'[d].at # "idle" => notify'[d].value = shown'[d]
               ELSE current'[d] = 0 /\ notify'[d].at = "idle"
    <3>1. CASE Made(d)
      <4>1. current[d] <= MaxTx(shown[d])
        BY <1>1, <3>1 DEF ShownOK
      <4>2. current'[d] <= MaxTx(shown[d])'
        BY <2>1, <2>4, <2>6, <2>7, <3>1, <4>1
      <4>3. notify'[d].at # "idle" => notify'[d].value = shown'[d]
        BY <1>1, <2>1, <2>2, <3>1 DEF ShownOK, TypeOK, TypeClient
      <4>. QED
        BY <2>6, <3>1, <4>2, <4>3
    <3>2. CASE ~Made(d)
      BY <1>1, <2>1, <2>6, <2>7, <3>2 DEF ShownOK, TypeOK, TypeClient
    <3>. QED
      BY <3>1, <3>2
  <2>9. ASSUME NEW t \in Remote, id[t] <= MaxTx(shown[via[t]])
        PROVE  id[t] <= MaxTx(shown[via[t]])'
    <3>1. via[t] \in Conn /\ Made(via[t]) /\ id[t] \in Nat
      BY <1>1, <2>7 DEF Remote, ShownOK, TypeOK, TypeCalls
    <3>2. MaxTx(shown[via[t]])' = MaxTx(shown'[via[t]])
      BY <2>1, <3>1 DEF MaxTx
    <3>. QED
      BY <2>4, <2>9, <3>1, <3>2
  <2>10. Remote' = Remote /\ \A t \in Remote : Made(via[t])'
    <3>1. Remote' = Remote
      BY <2>1 DEF Remote
    <3>2. \A t \in Remote : Made(via[t])
      BY <1>1 DEF ShownOK
    <3>. QED
      BY <2>1, <3>1, <3>2 DEF Made, Gone
  <2>11. \A t \in Tx : signal'[t] = "synced" => t \in Remote' /\ id'[t] <= MaxTx(shown[via[t]])'
    BY <1>1, <2>1, <2>9, <2>10 DEF ShownOK
  <2>12. \A t \in Remote' : call'[t] = "ok" => id'[t] <= MaxTx(shown[via[t]])'
    BY <1>1, <2>1, <2>9, <2>10 DEF ShownOK
  <2>. QED
    BY <2>8, <2>10, <2>11, <2>12 DEF ShownOK
<1>10. ASSUME NEW c \in Conn, NotifyMax(c) \/ NotifyWake(c) \/ Open(c) PROVE ShownOK'
  <2>1. UNCHANGED <<shown, call, via, id, log>>
    BY <1>10 DEF NotifyMax, NotifyWake, Open
  <2>2. /\ Remote' = Remote
        /\ \A d \in Conn : MaxTx(shown[d])' = MaxTx(shown[d])
        /\ \A t \in Tx : MaxTx(shown[via[t]])' = MaxTx(shown[via[t]])
    BY <2>1 DEF Remote, MaxTx
  <2>3. /\ \A d \in Conn \ {c} : phase'[d] = phase[d] /\ current'[d] = current[d]
                                 /\ notify'[d] = notify[d]
        /\ \A d \in Conn : Made(d) => Made(d)'
    BY <1>1, <1>10 DEF NotifyMax, NotifyWake, Open, Made, Gone, TypeOK, TypeClient, TypeCalls
  <2>4. IF Made(c)'
        THEN /\ current'[c] <= MaxTx(shown[c])
             /\ notify'[c].at # "idle" => notify'[c].value = shown[c]
        ELSE current'[c] = 0 /\ notify'[c].at = "idle"
    <3>1. CASE NotifyMax(c)
      <4>1. Made(c) /\ notify[c].value = shown[c]
        BY <1>1, <3>1 DEF NotifyMax, ShownOK
      <4>2. MaxTx(shown[c]) \in Nat
        BY <1>2, <4>1
      <4>3. current'[c] = MaxTx(shown[c]) /\ notify'[c].value = notify[c].value
        BY <1>1, <3>1, <4>1 DEF NotifyMax, TypeOK, TypeCalls, TypeClient
      <4>. QED
        BY <2>3, <4>1, <4>2, <4>3
    <3>2. CASE NotifyWake(c)
      <4>1. Made(c) /\ current'[c] = current[c] /\ notify'[c].at = "idle"
        BY <1>1, <3>2 DEF NotifyWake, ShownOK, TypeOK, TypeClient
      <4>. QED
        BY <1>1, <2>3, <4>1 DEF ShownOK
    <3>3. CASE Open(c)
      <4>1. ~Made(c) /\ phase'[c] = "open" /\ shown[c] \in Values
        BY <1>1, <3>3 DEF Open, Made, Gone, TypeOK, TypeClient
      <4>2. current'[c] = 0 /\ notify'[c].at = "idle"
        BY <1>1, <3>3, <4>1 DEF Open, ShownOK
      <4>3. MaxTx(shown[c]) \in Nat /\ Made(c)'
        BY <1>2, <4>1 DEF Made
      <4>. QED
        BY <4>2, <4>3
    <3>. QED
      BY <1>10, <3>1, <3>2, <3>3
  <2>5. ASSUME NEW d \in Conn
        PROVE  IF Made(d)'
               THEN /\ current'[d] <= MaxTx(shown[d])'
                    /\ notify'[d].at # "idle" => notify'[d].value = shown'[d]
               ELSE current'[d] = 0 /\ notify'[d].at = "idle"
    <3>1. CASE d = c
      BY <2>1, <2>2, <2>4, <3>1
    <3>2. CASE d # c
      <4>1. Made(d)' <=> Made(d)
        BY <2>3, <3>2 DEF Made, Gone
      <4>. QED
        BY <1>1, <2>1, <2>2, <2>3, <3>2, <4>1 DEF ShownOK
    <3>. QED
      BY <3>1, <3>2
  <2>6. \A t \in Remote' : Made(via[t])'
    <3>1. \A t \in Remote : via[t] \in Conn /\ Made(via[t])
      BY <1>1 DEF ShownOK, Remote, TypeOK, TypeCalls
    <3>2. \A t \in Remote : Made(via[t])'
      BY <1>10, <1>1, <3>1 DEF NotifyMax, NotifyWake, Open, Made, Gone, TypeOK, TypeClient
    <3>. QED
      BY <2>2, <3>2
  <2>7. ASSUME NEW t \in Tx, signal'[t] = "synced"
        PROVE  t \in Remote /\ id[t] <= MaxTx(shown[via[t]])
    <3>1. CASE signal[t] = "synced"
      BY <1>1, <3>1 DEF ShownOK
    <3>2. CASE signal[t] # "synced"
      <4>1. t \in pending[c] /\ MaxTx(notify[c].value) >= id[t] /\ notify[c].at = "wake"
        BY <1>1, <1>10, <2>7, <3>2
           DEF NotifyMax, NotifyWake, Open, Signalled, Due, TypeOK, TypeCalls
      <4>2. via[t] = c /\ notify[c].value = shown[c]
        BY <1>1, <4>1 DEF ShownOK, TypeOK, TypeCalls
      <4>3. t \in Remote
        BY <4>2, ConnAssumption DEF Remote
      <4>4. MaxTx(shown[c]) \in Nat /\ id[t] \in Nat
        BY <1>1, <1>2, <4>1, <4>2 DEF TypeOK, TypeOwner, TypeClient
      <4>. QED
        BY <4>1, <4>2, <4>3, <4>4
    <3>. QED
      BY <3>1, <3>2
  <2>8. /\ \A t \in Tx : signal'[t] = "synced" => t \in Remote' /\ id'[t] <= MaxTx(shown[via[t]])'
        /\ \A t \in Remote' : call'[t] = "ok" => id'[t] <= MaxTx(shown[via[t]])'
    BY <1>1, <2>1, <2>2, <2>7 DEF ShownOK, Remote
  <2>. QED
    BY <2>5, <2>6, <2>8 DEF ShownOK
<1>. QED
  BY <1>3, <1>4, <1>6, <1>7, <1>8, <1>9, <1>10 DEF Next, Owner, Updating, Connecting

\* Where a call that waits comes from: it waited before, or its waiter is new.
LEMMA WaitedBefore ==
    ASSUME IInv, [Next]_vars, NEW t \in Tx, call'[t] \in {"check", "parked"}, signal'[t] = "none",
           phase'[via'[t]] = "open", ~Register(t)
    PROVE  /\ call[t] \in {"check", "parked"} /\ signal[t] = "none"
           /\ via'[t] = via[t] /\ via[t] \in Conn /\ phase[via[t]] = "open"
           /\ call'[t] = call[t] \/ CheckNotArrived(t)
<1>. USE DEF ownerVars, callVars, storeVars, connVars, writerVars
<1>1. TypeOK /\ ShownOK
  BY DEF IInv
<1>2. /\ call[t] \in {"check", "parked"} /\ signal[t] = "none" /\ via'[t] = via[t]
      /\ call'[t] = call[t] \/ CheckNotArrived(t)
  <2>1. call \in [Tx -> Stages] /\ signal \in [Tx -> {"none", "synced", "shutdown"}]
        /\ via \in [Tx -> Conn \cup {NoConn}]
    BY <1>1 DEF TypeOK, TypeCalls
  <2>2. ASSUME NEW u \in Tx, CallLocal(u) \/ Process(u) \/ Refuse(u) \/ Reply(u)
                             \/ \E c \in Conn : Invoke(u, c)
        PROVE  <1>2
    BY <2>1, <2>2 DEF CallLocal, Process, Refuse, Reply, Invoke
  <2>3. ASSUME NEW u \in Tx, Dispatching(u) PROVE <1>2
    <3>1. u # t \/ CheckNotArrived(t)
      BY <2>1, <2>3 DEF Dispatching, ReceiveError, CheckArrived, WakeSynced, WakeShutDown, Finalize
    <3>2. /\ signal' = signal /\ via' = via
          /\ \A w \in Tx \ {u} : call'[w] = call[w]
      BY <2>1, <2>3 DEF Dispatching, ReceiveError, Register, CheckArrived, CheckNotArrived,
                        WakeSynced, WakeShutDown, Finalize
    <3>. QED
      BY <3>1, <3>2 DEF CheckNotArrived
  <2>4. ASSUME NEW c \in Conn, \/ ReadCached(c) \/ Subscribe(c) \/ UpdateStored(c) \/ UpdateShown(c)
                               \/ UpdateReleased(c) \/ NotifyMax(c) \/ Take(c) \/ Open(c)
        PROVE  <1>2
    BY <2>4 DEF ReadCached, Subscribe, UpdateStored, UpdateShown, UpdateReleased, NotifyMax, Take, Open
  <2>5. ASSUME NEW c \in Conn, NotifyWake(c) \/ Release(c) PROVE <1>2
    <3>1. call' = call /\ via' = via /\ (signal'[t] = "none" => signal[t] = "none")
      BY <2>1, <2>5 DEF NotifyWake, Release, ShutDown, Signalled
    <3>. QED
      BY <3>1
  <2>6. ASSUME \/ \E k \in 1..Len(mem) : Commit(k)
               \/ StopSync \/ Unhost \/ UNCHANGED vars
        PROVE  <1>2
    BY <2>6 DEF Commit, StopSync, Unhost, vars
  <2>. QED
    BY <2>2, <2>3, <2>4, <2>5, <2>6 DEF Next, Owner, Updating, Connecting
<1>3. via[t] \in Conn /\ Made(via[t])
  BY <1>1, <1>2 DEF TypeOK, TypeCalls, Remote, ShownOK
<1>4. \A c \in Conn : Gone(c) => phase'[c] # "open"
  <2>1. phase \in [Conn -> {"new", "cached", "subscribed", "taken", "open", "released", "revived"}]
    BY <1>1 DEF TypeOK, TypeClient
  <2>2. CASE phase' = phase
    BY <2>2 DEF Gone
  <2>3. ASSUME NEW c \in Conn, \/ ReadCached(c) \/ Subscribe(c) \/ UpdateStored(c) \/ UpdateShown(c) \/ UpdateReleased(c)
                               \/ NotifyMax(c) \/ NotifyWake(c) \/ Take(c) \/ Open(c) \/ Release(c)
        PROVE  <1>4
    BY <2>1, <2>3 DEF ReadCached, Subscribe, UpdateStored, UpdateShown, UpdateReleased, NotifyMax, NotifyWake,
                      Take, Open, Release, Gone
  <2>4. ASSUME NEW u \in Tx, \/ CallLocal(u) \/ Process(u) \/ Refuse(u) \/ Reply(u)
                             \/ Dispatching(u) \/ \E c \in Conn : Invoke(u, c)
        PROVE  phase' = phase
    BY <2>4 DEF CallLocal, Process, Refuse, Reply, Invoke, Dispatching, ReceiveError, Register,
                CheckArrived, CheckNotArrived, WakeSynced, WakeShutDown, Finalize
  <2>5. ASSUME \/ \E k \in 1..Len(mem) : Commit(k)
               \/ StopSync \/ Unhost \/ UNCHANGED vars
        PROVE  phase' = phase
    BY <2>5 DEF Commit, StopSync, Unhost, vars
  <2>. QED
    BY <2>2, <2>3, <2>4, <2>5 DEF Next, Owner, Updating, Connecting
<1>. QED
  BY <1>2, <1>3, <1>4 DEF Made

LEMMA WaitNext == IInv /\ [Next]_vars => WaitOK'
<1>. SUFFICES ASSUME IInv, [Next]_vars, NEW t \in Tx, call'[t] \in {"check", "parked"},
                     signal'[t] = "none", phase'[via'[t]] = "open", Distinct(t)'
              PROVE  /\ t \in pending'[via'[t]]
                     /\ call'[t] = "parked" /\ Arrived(t)' =>
                           /\ notify'[via'[t]].at = "wake"
                           /\ MaxTx(notify[via[t]].value)' >= id'[t]
  BY DEF WaitOK
<1>. USE DEF ownerVars, callVars, storeVars, connVars, writerVars
<1>1. TypeOK /\ TypeOK' /\ StagesOK /\ ShownOK /\ WaitOK
  BY TypeNext DEF IInv
<1>2. /\ call \in [Tx -> Stages] /\ pending \in [Conn -> SUBSET Tx]
      /\ signal \in [Tx -> {"none", "synced", "shutdown"}] /\ via \in [Tx -> Conn \cup {NoConn}]
      /\ current \in [Conn -> Nat]
      /\ notify \in [Conn -> [at : {"idle", "max", "wake"}, value : Values]]
  BY <1>1 DEF TypeOK, TypeCalls, TypeClient
<1>3. CASE Register(t)
  <2>1. call'[t] = "check" /\ via'[t] = via[t] /\ via[t] \in Conn
        /\ pending' = [pending EXCEPT ![via[t]] = Waiting(t)]
    BY <1>1, <1>2, <1>3 DEF Register, TypeOK, TypeCalls, Remote
  <2>. QED
    BY <1>2, <2>1 DEF Waiting
<1>4. CASE ~Register(t)
  <2> DEFINE c == via[t]
  <2>1. /\ call[t] \in {"check", "parked"} /\ signal[t] = "none"
        /\ via'[t] = c /\ c \in Conn /\ phase[c] = "open"
        /\ call'[t] = call[t] \/ CheckNotArrived(t)
    BY <1>4, WaitedBefore
  <2>2. Distinct(t) /\ id'[t] = id[t]
    BY <1>1, <2>1, DistinctKept, IdsKept DEF Unprocessed
  <2>3. /\ t \in pending[c]
        /\ call[t] = "parked" /\ Arrived(t) =>
              notify[c].at = "wake" /\ MaxTx(notify[c].value) >= id[t]
    BY <1>1, <2>1, <2>2 DEF WaitOK
  <2>4. ASSUME notify'[c] = notify[c], current'[c] = current[c], call'[t] = "parked", Arrived(t)'
        PROVE  notify'[c].at = "wake" /\ MaxTx(notify[via[t]].value)' >= id'[t]
    <3>1. Arrived(t)
      BY <2>1, <2>2, <2>4 DEF Arrived
    <3>2. call[t] = "parked"
      BY <2>1, <2>4, <3>1 DEF CheckNotArrived
    <3>3. notify[c].value \in Values /\ MaxTx(notify[c].value)' = MaxTx(notify[c].value)
      <4>1. notify[c].value \in Values
        BY <1>2, <2>1
      <4>2. notify'[c].value = notify[c].value
        BY <2>4
      <4>3. \A v \in Values : MaxTx(v)' = MaxTx(v)
        BY <1>1, IdsKept
      <4>. QED
        BY <2>1, <4>1, <4>2, <4>3
    <3>. QED
      BY <2>1, <2>2, <2>3, <2>4, <3>1, <3>2, <3>3
  <2>5. ASSUME NEW u \in Tx, \/ CallLocal(u) \/ Process(u) \/ Refuse(u) \/ Reply(u)
                             \/ Dispatching(u) \/ \E d \in Conn : Invoke(u, d)
        PROVE  /\ notify'[c] = notify[c] /\ current'[c] = current[c]
               /\ t \in pending'[c]
    <3>1. notify' = notify /\ current' = current
      BY <2>5 DEF CallLocal, Process, Refuse, Reply, Dispatching, Invoke, ReceiveError, Register,
                  CheckArrived, CheckNotArrived, WakeSynced, WakeShutDown, Finalize
    <3>2. CASE Register(u) \/ Finalize(u)
      <4>1. u # t
        BY <1>2, <1>4, <2>1, <3>2 DEF Register, Finalize, CheckNotArrived
      <4>2. t \in pending[via[u]] => t \in Others(u)
        BY <2>2, <4>1 DEF Others, Distinct
      <4>. QED
        <5>1. PICK S : pending' = [pending EXCEPT ![via[u]] = S] /\ Others(u) \subseteq S
          BY <3>2 DEF Register, Finalize, Waiting
        <5>. QED
          BY <1>2, <2>1, <2>3, <3>1, <4>2, <5>1
    <3>3. CASE \/ CallLocal(u) \/ Process(u) \/ Refuse(u) \/ Reply(u) \/ ReceiveError(u)
               \/ CheckNotArrived(u) \/ WakeShutDown(u) \/ \E d \in Conn : Invoke(u, d)
      BY <2>3, <3>1, <3>3 DEF CallLocal, Process, Refuse, Reply, ReceiveError, CheckNotArrived,
                              WakeShutDown, Invoke
    <3>. QED
      BY <2>5, <3>2, <3>3 DEF Dispatching, CheckArrived, WakeSynced
  <2>6. ASSUME NEW d \in Conn, \/ ReadCached(d) \/ Subscribe(d) \/ UpdateStored(d) \/ UpdateReleased(d) \/ Take(d)
                               \/ Open(d) \/ Release(d)
        PROVE  /\ notify'[c] = notify[c] /\ current'[c] = current[c]
               /\ t \in pending'[c]
    <3>1. notify' = notify /\ current' = current
      BY <2>6 DEF ReadCached, Subscribe, UpdateStored, UpdateReleased, Take, Open, Release
    <3>2. CASE pending' = pending
      BY <2>3, <3>1, <3>2
    <3>3. CASE Release(d) /\ ShutDown(d)
      <4>1. d # c
        BY <1>2, <2>1, <2>3, <3>3 DEF ShutDown, Signalled
      <4>. QED
        BY <1>2, <2>3, <3>1, <3>3, <4>1 DEF ShutDown
    <3>. QED
      BY <2>6, <3>2, <3>3 DEF ReadCached, Subscribe, UpdateStored, UpdateReleased, Take, Open, Release
  <2>7. ASSUME \/ \E k \in 1..Len(mem) : Commit(k)
               \/ StopSync \/ Unhost \/ UNCHANGED vars
        PROVE  /\ notify'[c] = notify[c] /\ current'[c] = current[c]
               /\ t \in pending'[c]
    BY <2>3, <2>7 DEF Commit, StopSync, Unhost, vars
  <2>8. ASSUME NEW d \in Conn, UpdateShown(d) \/ NotifyMax(d) \/ NotifyWake(d)
        PROVE  /\ t \in pending'[c]
               /\ \/ notify'[c] = notify[c] /\ current'[c] = current[c]
                  \/ call'[t] = "parked" /\ Arrived(t)' =>
                        notify'[c].at = "wake" /\ MaxTx(notify[via[t]].value)' >= id'[t]
    <3>1. t \in pending'[c] /\ call' = call /\ id' = id /\ log' = log
      BY <2>3, <2>8 DEF UpdateShown, NotifyMax, NotifyWake, Update
    <3>2. CASE d # c
      BY <1>2, <2>1, <2>8, <3>1, <3>2 DEF UpdateShown, NotifyMax, NotifyWake
    <3>3. CASE d = c /\ UpdateShown(c)
      <4>1. notify[c].at = "idle" /\ current' = current
        BY <3>3 DEF UpdateShown, Update
      <4>2. ~(call[t] = "parked" /\ Arrived(t))
        BY <2>3, <4>1
      <4>. QED
        BY <2>1, <3>1, <4>1, <4>2 DEF Arrived
    <3>4. CASE d = c /\ NotifyMax(c)
      <4>1. /\ current'[c] = MaxTx(notify[c].value)
            /\ notify'[c].at = "wake" /\ notify'[c].value = notify[c].value
        BY <1>2, <2>1, <3>4 DEF NotifyMax
      <4>2. MaxTx(notify[via[t]].value)' = MaxTx(notify[c].value)
        BY <2>1, <3>1, <4>1 DEF MaxTx
      <4>. QED
        BY <2>1, <3>1, <4>1, <4>2 DEF Arrived
    <3>5. CASE d = c /\ NotifyWake(c)
      <4>1. t \notin Due(c, notify[c].value)
        BY <1>2, <2>1, <3>5 DEF NotifyWake, Signalled
      <4>2. ~(call[t] = "parked" /\ Arrived(t))
        BY <2>3, <4>1 DEF Due
      <4>3. current' = current
        BY <3>5 DEF NotifyWake
      <4>. QED
        BY <2>1, <3>1, <4>2, <4>3 DEF Arrived
    <3>. QED
      BY <2>8, <3>2, <3>3, <3>4, <3>5
  <2>9. /\ t \in pending'[c]
        /\ \/ notify'[c] = notify[c] /\ current'[c] = current[c]
           \/ call'[t] = "parked" /\ Arrived(t)' =>
                 notify'[c].at = "wake" /\ MaxTx(notify[via[t]].value)' >= id'[t]
    BY <2>5, <2>6, <2>7, <2>8 DEF Next, Owner, Updating, Connecting
  <2>. QED
    BY <2>1, <2>4, <2>9
<1>. QED
  BY <1>3, <1>4

LEMMA InvInit == Init => IInv
<1>. SUFFICES ASSUME Init PROVE IInv
  OBVIOUS
<1>1. TypeOK
  BY TypeInit
<1>2. log = <<>> /\ mem = <<>> /\ Len(log) = 0 /\ Len(mem) = 0 /\ Total = 0
  BY DEF Init, Total
<1>3. ChainOK
  BY <1>2 DEF ChainOK
<1>4. StagesOK
  BY <1>2 DEF Init, StagesOK, Unprocessed
<1>5. \A c \in Conn : feed[c] = <<>> /\ ~Made(c)
  BY DEF Init, Made, Gone
<1>6. FeedOK
  BY <1>5 DEF FeedOK, Ahead
<1>7. ShownOK /\ WaitOK
  BY <1>5 DEF Init, ShownOK, WaitOK, Remote
<1>. QED
  BY <1>1, <1>3, <1>4, <1>6, <1>7 DEF IInv

LEMMA InvNext == IInv /\ [Next]_vars => IInv'
  BY TypeNext, ChainNext, FeedNext, ShownNext, WaitNext DEF IInv

LEMMA InvCorrect == Spec => []IInv
  BY InvInit, InvNext, PTL DEF Spec

\* What has an id that arrived, and shares it with nobody, has arrived.
LEMMA ArrivedIsIn ==
    ASSUME TypeOwner, ChainOK, StagesOK, NEW t \in Tx, call[t] \notin Unprocessed \cup {"server"},
           NEW v \in Values, id[t] <= MaxTx(v), Distinct(t)
    PROVE  In(t, v)
<1>1. PICK i \in 1..Newest : log[i] = t
  BY DEF StagesOK, In
<1>2. v \in 1..Newest /\ MaxTx(v) = id[log[v]]
  <2>1. id[t] >= 1 /\ id[t] \in Nat
    BY DEF StagesOK, TypeOwner
  <2>2. v # 0
    BY <2>1 DEF MaxTx
  <2>. QED
    BY <2>2, AtTypes DEF MaxTx, Values, Newest
<1>3. CASE i <= v
  BY <1>1, <1>2, <1>3, AtTypes DEF In, Newest
<1>4. CASE i > v
  <2>1. At(v) = log[v] /\ At(i) = log[i] /\ v \in 1..Total /\ i \in 1..Total
    BY <1>1, <1>2, AtTypes DEF Newest
  <2>2. id[log[v]] <= id[log[i]] /\ log[v] # log[i]
    BY <1>1, <1>2, <1>4, <2>1, AtTypes DEF ChainOK, Newest
  <2>3. id[log[v]] = id[t] /\ log[v] \in Tx
    BY <1>1, <1>2, <2>1, <2>2, AtTypes DEF TypeOwner
  <2>. QED
    BY <1>1, <2>2, <2>3 DEF Distinct
<1>. QED
  BY <1>1, <1>2, <1>3, <1>4, AtTypes DEF Newest

\* A remote caller finds its transaction in the connection, in whichever order
\* replies and updates came, and however many calls wait.
THEOREM RemoteReadsSeeWrites == Spec => []ReadYourWrites
<1>1. IInv => ReadYourWrites
  <2>. SUFFICES ASSUME IInv, NEW t \in Tx, t \in Remote, call[t] = "ok", phase[via[t]] = "open",
                       Distinct(t)
                PROVE  In(t, shown[via[t]])
    BY DEF ReadYourWrites
  <2>1. shown[via[t]] \in Values
    <3>1. via[t] \in Conn /\ TypeClient
      BY DEF IInv, TypeOK, TypeCalls, Remote
    <3>. QED
      BY <3>1 DEF TypeClient
  <2>2. id[t] <= MaxTx(shown[via[t]])
    BY DEF IInv, ShownOK
  <2>. QED
    BY <2>1, <2>2, ArrivedIsIn DEF IInv, TypeOK, Unprocessed
<1>. QED
  BY <1>1, InvCorrect, PTL

\* No wake-up is lost: a call is registered, or woken, or about to be.
THEOREM NoWakeUpLost == Spec => []WaiterKnown
<1>1. IInv => WaiterKnown
  <2>. SUFFICES ASSUME IInv, NEW t \in Tx, call[t] = "parked", signal[t] = "none",
                       phase[via[t]] = "open", Distinct(t)
                PROVE  /\ t \in pending[via[t]]
                       /\ Arrived(t) => /\ notify[via[t]].at = "wake"
                                        /\ t \in Due(via[t], notify[via[t]].value)
    BY DEF WaiterKnown
  <2>. QED
    BY DEF IInv, WaitOK, Due
<1>. QED
  BY <1>1, InvCorrect, PTL

-------------------------------------------------------------------------------
(* The promise of DurableLog *)

LEMMA DurableInit == Init => DL!DLInit
  BY DEF Init, DL!DLInit, Told, Outcomes

\* A step of one call changes what its caller was told, and nobody else's.
LEMMA ToldStep ==
    ASSUME TypeOK, NEW t \in Tx, NEW stage, call' = [call EXCEPT ![t] = stage]
    PROVE  [u \in Tx |-> Told(call[u])]'
               = [[u \in Tx |-> Told(call[u])] EXCEPT ![t] = Told(stage)]
<1>1. call \in [Tx -> Stages]
  BY DEF TypeOK, TypeCalls
<1>2. \A u \in Tx : call'[u] = IF u = t THEN stage ELSE call[u]
  BY <1>1
<1>3. \A u \in Tx : Told(call'[u]) = IF u = t THEN Told(stage) ELSE Told(call[u])
  BY <1>2
<1>4. [u \in Tx |-> Told(call'[u])]
         = [[u \in Tx |-> Told(call[u])] EXCEPT ![t] = Told(stage)]
  BY <1>3, Zenon
<1>. QED
  BY <1>4 DEF Told

\* What a commit adds to the log was waiting there.
LEMMA CommitExtends ==
    ASSUME IInv, IInv', NEW k \in 1..Len(mem), Commit(k)
    PROVE  DL!Extend
<1>1. TypeOwner /\ StagesOK /\ TypeOwner' /\ ChainOK' /\ call' = call
  BY DEF IInv, TypeOK, Commit, callVars
<1>2. /\ log \in Seq(Tx) /\ mem \in Seq(Tx) /\ log' \in Seq(Tx) /\ Len(log') = Len(log) + k
      /\ Len(log) \in Nat /\ Len(mem) \in Nat /\ k \in Nat /\ k >= 1
      /\ \A i \in 1..Len(log') : log'[i] = IF i <= Len(log) THEN log[i] ELSE mem[i - Len(log)]
  <2>1. /\ log \in Seq(Tx) /\ mem \in Seq(Tx) /\ log' \in Seq(Tx)
        /\ Len(log) \in Nat /\ Len(mem) \in Nat /\ k \in Nat /\ k >= 1
    BY <1>1 DEF TypeOwner
  <2>2. /\ Len(log') = Len(log) + k
        /\ \A i \in 1..Len(log') : log'[i] = IF i <= Len(log) THEN log[i] ELSE mem[i - Len(log)]
    BY <1>1, CommitSeqs
  <2>. QED
    BY <2>1, <2>2
<1>3. DL!IsStrictPrefix(log, log')
  <2>1. \A i \in 1..Len(log) : log'[i] = log[i]
    BY <1>2
  <2>2. SubSeq(log, 1, Len(log)) = SubSeq(log', 1, Len(log))
    BY <1>2, <2>1
  <2>. QED
    BY <1>2, <2>2 DEF DL!IsStrictPrefix, DL!IsPrefix
<1>4. DL!IsInjective(log')
  <2>1. DOMAIN log' = 1..Len(log')
    BY <1>2
  <2>2. ASSUME NEW i \in 1..Len(log'), NEW j \in 1..Len(log'), log'[i] = log'[j] PROVE i = j
    <3>1. Len(log') \in Nat /\ Len(mem') \in Nat
      BY <1>1 DEF TypeOwner
    <3>2. At(i)' = log'[i] /\ At(j)' = log'[j] /\ i \in 1..Total' /\ j \in 1..Total'
      BY <2>2, <3>1 DEF At, Total
    <3>. QED
      BY <1>1, <2>2, <3>2 DEF ChainOK
  <2>. QED
    BY <2>1, <2>2 DEF DL!IsInjective
<1>5. ASSUME NEW i \in Len(log)+1..Len(log')
      PROVE  /\ log'[i] \in Tx \ {}
             /\ [t \in Tx |-> Told(call[t])][log'[i]] \in {"waiting", "failed"}
  <2>1. i - Len(log) \in 1..Len(mem) /\ log'[i] = mem[i - Len(log)] /\ log'[i] \in Tx
    BY <1>2
  <2>2. call[log'[i]] = "server"
    BY <1>1, <2>1 DEF StagesOK
  <2>. QED
    BY <2>1, <2>2 DEF Told, Outcomes
<1>6. [t \in Tx |-> Told(call[t])]' = [t \in Tx |-> Told(call[t])]
  BY <1>1 DEF Told
<1>. QED
  BY <1>3, <1>4, <1>5, <1>6 DEF DL!Extend

LEMMA DurableStep == IInv /\ IInv' /\ [Next]_vars => [DL!DLNext]_(DL!dlvars)
<1>. SUFFICES ASSUME IInv, IInv', [Next]_vars PROVE [DL!DLNext]_(DL!dlvars)
  OBVIOUS
<1>. USE DEF ownerVars, callVars, storeVars, connVars, writerVars
<1>1. TypeOK /\ TypeOwner /\ ChainOK /\ StagesOK
  BY DEF IInv, TypeOK
<1>2. ASSUME log' = log, call' = call PROVE UNCHANGED DL!dlvars
  BY <1>2 DEF DL!dlvars
<1>3. ASSUME NEW t \in Tx, NEW stage, log' = log, call' = [call EXCEPT ![t] = stage],
             \/ /\ call[t] = "none" /\ stage = "sent"
             \/ /\ call[t] = "sent" /\ stage \in {"server", "error"}
      PROVE  DL!Ask(t)
  BY <1>1, <1>3, ToldStep DEF DL!Ask, Told, Outcomes
<1>4. ASSUME NEW t \in Tx, NEW stage, log' = log, call' = [call EXCEPT ![t] = stage],
             call[t] \in {"server", "report", "check", "parked"}, stage = "ok", In(t, Newest)
      PROVE  DL!Acknowledge(t)
  <2>1. \E i \in DOMAIN log : log[i] = t
    <3>1. PICK i \in 1..Newest : log[i] = t
      BY <1>4 DEF In
    <3>2. DOMAIN log = 1..Len(log)
      BY <1>1 DEF TypeOwner
    <3>. QED
      BY <3>1, <3>2 DEF Newest
  <2>. QED
    BY <1>1, <1>4, <2>1, ToldStep DEF DL!Acknowledge, Told, Outcomes
<1>5. ASSUME NEW t \in Tx, log' = log, call' = [call EXCEPT ![t] = "failed"],
             call[t] \in {"server", "report", "check", "parked"}
      PROVE  DL!GiveUp(t)
  BY <1>1, <1>5, ToldStep DEF DL!GiveUp, Told, Outcomes
<1>6. ASSUME NEW t \in Tx, ReceiveError(t) PROVE DL!Reject(t)
  <2>1. \A i \in DOMAIN log : log[i] # t
    <3>1. DOMAIN log = 1..Len(log) /\ call[t] = "error"
      BY <1>1, <1>6 DEF TypeOwner, ReceiveError
    <3>. QED
      BY <1>1, <3>1 DEF StagesOK, Unprocessed
  <2>2. log' = log /\ call' = [call EXCEPT ![t] = "rejected"] /\ call[t] = "error"
    BY <1>6 DEF ReceiveError
  <2>. QED
    BY <1>1, <2>1, <2>2, ToldStep DEF DL!Reject, Told, Outcomes
<1>7. ASSUME NEW t \in Tx, NEW stage, log' = log, call' = [call EXCEPT ![t] = stage],
             call[t] \in {"server", "report", "check"}, stage \in {"report", "check", "parked"}
      PROVE  UNCHANGED DL!dlvars
  BY <1>1, <1>7, ToldStep DEF DL!dlvars, Told, Outcomes
<1>8. ASSUME NEW t \in Tx, Finalize(t), call[t] \in {"check", "parked"}
      PROVE  DL!Acknowledge(t) \/ DL!GiveUp(t)
  <2>1. In(t, Newest) /\ log' = log
    BY <1>1, <1>8 DEF StagesOK, Unprocessed, Finalize
  <2>2. \/ call' = [call EXCEPT ![t] = "ok"]
        \/ call' = [call EXCEPT ![t] = "failed"]
    BY <1>8 DEF Finalize
  <2>. QED
    BY <1>4, <1>5, <1>8, <2>1, <2>2
<1>9. ASSUME NEW t \in Tx, \/ CallLocal(t) \/ Process(t) \/ Refuse(t) \/ Reply(t)
                           \/ Dispatching(t) \/ \E c \in Conn : Invoke(t, c)
      PROVE  [DL!DLNext]_(DL!dlvars)
  <2>1. CASE CallLocal(t) \/ Process(t) \/ Refuse(t) \/ \E c \in Conn : Invoke(t, c)
    BY <1>3, <2>1 DEF CallLocal, Process, Refuse, Invoke, DL!DLNext
  <2>2. CASE Reply(t)
    BY <1>4, <1>7, <2>2 DEF Reply, Durable, DL!DLNext
  <2>3. CASE Register(t) \/ CheckNotArrived(t)
    BY <1>7, <2>3 DEF Register, CheckNotArrived
  <2>4. CASE CheckArrived(t) \/ WakeSynced(t)
    BY <1>8, <2>4 DEF CheckArrived, WakeSynced, DL!DLNext
  <2>5. CASE WakeShutDown(t)
    BY <1>5, <2>5 DEF WakeShutDown, DL!DLNext
  <2>6. CASE ReceiveError(t)
    BY <1>6, <2>6 DEF DL!DLNext
  <2>. QED
    BY <1>9, <2>1, <2>2, <2>3, <2>4, <2>5, <2>6 DEF Dispatching
<1>10. ASSUME NEW k \in 1..Len(mem), Commit(k) PROVE [DL!DLNext]_(DL!dlvars)
  BY <1>10, CommitExtends DEF DL!DLNext
<1>11. ASSUME NEW c \in Conn, ReadCached(c) \/ Subscribe(c) \/ Updating(c) \/ Connecting(c) \/ Release(c)
       PROVE  log' = log /\ call' = call
  BY <1>11 DEF ReadCached, Subscribe, Updating, UpdateStored, UpdateShown, UpdateReleased, NotifyMax,
               NotifyWake, Connecting, Take, Open, Release
<1>12. ASSUME StopSync \/ Unhost \/ UNCHANGED vars PROVE log' = log /\ call' = call
  BY <1>12 DEF StopSync, Unhost, vars
<1>. QED
  BY <1>2, <1>9, <1>10, <1>11, <1>12 DEF Next, Owner

\* Kabel keeps the promise of the local writer to every caller, remote or not:
\* its steps are steps of DurableLog, or change nothing there.
THEOREM KabelDurable == Spec => ImplementsDurableLog
<1>. QED
  BY DurableInit, DurableStep, InvCorrect, PTL DEF Spec, ImplementsDurableLog, DL!DLSpec

===============================================================================
