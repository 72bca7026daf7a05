---------------------------- MODULE SessionsProofs ----------------------------
(***************************************************************************)
(* What is true of Sessions for any set of callers and transactions and    *)
(* any number of connections.  However calls overlap: the types, that the  *)
(* registry keeps no released connection, and that a caller finds in its   *)
(* connection what it was told is done.  With one writer at a time: that   *)
(* nothing acknowledged is lost.  When calls do not overlap: that the      *)
(* registry counts who holds its connection, and that there is one writer  *)
(* at a time.                                                              *)
(***************************************************************************)
EXTENDS Sessions, FiniteSetTheorems, TLAPS

\* An entry of the registry has a connection.
RegistryOK == registry \in [conn : Nat, count : Int] /\ (Registered => registry.conn # 0)

\* A caller that will shut down a writer holds its connection.
ThenOK == \A p \in Caller : call[p].then = "shutdown" => mine[p] # 0

\* What a connection shows, its branch key was set to, and that its writer has
\* in memory.
Ordered(c) == /\ Range(c.shown) \subseteq Range(c.landed)
              /\ Range(c.landed) \subseteq Range(c.mem)
WritersOrdered == \A c \in 1..Len(conns) : Ordered(conns[c])

\* Transactions that wait, or were done, went through a connection.
AskedVia == \A t \in Tx : answer[t] \in {"waiting", "ok"} => via[t] # 0

Types == TypeOK /\ RegistryOK /\ ThenOK
Answers == WritersOrdered /\ AskedVia /\ ReadYourWrites
IInv == Types /\ RegisteredOpen /\ Answers

-------------------------------------------------------------------------------
(* Types *)

SeenSteps == {"count", "check", "inc", "reset", "dissoc"}

LEMMA InitTypes == Init => Types
<1> SUFFICES ASSUME Init PROVE Types
  OBVIOUS
<1>1. NoCall \in Calls
  <2>1. <<>> \in Seq(Tx)
    OBVIOUS
  <2>. QED
    BY <2>1 DEF NoCall, NewCall, Calls
<1>2. conns \in Seq(Writers) /\ Len(conns) = 0 /\ head \in Seq(Tx)
  BY DEF Init
<1>3. call \in [Caller -> Calls] /\ mine \in [Caller -> 0..Len(conns)]
  BY <1>1, <1>2 DEF Init
<1>4. \A p \in Caller : call[p] = NoCall /\ mine[p] = 0
  BY DEF Init
<1>5. registry = None /\ registry \in [conn : Nat, count : Int] /\ registry.conn = 0
  BY DEF Init, None
<1>6. \A p \in Caller : call[p].seen = 0 /\ call[p].step = "idle"
  BY <1>4 DEF NoCall, NewCall
<1>7. /\ answer \in [Tx -> {"none", "waiting", "ok", "failed"}]
      /\ via \in [Tx -> 0..Len(conns)]
  BY <1>2 DEF Init
<1>8. TypeOK
  <2>1. registry.conn \in 0..Len(conns) /\ registry.count \in Int
    BY <1>2, <1>5
  <2>. QED
    BY <1>2, <1>3, <1>6, <1>7, <2>1 DEF Init, TypeOK
<1>9. RegistryOK /\ ThenOK
  BY <1>4, <1>5 DEF RegistryOK, ThenOK, Registered, NoCall, NewCall
<1>. QED
  BY <1>8, <1>9 DEF Types

\* A step of one caller.
LEMMA CallTypes ==
    ASSUME Types, NEW p \in Caller, NEW k \in Calls, NEW m \in 0..Len(conns'),
           call' = [call EXCEPT ![p] = k], mine' = [mine EXCEPT ![p] = m],
           k.seen \in 0..Len(conns'), k.step \in SeenSteps => k.seen # 0,
           k.then = "shutdown" \/ k.step = "shutdown" => m # 0,
           conns' \in Seq(Writers), Len(conns) <= Len(conns'),
           registry' \in [conn : 0..Len(conns'), count : Int],
           registry' # None => registry'.conn # 0,
           UNCHANGED <<head, answer, via>>, exists' \in BOOLEAN,
           forced' \in BOOLEAN, disturbed' \in BOOLEAN, rivals' \in BOOLEAN
    PROVE  Types'
<1>1. Len(conns) \in Nat /\ Len(conns') \in Nat
  BY DEF Types, TypeOK
<1>2. 0..Len(conns) \subseteq 0..Len(conns')
  BY <1>1
<1>3. call' \in [Caller -> Calls] /\ mine' \in [Caller -> 0..Len(conns')]
  BY <1>2 DEF Types, TypeOK
<1>4. \A q \in Caller : /\ call'[q] = IF q = p THEN k ELSE call[q]
                        /\ mine'[q] = IF q = p THEN m ELSE mine[q]
  BY DEF Types, TypeOK
<1>5. \A q \in Caller : /\ call'[q].seen \in 0..Len(conns')
                        /\ call'[q].step \in SeenSteps => call'[q].seen # 0
                        /\ call'[q].step = "shutdown" => mine'[q] # 0
                        /\ call'[q].then = "shutdown" => mine'[q] # 0
  BY <1>2, <1>4 DEF Types, TypeOK, ThenOK, SeenSteps
<1>6. via' \in [Tx -> 0..Len(conns')]
  BY <1>2 DEF Types, TypeOK
<1>7. registry'.conn \in 0..Len(conns') /\ registry'.count \in Int
  OBVIOUS
<1>8. TypeOK'
  BY <1>3, <1>5, <1>6, <1>7 DEF Types, TypeOK, SeenSteps
<1>9. RegistryOK' /\ ThenOK'
  BY <1>1, <1>5 DEF RegistryOK, ThenOK, Registered, None
<1>. QED
  BY <1>8, <1>9 DEF Types

\* A step of a writer, which changes its own connection and answers.
LEMMA WriterTypes ==
    ASSUME Types, NEW c \in DOMAIN conns, NEW w \in Writers,
           conns' = [conns EXCEPT ![c] = w],
           answer' \in [Tx -> {"none", "waiting", "ok", "failed"}],
           head' \in Seq(Tx),
           UNCHANGED <<registry, exists, call, mine, via, forced, disturbed, rivals>>
    PROVE  Types'
<1>1. conns' \in Seq(Writers) /\ Len(conns') = Len(conns)
  BY DEF Types, TypeOK
<1>2. TypeOK'
  BY <1>1 DEF Types, TypeOK
<1>3. RegistryOK' /\ ThenOK'
  BY DEF Types, RegistryOK, ThenOK, Registered, None
<1>. QED
  BY <1>2, <1>3 DEF Types

-------------------------------------------------------------------------------
(* The calls *)

Steps == {"idle", "count", "check", "load", "make", "entry", "entryAll", "dec",
          "decAll", "lookup", "inc", "reset", "dissoc", "shutdown", "drop"}

\* What most steps do to the registry.
EntryKept == \/ registry' = registry
             \/ registry' = None
             \/ Registered /\ registry' \in [conn : {registry.conn}, count : Int]

LEMMA EntryKeptTypes ==
    ASSUME Types, EntryKept
    PROVE  /\ registry' \in [conn : 0..Len(conns), count : Int]
           /\ registry' # None => Registered /\ registry'.conn = registry.conn
           /\ registry' # None => registry'.conn # 0
<1>1. /\ registry \in [conn : 0..Len(conns), count : Int]
      /\ None \in [conn : 0..Len(conns), count : Int]
      /\ Registered => registry.conn # 0
  BY DEF Types, TypeOK, RegistryOK, None
<1>. QED
  BY <1>1 DEF EntryKept, Registered

\* The values of the writers and the answers do not depend on calls.
LEMMA SameAnswers ==
    ASSUME Types, Answers, UNCHANGED <<answer, via>>,
           Len(conns) <= Len(conns'), Len(conns') \in Nat,
           \A c \in 1..Len(conns) : /\ conns'[c].shown = conns[c].shown
                                    /\ conns'[c].landed = conns[c].landed
                                    /\ conns'[c].mem = conns[c].mem,
           \A c \in 1..Len(conns') : c > Len(conns) => Ordered(conns'[c])
    PROVE  Answers'
<1>1. Len(conns) \in Nat
  BY DEF Types, TypeOK
<1>2. WritersOrdered'
  <2> SUFFICES ASSUME NEW c \in 1..Len(conns') PROVE Ordered(conns'[c])
    BY DEF WritersOrdered
  <2>1. CASE c \in 1..Len(conns)
    BY <2>1 DEF Answers, WritersOrdered, Ordered
  <2>2. CASE c > Len(conns)
    BY <2>2
  <2>. QED
    BY <1>1, <2>1, <2>2
<1>3. AskedVia'
  BY DEF Answers, AskedVia
<1>4. \A t \in Tx : answer[t] = "ok" => via[t] \in 1..Len(conns)
  BY <1>1 DEF Answers, AskedVia, Types, TypeOK
<1>5. ReadYourWrites'
  BY <1>4 DEF Answers, ReadYourWrites
<1>. QED
  BY <1>2, <1>3, <1>5 DEF Answers

\* A step of caller p that leaves the connections alone, or removes the entry it
\* was about to remove.
LEMMA PlainCall ==
    ASSUME IInv, NEW p \in Caller, NEW k \in Calls, NEW m \in 0..Len(conns),
           call' = [call EXCEPT ![p] = k], mine' = [mine EXCEPT ![p] = m],
           k.seen \in 0..Len(conns), k.step \in SeenSteps => k.seen # 0,
           k.then = "shutdown" \/ k.step = "shutdown" => m # 0,
           At(p, "dissoc") => registry' = None,
           EntryKept,
           UNCHANGED <<conns, head, answer, via, rivals>>,
           exists' \in BOOLEAN, forced' \in BOOLEAN, disturbed' \in BOOLEAN
    PROVE  IInv'
<1>1. Len(conns) \in Nat /\ conns \in Seq(Writers)
  BY DEF IInv, Types, TypeOK
<1>2. Types'
  <2>1. rivals' \in BOOLEAN /\ Len(conns) <= Len(conns') /\ conns' = conns
    BY <1>1 DEF IInv, Types, TypeOK
  <2>2. /\ registry' \in [conn : 0..Len(conns'), count : Int]
        /\ registry' # None => registry'.conn # 0
    BY <2>1, EntryKeptTypes DEF IInv
  <2>. QED
    BY <1>1, <2>1, <2>2, CallTypes DEF IInv
<1>3. Answers'
  BY <1>1, SameAnswers DEF IInv
<1>4. RegisteredOpen'
  <2> SUFFICES ASSUME Registered', ~conns[registry'.conn].open
               PROVE  \E q \in Caller : At(q, "dissoc")' /\ call'[q].seen = registry'.conn
    BY DEF RegisteredOpen
  <2>1. Registered /\ registry'.conn = registry.conn /\ ~At(p, "dissoc")
    BY EntryKeptTypes DEF IInv, Registered, None
  <2>2. PICK q \in Caller : At(q, "dissoc") /\ call[q].seen = registry.conn
    BY <2>1 DEF IInv, RegisteredOpen
  <2>3. call'[q] = call[q]
    BY <2>1, <2>2 DEF IInv, Types, TypeOK
  <2>. QED
    BY <2>1, <2>2, <2>3 DEF At
<1>. QED
  BY <1>2, <1>3, <1>4 DEF IInv

\* A call ends.
LEMMA EndStep ==
    ASSUME IInv, NEW p \in Caller, NEW m \in 0..Len(conns), End(p, m),
           At(p, "dissoc") => registry' = None, EntryKept,
           UNCHANGED <<conns, head, answer, via, rivals>>,
           exists' \in BOOLEAN, forced' \in BOOLEAN, disturbed' \in BOOLEAN
    PROVE  IInv'
<1>1. /\ NoCall \in Calls /\ NoCall.seen = 0
      /\ NoCall.step = "idle" /\ NoCall.then = "idle"
  <2>1. <<>> \in Seq(Tx)
    OBVIOUS
  <2>. QED
    BY <2>1 DEF NoCall, NewCall, Calls
<1>2. 0 \in 0..Len(conns)
  BY DEF IInv, Types, TypeOK
<1>3. call' = [call EXCEPT ![p] = NoCall] /\ mine' = [mine EXCEPT ![p] = m]
  BY DEF End
<1>. QED
  BY <1>1, <1>2, <1>3, PlainCall DEF SeenSteps

\* A caller with an unchanged connection.
LEMMA SameMine ==
    ASSUME Types, NEW p \in Caller
    PROVE  mine[p] \in 0..Len(conns) /\ mine = [mine EXCEPT ![p] = mine[p]]
  BY DEF Types, TypeOK

\* What is known of the call of p when only its step changes.
LEMMA GotoCall ==
    ASSUME Types, NEW p \in Caller, NEW s \in Steps
    PROVE  LET k == [call[p] EXCEPT !.step = s]
           IN  /\ k \in Calls /\ k.step = s /\ k.then = call[p].then
               /\ k.seen = call[p].seen /\ k.seen \in 0..Len(conns)
<1>1. call[p] \in Calls /\ call[p].seen \in 0..Len(conns)
  BY DEF Types, TypeOK
<1>. QED
  BY <1>1 DEF Calls, Steps

\* A call goes on.
LEMMA GotoStep ==
    ASSUME IInv, NEW p \in Caller, NEW s \in Steps, Goto(p, s), mine' = mine,
           s \in SeenSteps => call[p].seen # 0,
           s = "shutdown" => call[p].then = "shutdown",
           At(p, "dissoc") => registry' = None, EntryKept,
           UNCHANGED <<conns, head, answer, via, rivals>>,
           exists' \in BOOLEAN, forced' \in BOOLEAN, disturbed' \in BOOLEAN
    PROVE  IInv'
<1> DEFINE k == [call[p] EXCEPT !.step = s]
<1>1. call' = [call EXCEPT ![p] = k]
  BY DEF Goto
<1>2. /\ k \in Calls /\ k.step = s /\ k.then = call[p].then
      /\ k.seen = call[p].seen /\ k.seen \in 0..Len(conns)
  BY GotoCall DEF IInv
<1>3. mine[p] \in 0..Len(conns) /\ mine' = [mine EXCEPT ![p] = mine[p]]
  BY SameMine DEF IInv
<1>4. call[p].then = "shutdown" => mine[p] # 0
  BY DEF IInv, Types, ThenOK
<1>. HIDE DEF k
<1>. QED
  BY <1>1, <1>2, <1>3, <1>4, PlainCall

\* A call that is set anew.
LEMMA AnewStep ==
    ASSUME IInv, NEW p \in Caller, NEW s \in Steps, NEW c \in 0..Len(conns),
           NEW v \in Seq(Tx), NEW n \in {"idle", "shutdown", "drop"},
           call' = [call EXCEPT ![p] = [step |-> s, seen |-> c, loaded |-> v, then |-> n]],
           mine' = mine,
           s \in SeenSteps => c # 0, s = "shutdown" => n = "shutdown",
           n = "shutdown" => mine[p] # 0,
           At(p, "dissoc") => registry' = None, EntryKept,
           UNCHANGED <<conns, head, answer, via, rivals>>,
           exists' \in BOOLEAN, forced' \in BOOLEAN, disturbed' \in BOOLEAN
    PROVE  IInv'
<1> DEFINE k == [step |-> s, seen |-> c, loaded |-> v, then |-> n]
<1>1. /\ k \in Calls /\ k.step = s /\ k.then = n
      /\ k.seen = c /\ call' = [call EXCEPT ![p] = k]
  <2>1. c \in Nat
    BY DEF IInv, Types, TypeOK
  <2>. QED
    BY <2>1 DEF Calls, Steps
<1>2. mine[p] \in 0..Len(conns) /\ mine' = [mine EXCEPT ![p] = mine[p]]
  BY SameMine DEF IInv
<1>3. /\ k.seen \in 0..Len(conns) /\ (k.step \in SeenSteps => k.seen # 0)
      /\ k.then = "shutdown" \/ k.step = "shutdown" => mine[p] # 0
  BY <1>1
<1>. HIDE DEF k
<1>. QED
  BY <1>1, <1>2, <1>3, PlainCall

\* What the call of p consists of, and the types of the rest.
LEMMA CallFacts ==
    ASSUME IInv, NEW p \in Caller
    PROVE  /\ call[p] = [step |-> call[p].step, seen |-> call[p].seen,
                         loaded |-> call[p].loaded, then |-> call[p].then]
           /\ call[p].step \in Steps /\ call[p].seen \in 0..Len(conns)
           /\ call[p].loaded \in Seq(Tx) /\ call[p].then \in {"idle", "shutdown", "drop"}
           /\ call[p].step \in SeenSteps => call[p].seen # 0
           /\ call[p].then = "shutdown" => mine[p] # 0
           /\ mine[p] \in 0..Len(conns)
           /\ exists \in BOOLEAN /\ forced \in BOOLEAN /\ disturbed \in BOOLEAN
           /\ rivals \in BOOLEAN
           /\ head \in Seq(Tx) /\ <<>> \in Seq(Tx)
           /\ registry.conn \in 0..Len(conns) /\ (Registered => registry.conn # 0)
           /\ 0 \in 0..Len(conns)
           /\ DOMAIN call = Caller
<1>1. call[p] \in Calls
  BY DEF IInv, Types, TypeOK
<1>2. /\ call[p] = [step |-> call[p].step, seen |-> call[p].seen,
                    loaded |-> call[p].loaded, then |-> call[p].then]
      /\ call[p].step \in Steps /\ call[p].loaded \in Seq(Tx)
      /\ call[p].then \in {"idle", "shutdown", "drop"}
  BY <1>1 DEF Calls, Steps
<1>3. /\ call[p].seen \in 0..Len(conns)
      /\ call[p].step \in SeenSteps => call[p].seen # 0
      /\ call[p].then = "shutdown" => mine[p] # 0
      /\ mine[p] \in 0..Len(conns)
      /\ exists \in BOOLEAN /\ forced \in BOOLEAN /\ disturbed \in BOOLEAN
      /\ rivals \in BOOLEAN /\ head \in Seq(Tx)
      /\ registry.conn \in 0..Len(conns) /\ DOMAIN call = Caller
  BY DEF IInv, Types, TypeOK, ThenOK, SeenSteps
<1>4. Registered => registry.conn # 0
  BY DEF IInv, Types, RegistryOK
<1>5. 0 \in 0..Len(conns)
  BY DEF IInv, Types, TypeOK
<1>6. <<>> \in Seq(Tx)
  OBVIOUS
<1>. QED
  BY <1>2, <1>3, <1>4, <1>5, <1>6

\* Counting up or down keeps the entry.
LEMMA CountKeeps ==
    ASSUME IInv, Registered
    PROVE  /\ registry' = Counted(registry) => EntryKept
           /\ registry' = Entry(registry.conn, registry.count - 1) => EntryKept
<1>1. registry.count \in Int
  BY DEF IInv, Types, TypeOK
<1>. QED
  BY <1>1 DEF EntryKept, Counted, Entry

LEMMA ConnectStep ==
    ASSUME IInv, NEW p \in Caller, Connect(p)
    PROVE  IInv'
<1> DEFINE s == IF Registered THEN "count" ELSE "load"
<1>1. /\ call' = [call EXCEPT ![p] = [step |-> s, seen |-> registry.conn,
                                      loaded |-> <<>>, then |-> "idle"]]
      /\ ~At(p, "dissoc")
  BY DEF Connect, Begin, NewCall, NoCall, Idle, At
<1>2. s \in Steps /\ (s \in SeenSteps => Registered) /\ s # "shutdown"
  BY DEF Steps, SeenSteps
<1>3. /\ UNCHANGED <<registry, conns, head, exists, mine, answer, via, forced, rivals>>
      /\ disturbed' \in BOOLEAN
  BY CallFacts DEF Connect, Begin, txVars
<1>4. /\ registry.conn \in 0..Len(conns) /\ (s \in SeenSteps => registry.conn # 0)
      /\ exists' \in BOOLEAN /\ forced' \in BOOLEAN /\ <<>> \in Seq(Tx)
  BY <1>2, <1>3, CallFacts
<1>5. EntryKept
  BY <1>3 DEF EntryKept
<1>. HIDE DEF s
<1>. QED
  BY <1>1, <1>2, <1>3, <1>4, <1>5, AnewStep

LEMMA CountStep ==
    ASSUME IInv, NEW p \in Caller, Count(p)
    PROVE  IInv'
<1>1. /\ At(p, "count") /\ ~At(p, "dissoc") /\ call[p].seen # 0
      /\ UNCHANGED <<conns, head, exists, answer, via, forced, disturbed, rivals>>
  BY CallFacts DEF Count, At, txVars, histVars, SeenSteps
<1>2. CASE Registered /\ registry' = Counted(registry) /\ Goto(p, "check") /\ UNCHANGED mine
  <2>1. "check" \in Steps
    BY DEF Steps
  <2>. QED
    BY <1>1, <1>2, <2>1, CallFacts, CountKeeps, GotoStep
<1>3. CASE UNCHANGED registry /\ End(p, 0)
  BY <1>1, <1>3, CallFacts, EndStep DEF EntryKept
<1>. QED
  BY <1>2, <1>3 DEF Count

LEMMA CheckStep ==
    ASSUME IInv, NEW p \in Caller, Check(p)
    PROVE  IInv'
<1>1. /\ ~At(p, "dissoc")
      /\ UNCHANGED <<registry, conns, head, exists, answer, via, forced, disturbed, rivals>>
  BY DEF Check, At, txVars, histVars
<1>2. PICK m \in 0..Len(conns) : End(p, m)
  BY CallFacts DEF Check
<1>. QED
  BY <1>1, <1>2, CallFacts, EndStep DEF EntryKept

LEMMA LoadStep ==
    ASSUME IInv, NEW p \in Caller, Load(p)
    PROVE  IInv'
<1>1. /\ At(p, "load") /\ ~At(p, "dissoc")
      /\ UNCHANGED <<registry, conns, head, exists, answer, via, forced, disturbed, rivals>>
  BY DEF Load, At, txVars, histVars
<1>2. CASE exists
  <2>1. call' = [call EXCEPT ![p] = [step |-> "make", seen |-> call[p].seen,
                                     loaded |-> head, then |-> call[p].then]]
    BY <1>2, CallFacts DEF Load
  <2>2. "make" \in Steps /\ "make" \notin SeenSteps
    BY DEF Steps, SeenSteps
  <2>3. mine' = mine
    BY <1>2 DEF Load
  <2>. QED
    BY <1>1, <2>1, <2>2, <2>3, CallFacts, AnewStep DEF EntryKept
<1>3. CASE End(p, 0)
  BY <1>1, <1>3, CallFacts, EndStep DEF EntryKept
<1>. QED
  BY <1>2, <1>3 DEF Load

LEMMA DeleteLookupStep ==
    ASSUME IInv, NEW p \in Caller, DeleteLookup(p)
    PROVE  IInv'
<1> DEFINE s == IF Registered THEN "inc" ELSE call[p].then
<1>1. /\ ~At(p, "dissoc")
      /\ UNCHANGED <<registry, conns, head, exists, mine, answer, via, forced, disturbed, rivals>>
  BY DEF DeleteLookup, At, txVars, histVars
<1>2. call' = [call EXCEPT ![p] = [step |-> s, seen |-> registry.conn,
                                   loaded |-> call[p].loaded, then |-> call[p].then]]
  <2>1. call' = [call EXCEPT ![p].step = s, ![p].seen = registry.conn]
    BY DEF DeleteLookup
  <2>2. /\ call[p] = [step |-> call[p].step, seen |-> call[p].seen,
                      loaded |-> call[p].loaded, then |-> call[p].then]
        /\ DOMAIN call = Caller
    BY CallFacts
  <2>. HIDE DEF s
  <2>3. PICK a, b, v, n : call[p] = [step |-> a, seen |-> b, loaded |-> v, then |-> n]
    BY <2>2
  <2>4. [[call[p] EXCEPT !.step = s] EXCEPT !.seen = registry.conn]
          = [step |-> s, seen |-> registry.conn, loaded |-> v, then |-> n]
    <3>1. [call[p] EXCEPT !.step = s] = [step |-> s, seen |-> b, loaded |-> v, then |-> n]
      BY <2>3
    <3>2. ASSUME NEW c
          PROVE  [[step |-> s, seen |-> b, loaded |-> v, then |-> n] EXCEPT !.seen = c]
                   = [step |-> s, seen |-> c, loaded |-> v, then |-> n]
      OBVIOUS
    <3>. QED
      BY <3>1, <3>2
  <2>5. v = call[p].loaded /\ n = call[p].then
    BY <2>3
  <2>6. call' = [call EXCEPT ![p] = [[call[p] EXCEPT !.step = s] EXCEPT !.seen = registry.conn]]
    BY <2>1, <2>2
  <2>. QED
    BY <2>4, <2>5, <2>6
<1>3. /\ s \in Steps /\ (s \in SeenSteps => registry.conn # 0)
      /\ s = "shutdown" => call[p].then = "shutdown"
  BY CallFacts DEF Steps, SeenSteps
<1>4. EntryKept
  BY <1>1 DEF EntryKept
<1>5. /\ registry.conn \in 0..Len(conns) /\ call[p].loaded \in Seq(Tx)
      /\ call[p].then \in {"idle", "shutdown", "drop"}
      /\ call[p].then = "shutdown" => mine[p] # 0
      /\ exists' \in BOOLEAN /\ forced' \in BOOLEAN /\ disturbed' \in BOOLEAN
  BY <1>1, CallFacts
<1>. HIDE DEF s
<1>. QED
  BY <1>1, <1>2, <1>3, <1>4, <1>5, AnewStep

LEMMA DeleteCountStep ==
    ASSUME IInv, NEW p \in Caller, DeleteCount(p)
    PROVE  IInv'
<1>1. /\ At(p, "inc") /\ ~At(p, "dissoc") /\ call[p].seen # 0
      /\ UNCHANGED <<conns, head, exists, answer, via, forced, disturbed, rivals>>
  BY CallFacts DEF DeleteCount, At, txVars, histVars, SeenSteps
<1>2. CASE Registered /\ registry' = Counted(registry) /\ Goto(p, "reset") /\ UNCHANGED mine
  <2>1. "reset" \in Steps
    BY DEF Steps
  <2>. QED
    BY <1>1, <1>2, <2>1, CallFacts, CountKeeps, GotoStep
<1>3. CASE UNCHANGED registry /\ End(p, 0)
  BY <1>1, <1>3, CallFacts, EndStep DEF EntryKept
<1>. QED
  BY <1>2, <1>3 DEF DeleteCount

LEMMA DeleteDissocStep ==
    ASSUME IInv, NEW p \in Caller, DeleteDissoc(p)
    PROVE  IInv'
<1>1. /\ Goto(p, call[p].then) /\ registry' = None
      /\ UNCHANGED <<conns, head, exists, mine, answer, via, forced, disturbed, rivals>>
  BY DEF DeleteDissoc, txVars, histVars
<1>2. call[p].then \in Steps /\ call[p].then \notin SeenSteps
  BY CallFacts DEF Steps, SeenSteps
<1>3. EntryKept
  BY <1>1 DEF EntryKept
<1>. QED
  BY <1>1, <1>2, <1>3, CallFacts, GotoStep

LEMMA ReleaseStep ==
    ASSUME IInv, NEW p \in Caller, NEW all \in BOOLEAN, Release(p, all)
    PROVE  IInv'
<1> DEFINE s == IF all THEN "entryAll" ELSE "entry"
<1>1. /\ ~At(p, "dissoc") /\ mine[p] # 0 /\ forced' \in BOOLEAN
      /\ UNCHANGED <<registry, conns, head, exists, answer, via, rivals>>
  BY CallFacts DEF Release, At, Idle, NoCall, NewCall, txVars
<1>2. EntryKept
  BY <1>1 DEF EntryKept
<1>3. CASE Begin(p, NewCall(s, 0, "shutdown")) /\ UNCHANGED mine
  <2>1. /\ call' = [call EXCEPT ![p] = [step |-> s, seen |-> 0, loaded |-> <<>>,
                                        then |-> "shutdown"]]
        /\ disturbed' \in BOOLEAN
    BY <1>3, CallFacts DEF Begin, NewCall
  <2>2. s \in Steps /\ s \notin SeenSteps
    BY DEF Steps, SeenSteps
  <2>. HIDE DEF s
  <2>. QED
    BY <1>1, <1>2, <1>3, <2>1, <2>2, CallFacts, AnewStep
<1>4. CASE End(p, 0) /\ UNCHANGED disturbed
  BY <1>1, <1>2, <1>4, CallFacts, EndStep
<1>. QED
  BY <1>3, <1>4 DEF Release

LEMMA HasEntryStep ==
    ASSUME IInv, NEW p \in Caller, HasEntry(p)
    PROVE  IInv'
<1> DEFINE s == IF At(p, "entry") THEN "dec" ELSE "decAll"
<1>1. /\ ~At(p, "dissoc")
      /\ UNCHANGED <<registry, conns, head, exists, answer, via, forced, disturbed, rivals>>
  BY DEF HasEntry, At, txVars, histVars
<1>2. EntryKept
  BY <1>1 DEF EntryKept
<1>3. CASE Goto(p, s) /\ UNCHANGED mine
  <2>1. s \in Steps /\ s \notin SeenSteps /\ s # "shutdown"
    BY DEF Steps, SeenSteps
  <2>. HIDE DEF s
  <2>. QED
    BY <1>1, <1>2, <1>3, <2>1, CallFacts, GotoStep
<1>4. CASE End(p, 0)
  BY <1>1, <1>2, <1>4, CallFacts, EndStep
<1>. QED
  BY <1>3, <1>4 DEF HasEntry

LEMMA DecrementStep ==
    ASSUME IInv, NEW p \in Caller, Decrement(p)
    PROVE  IInv'
<1>1. /\ ~At(p, "dissoc")
      /\ UNCHANGED <<conns, head, exists, answer, via, forced, disturbed, rivals>>
  BY DEF Decrement, At, txVars, histVars
<1>2. EntryKept
  BY CountKeeps DEF Decrement, EntryKept
<1>3. CASE Goto(p, "lookup") /\ UNCHANGED mine
  <2>1. "lookup" \in Steps /\ "lookup" \notin SeenSteps
    BY DEF Steps, SeenSteps
  <2>. QED
    BY <1>1, <1>2, <1>3, <2>1, CallFacts, GotoStep
<1>4. CASE End(p, 0)
  BY <1>1, <1>2, <1>4, CallFacts, EndStep
<1>. QED
  BY <1>3, <1>4 DEF Decrement

LEMMA DeleteDatabaseStep ==
    ASSUME IInv, NEW p \in Caller, DeleteDatabase(p)
    PROVE  IInv'
<1> DEFINE s == IF Registered THEN "lookup" ELSE "drop"
<1>1. /\ ~At(p, "dissoc") /\ forced' \in BOOLEAN /\ disturbed' \in BOOLEAN
      /\ UNCHANGED <<registry, conns, head, exists, mine, answer, via, rivals>>
  BY CallFacts DEF DeleteDatabase, Begin, At, Idle, NoCall, NewCall, txVars
<1>2. EntryKept
  BY <1>1 DEF EntryKept
<1>3. call' = [call EXCEPT ![p] = [step |-> s, seen |-> 0, loaded |-> <<>>, then |-> "drop"]]
  BY DEF DeleteDatabase, Begin, NewCall
<1>4. s \in Steps /\ s \notin SeenSteps /\ s # "shutdown"
  BY DEF Steps, SeenSteps
<1>. HIDE DEF s
<1>. QED
  BY <1>1, <1>2, <1>3, <1>4, CallFacts, AnewStep

LEMMA DropStep ==
    ASSUME IInv, NEW p \in Caller, Drop(p)
    PROVE  IInv'
<1>1. /\ ~At(p, "dissoc") /\ exists' \in BOOLEAN
      /\ UNCHANGED <<registry, conns, head, mine, answer, via, forced, disturbed, rivals>>
  BY DEF Drop, At, txVars, histVars
<1>2. EntryKept
  BY <1>1 DEF EntryKept
<1>3. mine[p] \in 0..Len(conns) /\ End(p, mine[p])
  BY <1>1, SameMine DEF Drop, End, IInv
<1>. QED
  BY <1>1, <1>2, <1>3, CallFacts, EndStep

LEMMA MakeStep ==
    ASSUME IInv, NEW p \in Caller, Make(p)
    PROVE  IInv'
<1> DEFINE c == Len(conns) + 1
           w == Connection(call[p].loaded)
<1>1. /\ UNCHANGED <<head, exists, answer, via, forced, disturbed>>
      /\ conns' = Append(conns, w) /\ registry' = [conn |-> c, count |-> 1]
      /\ call' = [call EXCEPT ![p] = NoCall] /\ mine' = [mine EXCEPT ![p] = c]
      /\ rivals' \in BOOLEAN
  BY CallFacts DEF Make, txVars, End, FirstEntry, Entry
<1>2. /\ conns \in Seq(Writers) /\ Len(conns) \in Nat
      /\ call[p].loaded \in Seq(Tx) /\ <<>> \in Seq(Tx)
  BY CallFacts DEF IInv, Types, TypeOK
<1>3. w \in Writers /\ Ordered(w) /\ w.open
  BY <1>2 DEF Connection, Writers, Ordered
<1>. HIDE DEF w
<1>4. /\ conns' \in Seq(Writers) /\ Len(conns') = c /\ conns'[c] = w
      /\ \A d \in 1..Len(conns) : conns'[d] = conns[d]
  BY <1>1, <1>2, <1>3
<1>5. Types'
  <2>1. /\ NoCall \in Calls /\ NoCall.seen = 0
        /\ NoCall.step = "idle" /\ NoCall.then = "idle"
    BY <1>2 DEF NoCall, NewCall, Calls
  <2>2. /\ c \in 0..Len(conns') /\ 0 \in 0..Len(conns') /\ Len(conns) <= Len(conns')
        /\ registry' \in [conn : 0..Len(conns'), count : Int] /\ registry'.conn # 0
    BY <1>1, <1>2, <1>4
  <2>3. exists' \in BOOLEAN /\ forced' \in BOOLEAN /\ disturbed' \in BOOLEAN
    BY <1>1, CallFacts
  <2>. HIDE DEF c
  <2>. QED
    BY <1>1, <1>4, <2>1, <2>2, <2>3, CallTypes DEF IInv, SeenSteps
<1>6. Answers'
  <2>1. Len(conns) <= Len(conns') /\ Len(conns') \in Nat
    BY <1>2, <1>4
  <2>2. \A d \in 1..Len(conns') : d > Len(conns) => Ordered(conns'[d])
    BY <1>2, <1>3, <1>4
  <2>. HIDE DEF c
  <2>. QED
    BY <1>1, <1>4, <2>1, <2>2, SameAnswers DEF IInv
<1>7. RegisteredOpen'
  BY <1>1, <1>3, <1>4 DEF RegisteredOpen
<1>. QED
  BY <1>5, <1>6, <1>7 DEF IInv

\* A step of caller p that changes its connection d, not what its writer wrote.
LEMMA ConnCall ==
    ASSUME IInv, NEW p \in Caller, NEW k \in Calls, NEW m \in 0..Len(conns),
           NEW d \in 1..Len(conns), NEW w \in Writers,
           conns' = [conns EXCEPT ![d] = w],
           w.shown = conns[d].shown, w.landed = conns[d].landed, w.mem = conns[d].mem,
           call' = [call EXCEPT ![p] = k], mine' = [mine EXCEPT ![p] = m],
           k.seen \in 0..Len(conns), k.step \in SeenSteps => k.seen # 0,
           k.then = "shutdown" \/ k.step = "shutdown" => m # 0,
           UNCHANGED <<registry, head, exists, answer, via, forced, rivals>>,
           disturbed' \in BOOLEAN
    PROVE  Types' /\ Answers'
<1>1. /\ conns \in Seq(Writers) /\ Len(conns) \in Nat
      /\ registry \in [conn : 0..Len(conns), count : Int]
      /\ registry # None => registry.conn # 0
      /\ exists \in BOOLEAN /\ forced \in BOOLEAN /\ rivals \in BOOLEAN
  BY DEF IInv, Types, TypeOK, RegistryOK, Registered
<1>2. /\ conns' \in Seq(Writers) /\ Len(conns') = Len(conns)
      /\ \A c \in 1..Len(conns) : conns'[c] = IF c = d THEN w ELSE conns[c]
  BY <1>1
<1>3. Types'
  <2>1. /\ m \in 0..Len(conns') /\ k.seen \in 0..Len(conns')
        /\ Len(conns) <= Len(conns')
        /\ registry' \in [conn : 0..Len(conns'), count : Int]
        /\ registry' # None => registry'.conn # 0
    BY <1>1, <1>2
  <2>2. /\ UNCHANGED <<head, answer, via>>
        /\ exists' \in BOOLEAN /\ forced' \in BOOLEAN /\ rivals' \in BOOLEAN
    BY <1>1
  <2>. QED
    BY <1>2, <2>1, <2>2, CallTypes DEF IInv
<1>4. Answers'
  BY <1>1, <1>2, SameAnswers DEF IInv
<1>. QED
  BY <1>3, <1>4

LEMMA DeleteResetStep ==
    ASSUME IInv, NEW p \in Caller, DeleteReset(p)
    PROVE  IInv'
<1> DEFINE d == call[p].seen
           w == [conns[d] EXCEPT !.open = FALSE]
           k == [call[p] EXCEPT !.step = "dissoc"]
<1>1. /\ At(p, "reset") /\ d # 0
      /\ UNCHANGED <<registry, head, exists, mine, answer, via, forced, rivals>>
      /\ call' = [call EXCEPT ![p] = k] /\ conns' = [conns EXCEPT ![d] = w]
  BY CallFacts DEF DeleteReset, At, Goto, txVars, SeenSteps
<1>2. disturbed' \in BOOLEAN
  BY CallFacts DEF DeleteReset, Busy
<1>3. /\ conns \in Seq(Writers) /\ Len(conns) \in Nat /\ d \in 1..Len(conns)
      /\ conns[d] \in Writers
  BY <1>1, CallFacts DEF IInv, Types, TypeOK
<1>4. /\ w \in Writers /\ w.shown = conns[d].shown /\ w.landed = conns[d].landed
      /\ w.mem = conns[d].mem
  BY <1>3 DEF Writers
<1>5. /\ k \in Calls /\ k.step = "dissoc" /\ k.then = call[p].then
      /\ k.seen = d /\ k.seen \in 0..Len(conns)
  <2>1. "dissoc" \in Steps
    BY DEF Steps
  <2>. QED
    BY <2>1, GotoCall DEF IInv
<1>6. /\ mine[p] \in 0..Len(conns) /\ mine' = [mine EXCEPT ![p] = mine[p]]
      /\ k.then = "shutdown" => mine[p] # 0
  BY <1>1, <1>5, SameMine, CallFacts DEF IInv
<1>. HIDE DEF d, w, k
<1>7. Types' /\ Answers'
  <2>1. k.then = "shutdown" \/ k.step = "shutdown" => mine[p] # 0
    BY <1>5, <1>6
  <2>. QED
    BY <1>1, <1>2, <1>3, <1>4, <1>5, <1>6, <2>1, ConnCall
<1>8. RegisteredOpen'
  <2> SUFFICES ASSUME Registered, ~conns'[registry.conn].open
               PROVE  \E q \in Caller : At(q, "dissoc")' /\ call'[q].seen = registry.conn
    BY <1>1 DEF RegisteredOpen, Registered
  <2>1. DOMAIN call = Caller
    BY CallFacts
  <2>2. CASE registry.conn = d
    <3>1. call'[p] = k
      BY <1>1, <2>1
    <3>. QED
      BY <1>5, <2>2, <3>1 DEF At
  <2>3. CASE registry.conn # d
    <3>1. conns'[registry.conn] = conns[registry.conn]
      BY <1>1, <2>3
    <3>2. PICK q \in Caller : At(q, "dissoc") /\ call[q].seen = registry.conn
      BY <3>1 DEF IInv, RegisteredOpen
    <3>3. call'[q] = call[q]
      BY <1>1, <2>1, <3>2 DEF At
    <3>. QED
      BY <3>2, <3>3 DEF At
  <2>. QED
    BY <2>2, <2>3
<1>. QED
  BY <1>7, <1>8 DEF IInv

LEMMA ShutdownStep ==
    ASSUME IInv, NEW p \in Caller, Shutdown(p)
    PROVE  IInv'
<1> DEFINE d == mine[p]
           w == ShutDown(conns[d])
<1>1. /\ At(p, "shutdown")
      /\ UNCHANGED <<registry, head, exists, answer, via, forced, disturbed, rivals>>
      /\ call' = [call EXCEPT ![p] = NoCall] /\ mine' = [mine EXCEPT ![p] = 0]
  BY DEF Shutdown, End, txVars, histVars
<1>2. conns \in Seq(Writers) /\ Len(conns) \in Nat /\ d \in 1..Len(conns)
  BY <1>1, CallFacts DEF IInv, Types, TypeOK, At
<1>3. conns[d] \in Writers
  BY <1>2
<1>4. conns' = [conns EXCEPT ![d] = w]
  BY <1>2 DEF Shutdown
<1>5. /\ w \in Writers /\ w.shown = conns[d].shown /\ w.landed = conns[d].landed
      /\ w.mem = conns[d].mem /\ w.open = conns[d].open
  BY <1>3 DEF Writers, ShutDown
<1>6. /\ NoCall \in Calls /\ NoCall.seen = 0 /\ 0 \in 0..Len(conns)
      /\ NoCall.step = "idle" /\ NoCall.then = "idle"
  BY CallFacts DEF NoCall, NewCall, Calls
<1>. HIDE DEF d, w
<1>7. Types' /\ Answers'
  <2>1. disturbed' \in BOOLEAN
    BY <1>1, CallFacts
  <2>. QED
    BY <1>1, <1>2, <1>4, <1>5, <1>6, <2>1, ConnCall DEF SeenSteps
<1>8. RegisteredOpen'
  <2> SUFFICES ASSUME Registered, ~conns'[registry.conn].open
               PROVE  \E q \in Caller : At(q, "dissoc")' /\ call'[q].seen = registry.conn
    BY <1>1 DEF RegisteredOpen, Registered
  <2>1. ~conns[registry.conn].open
    BY <1>2, <1>4, <1>5
  <2>2. PICK q \in Caller : At(q, "dissoc") /\ call[q].seen = registry.conn
    BY <2>1 DEF IInv, RegisteredOpen
  <2>3. call'[q] = call[q]
    BY <1>1, <2>2, CallFacts DEF At
  <2>. QED
    BY <2>2, <2>3 DEF At
<1>. QED
  BY <1>7, <1>8 DEF IInv

-------------------------------------------------------------------------------
(* Transactions and the writers *)

\* The registry, when neither it nor a call changes, and no connection closes.
LEMMA SameRegistry ==
    ASSUME IInv, UNCHANGED <<registry, call>>, NEW c \in 1..Len(conns), NEW w,
           conns' = [conns EXCEPT ![c] = w], w.open = conns[c].open \/ w.open = TRUE
    PROVE  RegisteredOpen'
<1> SUFFICES ASSUME Registered, ~conns'[registry.conn].open
             PROVE  \E q \in Caller : At(q, "dissoc") /\ call[q].seen = registry.conn
  BY DEF RegisteredOpen, Registered, At
<1>1. conns \in Seq(Writers)
  BY DEF IInv, Types, TypeOK
<1>2. ~conns[registry.conn].open
  BY <1>1
<1>. QED
  BY <1>2 DEF IInv, RegisteredOpen

\* A step of the writer of c, which answers only requests of its own with what
\* it shows.
LEMMA WriterStep ==
    ASSUME IInv, NEW c \in 1..Len(conns), NEW w \in Writers,
           conns' = [conns EXCEPT ![c] = w],
           w.open = conns[c].open \/ w.open = TRUE,
           Ordered(w), Range(conns[c].shown) \subseteq Range(w.shown),
           answer' \in [Tx -> {"none", "waiting", "ok", "failed"}],
           \A t \in Tx : answer'[t] = "waiting" => answer[t] = "waiting",
           \A t \in Tx : answer'[t] = "ok" =>
                \/ answer[t] = "ok"
                \/ answer[t] = "waiting" /\ via[t] = c /\ t \in Range(w.shown),
           head' \in Seq(Tx),
           UNCHANGED <<registry, exists, call, mine, via, forced, disturbed, rivals>>
    PROVE  IInv'
<1>1. conns \in Seq(Writers) /\ Len(conns) \in Nat /\ DOMAIN conns = 1..Len(conns)
  BY DEF IInv, Types, TypeOK
<1>2. Types'
  BY <1>1, WriterTypes DEF IInv
<1>3. RegisteredOpen'
  BY SameRegistry
<1>4. /\ Len(conns') = Len(conns)
      /\ \A d \in 1..Len(conns) : conns'[d] = IF d = c THEN w ELSE conns[d]
  BY <1>1
<1>5. WritersOrdered'
  <2> SUFFICES ASSUME NEW d \in 1..Len(conns) PROVE Ordered(conns'[d])
    BY <1>4 DEF WritersOrdered
  <2>. QED
    BY <1>4 DEF IInv, Answers, WritersOrdered
<1>6. AskedVia'
  BY DEF IInv, Answers, AskedVia
<1>7. ReadYourWrites'
  <2> SUFFICES ASSUME NEW t \in Tx, answer'[t] = "ok"
               PROVE  t \in Range(conns'[via[t]].shown)
    BY DEF ReadYourWrites
  <2>1. via[t] \in 1..Len(conns)
    BY <1>1 DEF IInv, Answers, AskedVia, Types, TypeOK
  <2>2. CASE answer[t] = "ok"
    BY <1>4, <2>1, <2>2 DEF IInv, Answers, ReadYourWrites
  <2>3. CASE via[t] = c /\ t \in Range(w.shown)
    BY <1>4, <2>1, <2>3
  <2>. QED
    BY <2>2, <2>3
<1>. QED
  BY <1>2, <1>3, <1>5, <1>6, <1>7 DEF IInv, Answers

\* What is known of the writer of c.
LEMMA WriterFacts ==
    ASSUME IInv, NEW c \in DOMAIN conns
    PROVE  /\ c \in 1..Len(conns) /\ conns[c] \in Writers /\ Ordered(conns[c])
           /\ answer \in [Tx -> {"none", "waiting", "ok", "failed"}]
           /\ head \in Seq(Tx)
<1>1. conns \in Seq(Writers)
  BY DEF IInv, Types, TypeOK
<1>2. c \in 1..Len(conns) /\ conns[c] \in Writers
  BY <1>1
<1>. QED
  BY <1>2 DEF IInv, Types, TypeOK, Answers, WritersOrdered

\* Appending keeps what is there.
LEMMA AppendKeeps ==
    ASSUME NEW v \in Seq(Tx), NEW t \in Tx
    PROVE  Append(v, t) \in Seq(Tx) /\ Range(v) \subseteq Range(Append(v, t))
<1>1. \A i \in DOMAIN v : i \in DOMAIN Append(v, t) /\ Append(v, t)[i] = v[i]
  OBVIOUS
<1>. QED
  BY <1>1 DEF Range

LEMMA ProcessStep ==
    ASSUME IInv, NEW c \in DOMAIN conns, Process(c)
    PROVE  IInv'
<1> DEFINE t == Head(conns[c].queue)
           m == IF conns[c].open /\ ~conns[c].broken THEN Append(conns[c].mem, t)
                ELSE conns[c].mem
           w == [conns[c] EXCEPT !.queue = Tail(conns[c].queue), !.mem = m]
<1>1. /\ c \in 1..Len(conns) /\ conns[c] \in Writers /\ Ordered(conns[c])
      /\ answer \in [Tx -> {"none", "waiting", "ok", "failed"}]
      /\ head \in Seq(Tx)
  BY WriterFacts
<1>2. UNCHANGED <<registry, head, exists, call, mine, via, forced, disturbed, rivals>>
  BY DEF Process, callVars, histVars
<1>3. /\ conns[c].queue \in Seq(Tx) /\ conns[c].queue # <<>> /\ conns[c].mem \in Seq(Tx)
  BY <1>1 DEF Process, Writers
<1>4. t \in Tx /\ Tail(conns[c].queue) \in Seq(Tx)
  BY <1>3
<1>5. m \in Seq(Tx) /\ Range(conns[c].mem) \subseteq Range(m)
  <2>. HIDE DEF t
  <2>. QED
    BY <1>3, <1>4, AppendKeeps
<1>6. conns' = [conns EXCEPT ![c] = w]
  BY <1>1 DEF Process
<1>7. /\ answer' \in [Tx -> {"none", "waiting", "ok", "failed"}]
      /\ \A u \in Tx : answer'[u] \in {"waiting", "ok"} => answer'[u] = answer[u]
  BY <1>1, <1>4 DEF Process
<1>. HIDE DEF t, m
<1>8. /\ w \in Writers /\ w.open = conns[c].open /\ w.shown = conns[c].shown
      /\ w.landed = conns[c].landed /\ w.mem = m
  BY <1>1, <1>4, <1>5 DEF Writers
<1>. HIDE DEF w
<1>9. Ordered(w)
  BY <1>1, <1>5, <1>8 DEF Ordered
<1>. QED
  BY <1>1, <1>2, <1>6, <1>7, <1>8, <1>9, WriterStep

LEMMA CommitStep ==
    ASSUME IInv, NEW c \in DOMAIN conns, Commit(c)
    PROVE  IInv'
<1> DEFINE w == [conns[c] EXCEPT !.landed = conns[c].mem]
<1>1. /\ c \in 1..Len(conns) /\ conns[c] \in Writers /\ Ordered(conns[c])
      /\ answer \in [Tx -> {"none", "waiting", "ok", "failed"}]
  BY WriterFacts
<1>2. /\ UNCHANGED <<registry, exists, call, mine, answer, via, forced, disturbed, rivals>>
      /\ head' = conns[c].mem
  BY DEF Commit, callVars, txVars, histVars
<1>3. conns' = [conns EXCEPT ![c] = w]
  BY <1>1 DEF Commit
<1>4. /\ w \in Writers /\ w.open = conns[c].open /\ w.shown = conns[c].shown
      /\ w.landed = conns[c].mem /\ w.mem = conns[c].mem /\ conns[c].mem \in Seq(Tx)
  BY <1>1 DEF Writers
<1>. HIDE DEF w
<1>5. Ordered(w)
  BY <1>1, <1>4 DEF Ordered
<1>. QED
  BY <1>1, <1>2, <1>3, <1>4, <1>5, WriterStep

LEMMA PublishStep ==
    ASSUME IInv, NEW c \in DOMAIN conns, Publish(c)
    PROVE  IInv'
<1> DEFINE w == [conns[c] EXCEPT !.shown = conns[c].landed, !.open = TRUE]
<1>1. /\ c \in 1..Len(conns) /\ conns[c] \in Writers /\ Ordered(conns[c])
      /\ answer \in [Tx -> {"none", "waiting", "ok", "failed"}]
      /\ head \in Seq(Tx)
  BY WriterFacts
<1>2. UNCHANGED <<registry, head, exists, call, mine, via, forced, disturbed, rivals>>
  BY DEF Publish, callVars, histVars
<1>3. conns' = [conns EXCEPT ![c] = w]
  BY <1>1 DEF Publish
<1>4. /\ w \in Writers /\ w.open = TRUE /\ w.shown = conns[c].landed
      /\ w.landed = conns[c].landed /\ w.mem = conns[c].mem
  BY <1>1 DEF Writers
<1>. HIDE DEF w
<1>5. Ordered(w) /\ Range(conns[c].shown) \subseteq Range(w.shown)
  BY <1>1, <1>4 DEF Ordered
<1>6. answer' = [t \in Tx |-> IF t \in Waiting(c, conns[c].landed) THEN "ok" ELSE answer[t]]
  BY DEF Publish
<1>7. /\ answer' \in [Tx -> {"none", "waiting", "ok", "failed"}]
      /\ \A t \in Tx : answer'[t] = "waiting" => answer[t] = "waiting"
      /\ \A t \in Tx : answer'[t] = "ok" =>
           \/ answer[t] = "ok"
           \/ answer[t] = "waiting" /\ via[t] = c /\ t \in Range(w.shown)
  BY <1>1, <1>4, <1>6 DEF Waiting
<1>. QED
  BY <1>1, <1>2, <1>3, <1>4, <1>5, <1>7, WriterStep

LEMMA CommitErrorStep ==
    ASSUME IInv, NEW c \in DOMAIN conns, CommitError(c)
    PROVE  IInv'
<1> DEFINE w == [conns[c] EXCEPT !.broken = TRUE, !.wopen = FALSE]
<1>1. /\ c \in 1..Len(conns) /\ conns[c] \in Writers /\ Ordered(conns[c])
      /\ answer \in [Tx -> {"none", "waiting", "ok", "failed"}]
      /\ head \in Seq(Tx)
  BY WriterFacts
<1>2. UNCHANGED <<registry, head, exists, call, mine, via, forced, disturbed, rivals>>
  BY DEF CommitError, callVars, histVars
<1>3. conns' = [conns EXCEPT ![c] = w]
  BY <1>1 DEF CommitError
<1>4. /\ w \in Writers /\ w.open = conns[c].open /\ w.shown = conns[c].shown
      /\ w.landed = conns[c].landed /\ w.mem = conns[c].mem
  BY <1>1 DEF Writers
<1>. HIDE DEF w
<1>5. Ordered(w)
  BY <1>1, <1>4 DEF Ordered
<1>6. answer' = [t \in Tx |-> IF t \in Waiting(c, conns[c].mem) THEN "failed" ELSE answer[t]]
  BY DEF CommitError
<1>7. /\ answer' \in [Tx -> {"none", "waiting", "ok", "failed"}]
      /\ \A t \in Tx : answer'[t] \in {"waiting", "ok"} => answer'[t] = answer[t]
  BY <1>1, <1>6
<1>. QED
  BY <1>1, <1>2, <1>3, <1>4, <1>5, <1>7, WriterStep

LEMMA TransactStep ==
    ASSUME IInv, NEW p \in Caller, NEW t \in Tx, Transact(p, t)
    PROVE  IInv'
<1> DEFINE d == mine[p]
           q == IF conns[d].wopen THEN Append(conns[d].queue, t) ELSE conns[d].queue
           w == [conns[d] EXCEPT !.queue = q]
<1>1. /\ answer[t] = "none" /\ answer' = [answer EXCEPT ![t] = "waiting"]
      /\ d # 0 /\ via' = [via EXCEPT ![t] = d]
      /\ UNCHANGED <<registry, head, exists, call, mine, forced, disturbed, rivals>>
  BY DEF Transact, callVars, histVars
<1>2. conns \in Seq(Writers) /\ Len(conns) \in Nat /\ d \in 1..Len(conns)
  BY <1>1, CallFacts DEF IInv, Types, TypeOK
<1>3. conns[d] \in Writers
  BY <1>2
<1>4. conns' = [conns EXCEPT ![d] = w]
  BY <1>2 DEF Transact
<1>5. q \in Seq(Tx)
  <2>1. conns[d].queue \in Seq(Tx)
    BY <1>3 DEF Writers
  <2>. QED
    BY <2>1
<1>6. /\ w \in Writers /\ w.open = conns[d].open /\ w.shown = conns[d].shown
      /\ w.landed = conns[d].landed /\ w.mem = conns[d].mem
  <2>. HIDE DEF q, d
  <2>. QED
    BY <1>3, <1>5 DEF Writers
<1>. HIDE DEF d, w
<1>7. /\ conns' \in Seq(Writers) /\ Len(conns') = Len(conns)
      /\ \A c \in 1..Len(conns) : conns'[c] = IF c = d THEN w ELSE conns[c]
  BY <1>2, <1>4, <1>6
<1>8. /\ answer' \in [Tx -> {"none", "waiting", "ok", "failed"}]
      /\ via' \in [Tx -> 0..Len(conns)]
      /\ \A u \in Tx : u # t => answer'[u] = answer[u] /\ via'[u] = via[u]
      /\ answer'[t] = "waiting" /\ via'[t] = d
  BY <1>1, <1>2 DEF IInv, Types, TypeOK
<1>9. Types'
  <2>1. TypeOK'
    BY <1>1, <1>7, <1>8 DEF IInv, Types, TypeOK
  <2>2. RegistryOK' /\ ThenOK'
    BY <1>1 DEF IInv, Types, RegistryOK, ThenOK, Registered, None
  <2>. QED
    BY <2>1, <2>2 DEF Types
<1>10. RegisteredOpen'
  BY <1>1, <1>2, <1>4, <1>6, SameRegistry
<1>11. WritersOrdered'
  BY <1>2, <1>6, <1>7 DEF IInv, Answers, WritersOrdered, Ordered
<1>12. AskedVia'
  BY <1>1, <1>8 DEF IInv, Answers, AskedVia
<1>13. ReadYourWrites'
  <2> SUFFICES ASSUME NEW u \in Tx, answer'[u] = "ok"
               PROVE  u \in Range(conns'[via'[u]].shown)
    BY DEF ReadYourWrites
  <2>1. u # t /\ answer[u] = "ok" /\ via'[u] = via[u]
    BY <1>8
  <2>2. via[u] \in 1..Len(conns) /\ u \in Range(conns[via[u]].shown)
    BY <1>2, <2>1 DEF IInv, Answers, AskedVia, ReadYourWrites, Types, TypeOK
  <2>. QED
    BY <1>6, <1>7, <2>1, <2>2
<1>. QED
  BY <1>9, <1>10, <1>11, <1>12, <1>13 DEF IInv, Answers

-------------------------------------------------------------------------------
(* The theorems *)

LEMMA InitInv == Init => IInv
<1> SUFFICES ASSUME Init PROVE IInv
  OBVIOUS
<1>1. Types
  BY InitTypes
<1>2. RegisteredOpen
  BY DEF Init, RegisteredOpen, Registered
<1>3. Answers
  BY DEF Init, Answers, WritersOrdered, AskedVia, ReadYourWrites
<1>. QED
  BY <1>1, <1>2, <1>3 DEF IInv

LEMMA StutterInv == IInv /\ UNCHANGED vars => IInv'
<1> SUFFICES ASSUME IInv, UNCHANGED vars PROVE IInv'
  OBVIOUS
<1>1. UNCHANGED <<registry, conns, head, exists, call, mine, answer, via,
                  forced, disturbed, rivals>>
  BY DEF vars, callVars, txVars, histVars
<1>2. Types'
  BY <1>1 DEF IInv, Types, TypeOK, RegistryOK, ThenOK, Registered, None
<1>3. RegisteredOpen'
  BY <1>1 DEF IInv, RegisteredOpen, Registered, None, At
<1>4. Answers'
  BY <1>1 DEF IInv, Answers, WritersOrdered, Ordered, AskedVia, ReadYourWrites
<1>. QED
  BY <1>2, <1>3, <1>4 DEF IInv

LEMMA NextInv == IInv /\ [Next]_vars => IInv'
<1> SUFFICES ASSUME IInv, [Next]_vars PROVE IInv'
  OBVIOUS
<1>1. ASSUME NEW p \in Caller, Call(p) PROVE IInv'
  <2>1. CASE Connect(p)
    BY <2>1, ConnectStep
  <2>2. CASE Count(p)
    BY <2>2, CountStep
  <2>3. CASE Check(p)
    BY <2>3, CheckStep
  <2>4. CASE Load(p)
    BY <2>4, LoadStep
  <2>5. CASE Make(p)
    BY <2>5, MakeStep
  <2>6. CASE \E all \in BOOLEAN : Release(p, all)
    BY <2>6, ReleaseStep
  <2>7. CASE HasEntry(p)
    BY <2>7, HasEntryStep
  <2>8. CASE Decrement(p)
    BY <2>8, DecrementStep
  <2>9. CASE Shutdown(p)
    BY <2>9, ShutdownStep
  <2>10. CASE DeleteLookup(p)
    BY <2>10, DeleteLookupStep
  <2>11. CASE DeleteCount(p)
    BY <2>11, DeleteCountStep
  <2>12. CASE DeleteReset(p)
    BY <2>12, DeleteResetStep
  <2>13. CASE DeleteDissoc(p)
    BY <2>13, DeleteDissocStep
  <2>14. CASE DeleteDatabase(p)
    BY <2>14, DeleteDatabaseStep
  <2>15. CASE Drop(p)
    BY <2>15, DropStep
  <2>16. CASE \E t \in Tx : Transact(p, t)
    BY <2>16, TransactStep
  <2>. QED
    BY <1>1, <2>1, <2>2, <2>3, <2>4, <2>5, <2>6, <2>7, <2>8, <2>9, <2>10, <2>11,
       <2>12, <2>13, <2>14, <2>15, <2>16 DEF Call
<1>2. ASSUME NEW c \in DOMAIN conns, Writer(c) PROVE IInv'
  BY <1>2, ProcessStep, CommitStep, PublishStep, CommitErrorStep DEF Writer
<1>. QED
  BY <1>1, <1>2, StutterInv DEF Next

LEMMA Invariant == Spec => []IInv
BY InitInv, NextInv, PTL DEF Spec

\* The types hold in every reachable state, for any callers and transactions:
\* in particular a call that goes on with a connection has one.
THEOREM TypeCorrect == Spec => []TypeOK
<1>1. IInv => TypeOK
  BY DEF IInv, Types
<1>. QED
  BY <1>1, Invariant, PTL

\* However calls of any number of callers overlap, delete-connection! never
\* leaves a released connection in *connections*.
THEOREM RegistryOpen == Spec => []RegisteredOpen
<1>1. IInv => RegisteredOpen
  BY DEF IInv
<1>. QED
  BY <1>1, Invariant, PTL

\* However they overlap, a caller whose transaction was answered finds it in the
\* connection it used: the commit loop resets the connection first.
THEOREM OwnWritesShown == Spec => []ReadYourWrites
<1>1. IInv => ReadYourWrites
  BY DEF IInv, Answers
<1>. QED
  BY <1>1, Invariant, PTL

-------------------------------------------------------------------------------
(* One writer after another *)

\* What a connection shows is no longer than what landed, and that no longer
\* than the value in memory; a writer that shows what it has in memory has
\* published what landed.
Settled(w) == /\ Len(w.shown) <= Len(w.landed) /\ Len(w.landed) <= Len(w.mem)
              /\ w.mem = w.shown => w.landed = w.shown

\* The writer of c does nothing any more, and takes no requests.
Dormant(c) == ~conns[c].wopen /\ ~Busy(c)

AllSettled == \A c \in 1..Len(conns) : Settled(conns[c])

\* Without rivals only the connection made last can write, and what its writer
\* set the branch key to is what the branch key is.
LastWrites ==
    ~rivals => /\ \A c \in 1..Len(conns) : c # Len(conns) => Dormant(c)
               /\ Len(conns) # 0 => head = conns[Len(conns)].landed
               /\ \A t \in Tx : answer[t] = "ok" => t \in Range(head)

\* A step that changes no value of a writer, and wakes none.
LEMMA ValuesKept ==
    ASSUME IInv, AllSettled, LastWrites, UNCHANGED <<head, rivals>>,
           Len(conns') = Len(conns),
           \A c \in 1..Len(conns) : /\ conns'[c].shown = conns[c].shown
                                    /\ conns'[c].landed = conns[c].landed
                                    /\ conns'[c].mem = conns[c].mem
                                    /\ Dormant(c) => Dormant(c)',
           \A t \in Tx : answer'[t] = "ok" => answer[t] = "ok"
    PROVE  AllSettled' /\ LastWrites'
<1>1. Len(conns) \in Nat
  BY DEF IInv, Types, TypeOK
<1>2. AllSettled'
  BY DEF AllSettled, Settled
<1>3. LastWrites'
  <2> SUFFICES ASSUME ~rivals
               PROVE  /\ \A c \in 1..Len(conns) : c # Len(conns) => Dormant(c)'
                      /\ Len(conns) # 0 => head = conns'[Len(conns)].landed
                      /\ \A t \in Tx : answer'[t] = "ok" => t \in Range(head)
    BY DEF LastWrites
  <2>1. Len(conns) # 0 => Len(conns) \in 1..Len(conns)
    BY <1>1
  <2>. QED
    BY <2>1 DEF LastWrites
<1>. QED
  BY <1>2, <1>3

\* A writer that takes a step other than from its queue has something in memory
\* that it does not show.
LEMMA WriterBusy ==
    ASSUME IInv, AllSettled, NEW c \in DOMAIN conns, Writer(c)
    PROVE  Busy(c)
<1>1. Settled(conns[c])
  BY WriterFacts DEF AllSettled
<1>. QED
  BY <1>1 DEF Settled, Writer, Process, Commit, Publish, CommitError, Busy

\* A step of a busy writer: it writes what it has landed, and answers for it.
LEMMA BusyWriter ==
    ASSUME IInv, AllSettled, LastWrites, NEW c \in 1..Len(conns), Busy(c), NEW w \in Writers,
           conns' = [conns EXCEPT ![c] = w], rivals' = rivals, Settled(w),
           Range(conns[c].landed) \subseteq Range(w.landed),
           head' = w.landed \/ (head' = head /\ w.landed = conns[c].landed),
           \A t \in Tx : answer'[t] = "ok" => answer[t] = "ok" \/ t \in Range(w.landed)
    PROVE  AllSettled' /\ LastWrites'
<1>1. /\ conns \in Seq(Writers) /\ Len(conns) \in Nat
      /\ Len(conns') = Len(conns)
      /\ \A d \in 1..Len(conns) : conns'[d] = IF d = c THEN w ELSE conns[d]
  BY DEF IInv, Types, TypeOK
<1>2. AllSettled'
  BY <1>1 DEF AllSettled
<1>3. LastWrites'
  <2> SUFFICES ASSUME ~rivals
               PROVE  /\ \A d \in 1..Len(conns) : d # Len(conns) => Dormant(d)'
                      /\ Len(conns) # 0 => head' = conns'[Len(conns)].landed
                      /\ \A t \in Tx : answer'[t] = "ok" => t \in Range(head')
    BY <1>1 DEF LastWrites
  <2>1. c = Len(conns) /\ head = conns[c].landed
    <3>1. c = Len(conns)
      BY DEF LastWrites, Dormant
    <3>2. Len(conns) # 0
      BY <1>1
    <3>. QED
      BY <3>1, <3>2 DEF LastWrites
  <2>2. head' = w.landed
    BY <2>1
  <2>3. \A d \in 1..Len(conns) : d # c => (Dormant(d) => Dormant(d)')
    BY <1>1 DEF Dormant, Busy
  <2>4. \A t \in Tx : answer[t] = "ok" => t \in Range(head)
    BY DEF LastWrites
  <2>5. \A d \in 1..Len(conns) : d # Len(conns) => Dormant(d)'
    BY <2>1, <2>3 DEF LastWrites
  <2>. QED
    BY <1>1, <2>1, <2>2, <2>4, <2>5
<1>. QED
  BY <1>2, <1>3

LEMMA WriterValues ==
    ASSUME IInv, AllSettled, LastWrites, NEW c \in DOMAIN conns, Writer(c)
    PROVE  AllSettled' /\ LastWrites'
<1>1. /\ c \in 1..Len(conns) /\ conns[c] \in Writers /\ Ordered(conns[c])
      /\ answer \in [Tx -> {"none", "waiting", "ok", "failed"}]
      /\ Busy(c) /\ Settled(conns[c]) /\ DOMAIN answer = Tx
  BY WriterFacts, WriterBusy DEF AllSettled
<1>2. /\ conns[c].mem \in Seq(Tx) /\ conns[c].landed \in Seq(Tx)
      /\ conns[c].shown \in Seq(Tx) /\ conns[c].queue \in Seq(Tx)
  BY <1>1 DEF Writers
<1>3. CASE Process(c)
  <2> DEFINE t == Head(conns[c].queue)
             m == IF conns[c].open /\ ~conns[c].broken THEN Append(conns[c].mem, t)
                  ELSE conns[c].mem
             w == [conns[c] EXCEPT !.queue = Tail(conns[c].queue), !.mem = m]
  <2>1. t \in Tx /\ Tail(conns[c].queue) \in Seq(Tx)
    BY <1>2, <1>3 DEF Process
  <2>2. conns' = [conns EXCEPT ![c] = w] /\ head' = head /\ rivals' = rivals
    BY <1>1, <1>3 DEF Process, histVars
  <2>3. \A u \in Tx : answer'[u] = "ok" => answer[u] = "ok"
    BY <1>1, <1>3, <2>1 DEF Process
  <2>4. m \in Seq(Tx) /\ (m = conns[c].mem \/ Len(m) = Len(conns[c].mem) + 1)
    <3>. HIDE DEF t
    <3>. QED
      BY <1>2, <2>1
  <2>. HIDE DEF t, m
  <2>5. /\ w \in Writers /\ w.shown = conns[c].shown /\ w.landed = conns[c].landed
        /\ w.mem = m
    BY <1>1, <2>1, <2>4 DEF Writers
  <2>. HIDE DEF w
  <2>6. Settled(w)
    BY <1>1, <1>2, <2>4, <2>5 DEF Settled
  <2>. QED
    BY <1>1, <2>2, <2>3, <2>5, <2>6, BusyWriter
<1>4. CASE Commit(c)
  <2> DEFINE w == [conns[c] EXCEPT !.landed = conns[c].mem]
  <2>1. /\ conns' = [conns EXCEPT ![c] = w] /\ head' = conns[c].mem
        /\ rivals' = rivals /\ answer' = answer
    BY <1>1, <1>4 DEF Commit, histVars, txVars
  <2>2. /\ w \in Writers /\ w.shown = conns[c].shown /\ w.landed = conns[c].mem
        /\ w.mem = conns[c].mem
    BY <1>1, <1>2 DEF Writers
  <2>. HIDE DEF w
  <2>3. Settled(w) /\ Range(conns[c].landed) \subseteq Range(w.landed)
    BY <1>1, <1>2, <2>2 DEF Settled, Ordered
  <2>. QED
    BY <1>1, <2>1, <2>2, <2>3, BusyWriter
<1>5. CASE Publish(c)
  <2> DEFINE w == [conns[c] EXCEPT !.shown = conns[c].landed, !.open = TRUE]
  <2>1. /\ conns' = [conns EXCEPT ![c] = w] /\ head' = head /\ rivals' = rivals
        /\ answer' = [t \in Tx |-> IF t \in Waiting(c, conns[c].landed) THEN "ok"
                                   ELSE answer[t]]
    BY <1>1, <1>5 DEF Publish, histVars
  <2>2. /\ w \in Writers /\ w.shown = conns[c].landed /\ w.landed = conns[c].landed
        /\ w.mem = conns[c].mem
    BY <1>1, <1>2 DEF Writers
  <2>. HIDE DEF w
  <2>3. Settled(w)
    BY <1>1, <1>2, <2>2 DEF Settled
  <2>4. \A t \in Tx : answer'[t] = "ok" => answer[t] = "ok" \/ t \in Range(w.landed)
    BY <2>1, <2>2 DEF Waiting
  <2>. QED
    BY <1>1, <2>1, <2>2, <2>3, <2>4, BusyWriter
<1>6. CASE CommitError(c)
  <2> DEFINE w == [conns[c] EXCEPT !.broken = TRUE, !.wopen = FALSE]
  <2>1. /\ conns' = [conns EXCEPT ![c] = w] /\ head' = head /\ rivals' = rivals
        /\ answer' = [t \in Tx |-> IF t \in Waiting(c, conns[c].mem) THEN "failed"
                                   ELSE answer[t]]
    BY <1>1, <1>6 DEF CommitError, histVars
  <2>2. /\ w \in Writers /\ w.shown = conns[c].shown /\ w.landed = conns[c].landed
        /\ w.mem = conns[c].mem
    BY <1>1, <1>2 DEF Writers
  <2>. HIDE DEF w
  <2>3. Settled(w) /\ \A t \in Tx : answer'[t] = "ok" => answer[t] = "ok"
    BY <1>1, <2>1, <2>2 DEF Settled
  <2>. QED
    BY <1>1, <2>1, <2>2, <2>3, BusyWriter
<1>. QED
  BY <1>3, <1>4, <1>5, <1>6 DEF Writer

\* connect makes a connection with its writer: without rivals every other writer
\* is done.
LEMMA MakeValues ==
    ASSUME IInv, AllSettled, LastWrites, NEW p \in Caller, Make(p)
    PROVE  AllSettled' /\ LastWrites'
<1> DEFINE v == call[p].loaded
           w == Connection(v)
           n == Len(conns) + 1
<1>1. /\ UNCHANGED <<head, answer>> /\ conns' = Append(conns, w)
      /\ rivals' = \/ rivals \/ head # v
                   \/ \E c \in DOMAIN conns : conns[c].wopen \/ Busy(c)
  BY DEF Make, txVars
<1>2. conns \in Seq(Writers) /\ Len(conns) \in Nat /\ v \in Seq(Tx)
  BY CallFacts DEF IInv, Types, TypeOK
<1>3. w \in Writers /\ w.mem = v /\ w.landed = v /\ w.shown = v
  BY <1>2 DEF Connection, Writers
<1>. HIDE DEF v, w
<1>4. /\ Len(conns') = n /\ n \in Nat /\ conns'[n] = w
      /\ \A c \in 1..Len(conns) : conns'[c] = conns[c]
      /\ \A c \in 1..n : c = n \/ c \in 1..Len(conns)
      /\ DOMAIN conns = 1..Len(conns)
  BY <1>1, <1>2, <1>3
<1>5. AllSettled'
  <2>1. Settled(w)
    BY <1>2, <1>3 DEF Settled
  <2>. QED
    BY <1>4, <2>1 DEF AllSettled
<1>. HIDE DEF n
<1>6. LastWrites'
  <2> SUFFICES ASSUME ~rivals'
               PROVE  /\ \A c \in 1..n : c # n => Dormant(c)'
                      /\ head = conns'[n].landed
                      /\ \A t \in Tx : answer[t] = "ok" => t \in Range(head)
    BY <1>1, <1>4 DEF LastWrites
  <2>1. ~rivals /\ head = v /\ \A c \in 1..Len(conns) : ~conns[c].wopen /\ ~Busy(c)
    BY <1>1, <1>4
  <2>2. \A c \in 1..Len(conns) : Dormant(c)'
    BY <1>4, <2>1 DEF Dormant, Busy
  <2>. QED
    BY <1>3, <1>4, <2>1, <2>2 DEF LastWrites
<1>. QED
  BY <1>5, <1>6

\* Calls change no value, and put requests on open queues only.
LEMMA CallValues ==
    ASSUME IInv, AllSettled, LastWrites, NEW p \in Caller, Call(p)
    PROVE  AllSettled' /\ LastWrites'
<1>1. conns \in Seq(Writers) /\ Len(conns) \in Nat /\ DOMAIN conns = 1..Len(conns)
  BY DEF IInv, Types, TypeOK
<1>2. CASE Make(p)
  BY <1>2, MakeValues
<1>3. ASSUME UNCHANGED <<conns, head, rivals, answer>> PROVE AllSettled' /\ LastWrites'
  BY <1>3, ValuesKept DEF Dormant, Busy
<1>4. CASE DeleteReset(p)
  <2> DEFINE d == call[p].seen
             w == [conns[d] EXCEPT !.open = FALSE]
  <2>1. UNCHANGED <<head, rivals, answer>> /\ conns' = [conns EXCEPT ![d] = w]
    BY <1>4 DEF DeleteReset, txVars
  <2>2. d \in 1..Len(conns)
    <3>1. d \in 0..Len(conns) /\ d # 0
      BY <1>4, CallFacts DEF DeleteReset, At, SeenSteps
    <3>. QED
      BY <1>1, <3>1
  <2>3. conns[d] \in Writers
    BY <1>1, <2>2
  <2>4. /\ w.shown = conns[d].shown /\ w.landed = conns[d].landed /\ w.mem = conns[d].mem
        /\ w.wopen = conns[d].wopen /\ w.queue = conns[d].queue
        /\ w.broken = conns[d].broken
    BY <2>3 DEF Writers
  <2>. HIDE DEF d, w
  <2>5. /\ Len(conns') = Len(conns)
        /\ \A c \in 1..Len(conns) : conns'[c] = IF c = d THEN w ELSE conns[c]
    BY <1>1, <2>1, <2>2
  <2>6. \A c \in 1..Len(conns) : Dormant(c) => Dormant(c)'
    BY <2>4, <2>5 DEF Dormant, Busy
  <2>. QED
    BY <2>1, <2>4, <2>5, <2>6, ValuesKept
<1>5. CASE Shutdown(p)
  <2> DEFINE d == mine[p]
             w == ShutDown(conns[d])
  <2>1. UNCHANGED <<head, rivals, answer>> /\ d \in 1..Len(conns)
    BY <1>1, <1>5, CallFacts DEF Shutdown, txVars, histVars, IInv, Types, TypeOK, At
  <2>2. conns' = [conns EXCEPT ![d] = w]
    BY <1>1, <1>5, <2>1 DEF Shutdown
  <2>3. conns[d] \in Writers
    BY <1>1, <2>1
  <2>4. /\ w.shown = conns[d].shown /\ w.landed = conns[d].landed /\ w.mem = conns[d].mem
        /\ ~w.wopen /\ w.queue = conns[d].queue /\ w.broken = conns[d].broken
    BY <2>3 DEF Writers, ShutDown
  <2>. HIDE DEF d, w
  <2>5. /\ Len(conns') = Len(conns)
        /\ \A c \in 1..Len(conns) : conns'[c] = IF c = d THEN w ELSE conns[c]
    BY <1>1, <2>1, <2>2
  <2>6. \A c \in 1..Len(conns) : Dormant(c) => Dormant(c)'
    BY <2>4, <2>5 DEF Dormant, Busy
  <2>. QED
    BY <2>1, <2>4, <2>5, <2>6, ValuesKept
<1>6. ASSUME NEW t \in Tx, Transact(p, t) PROVE AllSettled' /\ LastWrites'
  <2> DEFINE d == mine[p]
             q == IF conns[d].wopen THEN Append(conns[d].queue, t) ELSE conns[d].queue
             w == [conns[d] EXCEPT !.queue = q]
  <2>1. /\ UNCHANGED <<head, rivals>> /\ d \in 1..Len(conns)
        /\ answer' = [answer EXCEPT ![t] = "waiting"] /\ DOMAIN answer = Tx
    BY <1>1, <1>6, CallFacts DEF Transact, histVars, IInv, Types, TypeOK
  <2>2. conns' = [conns EXCEPT ![d] = w]
    BY <1>1, <1>6, <2>1 DEF Transact
  <2>3. conns[d] \in Writers
    BY <1>1, <2>1
  <2>4. /\ w.shown = conns[d].shown /\ w.landed = conns[d].landed /\ w.mem = conns[d].mem
        /\ w.wopen = conns[d].wopen /\ (~w.wopen => w.queue = conns[d].queue)
        /\ w.broken = conns[d].broken
    <3>. HIDE DEF d
    <3>. QED
      BY <2>3 DEF Writers
  <2>. HIDE DEF d, w
  <2>5. /\ Len(conns') = Len(conns)
        /\ \A c \in 1..Len(conns) : conns'[c] = IF c = d THEN w ELSE conns[c]
    BY <1>1, <2>1, <2>2
  <2>6. \A c \in 1..Len(conns) : Dormant(c) => Dormant(c)'
    BY <2>4, <2>5 DEF Dormant, Busy
  <2>7. \A u \in Tx : answer'[u] = "ok" => answer[u] = "ok"
    BY <2>1
  <2>. QED
    BY <2>1, <2>4, <2>5, <2>6, <2>7, ValuesKept
<1>7. CASE \/ Connect(p) \/ Count(p) \/ Check(p) \/ Load(p)
           \/ \E all \in BOOLEAN : Release(p, all)
           \/ HasEntry(p) \/ Decrement(p) \/ DeleteLookup(p) \/ DeleteCount(p)
           \/ DeleteDissoc(p) \/ DeleteDatabase(p) \/ Drop(p)
  <2>1. UNCHANGED <<conns, head, rivals, answer>>
    BY <1>7 DEF Connect, Count, Check, Load, Release, HasEntry, Decrement, DeleteLookup,
                DeleteCount, DeleteDissoc, DeleteDatabase, Drop, txVars, histVars
  <2>. QED
    BY <2>1, <1>3
<1>. QED
  BY <1>2, <1>4, <1>5, <1>6, <1>7 DEF Call

LEMMA ValuesInv == Spec => [](AllSettled /\ LastWrites)
<1>1. Init => AllSettled /\ LastWrites
  BY DEF Init, AllSettled, LastWrites
<1>2. IInv /\ AllSettled /\ LastWrites /\ [Next]_vars => (AllSettled /\ LastWrites)'
  <2> SUFFICES ASSUME IInv, AllSettled, LastWrites, [Next]_vars
               PROVE  AllSettled' /\ LastWrites'
    OBVIOUS
  <2>1. CASE UNCHANGED vars
    BY <2>1, ValuesKept DEF vars, txVars, histVars, Dormant, Busy
  <2>. QED
    BY <2>1, CallValues, WriterValues DEF Next
<1>. QED
  BY <1>1, <1>2, Invariant, PTL DEF Spec

\* With one writer at a time nothing that was acknowledged is lost, over any
\* number of connections: each starts from the value of the branch key, and no
\* other writes after it.
THEOREM OneWriterDurable == Spec => []AckedDurable
<1>1. LastWrites => AckedDurable
  BY DEF LastWrites, AckedDurable
<1>. QED
  BY <1>1, ValuesInv, PTL

-------------------------------------------------------------------------------
(* Calls that do not overlap *)

Holders(c) == {p \in Caller : mine[p] = c}

Releasing(p) == call[p].step \in {"entry", "entryAll", "dec", "decAll"}
Deleting(p) == call[p].step \in {"lookup", "inc", "reset", "dissoc"}
Counting(p) == call[p].step \in {"count", "check"}

\* What the one call there is knows of the registry.
CallOK(p) ==
    /\ Counting(p) \/ Releasing(p) \/ Deleting(p) => Registered
    /\ call[p].step \in {"load", "make", "shutdown", "drop"} => ~Registered
    /\ call[p].step \in {"count", "check", "inc", "reset", "dissoc"} =>
          call[p].seen = registry.conn
    /\ Counting(p) \/ call[p].step \in {"load", "make"} => mine[p] = 0
    /\ At(p, "make") => exists /\ call[p].loaded = head
    /\ Releasing(p) => call[p].then = "shutdown" /\ mine[p] = registry.conn
    /\ At(p, "entryAll") \/ At(p, "decAll") => forced
    /\ Deleting(p) => \/ call[p].then = "shutdown" /\ mine[p] = registry.conn
                      \/ call[p].then = "drop" /\ forced
    /\ Deleting(p) => \A q \in Caller : q # p /\ mine[q] = registry.conn => forced
    /\ At(p, "dissoc") => ~conns[registry.conn].open

\* Calls do not overlap.
Alone == \A p, q \in Caller : ~Idle(p) /\ ~Idle(q) => p = q

\* Only the registered connection is open, and one that is not has nothing to do.
OnlyOpen == \A c \in 1..Len(conns) : conns[c].open => registry.conn = c
ClosedDone == \A c \in 1..Len(conns) : ~conns[c].open => ~Busy(c)

\* A writer that takes requests is that of the registered connection, or the
\* call under way will shut it down or end the database.
Reached ==
    exists => \A c \in 1..Len(conns) : conns[c].wopen =>
        \/ registry.conn = c
        \/ \E p \in Caller : At(p, "drop") \/ (At(p, "shutdown") /\ mine[p] = c)

\* A connection in the hands of a caller is the registered one, or was released
\* for all.
HeldOK == \A p \in Caller : mine[p] \notin {0, registry.conn} => forced \/ At(p, "shutdown")

\* The count of the entry, while it is not about to be removed.
CountOK ==
    Registered /\ (\A p \in Caller : ~Deleting(p)) =>
        registry.count = Cardinality(Holders(registry.conn))
                            + IF \E p \in Caller : At(p, "check") THEN 1 ELSE 0

Calm == /\ Alone /\ OnlyOpen /\ ClosedDone /\ Reached /\ HeldOK /\ CountOK
        /\ \A p \in Caller : CallOK(p)
        /\ ~rivals

OthersIdle(p) == \A q \in Caller : q # p => Idle(q)

\* What is known of a caller that is in no call.
LEMMA IdleFacts ==
    ASSUME NEW q, Idle(q)
    PROVE  /\ call[q].step = "idle" /\ CallOK(q)
           /\ \A s : At(q, s) => s = "idle"
  BY DEF Idle, NoCall, NewCall, CallOK, Counting, Releasing, Deleting, At

LEMMA IdleAfter ==
    ASSUME NEW q, Idle(q)'
    PROVE  call'[q].step = "idle" /\ CallOK(q)'
  BY DEF Idle, NoCall, NewCall, CallOK, Counting, Releasing, Deleting, At

\* A caller in a call is alone in one.
LEMMA AloneIn ==
    ASSUME Calm, NEW p \in Caller, call[p].step # "idle"
    PROVE  OthersIdle(p) /\ \A q \in Caller : q # p => call[q].step = "idle"
<1>1. OthersIdle(p)
  BY DEF Calm, Alone, OthersIdle, Idle, NoCall, NewCall
<1>. QED
  BY <1>1, IdleFacts DEF OthersIdle

\* A call that does not disturb begins when all callers are idle.
LEMMA BeginFacts ==
    ASSUME NEW p \in Caller, NEW k, Begin(p, k), ~disturbed'
    PROVE  /\ ~disturbed /\ \A q \in Caller : Idle(q) /\ call[q].step = "idle"
           /\ call' = [call EXCEPT ![p] = k]
<1>1. \A q \in Caller : Idle(q)
  BY DEF Begin
<1>. QED
  BY <1>1, IdleFacts DEF Begin

\* The step of the one call there is, its parts.
LEMMA CalmCall ==
    ASSUME IInv, NEW p \in Caller, NEW k, call' = [call EXCEPT ![p] = k], OthersIdle(p),
           CallOK(p)', OnlyOpen', ClosedDone', Reached', HeldOK', CountOK', ~rivals'
    PROVE  Calm'
<1>1. DOMAIN call = Caller
  BY CallFacts
<1>2. \A q \in Caller : q # p => Idle(q)'
  BY <1>1 DEF OthersIdle, Idle
<1>3. Alone'
  BY <1>2 DEF Alone
<1>4. \A q \in Caller : CallOK(q)'
  BY <1>2, IdleAfter
<1>. QED
  BY <1>3, <1>4 DEF Calm

\* The callers after such a step.
LEMMA After ==
    ASSUME IInv, NEW p \in Caller, NEW k, call' = [call EXCEPT ![p] = k], OthersIdle(p)
    PROVE  /\ call'[p] = k
           /\ \A q \in Caller : q # p => /\ call[q].step = "idle"
                                         /\ call'[q].step = "idle"
<1>1. DOMAIN call = Caller
  BY CallFacts
<1>2. \A q \in Caller : q # p => Idle(q)'
  BY <1>1 DEF OthersIdle, Idle
<1>. QED
  BY <1>1, <1>2, IdleFacts, IdleAfter DEF OthersIdle

LEMMA AfterEnd ==
    ASSUME IInv, NEW p \in Caller, call' = [call EXCEPT ![p] = NoCall], OthersIdle(p)
    PROVE  call'[p] = NoCall /\ \A q \in Caller : call'[q].step = "idle"
<1>1. NoCall.step = "idle"
  BY DEF NoCall, NewCall
<1>2. /\ call'[p] = NoCall
      /\ \A q \in Caller : q # p => call'[q].step = "idle"
  <2> DEFINE k == NoCall
  <2>1. call' = [call EXCEPT ![p] = k]
    OBVIOUS
  <2>. HIDE DEF k
  <2>2. call'[p] = k /\ \A q \in Caller : q # p => call'[q].step = "idle"
    BY <2>1, After
  <2>. QED
    BY <2>2 DEF k
<1>. QED
  BY <1>1, <1>2

\* A step that leaves the connections and who holds them alone.
LEMMA CalmSame ==
    ASSUME IInv, Calm, NEW p \in Caller, NEW k, call' = [call EXCEPT ![p] = k],
           OthersIdle(p), call[p].step \notin {"shutdown", "drop"},
           UNCHANGED <<conns, head, exists, mine, rivals>>, registry'.conn = registry.conn,
           forced => forced', CallOK(p)', CountOK'
    PROVE  Calm'
<1>1. \A q \in Caller : call[q].step \notin {"shutdown", "drop"}
  BY After
<1>2. OnlyOpen' /\ ClosedDone' /\ ~rivals'
  BY DEF Calm, OnlyOpen, ClosedDone, Busy
<1>3. Reached'
  BY <1>1 DEF Calm, Reached, At
<1>4. HeldOK'
  BY <1>1 DEF Calm, HeldOK, At
<1>. QED
  BY <1>2, <1>3, <1>4, CalmCall

\* The count, when the registry and who holds what stay, and neither before nor
\* after a caller has counted what it does not hold yet.
LEMMA CountSame ==
    ASSUME IInv, Calm, NEW p \in Caller, NEW k, call' = [call EXCEPT ![p] = k],
           OthersIdle(p), UNCHANGED <<registry, mine>>,
           k.step # "check",
           (call[p].step # "check" /\ ~Deleting(p)) \/ k.step \in {"lookup", "inc", "reset", "dissoc"}
    PROVE  CountOK'
<1>1. /\ call'[p] = k
      /\ \A q \in Caller : q # p => call[q].step = "idle" /\ call'[q].step = "idle"
  BY After
<1>2. CASE k.step \in {"lookup", "inc", "reset", "dissoc"}
  BY <1>1, <1>2 DEF CountOK, Deleting
<1>3. CASE call[p].step # "check" /\ ~Deleting(p)
  <2>1. ~\E q \in Caller : At(q, "check")
    BY <1>1, <1>3 DEF At
  <2>2. ~\E q \in Caller : At(q, "check")'
    BY <1>1 DEF At
  <2>3. \A q \in Caller : ~Deleting(q)
    BY <1>1, <1>3 DEF Deleting
  <2>4. Registered => registry.count = Cardinality(Holders(registry.conn)) + 0
    BY <2>1, <2>3 DEF Calm, CountOK
  <2>5. Holders(registry.conn)' = Holders(registry.conn)
    BY DEF Holders
  <2>6. Registered' => registry'.count = Cardinality(Holders(registry.conn)') + 0
    BY <2>4, <2>5 DEF Registered
  <2>. QED
    BY <2>2, <2>6 DEF CountOK
<1>. QED
  BY <1>2, <1>3

LEMMA ConnectCalm ==
    ASSUME IInv, Calm, NEW p \in Caller, Connect(p), ~disturbed'
    PROVE  Calm'
<1> DEFINE s == IF Registered THEN "count" ELSE "load"
           k == NewCall(s, registry.conn, "idle")
<1>1. /\ UNCHANGED <<registry, conns, head, exists, mine, forced, rivals>>
      /\ mine[p] = 0 /\ call' = [call EXCEPT ![p] = k]
      /\ \A q \in Caller : Idle(q) /\ call[q].step = "idle"
  BY BeginFacts DEF Connect
<1>2. /\ k.step = s /\ k.seen = registry.conn /\ k.then = "idle"
      /\ s \in {"count", "load"} /\ (s = "count" <=> Registered)
  BY DEF NewCall
<1>. HIDE DEF s, k
<1>3. OthersIdle(p) /\ call'[p] = k
  BY <1>1, After DEF OthersIdle
<1>4. CallOK(p)'
  BY <1>1, <1>2, <1>3 DEF CallOK, Counting, Releasing, Deleting, At, Registered
<1>5. CountOK'
  <2>1. call[p].step # "check" /\ ~Deleting(p) /\ k.step # "check"
    BY <1>1, <1>2 DEF Deleting
  <2>. QED
    BY <1>1, <1>3, <2>1, CountSame
<1>. QED
  BY <1>1, <1>3, <1>4, <1>5, CalmSame

LEMMA HoldersCount == \A c : Cardinality(Holders(c)) \in Nat
<1> TAKE c
<1>1. IsFiniteSet(Holders(c))
  BY CallerAssumption, FS_Subset DEF Holders
<1>. QED
  BY <1>1, FS_CardinalityType

LEMMA CountCalm ==
    ASSUME IInv, Calm, NEW p \in Caller, Count(p)
    PROVE  Calm'
<1> DEFINE k == [call[p] EXCEPT !.step = "check"]
<1>1. /\ At(p, "count") /\ call[p].step = "count"
      /\ UNCHANGED <<conns, head, exists, forced, rivals>>
  BY DEF Count, At, txVars, histVars
<1>2. OthersIdle(p)
  BY <1>1, AloneIn
<1>3. /\ Registered /\ call[p].seen = registry.conn /\ mine[p] = 0
  BY <1>1 DEF Calm, CallOK, Counting
<1>4. registry' = Counted(registry) /\ mine' = mine /\ call' = [call EXCEPT ![p] = k]
  BY <1>3 DEF Count, Goto
<1>5. k.step = "check" /\ k.seen = registry.conn /\ k.then = call[p].then
  <2>1. "check" \in Steps
    BY DEF Steps
  <2>. QED
    BY <1>3, <2>1, GotoCall DEF IInv
<1>. HIDE DEF k
<1>6. /\ registry'.conn = registry.conn /\ registry'.count = registry.count + 1
      /\ registry.count \in Int /\ Registered'
  <2>1. registry.conn # 0 /\ registry.count \in Int
    BY <1>3, CallFacts DEF IInv, Types, TypeOK
  <2>. QED
    BY <1>4, <2>1 DEF Counted, Entry, Registered, None
<1>7. /\ call'[p] = k
      /\ \A q \in Caller : q # p => call[q].step = "idle" /\ call'[q].step = "idle"
  BY <1>2, <1>4, After
<1>8. CallOK(p)'
  BY <1>3, <1>4, <1>5, <1>6, <1>7 DEF CallOK, Counting, Releasing, Deleting, At
<1>9. CountOK'
  <2>1. ~\E q \in Caller : At(q, "check")
    BY <1>1, <1>7 DEF At
  <2>2. \A q \in Caller : ~Deleting(q)
    BY <1>1, <1>7 DEF Deleting
  <2>3. registry.count = Cardinality(Holders(registry.conn)) + 0
    BY <1>3, <2>1, <2>2 DEF Calm, CountOK
  <2>4. Holders(registry.conn)' = Holders(registry.conn)
    BY <1>4, <1>6 DEF Holders
  <2>5. \E q \in Caller : At(q, "check")'
    BY <1>5, <1>7 DEF At
  <2>6. registry'.count = Cardinality(Holders(registry.conn)') + 1
    BY <1>6, <2>3, <2>4, HoldersCount
  <2>. QED
    BY <2>5, <2>6 DEF CountOK
<1>. QED
  BY <1>1, <1>2, <1>4, <1>6, <1>8, <1>9, CalmSame

\* A caller that begins to hold connection c, and one that lets go of it.
LEMMA Held ==
    ASSUME IInv, NEW p \in Caller, NEW c, mine[p] # c, mine' = [mine EXCEPT ![p] = c]
    PROVE  Cardinality({q \in Caller : mine'[q] = c}) = Cardinality(Holders(c)) + 1
<1>1. {q \in Caller : mine'[q] = c} = Holders(c) \cup {p} /\ p \notin Holders(c)
  BY DEF Holders, IInv, Types, TypeOK
<1>2. IsFiniteSet(Holders(c))
  BY CallerAssumption, FS_Subset DEF Holders
<1>. QED
  BY <1>1, <1>2, FS_AddElement

LEMMA LetGo ==
    ASSUME IInv, NEW p \in Caller, NEW c, mine[p] = c, c # 0, mine' = [mine EXCEPT ![p] = 0]
    PROVE  Cardinality({q \in Caller : mine'[q] = c}) = Cardinality(Holders(c)) - 1
<1>1. {q \in Caller : mine'[q] = c} = Holders(c) \ {p} /\ p \in Holders(c)
  BY DEF Holders, IInv, Types, TypeOK
<1>2. IsFiniteSet(Holders(c))
  BY CallerAssumption, FS_Subset DEF Holders
<1>. QED
  BY <1>1, <1>2, FS_RemoveElement

LEMMA CheckCalm ==
    ASSUME IInv, Calm, NEW p \in Caller, Check(p)
    PROVE  Calm'
<1> DEFINE c == registry.conn
<1>1. /\ At(p, "check") /\ call[p].step = "check"
      /\ UNCHANGED <<registry, conns, head, exists, forced, rivals>>
  BY DEF Check, At, txVars, histVars
<1>2. /\ Registered /\ call[p].seen = c /\ mine[p] = 0 /\ c # 0 /\ c \in 1..Len(conns)
      /\ DOMAIN mine = Caller
  <2>1. Registered /\ call[p].seen = c /\ mine[p] = 0
    BY <1>1 DEF Calm, CallOK, Counting
  <2>2. c # 0 /\ c \in 0..Len(conns) /\ Len(conns) \in Nat /\ DOMAIN mine = Caller
    BY <2>1, CallFacts DEF IInv, Types, TypeOK
  <2>. QED
    BY <2>1, <2>2
<1>3. OthersIdle(p) /\ \A q \in Caller : q # p => call[q].step = "idle"
  BY <1>1, AloneIn
<1>4. conns[c].open
  <2>1. ~\E q \in Caller : At(q, "dissoc")
    BY <1>1, <1>3 DEF At
  <2>. QED
    BY <1>2, <2>1 DEF IInv, RegisteredOpen
<1>5. call' = [call EXCEPT ![p] = NoCall] /\ mine' = [mine EXCEPT ![p] = c]
  BY <1>2, <1>4 DEF Check, End
<1>. HIDE DEF c
<1>6. /\ call'[p] = NoCall /\ \A q \in Caller : call'[q].step = "idle"
  BY <1>3, <1>5, AfterEnd
<1>7. CallOK(p)'
  BY <1>6 DEF CallOK, Counting, Releasing, Deleting, At
<1>8. OnlyOpen' /\ ClosedDone' /\ ~rivals'
  BY <1>1 DEF Calm, OnlyOpen, ClosedDone, Busy
<1>9. Reached'
  BY <1>1, <1>3 DEF Calm, Reached, At
<1>10. HeldOK'
  <2> SUFFICES ASSUME NEW q \in Caller, mine'[q] \notin {0, registry.conn} PROVE forced
    BY <1>1 DEF HeldOK
  <2>1. q # p
    BY <1>2, <1>5 DEF c
  <2>. QED
    BY <1>2, <1>3, <1>5, <2>1 DEF Calm, HeldOK, At
<1>11. CountOK'
  <2>1. \E q \in Caller : At(q, "check")
    BY <1>1
  <2>2. \A q \in Caller : ~Deleting(q)
    BY <1>1, <1>3 DEF Deleting
  <2>3. registry.count = Cardinality(Holders(c)) + 1
    BY <1>2, <2>1, <2>2 DEF Calm, CountOK, c
  <2>4. registry'.count = Cardinality(Holders(registry.conn)') + 0
    <3>1. /\ Cardinality({q \in Caller : mine'[q] = c}) = Cardinality(Holders(c)) + 1
          /\ Cardinality(Holders(c)) \in Nat
      BY <1>2, <1>5, Held, HoldersCount
    <3>2. Holders(registry.conn)' = {q \in Caller : mine'[q] = c}
      BY <1>1 DEF Holders, c
    <3>. QED
      BY <1>1, <2>3, <3>1, <3>2
  <2>5. ~\E q \in Caller : At(q, "check")'
    BY <1>6 DEF At
  <2>. QED
    BY <2>4, <2>5 DEF CountOK
<1>. QED
  BY <1>3, <1>5, <1>7, <1>8, <1>9, <1>10, <1>11, CalmCall

LEMMA LoadCalm ==
    ASSUME IInv, Calm, NEW p \in Caller, Load(p)
    PROVE  Calm'
<1>1. /\ At(p, "load") /\ call[p].step = "load"
      /\ UNCHANGED <<registry, conns, head, exists, forced, rivals>>
  BY DEF Load, At, txVars, histVars
<1>2. ~Registered /\ mine[p] = 0 /\ DOMAIN mine = Caller
  BY <1>1 DEF Calm, CallOK, IInv, Types, TypeOK
<1>3. OthersIdle(p)
  BY <1>1, AloneIn
<1>4. ~Deleting(p) /\ call[p].step # "check"
  BY <1>1 DEF Deleting
<1>5. CASE exists
  <2> DEFINE k == [step |-> "make", seen |-> call[p].seen,
                   loaded |-> head, then |-> call[p].then]
  <2>1. call' = [call EXCEPT ![p] = k] /\ mine' = mine
    BY <1>5, CallFacts DEF Load
  <2>2. k.step = "make" /\ k.loaded = head
    OBVIOUS
  <2>. HIDE DEF k
  <2>3. call'[p] = k
    BY <1>3, <2>1, After
  <2>4. CallOK(p)'
    BY <1>1, <1>2, <1>5, <2>1, <2>2, <2>3
       DEF CallOK, Counting, Releasing, Deleting, At, Registered
  <2>5. CountOK'
    BY <1>1, <1>3, <1>4, <2>1, <2>2, CountSame
  <2>. QED
    BY <1>1, <1>3, <2>1, <2>4, <2>5, CalmSame
<1>6. CASE ~exists
  <2>1. call' = [call EXCEPT ![p] = NoCall] /\ mine' = mine
    BY <1>2, <1>6, SameMine DEF Load, End, IInv
  <2>2. NoCall.step = "idle"
    BY DEF NoCall, NewCall
  <2>3. CallOK(p)'
    BY <1>3, <2>1, <2>2, After DEF CallOK, Counting, Releasing, Deleting, At
  <2>4. CountOK'
    BY <1>1, <1>3, <1>4, <2>1, <2>2, CountSame
  <2>. QED
    BY <1>1, <1>3, <2>1, <2>3, <2>4, CalmSame
<1>. QED
  BY <1>5, <1>6

LEMMA MakeCalm ==
    ASSUME IInv, Calm, NEW p \in Caller, Make(p)
    PROVE  Calm'
<1> DEFINE c == Len(conns) + 1
           w == Connection(call[p].loaded)
<1>1. /\ At(p, "make") /\ call[p].step = "make"
      /\ UNCHANGED <<head, exists, forced>> /\ conns' = Append(conns, w)
      /\ registry' = [conn |-> c, count |-> 1]
      /\ call' = [call EXCEPT ![p] = NoCall] /\ mine' = [mine EXCEPT ![p] = c]
      /\ rivals' = \/ rivals \/ head # call[p].loaded
                   \/ \E d \in DOMAIN conns : conns[d].wopen \/ Busy(d)
  BY DEF Make, At, End, FirstEntry, Entry
<1>2. OthersIdle(p) /\ \A q \in Caller : q # p => call[q].step = "idle"
  BY <1>1, AloneIn
<1>3. /\ ~Registered /\ registry.conn = 0 /\ exists /\ call[p].loaded = head
      /\ mine[p] = 0
  BY <1>1 DEF Calm, CallOK, Registered, None
<1>4. /\ conns \in Seq(Writers) /\ Len(conns) \in Nat /\ mine \in [Caller -> 0..Len(conns)]
      /\ head \in Seq(Tx) /\ DOMAIN conns = 1..Len(conns)
  BY DEF IInv, Types, TypeOK
<1>5. w \in Writers /\ w.open
  BY <1>3, <1>4 DEF Connection, Writers
<1>. HIDE DEF w
<1>6. /\ Len(conns') = c /\ conns'[c] = w /\ c \in Nat \ {0}
      /\ \A d \in 1..Len(conns) : conns'[d] = conns[d] /\ d # c
      /\ \A d \in 1..c : d = c \/ d \in 1..Len(conns)
      /\ \A q \in Caller : mine[q] # c
      /\ \A d \in 1..Len(conns) : d # 0
  BY <1>1, <1>4, <1>5
<1>. HIDE DEF c
<1>7. \A d \in 1..Len(conns) : ~conns[d].open /\ ~conns[d].wopen /\ ~Busy(d)
  <2>1. \A d \in 1..Len(conns) : ~conns[d].open
    BY <1>3, <1>6 DEF Calm, OnlyOpen
  <2>2. \A d \in 1..Len(conns) : ~Busy(d)
    BY <2>1 DEF Calm, ClosedDone
  <2>3. ~\E q \in Caller : At(q, "drop") \/ At(q, "shutdown")
    BY <1>1, <1>2 DEF At
  <2>4. \A d \in 1..Len(conns) : ~conns[d].wopen
    BY <1>3, <1>6, <2>3 DEF Calm, Reached
  <2>. QED
    BY <2>1, <2>2, <2>4
<1>8. ~rivals'
  BY <1>1, <1>3, <1>4, <1>7 DEF Calm
<1>9. call'[p] = NoCall /\ \A q \in Caller : call'[q].step = "idle"
  BY <1>1, <1>2, AfterEnd
<1>10. CallOK(p)'
  BY <1>9 DEF CallOK, Counting, Releasing, Deleting, At
<1>11. OnlyOpen' /\ ClosedDone'
  <2>1. \A d \in 1..Len(conns) : conns'[d] = conns[d] /\ (Busy(d)' <=> Busy(d))
    BY <1>6 DEF Busy
  <2>2. OnlyOpen'
    BY <1>1, <1>6, <1>7 DEF OnlyOpen
  <2>3. ClosedDone'
    BY <1>5, <1>6, <1>7, <2>1 DEF ClosedDone
  <2>. QED
    BY <2>2, <2>3
<1>12. Reached'
  BY <1>1, <1>6, <1>7 DEF Reached
<1>13. HeldOK'
  <2> SUFFICES ASSUME NEW q \in Caller, mine'[q] \notin {0, c} PROVE forced
    BY <1>1 DEF HeldOK
  <2>. QED
    BY <1>1, <1>2, <1>3, <1>4 DEF Calm, HeldOK, At
<1>14. CountOK'
  <2>1. Cardinality(Holders(c)) = 0
    <3>1. Holders(c) = {}
      BY <1>6 DEF Holders
    <3>. QED
      BY <3>1, FS_EmptySet
  <2>2. Cardinality(Holders(registry.conn)') = 1
    <3>1. Cardinality({q \in Caller : mine'[q] = c}) = Cardinality(Holders(c)) + 1
      BY <1>1, <1>6, Held
    <3>2. Holders(registry.conn)' = {q \in Caller : mine'[q] = c}
      BY <1>1 DEF Holders
    <3>. QED
      BY <2>1, <3>1, <3>2
  <2>3. ~\E q \in Caller : At(q, "check")'
    BY <1>9 DEF At
  <2>4. registry'.count = Cardinality(Holders(registry.conn)') + 0
    BY <1>1, <2>2
  <2>. QED
    BY <2>3, <2>4 DEF CountOK
<1>. QED
  BY <1>1, <1>2, <1>8, <1>10, <1>11, <1>12, <1>13, <1>14, CalmCall

LEMMA ReleaseCalm ==
    ASSUME IInv, Calm, ~disturbed', NEW p \in Caller, NEW all \in BOOLEAN, Release(p, all)
    PROVE  Calm'
<1> DEFINE c == mine[p]
           s == IF all THEN "entryAll" ELSE "entry"
<1>1. /\ Idle(p) /\ c # 0 /\ forced' = (forced \/ all)
      /\ UNCHANGED <<registry, conns, head, exists, rivals>>
  BY DEF Release
<1>2. /\ c \in 1..Len(conns) /\ mine \in [Caller -> 0..Len(conns)] /\ DOMAIN call = Caller
  BY <1>1, CallFacts DEF IInv, Types, TypeOK
<1>3. CASE conns[c].open
  <2> DEFINE k == NewCall(s, 0, "shutdown")
  <2>1. /\ mine' = mine /\ call' = [call EXCEPT ![p] = k]
        /\ \A q \in Caller : Idle(q) /\ call[q].step = "idle"
    BY <1>3, BeginFacts DEF Release
  <2>2. k.step = s /\ k.then = "shutdown"
    BY DEF NewCall
  <2>. HIDE DEF k
  <2>3. OthersIdle(p) /\ call'[p] = k
    BY <2>1, After DEF OthersIdle
  <2>4. registry.conn = c /\ Registered
    BY <1>1, <1>2, <1>3 DEF Calm, OnlyOpen, Registered, None
  <2>5. CallOK(p)'
    BY <1>1, <2>1, <2>2, <2>3, <2>4
       DEF CallOK, Counting, Releasing, Deleting, At, Registered
  <2>6. CountOK'
    <3>1. call[p].step # "check" /\ ~Deleting(p) /\ k.step # "check"
      BY <2>1, <2>2 DEF Deleting
    <3>. QED
      BY <1>1, <2>1, <2>3, <3>1, CountSame
  <2>7. call[p].step \notin {"shutdown", "drop"} /\ (forced => forced')
    BY <1>1, <2>1
  <2>. QED
    BY <1>1, <2>1, <2>3, <2>5, <2>6, <2>7, CalmSame
<1>4. CASE ~conns[c].open
  <2>1. /\ mine' = [mine EXCEPT ![p] = 0] /\ call' = [call EXCEPT ![p] = NoCall]
    BY <1>4 DEF Release, End
  <2>2. call' = call
    <3>1. call \in [Caller -> Calls] /\ call[p] = NoCall
      BY <1>1 DEF Idle, IInv, Types, TypeOK
    <3>. QED
      BY <2>1, <3>1
  <2>3. \A q \in Caller : mine'[q] = IF q = p THEN 0 ELSE mine[q]
    BY <1>2, <2>1
  <2>4. call[p].step = "idle"
    BY <1>1, IdleFacts
  <2>5. Alone' /\ OnlyOpen' /\ ClosedDone' /\ ~rivals'
    BY <1>1, <2>2 DEF Calm, Alone, Idle, OnlyOpen, ClosedDone, Busy
  <2>6. Reached'
    BY <1>1, <2>2, <2>3, <2>4 DEF Calm, Reached, At
  <2>7. HeldOK'
    BY <1>1, <2>2, <2>3, <2>4 DEF Calm, HeldOK, At
  <2>8. ASSUME NEW q \in Caller PROVE CallOK(q)'
    <3>1. CallOK(q)
      BY DEF Calm
    <3>2. \A r \in Caller : mine'[r] = registry.conn => mine[r] = registry.conn \/ registry.conn = 0
      BY <2>3
    <3>3. Registered => registry.conn # 0
      BY CallFacts
    <3>4. CASE q = p
      BY <2>2, <2>4, <3>4 DEF CallOK, Counting, Releasing, Deleting, At
    <3>5. CASE q # p
      <4>1. mine'[q] = mine[q]
        BY <2>3, <3>5
      <4>. QED
        BY <1>1, <2>2, <3>1, <3>2, <3>3, <4>1
           DEF CallOK, Counting, Releasing, Deleting, At, Registered
    <3>. QED
      BY <3>4, <3>5
  <2>9. CountOK'
    <3> SUFFICES ASSUME Registered, \A q \in Caller : ~Deleting(q)
                 PROVE  registry.count = Cardinality(Holders(registry.conn)') +
                           IF \E q \in Caller : At(q, "check") THEN 1 ELSE 0
      BY <1>1, <2>2 DEF CountOK, Registered, Deleting, At
    <3>1. conns[registry.conn].open
      BY DEF IInv, RegisteredOpen, Deleting, At
    <3>2. registry.conn # c /\ registry.conn # 0
      BY <1>4, <3>1, CallFacts
    <3>3. Holders(registry.conn)' = Holders(registry.conn)
      BY <1>1, <2>3, <3>2 DEF Holders
    <3>. QED
      BY <3>3 DEF Calm, CountOK
  <2>. QED
    BY <2>5, <2>6, <2>7, <2>8, <2>9 DEF Calm
<1>. QED
  BY <1>3, <1>4

LEMMA HasEntryCalm ==
    ASSUME IInv, Calm, NEW p \in Caller, HasEntry(p)
    PROVE  Calm'
<1> DEFINE s == IF At(p, "entry") THEN "dec" ELSE "decAll"
           k == [call[p] EXCEPT !.step = s]
<1>1. /\ Releasing(p) /\ call[p].step \in {"entry", "entryAll"}
      /\ UNCHANGED <<registry, conns, head, exists, forced, rivals>>
  BY DEF HasEntry, At, Releasing, txVars, histVars
<1>2. OthersIdle(p)
  BY <1>1, AloneIn
<1>3. /\ Registered /\ call[p].then = "shutdown" /\ mine[p] = registry.conn
      /\ s = "decAll" => forced
  BY <1>1 DEF Calm, CallOK, At
<1>4. mine' = mine /\ call' = [call EXCEPT ![p] = k]
  BY <1>3 DEF HasEntry, Goto
<1>5. s \in Steps /\ s \in {"dec", "decAll"}
  BY DEF Steps
<1>6. k.step = s /\ k.then = "shutdown"
  <2>. HIDE DEF s
  <2>. QED
    BY <1>3, <1>5, GotoCall DEF IInv
<1>. HIDE DEF k, s
<1>7. call'[p] = k
  BY <1>2, <1>4, After
<1>8. CallOK(p)'
  BY <1>1, <1>3, <1>4, <1>5, <1>6, <1>7
     DEF CallOK, Counting, Releasing, Deleting, At, Registered
<1>9. CountOK'
  <2>1. call[p].step # "check" /\ ~Deleting(p) /\ k.step # "check"
    BY <1>1, <1>5, <1>6 DEF Deleting
  <2>. QED
    BY <1>1, <1>2, <1>4, <2>1, CountSame
<1>. QED
  BY <1>1, <1>2, <1>4, <1>8, <1>9, CalmSame

LEMMA DecrementCalm ==
    ASSUME IInv, Calm, NEW p \in Caller, Decrement(p)
    PROVE  Calm'
<1> DEFINE c == registry.conn
           n == registry.count - 1
<1>1. /\ Releasing(p) /\ call[p].step \in {"dec", "decAll"}
      /\ UNCHANGED <<conns, head, exists, forced, rivals>>
  BY DEF Decrement, At, Releasing, txVars, histVars
<1>2. OthersIdle(p) /\ \A q \in Caller : q # p => call[q].step = "idle"
  BY <1>1, AloneIn
<1>3. /\ Registered /\ call[p].then = "shutdown" /\ mine[p] = c
      /\ At(p, "decAll") => forced
  BY <1>1 DEF Calm, CallOK
<1>4. /\ registry' = [conn |-> c, count |-> n] /\ c # 0
      /\ registry.count \in Int /\ DOMAIN mine = Caller
  BY <1>3, CallFacts DEF Decrement, Entry, IInv, Types, TypeOK
<1>5. Registered'
  BY <1>4 DEF Registered, None
<1>6. registry.count = Cardinality(Holders(c))
  <2>1. ~\E q \in Caller : At(q, "check")
    BY <1>1, <1>2 DEF At
  <2>2. \A q \in Caller : ~Deleting(q)
    BY <1>1, <1>2 DEF Deleting
  <2>3. registry.count = Cardinality(Holders(c)) + 0
    BY <1>3, <2>1, <2>2 DEF Calm, CountOK
  <2>. QED
    BY <2>3, HoldersCount
<1>7. CASE At(p, "decAll") \/ IsLast(n)
  <2> DEFINE k == [call[p] EXCEPT !.step = "lookup"]
  <2>1. mine' = mine /\ call' = [call EXCEPT ![p] = k]
    BY <1>3, <1>7 DEF Decrement, Goto
  <2>2. k.step = "lookup" /\ k.then = "shutdown"
    <3>1. "lookup" \in Steps
      BY DEF Steps
    <3>. QED
      BY <1>3, <3>1, GotoCall DEF IInv
  <2>. HIDE DEF k
  <2>3. call'[p] = k
    BY <1>2, <2>1, After
  <2>4. \A q \in Caller : q # p /\ mine[q] = c => forced
    <3>1. CASE At(p, "decAll")
      BY <1>3, <3>1
    <3>2. CASE IsLast(n)
      <4>1. registry.count = 1
        BY <1>4, <3>2 DEF IsLast
      <4>2. IsFiniteSet(Holders(c))
        BY CallerAssumption, FS_Subset DEF Holders
      <4>3. PICK x : Holders(c) = {x}
        BY <1>6, <4>1, <4>2, FS_Singleton
      <4>. QED
        BY <1>3, <4>3 DEF Holders
    <3>. QED
      BY <1>7, <3>1, <3>2
  <2>. HIDE DEF c, n
  <2>5. CallOK(p)'
    BY <1>1, <1>3, <1>4, <1>5, <2>1, <2>2, <2>3, <2>4
       DEF CallOK, Counting, Releasing, Deleting, At
  <2>6. CountOK'
    BY <2>2, <2>3 DEF CountOK, Deleting
  <2>7. registry'.conn = registry.conn
    BY <1>4 DEF c
  <2>. QED
    BY <1>1, <1>2, <2>1, <2>5, <2>6, <2>7, CalmSame
<1>8. CASE ~(At(p, "decAll") \/ IsLast(n))
  <2>1. call' = [call EXCEPT ![p] = NoCall] /\ mine' = [mine EXCEPT ![p] = 0]
    BY <1>8 DEF Decrement, End
  <2>2. /\ call'[p] = NoCall /\ \A q \in Caller : call'[q].step = "idle"
    BY <1>2, <2>1, AfterEnd
  <2>. HIDE DEF c, n
  <2>3. registry'.conn = registry.conn /\ registry'.conn = c /\ registry'.count = n
    BY <1>4 DEF c
  <2>4. CallOK(p)'
    BY <2>2 DEF CallOK, Counting, Releasing, Deleting, At
  <2>5. OnlyOpen' /\ ClosedDone' /\ ~rivals'
    BY <1>1, <2>3 DEF Calm, OnlyOpen, ClosedDone, Busy
  <2>6. Reached'
    BY <1>1, <1>2, <2>3 DEF Calm, Reached, At
  <2>7. HeldOK'
    BY <1>1, <1>2, <1>4, <2>1, <2>3 DEF Calm, HeldOK, At
  <2>8. CountOK'
    <3>1. /\ Cardinality({q \in Caller : mine'[q] = c}) = Cardinality(Holders(c)) - 1
          /\ Cardinality(Holders(c)) \in Nat
      BY <1>3, <1>4, <2>1, LetGo, HoldersCount
    <3>2. Holders(registry.conn)' = {q \in Caller : mine'[q] = c}
      BY <2>3 DEF Holders
    <3>3. registry'.count = Cardinality(Holders(registry.conn)') + 0
      BY <1>6, <2>3, <3>1, <3>2 DEF n
    <3>4. ~\E q \in Caller : At(q, "check")'
      BY <2>2 DEF At
    <3>. QED
      BY <3>3, <3>4 DEF CountOK
  <2>. QED
    BY <1>2, <2>1, <2>4, <2>5, <2>6, <2>7, <2>8, CalmCall
<1>. QED
  BY <1>7, <1>8

\* A connection changes but for its values.
LEMMA ConnChanged ==
    ASSUME IInv, NEW d \in 1..Len(conns), NEW w \in Writers, conns' = [conns EXCEPT ![d] = w]
    PROVE  /\ Len(conns') = Len(conns)
           /\ \A c \in 1..Len(conns) : conns'[c] = IF c = d THEN w ELSE conns[c]
<1>1. conns \in Seq(Writers)
  BY DEF IInv, Types, TypeOK
<1>. QED
  BY <1>1

LEMMA ShutdownCalm ==
    ASSUME IInv, Calm, NEW p \in Caller, Shutdown(p)
    PROVE  Calm'
<1> DEFINE d == mine[p]
           w == ShutDown(conns[d])
<1>1. /\ At(p, "shutdown") /\ call[p].step = "shutdown"
      /\ UNCHANGED <<registry, head, exists, forced, rivals>>
      /\ call' = [call EXCEPT ![p] = NoCall] /\ mine' = [mine EXCEPT ![p] = 0]
  BY DEF Shutdown, At, End, txVars, histVars
<1>2. /\ conns \in Seq(Writers) /\ Len(conns) \in Nat /\ d \in 1..Len(conns)
      /\ DOMAIN mine = Caller
  BY <1>1, CallFacts DEF IInv, Types, TypeOK
<1>3. conns' = [conns EXCEPT ![d] = w] /\ conns[d] \in Writers
  BY <1>2 DEF Shutdown
<1>4. /\ w \in Writers /\ w.shown = conns[d].shown /\ w.mem = conns[d].mem
      /\ w.open = conns[d].open /\ w.queue = conns[d].queue
      /\ w.broken = conns[d].broken /\ ~w.wopen
  BY <1>3 DEF Writers, ShutDown
<1>5. OthersIdle(p) /\ \A q \in Caller : q # p => call[q].step = "idle"
  BY <1>1, AloneIn
<1>6. ~Registered /\ registry.conn = 0
  BY <1>1 DEF Calm, CallOK, Registered, None
<1>7. /\ call'[p] = NoCall /\ \A q \in Caller : call'[q].step = "idle"
  BY <1>1, <1>5, AfterEnd
<1>. HIDE DEF w
<1>8. /\ Len(conns') = Len(conns)
      /\ \A c \in 1..Len(conns) : conns'[c] = IF c = d THEN w ELSE conns[c]
  BY <1>2, <1>3, <1>4, ConnChanged
<1>9. CallOK(p)'
  BY <1>7 DEF CallOK, Counting, Releasing, Deleting, At
<1>10. OnlyOpen' /\ ClosedDone' /\ ~rivals'
  <2>1. \A c \in 1..Len(conns) : conns'[c].open = conns[c].open /\ (Busy(c)' <=> Busy(c))
    BY <1>4, <1>8 DEF Busy
  <2>. QED
    BY <1>1, <1>8, <2>1 DEF Calm, OnlyOpen, ClosedDone
<1>11. Reached'
  <2> SUFFICES ASSUME exists, NEW c \in 1..Len(conns), conns'[c].wopen PROVE FALSE
    BY <1>1, <1>8 DEF Reached
  <2>1. c # d /\ conns[c].wopen
    BY <1>4, <1>8
  <2>2. registry.conn # c
    BY <1>2, <1>6
  <2>3. ~\E q \in Caller : At(q, "drop") \/ (At(q, "shutdown") /\ mine[q] = c)
    BY <1>1, <1>5, <2>1 DEF At
  <2>. QED
    BY <2>1, <2>2, <2>3 DEF Calm, Reached
<1>12. HeldOK'
  BY <1>1, <1>2, <1>5 DEF Calm, HeldOK, At
<1>13. CountOK'
  BY <1>1, <1>6 DEF CountOK, Registered, None
<1>. QED
  BY <1>1, <1>5, <1>9, <1>10, <1>11, <1>12, <1>13, CalmCall

LEMMA DeleteLookupCalm ==
    ASSUME IInv, Calm, NEW p \in Caller, DeleteLookup(p)
    PROVE  Calm'
<1> DEFINE k == [call[p] EXCEPT !.step = "inc", !.seen = registry.conn]
<1>1. /\ At(p, "lookup") /\ call[p].step = "lookup" /\ Deleting(p)
      /\ UNCHANGED <<registry, conns, head, exists, mine, forced, rivals>>
  BY DEF DeleteLookup, At, Deleting, txVars, histVars
<1>2. OthersIdle(p)
  BY <1>1, AloneIn
<1>3. Registered
  BY <1>1 DEF Calm, CallOK
<1>4. DOMAIN call = Caller /\ call[p] \in Calls
  BY DEF IInv, Types, TypeOK
<1>5. call' = [call EXCEPT ![p] = k]
  BY <1>3, <1>4 DEF DeleteLookup
<1>6. k.step = "inc" /\ k.seen = registry.conn /\ k.then = call[p].then
  BY <1>4 DEF Calls
<1>. HIDE DEF k
<1>7. call'[p] = k
  BY <1>2, <1>5, After
<1>8. CallOK(p)'
  <2>1. CallOK(p)
    BY DEF Calm
  <2>. QED
    BY <1>1, <1>3, <1>6, <1>7, <2>1
       DEF CallOK, Counting, Releasing, Deleting, At, Registered
<1>9. CountOK'
  BY <1>1, <1>2, <1>5, <1>6, CountSame
<1>. QED
  BY <1>1, <1>2, <1>5, <1>8, <1>9, CalmSame

LEMMA DeleteCountCalm ==
    ASSUME IInv, Calm, NEW p \in Caller, DeleteCount(p)
    PROVE  Calm'
<1> DEFINE k == [call[p] EXCEPT !.step = "reset"]
<1>1. /\ At(p, "inc") /\ call[p].step = "inc" /\ Deleting(p)
      /\ UNCHANGED <<conns, head, exists, forced, rivals>>
  BY DEF DeleteCount, At, Deleting, txVars, histVars
<1>2. OthersIdle(p)
  BY <1>1, AloneIn
<1>3. Registered /\ CallOK(p)
  BY <1>1 DEF Calm, CallOK
<1>4. registry' = Counted(registry) /\ mine' = mine /\ call' = [call EXCEPT ![p] = k]
  BY <1>3 DEF DeleteCount, Goto
<1>5. k.step = "reset" /\ k.seen = call[p].seen /\ k.then = call[p].then
  <2>1. "reset" \in Steps
    BY DEF Steps
  <2>. QED
    BY <2>1, GotoCall DEF IInv
<1>. HIDE DEF k
<1>6. registry'.conn = registry.conn /\ Registered'
  <2>1. registry.conn # 0
    BY <1>3, CallFacts
  <2>. QED
    BY <1>4, <2>1 DEF Counted, Entry, Registered, None
<1>7. call'[p] = k
  BY <1>2, <1>4, After
<1>8. CallOK(p)'
  BY <1>1, <1>3, <1>4, <1>5, <1>6, <1>7
     DEF CallOK, Counting, Releasing, Deleting, At
<1>9. CountOK'
  BY <1>5, <1>7 DEF CountOK, Deleting
<1>. QED
  BY <1>1, <1>2, <1>4, <1>6, <1>8, <1>9, CalmSame

LEMMA DeleteResetCalm ==
    ASSUME IInv, Calm, ~disturbed', NEW p \in Caller, DeleteReset(p)
    PROVE  Calm'
<1> DEFINE d == registry.conn
           w == [conns[d] EXCEPT !.open = FALSE]
           k == [call[p] EXCEPT !.step = "dissoc"]
<1>1. /\ At(p, "reset") /\ call[p].step = "reset" /\ Deleting(p)
      /\ UNCHANGED <<registry, head, exists, mine, forced, rivals>>
      /\ call' = [call EXCEPT ![p] = k]
  BY DEF DeleteReset, At, Deleting, Goto
<1>2. OthersIdle(p) /\ \A q \in Caller : q # p => call[q].step = "idle"
  BY <1>1, AloneIn
<1>3. Registered /\ CallOK(p) /\ call[p].seen = d
  BY <1>1 DEF Calm, CallOK
<1>4. conns \in Seq(Writers) /\ Len(conns) \in Nat /\ d \in 1..Len(conns)
  BY <1>3, CallFacts DEF IInv, Types, TypeOK
<1>5. conns' = [conns EXCEPT ![d] = w] /\ conns[d] \in Writers /\ ~Busy(d)
  <2>1. /\ conns' = [conns EXCEPT ![call[p].seen].open = FALSE]
        /\ disturbed' = (disturbed \/ Busy(call[p].seen))
    BY DEF DeleteReset
  <2>2. conns' = [conns EXCEPT ![d].open = FALSE] /\ ~Busy(d)
    BY <1>3, <2>1
  <2>. HIDE DEF d
  <2>. QED
    BY <1>4, <2>2
<1>6. /\ w \in Writers /\ w.shown = conns[d].shown /\ w.mem = conns[d].mem
      /\ ~w.open /\ w.queue = conns[d].queue
      /\ w.broken = conns[d].broken /\ w.wopen = conns[d].wopen
  BY <1>5 DEF Writers
<1>7. k.step = "dissoc" /\ k.seen = d /\ k.then = call[p].then
  <2>1. "dissoc" \in Steps
    BY DEF Steps
  <2>. QED
    BY <1>3, <2>1, GotoCall DEF IInv
<1>. HIDE DEF k, w
<1>8. call'[p] = k
  BY <1>1, <1>2, After
<1>9. /\ Len(conns') = Len(conns)
      /\ \A c \in 1..Len(conns) : conns'[c] = IF c = d THEN w ELSE conns[c]
  BY <1>4, <1>5, <1>6, ConnChanged
<1>10. CallOK(p)'
  <2>1. ~conns'[registry.conn].open
    BY <1>4, <1>6, <1>9
  <2>. QED
    BY <1>1, <1>3, <1>7, <1>8, <2>1
       DEF CallOK, Counting, Releasing, Deleting, At, Registered
<1>11. OnlyOpen' /\ ClosedDone' /\ ~rivals'
  <2>1. \A c \in 1..Len(conns) : /\ conns'[c].open => conns[c].open
                                 /\ Busy(c)' <=> Busy(c)
                                 /\ c # d => conns'[c].open = conns[c].open
    BY <1>6, <1>9 DEF Busy
  <2>2. OnlyOpen' /\ ~rivals'
    BY <1>1, <1>9, <2>1 DEF Calm, OnlyOpen
  <2>3. ClosedDone'
    BY <1>5, <1>9, <2>1 DEF Calm, ClosedDone
  <2>. QED
    BY <2>2, <2>3
<1>12. Reached'
  <2>1. \A c \in 1..Len(conns) : conns'[c].wopen = conns[c].wopen
    BY <1>6, <1>9
  <2>. QED
    BY <1>1, <1>2, <1>9, <2>1 DEF Calm, Reached, At
<1>13. HeldOK'
  BY <1>1, <1>2 DEF Calm, HeldOK, At
<1>14. CountOK'
  BY <1>7, <1>8 DEF CountOK, Deleting
<1>. QED
  BY <1>1, <1>2, <1>10, <1>11, <1>12, <1>13, <1>14, CalmCall

LEMMA DeleteDissocCalm ==
    ASSUME IInv, Calm, NEW p \in Caller, DeleteDissoc(p)
    PROVE  Calm'
<1> DEFINE s == call[p].then
           k == [call[p] EXCEPT !.step = s]
<1>1. /\ At(p, "dissoc") /\ call[p].step = "dissoc" /\ Deleting(p)
      /\ UNCHANGED <<conns, head, exists, mine, forced, rivals>>
      /\ call' = [call EXCEPT ![p] = k] /\ registry' = None
  BY DEF DeleteDissoc, At, Deleting, Goto, txVars, histVars
<1>2. OthersIdle(p) /\ \A q \in Caller : q # p => call[q].step = "idle"
  BY <1>1, AloneIn
<1>3. /\ Registered /\ CallOK(p) /\ ~conns[registry.conn].open
      /\ (s = "shutdown" /\ mine[p] = registry.conn) \/ (s = "drop" /\ forced)
      /\ \A q \in Caller : q # p /\ mine[q] = registry.conn => forced
  BY <1>1 DEF Calm, CallOK
<1>4. k.step = s
  <2>1. s \in Steps
    BY <1>3 DEF Steps
  <2>. HIDE DEF s
  <2>. QED
    BY <2>1, GotoCall DEF IInv
<1>. HIDE DEF k, s
<1>5. call'[p] = k
  BY <1>1, <1>2, After
<1>6. registry'.conn = 0 /\ ~Registered'
  BY <1>1 DEF None, Registered
<1>7. CallOK(p)'
  BY <1>3, <1>4, <1>5, <1>6 DEF CallOK, Counting, Releasing, Deleting, At
<1>8. OnlyOpen' /\ ClosedDone' /\ ~rivals'
  <2>1. \A c \in 1..Len(conns) : ~conns[c].open
    BY <1>3 DEF Calm, OnlyOpen
  <2>2. OnlyOpen' /\ ~rivals'
    BY <1>1, <2>1 DEF Calm, OnlyOpen
  <2>3. ClosedDone'
    BY <1>1 DEF Calm, ClosedDone, Busy
  <2>. QED
    BY <2>2, <2>3
<1>9. Reached'
  <2> SUFFICES ASSUME exists, NEW c \in 1..Len(conns), conns[c].wopen
               PROVE  At(p, "drop")' \/ (At(p, "shutdown")' /\ mine[p] = c)
    BY <1>1 DEF Reached
  <2>1. registry.conn = c
    BY <1>1, <1>2 DEF Calm, Reached, At
  <2>. QED
    BY <1>3, <1>4, <1>5, <2>1 DEF At
<1>10. HeldOK'
  <2> SUFFICES ASSUME NEW q \in Caller, mine[q] # 0
               PROVE  forced \/ At(q, "shutdown")'
    BY <1>1, <1>6 DEF HeldOK
  <2>1. CASE mine[q] = registry.conn
    BY <1>3, <1>4, <1>5, <2>1 DEF At
  <2>2. CASE mine[q] # registry.conn
    BY <1>1, <1>2, <2>2 DEF Calm, HeldOK, At
  <2>. QED
    BY <2>1, <2>2
<1>11. CountOK'
  BY <1>6 DEF CountOK
<1>. QED
  BY <1>1, <1>2, <1>7, <1>8, <1>9, <1>10, <1>11, CalmCall

LEMMA DeleteDatabaseCalm ==
    ASSUME IInv, Calm, ~disturbed', NEW p \in Caller, DeleteDatabase(p)
    PROVE  Calm'
<1> DEFINE s == IF Registered THEN "lookup" ELSE "drop"
           k == NewCall(s, 0, "drop")
<1>1. /\ UNCHANGED <<registry, conns, head, exists, mine, rivals>> /\ forced'
      /\ call' = [call EXCEPT ![p] = k]
      /\ \A q \in Caller : Idle(q) /\ call[q].step = "idle"
  BY BeginFacts DEF DeleteDatabase
<1>2. /\ k.step = s /\ k.then = "drop"
      /\ s \in {"lookup", "drop"} /\ (s = "lookup" <=> Registered)
  BY DEF NewCall
<1>. HIDE DEF s, k
<1>3. OthersIdle(p) /\ call'[p] = k
  BY <1>1, After DEF OthersIdle
<1>4. CallOK(p)'
  BY <1>1, <1>2, <1>3 DEF CallOK, Counting, Releasing, Deleting, At, Registered
<1>5. CountOK'
  <2>1. call[p].step # "check" /\ ~Deleting(p) /\ k.step # "check"
    BY <1>1, <1>2 DEF Deleting
  <2>. QED
    BY <1>1, <1>3, <2>1, CountSame
<1>. QED
  BY <1>1, <1>3, <1>4, <1>5, CalmSame

LEMMA DropCalm ==
    ASSUME IInv, Calm, NEW p \in Caller, Drop(p)
    PROVE  Calm'
<1>1. /\ At(p, "drop") /\ call[p].step = "drop" /\ ~exists'
      /\ UNCHANGED <<registry, conns, head, mine, forced, rivals>>
      /\ call' = [call EXCEPT ![p] = NoCall]
  BY DEF Drop, At, txVars, histVars
<1>2. OthersIdle(p) /\ \A q \in Caller : q # p => call[q].step = "idle"
  BY <1>1, AloneIn
<1>3. ~Registered
  BY <1>1 DEF Calm, CallOK
<1>4. NoCall.step = "idle" /\ call'[p] = NoCall
  BY <1>1, <1>2, After DEF NoCall, NewCall
<1>5. CallOK(p)'
  BY <1>4 DEF CallOK, Counting, Releasing, Deleting, At
<1>6. OnlyOpen' /\ ClosedDone' /\ ~rivals'
  BY <1>1 DEF Calm, OnlyOpen, ClosedDone, Busy
<1>7. Reached' /\ CountOK'
  BY <1>1, <1>3 DEF Reached, CountOK, Registered
<1>8. HeldOK'
  BY <1>1, <1>2 DEF Calm, HeldOK, At
<1>. QED
  BY <1>1, <1>2, <1>5, <1>6, <1>7, <1>8, CalmCall

\* Calls go on as they were while something else changes.
LEMMA CallsKept ==
    ASSUME IInv, Calm, UNCHANGED <<registry, exists, call, mine, forced, rivals>>,
           Len(conns') = Len(conns), OnlyOpen', ClosedDone',
           \A c \in 1..Len(conns) : conns'[c].wopen => conns[c].wopen,
           head' = head \/ Registered,
           Registered => (conns'[registry.conn].open <=> conns[registry.conn].open)
    PROVE  Calm'
<1>1. Alone' /\ HeldOK' /\ ~rivals'
  BY DEF Calm, Alone, Idle, HeldOK, At
<1>2. Reached'
  BY DEF Calm, Reached, At
<1>3. CountOK'
  <2>1. Holders(registry.conn)' = Holders(registry.conn)
    BY DEF Holders
  <2>. QED
    BY <2>1 DEF Calm, CountOK, Deleting, At, Registered
<1>4. ASSUME NEW p \in Caller PROVE CallOK(p)'
  <2>1. CallOK(p)
    BY DEF Calm
  <2>. QED
    BY <2>1 DEF CallOK, Counting, Releasing, Deleting, At, Registered
<1>. QED
  BY <1>1, <1>2, <1>3, <1>4 DEF Calm

LEMMA TransactCalm ==
    ASSUME IInv, Calm, NEW p \in Caller, NEW t \in Tx, Transact(p, t)
    PROVE  Calm'
<1> DEFINE d == mine[p]
           q == IF conns[d].wopen THEN Append(conns[d].queue, t) ELSE conns[d].queue
           w == [conns[d] EXCEPT !.queue = q]
<1>1. /\ d # 0 /\ conns[d].open
      /\ UNCHANGED <<registry, head, exists, call, mine, forced, rivals>>
  BY DEF Transact, callVars, histVars
<1>2. conns \in Seq(Writers) /\ Len(conns) \in Nat /\ d \in 1..Len(conns)
  BY <1>1, CallFacts DEF IInv, Types, TypeOK
<1>3. conns' = [conns EXCEPT ![d] = w] /\ conns[d] \in Writers
  BY <1>2 DEF Transact
<1>4. q \in Seq(Tx)
  <2>1. conns[d].queue \in Seq(Tx)
    BY <1>3 DEF Writers
  <2>. QED
    BY <2>1
<1>5. w \in Writers /\ w.open = conns[d].open /\ w.wopen = conns[d].wopen
  <2>. HIDE DEF q, d
  <2>. QED
    BY <1>3, <1>4 DEF Writers
<1>. HIDE DEF d, w
<1>6. /\ Len(conns') = Len(conns)
      /\ \A c \in 1..Len(conns) : conns'[c] = IF c = d THEN w ELSE conns[c]
  BY <1>2, <1>3, <1>5, ConnChanged
<1>7. OnlyOpen'
  BY <1>1, <1>5, <1>6 DEF Calm, OnlyOpen
<1>8. ClosedDone'
  BY <1>1, <1>5, <1>6 DEF Calm, ClosedDone, Busy
<1>9. \A c \in 1..Len(conns) : conns'[c].wopen => conns[c].wopen
  BY <1>5, <1>6
<1>10. Registered => (conns'[registry.conn].open <=> conns[registry.conn].open)
  <2>1. Registered => registry.conn \in 0..Len(conns) /\ registry.conn # 0
    BY CallFacts
  <2>. QED
    BY <1>2, <1>5, <1>6, <2>1
<1>. QED
  BY <1>1, <1>6, <1>7, <1>8, <1>9, <1>10, CallsKept

\* Only the writer of the registered connection has steps to take.
LEMMA WriterCalm ==
    ASSUME IInv, AllSettled, Calm, NEW c \in DOMAIN conns, Writer(c)
    PROVE  Calm'
<1>1. /\ c \in 1..Len(conns) /\ conns[c] \in Writers /\ Busy(c)
      /\ conns \in Seq(Writers) /\ Len(conns) \in Nat
  BY WriterFacts, WriterBusy DEF IInv, Types, TypeOK
<1>2. conns[c].open /\ registry.conn = c /\ Registered
  <2>1. conns[c].open
    BY <1>1 DEF Calm, ClosedDone
  <2>2. registry.conn = c
    BY <1>1, <2>1 DEF Calm, OnlyOpen
  <2>. QED
    BY <1>1, <2>1, <2>2 DEF Registered, None
<1>3. UNCHANGED <<registry, exists, call, mine, forced, rivals>>
  BY DEF Writer, Process, Commit, Publish, CommitError, callVars, histVars
<1>4. /\ Len(conns') = Len(conns) /\ conns'[c].open
      /\ conns'[c].wopen => conns[c].wopen
      /\ \A d \in 1..Len(conns) : d # c => conns'[d] = conns[d]
  <2>1. ASSUME NEW w, conns' = [conns EXCEPT ![c] = w], w.open,
               w.wopen => conns[c].wopen
        PROVE  /\ Len(conns') = Len(conns) /\ conns'[c].open
               /\ conns'[c].wopen => conns[c].wopen
               /\ \A d \in 1..Len(conns) : d # c => conns'[d] = conns[d]
    BY <1>1, <2>1
  <2>2. CASE Process(c)
    <3> DEFINE w == [conns[c] EXCEPT !.queue = Tail(conns[c].queue),
                                 !.mem = IF conns[c].open /\ ~conns[c].broken
                                         THEN Append(conns[c].mem, Head(conns[c].queue))
                                         ELSE conns[c].mem]
    <3>1. conns' = [conns EXCEPT ![c] = w]
      BY <1>1, <2>2 DEF Process
    <3>2. w.open /\ (w.wopen => conns[c].wopen)
      BY <1>1, <1>2 DEF Writers
    <3>. HIDE DEF w
    <3>. QED
      BY <2>1, <3>1, <3>2
  <2>3. CASE Commit(c)
    <3> DEFINE w == [conns[c] EXCEPT !.landed = conns[c].mem]
    <3>1. conns' = [conns EXCEPT ![c] = w]
      BY <1>1, <2>3 DEF Commit
    <3>2. w.open /\ (w.wopen => conns[c].wopen)
      BY <1>1, <1>2 DEF Writers
    <3>. HIDE DEF w
    <3>. QED
      BY <2>1, <3>1, <3>2
  <2>4. CASE Publish(c)
    <3> DEFINE w == [conns[c] EXCEPT !.shown = conns[c].landed, !.open = TRUE]
    <3>1. conns' = [conns EXCEPT ![c] = w]
      BY <1>1, <2>4 DEF Publish
    <3>2. w.open /\ (w.wopen => conns[c].wopen)
      BY <1>1, <1>2 DEF Writers
    <3>. HIDE DEF w
    <3>. QED
      BY <2>1, <3>1, <3>2
  <2>5. CASE CommitError(c)
    <3> DEFINE w == [conns[c] EXCEPT !.broken = TRUE, !.wopen = FALSE]
    <3>1. conns' = [conns EXCEPT ![c] = w]
      BY <1>1, <2>5 DEF CommitError
    <3>2. w.open /\ (w.wopen => conns[c].wopen)
      BY <1>1, <1>2 DEF Writers
    <3>. HIDE DEF w
    <3>. QED
      BY <2>1, <3>1, <3>2
  <2>. QED
    BY <2>2, <2>3, <2>4, <2>5 DEF Writer
<1>5. OnlyOpen'
  BY <1>2, <1>3, <1>4 DEF Calm, OnlyOpen
<1>6. ClosedDone'
  BY <1>4 DEF Calm, ClosedDone, Busy
<1>. QED
  BY <1>1, <1>2, <1>3, <1>4, <1>5, <1>6, CallsKept

LEMMA StutterCalm ==
    ASSUME IInv, Calm, UNCHANGED vars
    PROVE  Calm'
<1>1. UNCHANGED <<registry, conns, head, exists, call, mine, forced, rivals>>
  BY DEF vars, callVars, histVars
<1>2. OnlyOpen' /\ ClosedDone'
  BY <1>1 DEF Calm, OnlyOpen, ClosedDone, Busy
<1>. QED
  BY <1>1, <1>2, CallsKept

LEMMA CallCalm ==
    ASSUME IInv, Calm, ~disturbed', NEW p \in Caller, Call(p)
    PROVE  Calm'
<1>1. CASE Connect(p)
  BY <1>1, ConnectCalm
<1>2. CASE Count(p)
  BY <1>2, CountCalm
<1>3. CASE Check(p)
  BY <1>3, CheckCalm
<1>4. CASE Load(p)
  BY <1>4, LoadCalm
<1>5. CASE Make(p)
  BY <1>5, MakeCalm
<1>6. CASE \E all \in BOOLEAN : Release(p, all)
  BY <1>6, ReleaseCalm
<1>7. CASE HasEntry(p)
  BY <1>7, HasEntryCalm
<1>8. CASE Decrement(p)
  BY <1>8, DecrementCalm
<1>9. CASE Shutdown(p)
  BY <1>9, ShutdownCalm
<1>10. CASE DeleteLookup(p)
  BY <1>10, DeleteLookupCalm
<1>11. CASE DeleteCount(p)
  BY <1>11, DeleteCountCalm
<1>12. CASE DeleteReset(p)
  BY <1>12, DeleteResetCalm
<1>13. CASE DeleteDissoc(p)
  BY <1>13, DeleteDissocCalm
<1>14. CASE DeleteDatabase(p)
  BY <1>14, DeleteDatabaseCalm
<1>15. CASE Drop(p)
  BY <1>15, DropCalm
<1>16. CASE \E t \in Tx : Transact(p, t)
  BY <1>16, TransactCalm
<1>. QED
  BY <1>1, <1>2, <1>3, <1>4, <1>5, <1>6, <1>7, <1>8, <1>9, <1>10, <1>11, <1>12,
     <1>13, <1>14, <1>15, <1>16 DEF Call

\* What has disturbed stays.
LEMMA DisturbedStays == [Next]_vars => (disturbed => disturbed')
  BY DEF Next, Call, Writer, Connect, Begin, Count, Check, Load, Make, Release, HasEntry,
         Decrement, Shutdown, DeleteLookup, DeleteCount, DeleteReset, DeleteDissoc,
         DeleteDatabase, Drop, Transact, Process, Commit, Publish, CommitError,
         vars, histVars

LEMMA InitCalm == Init => Calm
<1> SUFFICES ASSUME Init PROVE Calm
  OBVIOUS
<1>1. /\ registry = None /\ Len(conns) = 0 /\ ~rivals
      /\ \A p \in Caller : mine[p] = 0 /\ call[p] = NoCall
  BY DEF Init
<1>2. \A p \in Caller : Idle(p) /\ CallOK(p)
  BY <1>1, IdleFacts DEF Idle
<1>3. Alone /\ OnlyOpen /\ ClosedDone /\ Reached
  BY <1>1, <1>2 DEF Alone, OnlyOpen, ClosedDone, Reached
<1>4. HeldOK /\ CountOK
  BY <1>1 DEF HeldOK, CountOK, Registered
<1>. QED
  BY <1>1, <1>2, <1>3, <1>4 DEF Calm

LEMMA CalmInv == Spec => [](~disturbed => Calm)
<1>1. Init => (~disturbed => Calm)
  BY InitCalm
<1>2. IInv /\ AllSettled /\ (~disturbed => Calm) /\ [Next]_vars => (~disturbed => Calm)'
  <2> SUFFICES ASSUME IInv, AllSettled, ~disturbed => Calm, [Next]_vars, ~disturbed'
               PROVE  Calm'
    OBVIOUS
  <2>1. Calm
    BY DisturbedStays
  <2>2. CASE UNCHANGED vars
    BY <2>1, <2>2, StutterCalm
  <2>3. CASE \E p \in Caller : Call(p)
    BY <2>1, <2>3, CallCalm
  <2>4. CASE \E c \in DOMAIN conns : Writer(c)
    BY <2>1, <2>4, WriterCalm
  <2>. QED
    BY <2>2, <2>3, <2>4 DEF Next
<1>. QED
  BY <1>1, <1>2, Invariant, ValuesInv, PTL DEF Spec

\* For any number of callers whose calls do not overlap, and whose releases wait
\* for what was transacted: the count of the registered connection is the number
\* of those who hold it, and it is open.
THEOREM CountIsHolders == Spec => []HeldCounted
<1>1. IInv /\ (~disturbed => Calm) => HeldCounted
  <2> SUFFICES ASSUME IInv, Calm, Quiet
               PROVE  /\ Registered => /\ conns[registry.conn].open
                                       /\ registry.count =
                                            Cardinality({p \in Caller : mine[p] = registry.conn})
                      /\ \A p \in Caller : mine[p] \notin {0, registry.conn} =>
                                             forced /\ ~conns[mine[p]].open
    BY DEF HeldCounted
  <2>1. \A p \in Caller : /\ call[p].step = "idle" /\ ~Deleting(p) /\ ~At(p, "check")
                          /\ ~At(p, "dissoc") /\ ~At(p, "shutdown")
    BY IdleFacts DEF Quiet, Deleting, At
  <2>2. Registered => conns[registry.conn].open
    BY <2>1 DEF IInv, RegisteredOpen
  <2>3. Registered => registry.count = Cardinality(Holders(registry.conn))
    <3>1. Registered => registry.count = Cardinality(Holders(registry.conn)) + 0
      BY <2>1 DEF Calm, CountOK
    <3>. QED
      BY <3>1, HoldersCount
  <2>4. ASSUME NEW p \in Caller, mine[p] \notin {0, registry.conn}
        PROVE  forced /\ ~conns[mine[p]].open
    <3>1. mine[p] \in 0..Len(conns) /\ Len(conns) \in Nat
      BY DEF IInv, Types, TypeOK
    <3>2. mine[p] \in 1..Len(conns)
      BY <2>4, <3>1
    <3>. QED
      BY <2>1, <2>4, <3>2 DEF Calm, HeldOK, OnlyOpen
  <2>. QED
    BY <2>2, <2>3, <2>4 DEF Holders
<1>. QED
  BY <1>1, Invariant, CalmInv, PTL

\* And they never make a writer while another can still write, nor leave one that
\* takes requests behind: it is that of the registered connection.
THEOREM WritersOneByOne == Spec => []OneWriter
<1>1. IInv /\ (~disturbed => Calm) => OneWriter
  <2> SUFFICES ASSUME IInv, Calm
               PROVE  /\ ~rivals
                      /\ Quiet /\ exists =>
                           \A c \in DOMAIN conns : conns[c].wopen => registry.conn = c
    BY DEF OneWriter
  <2>1. ~rivals
    BY DEF Calm
  <2>2. Quiet => \A p \in Caller : ~At(p, "drop") /\ ~At(p, "shutdown")
    BY IdleFacts DEF Quiet, At
  <2>3. DOMAIN conns = 1..Len(conns)
    BY DEF IInv, Types, TypeOK
  <2>. QED
    BY <2>1, <2>2, <2>3 DEF Calm, Reached
<1>. QED
  BY <1>1, Invariant, CalmInv, PTL
===============================================================================
