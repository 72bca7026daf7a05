---------------------------- MODULE TransactProofs ----------------------------
(* Theorems about Transact. *)
EXTENDS Transact, FiniteSetTheorems, TLAPS

USE DEF Fact, Facts, SameKey, Datom, Asserted, Retracted, CurrentTx

-----------------------------------------------------------------------------
(* What the operations on values do to their types. *)

LEMMA LaterOK ==
    ASSUME NEW val, NEW t \in Nat, ValueOK(val, t)
    PROVE  ValueOK(val, t + 1)
BY DEF ValueOK

LEMMA NewDatomOK ==
    ASSUME NEW f \in Universe, NEW t \in Nat \ {0}
    PROVE  LET d == Datom(f, t) IN
             Fact(d) = f /\ d.tx \in 1..t /\ d = Datom(Fact(d), d.tx)
BY UniverseAssumption

LEMMA TemporalInsertOK ==
    ASSUME NEW T, NEW D
    PROVE  T \subseteq TemporalInsert(T, D) /\ TemporalInsert(T, D) \subseteq T \cup D
BY DEF TemporalInsert

LEMMA UpsertOK ==
    ASSUME NEW val, NEW t \in Nat \ {0}, ValueOK(val, t), NEW f \in Universe
    PROVE  ValueOK(Upsert(val, Datom(f, t)), t)
<1> DEFINE new == Datom(f, t)
           old == {d \in val.current : d.e = new.e /\ d.a = new.a}
           res == Upsert(val, new)
<1>1. /\ Fact(new) = f /\ new.tx = t /\ new = Datom(Fact(new), new.tx)
  BY NewDatomOK
<1>2. /\ res = [current |-> res.current, temporal |-> res.temporal]
      /\ res.current = (val.current \ old) \cup {new}
      /\ res.temporal \subseteq
           val.temporal \cup {Retracted(d, t) : d \in old} \cup {Asserted(new)}
  BY <1>1 DEF Upsert
<1>3. \A d \in old : Fact(Retracted(d, t)) \in Universe
  BY DEF ValueOK
<1>4. Fact(Asserted(new)) \in Universe
  BY <1>1
<1> QED  BY <1>1, <1>2, <1>3, <1>4 DEF ValueOK

LEMMA InsertOK ==
    ASSUME NEW val, NEW t \in Nat \ {0}, ValueOK(val, t), NEW f \in Universe
    PROVE  ValueOK(Insert(val, Datom(f, t)), t)
<1> DEFINE new == Datom(f, t)
<1>1. /\ Fact(new) = f /\ new.tx \in 1..t /\ new = Datom(Fact(new), new.tx)
  BY NewDatomOK
<1>2. /\ Insert(val, new) = [current |-> Insert(val, new).current, temporal |-> val.temporal]
      /\ Insert(val, new).current \subseteq val.current \cup {new}
  <2>1. Insert(val, new) =
          IF Fact(new) \in Facts(val.current) THEN [val EXCEPT !.current = val.current]
          ELSE [val EXCEPT !.current = val.current \cup {new}]
    BY Zenon DEF Insert
  <2>2. val = [current |-> val.current, temporal |-> val.temporal]
    BY DEF ValueOK
  <2>3. CASE Fact(new) \in Facts(val.current)
    <3>1. Insert(val, new) = [val EXCEPT !.current = val.current]
      BY <2>1, <2>3 
    <3> QED  BY <2>2, <3>1
  <2>4. CASE Fact(new) \notin Facts(val.current)
    <3>1. Insert(val, new) = [val EXCEPT !.current = val.current \cup {new}]
      BY <2>1, <2>4
    <3> QED  BY <2>2, <3>1
  <2> QED  BY <2>3, <2>4
<1> QED  BY <1>1, <1>2 DEF ValueOK

LEMMA RetractOK ==
    ASSUME NEW val, NEW t \in Nat \ {0}, ValueOK(val, t), NEW D \in SUBSET val.current
    PROVE  /\ ValueOK(Retract(val, D, t), t)
           /\ Retract(val, D, t).current = val.current \ D
           /\ val.temporal \subseteq Retract(val, D, t).temporal
           /\ \A x \in Retract(val, D, t).temporal :
                x \in val.temporal \/ \E d \in D : x \in {Asserted(d), Retracted(d, t)}
<1> DEFINE kept == {d \in D : d.a \notin NoHistory}
           res  == Retract(val, D, t)
           ins  == TemporalInsert(val.temporal, {Asserted(d) : d \in kept})
<1>1. /\ res = [current |-> res.current, temporal |-> res.temporal]
      /\ res.current = val.current \ D
      /\ res.temporal = TemporalInsert(ins, {Retracted(d, t) : d \in kept})
  BY DEF Retract
<1>2. val.temporal \subseteq res.temporal
  BY <1>1, TemporalInsertOK
<1>3. ASSUME NEW x \in res.temporal
      PROVE  x \in val.temporal \/ \E d \in D : x \in {Asserted(d), Retracted(d, t)}
  <2>1. x \in ins \/ \E d \in kept : x = Retracted(d, t)
    BY <1>1, TemporalInsertOK
  <2>2. x \in ins => x \in val.temporal \/ \E d \in kept : x = Asserted(d)
    BY TemporalInsertOK
  <2> QED  BY <2>1, <2>2
<1>4. ASSUME NEW d \in D
      PROVE  /\ Fact(Asserted(d)) \in Universe /\ Asserted(d).tx \in 1..t
             /\ Fact(Retracted(d, t)) \in Universe /\ Retracted(d, t).tx \in 1..t
  <2>1. d \in val.current /\ Fact(d) \in Universe /\ d.tx \in 1..t
    BY DEF ValueOK
  <2> QED  BY <2>1
<1> QED  BY <1>1, <1>2, <1>3, <1>4 DEF ValueOK

LEMMA PurgeOK ==
    ASSUME NEW val, NEW t \in Nat, ValueOK(val, t), NEW D
    PROVE  /\ ValueOK(Purge(val, D), t)
           /\ Purge(val, D).current \subseteq val.current
           /\ Purge(val, D).temporal \subseteq val.temporal
BY DEF ValueOK, Purge

\* The datoms of a history are of the universe.
LEMMA HistoryOK ==
    ASSUME NEW val, NEW t \in Nat, ValueOK(val, t)
    PROVE  \A d \in History(val) : Fact(d) \in Universe /\ d \in {Asserted(d), Retracted(d, d.tx)}
<1> SUFFICES ASSUME NEW d \in History(val)
             PROVE  Fact(d) \in Universe /\ d \in {Asserted(d), Retracted(d, d.tx)}
  OBVIOUS
<1>1. CASE d \in val.temporal
  BY <1>1 DEF ValueOK
<1>2. ASSUME NEW x \in val.current, d = Asserted(x)
      PROVE  Fact(d) \in Universe /\ d = Asserted(d)
  <2>1. Fact(x) \in Universe
    BY DEF ValueOK
  <2> QED  BY <1>2, <2>1
<1> QED  BY <1>1, <1>2 DEF History

\* The parts of datoms are entities.
LEMMA PartsOK ==
    ASSUME NEW D, \A d \in D : Fact(d) \in Universe,
           NEW op \in {"retract/entity", "purge/entity"}
    PROVE  Parts(D, op) \subseteq Entry
<1> SUFFICES ASSUME NEW d \in D, d.a \in Components
             PROVE  [op |-> op, e |-> d.v] \in Entry
  BY DEF Parts
<1>1. Fact(d).v \in Entity
  BY SchemaAssumption
<1> QED  BY <1>1 DEF Entry

-----------------------------------------------------------------------------
(* What they do to the soundness of what is current. *)

LEMMA SubsetSound ==
    ASSUME NEW D, Sound(D), NEW E \in SUBSET D
    PROVE  Sound(E)
BY DEF Sound

LEMMA UpsertSound ==
    ASSUME NEW val, NEW t \in Nat \ {0}, ValueOK(val, t), NEW f \in Universe, f.a \notin Many,
           Sound(val.current),
           f.a \in Unique => \A d \in val.current : d.a = f.a /\ d.v = f.v => d.e = f.e
    PROVE  Sound(Upsert(val, Datom(f, t)).current)
BY DEF Sound, Upsert

LEMMA InsertSound ==
    ASSUME NEW val, NEW t \in Nat \ {0}, ValueOK(val, t), NEW f \in Universe, f.a \in Many,
           Sound(val.current),
           f.a \in Unique => \A d \in val.current : ~(d.a = f.a /\ d.v = f.v)
    PROVE  Sound(Insert(val, Datom(f, t)).current)
<1> DEFINE new == Datom(f, t)
<1>1. Fact(new) = f
  BY NewDatomOK
<1>2. CASE f \in Facts(val.current)
  BY <1>1, <1>2 DEF Insert, ValueOK
<1>3. CASE f \notin Facts(val.current)
  <2>1. Insert(val, new).current = val.current \cup {new}
    BY <1>1, <1>3 DEF Insert, ValueOK
  <2>2. \A d \in val.current : ~(d.e = f.e /\ d.a = f.a /\ d.v = f.v)
    BY <1>3, UniverseAssumption
  <2> QED  BY <2>1, <2>2 DEF Sound
<1> QED  BY <1>2, <1>3

-----------------------------------------------------------------------------
(* Types and soundness are invariant. *)

IInv == TypeOK /\ CurrentSound

ValuesOK == ValueOK(after', CurrentTx) /\ Sound(after'.current)

LEMMA InitInv == Init => IInv
<1> SUFFICES ASSUME Init PROVE IInv
  OBVIOUS
<1>1. \A t \in Nat : ValueOK(Empty, t)
  BY DEF ValueOK, Empty
<1>2. Sound(Empty.current)
  BY DEF Sound, Empty
<1>3. maxTx = 0 /\ db = Empty /\ after = Empty
  BY DEF Init
<1>4. CurrentSound /\ ValueOK(db, maxTx) /\ ValueOK(after, CurrentTx)
  BY <1>1, <1>2, <1>3 DEF CurrentSound
<1>5. purged \in [facts : SUBSET Universe, date : 0..MaxTx + 1] /\ last.facts \subseteq Universe
  BY BoundAssumption DEF Init, NoPurge, NoOp
<1>6. /\ maxTx \in 0..MaxTx /\ ops \in 0..MaxOps /\ odd \subseteq 1..maxTx
      /\ open = FALSE /\ isOdd = FALSE /\ es \in SUBSET Entry
  BY BoundAssumption DEF Init
<1>7. touched \subseteq {Key(f) : f \in Universe}
  BY DEF Init
<1> QED  BY <1>4, <1>5, <1>6, <1>7 DEF IInv, TypeOK

LEMMA TypedTx == ASSUME IInv PROVE /\ maxTx \in Nat /\ CurrentTx \in Nat \ {0}
                                   /\ ValueOK(db, CurrentTx) /\ ValueOK(after, CurrentTx)
<1>1. maxTx \in Nat /\ ValueOK(db, maxTx) /\ ValueOK(after, CurrentTx)
  BY BoundAssumption DEF IInv, TypeOK
<1> QED  BY <1>1, LaterOK

\* What is touched are keys of the universe, whether facts or datoms are.
LEMMA TouchOK ==
    ASSUME IInv, NEW F, \A f \in F : Fact(f) \in Universe, Touch(F)
    PROVE  touched' \subseteq {Key(f) : f \in Universe} /\ isOdd' \in BOOLEAN
<1>1. \A f \in F : Key(f) = Key(Fact(f))
  BY DEF Key
<1>2. \A f \in F : Key(f) \in {Key(g) : g \in Universe}
  BY <1>1, Zenon
<1>3. touched \subseteq {Key(g) : g \in Universe} /\ isOdd \in BOOLEAN
  BY DEF IInv, TypeOK
<1> HIDE DEF Key
<1>4. touched' \subseteq {Key(g) : g \in Universe}
  BY <1>2, <1>3 DEF Touch
<1>5. isOdd' \in BOOLEAN
  BY <1>3 DEF Touch
<1> QED  BY <1>4, <1>5

\* An operation that leaves a good value and good remaining operations.
LEMMA OperationInv ==
    ASSUME IInv, open, ValuesOK,
           ops' \in 0..MaxOps, last'.facts \subseteq Universe,
           es' \in SUBSET Entry,
           touched' \subseteq {Key(f) : f \in Universe}, isOdd' \in BOOLEAN,
           purged' \in [facts : SUBSET Universe, date : 0..MaxTx + 1],
           UNCHANGED <<db, maxTx, open, odd>>
    PROVE  IInv'
BY DEF IInv, TypeOK, CurrentSound, ValuesOK

LEMMA NextOp ==
    ASSUME IInv, NEW op, op.facts \subseteq Universe, NextOperation(op)
    PROVE  /\ open /\ ops' \in 0..MaxOps /\ last'.facts \subseteq Universe
           /\ UNCHANGED <<db, maxTx, open, odd>>
BY BoundAssumption DEF NextOperation, IInv, TypeOK

LEMMA NoOpFacts == NoOp.facts \subseteq Universe
BY DEF NoOp

LEMMA CurrentFacts == ASSUME IInv PROVE Facts(after.current) \subseteq Universe
BY TypedTx DEF ValueOK

LEMMA CloseInv ==
    ASSUME IInv, NEW val, ValueOK(val, maxTx'), Sound(val.current), Close(val),
           db' = val, maxTx' \in {maxTx, CurrentTx}, maxTx' \in 0..MaxTx,
           odd' \subseteq 1..maxTx', ops' \in 0..MaxOps
    PROVE  IInv'
<1>1. maxTx' \in Nat /\ ValueOK(val, maxTx' + 1)
  BY LaterOK, BoundAssumption
<1>2. ValueOK(db', maxTx') /\ ValueOK(after', maxTx' + 1) /\ Sound(db'.current) /\ Sound(after'.current)
  BY <1>1 DEF Close
<1>3. /\ es' \in SUBSET Entry /\ touched' \subseteq {Key(f) : f \in Universe}
      /\ open' = FALSE /\ isOdd' = FALSE
      /\ purged' \in [facts : SUBSET Universe, date : 0..MaxTx + 1] /\ last'.facts \subseteq Universe
  BY BoundAssumption DEF Close, NoPurge, NoOp
<1> QED  BY <1>2, <1>3 DEF IInv, TypeOK, CurrentSound

LEMMA FinishInv == ASSUME IInv, Finish PROVE IInv'
<1>1. ValueOK(after, maxTx') /\ Sound(after.current)
  BY DEF IInv, TypeOK, CurrentSound, Finish
<1>2. /\ maxTx' = CurrentTx /\ maxTx' \in 0..MaxTx /\ odd' \subseteq 1..maxTx'
      /\ ops' \in 0..MaxOps /\ db' = after /\ Close(after)
  BY BoundAssumption DEF Finish, IInv, TypeOK
<1> QED  BY <1>1, <1>2, CloseInv

LEMMA RaiseInv == ASSUME IInv, Raise PROVE IInv'
<1>1. ValueOK(db, maxTx') /\ Sound(db.current)
  BY DEF IInv, TypeOK, CurrentSound, Raise
<1>2. /\ maxTx' = maxTx /\ maxTx' \in 0..MaxTx /\ odd' \subseteq 1..maxTx'
      /\ ops' \in 0..MaxOps /\ db' = db /\ Close(db)
  BY BoundAssumption DEF Raise, IInv, TypeOK
<1> QED  BY <1>1, <1>2, CloseInv

LEMMA BeginInv == ASSUME IInv, Begin PROVE IInv'
<1>1. ValueOK(db, CurrentTx)
  BY TypedTx
<1> QED  BY <1>1 DEF Begin, IInv, TypeOK, CurrentSound

LEMMA AssertInv ==
    ASSUME IInv, NEW f \in Universe, NextOperation(NoOp), Assert(f)
    PROVE  IInv'
<1>1. ValuesOK
  <2>1. CASE f.a \in Many
    <3>1. after' = Insert(after, Datom(f, CurrentTx))
      BY <2>1 DEF Assert
    <3>2. f.a \in Unique => \A d \in after.current : ~(d.a = f.a /\ d.v = f.v)
      BY <2>1 DEF Assert, Taken
    <3> QED  BY <2>1, <3>1, <3>2, TypedTx, InsertOK, InsertSound DEF ValuesOK, IInv, CurrentSound
  <2>2. CASE f.a \notin Many
    <3>1. after' = Upsert(after, Datom(f, CurrentTx))
      BY <2>2 DEF Assert
    <3>2. f.a \in Unique => \A d \in after.current : d.a = f.a /\ d.v = f.v => d.e = f.e
      BY <2>2 DEF Assert, Taken
    <3> QED  BY <2>2, <3>1, <3>2, TypedTx, UpsertOK, UpsertSound DEF ValuesOK, IInv, CurrentSound
  <2> QED  BY <2>1, <2>2
<1>2. touched' \subseteq {Key(g) : g \in Universe} /\ isOdd' \in BOOLEAN
  <2>1. PICK F \in SUBSET {f} : Touch(F)
    BY DEF Assert
  <2>2. Fact(f) = f
    BY UniverseAssumption
  <2> QED  BY <2>1, <2>2, TouchOK
<1>3. /\ open /\ ops' \in 0..MaxOps /\ last'.facts \subseteq Universe
      /\ UNCHANGED <<db, maxTx, open, odd>>
  BY NextOp, NoOpFacts
<1>4. es' \in SUBSET Entry /\ purged' \in [facts : SUBSET Universe, date : 0..MaxTx + 1]
  BY DEF Assert, IInv, TypeOK
<1> QED  BY <1>1, <1>2, <1>3, <1>4, OperationInv

LEMMA RetractDatomsInv ==
    ASSUME IInv, open, NEW D \in SUBSET after.current, NEW new \in SUBSET Entry,
           RetractDatoms(D, new),
           ops' \in 0..MaxOps, last'.facts \subseteq Universe,
           UNCHANGED <<db, maxTx, open, odd>>
    PROVE  IInv'
<1>1. ValuesOK
  BY TypedTx, RetractOK, SubsetSound DEF ValuesOK, RetractDatoms, IInv, CurrentSound
<1>2. \A d \in D : Fact(d) \in Universe
  BY TypedTx DEF ValueOK
<1>3. touched' \subseteq {Key(g) : g \in Universe} /\ isOdd' \in BOOLEAN
  BY <1>2, TouchOK DEF RetractDatoms
<1>4. es' \in SUBSET Entry /\ purged' \in [facts : SUBSET Universe, date : 0..MaxTx + 1]
  BY DEF RetractDatoms, IInv, TypeOK
<1> QED  BY <1>1, <1>3, <1>4, OperationInv

LEMMA RetractEntityInv ==
    ASSUME IInv, open, NEW e, NEW rest \in SUBSET Entry, RetractEntity(e, rest),
           ops' \in 0..MaxOps, last'.facts \subseteq Universe,
           UNCHANGED <<db, maxTx, open, odd>>
    PROVE  IInv'
<1> DEFINE D == OfEntity(after.current, e)
<1>1. D \cup Referring(after.current, e) \subseteq after.current
  BY DEF OfEntity, Referring
<1>2. \A d \in D : Fact(d) \in Universe
  BY TypedTx DEF ValueOK, OfEntity
<1>3. rest \cup Parts(D, "retract/entity") \subseteq Entry
  BY <1>2, PartsOK
<1> HIDE DEF D
<1>4. RetractDatoms(D \cup Referring(after.current, e), rest \cup Parts(D, "retract/entity"))
  BY DEF RetractEntity, D
<1> QED  BY <1>1, <1>3, <1>4, RetractDatomsInv

LEMMA RetractingInv == ASSUME IInv, Retracting PROVE IInv'
<1>1. ASSUME NEW f \in Universe, RetractFact(f) PROVE IInv'
  <2>1. {d \in after.current : Fact(d) = f} \subseteq after.current /\ {} \subseteq Entry
    OBVIOUS
  <2> QED  BY <1>1, <2>1, NextOp, NoOpFacts, RetractDatomsInv DEF RetractFact
<1>2. ASSUME NEW f \in Universe, RetractAttribute(f.e, f.a) PROVE IInv'
  <2> DEFINE D == {d \in after.current : d.e = f.e /\ d.a = f.a}
  <2>1. D \subseteq after.current /\ \A d \in D : Fact(d) \in Universe
    BY TypedTx DEF ValueOK
  <2>2. Parts(D, "retract/entity") \subseteq Entry
    BY <2>1, PartsOK
  <2>3. NextOperation(NoOp) /\ RetractDatoms(D, Parts(D, "retract/entity"))
    BY <1>2 DEF RetractAttribute
  <2> QED  BY <2>1, <2>2, <2>3, NextOp, NoOpFacts, RetractDatomsInv
<1>3. ASSUME NEW e \in Entity, RetractWhole(e) PROVE IInv'
  <2> DEFINE op == [NoOp EXCEPT !.op = "retract/entity", !.e = e, !.facts = Facts(after.current)]
  <2>1. op.facts \subseteq Universe
    BY CurrentFacts DEF NoOp
  <2>2. NextOperation(op) /\ RetractEntity(e, {}) /\ {} \subseteq Entry
    BY <1>3 DEF RetractWhole
  <2> QED  BY <2>1, <2>2, NextOp, RetractEntityInv
<1>4. ASSUME RetractPart PROVE IInv'
  <2>1. PICK x \in es : RetractEntity(x.e, es \ {x})
    BY <1>4 DEF RetractPart
  <2>2. /\ open /\ ops' \in 0..MaxOps /\ last'.facts \subseteq Universe
        /\ UNCHANGED <<db, maxTx, open, odd>> /\ es \ {x} \subseteq Entry
    BY <1>4 DEF RetractPart, IInv, TypeOK
  <2> QED  BY <2>1, <2>2, RetractEntityInv
<1>5. ASSUME NEW f \in Universe, RetractValues(f.e, f.a) PROVE IInv'
  <2>1. {d \in after.current : d.e = f.e /\ d.a = f.a} \subseteq after.current /\ {} \subseteq Entry
    OBVIOUS
  <2> QED  BY <1>5, <2>1, NextOp, NoOpFacts, RetractDatomsInv DEF RetractValues
<1> QED  BY <1>1, <1>2, <1>3, <1>4, <1>5 DEF Retracting

LEMMA PurgeDatomsInv ==
    ASSUME IInv, open, NEW D, NEW F \in SUBSET Universe, NEW new \in SUBSET Entry,
           PurgeDatoms(D, F, new),
           ops' \in 0..MaxOps, last'.facts \subseteq Universe,
           UNCHANGED <<db, maxTx, open, odd>>
    PROVE  IInv'
<1>1. ValuesOK
  BY TypedTx, PurgeOK, SubsetSound DEF ValuesOK, PurgeDatoms, IInv, CurrentSound
<1>2. /\ es' \in SUBSET Entry /\ purged' \in [facts : SUBSET Universe, date : 0..MaxTx + 1]
      /\ touched' \subseteq {Key(g) : g \in Universe} /\ isOdd' \in BOOLEAN
  BY DEF PurgeDatoms, IInv, TypeOK
<1> QED  BY <1>1, <1>2, OperationInv

LEMMA PurgeEntityInv ==
    ASSUME IInv, open, NEW e, NEW rest \in SUBSET Entry, PurgeEntity(e, rest),
           ops' \in 0..MaxOps, last'.facts \subseteq Universe,
           UNCHANGED <<db, maxTx, open, odd>>
    PROVE  IInv'
<1> DEFINE D == OfEntity(History(after), e)
           F == {f \in Universe : f.e = e \/ (f.a \in Refs /\ f.v = e)}
           G == D \cup PastReferring(History(after), e)
<1>1. F \subseteq Universe /\ \A d \in D : Fact(d) \in Universe
  BY TypedTx, HistoryOK DEF OfEntity
<1>2. rest \cup Parts(D, "purge/entity") \subseteq Entry
  BY <1>1, PartsOK
<1>3. PurgeDatoms(G, F, rest \cup Parts(D, "purge/entity"))
  BY DEF PurgeEntity
<1> QED  BY <1>1, <1>2, <1>3, PurgeDatomsInv

LEMMA PurgeBeforeInv ==
    ASSUME IInv, NEW date \in 1..CurrentTx + 1, PurgeBefore(date) PROVE IInv'
<1> DEFINE D == Expired(after, date)
           op == [op |-> "purge/before", e |-> 0, date |-> date, facts |-> Facts(after.current)]
<1>1. op.facts \subseteq Universe /\ NextOperation(op)
  BY CurrentFacts DEF PurgeBefore
<1>2. /\ open /\ ops' \in 0..MaxOps /\ last'.facts \subseteq Universe
      /\ UNCHANGED <<db, maxTx, open, odd>>
  BY <1>1, NextOp
<1>3. ValuesOK
  BY TypedTx, PurgeOK, SubsetSound DEF ValuesOK, PurgeBefore, IInv, CurrentSound
<1>4. \A d \in D : Fact(d) \in Universe
  BY TypedTx DEF Expired, ValueOK
<1>5. es' \in SUBSET Entry
  BY <1>4, PartsOK DEF PurgeBefore
<1>6. date \in 0..MaxTx + 1
  BY <1>2, BoundAssumption DEF IInv, TypeOK
<1>7. purged' \in [facts : SUBSET Universe, date : 0..MaxTx + 1]
  BY <1>6 DEF PurgeBefore, IInv, TypeOK
<1>8. touched' \subseteq {Key(g) : g \in Universe} /\ isOdd' \in BOOLEAN
  BY DEF PurgeBefore, IInv, TypeOK
<1> QED  BY <1>2, <1>3, <1>5, <1>7, <1>8, OperationInv

LEMMA PurgingInv == ASSUME IInv, Purging PROVE IInv'
<1>1. ASSUME NEW f \in Universe, PurgeFact(f) PROVE IInv'
  <2>1. {f} \subseteq Universe /\ {} \subseteq Entry
    OBVIOUS
  <2> QED  BY <1>1, <2>1, NextOp, NoOpFacts, PurgeDatomsInv DEF PurgeFact
<1>2. ASSUME NEW f \in Universe, PurgeAttribute(f.e, f.a) PROVE IInv'
  <2> DEFINE D == {d \in History(after) : d.e = f.e /\ d.a = f.a}
             F == {g \in Universe : g.e = f.e /\ g.a = f.a}
  <2>1. \A d \in D : Fact(d) \in Universe
    BY TypedTx, HistoryOK
  <2>2. Parts(D, "purge/entity") \subseteq Entry /\ F \subseteq Universe
    BY <2>1, PartsOK
  <2>3. NextOperation(NoOp) /\ PurgeDatoms(D, F, Parts(D, "purge/entity"))
    BY <1>2 DEF PurgeAttribute
  <2> QED  BY <2>1, <2>2, <2>3, NextOp, NoOpFacts, PurgeDatomsInv
<1>3. ASSUME NEW e \in Entity, PurgeWhole(e) PROVE IInv'
  BY <1>3, NextOp, NoOpFacts, PurgeEntityInv DEF PurgeWhole
<1>4. ASSUME PurgePart PROVE IInv'
  <2>1. PICK x \in es : PurgeEntity(x.e, es \ {x})
    BY <1>4 DEF PurgePart
  <2>2. /\ open /\ ops' \in 0..MaxOps /\ last'.facts \subseteq Universe
        /\ UNCHANGED <<db, maxTx, open, odd>> /\ es \ {x} \subseteq Entry
    BY <1>4 DEF PurgePart, IInv, TypeOK
  <2> QED  BY <2>1, <2>2, PurgeEntityInv
<1> QED  BY <1>1, <1>2, <1>3, <1>4, PurgeBeforeInv DEF Purging

LEMMA StepInv == IInv /\ [Next]_vars => IInv'
<1> SUFFICES ASSUME IInv, [Next]_vars PROVE IInv'
  OBVIOUS
<1>1. ASSUME Adding PROVE IInv'
  BY <1>1, AssertInv, RaiseInv DEF Adding, Add, AddTaken
<1>2. ASSUME Swapping PROVE IInv'
  BY <1>2, AssertInv, RaiseInv DEF Swapping, CompareAndSwap, CompareAndSwapFails
<1>3. CASE UNCHANGED vars
  BY <1>3 DEF vars, report, IInv, TypeOK, CurrentSound
<1> QED  BY <1>1, <1>2, <1>3, BeginInv, FinishInv, RetractingInv, PurgingInv DEF Next

\* The type invariant, for all facts, schemas and bounds.
THEOREM TypeCorrect == Spec => []TypeOK
<1>1. IInv => TypeOK
  BY DEF IInv
<1> QED  BY <1>1, InitInv, StepInv, PTL DEF Spec

\* However the operations of transactions are mixed, and with components
\* retracted in any order, no attribute of cardinality one has two values and no
\* unique value two entities.
THEOREM CurrentValuesSound == Spec => []CurrentSound
<1>1. IInv => CurrentSound
  BY DEF IInv
<1> QED  BY <1>1, InitInv, StepInv, PTL DEF Spec

-----------------------------------------------------------------------------
(* What is purged is forgotten.  Purging works on the history, which misses the *)
(* current datoms of most attributes: it finds them by their temporal datoms,   *)
(* which every operation must keep.                                             *)

Backed(val) ==
    \A d \in val.current : d.a \notin NoHistory \cup Many =>
        \E x \in val.temporal : Fact(x) = Fact(d)

Forgotten(val, F) ==
    \A d \in val.current \cup val.temporal : Fact(d) \in F => d.tx = CurrentTx

PurgeInv ==
    /\ Backed(db) /\ Backed(after)
    /\ Forgotten(after, purged.facts)
    /\ ~open => purged.facts = {}

LEMMA PairCardinality ==
    ASSUME NEW a, NEW b, NEW S \in SUBSET {a, b}, NEW x \in S
    PROVE  /\ ~ Cardinality(S) < 1
           /\ \A y \in S : y # x => ~ Cardinality(S) < 2
<1>1. IsFiniteSet({a, b})
  <2>1. IsFiniteSet({a} \cup {b})
    BY FS_Singleton, FS_AddElement
  <2>2. {a, b} = {a} \cup {b}
    OBVIOUS
  <2> QED  BY <2>1, <2>2
<1>2. IsFiniteSet(S)
  BY <1>1, FS_Subset
<1>3. /\ IsFiniteSet(S \ {x}) /\ Cardinality(S \ {x}) = Cardinality(S) - 1
      /\ Cardinality(S) \in Nat /\ Cardinality(S \ {x}) \in Nat
  BY <1>2, FS_RemoveElement, FS_CardinalityType
<1>4. ASSUME NEW y \in S, y # x PROVE Cardinality(S \ {x}) # 0
  BY <1>3, <1>4, FS_EmptySet
<1> QED  BY <1>3, <1>4

LEMMA UpsertForgets ==
    ASSUME IInv, NEW val, ValueOK(val, CurrentTx), NEW f \in Universe, f.a \notin Many,
           Backed(val), NEW F, Forgotten(val, F)
    PROVE  /\ Backed(Upsert(val, Datom(f, CurrentTx)))
           /\ Forgotten(Upsert(val, Datom(f, CurrentTx)), F)
<1> DEFINE t == CurrentTx
           new == Datom(f, t)
           old == {d \in val.current : d.e = new.e /\ d.a = new.a}
           res == Upsert(val, new)
           kept == new.a \in NoHistory \/ \E d \in old : d.v = new.v
<1>1. /\ res.current = (val.current \ old) \cup {new}
      /\ ~kept => res.temporal = val.temporal \cup {Retracted(d, t) : d \in old} \cup {Asserted(new)}
      /\ kept => res.temporal = val.temporal
  BY DEF Upsert
<1>2. Backed(res)
  <2> SUFFICES ASSUME NEW d \in res.current, d.a \notin NoHistory \cup Many
               PROVE  \E x \in res.temporal : Fact(x) = Fact(d)
    BY DEF Backed
  <2>1. CASE d \in val.current
    BY <1>1, <2>1 DEF Backed
  <2>2. CASE d = new /\ kept
    <3>1. PICK x \in old : x.v = new.v
      BY <2>2
    <3>2. Fact(x) = Fact(new) /\ x \in val.current /\ x.a = d.a
      BY <2>2, <3>1
    <3> QED  BY <1>1, <2>2, <3>2 DEF Backed
  <2>3. CASE d = new /\ ~kept
    <3>1. Asserted(new) \in res.temporal
      BY <1>1, <2>3
    <3>2. Fact(Asserted(new)) = Fact(new)
      OBVIOUS
    <3> QED  BY <2>3, <3>1, <3>2
  <2> QED  BY <1>1, <2>1, <2>2, <2>3
<1>3. Forgotten(res, F)
  <2> SUFFICES ASSUME NEW d \in res.current \cup res.temporal, Fact(d) \in F
               PROVE  d.tx = t
    BY DEF Forgotten
  <2>1. d \in val.current \cup val.temporal \/ d = new \/ d = Asserted(new)
          \/ \E x \in old : d = Retracted(x, t)
    BY <1>1
  <2> QED  BY <2>1 DEF Forgotten
<1> QED  BY <1>2, <1>3

LEMMA InsertForgets ==
    ASSUME IInv, NEW val, ValueOK(val, CurrentTx), NEW f \in Universe, f.a \in Many,
           Backed(val), NEW F, Forgotten(val, F)
    PROVE  /\ Backed(Insert(val, Datom(f, CurrentTx)))
           /\ Forgotten(Insert(val, Datom(f, CurrentTx)), F)
<1> DEFINE new == Datom(f, CurrentTx)
           res == Insert(val, new)
<1>1. /\ res = [val EXCEPT !.current = val.current]
         \/ res = [val EXCEPT !.current = val.current \cup {new}]
  BY Zenon DEF Insert
<1>2. val = [current |-> val.current, temporal |-> val.temporal]
  BY DEF ValueOK
<1>3. res.current \subseteq val.current \cup {new} /\ res.temporal = val.temporal
  BY <1>1, <1>2
<1> QED  BY <1>3 DEF Backed, Forgotten

LEMMA RetractForgets ==
    ASSUME IInv, NEW val, ValueOK(val, CurrentTx), NEW D \in SUBSET val.current,
           Backed(val), NEW F, Forgotten(val, F)
    PROVE  /\ Backed(Retract(val, D, CurrentTx))
           /\ Forgotten(Retract(val, D, CurrentTx), F)
<1> DEFINE t == CurrentTx
           res == Retract(val, D, t)
<1>1. /\ res.current = val.current \ D
      /\ val.temporal \subseteq res.temporal
      /\ \A x \in res.temporal :
           x \in val.temporal \/ \E d \in D : x \in {Asserted(d), Retracted(d, t)}
  BY TypedTx, RetractOK
<1>2. Backed(res)
  BY <1>1 DEF Backed
<1>3. Forgotten(res, F)
  <2> SUFFICES ASSUME NEW x \in res.current \cup res.temporal, Fact(x) \in F
               PROVE  x.tx = t
    BY DEF Forgotten
  <2>1. CASE x \in val.current \cup val.temporal
    BY <2>1 DEF Forgotten
  <2>2. ASSUME NEW d \in D, x \in {Asserted(d), Retracted(d, t)} PROVE x.tx = t
    BY <2>2 DEF Forgotten
  <2> QED  BY <1>1, <2>1, <2>2
<1> QED  BY <1>2, <1>3

LEMMA PurgeBacked ==
    ASSUME NEW val, NEW D, Backed(val), ValueOK(val, CurrentTx)
    PROVE  Backed(Purge(val, D))
<1> SUFFICES ASSUME NEW d \in Purge(val, D).current, d.a \notin NoHistory \cup Many
             PROVE  \E x \in Purge(val, D).temporal : Fact(x) = Fact(d)
  BY DEF Backed
<1>1. d \in val.current /\ Fact(d) \notin Facts(D)
  BY DEF Purge
<1>2. PICK x \in val.temporal : Fact(x) = Fact(d)
  BY <1>1 DEF Backed
<1>3. {y \in D : SameKey(y, x)} = {}
  BY <1>1, <1>2
<1>4. Cardinality({y \in D : SameKey(y, x)}) = 0
  BY <1>3, FS_EmptySet
<1>5. x \in Purge(val, D).temporal
  BY <1>4 DEF Purge
<1> QED  BY <1>2, <1>5

\* Purging all of the history of the facts F leaves nothing of them.
LEMMA PurgeForgets ==
    ASSUME NEW val, NEW t \in Nat, ValueOK(val, t), Backed(val), NEW F
    PROVE  LET p == Purge(val, {d \in History(val) : Fact(d) \in F})
           IN  \A d \in p.current \cup p.temporal : Fact(d) \notin F
<1> DEFINE D == {d \in History(val) : Fact(d) \in F}
           p == Purge(val, D)
<1>1. ASSUME NEW d \in p.current, Fact(d) \in F PROVE FALSE
  <2>1. d \in val.current /\ Fact(d) \notin Facts(D)
    BY DEF Purge
  <2>2. CASE d.a \in NoHistory \cup Many
    <3>1. Asserted(d) \in History(val) /\ Fact(Asserted(d)) = Fact(d)
      BY <2>1, <2>2 DEF History
    <3> QED  BY <1>1, <2>1, <3>1
  <2>3. CASE d.a \notin NoHistory \cup Many
    <3>1. PICK x \in val.temporal : Fact(x) = Fact(d)
      BY <2>1, <2>3 DEF Backed
    <3>2. x \in D
      BY <1>1, <3>1 DEF History
    <3> QED  BY <2>1, <3>1, <3>2
  <2> QED  BY <2>2, <2>3
<1>2. ASSUME NEW x \in p.temporal, Fact(x) \in F PROVE FALSE
  <2> DEFINE S == {d \in D : SameKey(d, x)}
  <2>1. x \in val.temporal /\ x \in D /\ x \in S
    BY <1>2 DEF Purge, History
  <2>2. ASSUME NEW y \in S PROVE y \in {Asserted(x), Retracted(x, x.tx)}
    <3>1. y \in {Asserted(y), Retracted(y, y.tx)}
      BY HistoryOK
    <3>2. y.e = x.e /\ y.a = x.a /\ y.v = x.v /\ y.tx = x.tx
      BY <2>2
    <3> QED  BY <3>1, <3>2
  <2>3. S \subseteq {Asserted(x), Retracted(x, x.tx)}
    BY <2>2
  <2>4. /\ ~ Cardinality(S) < 1
        /\ \A y \in S : y # x => ~ Cardinality(S) < 2
    BY <2>1, <2>3, PairCardinality
  <2>5. ASSUME NEW y \in val.temporal, SameKey(x, y), x.added, ~y.added
        PROVE  y \in S /\ y # x
    BY <1>2, <2>5 DEF History
  <2> HIDE DEF S
  <2>6. Cardinality(S) < 1 \/ (/\ x.added /\ \E y \in val.temporal : SameKey(x, y) /\ ~y.added
                               /\ Cardinality(S) < 2)
    BY DEF Purge, S
  <2> QED  BY <2>4, <2>5, <2>6
<1> QED  BY <1>1, <1>2

LEMMA OperationPurge ==
    ASSUME PurgeInv, open, UNCHANGED <<db, maxTx, open>>,
           Backed(after'), Forgotten(after', purged'.facts)
    PROVE  PurgeInv'
BY DEF PurgeInv, Backed, Forgotten

LEMMA ClosePurge ==
    ASSUME NEW val, Backed(val), Close(val), db' = val
    PROVE  PurgeInv'
BY DEF Close, NoPurge, PurgeInv, Backed, Forgotten

LEMMA AssertPurge ==
    ASSUME IInv, PurgeInv, NEW f \in Universe, NextOperation(NoOp), Assert(f)
    PROVE  PurgeInv'
<1>1. Backed(after') /\ Forgotten(after', purged.facts)
  <2>1. CASE f.a \in Many
    BY <2>1, TypedTx, InsertForgets DEF Assert, PurgeInv
  <2>2. CASE f.a \notin Many
    BY <2>2, TypedTx, UpsertForgets DEF Assert, PurgeInv
  <2> QED  BY <2>1, <2>2
<1>2. open /\ UNCHANGED <<db, maxTx, open, purged>>
  BY DEF NextOperation, Assert
<1> QED  BY <1>1, <1>2, OperationPurge

LEMMA RetractDatomsPurge ==
    ASSUME IInv, PurgeInv, open, UNCHANGED <<db, maxTx, open>>,
           NEW D \in SUBSET after.current, NEW new, RetractDatoms(D, new)
    PROVE  PurgeInv'
<1>1. Backed(after') /\ Forgotten(after', purged.facts)
  BY TypedTx, RetractForgets DEF RetractDatoms, PurgeInv
<1>2. purged' = purged
  BY DEF RetractDatoms
<1> QED  BY <1>1, <1>2, OperationPurge

LEMMA RetractEntityPurge ==
    ASSUME IInv, PurgeInv, open, UNCHANGED <<db, maxTx, open>>,
           NEW e, NEW rest, RetractEntity(e, rest)
    PROVE  PurgeInv'
<1>1. OfEntity(after.current, e) \cup Referring(after.current, e) \subseteq after.current
  BY DEF OfEntity, Referring
<1> QED  BY <1>1, RetractDatomsPurge DEF RetractEntity

LEMMA RetractingPurge == ASSUME IInv, PurgeInv, Retracting PROVE PurgeInv'
<1>1. ASSUME NEW f \in Universe, RetractFact(f) PROVE PurgeInv'
  <2>1. {d \in after.current : Fact(d) = f} \subseteq after.current
    OBVIOUS
  <2> QED  BY <1>1, <2>1, RetractDatomsPurge DEF RetractFact, NextOperation
<1>2. ASSUME NEW f \in Universe, RetractAttribute(f.e, f.a) PROVE PurgeInv'
  <2> DEFINE D == {d \in after.current : d.e = f.e /\ d.a = f.a}
  <2>1. D \subseteq after.current /\ RetractDatoms(D, Parts(D, "retract/entity"))
    BY <1>2 DEF RetractAttribute
  <2>2. open /\ UNCHANGED <<db, maxTx, open>>
    BY <1>2 DEF RetractAttribute, NextOperation
  <2> QED  BY <2>1, <2>2, RetractDatomsPurge
<1>3. ASSUME NEW e \in Entity, RetractWhole(e) PROVE PurgeInv'
  BY <1>3, RetractEntityPurge DEF RetractWhole, NextOperation
<1>4. ASSUME RetractPart PROVE PurgeInv'
  BY <1>4, RetractEntityPurge DEF RetractPart
<1>5. ASSUME NEW f \in Universe, RetractValues(f.e, f.a) PROVE PurgeInv'
  <2>1. {d \in after.current : d.e = f.e /\ d.a = f.a} \subseteq after.current
    OBVIOUS
  <2> QED  BY <1>5, <2>1, RetractDatomsPurge DEF RetractValues, NextOperation
<1> QED  BY <1>1, <1>2, <1>3, <1>4, <1>5 DEF Retracting

\* The operations that purge all of the history of some facts.
LEMMA PurgeDatomsPurge ==
    ASSUME IInv, PurgeInv, open, UNCHANGED <<db, maxTx, open>>, NEW F, NEW new,
           PurgeDatoms({d \in History(after) : Fact(d) \in F}, F, new)
    PROVE  PurgeInv'
<1> DEFINE D == {d \in History(after) : Fact(d) \in F}
<1>1. /\ after' = Purge(after, D) /\ purged'.facts = purged.facts \cup F
  BY DEF PurgeDatoms, IInv, TypeOK
<1>2. Backed(after')
  BY <1>1, TypedTx, PurgeBacked DEF PurgeInv
<1>3. \A d \in after'.current \cup after'.temporal : Fact(d) \notin F
  BY <1>1, TypedTx, PurgeForgets DEF PurgeInv
<1>4. after'.current \subseteq after.current /\ after'.temporal \subseteq after.temporal
  BY <1>1, TypedTx, PurgeOK
<1>5. Forgotten(after', purged'.facts)
  BY <1>1, <1>3, <1>4 DEF Forgotten, PurgeInv
<1> QED  BY <1>2, <1>5, OperationPurge

LEMMA PurgeEntityPurge ==
    ASSUME ~AttributeRefs, IInv, PurgeInv, open, UNCHANGED <<db, maxTx, open>>,
           NEW e, NEW rest, PurgeEntity(e, rest)
    PROVE  PurgeInv'
<1> DEFINE F == {f \in Universe : f.e = e \/ (f.a \in Refs /\ f.v = e)}
           E == OfEntity(History(after), e)
<1>1. ASSUME NEW d \in History(after)
      PROVE  Fact(d) \in F <=> (d.e = e \/ (d.a \in Refs /\ d.v = e))
  BY TypedTx, HistoryOK
<1>2. E \cup PastReferring(History(after), e) = {d \in History(after) : Fact(d) \in F}
  BY <1>1 DEF OfEntity, PastReferring
<1>3. PurgeDatoms(E \cup PastReferring(History(after), e), F, rest \cup Parts(E, "purge/entity"))
  BY DEF PurgeEntity
<1> QED  BY <1>2, <1>3, PurgeDatomsPurge

LEMMA PurgingPurge == ASSUME ~AttributeRefs, IInv, PurgeInv, Purging PROVE PurgeInv'
<1>1. ASSUME NEW f \in Universe, PurgeFact(f) PROVE PurgeInv'
  <2>1. {d \in History(after) : Fact(d) = f} = {d \in History(after) : Fact(d) \in {f}}
    OBVIOUS
  <2> QED  BY <1>1, <2>1, PurgeDatomsPurge DEF PurgeFact, NextOperation
<1>2. ASSUME NEW f \in Universe, PurgeAttribute(f.e, f.a) PROVE PurgeInv'
  <2> DEFINE F == {g \in Universe : g.e = f.e /\ g.a = f.a}
             D == {d \in History(after) : d.e = f.e /\ d.a = f.a}
  <2>1. ASSUME NEW d \in History(after)
        PROVE  Fact(d) \in F <=> (d.e = f.e /\ d.a = f.a)
    BY TypedTx, HistoryOK
  <2>2. D = {d \in History(after) : Fact(d) \in F}
    BY <2>1
  <2>3. PurgeDatoms(D, F, Parts(D, "purge/entity"))
    BY <1>2 DEF PurgeAttribute
  <2>4. open /\ UNCHANGED <<db, maxTx, open>>
    BY <1>2 DEF PurgeAttribute, NextOperation
  <2> QED  BY <2>2, <2>3, <2>4, PurgeDatomsPurge
<1>3. ASSUME NEW e \in Entity, PurgeWhole(e) PROVE PurgeInv'
  BY <1>3, PurgeEntityPurge DEF PurgeWhole, NextOperation
<1>4. ASSUME PurgePart PROVE PurgeInv'
  BY <1>4, PurgeEntityPurge DEF PurgePart
<1>5. ASSUME NEW date \in 1..CurrentTx + 1, PurgeBefore(date) PROVE PurgeInv'
  <2>1. /\ after' = Purge(after, Expired(after, date)) /\ purged'.facts = purged.facts
        /\ open /\ UNCHANGED <<db, maxTx, open>>
    BY <1>5 DEF PurgeBefore, NextOperation, IInv, TypeOK
  <2>2. Backed(after')
    BY <2>1, TypedTx, PurgeBacked DEF PurgeInv
  <2>3. after'.current \subseteq after.current /\ after'.temporal \subseteq after.temporal
    BY <2>1, TypedTx, PurgeOK
  <2>4. Forgotten(after', purged'.facts)
    BY <2>1, <2>3 DEF Forgotten, PurgeInv
  <2> QED  BY <2>1, <2>2, <2>4, OperationPurge
<1> QED  BY <1>1, <1>2, <1>3, <1>4, <1>5 DEF Purging

LEMMA PurgeStep == ASSUME ~AttributeRefs PROVE IInv /\ PurgeInv /\ [Next]_vars => PurgeInv'
<1> SUFFICES ASSUME IInv, PurgeInv, [Next]_vars PROVE PurgeInv'
  OBVIOUS
<1>1. ASSUME Begin PROVE PurgeInv'
  BY <1>1 DEF Begin, PurgeInv, Backed, Forgotten
<1>2. ASSUME Finish PROVE PurgeInv'
  BY <1>2, ClosePurge DEF Finish, PurgeInv
<1>3. ASSUME Raise PROVE PurgeInv'
  BY <1>3, ClosePurge DEF Raise, PurgeInv
<1>4. ASSUME Adding \/ Swapping PROVE PurgeInv'
  BY <1>3, <1>4, AssertPurge DEF Adding, Swapping, Add, AddTaken, CompareAndSwap, CompareAndSwapFails
<1>5. CASE UNCHANGED vars
  BY <1>5 DEF vars, report, PurgeInv, Backed, Forgotten
<1> QED  BY <1>1, <1>2, <1>4, <1>5, RetractingPurge, PurgingPurge DEF Next

\* Purging a value, an attribute or an entity leaves nothing of it in either
\* index, and what the transaction does later brings back nothing of the past;
\* unless attributes are stored as ids, when references to a purged entity stay.
THEOREM PurgedIsForgotten == ASSUME ~AttributeRefs PROVE Spec => []PurgedForgotten
<1>1. Init => PurgeInv
  BY DEF Init, Empty, NoPurge, PurgeInv, Backed, Forgotten
<1>2. IInv /\ PurgeInv => PurgedForgotten
  <2> SUFFICES ASSUME PurgeInv, NEW d \in History(after), Fact(d) \in purged.facts
               PROVE  d.tx = CurrentTx
    BY DEF PurgedForgotten
  <2>1. CASE d \in after.temporal
    BY <2>1 DEF PurgeInv, Forgotten
  <2>2. ASSUME NEW x \in after.current, d = Asserted(x) PROVE d.tx = CurrentTx
    <3>1. Fact(x) = Fact(d) /\ x.tx = d.tx
      BY <2>2
    <3> QED  BY <3>1 DEF PurgeInv, Forgotten
  <2> QED  BY <2>1, <2>2 DEF History
<1>3. IInv /\ PurgeInv /\ [Next]_vars => PurgeInv'
  BY PurgeStep
<1> QED  BY <1>1, <1>2, <1>3, InitInv, StepInv, PTL DEF Spec

-----------------------------------------------------------------------------
(* The past of a value.  C is what was current up to some transaction, and U   *)
(* its history up to it.                                                       *)

\* Data of which at most one is current.
Beside(x, y) == x.e = y.e /\ x.a = y.a /\ (x.a \in Many => x.v = y.v)

\* Nothing of U beside x is later, and no other assertion as late.
Latest(x, U) ==
    \A y \in U : Beside(x, y) => y.tx <= x.tx /\ (y.added /\ y.tx = x.tx => Fact(y) = Fact(x))

\* What is current was asserted, and nothing has happened to it since.
Standing(C, U) ==
    \A d \in C : \E x \in U : x.added /\ Fact(x) = Fact(d) /\ x.tx <= d.tx /\ Latest(x, U)

\* An assertion that another fact follows was retracted.
Superseded(U) ==
    \A x, y \in U : x.added /\ Beside(x, y) /\ y.tx > x.tx /\ Fact(y) # Fact(x) =>
        \E z \in U : ~z.added /\ Fact(z) = Fact(x) /\ z.tx > x.tx

\* A transaction asserts one thing, and does not retract it.
OncePer(U) ==
    \A x, y \in U : x.tx = y.tx /\ Beside(x, y) =>
        /\ x.added /\ y.added => Fact(x) = Fact(y)
        /\ Fact(x) = Fact(y) => x.added = y.added

\* What has no history is of the history while it is current.
Kept(C, U) == \A x \in U : x.a \in NoHistory => \E d \in C : x = Asserted(d)

Sane(C, U) == Standing(C, U) /\ Superseded(U) /\ OncePer(U)

\* What was asserted and is not current was retracted.
Ended(C, U) ==
    \A x \in U : x.added /\ Fact(x) \notin Facts(C) =>
        \E z \in U : ~z.added /\ Fact(z) = Fact(x) /\ z.tx > x.tx

\* The shapes of data.
Timed(C, U) ==
    /\ \A d \in C : d.tx \in Nat /\ d.v \in Int /\ d = Datom(Fact(d), d.tx)
    /\ \A x \in U : x.tx \in Nat /\ x.v \in Int /\ x \in {Asserted(x), Retracted(x, x.tx)}

One(C) == \A x, y \in C : Beside(x, y) => x = y

Top(x, U) == \A y \in U : Beside(x, y) => y.tx <= x.tx

LEMMA BesideSame ==
    ASSUME NEW x, NEW y
    PROVE  /\ Beside(x, x)
           /\ Beside(x, y) => Beside(y, x)
           /\ Fact(x) = Fact(y) => Beside(x, y)
           /\ \A z : Beside(x, y) /\ Beside(y, z) => Beside(x, z)
BY DEF Beside

\* What a history shows are its assertions that nothing beside is later than.
LEMMA AssembleTop ==
    ASSUME NEW C, NEW U, Timed(C, U), OncePer(U)
    PROVE  /\ \A f \in Assemble(U) : \E x \in U : x.added /\ Fact(x) = f /\ Top(x, U)
           /\ \A x \in U : x.added /\ Top(x, U) => Fact(x) \in Assemble(U)
<1>1. ASSUME NEW x \in U, IsLast(x, U) PROVE Top(x, U)
  BY <1>1 DEF IsLast, Top, Beside
<1>2. ASSUME NEW x \in U, x.added, Top(x, U) PROVE IsLast(x, U)
  <2>1. CASE x.a \in Many
    BY <1>2, <2>1 DEF IsLast, Top, Beside
  <2>2. ASSUME x.a \notin Many, NEW y \in U, y.e = x.e, y.a = x.a
        PROVE  y.tx <= x.tx /\ (y.added /\ y.tx = x.tx => x.v <= y.v)
    <3>1. Beside(x, y) /\ y.tx <= x.tx
      BY <1>2, <2>2 DEF Top, Beside
    <3>2. y.added /\ y.tx = x.tx => Fact(x) = Fact(y)
      BY <1>2, <3>1 DEF OncePer
    <3>3. x.v \in Int
      BY DEF Timed
    <3> QED  BY <3>1, <3>2, <3>3
  <2> QED  BY <2>1, <2>2 DEF IsLast
<1> QED  BY <1>1, <1>2 DEF Assemble

\* The history as it is, but for data that are current, and are told of once more,
\* and for what has no history and is not current any more.
Restated(C, U, C2, U2) ==
    /\ C2 \subseteq C
    /\ \A x \in U2 : x \in U \/ \E d \in C : x = Asserted(d)
    /\ \A x \in U : x.a \notin NoHistory => x \in U2
    /\ \A d \in C2 : d.a \in NoHistory => Asserted(d) \in U2

\* An assertion of what is current is the last of it in the history.
LEMMA CurrentLatest ==
    ASSUME NEW C, NEW U, Timed(C, U), One(C), Sane(C, U), NEW d \in C, NEW y \in U, Beside(d, y)
    PROVE  /\ y.tx <= d.tx
           /\ y.tx = d.tx /\ (y.added \/ Fact(y) = Fact(d)) => y = Asserted(d)
<1>1. PICK x \in U : x.added /\ Fact(x) = Fact(d) /\ x.tx <= d.tx /\ Latest(x, U)
  BY DEF Sane, Standing
<1>2. Beside(x, y)
  BY <1>1, BesideSame DEF Beside
<1>3. y.tx <= x.tx /\ (y.added /\ y.tx = x.tx => Fact(y) = Fact(x))
  BY <1>1, <1>2 DEF Latest
<1>4. x.tx \in Nat /\ y.tx \in Nat /\ d.tx \in Nat
  BY DEF Timed
<1>5. y.tx <= d.tx
  BY <1>1, <1>3, <1>4
<1>6. ASSUME y.tx = d.tx, y.added \/ Fact(y) = Fact(d) PROVE y = Asserted(d)
  <2>1. y.tx = x.tx
    BY <1>1, <1>3, <1>4, <1>6
  <2>2. Fact(y) = Fact(x) /\ y.added
    BY <1>1, <1>2, <1>3, <1>6, <2>1 DEF Sane, OncePer
  <2>3. y = Asserted(y)
    BY <2>2 DEF Timed
  <2> QED  BY <1>1, <1>6, <2>2, <2>3
<1> QED  BY <1>5, <1>6

\* Restating what is current in the past keeps it sane ...
LEMMA RestateOnce ==
    ASSUME NEW C, NEW U, NEW C2, NEW U2, Timed(C, U), One(C), Sane(C, U), Restated(C, U, C2, U2)
    PROVE  OncePer(U2)
<1> SUFFICES ASSUME NEW x \in U2, NEW y \in U2, x.tx = y.tx, Beside(x, y)
             PROVE  /\ x.added /\ y.added => Fact(x) = Fact(y)
                    /\ Fact(x) = Fact(y) => x.added = y.added
  BY DEF OncePer
<1>1. CASE x \in U /\ y \in U
  BY <1>1 DEF Sane, OncePer
<1>2. ASSUME NEW d \in C, NEW z \in U, z.tx = d.tx, Beside(d, z)
      PROVE  z = Asserted(d) \/ (z.added = FALSE /\ Fact(z) # Fact(d))
  <2>1. z = Asserted(z) \/ z = Retracted(z, z.tx)
    BY DEF Timed
  <2>2. z.added = TRUE \/ z.added = FALSE
    BY <2>1
  <2> QED  BY <1>2, <2>2, CurrentLatest
<1>3. ASSUME NEW d \in C, x = Asserted(d), y \in U \/ y = Asserted(d)
      PROVE  y = x \/ (y.added = FALSE /\ Fact(y) # Fact(x))
  <2>1. Beside(d, y) /\ y.tx = d.tx /\ Fact(x) = Fact(d)
    BY <1>3 DEF Beside
  <2> QED  BY <1>2, <1>3, <2>1
<1>5. ASSUME NEW d \in C, y = Asserted(d), x \in U
      PROVE  x = y \/ (x.added = FALSE /\ Fact(x) # Fact(y))
  <2>1. Beside(d, x) /\ x.tx = d.tx /\ Fact(y) = Fact(d)
    BY <1>5, BesideSame DEF Beside
  <2> QED  BY <1>2, <1>5, <2>1
<1>4. ASSUME NEW d \in C, x = Asserted(d), NEW b \in C, y = Asserted(b) PROVE Fact(x) = Fact(y) /\ x.added = y.added
  <2>1. Beside(d, b)
    BY <1>4 DEF Beside
  <2> QED  BY <1>4, <2>1 DEF One
<1> QED  BY <1>1, <1>3, <1>4, <1>5 DEF Restated

LEMMA RestateSuperseded ==
    ASSUME NEW C, NEW U, NEW C2, NEW U2, Timed(C, U), One(C), Kept(C, U), Sane(C, U), Restated(C, U, C2, U2)
    PROVE  Superseded(U2)
<1> SUFFICES ASSUME NEW x \in U2, NEW y \in U2, x.added, Beside(x, y), y.tx > x.tx, Fact(y) # Fact(x)
             PROVE  \E z \in U2 : ~z.added /\ Fact(z) = Fact(x) /\ z.tx > x.tx
  BY DEF Superseded
<1>1. \A z \in U : ~z.added => z \in U2
  BY DEF Kept, Restated
<1>2. CASE x \in U /\ y \in U
  BY <1>1, <1>2 DEF Sane, Superseded
<1>3. ASSUME NEW d \in C, x = Asserted(d), y \in U PROVE FALSE
  <2>1. Beside(d, y) /\ x.tx = d.tx
    BY <1>3 DEF Beside
  <2>2. y.tx <= d.tx /\ y.tx \in Nat /\ d.tx \in Nat
    BY <2>1, <1>3, CurrentLatest DEF Timed
  <2> QED  BY <2>1, <2>2
<1>4. ASSUME NEW d \in C, y = Asserted(d), x \in U
      PROVE  \E z \in U2 : ~z.added /\ Fact(z) = Fact(x) /\ z.tx > x.tx
  <2>1. PICK w \in U : w.added /\ Fact(w) = Fact(d) /\ w.tx <= d.tx /\ Latest(w, U)
    BY DEF Sane, Standing
  <2>2. Beside(w, x) /\ Beside(x, w) /\ Fact(w) # Fact(x)
    BY <1>4, <2>1 DEF Beside
  <2>3. x.tx <= w.tx /\ x.tx # w.tx /\ x.tx \in Nat /\ w.tx \in Nat
    BY <1>4, <2>1, <2>2 DEF Latest, Timed
  <2>4. w.tx > x.tx
    BY <2>3
  <2> QED  BY <1>1, <1>4, <2>2, <2>4 DEF Sane, Superseded
<1>5. ASSUME NEW d \in C, x = Asserted(d), NEW b \in C, y = Asserted(b) PROVE FALSE
  <2>1. Beside(d, b)
    BY <1>5 DEF Beside
  <2> QED  BY <1>5, <2>1 DEF One
<1> QED  BY <1>2, <1>3, <1>4, <1>5 DEF Restated

LEMMA RestateStanding ==
    ASSUME NEW C, NEW U, NEW C2, NEW U2, Timed(C, U), One(C), Kept(C, U), Sane(C, U), Restated(C, U, C2, U2)
    PROVE  Standing(C2, U2)
<1> SUFFICES ASSUME NEW d \in C2
             PROVE  \E x \in U2 : x.added /\ Fact(x) = Fact(d) /\ x.tx <= d.tx /\ Latest(x, U2)
  BY DEF Standing
<1>0. d \in C /\ d.tx \in Nat
  BY DEF Restated, Timed
<1>1. PICK w \in U : w.added /\ Fact(w) = Fact(d) /\ w.tx <= d.tx /\ Latest(w, U)
  BY <1>0 DEF Sane, Standing
<1>2. ASSUME NEW b \in C, Beside(d, b) PROVE b = d
  BY <1>0, <1>2 DEF One
<1>3. CASE Asserted(d) \in U2
  <2>1. ASSUME NEW y \in U2, Beside(d, y)
        PROVE  y.tx <= d.tx /\ (y.added /\ y.tx = d.tx => Fact(y) = Fact(d))
    <3>1. CASE y \in U
      BY <1>0, <2>1, <3>1, CurrentLatest
    <3>2. ASSUME NEW b \in C, y = Asserted(b)
          PROVE  y.tx <= d.tx /\ (y.added /\ y.tx = d.tx => Fact(y) = Fact(d))
      <4>1. b = d
        BY <1>2, <2>1, <3>2 DEF Beside
      <4> QED  BY <1>0, <3>2, <4>1
    <3> QED  BY <3>1, <3>2 DEF Restated
  <2>2. Latest(Asserted(d), U2)
    BY <2>1 DEF Latest, Beside
  <2> QED  BY <1>0, <1>3, <2>2
<1>4. CASE Asserted(d) \notin U2
  <2>1. w \in U2
    BY <1>0, <1>1, <1>4 DEF Restated
  <2>2. ASSUME NEW y \in U2, Beside(w, y)
        PROVE  y.tx <= w.tx /\ (y.added /\ y.tx = w.tx => Fact(y) = Fact(w))
    <3>1. ASSUME NEW b \in C, y = Asserted(b) PROVE FALSE
      <4>1. b = d
        BY <1>1, <1>2, <2>2, <3>1 DEF Beside
      <4> QED  BY <1>4, <3>1, <4>1
    <3>2. y \in U
      BY <3>1 DEF Restated
    <3> QED  BY <1>1, <2>2, <3>2 DEF Latest
  <2> QED  BY <1>1, <2>1, <2>2 DEF Latest
<1> QED  BY <1>3, <1>4

LEMMA RestateSane ==
    ASSUME NEW C, NEW U, NEW C2, NEW U2, Timed(C, U), One(C), Kept(C, U), Sane(C, U), Restated(C, U, C2, U2)
    PROVE  Sane(C2, U2) /\ Timed(C2, U2)
<1>1. Timed(C2, U2)
  <2> SUFFICES ASSUME NEW x \in U2
               PROVE  x.tx \in Nat /\ x.v \in Int /\ x \in {Asserted(x), Retracted(x, x.tx)}
    BY DEF Timed, Restated
  <2> QED  BY DEF Timed, Restated
<1> QED  BY <1>1, RestateOnce, RestateSuperseded, RestateStanding DEF Sane

\* ... and does not change what is seen.
LEMMA RestateSeen ==
    ASSUME NEW C, NEW U, NEW C2, NEW U2, Timed(C, U), One(C), Kept(C, U), Sane(C, U), Restated(C, U, C2, U2)
    PROVE  /\ Assemble(U2) \subseteq Assemble(U)
           /\ WithHistory(Assemble(U)) \subseteq Assemble(U2)
<1>0. Timed(C2, U2) /\ OncePer(U2) /\ OncePer(U)
  BY RestateSane DEF Sane
<1>1. ASSUME NEW x \in U2, x.added, Top(x, U2) PROVE Fact(x) \in Assemble(U)
  <2>1. CASE x \in U
    <3>1. ASSUME NEW y \in U, Beside(x, y) PROVE y.tx <= x.tx
      <4>1. CASE y \in U2
        BY <1>1, <3>1, <4>1 DEF Top
      <4>2. CASE y \notin U2
        <5>1. PICK d \in C : y = Asserted(d)
          BY <3>1, <4>2 DEF Kept, Restated
        <5>2. x.a \in NoHistory
          BY <3>1, <4>2 DEF Beside, Restated
        <5>3. PICK b \in C : x = Asserted(b)
          BY <2>1, <5>2 DEF Kept
        <5>4. b = d
          BY <3>1, <5>1, <5>3 DEF Beside, One
        <5> QED  BY <4>2, <5>1, <5>3, <5>4
      <4> QED  BY <4>1, <4>2
    <3>2. Top(x, U)
      BY <3>1 DEF Top
    <3> QED  BY <1>0, <1>1, <2>1, <3>2, AssembleTop
  <2>2. ASSUME NEW d \in C, x = Asserted(d) PROVE Fact(x) \in Assemble(U)
    <3>1. PICK w \in U : w.added /\ Fact(w) = Fact(d) /\ w.tx <= d.tx /\ Latest(w, U)
      BY DEF Sane, Standing
    <3>2. Top(w, U) /\ Fact(w) = Fact(x)
      BY <2>2, <3>1 DEF Latest, Top
    <3>3. Fact(w) \in Assemble(U)
      BY <1>0, <3>1, <3>2, AssembleTop
    <3> QED  BY <3>2, <3>3
  <2> QED  BY <2>1, <2>2 DEF Restated
<1>2. ASSUME NEW x \in U, x.added, Top(x, U), x.a \notin NoHistory PROVE Fact(x) \in Assemble(U2)
  <2>0. x \in U2
    BY <1>2 DEF Restated
  <2>1. CASE Top(x, U2)
    BY <1>0, <1>2, <2>0, <2>1, AssembleTop
  <2>2. ASSUME NEW y \in U2, Beside(x, y), ~(y.tx <= x.tx) PROVE Fact(x) \in Assemble(U2)
    <3>1. PICK d \in C : y = Asserted(d)
      BY <1>2, <2>2 DEF Restated, Top
    <3>2. PICK w \in U : w.added /\ Fact(w) = Fact(d) /\ w.tx <= d.tx /\ Latest(w, U)
      BY DEF Sane, Standing
    <3>3. Beside(x, w) /\ Beside(w, x)
      BY <2>2, <3>1, <3>2 DEF Beside
    <3>4. w.tx <= x.tx /\ x.tx <= w.tx /\ (x.tx = w.tx => Fact(x) = Fact(w)) /\ x.tx \in Nat /\ w.tx \in Nat
      BY <1>2, <3>2, <3>3 DEF Top, Latest, Timed
    <3>5. Fact(x) = Fact(y) /\ y.added
      BY <3>1, <3>2, <3>4
    <3>6. ASSUME NEW z \in U2, Beside(y, z) PROVE z.tx <= y.tx
      <4>1. CASE z \in U
        <5>1. Beside(d, z)
          BY <3>1, <3>6 DEF Beside
        <5> QED  BY <3>1, <4>1, <5>1, CurrentLatest
      <4>2. ASSUME NEW b \in C, z = Asserted(b) PROVE z.tx <= y.tx
        <5>1. b = d /\ d.tx \in Nat
          BY <3>1, <3>6, <4>2 DEF Beside, One, Timed
        <5> QED  BY <3>1, <4>2, <5>1
      <4> QED  BY <4>1, <4>2 DEF Restated
    <3>7. Top(y, U2)
      BY <3>6 DEF Top
    <3>8. Fact(y) \in Assemble(U2)
      BY <1>0, <3>5, <3>7, AssembleTop
    <3> QED  BY <3>5, <3>8
  <2> QED  BY <2>1, <2>2 DEF Top
<1>3. Assemble(U2) \subseteq Assemble(U)
  BY <1>0, <1>1, AssembleTop
<1>4. WithHistory(Assemble(U)) \subseteq Assemble(U2)
  <2> SUFFICES ASSUME NEW f \in Assemble(U), f.a \notin NoHistory PROVE f \in Assemble(U2)
    BY DEF WithHistory
  <2>1. PICK x \in U : x.added /\ Fact(x) = f /\ Top(x, U)
    BY <1>0, AssembleTop
  <2>2. x.a \notin NoHistory
    BY <2>1
  <2> QED  BY <1>2, <2>1, <2>2
<1> QED  BY <1>3, <1>4

LEMMA RestateEnded ==
    ASSUME NEW C, NEW U, NEW U2, Kept(C, U), Ended(C, U), Restated(C, U, C, U2)
    PROVE  Ended(C, U2)
<1> SUFFICES ASSUME NEW x \in U2, x.added, Fact(x) \notin Facts(C)
             PROVE  \E z \in U2 : ~z.added /\ Fact(z) = Fact(x) /\ z.tx > x.tx
  BY DEF Ended
<1>1. x \in U
  BY DEF Restated
<1>2. \A z \in U : ~z.added => z \in U2
  BY DEF Kept, Restated
<1> QED  BY <1>1, <1>2 DEF Ended

\* The data D of what is current end with transaction n.
Retired(C, U, D, n, U2) ==
    /\ D \subseteq C
    /\ \A d \in D : \A x \in U : Beside(d, x) => x.tx < n
    /\ \A x \in U2 : x \in U \/ \E d \in D : x = Retracted(d, n)
    /\ \A x \in U : x.a \notin NoHistory => x \in U2
    /\ \A d \in D : d.a \notin NoHistory => Retracted(d, n) \in U2
    /\ \A d \in C \ D : d.a \in NoHistory => Asserted(d) \in U2

\* Retracting the current data D in transaction n, the first to do so, keeps the
\* past sane ...
LEMMA RetireSane ==
    ASSUME NEW C, NEW U, NEW D, NEW n \in Nat, NEW U2, Timed(C, U), One(C), Kept(C, U), Sane(C, U),
           Retired(C, U, D, n, U2)
    PROVE  Sane(C \ D, U2) /\ Timed(C \ D, U2)
<1>0. ASSUME NEW x \in U2, NEW d \in D, x = Retracted(d, n)
      PROVE  /\ x.tx \in Nat /\ x.v \in Int /\ x = Retracted(x, x.tx) /\ ~x.added
             /\ x.tx = n /\ Fact(x) = Fact(d) /\ d \in C
             /\ \A y \in U : Beside(x, y) => y.tx < n
  <2>1. d \in C /\ x.v = d.v /\ x.tx = n
    BY <1>0 DEF Retired
  <2>2. \A y \in U : Beside(x, y) => Beside(d, y)
    BY <1>0 DEF Beside
  <2> QED  BY <1>0, <2>1, <2>2 DEF Retired, Timed
<1>1. Timed(C \ D, U2)
  <2> SUFFICES ASSUME NEW x \in U2
               PROVE  x.tx \in Nat /\ x.v \in Int /\ x \in {Asserted(x), Retracted(x, x.tx)}
    BY DEF Timed
  <2> QED  BY <1>0 DEF Timed, Retired
<1>2. OncePer(U2)
  <2> SUFFICES ASSUME NEW x \in U2, NEW y \in U2, x.tx = y.tx, Beside(x, y)
               PROVE  /\ x.added /\ y.added => Fact(x) = Fact(y)
                      /\ Fact(x) = Fact(y) => x.added = y.added
    BY DEF OncePer
  <2>1. CASE x \in U /\ y \in U
    BY <2>1 DEF Sane, OncePer
  <2>2. ASSUME NEW d \in D, x = Retracted(d, n), y \in U PROVE FALSE
    <3>1. y.tx < n /\ x.tx = n
      BY <1>0, <2>2
    <3> QED  BY <3>1
  <2>3. ASSUME NEW d \in D, y = Retracted(d, n), x \in U PROVE FALSE
    <3>1. x.tx < n /\ y.tx = n
      BY <1>0, <2>3, BesideSame
    <3> QED  BY <3>1
  <2>4. ASSUME NEW d \in D, x = Retracted(d, n), NEW b \in D, y = Retracted(b, n) PROVE x.added = y.added /\ ~x.added
    BY <2>4
  <2> QED  BY <2>1, <2>2, <2>3, <2>4 DEF Retired
<1>3. \A z \in U : ~z.added => z \in U2
  BY DEF Kept, Retired
<1>4. Superseded(U2)
  <2> SUFFICES ASSUME NEW x \in U2, NEW y \in U2, x.added, Beside(x, y), y.tx > x.tx, Fact(y) # Fact(x)
               PROVE  \E z \in U2 : ~z.added /\ Fact(z) = Fact(x) /\ z.tx > x.tx
    BY DEF Superseded
  <2>1. x \in U
    BY DEF Retired
  <2>2. CASE y \in U
    BY <1>3, <2>1, <2>2 DEF Sane, Superseded
  <2>3. ASSUME NEW d \in D, y = Retracted(d, n)
        PROVE  \E z \in U2 : ~z.added /\ Fact(z) = Fact(x) /\ z.tx > x.tx
    <3>1. PICK w \in U : w.added /\ Fact(w) = Fact(d) /\ w.tx <= d.tx /\ Latest(w, U)
      BY <2>3 DEF Sane, Standing, Retired
    <3>2. Beside(w, x) /\ Beside(x, w) /\ Fact(w) # Fact(x)
      BY <2>3, <3>1 DEF Beside
    <3>3. x.tx <= w.tx /\ x.tx # w.tx /\ x.tx \in Nat /\ w.tx \in Nat
      BY <2>1, <3>1, <3>2 DEF Latest, Timed
    <3>4. w.tx > x.tx
      BY <3>3
    <3> QED  BY <1>3, <2>1, <3>1, <3>2, <3>4 DEF Sane, Superseded
  <2> QED  BY <2>2, <2>3 DEF Retired
<1>5. Standing(C \ D, U2)
  <2> SUFFICES ASSUME NEW d \in C \ D
               PROVE  \E x \in U2 : x.added /\ Fact(x) = Fact(d) /\ x.tx <= d.tx /\ Latest(x, U2)
    BY DEF Standing
  <2>1. PICK w \in U : w.added /\ Fact(w) = Fact(d) /\ w.tx <= d.tx /\ Latest(w, U)
    BY DEF Sane, Standing
  <2>2. w \in U2
    <3>1. CASE w.a \in NoHistory
      <4>1. PICK b \in C : w = Asserted(b)
        BY <3>1 DEF Kept
      <4>2. b = d
        BY <2>1, <4>1 DEF Beside, One
      <4> QED  BY <3>1, <4>1, <4>2 DEF Retired
    <3> QED  BY <3>1 DEF Retired
  <2>3. ASSUME NEW y \in U2, Beside(w, y) PROVE y \in U
    <3>1. ASSUME NEW b \in D, y = Retracted(b, n) PROVE FALSE
      <4>1. Beside(d, b) /\ b \in C
        BY <2>1, <2>3, <3>1 DEF Beside, Retired
      <4> QED  BY <4>1 DEF One
    <3> QED  BY <3>1 DEF Retired
  <2>4. Latest(w, U2)
    BY <2>1, <2>3 DEF Latest
  <2> QED  BY <2>1, <2>2, <2>4
<1> QED  BY <1>1, <1>2, <1>4, <1>5 DEF Sane

\* ... and what is no longer current ended.
LEMMA RetireEnded ==
    ASSUME NEW C, NEW U, NEW D, NEW n \in Nat, NEW U2, Timed(C, U), Kept(C, U), Ended(C, U),
           Retired(C, U, D, n, U2), Kept(C \ D, U2)
    PROVE  Ended(C \ D, U2)
<1> SUFFICES ASSUME NEW x \in U2, x.added, Fact(x) \notin Facts(C \ D)
             PROVE  \E z \in U2 : ~z.added /\ Fact(z) = Fact(x) /\ z.tx > x.tx
  BY DEF Ended
<1>1. x \in U
  BY DEF Retired
<1>2. CASE Fact(x) \notin Facts(C)
  <2>1. \A z \in U : ~z.added => z \in U2
    BY DEF Kept, Retired
  <2> QED  BY <1>1, <1>2, <2>1 DEF Ended
<1>3. CASE Fact(x) \in Facts(C)
  <2>1. PICK d \in D : Fact(d) = Fact(x)
    BY <1>3
  <2>2. d.a \notin NoHistory
    <3>1. ASSUME d.a \in NoHistory PROVE FALSE
      <4>1. PICK b \in C \ D : x = Asserted(b)
        BY <2>1, <3>1 DEF Kept
      <4>2. Fact(b) = Fact(x)
        BY <4>1
      <4> QED  BY <4>2
    <3> QED  BY <3>1
  <2>3. Beside(d, x) /\ x.tx \in Nat
    BY <1>1, <2>1 DEF Beside, Timed
  <2>4. Retracted(d, n) \in U2 /\ n > x.tx
    BY <1>1, <2>1, <2>2, <2>3 DEF Retired
  <2>5. ~Retracted(d, n).added /\ Fact(Retracted(d, n)) = Fact(x) /\ Retracted(d, n).tx = n
    BY <2>1
  <2> QED  BY <2>4, <2>5
<1> QED  BY <1>2, <1>3

\* A new datum, of which and beside which there is none.
LEMMA EnterSane ==
    ASSUME NEW C, NEW U, NEW f, NEW n \in Nat, f.v \in Int, Timed(C, U), Sane(C, U), Ended(C, U),
           \A d \in C : ~Beside(d, Datom(f, n)),
           \A y \in U : Beside(Datom(f, n), y) => y.tx <= n /\ (y.tx = n => ~y.added /\ Fact(y) # Fact(Datom(f, n)))
    PROVE  LET C2 == C \cup {Datom(f, n)}
               U2 == U \cup {Asserted(Datom(f, n))}
           IN  Sane(C2, U2) /\ Ended(C2, U2) /\ Timed(C2, U2)
<1> DEFINE new == Datom(f, n)
           a == Asserted(new)
           C2 == C \cup {new}
           U2 == U \cup {a}
<1>0. /\ a.added /\ a.tx = n /\ Fact(a) = Fact(new) /\ new.tx = n /\ a = Asserted(a) /\ a.v \in Int /\ new.v \in Int
      /\ new = Datom(Fact(new), new.tx)
      /\ \A y : Beside(a, y) <=> Beside(new, y)
  BY DEF Beside
<1>1. \A y \in U : Beside(new, y) => y.tx <= n /\ (y.tx = n => ~y.added /\ Fact(y) # Fact(new))
  OBVIOUS
<1>2. \A d \in C : ~Beside(d, new)
  OBVIOUS
<1> HIDE DEF new, a
<1>3. Timed(C2, U2)
  BY <1>0 DEF Timed
<1>4. OncePer(U2)
  <2> SUFFICES ASSUME NEW x \in U2, NEW y \in U2, x.tx = y.tx, Beside(x, y)
               PROVE  /\ x.added /\ y.added => Fact(x) = Fact(y)
                      /\ Fact(x) = Fact(y) => x.added = y.added
    BY DEF OncePer
  <2>1. CASE x \in U /\ y \in U
    BY <2>1 DEF Sane, OncePer
  <2>2. CASE x = a /\ y \in U
    BY <1>0, <1>1, <2>2
  <2>3. CASE y = a /\ x \in U
    BY <1>0, <1>1, <2>3, BesideSame
  <2> QED  BY <2>1, <2>2, <2>3
<1>5. Superseded(U2)
  <2> SUFFICES ASSUME NEW x \in U2, NEW y \in U2, x.added, Beside(x, y), y.tx > x.tx, Fact(y) # Fact(x)
               PROVE  \E z \in U : ~z.added /\ Fact(z) = Fact(x) /\ z.tx > x.tx
    BY DEF Superseded
  <2>1. CASE x \in U /\ y \in U
    BY <2>1 DEF Sane, Superseded
  <2>2. CASE x = a /\ y \in U
    <3>1. y.tx <= n /\ y.tx \in Nat
      BY <1>0, <1>1, <2>2 DEF Timed
    <3> QED  BY <1>0, <2>2, <3>1
  <2>3. CASE y = a /\ x \in U
    <3>1. Beside(x, new)
      BY <1>0, <2>3, BesideSame
    <3>2. ASSUME NEW d \in C, Fact(d) = Fact(x) PROVE FALSE
      BY <1>2, <3>1, <3>2 DEF Beside
    <3>3. Fact(x) \notin Facts(C)
      BY <3>2
    <3> QED  BY <2>3, <3>3, Zenon DEF Ended
  <2>4. CASE x = a /\ y = a
    BY <2>4
  <2> QED  BY <2>1, <2>2, <2>3, <2>4
<1>6. Standing(C2, U2)
  <2> SUFFICES ASSUME NEW d \in C2
               PROVE  \E x \in U2 : x.added /\ Fact(x) = Fact(d) /\ x.tx <= d.tx /\ Latest(x, U2)
    BY DEF Standing
  <2>1. CASE d = new
    <3>1. Latest(a, U2)
      BY <1>0, <1>1 DEF Latest
    <3> QED  BY <1>0, <2>1, <3>1
  <2>2. CASE d \in C
    <3>1. PICK w \in U : w.added /\ Fact(w) = Fact(d) /\ w.tx <= d.tx /\ Latest(w, U)
      BY <2>2 DEF Sane, Standing
    <3>2. ~Beside(w, a)
      BY <1>0, <1>2, <2>2, <3>1 DEF Beside
    <3>3. Latest(w, U2)
      BY <3>1, <3>2 DEF Latest
    <3> QED  BY <3>1, <3>3
  <2> QED  BY <2>1, <2>2
<1>7. Ended(C2, U2)
  <2> SUFFICES ASSUME NEW x \in U2, x.added, Fact(x) \notin Facts(C2)
               PROVE  \E z \in U : ~z.added /\ Fact(z) = Fact(x) /\ z.tx > x.tx
    BY DEF Ended
  <2>1. Fact(x) \notin Facts(C) /\ x # a
    BY <1>0
  <2> QED  BY <2>1 DEF Ended
<1> QED  BY <1>3, <1>4, <1>5, <1>6, <1>7 DEF Sane, new, a

\* The transaction of what is current may be a later one.
LEMMA RenewSane ==
    ASSUME NEW C, NEW U, Timed(C, U), Sane(C, U), NEW d \in C, NEW new, Fact(new) = Fact(d),
           new.tx \in Nat, d.tx <= new.tx, new = Datom(Fact(new), new.tx)
    PROVE  LET C2 == (C \ {d}) \cup {new}
           IN  Sane(C2, U) /\ Timed(C2, U) /\ (Ended(C, U) => Ended(C2, U))
<1> DEFINE C2 == (C \ {d}) \cup {new}
<1>1. Timed(C2, U)
  <2>1. new.v \in Int
    BY DEF Timed
  <2> QED  BY <2>1 DEF Timed
<1>2. Standing(C2, U)
  <2> SUFFICES ASSUME NEW b \in C2
               PROVE  \E x \in U : x.added /\ Fact(x) = Fact(b) /\ x.tx <= b.tx /\ Latest(x, U)
    BY DEF Standing
  <2>1. CASE b \in C
    BY <2>1 DEF Sane, Standing
  <2>2. CASE b = new
    <3>1. PICK w \in U : w.added /\ Fact(w) = Fact(d) /\ w.tx <= d.tx /\ Latest(w, U)
      BY DEF Sane, Standing
    <3>2. w.tx <= new.tx
      BY <3>1 DEF Timed
    <3> QED  BY <2>2, <3>1, <3>2
  <2> QED  BY <2>1, <2>2
<1>3. Facts(C) \subseteq Facts(C2)
  OBVIOUS
<1>4. Ended(C, U) => Ended(C2, U)
  BY <1>3, Zenon DEF Ended
<1> QED  BY <1>1, <1>2, <1>4 DEF Sane

\* Nothing is left of the facts F.
Without(D, F, D2) == \A x : x \in D2 <=> x \in D /\ Fact(x) \notin F

\* Without all data of the facts F the past is sane, and shows what it did but F.
LEMMA WithoutSane ==
    ASSUME NEW C, NEW U, NEW F, Timed(C, U), Sane(C, U),
           NEW C2, Without(C, F, C2), NEW U2, Without(U, F, U2)
    PROVE  /\ Sane(C2, U2) /\ Timed(C2, U2) /\ (Ended(C, U) => Ended(C2, U2))
           /\ Assemble(U2) \subseteq Assemble(U)
           /\ Assemble(U) \ F \subseteq Assemble(U2)
<1>0. /\ \A d : d \in C2 <=> d \in C /\ Fact(d) \notin F
      /\ \A x : x \in U2 <=> x \in U /\ Fact(x) \notin F
  BY DEF Without
<1> USE <1>0
<1>1. Timed(C2, U2)
  BY DEF Timed
<1>2. OncePer(U2) /\ OncePer(U)
  BY DEF Sane, OncePer
<1>3. Superseded(U2)
  <2> SUFFICES ASSUME NEW x \in U2, NEW y \in U2, x.added, Beside(x, y), y.tx > x.tx, Fact(y) # Fact(x)
               PROVE  \E z \in U2 : ~z.added /\ Fact(z) = Fact(x) /\ z.tx > x.tx
    BY DEF Superseded
  <2>1. PICK z \in U : ~z.added /\ Fact(z) = Fact(x) /\ z.tx > x.tx
    BY DEF Sane, Superseded
  <2>2. z \in U2
    BY <2>1
  <2> QED  BY <2>1, <2>2
<1>4. Standing(C2, U2)
  <2> SUFFICES ASSUME NEW d \in C2
               PROVE  \E x \in U2 : x.added /\ Fact(x) = Fact(d) /\ x.tx <= d.tx /\ Latest(x, U2)
    BY DEF Standing
  <2>1. PICK w \in U : w.added /\ Fact(w) = Fact(d) /\ w.tx <= d.tx /\ Latest(w, U)
    BY DEF Sane, Standing
  <2>2. w \in U2 /\ Latest(w, U2)
    BY <2>1 DEF Latest
  <2> QED  BY <2>1, <2>2
<1>5. Ended(C, U) => Ended(C2, U2)
  <2> SUFFICES ASSUME Ended(C, U), NEW x \in U2, x.added, Fact(x) \notin Facts(C2)
               PROVE  \E z \in U2 : ~z.added /\ Fact(z) = Fact(x) /\ z.tx > x.tx
    BY DEF Ended
  <2>1. Fact(x) \notin Facts(C)
    OBVIOUS
  <2>2. PICK z \in U : ~z.added /\ Fact(z) = Fact(x) /\ z.tx > x.tx
    BY <2>1, Zenon DEF Ended
  <2>3. z \in U2
    BY <2>2
  <2> QED  BY <2>2, <2>3
<1>6. ASSUME NEW x \in U2, x.added, Top(x, U2) PROVE Top(x, U)
  <2> SUFFICES ASSUME NEW y \in U, Beside(x, y), ~(y.tx <= x.tx) PROVE FALSE
    BY DEF Top
  <2>1. y \notin U2 /\ Fact(y) # Fact(x) /\ y.tx > x.tx
    BY <1>6 DEF Top, Timed
  <2>2. PICK z \in U : ~z.added /\ Fact(z) = Fact(x) /\ z.tx > x.tx
    BY <1>6, <2>1 DEF Sane, Superseded
  <2>3. z \in U2 /\ Beside(x, z)
    BY <2>2 DEF Beside
  <2>4. z.tx <= x.tx /\ z.tx \in Nat /\ x.tx \in Nat
    BY <1>6, <2>3 DEF Top, Timed
  <2> QED  BY <2>2, <2>4
<1>7. Assemble(U2) \subseteq Assemble(U)
  <2> SUFFICES ASSUME NEW f \in Assemble(U2) PROVE f \in Assemble(U)
    OBVIOUS
  <2>1. PICK x \in U2 : x.added /\ Fact(x) = f /\ Top(x, U2)
    BY <1>1, <1>2, AssembleTop
  <2> QED  BY <1>2, <1>6, <2>1, AssembleTop
<1>8. Assemble(U) \ F \subseteq Assemble(U2)
  <2> SUFFICES ASSUME NEW f \in Assemble(U), f \notin F PROVE f \in Assemble(U2)
    OBVIOUS
  <2>1. PICK x \in U : x.added /\ Fact(x) = f /\ Top(x, U)
    BY <1>2, AssembleTop
  <2>2. x \in U2 /\ Top(x, U2)
    BY <2>1 DEF Top
  <2> QED  BY <1>1, <1>2, <2>1, <2>2, AssembleTop
<1> QED  BY <1>1, <1>2, <1>3, <1>4, <1>5, <1>7, <1>8 DEF Sane

\* What is gone of the history was before the date, or is a current value of many;
\* what is left from before it is current; and all of what is current is left.
Expiring(C, U, date, C2, U2) ==
    /\ C2 \subseteq C /\ U2 \subseteq U
    /\ \A x \in U \ U2 : x.tx < date \/ \E d \in C : d.a \in Many /\ x = Asserted(d)
    /\ \A x \in U2 : x.tx < date => \E d \in C : Fact(d) = Fact(x) /\ d.tx = x.tx
    /\ \A d \in C2 : \A x \in U : Fact(x) = Fact(d) => x \in U2

\* What is left from before the date is later than what is gone.
LEMMA ExpireEarlier ==
    ASSUME NEW C, NEW U, NEW date \in Nat, NEW C2, NEW U2, Timed(C, U), One(C), Sane(C, U),
           Expiring(C, U, date, C2, U2),
           NEW x \in U2, NEW y \in U, y \notin U2, Beside(x, y)
    PROVE  y.tx <= x.tx \/ \E d \in C : y = Asserted(d) /\ Fact(d) = Fact(x)
<1>1. x.tx \in Nat /\ y.tx \in Nat
  BY DEF Expiring, Timed
<1>2. CASE x.tx < date
  <2>1. PICK d \in C : Fact(d) = Fact(x) /\ d.tx = x.tx
    BY <1>2 DEF Expiring
  <2>2. Beside(d, y)
    BY <2>1 DEF Beside
  <2> QED  BY <2>1, <2>2, CurrentLatest
<1>3. CASE y.tx < date
  BY <1>1, <1>2, <1>3
<1>4. ASSUME NEW d \in C, d.a \in Many, y = Asserted(d) PROVE Fact(d) = Fact(x)
  BY <1>4 DEF Beside
<1> QED  BY <1>3, <1>4 DEF Expiring

\* Without what has expired the past is sane, and shows nothing new.
LEMMA ExpireSane ==
    ASSUME NEW C, NEW U, NEW date \in Nat, NEW C2, NEW U2, Timed(C, U), One(C), Sane(C, U),
           Expiring(C, U, date, C2, U2)
    PROVE  /\ Sane(C2, U2) /\ Timed(C2, U2)
           /\ C2 = C /\ Ended(C, U) => Ended(C2, U2)
           /\ Assemble(U2) \subseteq Assemble(U)
<1>1. Timed(C2, U2)
  BY DEF Timed, Expiring
<1>2. OncePer(U2) /\ OncePer(U)
  BY DEF Sane, OncePer, Expiring
<1>3. ASSUME NEW x \in U2, NEW z \in U, ~z.added, Fact(z) = Fact(x), z.tx > x.tx PROVE z \in U2
  <2>1. Beside(x, z) /\ x.tx \in Nat /\ z.tx \in Nat
    BY <1>3 DEF Beside, Timed, Expiring
  <2>2. ~ z.tx <= x.tx
    BY <1>3, <2>1
  <2>3. ASSUME NEW d \in C, z = Asserted(d) PROVE FALSE
    BY <1>3, <2>3
  <2>4. z \notin U2 => z.tx <= x.tx \/ \E d \in C : z = Asserted(d) /\ Fact(d) = Fact(x)
    BY <2>1, ExpireEarlier
  <2> QED  BY <2>2, <2>3, <2>4
<1>4. Superseded(U2)
  <2> SUFFICES ASSUME NEW x \in U2, NEW y \in U2, x.added, Beside(x, y), y.tx > x.tx, Fact(y) # Fact(x)
               PROVE  \E z \in U2 : ~z.added /\ Fact(z) = Fact(x) /\ z.tx > x.tx
    BY DEF Superseded
  <2>1. PICK z \in U : ~z.added /\ Fact(z) = Fact(x) /\ z.tx > x.tx
    BY DEF Sane, Superseded, Expiring
  <2> QED  BY <1>3, <2>1
<1>5. Standing(C2, U2)
  <2> SUFFICES ASSUME NEW d \in C2
               PROVE  \E x \in U2 : x.added /\ Fact(x) = Fact(d) /\ x.tx <= d.tx /\ Latest(x, U2)
    BY DEF Standing
  <2>1. PICK w \in U : w.added /\ Fact(w) = Fact(d) /\ w.tx <= d.tx /\ Latest(w, U)
    BY DEF Sane, Standing, Expiring
  <2>2. w \in U2 /\ Latest(w, U2)
    BY <2>1 DEF Latest, Expiring
  <2> QED  BY <2>1, <2>2
<1>6. ASSUME C2 = C, Ended(C, U) PROVE Ended(C2, U2)
  <2> SUFFICES ASSUME NEW x \in U2, x.added, Fact(x) \notin Facts(C)
               PROVE  \E z \in U2 : ~z.added /\ Fact(z) = Fact(x) /\ z.tx > x.tx
    BY <1>6, Zenon DEF Ended
  <2>1. x \in U
    BY DEF Expiring
  <2>2. PICK z \in U : ~z.added /\ Fact(z) = Fact(x) /\ z.tx > x.tx
    BY <1>6, <2>1, Zenon DEF Ended
  <2> QED  BY <1>3, <2>2
<1>7. Assemble(U2) \subseteq Assemble(U)
  <2> SUFFICES ASSUME NEW f \in Assemble(U2) PROVE f \in Assemble(U)
    OBVIOUS
  <2>1. PICK x \in U2 : x.added /\ Fact(x) = f /\ Top(x, U2)
    BY <1>1, <1>2, AssembleTop
  <2>2. x \in U
    BY DEF Expiring
  <2>3. CASE Top(x, U)
    BY <1>2, <2>1, <2>2, <2>3, AssembleTop
  <2>4. ASSUME NEW y \in U, Beside(x, y), ~(y.tx <= x.tx) PROVE f \in Assemble(U)
    <3>1. y \notin U2
      BY <2>1, <2>4 DEF Top
    <3>2. PICK d \in C : y = Asserted(d) /\ Fact(d) = Fact(x)
      BY <2>4, <3>1, ExpireEarlier
    <3>3. PICK w \in U : w.added /\ Fact(w) = Fact(d) /\ w.tx <= d.tx /\ Latest(w, U)
      BY DEF Sane, Standing
    <3>4. Top(w, U) /\ Fact(w) = f
      BY <2>1, <3>2, <3>3 DEF Latest, Top
    <3> QED  BY <1>2, <3>3, <3>4, AssembleTop
  <2> QED  BY <2>3, <2>4 DEF Top
<1> QED  BY <1>1, <1>2, <1>4, <1>5, <1>6, <1>7 DEF Sane

Upto(D, t)   == {d \in D : d.tx <= t}
Beyond(D, t) == {d \in D : ~ d.tx <= t}

\* The views of a sane history.
LEMMA SaneViews ==
    ASSUME NEW C, NEW U, Timed(C, U), Sane(C, U), Ended(C, U)
    PROVE  /\ Assemble(U) = Facts(C)
           /\ \A t \in Nat : /\ Assemble(Beyond(U, t)) \subseteq Facts(C)
                            /\ Facts(C) \ Assemble(Upto(U, t)) \subseteq Assemble(Beyond(U, t))
<1>1. ASSUME NEW t \in Nat, NEW S, S = {x \in U : ~ x.tx <= t} \/ S = U
      PROVE  Assemble(S) \subseteq Facts(C)
  <2> SUFFICES ASSUME NEW f \in Assemble(S), f \notin Facts(C) PROVE FALSE
    OBVIOUS
  <2>1. Timed(C, S) /\ OncePer(S)
    BY <1>1 DEF Timed, Sane, OncePer
  <2>2. PICK x \in S : x.added /\ Fact(x) = f /\ Top(x, S)
    BY <2>1, AssembleTop
  <2>3. PICK z \in U : ~z.added /\ Fact(z) = Fact(x) /\ z.tx > x.tx
    BY <1>1, <2>2, Zenon DEF Ended
  <2>4. x.tx \in Nat /\ z.tx \in Nat
    BY <1>1, <2>3 DEF Timed
  <2>5. z \in S
    BY <1>1, <2>2, <2>3, <2>4
  <2>6. Beside(x, z)
    BY <2>3 DEF Beside
  <2>7. z.tx <= x.tx
    BY <2>2, <2>5, <2>6 DEF Top
  <2> QED  BY <2>3, <2>4, <2>7
<1>2. ASSUME NEW d \in C
      PROVE  \E x \in U : x.added /\ Fact(x) = Fact(d) /\ \A S \in SUBSET U : x \in S => Fact(d) \in Assemble(S)
  <2>1. PICK w \in U : w.added /\ Fact(w) = Fact(d) /\ w.tx <= d.tx /\ Latest(w, U)
    BY DEF Sane, Standing
  <2>2. ASSUME NEW S \in SUBSET U, w \in S PROVE Fact(d) \in Assemble(S)
    <3>1. Timed(C, S) /\ OncePer(S)
      BY DEF Timed, Sane, OncePer
    <3>2. Top(w, S)
      BY <2>1 DEF Latest, Top
    <3>3. Fact(w) \in Assemble(S)
      BY <2>1, <2>2, <3>1, <3>2, AssembleTop
    <3> QED  BY <2>1, <3>3
  <2> QED  BY <2>1, <2>2
<1>3. Assemble(U) = Facts(C)
  <2>1. Facts(C) \subseteq Assemble(U)
    <3> SUFFICES ASSUME NEW d \in C PROVE Fact(d) \in Assemble(U)
      OBVIOUS
    <3>1. U \in SUBSET U
      OBVIOUS
    <3> QED  BY <1>2, <3>1
  <2>2. 0 \in Nat
    OBVIOUS
  <2> QED  BY <1>1, <2>1, <2>2
<1>4. ASSUME NEW t \in Nat
      PROVE  Facts(C) \ Assemble(Upto(U, t)) \subseteq Assemble(Beyond(U, t))
  <2> DEFINE S == Beyond(U, t)
             A == Upto(U, t)
  <2> SUFFICES ASSUME NEW d \in C, Fact(d) \notin Assemble(A) PROVE Fact(d) \in Assemble(S)
    OBVIOUS
  <2>1. PICK x \in U : \A V \in SUBSET U : x \in V => Fact(d) \in Assemble(V)
    BY <1>2
  <2>2. S \in SUBSET U /\ A \in SUBSET U /\ (x \in S \/ x \in A)
    BY DEF Beyond, Upto
  <2> HIDE DEF S, A
  <2> QED  BY <2>1, <2>2
<1>5. ASSUME NEW t \in Nat PROVE Assemble(Beyond(U, t)) \subseteq Facts(C)
  BY <1>1 DEF Beyond
<1> QED  BY <1>3, <1>4, <1>5

-----------------------------------------------------------------------------
(* What the operations on values do to the past.                               *)

\* No retraction and no assertion of the past is of what has no history.
NoPast(val) == \A x \in val.temporal : x.a \notin NoHistory

SaneTo(val, t) == Sane(Upto(val.current, t), Upto(History(val), t))
EndedIn(val) == Ended(val.current, History(val))

\* A value of up to transaction n that keeps the rules.
Ruled(val, n) == ValueOK(val, n) /\ Sound(val.current) /\ NoPast(val)

\* A history database has the temporal datoms and some of the current ones.
LEMMA HistoryIs ==
    ASSUME NEW val
    PROVE  /\ val.temporal \subseteq History(val)
           /\ \A d \in val.current : d.a \in NoHistory \cup Many => Asserted(d) \in History(val)
           /\ \A x \in History(val) :
                x \in val.temporal \/ \E d \in val.current : d.a \in NoHistory \cup Many /\ x = Asserted(d)
BY DEF History

\* What the lemmas above assume of the past holds of a value ...
LEMMA ValueTypes ==
    ASSUME NEW val, NEW n \in Nat, Ruled(val, n)
    PROVE  /\ One(val.current)
           /\ Timed(val.current, History(val)) /\ Kept(val.current, History(val))
           /\ \A x \in History(val) \cup val.current : x.tx \in 1..n
<1>1. One(val.current)
  BY DEF One, Beside, Ruled, Sound
<1>2. ASSUME NEW d \in val.current
      PROVE  d.tx \in 1..n /\ d.v \in Int /\ d = Datom(Fact(d), d.tx)
  <2>1. Fact(d) \in Universe /\ d.tx \in 1..n /\ d = Datom(Fact(d), d.tx)
    BY DEF Ruled, ValueOK
  <2>2. Fact(d).v \in Int
    BY <2>1, UniverseAssumption
  <2> QED  BY <2>1, <2>2
<1>3. ASSUME NEW x \in History(val)
      PROVE  x.tx \in 1..n /\ x.v \in Int /\ x \in {Asserted(x), Retracted(x, x.tx)}
  <2>1. CASE x \in val.temporal
    <3>1. Fact(x) \in Universe /\ x.tx \in 1..n /\ x \in {Asserted(x), Retracted(x, x.tx)}
      BY <2>1 DEF Ruled, ValueOK
    <3>2. Fact(x).v \in Int
      BY <3>1, UniverseAssumption
    <3> QED  BY <3>1, <3>2
  <2>2. ASSUME NEW d \in val.current, x = Asserted(d)
        PROVE  x.tx \in 1..n /\ x.v \in Int /\ x \in {Asserted(x), Retracted(x, x.tx)}
    BY <1>2, <2>2
  <2> QED  BY <2>1, <2>2, HistoryIs
<1>4. Kept(val.current, History(val))
  BY HistoryIs DEF Kept, Ruled, NoPast
<1> QED  BY <1>1, <1>2, <1>3, <1>4 DEF Timed

\* ... and of it as of any transaction.
LEMMA UptoTypes ==
    ASSUME NEW val, NEW n \in Nat, Ruled(val, n), NEW t \in Nat
    PROVE  LET C == Upto(val.current, t)
               U == Upto(History(val), t)
           IN  /\ One(C) /\ Timed(C, U) /\ Kept(C, U)
               /\ AsOf(val, t) = Assemble(U)
<1>1. One(Upto(val.current, t)) /\ Timed(Upto(val.current, t), Upto(History(val), t))
  BY ValueTypes DEF One, Timed, Upto
<1>2. Kept(Upto(val.current, t), Upto(History(val), t))
  BY ValueTypes DEF Kept, Upto
<1> QED  BY <1>1, <1>2 DEF AsOf, Upto

LEMMA UptoAll ==
    ASSUME NEW val, NEW n \in Nat, Ruled(val, n), NEW t \in Nat, n <= t
    PROVE  /\ Upto(val.current, t) = val.current
           /\ Upto(History(val), t) = History(val)
           /\ SaneTo(val, t) <=> Sane(val.current, History(val))
<1>1. \A x \in History(val) \cup val.current : x.tx <= t
  BY ValueTypes
<1>2. Upto(val.current, t) = val.current
  BY <1>1 DEF Upto
<1>3. Upto(History(val), t) = History(val)
  BY <1>1 DEF Upto
<1> QED  BY <1>2, <1>3 DEF SaneTo

\* As of transaction t, val2 is sane and shows nothing that val does not, and
\* what val shows, but for the facts F.
Less(val, val2, t) == SaneTo(val2, t) /\ AsOf(val2, t) \subseteq AsOf(val, t)
Same(val, val2, t, F) == Less(val, val2, t) /\ WithHistory(AsOf(val, t)) \ F \subseteq AsOf(val2, t)

\* A value that restates another shows the same past.
LEMMA RestatePast ==
    ASSUME NEW val, NEW n \in Nat, Ruled(val, n), NEW val2, NEW n2 \in Nat, Ruled(val2, n2),
           NEW t \in Nat, SaneTo(val, t),
           Restated(Upto(val.current, t), Upto(History(val), t),
                    Upto(val2.current, t), Upto(History(val2), t))
    PROVE  Same(val, val2, t, {})
<1> DEFINE C == Upto(val.current, t)
           U == Upto(History(val), t)
           C2 == Upto(val2.current, t)
           U2 == Upto(History(val2), t)
<1>1. /\ One(C) /\ Timed(C, U) /\ Kept(C, U) /\ Sane(C, U) /\ Restated(C, U, C2, U2)
      /\ AsOf(val, t) = Assemble(U) /\ AsOf(val2, t) = Assemble(U2)
  BY UptoTypes DEF SaneTo
<1> HIDE DEF C, U, C2, U2
<1>2. Sane(C2, U2) /\ Assemble(U2) \subseteq Assemble(U) /\ WithHistory(Assemble(U)) \subseteq Assemble(U2)
  BY <1>1, RestateSane, RestateSeen
<1>3. SaneTo(val2, t)
  BY <1>2 DEF SaneTo, C2, U2
<1> QED  BY <1>1, <1>2, <1>3 DEF Same, Less

LEMMA UpsertIs ==
    ASSUME NEW val, NEW f, NEW n
    PROVE  LET new == Datom(f, n)
               old == {d \in val.current : d.e = new.e /\ d.a = new.a}
               res == Upsert(val, new)
           IN  /\ res.current = (val.current \ old) \cup {new}
               /\ f.a \in NoHistory \/ (\E d \in old : d.v = new.v) => res.temporal = val.temporal
               /\ ~(f.a \in NoHistory \/ (\E d \in old : d.v = new.v)) =>
                    res.temporal = val.temporal \cup {Retracted(d, n) : d \in old} \cup {Asserted(new)}
BY DEF Upsert

LEMMA UpsertRuled ==
    ASSUME NEW val, NEW n \in Nat \ {0}, Ruled(val, n), NEW f \in Universe, f.a \notin Many,
           f.a \in Unique => \A d \in val.current : d.a = f.a /\ d.v = f.v => d.e = f.e
    PROVE  Ruled(Upsert(val, Datom(f, n)), n)
<1>1. ValueOK(Upsert(val, Datom(f, n)), n) /\ Sound(Upsert(val, Datom(f, n)).current)
  BY UpsertOK, UpsertSound DEF Ruled
<1>2. NoPast(Upsert(val, Datom(f, n)))
  <2> DEFINE new == Datom(f, n)
             old == {d \in val.current : d.e = new.e /\ d.a = new.a}
             res == Upsert(val, new)
  <2> SUFFICES ASSUME NEW x \in res.temporal PROVE x.a \notin NoHistory
    BY DEF NoPast
  <2>1. x \in val.temporal \/ (f.a \notin NoHistory /\ x.a = f.a)
    BY UpsertIs
  <2> QED  BY <2>1 DEF Ruled, NoPast
<1> QED  BY <1>1, <1>2 DEF Ruled

\* An upsert leaves the past as it was.
LEMMA UpsertPast ==
    ASSUME NEW val, NEW n \in Nat \ {0}, Ruled(val, n), NEW f \in Universe, f.a \notin Many,
           f.a \in Unique => \A d \in val.current : d.a = f.a /\ d.v = f.v => d.e = f.e,
           NEW t \in Nat, t < n, SaneTo(val, t)
    PROVE  Same(val, Upsert(val, Datom(f, n)), t, {})
<1> DEFINE new == Datom(f, n)
           old == {d \in val.current : d.e = new.e /\ d.a = new.a}
           res == Upsert(val, new)
           C == Upto(val.current, t)
           U == Upto(History(val), t)
           C2 == Upto(res.current, t)
           U2 == Upto(History(res), t)
<1>1. /\ res.current = (val.current \ old) \cup {new}
      /\ val.temporal \subseteq res.temporal
      /\ \A x \in res.temporal : x \in val.temporal \/ x.tx = n
      /\ new.tx = n /\ ~(n <= t)
  BY UpsertIs
<1>2. C2 \subseteq C
  BY <1>1 DEF Upto
<1>3. \A d \in C2 : d.a \in NoHistory => Asserted(d) \in U2
  BY HistoryIs DEF Upto
<1>4. ASSUME NEW x \in U2 PROVE x \in U
  <2>1. x \in History(res) /\ x.tx <= t
    BY DEF Upto
  <2>2. CASE x \in res.temporal
    BY <1>1, <2>1, <2>2, HistoryIs DEF Upto
  <2>3. ASSUME NEW d \in res.current, d.a \in NoHistory \cup Many, x = Asserted(d) PROVE x \in U
    <3>1. d \in val.current
      BY <1>1, <2>1, <2>3
    <3> QED  BY <2>1, <2>3, <3>1, HistoryIs DEF Upto
  <2> QED  BY <2>1, <2>2, <2>3, HistoryIs
<1>5. ASSUME NEW x \in U, x.a \notin NoHistory PROVE x \in U2
  <2>1. x \in History(val) /\ x.tx <= t
    BY DEF Upto
  <2>2. CASE x \in val.temporal
    BY <1>1, <2>1, <2>2, HistoryIs DEF Upto
  <2>3. ASSUME NEW d \in val.current, d.a \in NoHistory \cup Many, x = Asserted(d) PROVE x \in U2
    <3>1. d \in res.current /\ d.a \in Many
      BY <1>1, <1>5, <2>3
    <3> QED  BY <2>1, <2>3, <3>1, HistoryIs DEF Upto
  <2> QED  BY <2>1, <2>2, <2>3, HistoryIs
<1>6. Restated(C, U, C2, U2)
  BY <1>2, <1>3, <1>4, <1>5 DEF Restated
<1>7. Ruled(res, n)
  BY UpsertRuled
<1> QED  BY <1>6, <1>7, RestatePast

LEMMA InsertIs ==
    ASSUME NEW val, NEW f \in Universe, NEW n \in Nat, ValueOK(val, n)
    PROVE  LET res == Insert(val, Datom(f, n))
           IN  /\ res.temporal = val.temporal
               /\ f \in Facts(val.current) => res = val
               /\ f \notin Facts(val.current) => res.current = val.current \cup {Datom(f, n)}
<1>1. Fact(Datom(f, n)) = f
  BY UniverseAssumption
<1>2. val = [current |-> val.current, temporal |-> val.temporal]
  BY DEF ValueOK
<1>3. Insert(val, Datom(f, n)) =
          IF f \in Facts(val.current) THEN [val EXCEPT !.current = val.current]
          ELSE [val EXCEPT !.current = val.current \cup {Datom(f, n)}]
  BY <1>1, Zenon DEF Insert
<1>4. CASE f \in Facts(val.current)
  <2>1. Insert(val, Datom(f, n)) = [val EXCEPT !.current = val.current]
    BY <1>3, <1>4
  <2> QED  BY <1>2, <1>4, <2>1
<1>5. CASE f \notin Facts(val.current)
  <2>1. Insert(val, Datom(f, n)) = [val EXCEPT !.current = val.current \cup {Datom(f, n)}]
    BY <1>3, <1>5
  <2> QED  BY <1>2, <1>5, <2>1
<1> QED  BY <1>4, <1>5

LEMMA InsertRuled ==
    ASSUME NEW val, NEW n \in Nat \ {0}, Ruled(val, n), NEW f \in Universe, f.a \in Many,
           f.a \in Unique => \A d \in val.current : ~(d.a = f.a /\ d.v = f.v)
    PROVE  Ruled(Insert(val, Datom(f, n)), n)
<1>1. ValueOK(Insert(val, Datom(f, n)), n) /\ Sound(Insert(val, Datom(f, n)).current)
  BY InsertOK, InsertSound DEF Ruled
<1>2. NoPast(Insert(val, Datom(f, n)))
  BY InsertIs DEF NoPast, Ruled
<1> QED  BY <1>1, <1>2 DEF Ruled

\* So does an insert.
LEMMA InsertPast ==
    ASSUME NEW val, NEW n \in Nat \ {0}, Ruled(val, n), NEW f \in Universe, f.a \in Many,
           NEW t \in Nat, t < n, SaneTo(val, t)
    PROVE  Same(val, Insert(val, Datom(f, n)), t, {})
<1> DEFINE new == Datom(f, n)
           res == Insert(val, new)
<1>1. /\ res.temporal = val.temporal /\ val.current \subseteq res.current
      /\ res.current \subseteq val.current \cup {new}
      /\ new.tx = n /\ ~(n <= t)
  BY InsertIs DEF Ruled
<1>2. Upto(res.current, t) = Upto(val.current, t)
  BY <1>1 DEF Upto
<1>3. Upto(History(res), t) = Upto(History(val), t)
  BY <1>1 DEF Upto, History
<1>4. AsOf(res, t) = AsOf(val, t)
  BY <1>3 DEF AsOf, Upto
<1> QED  BY <1>2, <1>3, <1>4 DEF Same, Less, SaneTo, WithHistory

LEMMA RetractIs ==
    ASSUME NEW val, NEW D \in SUBSET val.current, NEW n
    PROVE  LET res == Retract(val, D, n)
           IN  /\ res.current = val.current \ D
               /\ val.temporal \subseteq res.temporal
               /\ \A x \in res.temporal :
                    x \in val.temporal
                      \/ \E d \in D : d.a \notin NoHistory /\ x \in {Asserted(d), Retracted(d, n)}
               /\ \A d \in D : d.a \notin NoHistory =>
                    \/ Asserted(d) \in res.temporal
                    \/ \E y \in val.temporal : SameKey(y, Asserted(d))
               /\ \A d \in D : d.a \notin NoHistory =>
                    \/ Retracted(d, n) \in res.temporal
                    \/ \E y \in val.temporal : SameKey(y, Retracted(d, n))
                    \/ \E b \in D : b.a \notin NoHistory /\ SameKey(Asserted(b), Retracted(d, n))
<1> DEFINE kept == {d \in D : d.a \notin NoHistory}
           res  == Retract(val, D, n)
           A    == {Asserted(d) : d \in kept}
           R    == {Retracted(d, n) : d \in kept}
           ins  == TemporalInsert(val.temporal, A)
<1>1. res.current = val.current \ D /\ res.temporal = TemporalInsert(ins, R)
  BY DEF Retract
<1>2. val.temporal \subseteq ins /\ ins \subseteq val.temporal \cup A
      /\ ins \subseteq res.temporal /\ res.temporal \subseteq ins \cup R
  BY <1>1, TemporalInsertOK
<1>3. \A x \in A : x \in ins \/ \E y \in val.temporal : SameKey(y, x)
  BY DEF TemporalInsert
<1>4. \A x \in R : x \in res.temporal \/ \E y \in ins : SameKey(y, x)
  BY <1>1 DEF TemporalInsert
<1>5. \A d \in D : d.a \notin NoHistory => Asserted(d) \in A /\ Retracted(d, n) \in R
  OBVIOUS
<1>6. /\ \A x \in A : \E d \in D : d.a \notin NoHistory /\ x = Asserted(d)
      /\ \A x \in R : \E d \in D : d.a \notin NoHistory /\ x = Retracted(d, n)
  OBVIOUS
<1> HIDE DEF A, R, ins, res
<1>7. ASSUME NEW x \in res.temporal
      PROVE  x \in val.temporal
               \/ \E d \in D : d.a \notin NoHistory /\ x \in {Asserted(d), Retracted(d, n)}
  <2>1. x \in val.temporal \/ x \in A \/ x \in R
    BY <1>2
  <2> QED  BY <1>6, <2>1
<1>8. ASSUME NEW d \in D, d.a \notin NoHistory
      PROVE  \/ Asserted(d) \in res.temporal
             \/ \E y \in val.temporal : SameKey(y, Asserted(d))
  <2>1. Asserted(d) \in ins \/ \E y \in val.temporal : SameKey(y, Asserted(d))
    BY <1>3, <1>5, <1>8, Zenon
  <2> QED  BY <1>2, <2>1, Zenon
<1>9. ASSUME NEW d \in D, d.a \notin NoHistory
      PROVE  \/ Retracted(d, n) \in res.temporal
             \/ \E y \in val.temporal : SameKey(y, Retracted(d, n))
             \/ \E b \in D : b.a \notin NoHistory /\ SameKey(Asserted(b), Retracted(d, n))
  <2>1. Retracted(d, n) \in res.temporal \/ \E y \in ins : SameKey(y, Retracted(d, n))
    BY <1>4, <1>5, <1>9, Zenon
  <2>2. \A y \in ins : y \in val.temporal \/ \E b \in D : b.a \notin NoHistory /\ y = Asserted(b)
    BY <1>2, <1>6
  <2> QED  BY <2>1, <2>2
<1> QED  BY <1>1, <1>2, <1>7, <1>8, <1>9 DEF res

LEMMA RetractRuled ==
    ASSUME NEW val, NEW n \in Nat \ {0}, Ruled(val, n), NEW D \in SUBSET val.current
    PROVE  Ruled(Retract(val, D, n), n)
<1>1. ValueOK(Retract(val, D, n), n) /\ Retract(val, D, n).current = val.current \ D
  BY RetractOK DEF Ruled
<1>2. Sound(Retract(val, D, n).current)
  BY <1>1, SubsetSound DEF Ruled
<1>3. NoPast(Retract(val, D, n))
  <2> SUFFICES ASSUME NEW x \in Retract(val, D, n).temporal PROVE x.a \notin NoHistory
    BY DEF NoPast
  <2>1. x \in val.temporal \/ \E d \in D : d.a \notin NoHistory /\ x \in {Asserted(d), Retracted(d, n)}
    BY RetractIs
  <2> QED  BY <2>1 DEF Ruled, NoPast
<1> QED  BY <1>1, <1>2, <1>3 DEF Ruled

\* The datum that is retracted is in the past as one that was asserted.
LEMMA RetractAsserts ==
    ASSUME NEW val, NEW n \in Nat \ {0}, Ruled(val, n), NEW D \in SUBSET val.current,
           NEW t \in Nat, SaneTo(val, t), NEW d \in D, d.a \notin NoHistory, d.tx <= t
    PROVE  Asserted(d) \in Retract(val, D, n).temporal
<1> DEFINE C == Upto(val.current, t)
           U == Upto(History(val), t)
<1>1. ASSUME NEW y \in val.temporal, SameKey(y, Asserted(d)) PROVE y = Asserted(d)
  <2>1. One(C) /\ Timed(C, U) /\ Sane(C, U) /\ d \in C
    BY UptoTypes DEF SaneTo, Upto
  <2>2. y \in U /\ Beside(d, y) /\ y.tx = d.tx /\ Fact(y) = Fact(d)
    BY <1>1, HistoryIs DEF Upto, Beside
  <2> HIDE DEF C, U
  <2> QED  BY <2>1, <2>2, CurrentLatest
<1>2. val.temporal \subseteq Retract(val, D, n).temporal
  BY RetractIs
<1>3. \A b \in D : b.a \notin NoHistory =>
        \/ Asserted(b) \in Retract(val, D, n).temporal
        \/ \E y \in val.temporal : SameKey(y, Asserted(b))
  BY RetractIs
<1>4. Asserted(d) \in Retract(val, D, n).temporal \/ \E y \in val.temporal : SameKey(y, Asserted(d))
  BY <1>3, Zenon
<1> QED  BY <1>1, <1>2, <1>4, Zenon

\* So does a retraction, which moves what was current into the past.
LEMMA RetractPast ==
    ASSUME NEW val, NEW n \in Nat \ {0}, Ruled(val, n), NEW D \in SUBSET val.current,
           NEW t \in Nat, t < n, SaneTo(val, t)
    PROVE  Same(val, Retract(val, D, n), t, {})
<1> DEFINE res == Retract(val, D, n)
           C == Upto(val.current, t)
           U == Upto(History(val), t)
           C2 == Upto(res.current, t)
           U2 == Upto(History(res), t)
<1>1. /\ res.current = val.current \ D
      /\ val.temporal \subseteq res.temporal
      /\ \A x \in res.temporal :
           x \in val.temporal
             \/ \E d \in D : d.a \notin NoHistory /\ x \in {Asserted(d), Retracted(d, n)}
  <2>1. res.current = val.current \ D /\ val.temporal \subseteq res.temporal
    BY RetractOK DEF Ruled
  <2>2. ASSUME NEW x \in res.temporal
        PROVE  x \in val.temporal
                 \/ \E d \in D : d.a \notin NoHistory /\ x \in {Asserted(d), Retracted(d, n)}
    BY RetractIs
  <2> QED  BY <2>1, <2>2
<1>0. ~(n <= t)
  OBVIOUS
<1>2. C2 \subseteq C
  BY <1>1 DEF Upto
<1>3. \A d \in C2 : d.a \in NoHistory => Asserted(d) \in U2
  BY HistoryIs DEF Upto
<1>4. ASSUME NEW x \in U2 PROVE x \in U \/ \E d \in C : x = Asserted(d)
  <2>1. x \in History(res) /\ x.tx <= t
    BY DEF Upto
  <2>2. CASE x \in val.temporal
    BY <2>1, <2>2, HistoryIs DEF Upto
  <2>3. ASSUME NEW d \in val.current, x = Asserted(d) PROVE \E b \in C : x = Asserted(b)
    <3>1. d \in C
      BY <2>1, <2>3 DEF Upto
    <3> QED  BY <2>3, <3>1
  <2>4. ASSUME NEW d \in D, x = Retracted(d, n) PROVE FALSE
    BY <1>0, <2>1, <2>4
  <2>5. x \in res.temporal \/ \E d \in res.current : x = Asserted(d)
    BY <2>1, HistoryIs
  <2> QED  BY <1>1, <2>2, <2>3, <2>4, <2>5
<1>5. ASSUME NEW x \in U, x.a \notin NoHistory PROVE x \in U2
  <2>1. x \in History(val) /\ x.tx <= t
    BY DEF Upto
  <2>2. CASE x \in val.temporal
    BY <1>1, <2>1, <2>2, HistoryIs DEF Upto
  <2>3. ASSUME NEW d \in val.current, d.a \in NoHistory \cup Many, x = Asserted(d) PROVE x \in U2
    <3>1. d.a \in Many /\ d.a \notin NoHistory /\ d.tx <= t
      BY <1>5, <2>1, <2>3
    <3>2. CASE d \in D
      <4>1. x \in res.temporal
        BY <2>3, <3>1, <3>2, RetractAsserts
      <4> QED  BY <2>1, <4>1, HistoryIs DEF Upto
    <3>3. CASE d \notin D
      <4>1. d \in res.current
        BY <1>1, <3>3
      <4> QED  BY <2>1, <2>3, <4>1, HistoryIs DEF Upto
    <3> QED  BY <3>2, <3>3
  <2> QED  BY <2>1, <2>2, <2>3, HistoryIs
<1>6. Restated(C, U, C2, U2)
  BY <1>2, <1>3, <1>4, <1>5 DEF Restated
<1>7. Ruled(res, n)
  BY RetractRuled
<1> QED  BY <1>6, <1>7, RestatePast

\* A purge of all data of some facts leaves none of them in either index.
LEMMA PurgeFactsIs ==
    ASSUME NEW val, NEW n \in Nat, ValueOK(val, n), Backed(val), NEW F,
           NEW D, D = {d \in History(val) : Fact(d) \in F}
    PROVE  LET p == Purge(val, D)
           IN  /\ \A d : d \in p.current <=> d \in val.current /\ Fact(d) \notin F
               /\ \A x : x \in p.temporal <=> x \in val.temporal /\ Fact(x) \notin F
               /\ \A x : x \in History(p) <=> x \in History(val) /\ Fact(x) \notin F
<1> DEFINE p == Purge(val, D)
<1>1. /\ \A d \in p.current \cup p.temporal : Fact(d) \notin F
      /\ p.current \subseteq val.current /\ p.temporal \subseteq val.temporal
  BY PurgeForgets, PurgeOK
<1>2. ASSUME NEW d \in val.current, Fact(d) \notin F PROVE d \in p.current
  BY <1>2 DEF Purge
<1>3. ASSUME NEW x \in val.temporal, Fact(x) \notin F PROVE x \in p.temporal
  <2>1. {d \in D : SameKey(d, x)} = {}
    BY <1>3
  <2>2. Cardinality({d \in D : SameKey(d, x)}) = 0
    BY <2>1, FS_EmptySet
  <2> QED  BY <2>2 DEF Purge
<1> HIDE DEF p
<1>4. \A d : d \in p.current <=> d \in val.current /\ Fact(d) \notin F
  BY <1>1, <1>2
<1>5. \A x : x \in p.temporal <=> x \in val.temporal /\ Fact(x) \notin F
  BY <1>1, <1>3
<1>6. ASSUME NEW x \in History(p) PROVE x \in History(val) /\ Fact(x) \notin F
  <2>1. CASE x \in p.temporal
    BY <1>5, <2>1, HistoryIs
  <2>2. ASSUME NEW d \in p.current, d.a \in NoHistory \cup Many, x = Asserted(d)
        PROVE  x \in History(val) /\ Fact(x) \notin F
    <3>1. d \in val.current /\ Fact(d) \notin F /\ Fact(d) = Fact(x)
      BY <1>4, <2>2
    <3> QED  BY <2>2, <3>1, HistoryIs
  <2> QED  BY <2>1, <2>2, HistoryIs
<1>7. ASSUME NEW x \in History(val), Fact(x) \notin F PROVE x \in History(p)
  <2>1. CASE x \in val.temporal
    BY <1>5, <1>7, <2>1, HistoryIs
  <2>2. ASSUME NEW d \in val.current, d.a \in NoHistory \cup Many, x = Asserted(d)
        PROVE  x \in History(p)
    <3>1. Fact(d) = Fact(x)
      BY <2>2
    <3>2. d \in p.current
      BY <1>4, <1>7, <3>1
    <3> QED  BY <2>2, <3>2, HistoryIs
  <2> QED  BY <2>1, <2>2, HistoryIs
<1>8. \A x : x \in History(p) <=> x \in History(val) /\ Fact(x) \notin F
  BY <1>6, <1>7
<1> QED  BY <1>4, <1>5, <1>8 DEF p

LEMMA PurgeRuled ==
    ASSUME NEW val, NEW n \in Nat, Ruled(val, n), NEW D
    PROVE  Ruled(Purge(val, D), n)
BY PurgeOK, SubsetSound DEF Ruled, NoPast

\* A purge of facts takes them from the past and leaves the rest.
LEMMA PurgeFactsPast ==
    ASSUME NEW val, NEW n \in Nat, Ruled(val, n), Backed(val), NEW F,
           NEW D, D = {d \in History(val) : Fact(d) \in F},
           NEW t \in Nat, SaneTo(val, t)
    PROVE  LET p == Purge(val, D)
           IN  Same(val, p, t, F) /\ (n <= t /\ EndedIn(val) => EndedIn(p))
<1> DEFINE p == Purge(val, D)
           C == Upto(val.current, t)
           U == Upto(History(val), t)
           C2 == Upto(p.current, t)
           U2 == Upto(History(p), t)
<1>0. ValueOK(val, n)
  BY DEF Ruled
<1> HIDE DEF p
<1>1. /\ \A d : d \in p.current <=> d \in val.current /\ Fact(d) \notin F
      /\ \A x : x \in History(p) <=> x \in History(val) /\ Fact(x) \notin F
  BY <1>0, PurgeFactsIs DEF p
<1>2. Without(C, F, C2)
  BY <1>1 DEF Upto, Without
<1>3. Without(U, F, U2)
  BY <1>1 DEF Upto, Without
<1>4. /\ Ruled(p, n) /\ Timed(C, U) /\ Sane(C, U)
      /\ AsOf(val, t) = Assemble(U)
  BY PurgeRuled, UptoTypes DEF SaneTo, p
<1>5. AsOf(p, t) = Assemble(U2) /\ (Sane(C2, U2) => SaneTo(p, t))
  BY <1>4, UptoTypes DEF SaneTo
<1>6. n <= t => C = val.current /\ U = History(val) /\ C2 = p.current /\ U2 = History(p)
  BY <1>4, UptoAll
<1> HIDE DEF C, U, C2, U2
<1>8. /\ Sane(C2, U2) /\ (Ended(C, U) => Ended(C2, U2))
      /\ Assemble(U2) \subseteq Assemble(U)
      /\ Assemble(U) \ F \subseteq Assemble(U2)
  BY <1>2, <1>3, <1>4, WithoutSane
<1>9. n <= t /\ EndedIn(val) => EndedIn(p)
  BY <1>6, <1>8 DEF EndedIn
<1>10. Same(val, p, t, F)
  BY <1>4, <1>5, <1>8 DEF Same, Less, WithHistory
<1> QED  BY <1>9, <1>10 DEF p

\* What is left of the temporal datoms of up to a transaction.
LEMMA ExpireIs ==
    ASSUME NEW val, NEW n \in Nat, Ruled(val, n), NEW date, NEW t \in Nat, OncePer(Upto(History(val), t)),
           NEW x \in val.temporal, x.tx <= t
    PROVE  x \in Purge(val, Expired(val, date)).temporal
             <=> ~(x.tx < date /\ ~ \E d \in val.current : SameKey(d, x))
<1> DEFINE D == Expired(val, date)
           S == {d \in D : SameKey(d, x)}
<1>1. ASSUME NEW y \in val.temporal, SameKey(x, y) PROVE y = x
  <2>1. x \in Upto(History(val), t) /\ y \in Upto(History(val), t) /\ x.tx = y.tx /\ Beside(x, y)
    BY <1>1, HistoryIs DEF Upto, Beside
  <2>2. x.added = y.added
    BY <1>1, <2>1 DEF OncePer
  <2>3. x \in {Asserted(x), Retracted(x, x.tx)} /\ y \in {Asserted(y), Retracted(y, y.tx)}
    BY DEF Ruled, ValueOK
  <2> QED  BY <1>1, <2>2, <2>3
<1>2. ~(x.added /\ \E y \in val.temporal : SameKey(x, y) /\ ~y.added)
  BY <1>1
<1>3. x \in D <=> (x.tx < date /\ ~ \E d \in val.current : SameKey(d, x))
  BY <1>2 DEF Expired
<1>4. x \in Purge(val, D).temporal <=> Cardinality(S) < 1
  BY <1>2 DEF Purge
<1>5. D \subseteq val.temporal
  BY DEF Expired
<1>6. ASSUME x \in D PROVE ~(Cardinality(S) < 1)
  <2>1. x \in S
    BY <1>6
  <2>2. S \subseteq {x, x}
    BY <1>1, <1>5
  <2> QED  BY <2>1, <2>2, PairCardinality
<1>7. ASSUME x \notin D PROVE Cardinality(S) < 1
  <2>1. S = {}
    BY <1>1, <1>5, <1>7
  <2> HIDE DEF S
  <2>2. Cardinality(S) = 0
    BY <2>1, FS_EmptySet
  <2> QED  BY <2>2
<1> QED  BY <1>3, <1>4, <1>6, <1>7

\* It takes from the past and adds nothing.
LEMMA ExpirePast ==
    ASSUME NEW val, NEW n \in Nat, Ruled(val, n), NEW date \in Nat,
           NEW t \in Nat, SaneTo(val, t)
    PROVE  LET D == Expired(val, date)
               p == Purge(val, D)
           IN  /\ Less(val, p, t)
               /\ n <= t /\ EndedIn(val) /\ Facts(D) \cap Facts(val.current) = {} => EndedIn(p)
<1> DEFINE D == Expired(val, date)
           p == Purge(val, D)
           C == Upto(val.current, t)
           U == Upto(History(val), t)
           C2 == Upto(p.current, t)
           U2 == Upto(History(p), t)
<1>1. /\ One(C) /\ Timed(C, U) /\ Sane(C, U) /\ Kept(C, U) /\ OncePer(U)
      /\ Ruled(p, n)
      /\ AsOf(val, t) = Assemble(U) /\ AsOf(p, t) = Assemble(U2)
  BY PurgeRuled, UptoTypes DEF SaneTo, Sane
<1>2. p.current = {d \in val.current : Fact(d) \notin Facts(D)} /\ p.temporal \subseteq val.temporal
  BY DEF Purge
<1>3. \A x \in D : x \in val.temporal /\ x.tx < date
  BY DEF Expired
<1>4. ASSUME NEW x \in val.temporal, x.tx <= t
      PROVE  x \in p.temporal <=> ~(x.tx < date /\ ~ \E d \in val.current : SameKey(d, x))
  BY <1>1, <1>4, ExpireIs
<1>5. ASSUME NEW x \in val.temporal, x.tx <= t, x \notin p.temporal PROVE x \in D /\ x.tx < date
  <2>1. x.tx < date /\ ~ \E d \in val.current : SameKey(d, x)
    BY <1>4, <1>5
  <2>2. ASSUME NEW y \in val.temporal, x.added, SameKey(x, y), ~y.added PROVE FALSE
    <3>1. x \in U /\ y \in U /\ x.tx = y.tx /\ Beside(x, y)
      BY <1>5, <2>2, HistoryIs DEF Upto, Beside
    <3>2. x.added = y.added
      BY <1>1, <2>2, <3>1 DEF OncePer
    <3> QED  BY <2>2, <3>2
  <2> QED  BY <2>1, <2>2 DEF Expired
<1> HIDE DEF p, D
<1>6. C2 \subseteq C
  BY <1>2 DEF Upto
<1>7. ASSUME NEW x \in U2 PROVE x \in U
  <2>1. x \in History(p) /\ x.tx <= t
    BY DEF Upto
  <2>2. CASE x \in p.temporal
    BY <1>2, <2>1, <2>2, HistoryIs DEF Upto
  <2>3. ASSUME NEW d \in p.current, d.a \in NoHistory \cup Many, x = Asserted(d) PROVE x \in U
    <3>1. d \in val.current
      BY <1>2, <2>3
    <3> QED  BY <2>1, <2>3, <3>1, HistoryIs DEF Upto
  <2> QED  BY <2>1, <2>2, <2>3, HistoryIs
<1>8. ASSUME NEW x \in U, x \notin U2
      PROVE  x.tx < date \/ \E d \in C : d.a \in Many /\ x = Asserted(d)
  <2>1. x \in History(val) /\ x.tx <= t /\ x \notin History(p)
    BY <1>8 DEF Upto
  <2>2. CASE x \in val.temporal
    BY <1>5, <2>1, <2>2, HistoryIs
  <2>3. ASSUME NEW d \in val.current, d.a \in NoHistory \cup Many, x = Asserted(d)
        PROVE  \E b \in C : b.a \in Many /\ x = Asserted(b)
    <3>1. d \notin p.current /\ d \in C
      BY <2>1, <2>3, HistoryIs DEF Upto
    <3>2. PICK y \in D : Fact(y) = Fact(d)
      BY <1>2, <3>1
    <3>3. y.a \notin NoHistory
      BY <1>3 DEF Ruled, NoPast
    <3>4. d.a \in Many
      BY <2>3, <3>2, <3>3
    <3> QED  BY <2>3, <3>1, <3>4
  <2> QED  BY <2>1, <2>2, <2>3, HistoryIs
<1>9. ASSUME NEW x \in U2, x.tx < date PROVE \E d \in C : Fact(d) = Fact(x) /\ d.tx = x.tx
  <2>1. x \in History(p) /\ x.tx <= t
    BY DEF Upto
  <2>2. CASE x \in p.temporal
    <3>1. PICK d \in val.current : SameKey(d, x)
      BY <1>2, <1>4, <1>9, <2>1, <2>2
    <3> QED  BY <2>1, <3>1 DEF Upto
  <2>3. ASSUME NEW d \in p.current, x = Asserted(d) PROVE d \in C /\ Fact(d) = Fact(x) /\ d.tx = x.tx
    BY <1>2, <2>1, <2>3 DEF Upto
  <2> QED  BY <2>1, <2>2, <2>3, HistoryIs
<1>10. ASSUME NEW d \in C2, NEW x \in U, Fact(x) = Fact(d) PROVE x \in U2
  <2>1. d \in p.current /\ x \in History(val) /\ x.tx <= t
    BY DEF Upto
  <2>2. CASE x \in val.temporal
    <3>1. x \notin D
      BY <1>2, <1>10, <2>1
    <3>2. x \in p.temporal
      BY <1>5, <2>1, <2>2, <3>1
    <3> QED  BY <2>1, <3>2, HistoryIs DEF Upto
  <2>3. ASSUME NEW b \in val.current, b.a \in NoHistory \cup Many, x = Asserted(b) PROVE x \in U2
    <3>1. b = d
      <4>1. b \in C /\ d \in C
        BY <1>6, <2>1, <2>3 DEF Upto
      <4>2. Beside(b, d)
        BY <1>10, <2>3 DEF Beside
      <4> QED  BY <1>1, <4>1, <4>2 DEF One
    <3>2. x \in History(p)
      BY <2>1, <2>3, <3>1, HistoryIs
    <3> QED  BY <2>1, <3>2 DEF Upto
  <2> QED  BY <2>1, <2>2, <2>3, HistoryIs
<1>11. n <= t => C = val.current /\ U = History(val) /\ C2 = p.current /\ U2 = History(p)
  BY <1>1, UptoAll
<1>12. Facts(D) \cap Facts(val.current) = {} => p.current = val.current
  <2> SUFFICES ASSUME Facts(D) \cap Facts(val.current) = {}, NEW d \in val.current
               PROVE  Fact(d) \notin Facts(D)
    BY <1>2
  <2>1. Fact(d) \in Facts(val.current)
    OBVIOUS
  <2> QED  BY <2>1
<1>13. AsOf(val, t) = Assemble(U) /\ AsOf(p, t) = Assemble(U2) /\ (Sane(C2, U2) => SaneTo(p, t))
  BY <1>1 DEF SaneTo
<1> HIDE DEF C, U, C2, U2
<1>14. Expiring(C, U, date, C2, U2)
  BY <1>6, <1>7, <1>8, <1>9, <1>10 DEF Expiring
<1>15. /\ Sane(C2, U2) /\ (C2 = C /\ Ended(C, U) => Ended(C2, U2))
       /\ Assemble(U2) \subseteq Assemble(U)
  BY <1>1, <1>14, ExpireSane
<1>16. Less(val, p, t)
  BY <1>13, <1>15 DEF Less
<1>17. n <= t /\ EndedIn(val) /\ Facts(D) \cap Facts(val.current) = {} => EndedIn(p)
  <2> SUFFICES ASSUME n <= t, EndedIn(val), Facts(D) \cap Facts(val.current) = {} PROVE EndedIn(p)
    OBVIOUS
  <2>1. C2 = C
    BY <1>11, <1>12
  <2> QED  BY <1>11, <1>15, <2>1 DEF EndedIn
<1> QED  BY <1>16, <1>17 DEF p, D

-----------------------------------------------------------------------------
(* What they do in the transaction n that is open, if what they change has not  *)
(* been changed by it before.                                                  *)

\* A retraction of what the transaction has not changed keeps both indices in step.
LEMMA RetractNow ==
    ASSUME NEW val, NEW n \in Nat \ {0}, Ruled(val, n), NEW D \in SUBSET val.current,
           Sane(val.current, History(val)), EndedIn(val),
           \A d \in D : \A x \in History(val) \cup val.current : Beside(d, x) => x.tx < n
    PROVE  LET res == Retract(val, D, n)
           IN  Sane(res.current, History(res)) /\ EndedIn(res)
<1> DEFINE res == Retract(val, D, n)
           C == val.current
           U == History(val)
           kept == {d \in D : d.a \notin NoHistory}
           U1 == U \cup {Asserted(d) : d \in kept}
           U2 == History(res)
<1>1. /\ One(C) /\ Timed(C, U) /\ Kept(C, U)
      /\ Ruled(res, n) /\ res.current = C \ D /\ C \ D \subseteq C
  BY ValueTypes, RetractRuled, RetractOK DEF Ruled
<1>2. Kept(C \ D, U2)
  BY <1>1, ValueTypes
<1>3. Restated(C, U, C, U1)
  BY HistoryIs DEF Restated
<1>4. Kept(C, U1)
  BY <1>1 DEF Kept
<1>5. Sane(C, U1) /\ Timed(C, U1) /\ Ended(C, U1)
  BY <1>1, <1>3, RestateSane, RestateEnded DEF EndedIn
<1>6. val.temporal \subseteq res.temporal
  BY RetractIs
<1>7. ASSUME NEW d \in D, NEW x \in U1, Beside(d, x) PROVE x.tx < n
  <2>1. CASE x \in U
    BY <1>7, <2>1
  <2>2. ASSUME NEW b \in kept, x = Asserted(b) PROVE x.tx < n
    <3>1. Beside(d, b) /\ b \in val.current
      BY <1>7, <2>2 DEF Beside
    <3> QED  BY <2>2, <3>1
  <2> QED  BY <2>1, <2>2
<1>8. ASSUME NEW d \in kept PROVE Asserted(d) \in res.temporal
  <2>1. SaneTo(val, n) /\ d.tx <= n
    BY <1>1, UptoAll, ValueTypes
  <2> QED  BY <2>1, RetractAsserts
<1>9. ASSUME NEW x \in U2 PROVE x \in U1 \/ \E d \in D : x = Retracted(d, n)
  <2>1. CASE x \in val.temporal
    BY <2>1, HistoryIs
  <2>2. ASSUME NEW d \in D, d.a \notin NoHistory, x \in {Asserted(d), Retracted(d, n)}
        PROVE  x \in U1 \/ x = Retracted(d, n)
    BY <2>2
  <2>3. ASSUME NEW d \in res.current, d.a \in NoHistory \cup Many, x = Asserted(d) PROVE x \in U1
    BY <1>1, <2>3, HistoryIs
  <2>4. ASSUME x \in res.temporal
        PROVE  x \in val.temporal
                 \/ \E d \in D : d.a \notin NoHistory /\ x \in {Asserted(d), Retracted(d, n)}
    BY <2>4, RetractIs
  <2> QED  BY <2>1, <2>2, <2>3, <2>4, HistoryIs
<1>10. ASSUME NEW x \in U1, x.a \notin NoHistory PROVE x \in U2
  <2>1. CASE x \in val.temporal
    BY <1>6, <2>1, HistoryIs
  <2>2. ASSUME NEW d \in kept, x = Asserted(d) PROVE x \in U2
    BY <1>8, <2>2, HistoryIs
  <2>3. ASSUME NEW d \in C, d.a \in NoHistory \cup Many, x = Asserted(d) PROVE x \in U2
    <3>1. CASE d \in D
      <4>1. d \in kept
        BY <1>10, <2>3, <3>1
      <4> QED  BY <2>2, <2>3, <4>1
    <3>2. CASE d \notin D
      <4>1. d \in res.current
        BY <1>1, <3>2
      <4> QED  BY <2>3, <4>1, HistoryIs
    <3> QED  BY <3>1, <3>2
  <2> QED  BY <2>1, <2>2, <2>3, HistoryIs
<1>11. ASSUME NEW d \in D, d.a \notin NoHistory PROVE Retracted(d, n) \in U2
  <2>1. \A b \in D : b.a \notin NoHistory =>
          \/ Retracted(b, n) \in res.temporal
          \/ \E y \in val.temporal : SameKey(y, Retracted(b, n))
          \/ \E c \in D : c.a \notin NoHistory /\ SameKey(Asserted(c), Retracted(b, n))
    BY RetractIs
  <2>2. ASSUME NEW y \in U1, SameKey(y, Retracted(d, n)) PROVE FALSE
    <3>1. Beside(d, y) /\ y.tx = n
      BY <2>2 DEF Beside
    <3>2. y.tx < n
      BY <1>7, <3>1
    <3> QED  BY <3>1, <3>2
  <2>3. val.temporal \subseteq U1 /\ \A c \in D : c.a \notin NoHistory => Asserted(c) \in U1
    BY HistoryIs
  <2>4. ASSUME NEW y \in val.temporal, SameKey(y, Retracted(d, n)) PROVE FALSE
    BY <2>2, <2>3, <2>4
  <2>5. ASSUME NEW c \in D, c.a \notin NoHistory, SameKey(Asserted(c), Retracted(d, n)) PROVE FALSE
    BY <2>2, <2>3, <2>5
  <2>6. Retracted(d, n) \in res.temporal
    BY <1>11, <2>1, <2>4, <2>5, Zenon
  <2> QED  BY <2>6, HistoryIs
<1>12. \A d \in C \ D : d.a \in NoHistory => Asserted(d) \in U2
  BY <1>1, HistoryIs
<1> HIDE DEF res, C, U, kept, U1, U2
<1>13. D \subseteq C
  BY DEF C
<1>14. Retired(C, U1, D, n, U2)
  BY <1>7, <1>9, <1>10, <1>11, <1>12, <1>13 DEF Retired
<1>15. Sane(C \ D, U2) /\ Ended(C \ D, U2)
  BY <1>1, <1>2, <1>4, <1>5, <1>14, RetireSane, RetireEnded
<1> QED  BY <1>1, <1>15 DEF EndedIn, res, U2

\* So does an upsert.
LEMMA UpsertNow ==
    ASSUME NEW val, NEW n \in Nat \ {0}, Ruled(val, n), NEW f \in Universe, f.a \notin Many,
           Sane(val.current, History(val)), EndedIn(val),
           \A x \in History(val) \cup val.current : Beside(f, x) => x.tx < n
    PROVE  LET res == Upsert(val, Datom(f, n))
           IN  Sane(res.current, History(res)) /\ EndedIn(res)
<1> DEFINE new == Datom(f, n)
           old == {d \in val.current : d.e = new.e /\ d.a = new.a}
           res == Upsert(val, new)
           C == val.current
           U == History(val)
           U2 == History(res)
           same == \E d \in old : d.v = new.v
<1>0. /\ new.tx = n /\ new.e = f.e /\ new.a = f.a /\ new.v = f.v /\ Fact(new) = f /\ f.v \in Int
      /\ new = Datom(Fact(new), new.tx)
  BY UniverseAssumption
<1>1. One(C) /\ Timed(C, U) /\ Kept(C, U) /\ \A d \in C : d.tx \in 1..n
  BY ValueTypes
<1>2. /\ res.current = (C \ old) \cup {new}
      /\ f.a \in NoHistory \/ same => res.temporal = val.temporal
      /\ ~(f.a \in NoHistory \/ same) =>
           res.temporal = val.temporal \cup {Retracted(d, n) : d \in old} \cup {Asserted(new)}
  BY UpsertIs
<1>3. \A d : d \in old <=> d \in C /\ d.e = f.e /\ d.a = f.a
  BY <1>0
<1>4. CASE same /\ f.a \notin NoHistory
  <2>1. PICK d \in old : d.v = new.v
    BY <1>4
  <2>2. d \in C /\ Fact(new) = Fact(d) /\ d.tx <= new.tx /\ new.tx \in Nat
    BY <1>0, <1>1, <2>1
  <2>3. ASSUME NEW b \in old PROVE b = d
    BY <1>1, <1>3, <2>1 DEF One, Beside
  <2>4. old = {d}
    BY <2>3
  <2>5. res.current = (C \ {d}) \cup {new} /\ res.temporal = val.temporal
    BY <1>2, <1>4, <2>4
  <2>6. \A b \in {d, new} : b.a \notin NoHistory \cup Many
    BY <1>0, <1>3, <1>4, <2>1
  <2>7. U2 = U
    BY <2>5, <2>6 DEF History
  <2> HIDE DEF new, U, U2, C
  <2>8. Sane((C \ {d}) \cup {new}, U) /\ (Ended(C, U) => Ended((C \ {d}) \cup {new}, U))
    BY <1>0, <1>1, <2>2, RenewSane DEF C, U
  <2> QED  BY <2>5, <2>7, <2>8 DEF EndedIn, C, U, U2, new
<1>5. CASE ~(same /\ f.a \notin NoHistory)
  <2> DEFINE R == {Retracted(d, n) : d \in {b \in old : b.a \notin NoHistory}}
             V == {x \in U : ~(x.a \in NoHistory /\ x.e = f.e /\ x.a = f.a)}
             U1 == V \cup R
  <2>1. \A d \in old : Beside(f, d) /\ (d.a \in NoHistory <=> f.a \in NoHistory) /\ d \in C
    BY <1>3 DEF Beside
  <2>2. ASSUME NEW x \in U, x.a \notin NoHistory PROVE x \in U1
    BY <2>2
  <2>3. ASSUME NEW x \in R PROVE x.a \notin NoHistory /\ x.tx = n /\ ~x.added /\ \E d \in old : x = Retracted(d, n)
    OBVIOUS
  <2>4. ASSUME NEW d \in C \ old, d.a \in NoHistory PROVE Asserted(d) \in U1
    <3>1. Asserted(d) \in U /\ ~(d.e = f.e /\ d.a = f.a)
      BY <1>3, <2>4, HistoryIs
    <3> QED  BY <3>1
  <2>5. ASSUME NEW d \in old, NEW x \in U, Beside(d, x) PROVE x.tx < n
    <3>1. Beside(f, x)
      BY <2>1, <2>5 DEF Beside
    <3> QED  BY <3>1
  <2>6. old \subseteq C /\ \A d \in old : d.a \notin NoHistory => Retracted(d, n) \in U1
    OBVIOUS
  <2>7. Retired(C, U, old, n, U1)
    BY <2>2, <2>3, <2>4, <2>5, <2>6 DEF Retired
  <2>8. Kept(C \ old, U1)
    <3> SUFFICES ASSUME NEW x \in U1, x.a \in NoHistory PROVE \E d \in C \ old : x = Asserted(d)
      BY DEF Kept
    <3>1. x \in U /\ ~(x.e = f.e /\ x.a = f.a)
      BY <2>3
    <3>2. PICK d \in C : x = Asserted(d)
      BY <1>1, <3>1 DEF Kept
    <3>3. d \notin old
      BY <1>3, <3>1, <3>2
    <3> QED  BY <3>2, <3>3
  <2>9. ASSUME NEW d \in C \ old PROVE ~Beside(d, new)
    BY <1>0, <1>3 DEF Beside
  <2>10. ASSUME NEW y \in U1, Beside(new, y)
         PROVE  y.tx <= n /\ (y.tx = n => ~y.added /\ Fact(y) # Fact(new))
    <3>1. CASE y \in U
      <4>1. Beside(f, y) /\ y.tx \in Nat
        BY <1>0, <1>1, <2>10, <3>1 DEF Beside, Timed
      <4>2. y.tx < n
        BY <3>1, <4>1
      <4> QED  BY <4>1, <4>2
    <3>2. ASSUME NEW d \in old, d.a \notin NoHistory, y = Retracted(d, n)
          PROVE  y.tx <= n /\ ~y.added /\ Fact(y) # Fact(new)
      <4>1. d.v # new.v
        BY <1>5, <2>1, <3>2
      <4> QED  BY <3>2, <4>1
    <3>3. y \in U \/ y \in R
      OBVIOUS
    <3> QED  BY <3>1, <3>2, <3>3
  <2>11. ASSUME NEW x \in U2 PROVE x \in U1 \cup {Asserted(new)}
    <3>1. CASE x \in val.temporal
      <4>1. x \in U /\ x.a \notin NoHistory
        BY <3>1, HistoryIs DEF Ruled, NoPast
      <4> QED  BY <2>2, <4>1
    <3>2. ASSUME x \in res.temporal, x \notin val.temporal PROVE x \in R \cup {Asserted(new)}
      <4>1. f.a \notin NoHistory /\ x \in {Retracted(d, n) : d \in old} \cup {Asserted(new)}
        BY <1>2, <3>2
      <4> QED  BY <2>1, <4>1
    <3>3. ASSUME NEW d \in res.current, d.a \in NoHistory \cup Many, x = Asserted(d)
          PROVE  x \in U1 \cup {Asserted(new)}
      <4>1. CASE d = new
        BY <3>3, <4>1
      <4>2. CASE d \in C \ old
        <5>1. x \in U /\ ~(x.e = f.e /\ x.a = f.a)
          BY <1>3, <3>3, <4>2, HistoryIs
        <5> QED  BY <5>1
      <4> QED  BY <1>2, <4>1, <4>2
    <3> QED  BY <3>1, <3>2, <3>3, HistoryIs
  <2>12. Asserted(new) \in U2
    <3>1. CASE f.a \in NoHistory
      <4>1. new \in res.current /\ new.a \in NoHistory
        BY <1>0, <1>2, <3>1
      <4> QED  BY <4>1, HistoryIs
    <3>2. CASE f.a \notin NoHistory
      <4>1. Asserted(new) \in res.temporal
        BY <1>2, <1>5, <3>2
      <4> QED  BY <4>1, HistoryIs
    <3> QED  BY <3>1, <3>2
  <2>13. ASSUME NEW x \in U1 PROVE x \in U2
    <3>1. CASE x \in val.temporal
      BY <1>2, <3>1, HistoryIs
    <3>2. CASE x \in R
      <4>1. x \in {Retracted(d, n) : d \in old} /\ f.a \notin NoHistory
        BY <2>1, <3>2
      <4>2. x \in res.temporal
        BY <1>2, <1>5, <4>1
      <4> QED  BY <4>2, HistoryIs
    <3>3. ASSUME x \in V, NEW d \in C, d.a \in NoHistory \cup Many, x = Asserted(d) PROVE x \in U2
      <4>1. d \notin old
        BY <1>3, <3>3
      <4>2. d \in res.current
        BY <1>2, <4>1
      <4> QED  BY <3>3, <4>2, HistoryIs
    <3> QED  BY <3>1, <3>2, <3>3, HistoryIs
  <2>14. U2 = U1 \cup {Asserted(new)}
    BY <2>11, <2>12, <2>13
  <2>15. res.current = (C \ old) \cup {new} /\ Ended(C, U) /\ Sane(C, U)
    BY <1>2 DEF EndedIn
  <2>16. new = Datom(f, n)
    OBVIOUS
  <2> HIDE DEF C, U, V, R, U1, U2, old, new, res
  <2>17. Sane(C \ old, U1) /\ Timed(C \ old, U1) /\ Ended(C \ old, U1)
    BY <1>1, <2>7, <2>8, <2>15, RetireSane, RetireEnded
  <2>18. /\ \A d \in C \ old : ~Beside(d, Datom(f, n))
         /\ \A y \in U1 : Beside(Datom(f, n), y) =>
              y.tx <= n /\ (y.tx = n => ~y.added /\ Fact(y) # Fact(Datom(f, n)))
    BY <2>9, <2>10, <2>16
  <2>19. Sane((C \ old) \cup {new}, U1 \cup {Asserted(new)}) /\ Ended((C \ old) \cup {new}, U1 \cup {Asserted(new)})
    BY <1>0, <2>17, <2>18, EnterSane DEF new
  <2>20. Sane(res.current, U2) /\ Ended(res.current, U2)
    BY <2>14, <2>15, <2>19
  <2> QED  BY <2>20 DEF EndedIn, U2, res, new
<1> QED  BY <1>4, <1>5

\* So does an insert.
LEMMA InsertNow ==
    ASSUME NEW val, NEW n \in Nat \ {0}, Ruled(val, n), NEW f \in Universe, f.a \in Many,
           Sane(val.current, History(val)), EndedIn(val),
           f \notin Facts(val.current) =>
             \A x \in History(val) \cup val.current : Beside(f, x) => x.tx < n
    PROVE  LET res == Insert(val, Datom(f, n))
           IN  Sane(res.current, History(res)) /\ EndedIn(res)
<1> DEFINE new == Datom(f, n)
           res == Insert(val, new)
           C == val.current
           U == History(val)
<1>0. /\ Fact(new) = f /\ f.v \in Int /\ new.a = f.a
      /\ Timed(C, U) /\ Ended(C, U)
  BY UniverseAssumption, ValueTypes DEF EndedIn
<1>1. /\ res.temporal = val.temporal
      /\ f \in Facts(val.current) => res = val
      /\ f \notin Facts(val.current) => res.current = C \cup {new}
  BY InsertIs DEF Ruled
<1>2. CASE f \in Facts(val.current)
  BY <1>1, <1>2
<1>3. CASE f \notin Facts(val.current)
  <2>1. History(res) = U \cup {Asserted(new)}
    <3>1. res.current = C \cup {new} /\ res.temporal = val.temporal /\ new.a \in Many
      BY <1>0, <1>1, <1>3
    <3> HIDE DEF new, res
    <3> QED  BY <3>1 DEF History
  <2>2. ASSUME NEW d \in C PROVE ~Beside(d, new)
    <3>1. Fact(d) # f
      BY <1>3
    <3> QED  BY <1>0, <3>1 DEF Beside
  <2>3. ASSUME NEW y \in U, Beside(new, y) PROVE y.tx < n /\ y.tx \in Nat
    <3>1. Beside(f, y)
      BY <2>3 DEF Beside
    <3> QED  BY <1>0, <1>3, <3>1 DEF Timed
  <2>4. \A y \in U : Beside(new, y) => y.tx <= n /\ (y.tx = n => ~y.added /\ Fact(y) # Fact(new))
    BY <2>3
  <2> HIDE DEF C, U, res
  <2>5. Sane(C, U)
    BY DEF C, U
  <2>6. Sane(C \cup {new}, U \cup {Asserted(new)}) /\ Ended(C \cup {new}, U \cup {Asserted(new)})
    BY <1>0, <2>2, <2>4, <2>5, EnterSane
  <2>7. res.current = C \cup {new}
    BY <1>1, <1>3
  <2> HIDE DEF new
  <2>8. Sane(res.current, History(res)) /\ EndedIn(res)
    BY <2>1, <2>6, <2>7 DEF EndedIn
  <2> QED  BY <2>8 DEF res, new
<1> QED  BY <1>2, <1>3

-----------------------------------------------------------------------------
(* What the transaction that is open has changed is touched.                    *)

FreshIn(val, n, T) == \A x \in History(val) \cup val.current : x.tx = n => Key(x) \in T

LEMMA BesideKey ==
    ASSUME NEW x, NEW y, Beside(x, y)
    PROVE  Key(x) = Key(y)
BY DEF Beside, Key

\* What the transaction has not changed is earlier than it.
LEMMA FreshEarlier ==
    ASSUME NEW val, NEW n \in Nat, Ruled(val, n), NEW T, FreshIn(val, n, T), NEW f, Key(f) \notin T
    PROVE  \A x \in History(val) \cup val.current : Beside(f, x) => x.tx < n
<1> SUFFICES ASSUME NEW x \in History(val) \cup val.current, Beside(f, x) PROVE x.tx < n
  OBVIOUS
<1>1. x.tx # n
  BY BesideKey DEF FreshIn
<1>2. x.tx \in 1..n
  BY ValueTypes
<1> QED  BY <1>1, <1>2

LEMMA UpsertFresh ==
    ASSUME NEW val, NEW n, NEW T, FreshIn(val, n, T), NEW f, f.a \notin Many
    PROVE  FreshIn(Upsert(val, Datom(f, n)), n, T \cup {Key(f)})
<1> DEFINE new == Datom(f, n)
           old == {d \in val.current : d.e = new.e /\ d.a = new.a}
           res == Upsert(val, new)
<1>1. /\ res.current \subseteq val.current \cup {new}
      /\ \A x \in res.temporal : x \in val.temporal \/ (x.e = f.e /\ x.a = f.a)
  BY UpsertIs
<1>2. ASSUME NEW x, x.e = f.e, x.a = f.a PROVE Key(x) \in T \cup {Key(f)}
  BY <1>2 DEF Key
<1>3. ASSUME NEW d \in val.current, d.tx = n PROVE Key(d) \in T
  BY <1>3 DEF FreshIn
<1>4. new.e = f.e /\ new.a = f.a
  OBVIOUS
<1>5. ASSUME NEW x \in History(res), x.tx = n PROVE Key(x) \in T \cup {Key(f)}
  <2>1. CASE x \in val.temporal
    BY <1>5, <2>1, HistoryIs DEF FreshIn
  <2>2. ASSUME NEW d \in res.current, x = Asserted(d) PROVE Key(x) \in T \cup {Key(f)}
    <3>1. CASE d \in val.current
      <4>1. Key(d) \in T /\ Beside(x, d)
        BY <1>3, <1>5, <2>2, <3>1 DEF Beside
      <4> QED  BY <4>1, BesideKey
    <3>2. CASE d = new
      BY <1>2, <1>4, <2>2, <3>2
    <3> QED  BY <1>1, <3>1, <3>2
  <2>3. CASE x.e = f.e /\ x.a = f.a
    BY <1>2, <2>3
  <2>4. x \in res.temporal \/ \E d \in res.current : x = Asserted(d)
    BY HistoryIs
  <2> QED  BY <1>1, <2>1, <2>2, <2>3, <2>4
<1>6. ASSUME NEW d \in res.current, d.tx = n PROVE Key(d) \in T \cup {Key(f)}
  BY <1>1, <1>2, <1>3, <1>4, <1>6
<1> QED  BY <1>5, <1>6 DEF FreshIn

LEMMA InsertFresh ==
    ASSUME NEW val, NEW n \in Nat, ValueOK(val, n), NEW T, FreshIn(val, n, T), NEW f \in Universe
    PROVE  FreshIn(Insert(val, Datom(f, n)), n, IF f \in Facts(val.current) THEN T ELSE T \cup {Key(f)})
<1> DEFINE new == Datom(f, n)
           res == Insert(val, new)
<1>1. /\ res.temporal = val.temporal
      /\ f \in Facts(val.current) => res = val
      /\ f \notin Facts(val.current) => res.current = val.current \cup {new}
  BY InsertIs
<1>2. CASE f \in Facts(val.current)
  BY <1>1, <1>2
<1>3. CASE f \notin Facts(val.current)
  <2>1. Beside(new, f) /\ Beside(Asserted(new), f)
    BY DEF Beside
  <2>2. Key(new) = Key(f) /\ Key(Asserted(new)) = Key(f)
    BY <2>1, BesideKey
  <2>3. \A x \in History(res) \cup res.current :
          x \in History(val) \cup val.current \/ x \in {new, Asserted(new)}
    BY <1>1, <1>3 DEF History
  <2>4. FreshIn(res, n, T \cup {Key(f)})
    BY <2>2, <2>3 DEF FreshIn
  <2> QED  BY <1>3, <2>4
<1> QED  BY <1>2, <1>3

LEMMA RetractFresh ==
    ASSUME NEW val, NEW n, NEW T, FreshIn(val, n, T), NEW D \in SUBSET val.current
    PROVE  FreshIn(Retract(val, D, n), n, T \cup {Key(f) : f \in D})
<1> DEFINE res == Retract(val, D, n)
           T2 == T \cup {Key(f) : f \in D}
<1>1. res.current = val.current \ D
  BY DEF Retract
<1>2. \A x \in res.temporal :
        x \in val.temporal
          \/ \E d \in D : d.a \notin NoHistory /\ x \in {Asserted(d), Retracted(d, n)}
  BY RetractIs
<1>3. ASSUME NEW d \in D, NEW x \in {Asserted(d), Retracted(d, n)} PROVE Key(x) \in T2
  <2>1. Beside(x, d)
    BY DEF Beside
  <2> QED  BY <2>1, BesideKey
<1>4. ASSUME NEW x \in History(res), x.tx = n PROVE Key(x) \in T2
  <2>1. CASE x \in val.temporal
    BY <1>4, <2>1, HistoryIs DEF FreshIn
  <2>2. ASSUME NEW d \in val.current, x = Asserted(d) PROVE Key(x) \in T2
    <3>1. Key(d) \in T /\ Beside(x, d)
      BY <1>4, <2>2 DEF Beside, FreshIn
    <3> QED  BY <3>1, BesideKey
  <2> QED  BY <1>1, <1>2, <1>3, <2>1, <2>2, HistoryIs
<1>5. ASSUME NEW d \in res.current, d.tx = n PROVE Key(d) \in T2
  BY <1>1, <1>5 DEF FreshIn
<1> QED  BY <1>4, <1>5 DEF FreshIn

LEMMA PurgeFresh ==
    ASSUME NEW val, NEW n, NEW T, FreshIn(val, n, T), NEW D
    PROVE  FreshIn(Purge(val, D), n, T)
<1>1. Purge(val, D).current \subseteq val.current /\ Purge(val, D).temporal \subseteq val.temporal
  BY DEF Purge
<1> QED  BY <1>1 DEF FreshIn, History

-----------------------------------------------------------------------------
(* The past is what it was: the invariant.                                      *)

\* What the open transaction has left of the past, as of transaction t.
PastSame(t) ==
    /\ AsOf(after, t) \subseteq AsOf(db, t)
    /\ purged.date = 0 => WithHistory(AsOf(db, t)) \ purged.facts \subseteq AsOf(after, t)

\* Up to the first odd transaction values are sane, and what the open transaction
\* leaves of what was before it is what was; if none is odd, they are as a whole.
PastInv ==
    /\ NoPast(db) /\ NoPast(after) /\ Backed(db) /\ Backed(after)
    /\ FreshIn(after, CurrentTx, touched)
    /\ ~open => after = db /\ touched = {} /\ ~isOdd /\ purged = NoPurge
    /\ \A t \in 0..maxTx : odd \cap 1..t = {} => SaneTo(db, t) /\ SaneTo(after, t) /\ PastSame(t)
    /\ odd = {} => EndedIn(db)
    /\ odd = {} /\ ~isOdd => SaneTo(after, CurrentTx) /\ EndedIn(after)

LEMMA RuledValues ==
    ASSUME IInv, PastInv
    PROVE  /\ Ruled(db, maxTx) /\ Ruled(db, CurrentTx) /\ Ruled(after, CurrentTx)
           /\ maxTx \in Nat /\ CurrentTx \in Nat \ {0}
<1>1. ValueOK(db, maxTx)
  BY DEF IInv, TypeOK
<1> QED  BY <1>1, TypedTx DEF IInv, CurrentSound, PastInv, Ruled

\* What an operation must do to the value to keep the invariant.
LEMMA OperationPast ==
    ASSUME PastInv, open, UNCHANGED <<db, maxTx, open, odd>>, isOdd => isOdd',
           NoPast(after'), Backed(after'), FreshIn(after', CurrentTx, touched'),
           purged.facts \subseteq purged'.facts,
           \A t \in 0..maxTx : SaneTo(after, t) => Less(after, after', t),
           purged'.date = 0 =>
             /\ purged.date = 0
             /\ \A t \in 0..maxTx : SaneTo(after, t) =>
                  WithHistory(AsOf(after, t)) \ purged'.facts \subseteq AsOf(after', t),
           ~isOdd' /\ SaneTo(after, CurrentTx) /\ EndedIn(after) => SaneTo(after', CurrentTx) /\ EndedIn(after')
    PROVE  PastInv'
<1>1. ASSUME NEW t \in 0..maxTx, odd \cap 1..t = {}
      PROVE  /\ SaneTo(db, t) /\ SaneTo(after', t)
             /\ AsOf(after', t) \subseteq AsOf(db, t)
             /\ purged'.date = 0 => WithHistory(AsOf(db, t)) \ purged'.facts \subseteq AsOf(after', t)
  <2>1. SaneTo(db, t) /\ SaneTo(after, t) /\ PastSame(t)
    BY <1>1 DEF PastInv
  <2>2. SaneTo(after', t) /\ AsOf(after', t) \subseteq AsOf(after, t)
    BY <2>1 DEF Less
  <2>3. AsOf(after', t) \subseteq AsOf(db, t)
    BY <2>1, <2>2 DEF PastSame
  <2>4. ASSUME purged'.date = 0, NEW f \in WithHistory(AsOf(db, t)), f \notin purged'.facts
        PROVE  f \in AsOf(after', t)
    <3>1. f \in AsOf(after, t) /\ f.a \notin NoHistory
      BY <2>1, <2>4 DEF PastSame, WithHistory
    <3>2. f \in WithHistory(AsOf(after, t))
      BY <3>1 DEF WithHistory
    <3> QED  BY <2>1, <2>4, <3>2
  <2> QED  BY <2>1, <2>2, <2>3, <2>4
<1>2. \A t \in 0..maxTx : odd \cap 1..t = {} => PastSame(t)'
  BY <1>1 DEF PastSame
<1> QED  BY <1>1, <1>2 DEF PastInv

\* The transaction ends with the value val, which becomes that of the database.
LEMMA ClosePast ==
    ASSUME NEW val, NEW n \in Nat, Ruled(val, n), Backed(val), Close(val), db' = val, maxTx' = n,
           \A t \in 0..n : odd' \cap 1..t = {} => SaneTo(val, t),
           odd' = {} => EndedIn(val)
    PROVE  PastInv'
<1>1. /\ after' = val /\ touched' = {} /\ isOdd' = FALSE /\ purged' = NoPurge /\ open' = FALSE
  BY DEF Close
<1>2. FreshIn(val, n + 1, {})
  BY ValueTypes DEF FreshIn
<1>3. ASSUME odd' = {} PROVE SaneTo(val, n + 1)
  <2>1. SaneTo(val, n)
    BY <1>3
  <2> QED  BY <2>1, UptoAll
<1>4. \A t \in 0..n : PastSame(t)'
  BY <1>1 DEF PastSame, WithHistory
<1> QED  BY <1>1, <1>2, <1>3, <1>4 DEF PastInv, Ruled

LEMMA FinishPast == ASSUME IInv, PastInv, Finish PROVE PastInv'
<1>1. /\ db' = after /\ maxTx' = CurrentTx /\ Close(after)
      /\ odd' = IF isOdd THEN odd \cup {CurrentTx} ELSE odd
  BY DEF Finish
<1>2. Ruled(after, CurrentTx) /\ Backed(after) /\ maxTx \in Nat /\ CurrentTx \in Nat
  BY RuledValues DEF PastInv
<1>3. ASSUME NEW t \in 0..CurrentTx, odd' \cap 1..t = {} PROVE SaneTo(after, t)
  <2>1. CASE t \in 0..maxTx
    BY <1>1, <1>3, <2>1 DEF PastInv
  <2>2. CASE t = CurrentTx
    <3>1. CurrentTx \in 1..t
      BY <1>2, <2>2
    <3>2. ~isOdd
      BY <1>1, <1>3, <3>1
    <3>3. odd \subseteq 1..t
      BY <1>2, <2>2 DEF IInv, TypeOK
    <3>4. odd = {}
      BY <1>1, <1>3, <3>2, <3>3
    <3> QED  BY <2>2, <3>2, <3>4 DEF PastInv
  <2> QED  BY <1>2, <2>1, <2>2
<1>4. odd' = {} => EndedIn(after)
  BY <1>1 DEF PastInv
<1> QED  BY <1>1, <1>2, <1>3, <1>4, ClosePast

LEMMA RaisePast == ASSUME IInv, PastInv, Raise PROVE PastInv'
<1>1. db' = db /\ maxTx' = maxTx /\ Close(db) /\ odd' = odd
  BY DEF Raise
<1>2. Ruled(db, maxTx) /\ Backed(db) /\ maxTx \in Nat
  BY RuledValues DEF PastInv
<1>3. /\ \A t \in 0..maxTx : odd' \cap 1..t = {} => SaneTo(db, t)
      /\ odd' = {} => EndedIn(db)
  BY <1>1 DEF PastInv
<1> QED  BY <1>1, <1>2, <1>3, ClosePast

LEMMA BeginPast == ASSUME PastInv, Begin PROVE PastInv'
<1>1. after' = after /\ open' = TRUE /\ UNCHANGED <<db, maxTx, touched, isOdd, odd, purged>>
  BY DEF Begin, PastInv
<1>2. \A t \in 0..maxTx : PastSame(t) => PastSame(t)'
  BY <1>1 DEF PastSame
<1> QED  BY <1>1, <1>2 DEF PastInv

LEMMA StutterPast == ASSUME PastInv, UNCHANGED vars PROVE PastInv'
<1>1. UNCHANGED <<db, maxTx, open, after, touched, isOdd, odd, purged>>
  BY DEF vars, report
<1>2. \A t \in 0..maxTx : PastSame(t) => PastSame(t)'
  BY <1>1 DEF PastSame
<1> QED  BY <1>1, <1>2 DEF PastInv

LEMMA InitPast == Init => PastInv
<1> SUFFICES ASSUME Init PROVE PastInv
  OBVIOUS
<1>1. db = Empty /\ after = Empty /\ maxTx = 0 /\ touched = {} /\ isOdd = FALSE /\ purged = NoPurge
  BY DEF Init
<1>2. /\ Empty.current = {} /\ Empty.temporal = {} /\ History(Empty) = {}
  BY DEF Empty, History
<1>3. NoPast(Empty) /\ Backed(Empty) /\ FreshIn(Empty, CurrentTx, {}) /\ EndedIn(Empty)
  BY <1>2 DEF NoPast, Backed, FreshIn, EndedIn, Ended
<1>4. \A t : SaneTo(Empty, t)
  BY <1>2 DEF SaneTo, Upto, Sane, Standing, Superseded, OncePer
<1>5. \A t : PastSame(t)
  BY <1>1 DEF PastSame, WithHistory
<1> QED  BY <1>1, <1>3, <1>4, <1>5 DEF PastInv

\* An operation that leaves alone all of the past.
LEMMA LaterPast ==
    ASSUME IInv, PastInv, open, UNCHANGED <<db, maxTx, open, odd, purged>>, isOdd => isOdd',
           Ruled(after', CurrentTx), Backed(after'), FreshIn(after', CurrentTx, touched'),
           \A t \in 0..maxTx : SaneTo(after, t) => Same(after, after', t, {}),
           ~isOdd' /\ Sane(after.current, History(after)) /\ EndedIn(after) =>
             Sane(after'.current, History(after')) /\ EndedIn(after')
    PROVE  PastInv'
<1>1. Ruled(after, CurrentTx) /\ CurrentTx \in Nat
  BY RuledValues
<1>2. /\ SaneTo(after, CurrentTx) <=> Sane(after.current, History(after))
      /\ SaneTo(after', CurrentTx) <=> Sane(after'.current, History(after'))
  BY <1>1, UptoAll
<1>3. \A t \in 0..maxTx : SaneTo(after, t) =>
        Less(after, after', t) /\ WithHistory(AsOf(after, t)) \ purged'.facts \subseteq AsOf(after', t)
  BY DEF Same
<1>4. NoPast(after')
  BY DEF Ruled
<1> QED  BY <1>2, <1>3, <1>4, OperationPast

LEMMA AssertPast ==
    ASSUME IInv, PastInv, NEW f \in Universe, NextOperation(NoOp), Assert(f)
    PROVE  PastInv'
<1> DEFINE n == CurrentTx
           new == Datom(f, n)
<1>1. /\ Ruled(after, n) /\ ValueOK(after, n) /\ n \in Nat \ {0} /\ maxTx \in Nat
      /\ Backed(after) /\ FreshIn(after, n, touched)
  BY RuledValues DEF PastInv, Ruled
<1>2. open /\ UNCHANGED <<db, maxTx, open, odd, purged>>
  BY DEF NextOperation, Assert
<1>3. \A t \in 0..maxTx : t \in Nat /\ t < n
  BY <1>1
<1>4. Forgotten(after, {})
  BY DEF Forgotten
<1>5. CASE f.a \in Many
  <2>1. after' = Insert(after, new)
    BY <1>5 DEF Assert
  <2>2. f.a \in Unique => \A d \in after.current : ~(d.a = f.a /\ d.v = f.v)
    BY <1>5 DEF Assert, Taken
  <2>3. /\ f \in Facts(after.current) => touched' = touched /\ isOdd' = isOdd
        /\ f \notin Facts(after.current) =>
             touched' = touched \cup {Key(f)} /\ isOdd' = (isOdd \/ Key(f) \in touched)
    <3>1. Touch(IF f \in Facts(after.current) THEN {} ELSE {f})
      BY <1>5 DEF Assert
    <3>2. CASE f \in Facts(after.current)
      <4>1. Touch({}) /\ isOdd \in BOOLEAN
        BY <3>1, <3>2 DEF IInv, TypeOK
      <4> QED  BY <3>2, <4>1 DEF Touch
    <3>3. CASE f \notin Facts(after.current)
      <4>1. Touch({f})
        BY <3>1, <3>3
      <4> QED  BY <3>3, <4>1 DEF Touch
    <3> QED  BY <3>2, <3>3
  <2>4. Ruled(after', n) /\ Backed(after')
    BY <1>1, <1>4, <1>5, <2>1, <2>2, InsertRuled, InsertForgets
  <2>5. FreshIn(after', n, touched')
    <3>1. FreshIn(after', n, IF f \in Facts(after.current) THEN touched ELSE touched \cup {Key(f)})
      BY <1>1, <2>1, InsertFresh
    <3>2. CASE f \in Facts(after.current)
      BY <2>3, <3>1, <3>2
    <3>3. CASE f \notin Facts(after.current)
      BY <2>3, <3>1, <3>3
    <3> QED  BY <3>2, <3>3
  <2>6. \A t \in 0..maxTx : SaneTo(after, t) => Same(after, after', t, {})
    BY <1>1, <1>3, <1>5, <2>1, InsertPast
  <2>7. ASSUME ~isOdd', Sane(after.current, History(after)), EndedIn(after)
        PROVE  Sane(after'.current, History(after')) /\ EndedIn(after')
    <3>1. f \notin Facts(after.current) =>
            \A x \in History(after) \cup after.current : Beside(f, x) => x.tx < n
      BY <1>1, <2>3, <2>7, FreshEarlier
    <3> QED  BY <1>1, <1>5, <2>1, <2>7, <3>1, InsertNow
  <2>8. isOdd => isOdd'
    BY <2>3
  <2> QED  BY <1>2, <2>4, <2>5, <2>6, <2>7, <2>8, LaterPast
<1>6. CASE f.a \notin Many
  <2>1. after' = Upsert(after, new)
    BY <1>6 DEF Assert
  <2>2. f.a \in Unique => \A d \in after.current : d.a = f.a /\ d.v = f.v => d.e = f.e
    BY <1>6 DEF Assert, Taken
  <2>3. touched' = touched \cup {Key(f)} /\ isOdd' = (isOdd \/ Key(f) \in touched)
    BY <1>6 DEF Assert, Touch
  <2>4. Ruled(after', n) /\ Backed(after')
    BY <1>1, <1>4, <1>6, <2>1, <2>2, UpsertRuled, UpsertForgets
  <2>5. FreshIn(after', n, touched')
    BY <1>1, <1>6, <2>1, <2>3, UpsertFresh
  <2>6. \A t \in 0..maxTx : SaneTo(after, t) => Same(after, after', t, {})
    BY <1>1, <1>3, <1>6, <2>1, <2>2, UpsertPast
  <2>7. ASSUME ~isOdd', Sane(after.current, History(after)), EndedIn(after)
        PROVE  Sane(after'.current, History(after')) /\ EndedIn(after')
    <3>1. \A x \in History(after) \cup after.current : Beside(f, x) => x.tx < n
      BY <1>1, <2>3, <2>7, FreshEarlier
    <3> QED  BY <1>1, <1>6, <2>1, <2>7, <3>1, UpsertNow
  <2>8. isOdd => isOdd'
    BY <2>3
  <2> QED  BY <1>2, <2>4, <2>5, <2>6, <2>7, <2>8, LaterPast
<1> QED  BY <1>5, <1>6

LEMMA RetractDatomsPast ==
    ASSUME IInv, PastInv, open, UNCHANGED <<db, maxTx, open, odd>>,
           NEW D \in SUBSET after.current, NEW new, RetractDatoms(D, new)
    PROVE  PastInv'
<1> DEFINE n == CurrentTx
<1>1. /\ Ruled(after, n) /\ ValueOK(after, n) /\ n \in Nat \ {0} /\ maxTx \in Nat
      /\ Backed(after) /\ FreshIn(after, n, touched)
  BY RuledValues DEF PastInv, Ruled
<1>2. /\ after' = Retract(after, D, n) /\ purged' = purged
      /\ touched' = touched \cup {Key(f) : f \in D}
      /\ isOdd' = (isOdd \/ \E f \in D : Key(f) \in touched)
  BY DEF RetractDatoms, Touch
<1>3. \A t \in 0..maxTx : t \in Nat /\ t < n
  BY <1>1
<1>4. Forgotten(after, {})
  BY DEF Forgotten
<1>5. Ruled(after', n) /\ Backed(after')
  BY <1>1, <1>2, <1>4, RetractRuled, RetractForgets
<1>6. FreshIn(after', n, touched')
  BY <1>1, <1>2, RetractFresh
<1>7. \A t \in 0..maxTx : SaneTo(after, t) => Same(after, after', t, {})
  BY <1>1, <1>2, <1>3, RetractPast
<1>8. ASSUME ~isOdd', Sane(after.current, History(after)), EndedIn(after)
      PROVE  Sane(after'.current, History(after')) /\ EndedIn(after')
  <2>1. \A d \in D : \A x \in History(after) \cup after.current : Beside(d, x) => x.tx < n
    BY <1>1, <1>2, <1>8, FreshEarlier
  <2> QED  BY <1>1, <1>2, <1>8, <2>1, RetractNow
<1>9. isOdd => isOdd'
  BY <1>2
<1> QED  BY <1>2, <1>5, <1>6, <1>7, <1>8, <1>9, LaterPast

LEMMA RetractEntityPast ==
    ASSUME IInv, PastInv, open, UNCHANGED <<db, maxTx, open, odd>>,
           NEW e, NEW rest, RetractEntity(e, rest)
    PROVE  PastInv'
<1>1. OfEntity(after.current, e) \cup Referring(after.current, e) \subseteq after.current
  BY DEF OfEntity, Referring
<1> QED  BY <1>1, RetractDatomsPast DEF RetractEntity

LEMMA RetractingPast == ASSUME IInv, PastInv, Retracting PROVE PastInv'
<1>1. ASSUME NEW f \in Universe, RetractFact(f) PROVE PastInv'
  <2>1. {d \in after.current : Fact(d) = f} \subseteq after.current
    OBVIOUS
  <2> QED  BY <1>1, <2>1, RetractDatomsPast DEF RetractFact, NextOperation
<1>2. ASSUME NEW f \in Universe, RetractAttribute(f.e, f.a) PROVE PastInv'
  <2> DEFINE D == {d \in after.current : d.e = f.e /\ d.a = f.a}
  <2>1. D \subseteq after.current /\ RetractDatoms(D, Parts(D, "retract/entity"))
    BY <1>2 DEF RetractAttribute
  <2>2. open /\ UNCHANGED <<db, maxTx, open, odd>>
    BY <1>2 DEF RetractAttribute, NextOperation
  <2> QED  BY <2>1, <2>2, RetractDatomsPast
<1>3. ASSUME NEW e \in Entity, RetractWhole(e) PROVE PastInv'
  BY <1>3, RetractEntityPast DEF RetractWhole, NextOperation
<1>4. ASSUME RetractPart PROVE PastInv'
  BY <1>4, RetractEntityPast DEF RetractPart
<1>5. ASSUME NEW f \in Universe, RetractValues(f.e, f.a) PROVE PastInv'
  <2>1. {d \in after.current : d.e = f.e /\ d.a = f.a} \subseteq after.current
    OBVIOUS
  <2> QED  BY <1>5, <2>1, RetractDatomsPast DEF RetractValues, NextOperation
<1> QED  BY <1>1, <1>2, <1>3, <1>4, <1>5 DEF Retracting

\* The operations that purge all of the history of some facts G.
LEMMA PurgeDatomsPast ==
    ASSUME IInv, PastInv, open, UNCHANGED <<db, maxTx, open, odd>>,
           NEW F, NEW G \in SUBSET F, NEW D, D = {d \in History(after) : Fact(d) \in G},
           NEW new, PurgeDatoms(D, F, new)
    PROVE  PastInv'
<1> DEFINE n == CurrentTx
<1>1. /\ Ruled(after, n) /\ n \in Nat /\ maxTx \in Nat /\ ValueOK(after, n)
      /\ Backed(after) /\ FreshIn(after, n, touched)
  BY RuledValues DEF PastInv, Ruled
<1>2. /\ after' = Purge(after, D) /\ purged'.facts = purged.facts \cup F /\ purged'.date = purged.date
      /\ UNCHANGED <<touched, isOdd>>
  BY DEF PurgeDatoms, IInv, TypeOK
<1>3. Ruled(after', n) /\ Backed(after') /\ NoPast(after') /\ FreshIn(after', n, touched')
  BY <1>1, <1>2, PurgeRuled, PurgeBacked, PurgeFresh DEF Ruled
<1>4. ASSUME NEW t \in Nat, SaneTo(after, t)
      PROVE  Same(after, after', t, G) /\ (n <= t /\ EndedIn(after) => EndedIn(after'))
  BY <1>1, <1>2, <1>4, PurgeFactsPast
<1>5. \A t \in 0..maxTx : SaneTo(after, t) => Less(after, after', t)
  BY <1>1, <1>4 DEF Same
<1>6. ASSUME NEW t \in 0..maxTx, SaneTo(after, t)
      PROVE  WithHistory(AsOf(after, t)) \ purged'.facts \subseteq AsOf(after', t)
  <2>1. WithHistory(AsOf(after, t)) \ G \subseteq AsOf(after', t)
    BY <1>1, <1>4, <1>6 DEF Same
  <2> QED  BY <1>2, <2>1
<1>7. SaneTo(after, n) /\ EndedIn(after) => SaneTo(after', n) /\ EndedIn(after')
  BY <1>1, <1>4 DEF Same, Less
<1> QED  BY <1>2, <1>3, <1>5, <1>6, <1>7, OperationPast

\* With attributes stored as ids, what refers to the entity is left.
LEMMA PurgeEntityIs ==
    ASSUME IInv, NEW e, NEW rest, PurgeEntity(e, rest)
    PROVE  \E F : \E G \in SUBSET F : \E new :
             /\ PurgeDatoms({d \in History(after) : Fact(d) \in G}, F, new)
             /\ \A x \in new : x \in rest \/ x.op = "purge/entity"
<1> DEFINE F == {f \in Universe : f.e = e \/ (f.a \in Refs /\ f.v = e)}
           G == {f \in F : AttributeRefs => f.e = e}
           D == OfEntity(History(after), e)
           E == D \cup PastReferring(History(after), e)
           new == rest \cup Parts(D, "purge/entity")
<1>1. ASSUME NEW d \in History(after)
      PROVE  Fact(d) \in G <=> (d.e = e \/ (d.a \in Refs /\ d.v = e /\ ~AttributeRefs))
  <2>1. Fact(d) \in Universe /\ AttributeRefs \in BOOLEAN
    BY TypedTx, HistoryOK, SchemaAssumption
  <2> QED  BY <2>1
<1>2. E = {d \in History(after) : Fact(d) \in G}
  BY <1>1 DEF OfEntity, PastReferring
<1>3. PurgeDatoms(E, F, new) /\ G \in SUBSET F
  BY DEF PurgeEntity
<1>4. \A x \in new : x \in rest \/ x.op = "purge/entity"
  BY DEF Parts
<1> HIDE DEF E, F, G, D, new
<1> QED  BY <1>2, <1>3, <1>4

LEMMA PurgeEntityPast ==
    ASSUME IInv, PastInv, open, UNCHANGED <<db, maxTx, open, odd>>,
           NEW e, NEW rest, PurgeEntity(e, rest)
    PROVE  PastInv'
<1>1. PICK F : \E G \in SUBSET F : \E new : PurgeDatoms({d \in History(after) : Fact(d) \in G}, F, new)
  BY PurgeEntityIs
<1>2. PICK G \in SUBSET F : \E new : PurgeDatoms({d \in History(after) : Fact(d) \in G}, F, new)
  BY <1>1
<1>3. PICK new : PurgeDatoms({d \in History(after) : Fact(d) \in G}, F, new)
  BY <1>2
<1> DEFINE D == {d \in History(after) : Fact(d) \in G}
<1>4. PurgeDatoms(D, F, new) /\ D = {d \in History(after) : Fact(d) \in G}
  BY <1>3
<1> HIDE DEF D
<1> QED  BY <1>4, PurgeDatomsPast

LEMMA PurgeBeforePast ==
    ASSUME IInv, PastInv, NEW date \in 1..CurrentTx + 1, PurgeBefore(date)
    PROVE  PastInv'
<1> DEFINE n == CurrentTx
           D == Expired(after, date)
<1>1. /\ Ruled(after, n) /\ n \in Nat /\ maxTx \in Nat /\ ValueOK(after, n)
      /\ Backed(after) /\ FreshIn(after, n, touched) /\ date \in Nat
  BY RuledValues DEF PastInv, Ruled
<1>2. /\ after' = Purge(after, D) /\ purged'.facts = purged.facts /\ touched' = touched
      /\ isOdd' = (isOdd \/ Facts(D) \cap Facts(after.current) # {})
      /\ open /\ UNCHANGED <<db, maxTx, open, odd>>
  BY DEF PurgeBefore, NextOperation, IInv, TypeOK
<1>3. purged'.date # 0
  <2>1. purged.date \in Nat
    BY BoundAssumption DEF IInv, TypeOK
  <2>2. purged'.date = IF purged.date < date THEN date ELSE purged.date
    BY DEF PurgeBefore, IInv, TypeOK
  <2> QED  BY <2>1, <2>2
<1> HIDE DEF D
<1>4. Ruled(after', n) /\ Backed(after') /\ NoPast(after') /\ FreshIn(after', n, touched')
  BY <1>1, <1>2, PurgeRuled, PurgeBacked, PurgeFresh DEF Ruled
<1>5. ASSUME NEW t \in Nat, SaneTo(after, t)
      PROVE  /\ Less(after, after', t)
             /\ n <= t /\ EndedIn(after) /\ Facts(D) \cap Facts(after.current) = {} => EndedIn(after')
  BY <1>1, <1>2, <1>5, ExpirePast DEF D
<1>6. \A t \in 0..maxTx : SaneTo(after, t) => Less(after, after', t)
  BY <1>1, <1>5
<1>7. ~isOdd' /\ SaneTo(after, n) /\ EndedIn(after) => SaneTo(after', n) /\ EndedIn(after')
  <2> SUFFICES ASSUME ~isOdd', SaneTo(after, n), EndedIn(after)
               PROVE  SaneTo(after', n) /\ EndedIn(after')
    OBVIOUS
  <2>1. Facts(D) \cap Facts(after.current) = {}
    BY <1>2, Zenon
  <2>2. n \in Nat /\ n <= n
    BY <1>1
  <2>3. Less(after, after', n)
    BY <1>5, <2>2
  <2>4. EndedIn(after')
    BY <1>5, <2>1, <2>2
  <2> QED  BY <2>3, <2>4 DEF Less
<1>8. isOdd => isOdd'
  BY <1>2
<1> QED  BY <1>2, <1>3, <1>4, <1>6, <1>7, <1>8, OperationPast

LEMMA PurgingPast == ASSUME IInv, PastInv, Purging PROVE PastInv'
<1>1. ASSUME NEW f \in Universe, PurgeFact(f) PROVE PastInv'
  <2> DEFINE D == {d \in History(after) : Fact(d) \in {f}}
  <2>1. {d \in History(after) : Fact(d) = f} = D
    OBVIOUS
  <2>2. PurgeDatoms(D, {f}, {}) /\ D = {d \in History(after) : Fact(d) \in {f}} /\ {f} \subseteq {f}
        /\ open /\ UNCHANGED <<db, maxTx, open, odd>>
    BY <1>1, <2>1 DEF PurgeFact, NextOperation
  <2> HIDE DEF D
  <2> QED  BY <2>2, PurgeDatomsPast
<1>2. ASSUME NEW f \in Universe, PurgeAttribute(f.e, f.a) PROVE PastInv'
  <2> DEFINE F == {g \in Universe : g.e = f.e /\ g.a = f.a}
             D == {d \in History(after) : d.e = f.e /\ d.a = f.a}
  <2>1. ASSUME NEW d \in History(after)
        PROVE  Fact(d) \in F <=> (d.e = f.e /\ d.a = f.a)
    BY TypedTx, HistoryOK
  <2>2. D = {d \in History(after) : Fact(d) \in F}
    BY <2>1
  <2>3. PurgeDatoms(D, F, Parts(D, "purge/entity"))
    BY <1>2 DEF PurgeAttribute
  <2>4. open /\ UNCHANGED <<db, maxTx, open, odd>> /\ F \in SUBSET F
    BY <1>2 DEF PurgeAttribute, NextOperation
  <2> HIDE DEF D, F
  <2> QED  BY <2>2, <2>3, <2>4, PurgeDatomsPast
<1>3. ASSUME NEW e \in Entity, PurgeWhole(e) PROVE PastInv'
  BY <1>3, PurgeEntityPast DEF PurgeWhole, NextOperation
<1>4. ASSUME PurgePart PROVE PastInv'
  BY <1>4, PurgeEntityPast DEF PurgePart
<1> QED  BY <1>1, <1>2, <1>3, <1>4, PurgeBeforePast DEF Purging

LEMMA PastStep == IInv /\ PastInv /\ [Next]_vars => PastInv'
<1> SUFFICES ASSUME IInv, PastInv, [Next]_vars PROVE PastInv'
  OBVIOUS
<1>1. ASSUME Adding \/ Swapping PROVE PastInv'
  BY <1>1, AssertPast, RaisePast DEF Adding, Swapping, Add, AddTaken, CompareAndSwap, CompareAndSwapFails
<1> QED  BY <1>1, BeginPast, FinishPast, StutterPast, RetractingPast, PurgingPast DEF Next

\* Unless a transaction changes something twice, or purges of the past of what is
\* current, the views of the database and its current index agree, whatever is
\* asserted, retracted, purged and expired, by transactions of any length.
THEOREM ViewsOfOneValue == Spec => []ViewsAgree
<1>1. ASSUME IInv, PastInv PROVE ViewsAgree
  <2> SUFFICES ASSUME odd = {}
               PROVE  /\ AsOf(db, maxTx) = Facts(db.current)
                      /\ \A t \in 0..maxTx :
                           /\ Since(db, t) \subseteq Facts(db.current)
                           /\ Facts(db.current) \ AsOf(db, t) \subseteq Since(db, t)
    BY DEF ViewsAgree
  <2> DEFINE C == db.current
             U == History(db)
  <2>1. Ruled(db, maxTx) /\ maxTx \in Nat
    BY <1>1, RuledValues
  <2>2. SaneTo(db, maxTx) /\ EndedIn(db)
    BY <1>1, <2>1 DEF PastInv
  <2>3. Timed(C, U) /\ Sane(C, U) /\ Ended(C, U) /\ AsOf(db, maxTx) = Assemble(U)
    BY <2>1, <2>2, ValueTypes, UptoAll, UptoTypes DEF EndedIn
  <2>4. \A t \in 0..maxTx : t \in Nat
    BY <2>1
  <2>5. \A t : Since(db, t) = Assemble(Beyond(U, t)) /\ AsOf(db, t) = Assemble(Upto(U, t))
    BY DEF Since, AsOf, Beyond, Upto
  <2> HIDE DEF C, U
  <2>6. /\ Assemble(U) = Facts(C)
        /\ \A t \in 0..maxTx : /\ Since(db, t) \subseteq Facts(C)
                               /\ Facts(C) \ AsOf(db, t) \subseteq Since(db, t)
    BY <2>3, <2>4, <2>5, SaneViews
  <2> QED  BY <2>3, <2>6 DEF C
<1> QED  BY <1>1, InitInv, StepInv, InitPast, PastStep, PTL DEF Spec

\* No transaction that comes after other than odd ones changes what the database
\* was as of any of them: it takes away the facts it purges, and nothing else;
\* expiring takes away some, but adds nothing.  (With attributes stored as ids,
\* references to a purged entity are left, see PurgedIsForgotten.)
THEOREM PastIsFixed == ASSUME ~AttributeRefs PROVE Spec => PastFixed
<1>1. IInv /\ PurgeInv => PurgedForgotten
  <2> SUFFICES ASSUME PurgeInv, NEW d \in History(after), Fact(d) \in purged.facts
               PROVE  d.tx = CurrentTx
    BY DEF PurgedForgotten
  <2>1. CASE d \in after.temporal
    BY <2>1 DEF PurgeInv, Forgotten
  <2>2. ASSUME NEW x \in after.current, d = Asserted(x) PROVE d.tx = CurrentTx
    <3>1. Fact(x) = Fact(d) /\ x.tx = d.tx
      BY <2>2
    <3> QED  BY <3>1 DEF PurgeInv, Forgotten
  <2> QED  BY <2>1, <2>2, HistoryIs
<1>2. IInv /\ PastInv /\ PurgedForgotten /\ [Next]_vars =>
        [\A t \in 1..maxTx : odd \cap 1..t = {} =>
           /\ AsOf(db', t) \subseteq AsOf(db, t) \ purged.facts
           /\ purged.date = 0 =>
                WithHistory(AsOf(db, t)) \ purged.facts \subseteq AsOf(db', t)]_db
  <2> SUFFICES ASSUME IInv, PastInv, PurgedForgotten, Next, db' # db,
                      NEW t \in 1..maxTx, odd \cap 1..t = {}
               PROVE  /\ AsOf(db', t) \subseteq AsOf(db, t) \ purged.facts
                      /\ purged.date = 0 =>
                           WithHistory(AsOf(db, t)) \ purged.facts \subseteq AsOf(db', t)
    BY DEF vars
  <2>1. Finish
    BY DEF Next, Begin, Adding, Swapping, Retracting, Purging, Add, AddTaken, CompareAndSwap,
           CompareAndSwapFails, Raise, RetractFact, RetractValues, RetractAttribute, RetractWhole,
           RetractPart, PurgeFact, PurgeAttribute, PurgeWhole, PurgePart, PurgeBefore, NextOperation
  <2>2. db' = after /\ t \in 0..maxTx /\ t < CurrentTx /\ t \in Nat
    BY <2>1, RuledValues DEF Finish
  <2>3. PastSame(t) /\ SaneTo(after, t)
    BY <2>2 DEF PastInv
  <2>4. ASSUME NEW f \in AsOf(after, t), f \in purged.facts PROVE FALSE
    <3>1. PICK x \in History(after) : x.tx <= t /\ Fact(x) = f
      BY DEF AsOf, Assemble
    <3>2. x.tx = CurrentTx
      BY <2>4, <3>1 DEF PurgedForgotten
    <3> QED  BY <2>2, <3>1, <3>2, RuledValues
  <2> QED  BY <2>2, <2>3, <2>4 DEF PastSame
<1>3. Init => PurgeInv
  BY DEF Init, Empty, NoPurge, PurgeInv, Backed, Forgotten
<1>4. IInv /\ PurgeInv /\ [Next]_vars => PurgeInv'
  BY PurgeStep
<1> QED  BY <1>1, <1>2, <1>3, <1>4, InitInv, StepInv, InitPast, PastStep, PTL DEF Spec, PastFixed

-----------------------------------------------------------------------------
(* What has expired is forgotten.                                               *)

ExpireInv ==
    /\ last.op = "purge/before" => open /\ \A x \in es : x.op = "purge/entity"
    /\ ExpiredForgotten

\* Purging the parts that expired datoms name leaves the rest as it was.
LEMMA PurgeFactsExpire ==
    ASSUME IInv, PastInv, ExpireInv, open, UNCHANGED <<open, odd, last>>,
           \A x \in es' : last.op = "purge/before" => x.op = "purge/entity",
           NEW F, NEW G \in SUBSET F, NEW D, D = {d \in History(after) : Fact(d) \in G},
           NEW new, PurgeDatoms(D, F, new)
    PROVE  ExpireInv'
<1>1. /\ ValueOK(after, CurrentTx) /\ CurrentTx \in Nat /\ Backed(after)
      /\ after' = Purge(after, D) /\ isOdd' = isOdd
  BY RuledValues DEF PurgeDatoms, PastInv, Ruled
<1>2. /\ \A d : d \in after'.current <=> d \in after.current /\ Fact(d) \notin G
      /\ \A x : x \in after'.temporal <=> x \in after.temporal /\ Fact(x) \notin G
  BY <1>1, PurgeFactsIs
<1>3. ASSUME last.op = "purge/before", odd = {}, ~isOdd, NEW x \in after'.temporal, x.tx < last.date
      PROVE  \E d \in after'.current : SameKey(d, x)
  <2>1. PICK d \in after.current : SameKey(d, x)
    BY <1>2, <1>3 DEF ExpireInv, ExpiredForgotten
  <2>2. d \in after'.current
    BY <1>2, <2>1
  <2> QED  BY <2>1, <2>2
<1> QED  BY <1>1, <1>3 DEF ExpireInv, ExpiredForgotten

LEMMA PurgeBeforeExpire ==
    ASSUME IInv, PastInv, NEW date \in 1..CurrentTx + 1, PurgeBefore(date)
    PROVE  ExpireInv'
<1> DEFINE n == CurrentTx
           D == Expired(after, date)
<1>1. /\ after' = Purge(after, D) /\ odd' = odd /\ open /\ open' = open
      /\ isOdd' = (isOdd \/ Facts(D) \cap Facts(after.current) # {})
      /\ last'.op = "purge/before" /\ last'.date = date
      /\ es' = Parts(D, "purge/entity")
  BY DEF PurgeBefore, NextOperation
<1>2. Ruled(after, n) /\ n \in Nat
  BY RuledValues
<1>3. ASSUME odd = {}, ~isOdd', NEW x \in after'.temporal, x.tx < date
      PROVE  \E d \in after'.current : SameKey(d, x)
  <2>1. SaneTo(after, n) /\ Facts(D) \cap Facts(after.current) = {}
    BY <1>1, <1>3, Zenon DEF PastInv
  <2>2. OncePer(Upto(History(after), n))
    BY <2>1 DEF SaneTo, Sane
  <2>3. x \in after.temporal /\ x.tx <= n
    <3>1. x \in after.temporal
      BY <1>1, <1>3 DEF Purge
    <3> QED  BY <1>2, <3>1, ValueTypes, HistoryIs
  <2>4. PICK d \in after.current : SameKey(d, x)
    BY <1>1, <1>2, <1>3, <2>2, <2>3, ExpireIs
  <2>5. Fact(d) \notin Facts(D)
    <3>1. Fact(d) \in Facts(after.current)
      OBVIOUS
    <3> QED  BY <2>1, <3>1
  <2>6. d \in after'.current
    BY <1>1, <2>5 DEF Purge
  <2> QED  BY <2>4, <2>6
<1>4. \A x \in es' : x.op = "purge/entity"
  BY <1>1 DEF Parts
<1> QED  BY <1>1, <1>3, <1>4 DEF ExpireInv, ExpiredForgotten

LEMMA ExpireStep == IInv /\ PastInv /\ ExpireInv /\ [Next]_vars => ExpireInv'
<1> SUFFICES ASSUME IInv, PastInv, ExpireInv, [Next]_vars PROVE ExpireInv'
  OBVIOUS
<1>1. ASSUME last'.op # "purge/before" PROVE ExpireInv'
  BY <1>1 DEF ExpireInv, ExpiredForgotten
<1>2. NoOp.op # "purge/before" /\ \A e, F : [NoOp EXCEPT !.op = "retract/entity", !.e = e, !.facts = F].op # "purge/before"
  BY DEF NoOp
<1>3. ASSUME UNCHANGED vars PROVE ExpireInv'
  BY <1>3 DEF vars, report, ExpireInv, ExpiredForgotten
<1>4. ASSUME Begin PROVE ExpireInv'
  BY <1>1, <1>4 DEF Begin, ExpireInv
<1>5. ASSUME Finish \/ Raise PROVE ExpireInv'
  BY <1>1, <1>2, <1>5 DEF Finish, Raise, Close
<1>6. ASSUME NextOperation(NoOp) PROVE ExpireInv'
  BY <1>1, <1>2, <1>6 DEF NextOperation
<1>7. ASSUME Adding \/ Swapping PROVE ExpireInv'
  BY <1>5, <1>6, <1>7 DEF Adding, Swapping, Add, AddTaken, CompareAndSwap, CompareAndSwapFails
<1>8. ASSUME NEW e, RetractWhole(e) PROVE ExpireInv'
  BY <1>1, <1>2, <1>8 DEF RetractWhole, NextOperation
<1>9. ASSUME RetractPart PROVE ExpireInv'
  <2>1. PICK x \in es : x.op = "retract/entity"
    BY <1>9 DEF RetractPart
  <2>2. last.op # "purge/before" /\ last' = last
    BY <1>9, <2>1 DEF RetractPart, ExpireInv
  <2> QED  BY <1>1, <2>2
<1>10. ASSUME Retracting PROVE ExpireInv'
  BY <1>6, <1>8, <1>9, <1>10 DEF Retracting, RetractFact, RetractValues, RetractAttribute
<1>11. ASSUME PurgePart PROVE ExpireInv'
  <2>1. PICK x \in es : x.op = "purge/entity" /\ PurgeEntity(x.e, es \ {x})
    BY <1>11 DEF PurgePart
  <2>2. PICK F : \E G \in SUBSET F : \E new :
             /\ PurgeDatoms({d \in History(after) : Fact(d) \in G}, F, new)
             /\ \A y \in new : y \in es \ {x} \/ y.op = "purge/entity"
    BY <2>1, PurgeEntityIs
  <2>3. PICK G \in SUBSET F : \E new :
             /\ PurgeDatoms({d \in History(after) : Fact(d) \in G}, F, new)
             /\ \A y \in new : y \in es \ {x} \/ y.op = "purge/entity"
    BY <2>2
  <2>4. PICK new :
             /\ PurgeDatoms({d \in History(after) : Fact(d) \in G}, F, new)
             /\ \A y \in new : y \in es \ {x} \/ y.op = "purge/entity"
    BY <2>3
  <2> DEFINE D == {d \in History(after) : Fact(d) \in G}
  <2>5. PurgeDatoms(D, F, new) /\ D = {d \in History(after) : Fact(d) \in G}
    BY <2>4
  <2> HIDE DEF D
  <2>6. open /\ UNCHANGED <<open, odd, last>> /\ es' = new
    BY <1>11, <2>5 DEF PurgePart, PurgeDatoms
  <2>7. \A y \in es' : last.op = "purge/before" => y.op = "purge/entity"
    BY <2>4, <2>6 DEF ExpireInv
  <2> QED  BY <2>5, <2>6, <2>7, PurgeFactsExpire
<1>12. ASSUME Purging PROVE ExpireInv'
  BY <1>6, <1>11, <1>12, PurgeBeforeExpire DEF Purging, PurgeFact, PurgeAttribute, PurgeWhole
<1> QED  BY <1>3, <1>4, <1>5, <1>7, <1>10, <1>12 DEF Next

\* Right after :db.history.purge/before, and while it purges the parts that the
\* expired datoms name, of what is before the date only what is current is left.
THEOREM WhatExpiredIsForgotten == Spec => []ExpiredForgotten
<1>1. Init => ExpireInv
  BY DEF Init, NoOp, ExpireInv, ExpiredForgotten
<1>2. ExpireInv => ExpiredForgotten
  BY DEF ExpireInv
<1> QED  BY <1>1, <1>2, InitInv, StepInv, InitPast, PastStep, ExpireStep, PTL DEF Spec

-----------------------------------------------------------------------------
(* The whole of an entity is retracted.                                         *)

\* What of the facts F is left when the entities S are retracted.
Left(F, S) == {f \in F : f.e \notin S /\ ~(f.a \in Refs /\ f.v \in S)}

\* The entities Done of the whole of e are retracted, and Due are to be: the
\* parts of the former are among them, and the facts C are left of F.
Partway(e, F, Done, Due, C) ==
    /\ e \in Done \cup Due
    /\ Done \cup Due \subseteq Whole(e, F)
    /\ \A f \in F : f.a \in Components /\ f.e \in Done => f.v \in Done \cup Due
    /\ C = Left(F, Done)

Pending(S) == {x.e : x \in S}

WholeInv ==
    last.op = "retract/entity" =>
      /\ open /\ \A x \in es : x.op = "retract/entity"
      /\ \E Done : Partway(last.e, last.facts, Done, Pending(es), Facts(after.current))

\* The whole of an entity has it, is closed under parts, and is the least such set.
LEMMA WholeHas == ASSUME NEW e \in Entity, NEW F PROVE e \in Whole(e, F)
BY DEF Whole

LEMMA WholeClosed ==
    ASSUME NEW e, NEW F \in SUBSET Universe, NEW f \in F, f.a \in Components, f.e \in Whole(e, F)
    PROVE  f.v \in Whole(e, F)
<1>1. f.v \in Entity
  BY SchemaAssumption
<1>2. ASSUME NEW S \in SUBSET Entity, e \in S,
             \A g \in F : g.a \in Components /\ g.e \in S => g.v \in S
      PROVE  f.v \in S
  <2>1. f.e \in S
    BY <1>2 DEF Whole
  <2> QED  BY <1>2, <2>1
<1> QED  BY <1>1, <1>2 DEF Whole

LEMMA WholeLeast ==
    ASSUME NEW e, NEW F, NEW S \in SUBSET Entity, e \in S,
           \A f \in F : f.a \in Components /\ f.e \in S => f.v \in S
    PROVE  Whole(e, F) \subseteq S
BY DEF Whole

\* Retracting one entity of those due, which makes its parts due.
LEMMA RetractEntityWhole ==
    ASSUME ~AttributeRefs, IInv, NEW e \in Entity, NEW rest, RetractEntity(e, rest),
           NEW r, NEW F \in SUBSET Universe, NEW Done, NEW Due, Due \subseteq {e} \cup Pending(rest),
           e \in Due, Pending(rest) \subseteq Due,
           Partway(r, F, Done, Due, Facts(after.current))
    PROVE  Partway(r, F, Done \cup {e}, Pending(es'), Facts(after'.current))
<1> DEFINE C == after.current
           D == OfEntity(C, e)
           new == Done \cup {e}
<1>1. /\ after'.current = C \ (D \cup Referring(C, e))
      /\ es' = rest \cup Parts(D, "retract/entity")
  BY DEF RetractEntity, RetractDatoms, Retract
<1>2. Facts(after'.current) = Left(Facts(C), {e})
  BY <1>1 DEF OfEntity, Referring, Left
<1>3. Left(Facts(C), {e}) = Left(F, new)
  BY DEF Partway, Left
<1>4. \A v : v \in Pending(es') <=>
               v \in Pending(rest) \/ \E d \in C : d.e = e /\ d.a \in Components /\ d.v = v
  <2>1. ASSUME NEW x PROVE x \in es' <=> x \in rest \/ \E d \in C :
                             d.e = e /\ d.a \in Components /\ x = [op |-> "retract/entity", e |-> d.v]
    BY <1>1 DEF Parts, OfEntity
  <2>2. ASSUME NEW v \in Pending(es')
        PROVE  v \in Pending(rest) \/ \E d \in C : d.e = e /\ d.a \in Components /\ d.v = v
    <3>1. PICK x \in es' : x.e = v
      BY <2>2 DEF Pending
    <3>2. CASE x \in rest
      BY <3>1, <3>2 DEF Pending
    <3>3. ASSUME NEW d \in C, d.e = e, d.a \in Components, x = [op |-> "retract/entity", e |-> d.v]
          PROVE  d.v = v
      BY <3>1, <3>3
    <3> QED  BY <2>1, <3>2, <3>3
  <2>3. ASSUME NEW v \in Pending(rest) PROVE v \in Pending(es')
    BY <2>1, <2>3 DEF Pending
  <2>4. ASSUME NEW d \in C, d.e = e, d.a \in Components PROVE d.v \in Pending(es')
    <3> DEFINE x == [op |-> "retract/entity", e |-> d.v]
    <3>1. x \in es' /\ x.e = d.v
      BY <2>1, <2>4
    <3> QED  BY <3>1 DEF Pending
  <2> QED  BY <2>2, <2>3, <2>4
<1>5. ASSUME NEW v \in Pending(es') PROVE v \in Whole(r, F)
  <2>1. CASE v \in Pending(rest)
    BY <2>1 DEF Partway
  <2>2. ASSUME NEW d \in C, d.e = e, d.a \in Components, d.v = v PROVE v \in Whole(r, F)
    <3>1. Fact(d) \in F /\ Fact(d).e \in Whole(r, F)
      BY <2>2 DEF Partway, Left
    <3> QED  BY <2>2, <3>1, WholeClosed
  <2> QED  BY <1>4, <1>5, <2>1, <2>2
<1>6. ASSUME NEW f \in F, f.a \in Components, f.e \in new PROVE f.v \in new \cup Pending(es')
  <2>1. CASE f.e \in Done
    <3>1. f.v \in Done \cup Due
      BY <1>6, <2>1 DEF Partway
    <3> QED  BY <1>4, <3>1
  <2>2. CASE f.e = e /\ f.e \notin Done /\ f.v \notin Done
    <3>1. f \in Facts(C)
      BY <1>6, <2>2 DEF Partway, Left
    <3>2. PICK d \in C : f = Fact(d)
      BY <3>1
    <3>3. d.e = e /\ d.a \in Components /\ d.v = f.v
      BY <1>6, <2>2, <3>2
    <3> QED  BY <1>4, <3>3
  <2> QED  BY <1>6, <2>1, <2>2
<1>7. r \in new \cup Pending(es') /\ new \subseteq Whole(r, F)
  BY <1>4 DEF Partway
<1> HIDE DEF new, D
<1> QED  BY <1>2, <1>3, <1>5, <1>6, <1>7 DEF Partway, new

\* The operation of the caller starts with the entity.
LEMMA RetractWholeWhole ==
    ASSUME ~AttributeRefs, IInv, NEW e \in Entity, RetractWhole(e) PROVE WholeInv'
<1> DEFINE F == Facts(after.current)
<1>1. RetractEntity(e, {}) /\ open' /\ last'.op = "retract/entity" /\ last'.e = e /\ last'.facts = F
  BY DEF RetractWhole, NextOperation, NoOp
<1>2. F \in SUBSET Universe
  BY CurrentFacts
<1>3. Partway(e, F, {}, {e}, F)
  BY WholeHas DEF Partway, Left
<1>4. Pending({}) = {}
  BY DEF Pending
<1>5. Partway(e, F, {} \cup {e}, Pending(es'), Facts(after'.current))
  BY <1>1, <1>2, <1>3, <1>4, RetractEntityWhole
<1>6. \A x \in es' : x.op = "retract/entity"
  BY <1>1 DEF RetractEntity, RetractDatoms, Parts
<1> QED  BY <1>1, <1>5, <1>6 DEF WholeInv

\* Those it gives rise to go on with any part that is due.
LEMMA RetractPartWhole ==
    ASSUME ~AttributeRefs, IInv, WholeInv, RetractPart, last.op = "retract/entity" PROVE WholeInv'
<1>1. PICK x \in es : x.op = "retract/entity" /\ RetractEntity(x.e, es \ {x})
  BY DEF RetractPart
<1>2. PICK Done : Partway(last.e, last.facts, Done, Pending(es), Facts(after.current))
  BY DEF WholeInv
<1>3. x.e \in Entity /\ last.facts \in SUBSET Universe
  BY <1>1 DEF IInv, TypeOK, Entry
<1>4. /\ Pending(es) \subseteq {x.e} \cup Pending(es \ {x})
      /\ x.e \in Pending(es) /\ Pending(es \ {x}) \subseteq Pending(es)
  BY <1>1 DEF Pending
<1>5. Partway(last.e, last.facts, Done \cup {x.e}, Pending(es'), Facts(after'.current))
  BY <1>1, <1>2, <1>3, <1>4, RetractEntityWhole
<1>6. \A y \in es' : y.op = "retract/entity"
  BY <1>1 DEF WholeInv, RetractEntity, RetractDatoms, Parts
<1>7. UNCHANGED <<open, last>>
  BY DEF RetractPart
<1> QED  BY <1>5, <1>6, <1>7 DEF WholeInv

LEMMA WholeStep == ASSUME ~AttributeRefs PROVE IInv /\ WholeInv /\ [Next]_vars => WholeInv'
<1> SUFFICES ASSUME IInv, WholeInv, [Next]_vars PROVE WholeInv'
  OBVIOUS
<1>1. ASSUME last'.op # "retract/entity" PROVE WholeInv'
  BY <1>1 DEF WholeInv
<1>2. NoOp.op # "retract/entity"
  BY DEF NoOp
<1>3. ASSUME UNCHANGED vars PROVE WholeInv'
  BY <1>3 DEF vars, report, WholeInv
<1>4. ASSUME Begin PROVE WholeInv'
  BY <1>1, <1>4 DEF Begin, WholeInv
<1>5. ASSUME Finish \/ Raise PROVE WholeInv'
  BY <1>1, <1>2, <1>5 DEF Finish, Raise, Close
<1>6. ASSUME NextOperation(NoOp) PROVE WholeInv'
  BY <1>1, <1>2, <1>6 DEF NextOperation
<1>7. ASSUME Adding \/ Swapping PROVE WholeInv'
  BY <1>5, <1>6, <1>7 DEF Adding, Swapping, Add, AddTaken, CompareAndSwap, CompareAndSwapFails
<1>8. ASSUME RetractPart PROVE WholeInv'
  <2>1. CASE last.op = "retract/entity"
    BY <1>8, <2>1, RetractPartWhole
  <2>2. CASE last.op # "retract/entity"
    BY <1>1, <1>8, <2>2 DEF RetractPart
  <2> QED  BY <2>1, <2>2
<1>9. ASSUME Retracting PROVE WholeInv'
  BY <1>6, <1>8, <1>9, RetractWholeWhole DEF Retracting, RetractFact, RetractValues, RetractAttribute
<1>10. ASSUME PurgePart PROVE WholeInv'
  <2>1. last.op # "retract/entity" /\ last' = last
    BY <1>10 DEF PurgePart, WholeInv
  <2> QED  BY <1>1, <2>1
<1>11. ASSUME NEW date, PurgeBefore(date) PROVE WholeInv'
  <2>1. last'.op = "purge/before"
    BY <1>11 DEF PurgeBefore, NextOperation
  <2> QED  BY <1>1, <2>1
<1>12. ASSUME Purging PROVE WholeInv'
  BY <1>6, <1>10, <1>11, <1>12 DEF Purging, PurgeFact, PurgeAttribute, PurgeWhole
<1> QED  BY <1>3, <1>4, <1>5, <1>7, <1>9, <1>12 DEF Next

\* :db/retractEntity, when all that it gave rise to is done, has retracted the
\* entity, its parts, their parts and the references to one of them, and nothing
\* else, in whatever order the parts were come by and even if they are parts of
\* one another.  With attributes stored as ids it retracts more: every value
\* that equals the id, see Referring.
THEOREM WholeIsRetracted == ASSUME ~AttributeRefs PROVE Spec => []RetractsWhole
<1>1. Init => WholeInv
  BY DEF Init, NoOp, WholeInv
<1>2. WholeInv => RetractsWhole
  <2> SUFFICES ASSUME WholeInv, last.op = "retract/entity", es = {}
               PROVE  Facts(after.current) = Left(last.facts, Whole(last.e, last.facts))
    BY DEF RetractsWhole, Left
  <2>1. PICK Done : Partway(last.e, last.facts, Done, Pending(es), Facts(after.current))
    BY DEF WholeInv
  <2>2. Pending(es) = {}
    BY DEF Pending
  <2>3. Done \in SUBSET Entity /\ Done \subseteq Whole(last.e, last.facts)
    BY <2>1, <2>2 DEF Partway, Whole
  <2>4. Whole(last.e, last.facts) \subseteq Done
    BY <2>1, <2>2, <2>3, WholeLeast DEF Partway
  <2> QED  BY <2>1, <2>3, <2>4 DEF Partway
<1> QED  BY <1>1, <1>2, InitInv, StepInv, WholeStep, PTL DEF Spec
===============================================================================
