----------------------------- MODULE TempidsProofs -----------------------------
(* Proofs about Tempids, for any transaction on any database value. *)
EXTENDS Tempids, TLAPS

\* Each item that was met became the entity that its id says, and all items of
\* one tempid the entity that the report gives for the tempid.
ItemsPlaced ==
    \A i \in 1..next - 1 : /\ input[i].id > 0 => ids[i] = input[i].id
                           /\ input[i].id < 0 => ids[i] = tempids[input[i].id]

\* An attribute has one value of an entity, an identity one entity.
IdentitiesUnique ==
    \A c, d \in after.datoms :
        c.a = d.a /\ (c.e = d.e \/ (c.a \in Ident /\ c.v = d.v)) => c = d

Attributes == UNION {{x.avs[k].a : k \in DOMAIN x.avs} : x \in Items}
Values == Nat \cup UNION {{x.avs[k].v : k \in DOMAIN x.avs} : x \in Items}

\* Assertions: a reference is one to a tempid or to an entity.
Assertions == {op \in [e : Nat \ {0}, a : Attributes, v : Values] :
                 op.a \in Ref => op.v \in Tempid \cup (Nat \ {0})}

IsValue(db) == db = [datoms |-> db.datoms, maxEid |-> db.maxEid]

IInv == /\ TypeOK
        /\ IsValue(after)
        /\ ops \in Seq(Assertions)
        /\ ItemsPlaced
        /\ IdentitiesUnique

-------------------------------------------------------------------------------
LEMMA InitInv == Init => IInv
<1>1. SUFFICES ASSUME Init PROVE IInv
  OBVIOUS
<1>2. before \in Before /\ after = before
  BY <1>1 DEF Init
<1>3. input \in Seq(Items)
  BY <1>1, BoundAssumption DEF Init, SeqOf
<1>4. TypeOK
  <2>1. after.maxEid \in Nat
        /\ \A d \in after.datoms : d.e \in 1..after.maxEid /\ (d.a \in Ref => d.v \in Nat \ {0})
    BY <1>2, BeforeAssumption
  <2>2. {tempids, initial} \subseteq [Tempid -> Nat]
    BY <1>1 DEF Init
  <2>3. next = 1 /\ ids = <<>> /\ ops = <<>>
    BY <1>1 DEF Init
  <2>4. next \in 1..Len(input) + 1 /\ ids \in [1..next - 1 -> Nat \ {0}]
    BY <1>3, <2>3
  <2>5. \A k \in DOMAIN ops : ops[k].e \in 1..after.maxEid
    BY <2>3
  <2>6. outcome = "open" /\ carried = FALSE /\ reused = FALSE
    BY <1>1 DEF Init
  <2>. QED
    BY <1>2, <1>3, <2>1, <2>2, <2>4, <2>5, <2>6 DEF TypeOK
<1>5. IsValue(after) /\ IdentitiesUnique
  BY <1>2, BeforeAssumption DEF IsValue, IdentitiesUnique
<1>6. ops \in Seq(Assertions) /\ ItemsPlaced
  BY <1>1 DEF Init, ItemsPlaced
<1>. QED
  BY <1>4, <1>5, <1>6 DEF IInv

\* What is known of the item at hand.
LEMMA ItemTyped ==
    ASSUME IInv, AtItem
    PROVE  /\ Item \in Items /\ next \in Nat \ {0} /\ next <= Len(input)
           /\ Item.id \in Int
           /\ Item.id < 0 => Item.id \in Tempid
           /\ Item.avs \in Seq({Item.avs[k] : k \in DOMAIN Item.avs})
           /\ \A k \in DOMAIN Item.avs :
                Item.avs[k].a \in Ref => Item.avs[k].v \in Tempid \cup (Nat \ {0})
<1>1. input \in Seq(Items) /\ next \in 1..Len(input) + 1 /\ next <= Len(input)
  BY DEF IInv, TypeOK, AtItem
<1>2. Item \in Items /\ next \in Nat \ {0}
  BY <1>1 DEF Item
<1>3. before \in Before
  BY DEF IInv, TypeOK
<1>4. before.maxEid \in Nat
  BY <1>3, BeforeAssumption
<1>5. Item.id \in Tempid \/ Item.id = 0 \/ Item.id \in 1..before.maxEid
  BY <1>2, <1>3, ItemAssumption
<1>6. Item.id \in Int /\ (Item.id < 0 => Item.id \in Tempid)
  <2>1. CASE Item.id \in Tempid
    BY <2>1, TempidAssumption
  <2>2. CASE Item.id = 0
    BY <2>2
  <2>3. CASE Item.id \in 1..before.maxEid
    BY <1>4, <2>3
  <2>. QED
    BY <1>5, <2>1, <2>2, <2>3
<1>7. /\ Item.avs \in Seq({Item.avs[k] : k \in DOMAIN Item.avs})
      /\ \A k \in DOMAIN Item.avs :
           Item.avs[k].a \in Ref => Item.avs[k].v \in Tempid \cup (Nat \ {0})
  BY <1>2, ItemAssumption
<1>. QED
  BY <1>1, <1>2, <1>6, <1>7

\* Replacing an item by its assertions on the entity that it is of.
LEMMA ExplodeOK ==
    ASSUME IInv, AtItem, NEW e \in Nat \ {0}, Explode(e),
           after' = AdvanceMaxEid(after, e), reused' \in BOOLEAN,
           Item.id > 0 => e = Item.id,
           Item.id < 0 /\ tempids[Item.id] # 0 => e = tempids[Item.id]
    PROVE  IInv'
<1>. USE DEF IInv
<1>1. /\ UNCHANGED <<before, input, initial, outcome, carried>>
      /\ next' = next + 1 /\ ids' = Append(ids, e)
      /\ tempids' = IF Item.id < 0 THEN [tempids EXCEPT ![Item.id] = e] ELSE tempids
      /\ ops' = [k \in DOMAIN Item.avs |-> Datom(e, Item.avs[k].a, Item.avs[k].v)]
  BY DEF Explode
<1>2. tempids \in [Tempid -> Nat] /\ after.maxEid \in Nat /\ ids \in [1..next - 1 -> Nat \ {0}]
  BY DEF TypeOK
<1>3. /\ after'.datoms = after.datoms /\ IsValue(after)'
      /\ after'.maxEid = IF e > after.maxEid THEN e ELSE after.maxEid
  BY DEF IsValue, AdvanceMaxEid
<1>4. tempids' \in [Tempid -> Nat]
  BY <1>1, <1>2, ItemTyped
<1>5. ids' \in [1..next -> Nat \ {0}] /\ ids'[next] = e /\ \A i \in 1..next - 1 : ids'[i] = ids[i]
  <2>1. next \in Nat \ {0} /\ next - 1 \in Nat
    BY ItemTyped
  <2>2. ids \in Seq(Nat \ {0}) /\ Len(ids) = next - 1
    BY <1>2, <2>1
  <2>3. ids' \in Seq(Nat \ {0}) /\ Len(ids') = next /\ ids'[next] = e
        /\ \A i \in 1..next - 1 : ids'[i] = ids[i]
    BY <1>1, <2>1, <2>2
  <2>. QED
    BY <2>1, <2>3
<1>6. ops' \in Seq(Assertions) /\ \A k \in DOMAIN ops' : ops'[k].e = e
  <2>1. Len(Item.avs) \in Nat /\ DOMAIN Item.avs = 1..Len(Item.avs)
    BY ItemTyped
  <2>2. \A k \in DOMAIN Item.avs : Datom(e, Item.avs[k].a, Item.avs[k].v) \in Assertions
    <3>1. SUFFICES ASSUME NEW k \in DOMAIN Item.avs
                   PROVE  Datom(e, Item.avs[k].a, Item.avs[k].v) \in Assertions
      OBVIOUS
    <3>2. Item.avs[k].a \in Attributes /\ Item.avs[k].v \in Values
      BY ItemTyped DEF Attributes, Values
    <3>3. Item.avs[k].a \in Ref => Item.avs[k].v \in Tempid \cup (Nat \ {0})
      BY ItemTyped
    <3>. QED
      BY <3>2, <3>3 DEF Datom, Assertions
  <2>. QED
    BY <1>1, <2>1, <2>2 DEF Datom
<1>7. TypeOK'
  <2>1. \A d \in after'.datoms : d.e \in 1..after'.maxEid /\ (d.a \in Ref => d.v \in Nat \ {0})
    BY <1>2, <1>3 DEF TypeOK
  <2>2. next' \in 1..Len(input') + 1 /\ ids' \in [1..next' - 1 -> Nat \ {0}]
    <3>1. next \in Nat \ {0} /\ next <= Len(input) /\ next' = next + 1 /\ input' = input
      BY <1>1, ItemTyped
    <3>2. Len(input) \in Nat /\ next' - 1 = next
      BY <3>1 DEF TypeOK
    <3>. QED
      BY <1>5, <3>1, <3>2
  <2>3. \A k \in DOMAIN ops' : ops'[k].e \in 1..after'.maxEid
    BY <1>2, <1>3, <1>6
  <2>. QED
    BY <1>1, <1>2, <1>3, <1>4, <2>1, <2>2, <2>3 DEF TypeOK
<1>8. ItemsPlaced'
  <2>1. SUFFICES ASSUME NEW i \in 1..next
                 PROVE  /\ input[i].id > 0 => ids'[i] = input[i].id
                        /\ input[i].id < 0 => ids'[i] = tempids'[input[i].id]
    <3>1. next' - 1 = next /\ input' = input
      BY <1>1, ItemTyped
    <3>. QED
      BY <3>1 DEF ItemsPlaced
  <2>2. CASE i = next
    BY <1>1, <1>2, <1>5, <2>2, ItemTyped DEF Item
  <2>3. CASE i # next
    <3>1. i \in 1..next - 1 /\ ids'[i] = ids[i] /\ ids[i] # 0
      <4>1. next \in Nat \ {0}
        BY ItemTyped
      <4>2. i \in 1..next - 1
        BY <2>3, <4>1
      <4>. QED
        BY <1>2, <1>5, <4>2
    <3>2. /\ input[i].id > 0 => ids[i] = input[i].id
          /\ input[i].id < 0 => ids[i] = tempids[input[i].id]
      BY <3>1 DEF ItemsPlaced
    <3>3. CASE Item.id < 0 /\ input[i].id = Item.id
      BY <1>1, <1>2, <3>1, <3>2, <3>3, ItemTyped
    <3>4. CASE ~(Item.id < 0 /\ input[i].id = Item.id)
      BY <1>1, <1>2, <3>1, <3>2, <3>4
    <3>. QED
      BY <3>3, <3>4
  <2>. QED
    BY <2>2, <2>3
<1>9. IdentitiesUnique'
  BY <1>3 DEF IdentitiesUnique
<1>. QED
  BY <1>3, <1>6, <1>7, <1>8, <1>9

\* The first assertion that is left.
LEMMA OpTyped ==
    ASSUME IInv, AtOp
    PROVE  /\ Op \in Assertions /\ ops \in Seq(Assertions) /\ ops # <<>>
           /\ Op = ops[1] /\ Op.e \in 1..after.maxEid
           /\ OpenValue(Op) => Op.v \in Tempid
<1>1. ops \in Seq(Assertions) /\ ops # <<>> /\ \A k \in DOMAIN ops : ops[k].e \in 1..after.maxEid
  BY DEF IInv, TypeOK, AtOp
<1>2. Op = ops[1] /\ Op \in Assertions /\ 1 \in DOMAIN ops
  BY <1>1 DEF Op
<1>3. OpenValue(Op) => Op.v \in Tempid
  BY <1>2 DEF OpenValue, Assertions
<1>. QED
  BY <1>1, <1>2, <1>3

\* An id that is given out exceeds all.
LEMMA NewEid == ASSUME IInv PROVE NextEid \in Nat \ {0} /\ NextEid > after.maxEid
BY DEF IInv, TypeOK, NextEid

LEMMA CreateInv == ASSUME IInv, Create PROVE IInv'
<1>1. AtItem /\ Fresh(Item) /\ Allocate /\ Explode(NextEid)
  BY DEF Create
<1>2. after' = AdvanceMaxEid(after, NextEid) /\ reused' \in BOOLEAN
  BY <1>1 DEF Allocate, IInv, TypeOK
<1>3. ~(Item.id > 0) /\ (Item.id < 0 => tempids[Item.id] = 0)
  BY <1>1, ItemTyped DEF Fresh
<1>. QED
  BY <1>1, <1>2, <1>3, NewEid, ExplodeOK

\* What is found by its identity is an entity.
LEMMA UpsertedEntities == ASSUME IInv, NEW x PROVE Upserted(x) \subseteq Nat \ {0}
<1> DEFINE found == {y \in after.datoms : y.a \in Ident /\
                        \E k \in DOMAIN x.avs : x.avs[k] = [a |-> y.a, v |-> y.v]}
<1>1. \A d \in after.datoms : d.e \in Nat \ {0}
  BY DEF IInv, TypeOK
<1>2. found \subseteq after.datoms
  OBVIOUS
<1>3. Upserted(x) \subseteq {d.e : d \in found}
  BY DEF Upserted
<1> HIDE DEF found
<1>. QED
  BY <1>1, <1>2, <1>3

LEMMA ResolveInv == ASSUME IInv, Resolve PROVE IInv'
<1>1. /\ AtItem /\ ~Fresh(Item) /\ ~Conflicting(Item) /\ ~Misplaced(Item)
      /\ after' = AdvanceMaxEid(after, Known(Item)) /\ Explode(Known(Item))
      /\ reused' = reused
  BY DEF Resolve
<1>2. Item.id \in Int /\ (Item.id < 0 => Item.id \in Tempid)
      /\ tempids \in [Tempid -> Nat] /\ reused' \in BOOLEAN
  BY <1>1, ItemTyped DEF IInv, TypeOK
<1>3. \A e \in Upserted(Item) : e \in Nat \ {0}
  BY UpsertedEntities
<1>4. CASE Upserted(Item) # {}
  <2>1. Known(Item) \in Upserted(Item)
    BY <1>4 DEF Known
  <2>2. Item.id > 0 => Known(Item) = Item.id
    BY <1>1, <2>1 DEF Conflicting
  <2>3. Item.id < 0 /\ tempids[Item.id] # 0 => Known(Item) = tempids[Item.id]
    BY <1>1, <2>1 DEF Misplaced
  <2>. QED
    BY <1>1, <1>2, <1>3, <2>1, <2>2, <2>3, ExplodeOK
<1>5. CASE Upserted(Item) = {}
  <2>1. Item.id # 0 /\ (Item.id < 0 => tempids[Item.id] # 0)
    BY <1>1, <1>2, <1>5 DEF Fresh
  <2>2. Known(Item) = IF Item.id < 0 THEN tempids[Item.id] ELSE Item.id
    BY <1>5 DEF Known
  <2>3. Known(Item) \in Nat \ {0}
    BY <1>2, <2>1, <2>2
  <2>. QED
    BY <1>1, <1>2, <2>2, <2>3, ExplodeOK
<1>. QED
  BY <1>4, <1>5

\* The end of the transaction changes nothing but the outcome.
LEMMA EndOK ==
    ASSUME IInv, NEW o \in {"ok", "conflict", "unique"}, End(o) PROVE IInv'
<1>1. /\ UNCHANGED <<before, input, after, tempids, next, ops, initial, ids, carried, reused>>
      /\ outcome' = o
  BY DEF End
<1>. QED
  BY <1>1 DEF IInv, TypeOK, IsValue, ItemsPlaced, IdentitiesUnique

\* Whatever ids the tempids keep, the loop starts again from what was before.
LEMMA RestartOK ==
    ASSUME IInv, NEW ts \in [Tempid -> Nat], Restart(ts) PROVE IInv'
<1>1. /\ initial' = ts /\ tempids' = ts
      /\ after' = before /\ next' = 1 /\ ops' = <<>> /\ ids' = <<>>
      /\ carried' = (carried \/ \E t \in Tempid : ts[t] > before.maxEid)
      /\ UNCHANGED <<before, input, outcome, reused>>
  BY DEF Restart
<1>2. /\ before \in Before /\ input \in Seq(Items) /\ carried \in BOOLEAN /\ reused \in BOOLEAN
      /\ outcome \in {"open", "ok", "conflict", "unique"}
  BY DEF IInv, TypeOK
<1>3. IsValue(after)' /\ IdentitiesUnique'
  BY <1>1, <1>2, BeforeAssumption DEF IsValue, IdentitiesUnique
<1>4. after'.maxEid \in Nat
      /\ \A d \in after'.datoms : d.e \in 1..after'.maxEid /\ (d.a \in Ref => d.v \in Nat \ {0})
  BY <1>1, <1>2, BeforeAssumption
<1>5. next' \in 1..Len(input') + 1 /\ ids' \in [1..next' - 1 -> Nat \ {0}]
  BY <1>1, <1>2
<1>6. ops' \in Seq(Assertions) /\ \A k \in DOMAIN ops' : ops'[k].e \in 1..after'.maxEid
  BY <1>1
<1>7. carried' \in BOOLEAN
  BY <1>1, <1>2
<1>8. TypeOK'
  BY <1>1, <1>2, <1>4, <1>5, <1>6, <1>7 DEF TypeOK
<1>9. ItemsPlaced'
  BY <1>1 DEF ItemsPlaced
<1>. QED
  BY <1>3, <1>6, <1>8, <1>9 DEF IInv

LEMMA RetryInv == ASSUME IInv, RetryWithTempid PROVE IInv'
<1>1. /\ AtItem /\ Misplaced(Item)
      /\ Restart([tempids EXCEPT ![Item.id] = Known(Item)])
  BY DEF RetryWithTempid
<1>2. Known(Item) \in Nat
  BY <1>1, UpsertedEntities DEF Known, Misplaced
<1>3. [tempids EXCEPT ![Item.id] = Known(Item)] \in [Tempid -> Nat]
  BY <1>2 DEF IInv, TypeOK
<1>. QED
  BY <1>1, <1>3, RestartOK

LEMMA ResolveValueInv == ASSUME IInv, ResolveValue PROVE IInv'
<1>1. /\ AtOp /\ OpenValue(Op) /\ tempids[Op.v] # 0
      /\ ops' = [ops EXCEPT ![1].v = tempids[@]]
      /\ UNCHANGED <<before, input, after, tempids, next, initial, outcome, ids, carried, reused>>
  BY DEF ResolveValue
<1>2. tempids[Op.v] \in Nat \ {0}
  BY <1>1, OpTyped DEF IInv, TypeOK
<1>3. ops' = [ops EXCEPT ![1] = [Op EXCEPT !.v = tempids[Op.v]]]
  BY <1>1, OpTyped
<1>4. [Op EXCEPT !.v = tempids[Op.v]] \in Assertions
  BY <1>1, <1>2, OpTyped DEF Assertions, Values
<1>5. ops' \in Seq(Assertions)
  BY <1>1, <1>3, <1>4, OpTyped
<1>6. \A k \in DOMAIN ops' : ops'[k].e \in 1..after'.maxEid
  <2>1. \A k \in DOMAIN ops' : k \in DOMAIN ops /\ ops'[k].e = ops[k].e
    BY <1>1, <1>3, OpTyped DEF Assertions
  <2>. QED
    BY <1>1, <2>1 DEF IInv, TypeOK
<1>7. TypeOK'
  BY <1>1, <1>6 DEF IInv, TypeOK
<1>. QED
  BY <1>1, <1>5, <1>7 DEF IInv, IsValue, ItemsPlaced, IdentitiesUnique

LEMMA CreateValueInv == ASSUME IInv, CreateValue PROVE IInv'
<1>1. /\ AtOp /\ OpenValue(Op) /\ tempids[Op.v] = 0
      /\ after' = AdvanceMaxEid(after, NextEid) /\ reused' \in BOOLEAN
      /\ tempids' = [tempids EXCEPT ![Op.v] = NextEid]
      /\ UNCHANGED <<before, input, next, ops, initial, outcome, ids, carried>>
  BY DEF CreateValue, Allocate, IInv, TypeOK
<1>2. after.maxEid \in Nat /\ NextEid = after.maxEid + 1
  BY DEF IInv, TypeOK, NextEid
<1>3. IsValue(after)' /\ after'.datoms = after.datoms /\ after'.maxEid = NextEid
  BY <1>1, <1>2 DEF IInv, IsValue, AdvanceMaxEid
<1>4. TypeOK'
  <2>1. tempids' \in [Tempid -> Nat]
    <3>1. NextEid \in Nat /\ tempids \in [Tempid -> Nat]
      BY <1>2 DEF IInv, TypeOK
    <3>. QED
      BY <1>1, <3>1
  <2>2. \A d \in after'.datoms : d.e \in 1..after'.maxEid /\ (d.a \in Ref => d.v \in Nat \ {0})
    BY <1>2, <1>3 DEF IInv, TypeOK
  <2>3. \A k \in DOMAIN ops' : ops'[k].e \in 1..after'.maxEid
    BY <1>1, <1>2, <1>3 DEF IInv, TypeOK
  <2>. QED
    BY <1>1, <1>2, <1>3, <2>1, <2>2, <2>3 DEF IInv, TypeOK
<1>5. ItemsPlaced'
  <2>1. SUFFICES ASSUME NEW i \in 1..next - 1, input[i].id < 0
                 PROVE  ids[i] = tempids'[input[i].id]
    BY <1>1 DEF IInv, ItemsPlaced
  <2>2. ids[i] = tempids[input[i].id] /\ ids[i] # 0
    BY <2>1 DEF IInv, TypeOK, ItemsPlaced
  <2>3. input[i].id # Op.v
    BY <1>1, <2>2
  <2>. QED
    BY <1>1, <2>2, <2>3 DEF IInv, TypeOK
<1>. QED
  BY <1>1, <1>3, <1>4, <1>5 DEF IInv, IdentitiesUnique

\* Other datoms, and an entity id that is known already.
LEMMA OtherDatoms ==
    ASSUME NEW db, NEW D, NEW e \in Int, IsValue(db), db.maxEid \in Nat, e <= db.maxEid
    PROVE  AdvanceMaxEid([db EXCEPT !.datoms = D], e) = [datoms |-> D, maxEid |-> db.maxEid]
<1> DEFINE n == [db EXCEPT !.datoms = D]
<1>1. PICK F, m : db = [datoms |-> F, maxEid |-> m]
  BY DEF IsValue
<1>2. n = [datoms |-> D, maxEid |-> db.maxEid]
  BY <1>1
<1> HIDE DEF n
<1>3. n.maxEid = db.maxEid /\ [n EXCEPT !.maxEid = db.maxEid] = n
  BY <1>2
<1>4. AdvanceMaxEid(n, e) = n
  BY <1>3 DEF AdvanceMaxEid
<1>. QED
  BY <1>2, <1>4 DEF n

LEMMA AddInv == ASSUME IInv, Add PROVE IInv'
<1> DEFINE replaced == {d \in after.datoms : ~(d.e = Op.e /\ d.a = Op.a)} \cup {Op}
<1>1. /\ AtOp /\ ~OpenValue(Op) /\ ~Taken(Op)
      /\ after' = AdvanceMaxEid([after EXCEPT !.datoms = replaced], Op.e)
      /\ ops' = Tail(ops)
      /\ UNCHANGED <<before, input, tempids, next, initial, outcome, ids, carried, reused>>
  BY DEF Add
<1>2. after.maxEid \in Nat /\ IsValue(after)
  BY DEF IInv, TypeOK
<1>3. IsValue(after)' /\ after'.datoms = replaced /\ after'.maxEid = after.maxEid
  <2>1. Op.e \in 1..after.maxEid
    BY <1>1, OpTyped
  <2> HIDE DEF replaced
  <2>2. after' = [datoms |-> replaced, maxEid |-> after.maxEid]
    BY <1>1, <1>2, <2>1, OtherDatoms
  <2>. QED
    BY <2>2 DEF IsValue
<1>4. Op.a \in Ref => Op.v \in Nat \ {0}
  BY <1>1, OpTyped, TempidAssumption DEF OpenValue, Assertions
<1>5. ops' \in Seq(Assertions) /\ \A k \in DOMAIN ops' : k + 1 \in DOMAIN ops /\ ops'[k] = ops[k + 1]
  BY <1>1, OpTyped
<1>6. TypeOK'
  <2>1. \A d \in after'.datoms : d.e \in 1..after'.maxEid /\ (d.a \in Ref => d.v \in Nat \ {0})
    BY <1>1, <1>3, <1>4, OpTyped DEF IInv, TypeOK
  <2>2. \A k \in DOMAIN ops' : ops'[k].e \in 1..after'.maxEid
    BY <1>3, <1>5 DEF IInv, TypeOK
  <2>. QED
    BY <1>1, <1>2, <1>3, <2>1, <2>2 DEF IInv, TypeOK
<1>7. IdentitiesUnique'
  BY <1>1, <1>3 DEF IInv, IdentitiesUnique, Taken
<1>. QED
  BY <1>1, <1>3, <1>5, <1>6, <1>7 DEF IInv, ItemsPlaced

LEMMA StepInv == IInv /\ [Next]_vars => IInv'
<1>1. SUFFICES ASSUME IInv, [Next]_vars PROVE IInv'
  OBVIOUS
<1>2. CASE UNCHANGED vars
  BY <1>1, <1>2 DEF vars, IInv, TypeOK, IsValue, ItemsPlaced, IdentitiesUnique
<1>3. CASE RaiseUpsert \/ RaiseRetry \/ RaiseUnique \/ Finish
  BY <1>1, <1>3, EndOK DEF RaiseUpsert, RaiseRetry, RaiseUnique, Finish
<1>. QED
  BY <1>1, <1>2, <1>3, CreateInv, ResolveInv, RetryInv, ResolveValueInv, CreateValueInv, AddInv DEF Next

LEMMA Invariant == Spec => []IInv
BY InitInv, StepInv, PTL DEF Spec

\* No tempid is left in what was asserted, and no entity is beyond :max-eid,
\* so that the next id is not one of an entity that has datoms.
THEOREM TypeCorrect == Spec => []TypeOK
<1>1. IInv => TypeOK
  BY DEF IInv
<1>. QED
  BY <1>1, Invariant, PTL

\* However often the transaction is retried: items with one tempid are of one
\* entity, the one that :tempids of the report gives, and items with an id are
\* of the entity with this id.
THEOREM OneEntityEach == Spec => []ItemsPlaced
<1>1. IInv => ItemsPlaced
  BY DEF IInv
<1>. QED
  BY <1>1, Invariant, PTL

\* The upserts of a transaction leave each identity with one entity, and each
\* attribute with one value of an entity.
THEOREM IdentitiesKeptApart == Spec => []IdentitiesUnique
<1>1. IInv => IdentitiesUnique
  BY DEF IInv
<1>. QED
  BY <1>1, Invariant, PTL

-------------------------------------------------------------------------------
(* Kin: what the claims of all items make one entity, whether they were met   *)
(* yet or not.                                                                 *)

Everyone ==
    ({"item"} \X DOMAIN input) \cup ({"tempid"} \X Tempid)
    \cup ({"entity"} \X {d.e : d \in before.datoms})

\* No claim ties one in S to another.
Apart(S) == \A m \in S : \A n \in Everyone \ S : Claims(m) \cap Claims(n) = {}

Kin(m, n) == \A S \in SUBSET Everyone : Apart(S) /\ m \in S => n \in S

LEMMA EveryoneIs ==
    /\ \A i \in DOMAIN input : <<"item", i>> \in Everyone
    /\ \A t \in Tempid : <<"tempid", t>> \in Everyone
    /\ \A d \in before.datoms : <<"entity", d.e>> \in Everyone
    /\ \A n \in Everyone : \/ \E i \in DOMAIN input : n = <<"item", i>>
                           \/ \E t \in Tempid : n = <<"tempid", t>>
                           \/ \E d \in before.datoms : n = <<"entity", d.e>>
BY DEF Everyone

\* What the three kinds of nodes claim.
LEMMA ItemClaims ==
    ASSUME IInv, NEW i \in DOMAIN input
    PROVE  /\ \A y : <<y>> \in Claims(<<"item", i>>) <=> y = input[i].id /\ y # 0
           /\ \A a, v : <<a, v>> \in Claims(<<"item", i>>) <=>
                /\ a \in Ident
                /\ \E k \in DOMAIN input[i].avs : input[i].avs[k] = [a |-> a, v |-> v]
           /\ \A c \in Claims(<<"item", i>>) : (\E y : c = <<y>>) \/ (\E a, v : c = <<a, v>>)
<1> DEFINE x == input[i]
<1>1. Claims(<<"item", i>>) =
        {<<y>> : y \in {x.id} \ {0}} \cup
        {<<x.avs[k].a, x.avs[k].v>> : k \in {l \in DOMAIN x.avs : x.avs[l].a \in Ident}}
  BY DEF Claims
<1>2. x \in Items
  BY DEF IInv, TypeOK
<1>3. \A k \in DOMAIN x.avs : x.avs[k] = [a |-> x.avs[k].a, v |-> x.avs[k].v]
  BY <1>2, ItemAssumption
<1> HIDE DEF x
<1>4. \A y : <<y>> \in Claims(<<"item", i>>) <=> y = x.id /\ y # 0
  BY <1>1
<1>5. ASSUME NEW a, NEW v, <<a, v>> \in Claims(<<"item", i>>)
      PROVE  a \in Ident /\ \E k \in DOMAIN x.avs : x.avs[k] = [a |-> a, v |-> v]
  <2>1. PICK k \in DOMAIN x.avs : x.avs[k].a \in Ident /\ <<a, v>> = <<x.avs[k].a, x.avs[k].v>>
    BY <1>1, <1>5
  <2> QED  BY <1>3, <2>1
<1>6. ASSUME NEW a \in Ident, NEW v, NEW k \in DOMAIN x.avs, x.avs[k] = [a |-> a, v |-> v]
      PROVE  <<a, v>> \in Claims(<<"item", i>>)
  BY <1>1, <1>6
<1>7. \A c \in Claims(<<"item", i>>) : (\E y : c = <<y>>) \/ (\E a, v : c = <<a, v>>)
  BY <1>1
<1> QED  BY <1>4, <1>5, <1>6, <1>7 DEF x

LEMMA TempidClaims == ASSUME NEW t PROVE Claims(<<"tempid", t>>) = {<<t>>}
BY DEF Claims

LEMMA EntityClaims ==
    ASSUME NEW e
    PROVE  /\ \A y : <<y>> \in Claims(<<"entity", e>>) <=> y = e
           /\ \A a, v : <<a, v>> \in Claims(<<"entity", e>>) <=>
                a \in Ident /\ \E d \in before.datoms : d.e = e /\ d.a = a /\ d.v = v
           /\ \A c \in Claims(<<"entity", e>>) : (\E y : c = <<y>>) \/ (\E a, v : c = <<a, v>>)
<1>1. Claims(<<"entity", e>>) =
        {<<e>>} \cup {<<d.a, d.v>> : d \in {y \in before.datoms : y.a \in Ident /\ y.e = e}}
  BY DEF Claims
<1> QED  BY <1>1

\* Being kin is an equivalence, and those who share a claim are.
LEMMA KinSame == ASSUME NEW n PROVE Kin(n, n)
BY DEF Kin

LEMMA KinOver == ASSUME NEW m, NEW k, NEW n, Kin(m, k), Kin(k, n) PROVE Kin(m, n)
BY DEF Kin

LEMMA KinBack == ASSUME NEW m \in Everyone, NEW n \in Everyone, Kin(m, n) PROVE Kin(n, m)
<1> SUFFICES ASSUME NEW S \in SUBSET Everyone, Apart(S), n \in S, m \notin S PROVE FALSE
  BY DEF Kin
<1>1. Apart(Everyone \ S)
  BY DEF Apart
<1> QED  BY <1>1 DEF Kin

LEMMA KinClaim ==
    ASSUME NEW m \in Everyone, NEW n \in Everyone, NEW c, c \in Claims(m), c \in Claims(n)
    PROVE  Kin(m, n)
BY DEF Kin, Apart

LEMMA KinFixed ==
    ASSUME UNCHANGED <<input, before>>
    PROVE  /\ Everyone' = Everyone
           /\ \A n : Claims(n)' = Claims(n)
           /\ \A m, n : Kin(m, n)' <=> Kin(m, n)
<1>1. Everyone' = Everyone
  BY DEF Everyone
<1>2. \A n : Claims(n)' = Claims(n)
  BY DEF Claims
<1>3. \A S : Apart(S)' <=> Apart(S)
  BY <1>1, <1>2 DEF Apart
<1> QED  BY <1>1, <1>2, <1>3 DEF Kin

-------------------------------------------------------------------------------
(* The entity that a node has been placed at so far.                           *)

PlacedAt(n, e) ==
    \/ \E i \in 1..next - 1 : n = <<"item", i>> /\ e = ids[i]
    \/ \E t \in Tempid : n = <<"tempid", t>> /\ e = tempids[t] /\ e # 0
    \/ \E d \in before.datoms : n = <<"entity", d.e>> /\ e = d.e

\* Nodes are placed at one entity only if they are kin, unless an id was given
\* out twice.
Kindred ==
    ~reused => \A m, n \in Everyone : \A e : PlacedAt(m, e) /\ PlacedAt(n, e) => Kin(m, n)

\* A node that is placed at an entity there was is kin of one that says its id.
Grounded ==
    \A n \in Everyone : \A e : PlacedAt(n, e) /\ e <= before.maxEid =>
        \E k \in Everyone : <<e>> \in Claims(k) /\ Kin(n, k)

\* Items and entities are at ids that were given out.
Within ==
    /\ before.maxEid <= after.maxEid
    /\ \A i \in 1..next - 1 : ids[i] <= after.maxEid

\* An identity in the database was claimed by a node placed at its entity.
Told ==
    \A d \in after.datoms : d.a \in Ident =>
        \E n \in Everyone : PlacedAt(n, d.e) /\ <<d.a, d.v>> \in Claims(n)

\* The assertions that are left are those of the last item, and no other entity
\* has an identity among them, unless the item says by its id which it is.
OpsOf ==
    \A k \in DOMAIN ops :
        /\ next > 1 /\ ops[k].e = ids[next - 1]
        /\ ops[k].a \in Ident =>
             /\ <<ops[k].a, ops[k].v>> \in Claims(<<"item", next - 1>>)
             /\ input[next - 1].map \/ input[next - 1].id < 0 =>
                  \A d \in after.datoms : d.a = ops[k].a /\ d.v = ops[k].v => d.e = ops[k].e

\* What a retry keeps.
Retained ==
    /\ \A t \in Tempid : initial[t] # 0 => tempids[t] = initial[t]
    /\ ~carried => \A t \in Tempid : initial[t] <= before.maxEid

KinInv == Kindred /\ Grounded /\ Within /\ Told /\ OpsOf /\ Retained
          /\ (outcome = "ok" => next > Len(input))

LEMMA PlacedTyped ==
    ASSUME IInv, NEW n, NEW e, PlacedAt(n, e)
    PROVE  e \in Nat \ {0} /\ n \in Everyone
<1>1. before \in Before /\ next \in 1..Len(input) + 1 /\ input \in Seq(Items)
      /\ ids \in [1..next - 1 -> Nat \ {0}] /\ tempids \in [Tempid -> Nat]
  BY DEF IInv, TypeOK
<1>2. ASSUME NEW i \in 1..next - 1, n = <<"item", i>>, e = ids[i] PROVE e \in Nat \ {0} /\ n \in Everyone
  <2>1. i \in DOMAIN input
    BY <1>1
  <2> QED  BY <1>1, <1>2, <2>1, EveryoneIs
<1>3. ASSUME NEW t \in Tempid, n = <<"tempid", t>>, e = tempids[t], e # 0
      PROVE  e \in Nat \ {0} /\ n \in Everyone
  BY <1>1, <1>3, EveryoneIs
<1>4. ASSUME NEW d \in before.datoms, n = <<"entity", d.e>>, e = d.e
      PROVE  e \in Nat \ {0} /\ n \in Everyone
  <2>1. d.e \in 1..before.maxEid /\ before.maxEid \in Nat
    BY <1>1, BeforeAssumption
  <2> QED  BY <1>4, <2>1, EveryoneIs
<1> QED  BY <1>2, <1>3, <1>4 DEF PlacedAt

\* Placing kin of x at e, where x is kin of all who are there.
LEMMA PlaceMore ==
    ASSUME UNCHANGED <<input, before>>, Kindred, Grounded, reused => reused',
           NEW x \in Everyone, NEW e, NEW New \in SUBSET Everyone, \A n \in New : Kin(n, x),
           \A n \in Everyone : \A f : PlacedAt(n, f)' => PlacedAt(n, f) \/ (n \in New /\ f = e),
           ~reused' => \A m \in Everyone : PlacedAt(m, e) => Kin(x, m),
           e <= before.maxEid => \E k \in Everyone : <<e>> \in Claims(k) /\ Kin(x, k)
    PROVE  Kindred' /\ Grounded'
<1>1. /\ Everyone' = Everyone /\ before' = before
      /\ \A n : Claims(n)' = Claims(n)
      /\ \A m, n : Kin(m, n)' <=> Kin(m, n)
  BY KinFixed
<1>2. ASSUME ~reused', NEW m \in Everyone, NEW n \in Everyone, NEW f, PlacedAt(m, f)', PlacedAt(n, f)'
      PROVE  Kin(m, n)
  <2>1. CASE PlacedAt(m, f) /\ PlacedAt(n, f)
    BY <1>2, <2>1 DEF Kindred
  <2>2. CASE m \in New /\ f = e /\ PlacedAt(n, f)
    BY <1>2, <2>2, KinOver
  <2>3. CASE n \in New /\ f = e /\ PlacedAt(m, f)
    <3>1. Kin(n, x) /\ Kin(x, m)
      BY <1>2, <2>3
    <3> QED  BY <3>1, KinOver, KinBack
  <2>4. CASE m \in New /\ n \in New
    BY <2>4, KinOver, KinBack
  <2> QED  BY <1>2, <2>1, <2>2, <2>3, <2>4
<1>3. ASSUME NEW n \in Everyone, NEW f, PlacedAt(n, f)', f <= before.maxEid
      PROVE  \E k \in Everyone : <<f>> \in Claims(k) /\ Kin(n, k)
  <2>1. CASE PlacedAt(n, f)
    BY <1>3, <2>1 DEF Grounded
  <2>2. CASE n \in New /\ f = e
    BY <1>3, <2>2, KinOver
  <2> QED  BY <1>3, <2>1, <2>2
<1>4. Kindred'
  BY <1>1, <1>2 DEF Kindred
<1>5. Grounded'
  BY <1>1, <1>3 DEF Grounded
<1> QED  BY <1>4, <1>5

LEMMA InitKin == ASSUME Init PROVE KinInv
<1>1. /\ before \in Before /\ after = before /\ next = 1 /\ ops = <<>> /\ ids = <<>>
      /\ outcome = "open" /\ tempids = [t \in Tempid |-> 0] /\ initial = tempids /\ IInv
  BY InitInv DEF Init
<1>2. before.maxEid \in Nat
  BY <1>1, BeforeAssumption
<1>3. ASSUME NEW n \in Everyone, NEW e, PlacedAt(n, e)
      PROVE  n = <<"entity", e>> /\ <<e>> \in Claims(n)
  <2>1. n = <<"entity", e>>
    BY <1>1, <1>3 DEF PlacedAt
  <2> QED  BY <2>1, EntityClaims
<1>4. Kindred /\ Grounded
  BY <1>3, KinSame DEF Kindred, Grounded
<1>5. Within /\ OpsOf /\ Retained
  BY <1>1, <1>2 DEF Within, OpsOf, Retained
<1>6. Told
  <2> SUFFICES ASSUME NEW d \in before.datoms, d.a \in Ident
               PROVE  \E n \in Everyone : PlacedAt(n, d.e) /\ <<d.a, d.v>> \in Claims(n)
    BY <1>1 DEF Told
  <2>1. <<"entity", d.e>> \in Everyone /\ PlacedAt(<<"entity", d.e>>, d.e)
    BY EveryoneIs DEF PlacedAt
  <2>2. <<d.a, d.v>> \in Claims(<<"entity", d.e>>)
    BY EntityClaims
  <2> QED  BY <2>1, <2>2
<1> QED  BY <1>1, <1>4, <1>5, <1>6 DEF KinInv

-------------------------------------------------------------------------------
(* An item is met.                                                             *)

Node == <<"item", next>>

LEMMA NodeTyped ==
    ASSUME IInv, AtItem
    PROVE  /\ next \in DOMAIN input /\ Item = input[next] /\ Node \in Everyone
           /\ \A y : <<y>> \in Claims(Node) <=> y = Item.id /\ y # 0
<1>1. next \in DOMAIN input
  BY ItemTyped DEF IInv, TypeOK
<1>2. Node \in Everyone /\ Item = input[next]
  BY <1>1, EveryoneIs DEF Node, Item
<1> QED  BY <1>1, <1>2, ItemClaims DEF Node

\* Upserted has the entities in the database with an identity that the item claims.
LEMMA UpsertedIs ==
    ASSUME IInv, AtItem
    PROVE  /\ \A e \in Upserted(Item) :
                \E d \in after.datoms : d.e = e /\ d.a \in Ident /\ <<d.a, d.v>> \in Claims(Node)
           /\ Item.map \/ Item.id < 0 =>
                \A d \in after.datoms :
                  d.a \in Ident /\ <<d.a, d.v>> \in Claims(Node) => d.e \in Upserted(Item)
<1>1. \A a, v : <<a, v>> \in Claims(Node) <=>
        a \in Ident /\ \E k \in DOMAIN Item.avs : Item.avs[k] = [a |-> a, v |-> v]
  <2>1. next \in DOMAIN input /\ Item = input[next]
    BY NodeTyped
  <2>2. \A a, v : <<a, v>> \in Claims(<<"item", next>>) <=>
          a \in Ident /\ \E k \in DOMAIN input[next].avs : input[next].avs[k] = [a |-> a, v |-> v]
    BY <2>1, ItemClaims
  <2> QED  BY <2>1, <2>2 DEF Node
<1>2. ASSUME NEW e \in Upserted(Item)
      PROVE  \E d \in after.datoms : d.e = e /\ d.a \in Ident /\ <<d.a, d.v>> \in Claims(Node)
  <2>1. PICK d \in after.datoms : /\ d.e = e /\ d.a \in Ident
                                  /\ \E k \in DOMAIN Item.avs : Item.avs[k] = [a |-> d.a, v |-> d.v]
    BY <1>2 DEF Upserted
  <2> QED  BY <1>1, <2>1
<1>3. ASSUME Item.map \/ Item.id < 0, NEW d \in after.datoms, d.a \in Ident, <<d.a, d.v>> \in Claims(Node)
      PROVE  d.e \in Upserted(Item)
  <2>1. \E k \in DOMAIN Item.avs : Item.avs[k] = [a |-> d.a, v |-> d.v]
    BY <1>1, <1>3
  <2> QED  BY <1>3, <2>1 DEF Upserted
<1> QED  BY <1>2, <1>3

\* The entity of the item joins those before it.
LEMMA ExplodePlaced ==
    ASSUME IInv, AtItem, NEW e \in Nat \ {0}, Explode(e),
           Item.id < 0 /\ tempids[Item.id] # 0 => e = tempids[Item.id]
    PROVE  /\ next' = next + 1 /\ ids'[next] = e /\ \A i \in 1..next - 1 : ids'[i] = ids[i]
           /\ \A n, f : PlacedAt(n, f) => PlacedAt(n, f)'
           /\ \A n, f : PlacedAt(n, f)' =>
                \/ PlacedAt(n, f)
                \/ f = e /\ n \in {Node, <<"tempid", Item.id>>} /\ (n # Node => Item.id \in Tempid)
<1>1. /\ UNCHANGED <<before, input>> /\ next' = next + 1 /\ ids' = Append(ids, e)
      /\ tempids' = IF Item.id < 0 THEN [tempids EXCEPT ![Item.id] = e] ELSE tempids
  BY DEF Explode
<1>2. /\ tempids \in [Tempid -> Nat] /\ ids \in [1..next - 1 -> Nat \ {0}] /\ next \in Nat \ {0}
      /\ Item.id < 0 => Item.id \in Tempid
  BY ItemTyped DEF IInv, TypeOK
<1>3. ids'[next] = e /\ \A i \in 1..next - 1 : ids'[i] = ids[i]
  <2>1. next - 1 \in Nat
    BY <1>2
  <2>2. ids \in Seq(Nat \ {0}) /\ Len(ids) = next - 1
    BY <1>2, <2>1
  <2> QED  BY <1>1, <1>2, <2>1, <2>2
<1>4. \A i : i \in 1..next' - 1 <=> i \in 1..next - 1 \/ i = next
  BY <1>1, <1>2
<1>5. \A t \in Tempid : tempids'[t] = IF t = Item.id THEN IF Item.id < 0 THEN e ELSE tempids[t] ELSE tempids[t]
  BY <1>1, <1>2
<1>6. \A t \in Tempid : tempids[t] # 0 => tempids'[t] = tempids[t]
  BY <1>5
<1>7. ASSUME NEW n, NEW f, PlacedAt(n, f) PROVE PlacedAt(n, f)'
  <2>1. ASSUME NEW i \in 1..next - 1, n = <<"item", i>>, f = ids[i] PROVE PlacedAt(n, f)'
    <3>1. i \in 1..next' - 1 /\ f = ids'[i]
      BY <1>3, <1>4, <2>1
    <3> QED  BY <2>1, <3>1 DEF PlacedAt
  <2>2. ASSUME NEW t \in Tempid, n = <<"tempid", t>>, f = tempids[t], f # 0 PROVE PlacedAt(n, f)'
    <3>1. f = tempids'[t]
      BY <1>6, <2>2
    <3> QED  BY <2>2, <3>1 DEF PlacedAt
  <2>3. ASSUME NEW d \in before.datoms, n = <<"entity", d.e>>, f = d.e PROVE PlacedAt(n, f)'
    BY <1>1, <2>3 DEF PlacedAt
  <2> QED  BY <1>7, <2>1, <2>2, <2>3 DEF PlacedAt
<1>8. ASSUME NEW n, NEW f, PlacedAt(n, f)'
      PROVE  \/ PlacedAt(n, f)
             \/ f = e /\ n \in {Node, <<"tempid", Item.id>>} /\ (n # Node => Item.id \in Tempid)
  <2>1. ASSUME NEW i \in 1..next' - 1, n = <<"item", i>>, f = ids'[i]
        PROVE  PlacedAt(n, f) \/ (n = Node /\ f = e)
    <3>1. CASE i = next
      BY <1>3, <2>1, <3>1 DEF Node
    <3>2. CASE i \in 1..next - 1
      BY <1>3, <2>1, <3>2 DEF PlacedAt
    <3> QED  BY <1>4, <2>1, <3>1, <3>2
  <2>2. ASSUME NEW t \in Tempid, n = <<"tempid", t>>, f = tempids'[t], f # 0
        PROVE  PlacedAt(n, f) \/ (f = e /\ n = <<"tempid", Item.id>> /\ Item.id \in Tempid)
    <3>1. CASE t = Item.id /\ Item.id < 0
      BY <1>5, <2>2, <3>1
    <3>2. CASE ~(t = Item.id /\ Item.id < 0)
      BY <1>5, <2>2, <3>2 DEF PlacedAt
    <3> QED  BY <3>1, <3>2
  <2>3. ASSUME NEW d \in before.datoms, n = <<"entity", d.e>>, f = d.e PROVE PlacedAt(n, f)
    BY <2>3 DEF PlacedAt
  <2> QED  BY <1>1, <1>8, <2>1, <2>2, <2>3 DEF PlacedAt
<1> QED  BY <1>1, <1>3, <1>7, <1>8

\* The item keeps the invariant if it is kin of all who are at its entity, and no
\* other entity has an identity that it claims.
LEMMA ExplodeKin ==
    ASSUME IInv, KinInv, AtItem, NEW e \in Nat \ {0}, Explode(e),
           after' = AdvanceMaxEid(after, e), reused => reused',
           Item.id < 0 /\ tempids[Item.id] # 0 => e = tempids[Item.id],
           ~reused' => \A m \in Everyone : PlacedAt(m, e) => Kin(Node, m),
           e <= before.maxEid => \E k \in Everyone : <<e>> \in Claims(k) /\ Kin(Node, k),
           Item.map \/ Item.id < 0 =>
             \A d \in after.datoms : d.a \in Ident /\ <<d.a, d.v>> \in Claims(Node) => d.e = e
    PROVE  KinInv'
<1>1. /\ UNCHANGED <<before, input, initial, outcome, carried>>
      /\ tempids' = IF Item.id < 0 THEN [tempids EXCEPT ![Item.id] = e] ELSE tempids
      /\ ops' = [k \in DOMAIN Item.avs |-> Datom(e, Item.avs[k].a, Item.avs[k].v)]
  BY DEF Explode
<1>2. /\ tempids \in [Tempid -> Nat] /\ after.maxEid \in Nat /\ before.maxEid \in Nat
      /\ ids \in [1..next - 1 -> Nat \ {0}]
      /\ next \in Nat \ {0} /\ (Item.id < 0 => Item.id \in Tempid) /\ IsValue(after)
  BY ItemTyped, BeforeAssumption DEF IInv, TypeOK
<1>3. after'.datoms = after.datoms /\ after'.maxEid = IF e > after.maxEid THEN e ELSE after.maxEid
  BY <1>2 DEF IsValue, AdvanceMaxEid
<1>4. /\ Everyone' = Everyone
      /\ \A n : Claims(n)' = Claims(n)
  BY <1>1, KinFixed
<1>5. Kindred' /\ Grounded'
  <2> DEFINE New == {Node} \cup {n \in {<<"tempid", Item.id>>} : Item.id \in Tempid}
  <2>1. \A n \in New : n \in Everyone /\ Kin(n, Node)
    <3>1. Node \in Everyone /\ Kin(Node, Node)
      BY NodeTyped, KinSame
    <3>2. ASSUME Item.id \in Tempid PROVE <<"tempid", Item.id>> \in Everyone /\ Kin(<<"tempid", Item.id>>, Node)
      <4>1. <<Item.id>> \in Claims(Node)
        BY <3>2, NodeTyped, TempidAssumption
      <4>2. <<"tempid", Item.id>> \in Everyone /\ <<Item.id>> \in Claims(<<"tempid", Item.id>>)
        BY <3>2, EveryoneIs, TempidClaims
      <4> QED  BY <3>1, <4>1, <4>2, KinClaim
    <3> QED  BY <3>1, <3>2
  <2>2. \A n \in Everyone : \A f : PlacedAt(n, f)' => PlacedAt(n, f) \/ (n \in New /\ f = e)
    BY ExplodePlaced
  <2> HIDE DEF New
  <2>3. Node \in Everyone /\ New \in SUBSET Everyone
    BY <2>1, NodeTyped
  <2> QED  BY <1>1, <2>1, <2>2, <2>3, PlaceMore DEF KinInv
<1>6. Within'
  <2>1. next' = next + 1 /\ ids'[next] = e /\ \A i \in 1..next - 1 : ids'[i] = ids[i]
    BY ExplodePlaced
  <2>2. ASSUME NEW i \in 1..next PROVE ids'[i] <= after'.maxEid
    <3>1. CASE i = next
      BY <1>2, <1>3, <2>1, <3>1
    <3>2. CASE i \in 1..next - 1
      BY <1>2, <1>3, <2>1, <3>2 DEF KinInv, Within
    <3> QED  BY <1>2, <3>1, <3>2
  <2> QED  BY <1>1, <1>2, <1>3, <2>1, <2>2 DEF KinInv, Within
<1>7. Told'
  <2>1. \A n, f : PlacedAt(n, f) => PlacedAt(n, f)'
    BY ExplodePlaced
  <2> QED  BY <1>3, <1>4, <2>1 DEF KinInv, Told
<1>8. OpsOf'
  <2>1. next' = next + 1 /\ next' - 1 = next /\ ids'[next] = e /\ next' > 1
    BY <1>2, ExplodePlaced
  <2>2. ASSUME NEW k \in DOMAIN Item.avs
        PROVE  /\ ops'[k].e = e /\ ops'[k].a = Item.avs[k].a /\ ops'[k].v = Item.avs[k].v
               /\ Item.avs[k] = [a |-> Item.avs[k].a, v |-> Item.avs[k].v]
    BY <1>1, ItemTyped, ItemAssumption DEF Datom
  <2>3. ASSUME NEW k \in DOMAIN Item.avs, ops'[k].a \in Ident
        PROVE  <<ops'[k].a, ops'[k].v>> \in Claims(Node)
    BY <2>2, <2>3, NodeTyped, ItemClaims DEF Node
  <2>4. ASSUME NEW k \in DOMAIN ops'
        PROVE  /\ ops'[k].e = ids'[next]
               /\ ops'[k].a \in Ident =>
                    /\ <<ops'[k].a, ops'[k].v>> \in Claims(Node)
                    /\ input[next].map \/ input[next].id < 0 =>
                         \A d \in after'.datoms : d.a = ops'[k].a /\ d.v = ops'[k].v => d.e = ops'[k].e
    <3>1. k \in DOMAIN Item.avs /\ Item = input[next]
      BY <1>1, NodeTyped
    <3> QED  BY <1>3, <2>1, <2>2, <2>3, <3>1
  <2> QED  BY <1>1, <1>4, <2>1, <2>4 DEF OpsOf, Node
<1>9. Retained'
  <2>1. \A t \in Tempid : tempids[t] # 0 => tempids'[t] = tempids[t]
    BY <1>1, <1>2
  <2>2. \A t \in Tempid : initial[t] \in Nat
    BY DEF IInv, TypeOK
  <2> QED  BY <1>1, <2>1, <2>2 DEF KinInv, Retained
<1>10. outcome' # "ok"
  BY <1>1 DEF AtItem
<1> QED  BY <1>5, <1>6, <1>7, <1>8, <1>9, <1>10 DEF KinInv

LEMMA CreateKin == ASSUME IInv, KinInv, Create PROVE KinInv'
<1>1. AtItem /\ Fresh(Item) /\ Allocate /\ Explode(NextEid)
  BY DEF Create
<1>2. /\ after' = AdvanceMaxEid(after, NextEid) /\ (reused => reused')
      /\ ~reused' => \A t \in Tempid : tempids[t] # NextEid
  BY <1>1 DEF Allocate
<1>3. NextEid \in Nat \ {0} /\ NextEid > after.maxEid /\ before.maxEid \in Nat /\ after.maxEid \in Nat
  BY NewEid, BeforeAssumption DEF IInv, TypeOK
<1>4. before.maxEid <= after.maxEid
  BY DEF KinInv, Within
<1>5. ASSUME ~reused', NEW m, PlacedAt(m, NextEid) PROVE FALSE
  <2>1. ASSUME NEW i \in 1..next - 1, NextEid = ids[i] PROVE FALSE
    BY <1>3, <2>1 DEF KinInv, Within
  <2>2. ASSUME NEW d \in before.datoms, NextEid = d.e PROVE FALSE
    <3>1. d.e <= before.maxEid
      BY BeforeAssumption DEF IInv, TypeOK
    <3> QED  BY <1>3, <1>4, <2>2, <3>1
  <2> QED  BY <1>2, <1>5, <2>1, <2>2 DEF PlacedAt
<1>6. ~(NextEid <= before.maxEid)
  BY <1>3, <1>4
<1>7. Upserted(Item) = {} /\ (Item.id < 0 => tempids[Item.id] = 0)
  BY <1>1, ItemTyped DEF Fresh
<1> QED  BY <1>1, <1>2, <1>3, <1>5, <1>6, <1>7, UpsertedIs, ExplodeKin

LEMMA ResolveKin == ASSUME IInv, KinInv, Resolve PROVE KinInv'
<1> DEFINE e == Known(Item)
<1>1. /\ AtItem /\ ~Fresh(Item) /\ ~Conflicting(Item) /\ ~Misplaced(Item)
      /\ after' = AdvanceMaxEid(after, e) /\ Explode(e)
      /\ reused' = reused
  BY DEF Resolve
<1>2. /\ Item.id \in Int /\ (Item.id < 0 => Item.id \in Tempid) /\ tempids \in [Tempid -> Nat]
      /\ Node \in Everyone /\ (Item.id # 0 => <<Item.id>> \in Claims(Node))
  BY <1>1, ItemTyped, NodeTyped DEF IInv, TypeOK
\* A node that is placed at the entity, of which the item is kin.
<1>3. ASSUME NEW n \in Everyone, PlacedAt(n, e), Kin(Node, n)
      PROVE  /\ ~reused' => \A m \in Everyone : PlacedAt(m, e) => Kin(Node, m)
             /\ e <= before.maxEid => \E k \in Everyone : <<e>> \in Claims(k) /\ Kin(Node, k)
  <2>1. ASSUME ~reused', NEW m \in Everyone, PlacedAt(m, e) PROVE Kin(Node, m)
    <3>1. Kin(n, m)
      BY <1>1, <1>3, <2>1 DEF KinInv, Kindred
    <3> QED  BY <1>3, <3>1, KinOver
  <2>2. ASSUME e <= before.maxEid PROVE \E k \in Everyone : <<e>> \in Claims(k) /\ Kin(Node, k)
    <3>1. PICK k \in Everyone : <<e>> \in Claims(k) /\ Kin(n, k)
      BY <1>3, <2>2 DEF KinInv, Grounded
    <3> QED  BY <1>3, <3>1, KinOver
  <2> QED  BY <2>1, <2>2
<1>4. CASE Upserted(Item) # {}
  <2>1. e \in Upserted(Item) /\ \A f \in Upserted(Item) : f = e
    BY <1>1, <1>4 DEF Known, Conflicting
  <2>2. e \in Nat \ {0} /\ (Item.id < 0 /\ tempids[Item.id] # 0 => e = tempids[Item.id])
    BY <1>1, <2>1, UpsertedEntities DEF Misplaced
  <2>3. PICK d \in after.datoms : d.e = e /\ d.a \in Ident /\ <<d.a, d.v>> \in Claims(Node)
    BY <1>1, <2>1, UpsertedIs
  <2>4. PICK n \in Everyone : PlacedAt(n, e) /\ <<d.a, d.v>> \in Claims(n)
    BY <2>3 DEF KinInv, Told
  <2>5. Kin(Node, n)
    BY <1>2, <2>3, <2>4, KinClaim
  <2> HIDE DEF e
  <2>6. Item.map \/ Item.id < 0 =>
          \A c \in after.datoms : c.a \in Ident /\ <<c.a, c.v>> \in Claims(Node) => c.e = e
    BY <1>1, <2>1, UpsertedIs
  <2> QED  BY <1>1, <1>3, <2>2, <2>4, <2>5, <2>6, ExplodeKin
<1>5. CASE Upserted(Item) = {}
  <2>1. Item.id # 0 /\ (Item.id < 0 => tempids[Item.id] # 0)
    BY <1>1, <1>2, <1>5 DEF Fresh
  <2>2. e = IF Item.id < 0 THEN tempids[Item.id] ELSE Item.id
    BY <1>5 DEF Known
  <2>3. e \in Nat \ {0}
    BY <1>2, <2>1, <2>2
  <2>4. /\ ~reused' => \A m \in Everyone : PlacedAt(m, e) => Kin(Node, m)
        /\ e <= before.maxEid => \E k \in Everyone : <<e>> \in Claims(k) /\ Kin(Node, k)
    <3>1. CASE Item.id < 0
      <4> DEFINE n == <<"tempid", Item.id>>
      <4>1. n \in Everyone /\ PlacedAt(n, e)
        BY <1>2, <2>1, <2>2, <3>1, EveryoneIs DEF PlacedAt
      <4>2. <<Item.id>> \in Claims(n) /\ <<Item.id>> \in Claims(Node)
        BY <1>2, <2>1, TempidClaims
      <4>3. Kin(Node, n)
        BY <1>2, <4>1, <4>2, KinClaim
      <4> HIDE DEF e, n
      <4> QED  BY <1>3, <4>1, <4>3
    <3>2. CASE Item.id > 0
      <4>1. e = Item.id /\ <<e>> \in Claims(Node)
        BY <1>2, <2>1, <2>2, <3>2
      <4>2. e <= before.maxEid
        <5>1. Item \in Items /\ before \in Before
          BY <1>1, ItemTyped DEF IInv, TypeOK
        <5>2. Item.id \in Tempid \/ Item.id = 0 \/ Item.id \in 1..before.maxEid
          BY <5>1, ItemAssumption
        <5>3. before.maxEid \in Nat
          BY <5>1, BeforeAssumption
        <5>4. Item.id \notin Tempid /\ Item.id # 0
          BY <1>2, <3>2, TempidAssumption
        <5>5. Item.id \in 1..before.maxEid
          BY <5>2, <5>4
        <5> HIDE DEF e
        <5> QED  BY <4>1, <5>3, <5>5
      <4> HIDE DEF e
      <4>3. ASSUME NEW m \in Everyone, PlacedAt(m, e) PROVE Kin(Node, m)
        <5>1. PICK k \in Everyone : <<e>> \in Claims(k) /\ Kin(m, k)
          BY <4>2, <4>3 DEF KinInv, Grounded
        <5>2. Kin(Node, k) /\ Kin(k, m)
          BY <1>2, <4>1, <5>1, KinClaim, KinBack
        <5> QED  BY <5>2, KinOver
      <4>4. Kin(Node, Node)
        BY KinSame
      <4> QED  BY <1>2, <4>1, <4>3, <4>4
    <3> QED  BY <1>2, <2>1, <3>1, <3>2
  <2> HIDE DEF e
  <2>5. Item.id < 0 /\ tempids[Item.id] # 0 => e = tempids[Item.id]
    BY <2>2
  <2>6. Item.map \/ Item.id < 0 =>
          \A c \in after.datoms : c.a \in Ident /\ <<c.a, c.v>> \in Claims(Node) => c.e = e
    BY <1>1, <1>5, UpsertedIs
  <2> QED  BY <1>1, <2>3, <2>4, <2>5, <2>6, ExplodeKin
<1> QED  BY <1>4, <1>5

-------------------------------------------------------------------------------
(* The other steps.                                                            *)

LEMMA EndKin ==
    ASSUME KinInv, NEW o, End(o), o = "ok" => next > Len(input) PROVE KinInv'
<1>1. /\ UNCHANGED <<before, input, after, tempids, next, ops, initial, ids, carried, reused>>
      /\ outcome' = o
  BY DEF End
<1>2. /\ Everyone' = Everyone
      /\ \A n : Claims(n)' = Claims(n)
      /\ \A m, n : Kin(m, n)' <=> Kin(m, n)
  BY <1>1, KinFixed
<1>3. \A n, e : PlacedAt(n, e)' <=> PlacedAt(n, e)
  BY <1>1 DEF PlacedAt
<1>4. Kindred' /\ Grounded' /\ Told'
  BY <1>1, <1>2, <1>3 DEF KinInv, Kindred, Grounded, Told
<1>5. Within' /\ Retained'
  BY <1>1 DEF KinInv, Within, Retained
<1>6. OpsOf'
  BY <1>1, <1>2 DEF KinInv, OpsOf
<1> QED  BY <1>1, <1>4, <1>5, <1>6 DEF KinInv

LEMMA StutterKin == ASSUME KinInv, UNCHANGED vars PROVE KinInv'
<1>1. UNCHANGED <<before, input, after, tempids, next, ops, initial, outcome, ids, carried, reused>>
  BY DEF vars
<1>2. /\ Everyone' = Everyone
      /\ \A n : Claims(n)' = Claims(n)
      /\ \A m, n : Kin(m, n)' <=> Kin(m, n)
  BY <1>1, KinFixed
<1>3. \A n, e : PlacedAt(n, e)' <=> PlacedAt(n, e)
  BY <1>1 DEF PlacedAt
<1>4. Kindred' /\ Grounded' /\ Told'
  BY <1>1, <1>2, <1>3 DEF KinInv, Kindred, Grounded, Told
<1>5. Within' /\ Retained'
  BY <1>1 DEF KinInv, Within, Retained
<1>6. OpsOf'
  BY <1>1, <1>2 DEF KinInv, OpsOf
<1> QED  BY <1>1, <1>4, <1>5, <1>6 DEF KinInv

\* A retry: of the nodes that were placed the tempids and the entities are left,
\* and the tempid of the item joins those at the entity found.
LEMMA RetryKin == ASSUME IInv, KinInv, RetryWithTempid PROVE KinInv'
<1> DEFINE e == Known(Item)
           t == Item.id
           x == <<"tempid", t>>
           ts == [tempids EXCEPT ![t] = e]
<1>1. AtItem /\ ~Conflicting(Item) /\ Misplaced(Item) /\ initial[t] = 0 /\ Restart(ts)
  BY DEF RetryWithTempid
<1>2. /\ initial' = ts /\ tempids' = ts
      /\ after' = before /\ next' = 1 /\ ops' = <<>> /\ ids' = <<>>
      /\ carried' = (carried \/ \E u \in Tempid : ts[u] > before.maxEid)
      /\ UNCHANGED <<before, input, outcome, reused>>
  BY <1>1 DEF Restart
<1>3. /\ t \in Tempid /\ tempids \in [Tempid -> Nat] /\ before.maxEid \in Nat
      /\ Node \in Everyone /\ x \in Everyone /\ <<t>> \in Claims(Node) /\ <<t>> \in Claims(x)
  <2>1. t \in Tempid
    BY <1>1, ItemTyped DEF Misplaced
  <2> QED  BY <1>1, <2>1, NodeTyped, EveryoneIs, TempidClaims, TempidAssumption, BeforeAssumption
           DEF IInv, TypeOK
<1>4. e \in Upserted(Item) /\ e \in Nat \ {0}
  BY <1>1, UpsertedEntities DEF Known, Misplaced
<1>5. PICK n \in Everyone : PlacedAt(n, e) /\ Kin(x, n)
  <2>1. PICK d \in after.datoms : d.e = e /\ d.a \in Ident /\ <<d.a, d.v>> \in Claims(Node)
    BY <1>1, <1>4, UpsertedIs
  <2>2. PICK m \in Everyone : PlacedAt(m, e) /\ <<d.a, d.v>> \in Claims(m)
    BY <2>1 DEF KinInv, Told
  <2>3. Kin(x, Node) /\ Kin(Node, m)
    BY <1>3, <2>1, <2>2, KinClaim
  <2> QED  BY <2>2, <2>3, KinOver
<1> HIDE DEF e, t, x
<1>6. \A m, f : PlacedAt(m, f)' => PlacedAt(m, f) \/ (m = x /\ f = e)
  <2> SUFFICES ASSUME NEW m, NEW f, PlacedAt(m, f)' PROVE PlacedAt(m, f) \/ (m = x /\ f = e)
    OBVIOUS
  <2>1. ASSUME NEW u \in Tempid, m = <<"tempid", u>>, f = ts[u], f # 0
        PROVE  PlacedAt(m, f) \/ (m = x /\ f = e)
    <3>1. CASE u = t
      BY <1>3, <2>1, <3>1 DEF x
    <3>2. CASE u # t
      BY <1>3, <2>1, <3>2 DEF PlacedAt
    <3> QED  BY <3>1, <3>2
  <2>2. ASSUME NEW d \in before.datoms, m = <<"entity", d.e>>, f = d.e PROVE PlacedAt(m, f)
    BY <2>2 DEF PlacedAt
  <2>3. ~ \E i \in 1..next' - 1 : TRUE
    BY <1>2
  <2> QED  BY <1>2, <2>1, <2>2, <2>3 DEF PlacedAt
<1>7. Kindred' /\ Grounded'
  <2>1. ASSUME ~reused', NEW m \in Everyone, PlacedAt(m, e) PROVE Kin(x, m)
    <3>1. Kin(n, m)
      BY <1>2, <1>5, <2>1 DEF KinInv, Kindred
    <3> QED  BY <1>5, <3>1, KinOver
  <2>2. ASSUME e <= before.maxEid PROVE \E k \in Everyone : <<e>> \in Claims(k) /\ Kin(x, k)
    <3>1. PICK k \in Everyone : <<e>> \in Claims(k) /\ Kin(n, k)
      BY <1>5, <2>2 DEF KinInv, Grounded
    <3> QED  BY <1>5, <3>1, KinOver
  <2> DEFINE New == {x}
  <2>3. New \in SUBSET Everyone /\ \A m \in New : Kin(m, x)
    BY <1>3, KinSame
  <2>4. \A m \in Everyone : \A f : PlacedAt(m, f)' => PlacedAt(m, f) \/ (m \in New /\ f = e)
    BY <1>6
  <2> HIDE DEF New
  <2>5. UNCHANGED <<input, before>> /\ Kindred /\ Grounded /\ (reused => reused')
    BY <1>2 DEF KinInv
  <2> QED  BY <1>3, <2>1, <2>2, <2>3, <2>4, <2>5, PlaceMore
<1>8. Within' /\ OpsOf'
  BY <1>2, <1>3 DEF Within, OpsOf
<1>9. Told'
  <2>1. ASSUME NEW d \in before.datoms, d.a \in Ident
        PROVE  \E m \in Everyone : PlacedAt(m, d.e)' /\ <<d.a, d.v>> \in Claims(m)
    <3>1. <<"entity", d.e>> \in Everyone /\ PlacedAt(<<"entity", d.e>>, d.e)'
      BY <1>2, EveryoneIs DEF PlacedAt
    <3>2. <<d.a, d.v>> \in Claims(<<"entity", d.e>>)
      BY <2>1, EntityClaims
    <3> QED  BY <3>1, <3>2
  <2>2. Everyone' = Everyone /\ \A m : Claims(m)' = Claims(m)
    BY <1>2, KinFixed
  <2> QED  BY <1>2, <2>1, <2>2 DEF Told
<1>10. Retained'
  <2>1. ts \in [Tempid -> Nat]
    BY <1>3, <1>4
  <2> HIDE DEF ts
  <2>2. ASSUME ~carried', NEW u \in Tempid PROVE ts[u] <= before.maxEid
    <3>1. ts[u] \in Nat
      BY <2>1
    <3>2. ~(ts[u] > before.maxEid)
      BY <1>2, <2>2
    <3> QED  BY <1>3, <3>1, <3>2
  <2> QED  BY <1>2, <2>2 DEF Retained
<1>11. outcome' # "ok"
  BY <1>1, <1>2 DEF AtItem
<1> QED  BY <1>7, <1>8, <1>9, <1>10, <1>11 DEF KinInv

LEMMA ResolveValueKin == ASSUME IInv, KinInv, ResolveValue PROVE KinInv'
<1>1. /\ AtOp /\ OpenValue(Op)
      /\ ops' = [ops EXCEPT ![1].v = tempids[@]]
      /\ UNCHANGED <<before, input, after, tempids, next, initial, outcome, ids, carried, reused>>
  BY DEF ResolveValue
<1>2. /\ Everyone' = Everyone
      /\ \A n : Claims(n)' = Claims(n)
      /\ \A m, n : Kin(m, n)' <=> Kin(m, n)
  BY <1>1, KinFixed
<1>3. \A n, e : PlacedAt(n, e)' <=> PlacedAt(n, e)
  BY <1>1 DEF PlacedAt
<1>4. Kindred' /\ Grounded' /\ Told'
  BY <1>1, <1>2, <1>3 DEF KinInv, Kindred, Grounded, Told
<1>5. Within' /\ Retained'
  BY <1>1 DEF KinInv, Within, Retained
<1>6. ops' = [ops EXCEPT ![1] = [Op EXCEPT !.v = tempids[Op.v]]]
  BY <1>1, OpTyped
<1>7. /\ DOMAIN ops' = DOMAIN ops
      /\ \A k \in DOMAIN ops : ops'[k].e = ops[k].e /\ ops'[k].a = ops[k].a
      /\ \A k \in DOMAIN ops : ops[k].a \in Ident => ops'[k].v = ops[k].v
  <2>1. Op = ops[1] /\ Op \in Assertions /\ Op.a \notin Ident /\ ops \in Seq(Assertions)
    BY <1>1, OpTyped, SchemaAssumption DEF OpenValue
  <2> QED  BY <1>6, <2>1 DEF Assertions
<1>8. OpsOf'
  <2>1. ASSUME NEW k \in DOMAIN ops'
        PROVE  /\ next > 1 /\ ops'[k].e = ids[next - 1]
               /\ ops'[k].a \in Ident =>
                    /\ <<ops'[k].a, ops'[k].v>> \in Claims(<<"item", next - 1>>)
                    /\ input[next - 1].map \/ input[next - 1].id < 0 =>
                         \A d \in after.datoms : d.a = ops'[k].a /\ d.v = ops'[k].v => d.e = ops'[k].e
    <3>1. /\ k \in DOMAIN ops /\ ops'[k].e = ops[k].e /\ ops'[k].a = ops[k].a
          /\ ops[k].a \in Ident => ops'[k].v = ops[k].v
      BY <1>7
    <3> QED  BY <3>1 DEF KinInv, OpsOf
  <2> QED  BY <1>1, <1>2, <2>1 DEF OpsOf
<1> QED  BY <1>1, <1>4, <1>5, <1>8 DEF KinInv

LEMMA CreateValueKin == ASSUME IInv, KinInv, CreateValue PROVE KinInv'
<1> DEFINE t == Op.v
           x == <<"tempid", t>>
           e == NextEid
<1>1. /\ AtOp /\ OpenValue(Op) /\ tempids[t] = 0
      /\ after' = AdvanceMaxEid(after, e) /\ (reused => reused')
      /\ ~reused' => \A u \in Tempid : tempids[u] # e
      /\ tempids' = [tempids EXCEPT ![t] = e]
      /\ UNCHANGED <<before, input, next, ops, initial, outcome, ids, carried>>
  BY DEF CreateValue, Allocate
<1>2. /\ t \in Tempid /\ tempids \in [Tempid -> Nat] /\ x \in Everyone
      /\ e \in Nat \ {0} /\ e > after.maxEid /\ after.maxEid \in Nat /\ before.maxEid \in Nat
      /\ ids \in [1..next - 1 -> Nat \ {0}] /\ IsValue(after) /\ before.maxEid <= after.maxEid
      /\ \A i \in 1..next - 1 : ids[i] <= after.maxEid
  <2>1. t \in Tempid
    BY <1>1, OpTyped
  <2> QED  BY <2>1, EveryoneIs, NewEid, BeforeAssumption DEF IInv, TypeOK, KinInv, Within
<1> HIDE DEF t, x, e
<1>3. after'.datoms = after.datoms /\ after'.maxEid = e
  BY <1>1, <1>2 DEF IsValue, AdvanceMaxEid
<1>4. \A n, f : PlacedAt(n, f) => PlacedAt(n, f)'
  <2>1. \A u \in Tempid : tempids[u] # 0 => tempids'[u] = tempids[u]
    BY <1>1, <1>2
  <2> QED  BY <1>1, <2>1 DEF PlacedAt
<1>5. \A m, f : PlacedAt(m, f)' => PlacedAt(m, f) \/ (m = x /\ f = e)
  <2> SUFFICES ASSUME NEW m, NEW f, PlacedAt(m, f)' PROVE PlacedAt(m, f) \/ (m = x /\ f = e)
    OBVIOUS
  <2>1. ASSUME NEW u \in Tempid, m = <<"tempid", u>>, f = tempids'[u], f # 0
        PROVE  PlacedAt(m, f) \/ (m = x /\ f = e)
    <3>1. CASE u = t
      BY <1>1, <1>2, <2>1, <3>1 DEF x
    <3>2. CASE u # t
      BY <1>1, <1>2, <2>1, <3>2 DEF PlacedAt
    <3> QED  BY <3>1, <3>2
  <2>2. ASSUME NEW d \in before.datoms, m = <<"entity", d.e>>, f = d.e PROVE PlacedAt(m, f)
    BY <2>2 DEF PlacedAt
  <2>3. ASSUME NEW i \in 1..next - 1, m = <<"item", i>>, f = ids[i] PROVE PlacedAt(m, f)
    BY <2>3 DEF PlacedAt
  <2> QED  BY <1>1, <2>1, <2>2, <2>3 DEF PlacedAt
<1>6. ASSUME ~reused', NEW m, PlacedAt(m, e) PROVE FALSE
  <2>1. ASSUME NEW i \in 1..next - 1, e = ids[i] PROVE FALSE
    BY <1>2, <2>1
  <2>2. ASSUME NEW d \in before.datoms, e = d.e PROVE FALSE
    <3>1. d.e <= before.maxEid
      BY BeforeAssumption DEF IInv, TypeOK
    <3> QED  BY <1>2, <2>2, <3>1
  <2> QED  BY <1>1, <1>6, <2>1, <2>2 DEF PlacedAt
<1>7. Kindred' /\ Grounded'
  <2>1. ~(e <= before.maxEid)
    BY <1>2
  <2> DEFINE New == {x}
  <2>2. New \in SUBSET Everyone /\ \A m \in New : Kin(m, x)
    BY <1>2, KinSame
  <2>3. \A m \in Everyone : \A f : PlacedAt(m, f)' => PlacedAt(m, f) \/ (m \in New /\ f = e)
    BY <1>5
  <2> HIDE DEF New
  <2>4. UNCHANGED <<input, before>> /\ Kindred /\ Grounded /\ (reused => reused')
    BY <1>1 DEF KinInv
  <2>5. ~reused' => \A m \in Everyone : PlacedAt(m, e) => Kin(x, m)
    BY <1>6
  <2>6. e <= before.maxEid => \E k \in Everyone : <<e>> \in Claims(k) /\ Kin(x, k)
    BY <2>1
  <2>7. x \in Everyone
    BY <1>2
  <2> QED  BY <2>2, <2>3, <2>4, <2>5, <2>6, <2>7, PlaceMore
<1>8. Within'
  BY <1>1, <1>2, <1>3 DEF Within
<1>9. Everyone' = Everyone /\ \A n : Claims(n)' = Claims(n)
  BY <1>1, KinFixed
<1>10. Told' /\ OpsOf'
  BY <1>1, <1>3, <1>4, <1>9 DEF KinInv, Told, OpsOf
<1>11. Retained'
  BY <1>1, <1>2 DEF KinInv, Retained
<1>12. outcome' # "ok"
  BY <1>1 DEF AtOp
<1> QED  BY <1>7, <1>8, <1>10, <1>11, <1>12 DEF KinInv

LEMMA AddKin == ASSUME IInv, KinInv, Add PROVE KinInv'
<1> DEFINE replaced == {d \in after.datoms : ~(d.e = Op.e /\ d.a = Op.a)} \cup {Op}
<1>1. /\ AtOp
      /\ after' = AdvanceMaxEid([after EXCEPT !.datoms = replaced], Op.e)
      /\ ops' = Tail(ops)
      /\ UNCHANGED <<before, input, tempids, next, initial, outcome, ids, carried, reused>>
  BY DEF Add
<1>2. after'.datoms = replaced /\ after'.maxEid = after.maxEid
  <2>1. Op.e \in 1..after.maxEid /\ after.maxEid \in Nat /\ IsValue(after)
    BY <1>1, OpTyped DEF IInv, TypeOK
  <2>2. Op.e \in Int /\ Op.e <= after.maxEid
    BY <2>1
  <2> HIDE DEF replaced
  <2>3. after' = [datoms |-> replaced, maxEid |-> after.maxEid]
    BY <1>1, <2>1, <2>2, OtherDatoms
  <2> QED  BY <2>3
<1>3. /\ Everyone' = Everyone
      /\ \A n : Claims(n)' = Claims(n)
      /\ \A m, n : Kin(m, n)' <=> Kin(m, n)
  BY <1>1, KinFixed
<1>4. \A n, e : PlacedAt(n, e)' <=> PlacedAt(n, e)
  BY <1>1 DEF PlacedAt
<1>5. Op = ops[1] /\ 1 \in DOMAIN ops /\ \A k \in DOMAIN ops' : k + 1 \in DOMAIN ops /\ ops'[k] = ops[k + 1]
  BY <1>1, OpTyped
<1>6. /\ next > 1 /\ Op.e = ids[next - 1]
      /\ Op.a \in Ident => <<Op.a, Op.v>> \in Claims(<<"item", next - 1>>)
  BY <1>5 DEF KinInv, OpsOf
<1>7. Kindred' /\ Grounded'
  BY <1>1, <1>3, <1>4 DEF KinInv, Kindred, Grounded
<1>8. Within' /\ Retained'
  BY <1>1, <1>2 DEF KinInv, Within, Retained
<1>9. Told'
  <2>1. ASSUME NEW d \in replaced, d.a \in Ident
        PROVE  \E n \in Everyone : PlacedAt(n, d.e) /\ <<d.a, d.v>> \in Claims(n)
    <3>1. CASE d \in after.datoms
      BY <2>1, <3>1 DEF KinInv, Told
    <3>2. CASE d = Op
      <4>1. next - 1 \in 1..next - 1 /\ next - 1 \in DOMAIN input
        BY <1>6 DEF IInv, TypeOK
      <4>2. PlacedAt(<<"item", next - 1>>, Op.e) /\ <<"item", next - 1>> \in Everyone
        BY <1>6, <4>1, EveryoneIs DEF PlacedAt
      <4> QED  BY <1>6, <2>1, <3>2, <4>2
    <3> QED  BY <2>1, <3>1, <3>2
  <2> HIDE DEF replaced
  <2> QED  BY <1>2, <1>3, <1>4, <2>1 DEF Told
<1>10. OpsOf'
  <2>1. ASSUME NEW k \in DOMAIN ops'
        PROVE  /\ next > 1 /\ ops'[k].e = ids[next - 1]
               /\ ops'[k].a \in Ident =>
                    /\ <<ops'[k].a, ops'[k].v>> \in Claims(<<"item", next - 1>>)
                    /\ input[next - 1].map \/ input[next - 1].id < 0 =>
                         \A d \in replaced : d.a = ops'[k].a /\ d.v = ops'[k].v => d.e = ops'[k].e
    BY <1>5, <1>6 DEF KinInv, OpsOf
  <2> HIDE DEF replaced
  <2> QED  BY <1>1, <1>2, <1>3, <2>1 DEF OpsOf
<1>11. outcome' # "ok"
  BY <1>1 DEF AtOp
<1> QED  BY <1>7, <1>8, <1>9, <1>10, <1>11 DEF KinInv

LEMMA KinStep == IInv /\ KinInv /\ [Next]_vars => KinInv'
<1> SUFFICES ASSUME IInv, KinInv, [Next]_vars PROVE KinInv'
  OBVIOUS
<1>1. ASSUME RaiseUpsert \/ RaiseRetry \/ RaiseUnique \/ Finish PROVE KinInv'
  BY <1>1, EndKin DEF RaiseUpsert, RaiseRetry, RaiseUnique, Finish
<1> QED  BY <1>1, StutterKin, CreateKin, ResolveKin, RetryKin, ResolveValueKin, CreateValueKin, AddKin DEF Next

-------------------------------------------------------------------------------
(* What the claims make one entity, among the nodes.                           *)

LEMMA NodesIs ==
    /\ Nodes \subseteq Everyone
    /\ \A i \in DOMAIN input : <<"item", i>> \in Nodes
    /\ \A t \in Tempid : <<"tempid", t>> \in Nodes <=> tempids[t] # 0
    /\ \A d \in before.datoms : <<"entity", d.e>> \in Nodes
BY DEF Nodes, Everyone

\* Who shares a claim with a node of a closed set is in it.
LEMMA ClosedOver ==
    ASSUME NEW S \in Closed, NEW m \in S, NEW n \in Nodes, NEW c, c \in Claims(m), c \in Claims(n)
    PROVE  n \in S
<1> DEFINE Tied == {{k \in Nodes : y \in Claims(k)} : y \in UNION {Claims(k) : k \in Nodes}}
           G == {k \in Nodes : c \in Claims(k)}
<1>1. S \in SUBSET Nodes /\ \A F \in Tied : (\E k \in F : F # {k}) => F \subseteq S \/ F \cap S = {}
  BY DEF Closed
<1>2. G \in Tied
  OBVIOUS
<1>3. m \in G /\ n \in G
  BY <1>1
<1> HIDE DEF Tied, G
<1> QED  BY <1>1, <1>2, <1>3

\* A closed set is apart, with the tempids that it speaks of and that have no id.
LEMMA ClosedApart ==
    ASSUME NEW S \in Closed
    PROVE  Apart(S \cup {n \in Everyone \ Nodes : \E k \in S : Claims(k) \cap Claims(n) # {}})
<1> DEFINE More == {n \in Everyone \ Nodes : \E k \in S : Claims(k) \cap Claims(n) # {}}
<1>1. S \subseteq Nodes
  BY DEF Closed
<1>2. ASSUME NEW n \in Everyone \ Nodes PROVE \E t \in Tempid : n = <<"tempid", t>> /\ Claims(n) = {<<t>>}
  BY EveryoneIs, NodesIs, TempidClaims
<1> SUFFICES ASSUME NEW m \in S \cup More, NEW n \in Everyone \ (S \cup More),
                    NEW c, c \in Claims(m), c \in Claims(n)
             PROVE  FALSE
  BY DEF Apart
<1>3. CASE m \in S
  BY <1>3, ClosedOver
<1>4. CASE m \in More
  <2>1. PICK t \in Tempid : m = <<"tempid", t>> /\ Claims(m) = {<<t>>}
    BY <1>2, <1>4
  <2>2. PICK k \in S : c \in Claims(k)
    BY <1>4, <2>1
  <2> QED  BY <2>2, ClosedOver
<1> QED  BY <1>3, <1>4

LEMMA KinOne ==
    ASSUME NEW m \in Nodes, NEW n \in Nodes, Kin(m, n) PROVE One(m, n, Closed)
<1> SUFFICES ASSUME NEW S \in Closed, m \in S PROVE n \in S
  BY DEF One
<1> DEFINE More == {k \in Everyone \ Nodes : \E j \in S : Claims(j) \cap Claims(k) # {}}
<1>1. S \cup More \in SUBSET Everyone /\ m \in S \cup More
  BY NodesIs DEF Closed
<1>2. Apart(S \cup More)
  BY ClosedApart
<1>3. n \notin More
  OBVIOUS
<1> HIDE DEF More
<1>4. n \in S \cup More
  BY <1>1, <1>2 DEF Kin
<1> QED  BY <1>3, <1>4

-------------------------------------------------------------------------------
(* A transaction that went through.                                            *)

\* Each node is placed at its entity, and each of its claims is that of it.
LEMMA NodePlaced ==
    ASSUME IInv, next > Len(input), NEW n \in Nodes
    PROVE  PlacedAt(n, EntityOf(n))
<1>1. DOMAIN input = 1..next - 1
  BY DEF IInv, TypeOK
<1>2. CASE \E i \in DOMAIN input : n = <<"item", i>>
  BY <1>1, <1>2 DEF EntityOf, PlacedAt
<1>3. CASE \E t \in Tempid : n = <<"tempid", t>>
  BY <1>3, NodesIs DEF EntityOf, PlacedAt
<1>4. CASE \E d \in before.datoms : n = <<"entity", d.e>>
  BY <1>4 DEF EntityOf, PlacedAt
<1> QED  BY <1>2, <1>3, <1>4, EveryoneIs, NodesIs

LEMMA ClaimPlaced ==
    ASSUME IInv, IdentitiesKept, next > Len(input), NEW n \in Nodes
    PROVE  /\ \A y : <<y>> \in Claims(n) => EntityOf(n) = IF y > 0 THEN y ELSE tempids[y]
           /\ \A a, v : <<a, v>> \in Claims(n) =>
                a \in Ident /\ \E d \in after.datoms : d.e = EntityOf(n) /\ d.a = a /\ d.v = v
           /\ \A c \in Claims(n) : (\E y : c = <<y>>) \/ (\E a, v : c = <<a, v>>)
<1>1. DOMAIN input = 1..next - 1 /\ before \in Before /\ input \in Seq(Items)
  BY DEF IInv, TypeOK
<1>2. ASSUME NEW i \in DOMAIN input, n = <<"item", i>>
      PROVE  /\ \A y : <<y>> \in Claims(n) => EntityOf(n) = IF y > 0 THEN y ELSE tempids[y]
             /\ \A a, v : <<a, v>> \in Claims(n) =>
                  a \in Ident /\ \E d \in after.datoms : d.e = EntityOf(n) /\ d.a = a /\ d.v = v
             /\ \A c \in Claims(n) : (\E y : c = <<y>>) \/ (\E a, v : c = <<a, v>>)
  <2>1. EntityOf(n) = ids[i]
    BY <1>2 DEF EntityOf
  <2>2. input[i].id \in Int
    <3>1. input[i] \in Items /\ before.maxEid \in Nat
      BY BeforeAssumption DEF IInv, TypeOK
    <3>2. input[i].id \in Tempid \/ input[i].id = 0 \/ input[i].id \in 1..before.maxEid
      BY <1>1, <3>1, ItemAssumption
    <3>3. input[i].id \in Tempid => input[i].id \in Int
      BY TempidAssumption
    <3> QED  BY <3>1, <3>2, <3>3
  <2>3. ASSUME NEW y, <<y>> \in Claims(n) PROVE EntityOf(n) = IF y > 0 THEN y ELSE tempids[y]
    <3>1. y = input[i].id /\ y # 0
      BY <1>2, <2>3, ItemClaims
    <3> QED  BY <1>1, <2>1, <2>2, <3>1 DEF IInv, ItemsPlaced
  <2>4. ASSUME NEW a, NEW v, <<a, v>> \in Claims(n)
        PROVE  a \in Ident /\ \E d \in after.datoms : d.e = EntityOf(n) /\ d.a = a /\ d.v = v
    <3>1. a \in Ident /\ \E k \in DOMAIN input[i].avs : input[i].avs[k] = [a |-> a, v |-> v]
      BY <1>2, <2>4, ItemClaims
    <3>2. Datom(ids[i], a, v) \in after.datoms
      BY <3>1 DEF IdentitiesKept
    <3> QED  BY <2>1, <3>1, <3>2 DEF Datom
  <2>5. \A c \in Claims(n) : (\E y : c = <<y>>) \/ (\E a, v : c = <<a, v>>)
    BY <1>2, ItemClaims
  <2> QED  BY <2>3, <2>4, <2>5
<1>3. ASSUME NEW t \in Tempid, n = <<"tempid", t>>
      PROVE  Claims(n) = {<<t>>} /\ EntityOf(n) = tempids[t] /\ ~(t > 0)
  BY <1>3, TempidClaims, TempidAssumption DEF EntityOf
<1>4. ASSUME NEW d \in before.datoms, n = <<"entity", d.e>>
      PROVE  /\ \A y : <<y>> \in Claims(n) => EntityOf(n) = IF y > 0 THEN y ELSE tempids[y]
             /\ \A a, v : <<a, v>> \in Claims(n) =>
                  a \in Ident /\ \E f \in after.datoms : f.e = EntityOf(n) /\ f.a = a /\ f.v = v
             /\ \A c \in Claims(n) : (\E y : c = <<y>>) \/ (\E a, v : c = <<a, v>>)
  <2>1. EntityOf(n) = d.e
    BY <1>4 DEF EntityOf
  <2>2. d.e \in 1..before.maxEid /\ before.maxEid \in Nat
    BY <1>1, BeforeAssumption
  <2>3. d.e > 0
    BY <2>2
  <2> QED  BY <1>4, <2>1, <2>3, EntityClaims DEF IdentitiesKept
<1>5. ASSUME NEW t \in Tempid, n = <<"tempid", t>>
      PROVE  /\ \A y : <<y>> \in Claims(n) => EntityOf(n) = IF y > 0 THEN y ELSE tempids[y]
             /\ \A a, v : <<a, v>> \in Claims(n) =>
                  a \in Ident /\ \E d \in after.datoms : d.e = EntityOf(n) /\ d.a = a /\ d.v = v
             /\ \A c \in Claims(n) : (\E y : c = <<y>>) \/ (\E a, v : c = <<a, v>>)
  <2>1. \A y : <<y>> \in Claims(n) => y = t
    BY <1>3, <1>5
  <2>2. \A a, v : <<a, v>> \notin Claims(n)
    BY <1>3, <1>5
  <2> QED  BY <1>3, <1>5, <2>1, <2>2
<1> QED  BY <1>2, <1>4, <1>5, EveryoneIs, NodesIs

LEMMA OneIsOne ==
    ASSUME IInv, IdentitiesKept, next > Len(input), NEW m \in Nodes, NEW n \in Nodes, One(m, n, Closed)
    PROVE  EntityOf(m) = EntityOf(n)
<1> DEFINE S == {k \in Nodes : EntityOf(k) = EntityOf(m)}
<1>1. ASSUME NEW i \in Nodes, NEW j \in Nodes, NEW c, c \in Claims(i), c \in Claims(j)
      PROVE  EntityOf(i) = EntityOf(j)
  <2>1. CASE \E y : c = <<y>>
    <3>1. PICK y : c = <<y>>
      BY <2>1
    <3>2. EntityOf(i) = IF y > 0 THEN y ELSE tempids[y]
      BY <1>1, <3>1, ClaimPlaced
    <3>3. EntityOf(j) = IF y > 0 THEN y ELSE tempids[y]
      BY <1>1, <3>1, ClaimPlaced
    <3> QED  BY <3>2, <3>3
  <2>2. CASE \E a, v : c = <<a, v>>
    <3>1. PICK a, v : c = <<a, v>>
      BY <2>2
    <3>2. a \in Ident /\ \E d \in after.datoms : d.e = EntityOf(i) /\ d.a = a /\ d.v = v
      BY <1>1, <3>1, ClaimPlaced
    <3>3. \E d \in after.datoms : d.e = EntityOf(j) /\ d.a = a /\ d.v = v
      BY <1>1, <3>1, ClaimPlaced
    <3> QED  BY <3>2, <3>3 DEF IInv, IdentitiesUnique
  <2>3. (\E y : c = <<y>>) \/ (\E a, v : c = <<a, v>>)
    BY <1>1, ClaimPlaced
  <2> QED  BY <2>1, <2>2, <2>3
<1>2. \A c : {k \in Nodes : c \in Claims(k)} \subseteq S \/ {k \in Nodes : c \in Claims(k)} \cap S = {}
  <2> SUFFICES ASSUME NEW c, NEW i \in Nodes, c \in Claims(i), i \notin S,
                      NEW j \in Nodes, c \in Claims(j), j \in S
               PROVE  FALSE
    OBVIOUS
  <2>1. EntityOf(i) = EntityOf(j)
    BY <1>1
  <2> QED  BY <2>1
<1>3. S \in SUBSET Nodes
  OBVIOUS
<1>4. m \in S /\ (n \in S => EntityOf(n) = EntityOf(m))
  OBVIOUS
<1> HIDE DEF S
<1>5. S \in Closed
  BY <1>2, <1>3 DEF Closed
<1> QED  BY <1>4, <1>5 DEF One

LEMMA SameEntityHolds == ASSUME IInv, KinInv PROVE SameEntity
<1> SUFFICES ASSUME outcome = "ok", ~reused, IdentitiesKept, NEW m \in Nodes, NEW n \in Nodes
             PROVE  One(m, n, Closed) <=> EntityOf(m) = EntityOf(n)
  BY DEF SameEntity
<1>1. next > Len(input)
  BY DEF KinInv
<1>2. ASSUME EntityOf(m) = EntityOf(n) PROVE One(m, n, Closed)
  <2>1. PlacedAt(m, EntityOf(m)) /\ PlacedAt(n, EntityOf(m))
    BY <1>1, <1>2, NodePlaced
  <2>2. m \in Everyone /\ n \in Everyone
    BY NodesIs
  <2>3. Kin(m, n)
    BY <2>1, <2>2 DEF KinInv, Kindred
  <2> QED  BY <2>3, KinOne
<1> QED  BY <1>1, <1>2, OneIsOne

-------------------------------------------------------------------------------
(* A transaction that was rejected.                                            *)

Cause == \E m, n \in Nodes : /\ One(m, n, Closed)
                             /\ \E e \in Owners(m), f \in Owners(n) : e # f

LEMMA OwnersIs ==
    ASSUME NEW n
    PROVE  /\ \A e \in 1..before.maxEid : <<e>> \in Claims(n) => e \in Owners(n)
           /\ \A d \in after.datoms : d.a \in Ident /\ <<d.a, d.v>> \in Claims(n) => d.e \in Owners(n)
BY DEF Owners

LEMMA GivenId ==
    ASSUME IInv, NEW i \in DOMAIN input, ~(input[i].id < 0), input[i].id # 0 \/ ~input[i].map
    PROVE  input[i].id > 0 /\ input[i].id \in Owners(<<"item", i>>)
<1>1. input[i] \in Items /\ before \in Before
  BY DEF IInv, TypeOK
<1>2. before.maxEid \in Nat
  BY <1>1, BeforeAssumption
<1>3. input[i].id \in 1..before.maxEid
  <2>1. input[i].id \notin Tempid
    BY TempidAssumption
  <2> QED  BY <1>1, <2>1, ItemAssumption
<1>4. input[i].id > 0
  BY <1>2, <1>3
<1>5. <<input[i].id>> \in Claims(<<"item", i>>)
  BY <1>4, ItemClaims
<1> QED  BY <1>3, <1>4, <1>5, OwnersIs

LEMMA UpsertedOwn ==
    ASSUME IInv, AtItem PROVE Upserted(Item) \subseteq Owners(Node)
BY UpsertedIs, OwnersIs

\* A node owned by two entities is reason enough.
LEMMA OneCause ==
    ASSUME NEW n \in Nodes, NEW e \in Owners(n), NEW f \in Owners(n), e # f PROVE Cause
BY DEF Cause, One

LEMMA UpsertCause == ASSUME IInv, AtItem, Conflicting(Item) PROVE Cause
<1>1. next \in DOMAIN input /\ Item = input[next] /\ Node \in Nodes
  BY NodeTyped, NodesIs DEF Node
<1>2. PICK e \in Upserted(Item) : (Item.id > 0 /\ Item.id # e) \/ \E f \in Upserted(Item) : f # e
  BY DEF Conflicting
<1>3. e \in Owners(Node)
  BY <1>2, UpsertedOwn
<1>4. CASE Item.id > 0 /\ Item.id # e
  <2>1. ~(Item.id < 0) /\ Item.id # 0
    BY <1>4, ItemTyped
  <2>2. Item.id \in Owners(Node)
    BY <1>1, <2>1, GivenId DEF Node
  <2> QED  BY <1>1, <1>3, <1>4, <2>2, OneCause
<1>5. CASE \E f \in Upserted(Item) : f # e
  BY <1>1, <1>3, <1>5, UpsertedOwn, OneCause
<1> QED  BY <1>2, <1>4, <1>5

LEMMA RetryCause ==
    ASSUME IInv, KinInv, AtItem, Misplaced(Item), initial[Item.id] # 0, ~carried PROVE Cause
<1> DEFINE t == Item.id
           x == <<"tempid", t>>
           g == tempids[t]
<1>1. t \in Tempid /\ t < 0 /\ g # 0 /\ \E e \in Upserted(Item) : e # g
  BY ItemTyped DEF Misplaced
<1>2. g = initial[t] /\ g <= before.maxEid /\ g \in Nat /\ before.maxEid \in Nat /\ before \in Before
  BY <1>1, BeforeAssumption DEF KinInv, Retained, IInv, TypeOK
<1>3. x \in Everyone /\ Node \in Everyone /\ PlacedAt(x, g) /\ Kin(Node, x)
  <2>1. x \in Everyone /\ <<t>> \in Claims(x) /\ PlacedAt(x, g)
    BY <1>1, EveryoneIs, TempidClaims DEF PlacedAt
  <2>2. Node \in Everyone /\ <<t>> \in Claims(Node)
    BY <1>1, NodeTyped
  <2> HIDE DEF x, t
  <2> QED  BY <2>1, <2>2, KinClaim
<1> HIDE DEF g, x, t
<1>4. PICK k \in Everyone : <<g>> \in Claims(k) /\ Kin(x, k)
  BY <1>2, <1>3 DEF KinInv, Grounded
<1>5. Kin(Node, k)
  BY <1>3, <1>4, KinOver
<1>6. k \in Nodes
  <2>1. \A u \in Tempid : k # <<"tempid", u>>
    BY <1>2, <1>4, TempidClaims, TempidAssumption
  <2> QED  BY <2>1, EveryoneIs, NodesIs
<1>7. g \in Owners(k)
  <2>1. g \in 1..before.maxEid
    BY <1>1, <1>2
  <2> QED  BY <1>4, <2>1, OwnersIs
<1>8. Node \in Nodes
  BY NodeTyped, NodesIs DEF Node
<1>9. PICK e \in Owners(Node) : e # g
  BY <1>1, UpsertedOwn
<1>10. One(Node, k, Closed)
  BY <1>5, <1>6, <1>8, KinOne
<1> QED  BY <1>6, <1>7, <1>8, <1>9, <1>10 DEF Cause

LEMMA UniqueCause == ASSUME IInv, KinInv, AtOp, Taken(Op) PROVE Cause
<1> DEFINE i == next - 1
           n == <<"item", i>>
<1>1. Op = ops[1] /\ 1 \in DOMAIN ops
  BY OpTyped
<1>2. PICK d \in after.datoms : d.a = Op.a /\ d.v = Op.v /\ d.e # Op.e
  BY DEF Taken
<1>3. /\ Op.a \in Ident /\ next > 1 /\ Op.e = ids[i] /\ <<Op.a, Op.v>> \in Claims(n)
      /\ input[i].map \/ input[i].id < 0 =>
           \A c \in after.datoms : c.a = Op.a /\ c.v = Op.v => c.e = Op.e
  BY <1>1 DEF Taken, KinInv, OpsOf
<1>4. ~(input[i].map \/ input[i].id < 0)
  BY <1>2, <1>3
<1>5. i \in DOMAIN input /\ i \in 1..next - 1
  BY <1>3 DEF IInv, TypeOK
<1>6. n \in Nodes
  BY <1>5, NodesIs
<1> HIDE DEF i, n
<1>7. input[i].id > 0 /\ input[i].id \in Owners(n)
  BY <1>4, <1>5, GivenId DEF n
<1>8. Op.e \in Owners(n)
  BY <1>3, <1>5, <1>7 DEF IInv, ItemsPlaced
<1>9. d.e \in Owners(n)
  BY <1>2, <1>3, OwnersIs
<1> QED  BY <1>2, <1>6, <1>8, <1>9, OneCause

LEMMA CauseStep == IInv /\ KinInv /\ RejectedForCause /\ [Next]_vars => RejectedForCause'
<1> SUFFICES ASSUME IInv, KinInv, RejectedForCause, [Next]_vars PROVE RejectedForCause'
  OBVIOUS
<1>1. ASSUME UNCHANGED <<before, input, after, tempids>> PROVE Cause' <=> Cause
  <2>1. /\ Nodes' = Nodes
        /\ \A n : Claims(n)' = Claims(n) /\ Owners(n)' = Owners(n)
    BY <1>1 DEF Nodes, Claims, Owners
  <2>2. Closed' = Closed
    BY <2>1 DEF Closed
  <2> QED  BY <2>1, <2>2 DEF Cause, One
<1>2. RejectedForCause <=> (outcome \in {"conflict", "unique"} /\ ~carried => Cause)
  BY DEF RejectedForCause, Cause
<1>3. RejectedForCause' <=> (outcome' \in {"conflict", "unique"} /\ ~carried' => Cause')
  BY DEF RejectedForCause, Cause
<1>4. CASE UNCHANGED vars
  BY <1>1, <1>2, <1>3, <1>4 DEF vars
<1>5. CASE RaiseUpsert
  <2>1. AtItem /\ Conflicting(Item) /\ UNCHANGED <<before, input, after, tempids>>
    BY <1>5 DEF RaiseUpsert, End
  <2> QED  BY <1>1, <1>3, <2>1, UpsertCause
<1>6. CASE RaiseRetry
  <2>1. AtItem /\ Misplaced(Item) /\ initial[Item.id] # 0 /\ UNCHANGED <<before, input, after, tempids, carried>>
    BY <1>6 DEF RaiseRetry, End
  <2> QED  BY <1>1, <1>3, <2>1, RetryCause
<1>7. CASE RaiseUnique
  <2>1. AtOp /\ Taken(Op) /\ UNCHANGED <<before, input, after, tempids>>
    BY <1>7 DEF RaiseUnique, End
  <2> QED  BY <1>1, <1>3, <2>1, UniqueCause
<1>8. CASE Finish
  BY <1>3, <1>8 DEF Finish, End
<1>9. CASE Create \/ Resolve \/ RetryWithTempid \/ ResolveValue \/ CreateValue \/ Add
  <2>1. outcome' = "open"
    BY <1>9 DEF Create, Resolve, RetryWithTempid, Explode, Restart, AtItem, ResolveValue, CreateValue, Add, AtOp
  <2> QED  BY <1>3, <2>1
<1> QED  BY <1>4, <1>5, <1>6, <1>7, <1>8, <1>9 DEF Next

LEMMA KinInvariant == Spec => [](IInv /\ KinInv /\ RejectedForCause)
<1>1. Init => IInv /\ KinInv /\ RejectedForCause
  <2>1. Init => RejectedForCause
    BY DEF Init, RejectedForCause
  <2> QED  BY <2>1, InitInv, InitKin
<1>2. IInv /\ KinInv /\ RejectedForCause /\ [Next]_vars => (IInv /\ KinInv /\ RejectedForCause)'
  BY StepInv, KinStep, CauseStep
<1> QED  BY <1>1, <1>2, PTL DEF Spec

\* Whatever order tempids, maps and identities come in, and however often the
\* transaction is retried: if it goes through, items, tempids and entities are
\* one entity in the report exactly when their ids and identities make them one.
THEOREM OneEntityByClaims == Spec => []SameEntity
<1>1. IInv /\ KinInv => SameEntity
  BY SameEntityHolds
<1> QED  BY <1>1, KinInvariant, PTL

\* "Conflicting upsert" and the violation of a unique identity are raised only if
\* what the items make one entity is two of them.
THEOREM RejectionsHaveCause == Spec => []RejectedForCause
BY KinInvariant, PTL
===============================================================================
