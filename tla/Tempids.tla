-------------------------------- MODULE Tempids --------------------------------
(***************************************************************************)
(* How a transaction finds the entities it speaks of (transact-tx-data and *)
(* entity-map->op-vec in datahike.db.transaction): tempids, maps without   *)
(* an id, and upserts by identity attributes.  A tempid that was given an  *)
(* id, and then asserts an identity that another entity has, restarts the  *)
(* transaction with the ids found so far.                                  *)
(*                                                                         *)
(* The transaction asserts values of attributes of cardinality one;        *)
(* module Transact has the other operations, and what they do to the       *)
(* indices.  As in the code, tempids are negative numbers and entity ids   *)
(* positive ones.                                                          *)
(***************************************************************************)
EXTENDS Integers, SequencesExt

CONSTANTS
    Tempid,    \* the tempids
    Ident,     \* attributes with unique identities, which are no references
    Ref,       \* attributes whose values are entities
    Before,    \* database values: their datoms and the greatest entity id
    Items,     \* the vectors and maps that transactions consist of
    MaxItems   \* bound: how many of them

ASSUME TempidAssumption == Tempid \subseteq {n \in Int : n < 0}
ASSUME SchemaAssumption == Ident \cap Ref = {}
ASSUME BoundAssumption == MaxItems \in Nat
ASSUME BeforeAssumption ==
    \A db \in Before : /\ db = [datoms |-> db.datoms, maxEid |-> db.maxEid]
                       /\ db.maxEid \in Nat
                       /\ \A d \in db.datoms : d.e \in 1..db.maxEid /\ (d.a \in Ref => d.v \in Nat \ {0})
                       /\ \A c, d \in db.datoms : c.a = d.a /\ (c.e = d.e \/ (c.a \in Ident /\ c.v = d.v)) => c = d
\* A vector is a map of one attribute with an id.  Entities that are given by
\* their ids exist; 0 stands for a map without an id.
ASSUME ItemAssumption ==
    \A x \in Items : /\ x.map \in BOOLEAN /\ x.avs \in Seq({x.avs[k] : k \in DOMAIN x.avs})
                     /\ \/ x.id \in Tempid
                        \/ x.id = 0 /\ x.map
                        \/ \A db \in Before : x.id \in 1..db.maxEid
                     /\ \A k \in DOMAIN x.avs :
                          /\ x.avs[k] = [a |-> x.avs[k].a, v |-> x.avs[k].v]
                          /\ x.avs[k].a \in Ref => x.avs[k].v \in Tempid \cup (Nat \ {0})

VARIABLES
    before,    \* :db-before
    input,     \* initial-es
    after,     \* :db-after of the report
    tempids,   \* :tempids of the report, 0 for those that are not in it
    next,      \* the next item of the input
    ops,       \* what is left of the one before it: its assertions
    initial,   \* :tempids of the initial report, which a retry extends
    outcome,   \* open, ok, or the exception
    ids,       \* history: the entities of the items that were met in this run
    carried,   \* history: a retry took an id along that the run it ends had allocated
    reused     \* history: such an id was allocated a second time

vars == <<before, input, after, tempids, next, ops, initial, outcome, ids, carried, reused>>

Datom(e, a, v) == [e |-> e, a |-> a, v |-> v]

NextEid == after.maxEid + 1

\* (transaction ids, which are beyond all entities, are not among the ids here)
AdvanceMaxEid(db, e) == [db EXCEPT !.maxEid = IF e > @ THEN e ELSE @]

-------------------------------------------------------------------------------
(* Items *)

\* A mutation of Upserted: only entities of the database before count.
UpsertedBefore(x) ==
    IF x.map \/ x.id < 0
    THEN {d.e : d \in {y \in before.datoms : y.a \in Ident /\
                          \E k \in DOMAIN x.avs : x.avs[k] = [a |-> y.a, v |-> y.v]}}
    ELSE {}

\* The entities that have an identity which x asserts.  A vector with an entity
\* id is not an upsert.
Upserted(x) ==
    IF x.map \/ x.id < 0
    THEN {d.e : d \in {y \in after.datoms : y.a \in Ident /\
                          \E k \in DOMAIN x.avs : x.avs[k] = [a |-> y.a, v |-> y.v]}}
    ELSE {}

\* Identities of several entities, or that of another one than the id says.
Conflicting(x) ==
    \E e \in Upserted(x) : (x.id > 0 /\ x.id # e) \/ \E f \in Upserted(x) : f # e

\* The tempid has an id already, but ought to have that of another entity.
Misplaced(x) == x.id < 0 /\ tempids[x.id] # 0 /\ \E e \in Upserted(x) : e # tempids[x.id]

\* No entity is known for x: it is a new one.
Fresh(x) == Upserted(x) = {} /\ (x.id = 0 \/ (x.id < 0 /\ tempids[x.id] = 0))

\* The entity for x, if it is not new: the one that has its identity, the one it
\* was found to be, or the one it says.
Known(x) == IF Upserted(x) # {} THEN CHOOSE e \in Upserted(x) : TRUE
            ELSE IF x.id < 0 THEN tempids[x.id]
            ELSE x.id

\* The next id is given out, which a tempid may hold from a run before.
Allocate == /\ after' = AdvanceMaxEid(after, NextEid)
            /\ reused' = (reused \/ \E t \in Tempid : tempids[t] = NextEid)

Item == input[next]

AtItem == outcome = "open" /\ ops = <<>> /\ next <= Len(input)

\* A mutation of Explode: only an id that is allocated is kept for the tempid.
ExplodeUnrecorded(e) ==
    /\ tempids' = IF Item.id < 0 /\ Upserted(Item) = {} THEN [tempids EXCEPT ![Item.id] = e] ELSE tempids
    /\ ops' = [k \in DOMAIN Item.avs |-> Datom(e, Item.avs[k].a, Item.avs[k].v)]
    /\ ids' = Append(ids, e)
    /\ next' = next + 1
    /\ UNCHANGED <<before, input, initial, outcome, carried>>

\* The item is replaced by its assertions on entity e.
Explode(e) ==
    /\ tempids' = IF Item.id < 0 THEN [tempids EXCEPT ![Item.id] = e] ELSE tempids
    /\ ops' = [k \in DOMAIN Item.avs |-> Datom(e, Item.avs[k].a, Item.avs[k].v)]
    /\ ids' = Append(ids, e)
    /\ next' = next + 1
    /\ UNCHANGED <<before, input, initial, outcome, carried>>

Create == /\ AtItem /\ Fresh(Item)
          /\ Allocate
          /\ Explode(NextEid)

Resolve == /\ AtItem /\ ~Fresh(Item) /\ ~Conflicting(Item) /\ ~Misplaced(Item)
           /\ after' = AdvanceMaxEid(after, Known(Item))
           /\ Explode(Known(Item))
           /\ UNCHANGED reused

\* The transaction ends, with its report or an exception.
End(o) == /\ outcome' = o
          /\ UNCHANGED <<before, input, after, tempids, next, ops, initial, ids, carried, reused>>

\* "Conflicting upsert(s)" of one map.
RaiseUpsert == AtItem /\ Conflicting(Item) /\ End("conflict")

\* The loop starts again with the initial report, but for its tempids.
Restart(ts) ==
    /\ initial' = ts /\ tempids' = ts
    /\ after' = before /\ next' = 1 /\ ops' = <<>> /\ ids' = <<>>
    /\ carried' = (carried \/ \E t \in Tempid : ts[t] > before.maxEid)
    /\ UNCHANGED <<before, input, outcome, reused>>

\* A mutation of RetryWithTempid: the upsert is forgotten.
RetryWithTempidForgotten ==
    /\ AtItem /\ ~Conflicting(Item) /\ Misplaced(Item)
    /\ initial[Item.id] = 0
    /\ Restart(initial)

\* Retry, unless it was a retry, or the run before it, that bound the tempid.
RetryWithTempid ==
    /\ AtItem /\ ~Conflicting(Item) /\ Misplaced(Item)
    /\ initial[Item.id] = 0
    /\ Restart([tempids EXCEPT ![Item.id] = Known(Item)])

\* "Conflicting upsert: t resolves both to .. and ..".
RaiseRetry ==
    /\ AtItem /\ ~Conflicting(Item) /\ Misplaced(Item)
    /\ initial[Item.id] # 0
    /\ End("conflict")

-------------------------------------------------------------------------------
(* Assertions *)

Op == Head(ops)

AtOp == outcome = "open" /\ ops # <<>>

\* A mutation of OpenValue: a tempid that was met before is taken for an id.
OpenValueFresh(op) == op.a \in Ref /\ op.v < 0 /\ tempids[op.v] = 0

OpenValue(op) == op.a \in Ref /\ op.v < 0

\* A reference to a tempid is one to its entity, ...
ResolveValue ==
    /\ AtOp /\ OpenValue(Op) /\ tempids[Op.v] # 0
    /\ ops' = [ops EXCEPT ![1].v = tempids[@]]
    /\ UNCHANGED <<before, input, after, tempids, next, initial, outcome, ids, carried, reused>>

\* ... for which an id is allocated when it is met in a reference first.
CreateValue ==
    /\ AtOp /\ OpenValue(Op) /\ tempids[Op.v] = 0
    /\ Allocate
    /\ tempids' = [tempids EXCEPT ![Op.v] = NextEid]
    /\ UNCHANGED <<before, input, next, ops, initial, outcome, ids, carried>>

\* validate-datom-upsert
Taken(op) == op.a \in Ident /\ \E d \in after.datoms : d.a = op.a /\ d.v = op.v /\ d.e # op.e

\* transact-add: the value replaces the one there was.
Add ==
    /\ AtOp /\ ~OpenValue(Op) /\ ~Taken(Op)
    /\ after' = AdvanceMaxEid(
                  [after EXCEPT !.datoms = {d \in @ : ~(d.e = Op.e /\ d.a = Op.a)} \cup {Op}], Op.e)
    /\ ops' = Tail(ops)
    /\ UNCHANGED <<before, input, tempids, next, initial, outcome, ids, carried, reused>>

RaiseUnique == AtOp /\ ~OpenValue(Op) /\ Taken(Op) /\ End("unique")

Finish == outcome = "open" /\ ops = <<>> /\ next > Len(input) /\ End("ok")

-------------------------------------------------------------------------------
(* The specification *)

Init ==
    /\ before \in Before /\ input \in SeqOf(Items, MaxItems)
    /\ after = before /\ next = 1 /\ ops = <<>>
    /\ tempids = [t \in Tempid |-> 0] /\ initial = tempids
    /\ outcome = "open" /\ ids = <<>> /\ carried = FALSE /\ reused = FALSE

Next == \/ Create \/ Resolve \/ RaiseUpsert \/ RetryWithTempid \/ RaiseRetry
        \/ ResolveValue \/ CreateValue \/ Add \/ RaiseUnique
        \/ Finish

Spec == Init /\ [][Next]_vars

FairSpec == Spec /\ WF_vars(Next)

-------------------------------------------------------------------------------
(* Correctness *)

\* The variables have the types the code gives them: no tempid is left in what
\* was asserted, and every id is within the greatest one.
TypeOK ==
    /\ before \in Before /\ input \in Seq(Items)
    /\ after.maxEid \in Nat
    /\ \A d \in after.datoms : d.e \in 1..after.maxEid /\ (d.a \in Ref => d.v \in Nat \ {0})
    /\ {tempids, initial} \subseteq [Tempid -> Nat]
    /\ next \in 1..Len(input) + 1 /\ ids \in [1..next - 1 -> Nat \ {0}]
    /\ \A k \in DOMAIN ops : ops[k].e \in 1..after.maxEid
    /\ outcome \in {"open", "ok", "conflict", "unique"}
    /\ {carried, reused} \subseteq BOOLEAN

\* A transaction speaks of entities by items, by tempids and by what was there.
Nodes ==
    ({"item"} \X DOMAIN input) \cup ({"tempid"} \X {t \in Tempid : tempids[t] # 0})
    \cup ({"entity"} \X {d.e : d \in before.datoms})

\* The entity that a node became.
EntityOf(n) == CASE n[1] = "item"   -> ids[n[2]]
                 [] n[1] = "tempid" -> tempids[n[2]]
                 [] n[1] = "entity" -> n[2]

\* What a node says of its identity: an id <<e>>, and identities <<a, v>>.
Claims(n) ==
    IF n[1] = "item"
    THEN LET x == input[n[2]]
         IN {<<y>> : y \in {x.id} \ {0}} \cup
            {<<x.avs[k].a, x.avs[k].v>> : k \in {l \in DOMAIN x.avs : x.avs[l].a \in Ident}}
    ELSE {<<n[2]>>} \cup
         {<<d.a, d.v>> : d \in {y \in before.datoms : y.a \in Ident /\ n = <<"entity", y.e>>}}

\* The sets of nodes that their claims do not tie to others.
Closed ==
    LET Tied == {{n \in Nodes : c \in Claims(n)} : c \in UNION {Claims(n) : n \in Nodes}}
        Ties == {G \in Tied : \E n \in G : G # {n}}
    IN {S \in SUBSET Nodes : \A G \in Ties : G \subseteq S \/ G \cap S = {}}

\* Nodes are one entity by their claims if no set of closed comes between them:
\* they share a claim, or share one with a node that does, and so on.
One(m, n, closed) == \A S \in closed : m \in S => n \in S

\* The entities that have what a node claims.
Owners(n) ==
    {e \in 1..before.maxEid : <<e>> \in Claims(n)} \cup
    {d.e : d \in {y \in after.datoms : y.a \in Ident /\ <<y.a, y.v>> \in Claims(n)}}

\* No identity was taken from an entity.
IdentitiesKept ==
    /\ {d \in before.datoms : d.a \in Ident} \subseteq after.datoms
    /\ \A i \in DOMAIN input : \A k \in DOMAIN input[i].avs :
         input[i].avs[k].a \in Ident =>
            Datom(ids[i], input[i].avs[k].a, input[i].avs[k].v) \in after.datoms

\* However tempids, maps and identities follow each other: two nodes are of one
\* entity exactly when their tempids, ids and identities say so, and that is
\* what the report says of the tempids.
SameEntity ==
    outcome = "ok" /\ ~reused /\ IdentitiesKept =>
        LET closed == Closed
        IN \A m, n \in Nodes : One(m, n, closed) <=> EntityOf(m) = EntityOf(n)

\* An exception has a reason: what would be one entity by its claims is two.
RejectedForCause ==
    outcome \in {"conflict", "unique"} /\ ~carried =>
        LET closed == Closed
        IN \E m, n \in Nodes : /\ One(m, n, closed)
                               /\ \E e \in Owners(m), f \in Owners(n) : e # f

\* Every transaction comes to an end: a tempid is retried at most once.
Terminates == <>(outcome # "open")
===============================================================================
