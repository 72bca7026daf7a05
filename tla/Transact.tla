------------------------------- MODULE Transact -------------------------------
(***************************************************************************)
(* The transaction engine (datahike.db.transaction) on a database that     *)
(* keeps its history, and the views of it (datahike.db): as-of and since.  *)
(*                                                                         *)
(* A database value is its current datoms and its temporal datoms; the     *)
(* three orders in which the trees hold each of them are one set here.  A  *)
(* transaction is a loop over operations, each applied to the value that   *)
(* the ones before it left; an exception drops it as a whole.  Tempids,    *)
(* maps and lookup refs are resolved already.  Transaction t has the       *)
(* instant t, so that dates are compared with transactions.                *)
(***************************************************************************)
EXTENDS Integers, FiniteSets

CONSTANTS
    Universe,   \* the facts [e, a, v] that operations speak of
    Many,       \* attributes of cardinality many
    Refs,       \* attributes whose values are entities
    Components, \* those of them whose values are parts
    Unique,     \* attributes with unique values
    NoHistory,  \* attributes without history
    AttributeRefs, \* :attribute-refs?, attributes are stored as entity ids
    MaxTx,      \* bound: how many transactions there are
    MaxOps      \* bound: how many operations they have in all

Attr   == {f.a : f \in Universe}
Entity == {f.e : f \in Universe}
Value  == {f.v : f \in Universe}

ASSUME UniverseAssumption ==
    \A f \in Universe : f = [e |-> f.e, a |-> f.a, v |-> f.v] /\ f.e \in Nat /\ f.v \in Int
ASSUME SchemaAssumption ==
    /\ Components \subseteq Refs /\ AttributeRefs \in BOOLEAN
    /\ \A f \in Universe : f.a \in Refs => f.v \in Entity
ASSUME BoundAssumption == MaxTx \in Nat /\ MaxOps \in Nat

VARIABLES
    db,       \* the value transactions start from
    maxTx,    \* its :max-tx
    open,     \* whether a transaction is being applied
    after,    \* :db-after of its report
    es,       \* operations that its operations gave rise to, still to be done
    ops,      \* how many operations there were
    touched,  \* history: what the open transaction has changed
    isOdd,    \* history: whether it has changed something twice, or has purged
              \*   from the past of a fact that is current
    odd,      \* history: the transactions that have
    purged,   \* history: the facts it has purged, and the latest date before which
    last      \* history: its last operation, and what was current before

report == <<open, after, es>>
vars == <<db, maxTx, report, ops, touched, isOdd, odd, purged, last>>

CurrentTx == maxTx + 1

Fact(d)  == [e |-> d.e, a |-> d.a, v |-> d.v]
Facts(D) == {Fact(d) : d \in D}
SameKey(x, y) == Fact(x) = Fact(y) /\ x.tx = y.tx

Datom(f, tx)     == [e |-> f.e, a |-> f.a, v |-> f.v, tx |-> tx]
Asserted(d)      == [e |-> d.e, a |-> d.a, v |-> d.v, tx |-> d.tx, added |-> TRUE]
\* A mutation of Retracted: the transaction after this one.
RetractedLate(d, tx) == [e |-> d.e, a |-> d.a, v |-> d.v, tx |-> tx + 1, added |-> FALSE]
Retracted(d, tx) == [e |-> d.e, a |-> d.a, v |-> d.v, tx |-> tx, added |-> FALSE]

Entry == [op : {"retract/entity", "purge/entity"}, e : Entity]
NoPurge == [facts |-> {}, date |-> 0]
NoOp    == [op |-> "none", e |-> 0, date |-> 0, facts |-> {}]
Empty   == [current |-> {}, temporal |-> {}]

-----------------------------------------------------------------------------
(* Views. *)

\* The datoms of a history database.  Those of the current index count where
\* the temporal index has none for a value that is current.
History(val) ==
    {Asserted(d) : d \in {x \in val.current : x.a \in NoHistory \cup Many}} \cup val.temporal

\* Whether the past D ends with x for the attribute, or value, of x.  Of
\* several values that one transaction asserted the first in the index is taken.
IsLast(x, D) ==
    IF x.a \in Many
    THEN \A y \in D : Fact(y) = Fact(x) => y.tx <= x.tx
    ELSE \A y \in D : y.e = x.e /\ y.a = x.a =>
             y.tx <= x.tx /\ (y.added /\ y.tx = x.tx => x.v <= y.v)

Assemble(D) == Facts({x \in D : x.added /\ IsLast(x, D)})

AsOf(val, t)  == Assemble({d \in History(val) : d.tx <= t})
Since(val, t) == Assemble({d \in History(val) : ~ d.tx <= t})

-----------------------------------------------------------------------------
(* What an operation does to a database value. *)

\* A datom is not inserted into a temporal index that has one of the same
\* transaction, added or not.
TemporalInsert(T, D) == T \cup {d \in D : ~ \E x \in T : SameKey(x, d)}

\* A value for an attribute of cardinality one replaces the one there was.
Upsert(val, new) ==
    LET old == {d \in val.current : d.e = new.e /\ d.a = new.a}
        past == IF new.a \in NoHistory \/ \E d \in old : d.v = new.v THEN {}
                ELSE {Retracted(d, new.tx) : d \in old} \cup {Asserted(new)}
    IN  [current  |-> (val.current \ old) \cup {new},
         temporal |-> val.temporal \cup past]

\* A value for an attribute of cardinality many is added to those there are.
Insert(val, new) ==
    [val EXCEPT !.current = IF Fact(new) \in Facts(@) THEN @ ELSE @ \cup {new}]

\* A mutation of Retract: the past is not told that they ended.
RetractSilently(val, D, tx) ==
    LET kept == {d \in D : d.a \notin NoHistory}
    IN  [current  |-> val.current \ D,
         temporal |-> TemporalInsert(val.temporal, {Asserted(d) : d \in kept})]

\* A mutation of Retract: the past gets only that they ended.
RetractOnly(val, D, tx) ==
    LET kept == {d \in D : d.a \notin NoHistory}
    IN  [current  |-> val.current \ D,
         temporal |-> TemporalInsert(val.temporal, {Retracted(d, tx) : d \in kept})]

\* The current datoms D are retracted; the past gets them, and that they ended.
Retract(val, D, tx) ==
    LET kept == {d \in D : d.a \notin NoHistory}
    IN  [current  |-> val.current \ D,
         temporal |-> TemporalInsert(TemporalInsert(val.temporal, {Asserted(d) : d \in kept}),
                                     {Retracted(d, tx) : d \in kept})]

\* The datoms D of the history go.  Each takes the current datom of its fact
\* with it, whatever its transaction, and one of the temporal datoms of its fact
\* and transaction.  The comparison of the removal does not tell the assertion
\* from the retraction if there are both; here the retraction goes first, which
\* makes no difference, since what the operations find to purge has both.
Purge(val, D) ==
    LET Purging(x) == {d \in D : SameKey(d, x)}
        Hidden(x) == x.added /\ \E y \in val.temporal : SameKey(x, y) /\ ~y.added
    IN  [current  |-> {d \in val.current : Fact(d) \notin Facts(D)},
         temporal |-> {x \in val.temporal :
                         Cardinality(Purging(x)) < IF Hidden(x) THEN 2 ELSE 1}]

\* Datoms that refer to e.  With attributes stored as ids, the name of a
\* reference is looked up as if it were an id, is not found, and every
\* attribute is searched.
Referring(D, e) ==
    {d \in D : d.v = e /\ IF AttributeRefs THEN Refs # {} ELSE d.a \in Refs}
OfEntity(D, e)  == {d \in D : d.e = e}
\* A mutation of PastReferring: references stay.
PastReferringNone(D, e) == {}
\* The same for :db.purge/entity, which searches with the name of the reference:
\* in place of an id, it finds nothing.
PastReferring(D, e) == {d \in D : d.v = e /\ d.a \in Refs /\ ~AttributeRefs}

Parts(D, op) == {[op |-> op, e |-> d.v] : d \in {x \in D : x.a \in Components}}

\* A mutation of Expired: off by one at the date.
ExpiredEarlier(val, date) ==
    {x \in val.temporal :
       /\ x.tx < date - 1
       /\ ~ \E d \in val.current : SameKey(d, x)
       /\ ~ (x.added /\ \E y \in val.temporal : SameKey(x, y) /\ ~y.added)}

\* The temporal datoms that :db.history.purge/before removes.  Two of the same
\* transaction are one in the sorted set it builds.
Expired(val, date) ==
    {x \in val.temporal :
       /\ x.tx < date
       /\ ~ \E d \in val.current : SameKey(d, x)
       /\ ~ (x.added /\ \E y \in val.temporal : SameKey(x, y) /\ ~y.added)}

-----------------------------------------------------------------------------
(* A transaction. *)

\* What is changed when the datom of fact f is: two changes of it in one
\* transaction cannot be told apart later.
Key(f) == IF f.a \in Many THEN <<f.e, f.a, f.v>> ELSE <<f.e, f.a>>

Touch(F) ==
    /\ touched' = touched \cup {Key(f) : f \in F}
    /\ isOdd' = (isOdd \/ \E f \in F : Key(f) \in touched)

Init ==
    /\ db = Empty /\ maxTx = 0
    /\ open = FALSE /\ after = Empty /\ es = {}
    /\ ops = 0
    /\ touched = {} /\ isOdd = FALSE /\ odd = {}
    /\ purged = NoPurge /\ last = NoOp

Begin ==
    /\ ~open /\ maxTx < MaxTx
    /\ open' = TRUE /\ after' = db
    /\ UNCHANGED <<db, maxTx, es, ops, touched, isOdd, odd, purged, last>>

\* What the end of a transaction, of either kind, leaves behind.
Close(val) ==
    /\ open' = FALSE /\ after' = val /\ es' = {}
    /\ touched' = {} /\ isOdd' = FALSE /\ purged' = NoPurge /\ last' = NoOp

Finish ==
    /\ open /\ es = {}
    /\ db' = after /\ maxTx' = CurrentTx
    /\ odd' = IF isOdd THEN odd \cup {CurrentTx} ELSE odd
    /\ Close(after)
    /\ UNCHANGED ops

\* An operation of the caller is next when none is left that others gave rise to.
NextOperation(op) ==
    /\ open /\ es = {} /\ ops < MaxOps
    /\ ops' = ops + 1
    /\ last' = op
    /\ UNCHANGED <<db, maxTx, open, odd>>

\* An exception: the report is dropped.
Raise ==
    /\ open /\ es = {} /\ ops < MaxOps
    /\ ops' = ops + 1
    /\ Close(db)
    /\ UNCHANGED <<db, maxTx, odd>>

\* A mutation of Taken: the value before the transaction is asked.
TakenBefore(f) ==
    /\ f.a \in Unique
    /\ \E d \in db.current : d.a = f.a /\ d.v = f.v /\ (f.a \in Many \/ d.e # f.e)

\* Whether the value of f is taken.  Of an attribute of cardinality many it is
\* even by the entity of f itself.
Taken(f) ==
    /\ f.a \in Unique
    /\ \E d \in after.current : d.a = f.a /\ d.v = f.v /\ (f.a \in Many \/ d.e # f.e)

Assert(f) ==
    /\ ~Taken(f)
    /\ after' = IF f.a \in Many THEN Insert(after, Datom(f, CurrentTx))
                                ELSE Upsert(after, Datom(f, CurrentTx))
    /\ Touch(IF f.a \in Many /\ f \in Facts(after.current) THEN {} ELSE {f})
    /\ UNCHANGED <<es, purged>>

Add(f) == NextOperation(NoOp) /\ Assert(f)
AddTaken(f) == Taken(f) /\ Raise

Swaps(f, old) ==
    LET D == {d \in after.current : d.e = f.e /\ d.a = f.a}
    IN  IF old = {} THEN D = {} ELSE old \subseteq {d.v : d \in D}

\* old is the set of the value expected, empty for nil.
CompareAndSwap(f, old) == NextOperation(NoOp) /\ Swaps(f, old) /\ Assert(f)
CompareAndSwapFails(f, old) == (~Swaps(f, old) \/ Taken(f)) /\ Raise

RetractDatoms(D, new) ==
    /\ after' = Retract(after, D, CurrentTx)
    /\ Touch(D)
    /\ es' = new
    /\ UNCHANGED purged

RetractFact(f) ==
    /\ NextOperation(NoOp)
    /\ RetractDatoms({d \in after.current : Fact(d) = f}, {})

\* :db/retract without a value leaves parts alone.
RetractValues(e, a) ==
    /\ NextOperation(NoOp)
    /\ RetractDatoms({d \in after.current : d.e = e /\ d.a = a}, {})

RetractAttribute(e, a) ==
    LET D == {d \in after.current : d.e = e /\ d.a = a}
    IN  NextOperation(NoOp) /\ RetractDatoms(D, Parts(D, "retract/entity"))

\* A mutation of RetractEntity: the parts of parts are not followed.
RetractEntityShallow(e, rest) ==
    RetractDatoms(OfEntity(after.current, e) \cup Referring(after.current, e), rest)

RetractEntity(e, rest) ==
    LET D == OfEntity(after.current, e)
    IN  RetractDatoms(D \cup Referring(after.current, e), rest \cup Parts(D, "retract/entity"))

RetractWhole(e) ==
    /\ NextOperation([NoOp EXCEPT !.op = "retract/entity", !.e = e, !.facts = Facts(after.current)])
    /\ RetractEntity(e, {})

RetractPart ==
    /\ open
    /\ \E x \in es : x.op = "retract/entity" /\ RetractEntity(x.e, es \ {x})
    /\ UNCHANGED <<db, maxTx, open, ops, odd, last>>

PurgeDatoms(D, F, new) ==
    /\ after' = Purge(after, D)
    /\ purged' = [purged EXCEPT !.facts = @ \cup F]
    /\ es' = new
    /\ UNCHANGED <<touched, isOdd>>

\* The attribute is given as the datoms have it.
PurgeFact(f) ==
    /\ NextOperation(NoOp)
    /\ PurgeDatoms({d \in History(after) : Fact(d) = f}, {f}, {})

PurgeAttribute(e, a) ==
    LET D == {d \in History(after) : d.e = e /\ d.a = a}
        F == {f \in Universe : f.e = e /\ f.a = a}
    IN  NextOperation(NoOp) /\ PurgeDatoms(D, F, Parts(D, "purge/entity"))

PurgeEntity(e, rest) ==
    LET D == OfEntity(History(after), e)
        F == {f \in Universe : f.e = e \/ (f.a \in Refs /\ f.v = e)}
    IN  PurgeDatoms(D \cup PastReferring(History(after), e), F,
                    rest \cup Parts(D, "purge/entity"))

PurgeWhole(e) == NextOperation(NoOp) /\ PurgeEntity(e, {})

PurgePart ==
    /\ open
    /\ \E x \in es : x.op = "purge/entity" /\ PurgeEntity(x.e, es \ {x})
    /\ UNCHANGED <<db, maxTx, open, ops, odd, last>>

PurgeBefore(date) ==
    LET D == Expired(after, date)
    IN  /\ NextOperation([op |-> "purge/before", e |-> 0, date |-> date, facts |-> Facts(after.current)])
        /\ after' = Purge(after, D)
        /\ purged' = [purged EXCEPT !.date = IF @ < date THEN date ELSE @]
        /\ es' = Parts(D, "purge/entity")
        /\ isOdd' = (isOdd \/ Facts(D) \cap Facts(after.current) # {})
        /\ UNCHANGED touched

Olds(f) == {{}} \cup {{g.v} : g \in {x \in Universe : x.e = f.e /\ x.a = f.a}}

Adding     == \E f \in Universe : Add(f) \/ AddTaken(f)
Swapping   == \E f \in Universe : \E old \in Olds(f) :
                  CompareAndSwap(f, old) \/ CompareAndSwapFails(f, old)
Retracting == \/ \E f \in Universe : \/ RetractFact(f)
                                    \/ RetractValues(f.e, f.a) \/ RetractAttribute(f.e, f.a)
              \/ \E e \in Entity : RetractWhole(e)
              \/ RetractPart
Purging    == \/ \E f \in Universe : PurgeFact(f) \/ PurgeAttribute(f.e, f.a)
              \/ \E e \in Entity : PurgeWhole(e)
              \/ PurgePart
              \/ \E date \in 1..CurrentTx + 1 : PurgeBefore(date)

Next == Begin \/ Finish \/ Adding \/ Swapping \/ Retracting \/ Purging

Spec == Init /\ [][Next]_vars

-----------------------------------------------------------------------------
(* Correctness. *)

\* A database value of up to transaction t.
ValueOK(val, t) ==
    /\ val = [current |-> val.current, temporal |-> val.temporal]
    /\ \A d \in val.current :
         Fact(d) \in Universe /\ d.tx \in 1..t /\ d = Datom(Fact(d), d.tx)
    /\ \A d \in val.temporal :
         Fact(d) \in Universe /\ d.tx \in 1..t /\ d \in {Asserted(d), Retracted(d, d.tx)}

\* The shapes of all variables.
TypeOK ==
    /\ ValueOK(db, maxTx) /\ ValueOK(after, CurrentTx)
    /\ maxTx \in 0..MaxTx /\ ops \in 0..MaxOps
    /\ open \in BOOLEAN /\ isOdd \in BOOLEAN /\ (open => maxTx < MaxTx)
    /\ es \in SUBSET Entry
    /\ touched \subseteq {Key(f) : f \in Universe}
    /\ odd \subseteq 1..maxTx
    /\ purged \in [facts : SUBSET Universe, date : 0..MaxTx + 1]
    /\ last.facts \subseteq Universe

Sound(D) ==
    \A x, y \in D :
      /\ x.e = y.e /\ x.a = y.a /\ (x.a \notin Many \/ x.v = y.v) => x = y
      /\ x.a \in Unique /\ x.a = y.a /\ x.v = y.v => x.e = y.e

\* An attribute of cardinality one has one current value, and a value of a
\* unique attribute one entity (with-datom-upsert replaces, validate-datom
\* checks), whatever the operations of the transactions were.
CurrentSound == Sound(db.current) /\ Sound(after.current)

\* The current and the temporal index, which are updated side by side, agree:
\* the database as of its last transaction is what is current, and what is seen
\* since any transaction holds now, and has at least the facts that were not
\* there as of it.  (After an odd transaction it may not be so.)
ViewsAgree ==
    odd = {} =>
      /\ AsOf(db, maxTx) = Facts(db.current)
      /\ \A t \in 0..maxTx :
           /\ Since(db, t) \subseteq Facts(db.current)
           /\ Facts(db.current) \ AsOf(db, t) \subseteq Since(db, t)

WithHistory(F) == {f \in F : f.a \notin NoHistory}

\* No transaction changes what the database was as of an earlier one, but for
\* the facts it purges, which are gone from all of the past.  What purging
\* before a date leaves of the past was true.
PastFixed ==
    [][\A t \in 1..maxTx : odd \cap 1..t = {} =>
         /\ AsOf(db', t) \subseteq AsOf(db, t) \ purged.facts
         /\ purged.date = 0 =>
              WithHistory(AsOf(db, t)) \ purged.facts \subseteq AsOf(db', t)]_db

\* What was purged is nowhere: no index holds a datom of it from before the
\* transaction that purges it, nor do later operations of it bring one back.
PurgedForgotten ==
    \A d \in History(after) : Fact(d) \in purged.facts => d.tx = CurrentTx

\* Right after :db.history.purge/before, of the past before the date only
\* what is still current is left.
ExpiredForgotten ==
    last.op = "purge/before" /\ odd = {} /\ ~isOdd =>
      \A x \in after.temporal : x.tx < last.date => \E d \in after.current : SameKey(d, x)

\* Entities that e consists of by the facts F: the least set that has e and
\* the parts of its members.
Whole(e, F) ==
    {x \in Entity : \A S \in SUBSET Entity :
       e \in S /\ (\A f \in F : f.a \in Components /\ f.e \in S => f.v \in S) => x \in S}

\* :db/retractEntity retracts the entity, its parts, their parts and all
\* references to one of them, in whatever order the parts are come by, and
\* nothing else.
RetractsWhole ==
    last.op = "retract/entity" /\ es = {} =>
      LET W == Whole(last.e, last.facts)
      IN  Facts(after.current) =
            {f \in last.facts : f.e \notin W /\ ~(f.a \in Refs /\ f.v \in W)}

-----------------------------------------------------------------------------
(* Statements of the documentation that the code does not keep. *)

\* "Remove all historical data before a date" (doc/time_variance.md):
\* :db.history.purge/before leaves what is current alone.
HistoryPurgeKeepsCurrent ==
    last.op = "purge/before" => Facts(after.current) = last.facts
===============================================================================
