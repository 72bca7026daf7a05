-------------------------- MODULE WriterStoreProofs --------------------------
(***************************************************************************)
(* What is true of the store of Writer for any set of requests and any     *)
(* number of crashes: what the branch key or a commit in the store points  *)
(* to is in the store, as long as no write was refused; and so is the      *)
(* parent of every commit, however writes were refused, unless its own     *)
(* write was lost apart from that of its branch key.                       *)
(***************************************************************************)
EXTENDS WriterProofs

-------------------------------------------------------------------------------
(* The inductive invariant *)

\* The key is in the store, or in a write under way.
Coming(k) == k \in store \/ \E w \in inflight : k \in w.keys

\* What a commit points to.
Pointed(c) == Leaves(c) \cup {SchemaKey(c)}

\* Nothing was refused, so no commit failed.
NoneRefused == refused = {} /\ cpc # "error"

\* The writes under way are of the commit in progress.
WritesOfThis == /\ \A w \in inflight : w.n = This
                /\ cpc \notin {"schema", "nodes", "roots"} => inflight = {}

\* Nodes that have an address, and schema records in the cache, are in the store,
\* or will be before the commit that relies on them.
NodesComing == \A t \in addressed : Coming(Leaf(t)) \/ (cpc = "schema" /\ Leaf(t) \in kvs)
SchemasComing == \A k \in wcache : Coming(k)

\* A write of a root comes with or after what the commit points to.
RootsAfter == \A w \in inflight : Branch \in w.keys \/ CommitKey(This) \in w.keys =>
                                      Pointed(com[This]) \subseteq store \cup w.keys

\* The commit in progress has its nodes addressed and its schema record cached.
Prepared == cpc \in {"schema", "nodes"} =>
               /\ Range(com[This].txs) \subseteq addressed
               /\ SchemaKey(com[This]) \in wcache

\* A write has no key of another commit.
OwnKeys == \A w \in inflight, n \in 1..Len(com) : CommitKey(n) \in w.keys => n = w.n

\* A store with multi-key writes has no other phases, and loses no commit apart
\* from its branch key.
OneWrite == multi => /\ cpc \notin {"schema", "nodes"} /\ torn = {}
                     /\ \A w \in inflight : Branch \in w.keys /\ CommitKey(w.n) \in w.keys
                     /\ CommitKey(head) \in store

\* The key of a commit is written by one write, and in a store without multi-key
\* writes that write has no other.
CommitAlone == \A v, w \in inflight : CommitKey(w.n) \in w.keys =>
                  /\ multi \/ w.keys = {CommitKey(w.n)}
                  /\ v.n = w.n /\ CommitKey(v.n) \in v.keys => v = w

\* Commits are only written in the last phase of the commit in progress, and not
\* after the write has failed.
CommitsInRoots == \A w \in inflight : CommitKey(w.n) \in w.keys =>
                     /\ cpc = "roots" /\ w.n = This
                     /\ \A v \in Failed : CommitKey(This) \notin v.keys

\* In that phase the commit in progress has no other writes.
RootsOnly == cpc = "roots" => \A v \in Failed \cup Unfinished :
                                 v.keys = {Branch} \/ CommitKey(This) \in v.keys

\* What is said of the writes of commits.
CommitWrites == CommitAlone /\ CommitsInRoots /\ RootsOnly

\* Commit n is in the store, is being written, or its write was lost.
Sound(n) == Coming(CommitKey(n)) \/ n \in torn

\* The commit of the branch key is, and that of each write of it.
RootsSound == Sound(head) /\ \A w \in inflight : Branch \in w.keys => Sound(w.n)

\* The parents of all commits, tried or made, are in the store or lost.
ParentsKept == \A n \in 2..Len(com) : CommitKey(com[n].parent) \in store \/ com[n].parent \in torn

SInv == /\ Prepared /\ OwnKeys /\ OneWrite
        /\ CommitWrites
        /\ RootsSound /\ ParentsKept
        /\ failures = 0 => /\ NoneRefused /\ WritesOfThis
                           /\ NodesComing /\ SchemasComing /\ RootsAfter
        /\ HeadClosed /\ CommitsClosed

-------------------------------------------------------------------------------
(* Keys *)

\* The kinds of keys are apart, and a commit has a key of its own.
LEMMA KeysApart ==
    /\ \A n, t : CommitKey(n) # Leaf(t)
    /\ \A n, db : CommitKey(n) # SchemaKey(db)
    /\ \A n, S : CommitKey(n) # <<"schema", S>>
    /\ \A n : CommitKey(n) # Branch
    /\ \A t : Branch # Leaf(t)
    /\ \A db : Branch # SchemaKey(db)
    /\ \A m, n : CommitKey(m) = CommitKey(n) => m = n
  BY DEF CommitKey, Leaf, SchemaKey, Branch

\* Only the keys of the commits so far are commit keys.
LEMMA CommitKeys ==
    ASSUME NEW n, CommitKey(n) \in Keys
    PROVE  n \in 1..Len(com)
  BY KeysApart DEF Keys

\* The facts about types that the steps need.
LEMMA StoreFacts ==
    ASSUME TypeOK
    PROVE  /\ This = Len(com) /\ This \in Nat /\ This >= 1 /\ com \in Seq(Commit)
           /\ head \in 1..This /\ store \subseteq Keys
           /\ kvs \subseteq {Leaf(t) : t \in Tx}
           /\ failures \in Nat /\ crashes \in Nat
           /\ \A w \in inflight : w.keys \subseteq Keys /\ w.n \in 1..This
           /\ \A w \in refused : w.n \in 1..This
           /\ torn \subseteq 1..This /\ multi \in BOOLEAN
  BY Facts DEF TypeOK, TypeStore, TypeCommit, This, Writes

\* Values with the same transactions point to the same keys.
LEMMA SamePointed ==
    ASSUME NEW u, NEW v, u.txs = v.txs
    PROVE  Leaves(u) = Leaves(v) /\ SchemaKey(u) = SchemaKey(v) /\ Pointed(u) = Pointed(v)
  BY DEF Leaves, SchemaKey, Pointed

\* What is coming for a commit without writes under way is there.
LEMMA Settled ==
    ASSUME inflight = {}, NEW k, Coming(k)
    PROVE  k \in store
  BY DEF Coming

\* No write of a commit is under way.
NoCommitWrite == \A w \in inflight : CommitKey(w.n) \notin w.keys

\* Then a sound commit is in the store, or lost.
LEMMA SoundSettled ==
    ASSUME SInv, NoCommitWrite, NEW n \in 1..Len(com), Sound(n)
    PROVE  CommitKey(n) \in store \/ n \in torn
<1>1. ASSUME NEW w \in inflight, CommitKey(n) \in w.keys PROVE FALSE
  <2>1. n = w.n
    BY <1>1 DEF SInv, OwnKeys
  <2>. QED
    BY <1>1, <2>1 DEF NoCommitWrite
<1>. QED
  BY <1>1 DEF Sound, Coming

\* Outside the last phase none is.
LEMMA NoneInOthers ==
    ASSUME SInv, cpc # "roots"
    PROVE  NoCommitWrite
  BY DEF SInv, CommitWrites, CommitsInRoots, NoCommitWrite

\* A sound commit stays sound if more is written, unless the store loses its write
\* with the key of the branch, and in a store with multi-key writes.
LEMMA LostSound ==
    ASSUME SInv, NEW lost \in SUBSET inflight, NEW n \in 1..Len(com), Sound(n),
           store' = store, inflight' = inflight \ lost, torn' = torn \cup LostCommits(lost),
           multi => CommitKey(n) \in store \/ \E w \in inflight \ lost : CommitKey(n) \in w.keys
    PROVE  Sound(n)'
<1>1. CASE \E w \in inflight : CommitKey(n) \in w.keys
  <2>1. PICK w \in inflight : CommitKey(n) \in w.keys
    BY <1>1
  <2>2. w.n = n
    BY <2>1 DEF SInv, OwnKeys
  <2>3. CASE w \notin lost
    BY <2>1, <2>3 DEF Sound, Coming
  <2>4. CASE w \in lost /\ ~multi
    <3>1. w.keys = {CommitKey(w.n)}
      BY <2>1, <2>2, <2>4 DEF SInv, CommitWrites, CommitAlone
    <3>2. n \in LostCommits(lost)
      BY <2>2, <2>4, <3>1 DEF LostCommits
    <3>. QED
      BY <3>2 DEF Sound
  <2>5. CASE multi
    BY <2>5 DEF Sound, Coming
  <2>. QED
    BY <2>3, <2>4, <2>5
<1>2. CASE CommitKey(n) \in store \/ n \in torn
  BY <1>2 DEF Sound, Coming
<1>. QED
  BY <1>1, <1>2 DEF Sound, Coming

\* A store with multi-key writes loses no commit apart from its branch key.
LEMMA NoneTorn ==
    ASSUME SInv, multi, NEW lost \in SUBSET inflight
    PROVE  LostCommits(lost) = {}
<1>1. ASSUME NEW w \in lost, w.keys = {CommitKey(w.n)} PROVE FALSE
  <2>1. Branch \in w.keys
    BY <1>1 DEF SInv, OneWrite
  <2>. QED
    BY <1>1, <2>1, KeysApart
<1>. QED
  BY <1>1 DEF LostCommits

-------------------------------------------------------------------------------
(* Steps *)

\* A step that leaves the store and the commit in progress alone, but may take
\* the commit loop from or to a phase without writes.
LEMMA StoreFrame ==
    ASSUME SInv, UNCHANGED <<store, inflight, refused, torn, addressed, wcache, com, kvs, multi,
                             head, failures>>,
           \/ cpc' = cpc
           \/ /\ failures = 0 => inflight = {} /\ cpc # "schema" /\ cpc' # "error"
              /\ NoCommitWrite /\ cpc' \notin {"schema", "nodes", "roots"}
    PROVE  SInv'
<1>1. Prepared' /\ OwnKeys' /\ OneWrite'
  BY DEF SInv, Prepared, OwnKeys, OneWrite, This, SchemaKey
<1>2. CommitWrites'
  <2>1. This' = This /\ Failed' = Failed /\ Unfinished' = Unfinished
    BY DEF This, Failed, Unfinished
  <2>2. CommitAlone'
    BY DEF SInv, CommitWrites, CommitAlone
  <2>3. CommitsInRoots'
    BY <2>1 DEF SInv, CommitWrites, CommitsInRoots, NoCommitWrite
  <2>4. RootsOnly'
    BY <2>1 DEF SInv, CommitWrites, RootsOnly
  <2>. QED
    BY <2>2, <2>3, <2>4 DEF CommitWrites
<1>3. failures' = 0 => NoneRefused' /\ WritesOfThis'
  BY DEF SInv, NoneRefused, WritesOfThis, This
<1>4. failures' = 0 => NodesComing' /\ SchemasComing' /\ RootsAfter'
  BY DEF SInv, NodesComing, SchemasComing, RootsAfter, Coming, This, Pointed, Leaves, SchemaKey
<1>5. RootsSound' /\ ParentsKept'
  BY DEF SInv, RootsSound, Sound, ParentsKept, Coming
<1>6. HeadClosed' /\ CommitsClosed'
  BY DEF SInv, HeadClosed, CommitsClosed, Leaves, SchemaKey
<1>. QED
  BY <1>1, <1>2, <1>3, <1>4, <1>5, <1>6 DEF SInv

\* A commit starts.
LEMMA FlushStore ==
    ASSUME TypeOK, TypeOK', SInv, Flush
    PROVE  SInv'
<1> DEFINE db == ToCommit(batch)
           n == Len(com) + 1
           nodes == NodesToWrite(db)
           schema == SchemaToWrite(db)
           all == (schema \cup nodes) \cup {CommitKey(n), Branch}
<1>1. /\ UNCHANGED <<store, refused, torn, multi, head, failures>>
      /\ cpc = "flush" /\ \A w \in inflight : Branch \notin w.keys
      /\ addressed' = addressed \cup Range(db.txs) /\ wcache' = wcache \cup {SchemaKey(db)}
      /\ kvs' = nodes
      /\ nodes = {Leaf(t) : t \in Range(db.txs) \ addressed}
      /\ schema = {SchemaKey(db)} \ wcache
  BY DEF Flush, boundVars, NodesToWrite, SchemaToWrite
<1>2. \/ multi /\ inflight' = inflight \cup {Write(n, all)} /\ cpc' = "roots"
      \/ ~multi /\ schema # {} /\ inflight' = inflight \cup {Write(n, schema)} /\ cpc' = "schema"
      \/ /\ ~multi /\ schema = {} /\ cpc' = "nodes"
         /\ inflight' = inflight \cup {Write(n, {k}) : k \in nodes}
  BY DEF Flush, AtomicWrite, NodeWrites
<1>3. /\ This' = n /\ n = This + 1 /\ n \in Nat /\ n >= 2 /\ Len(com') = n
      /\ com'[n].txs = db.txs /\ com'[n].parent = head
      /\ \A k \in 1..This : com'[k] = com[k]
  <2> DEFINE c == [txs |-> db.txs, maxTx |-> db.maxTx, parent |-> head]
  <2>1. com' = Append(com, c) /\ com \in Seq(Commit) /\ This = Len(com) /\ This >= 1
    BY StoreFacts DEF Flush
  <2>2. c.txs = db.txs /\ c.parent = head
    OBVIOUS
  <2>. HIDE DEF c
  <2>. QED
    BY <2>1, <2>2 DEF This
<1>4. head \in 1..This /\ com'[head] = com[head]
  BY <1>3, StoreFacts
<1>5. CommitKey(n) \notin store /\ \A w \in inflight : CommitKey(n) \notin w.keys
  BY <1>3, StoreFacts, CommitKeys
<1>6. /\ Pointed(com'[n]) = Leaves(db) \cup {SchemaKey(db)}
      /\ SchemaKey(com'[n]) = SchemaKey(db)
  BY <1>3, SamePointed DEF Pointed
<1>7. \A k \in nodes \cup schema : k # Branch /\ \A m : k # CommitKey(m)
  BY <1>1, KeysApart
<1>8. failures = 0 => inflight = {}
  BY <1>1 DEF SInv, WritesOfThis
<1>. HIDE DEF db, n, nodes, schema
<1>9. ASSUME NEW w \in inflight'
      PROVE  \/ w \in inflight
             \/ /\ w.n = n
                /\ \/ multi /\ w.keys = all
                   \/ ~multi /\ w.keys \subseteq nodes \cup schema
  <2>1. CASE multi
    BY <1>2, <2>1 DEF Write
  <2>2. CASE ~multi
    BY <1>2, <2>2 DEF Write
  <2>. QED
    BY <2>1, <2>2
<1>10. ASSUME NEW k \in nodes \cup schema
       PROVE  (\E w \in inflight' : k \in w.keys) \/ (cpc' = "schema" /\ k \in nodes)
  <2>1. CASE multi
    <3>1. Write(n, all) \in inflight' /\ k \in Write(n, all).keys
      BY <1>2, <2>1 DEF Write
    <3>. QED
      BY <3>1
  <2>2. CASE ~multi /\ schema # {}
    <3>1. Write(n, schema) \in inflight' /\ Write(n, schema).keys = schema /\ cpc' = "schema"
      BY <1>2, <2>2 DEF Write
    <3>. QED
      BY <3>1
  <2>3. CASE ~multi /\ schema = {}
    <3>1. Write(n, {k}) \in inflight' /\ k \in Write(n, {k}).keys
      BY <1>2, <2>3 DEF Write
    <3>. QED
      BY <3>1
  <2>. QED
    BY <2>1, <2>2, <2>3
<1>11. Prepared'
  BY <1>1, <1>3, <1>6 DEF Prepared
<1>12. OwnKeys'
  <2>1. ASSUME NEW w \in inflight', NEW m \in 1..Len(com'), CommitKey(m) \in w.keys
        PROVE  m = w.n
    <3>1. CASE w \in inflight
      <4>1. m # n
        BY <1>5, <2>1, <3>1
      <4>2. m \in 1..Len(com)
        BY <1>3, <4>1 DEF This
      <4>. QED
        BY <2>1, <3>1, <4>2 DEF SInv, OwnKeys
    <3>2. CASE w \notin inflight
      BY <1>7, <1>9, <2>1, <3>2, KeysApart
    <3>. QED
      BY <3>1, <3>2
  <2>. QED
    BY <2>1 DEF OwnKeys
<1>13. OneWrite'
  <2>1. multi => cpc' \notin {"schema", "nodes"} /\ torn = {} /\ CommitKey(head) \in store
    BY <1>2 DEF SInv, OneWrite
  <2>2. ASSUME NEW w \in inflight', multi PROVE Branch \in w.keys /\ CommitKey(w.n) \in w.keys
    BY <1>9, <2>2 DEF SInv, OneWrite
  <2>. QED
    BY <1>1, <2>1, <2>2 DEF OneWrite
<1>14. ASSUME failures = 0 PROVE NoneRefused' /\ WritesOfThis'
  <2>1. cpc' \in {"schema", "nodes", "roots"}
    BY <1>2
  <2>2. \A w \in inflight' : w.n = n
    BY <1>8, <1>9, <1>14
  <2>. QED
    BY <1>1, <1>3, <1>14, <2>1, <2>2 DEF SInv, NoneRefused, WritesOfThis
<1>15. ASSUME failures = 0, NEW t \in Range(db.txs) \cup addressed
       PROVE  Leaf(t) \in store \/ Leaf(t) \in nodes
  <2>1. CASE t \in addressed
    <3>1. Coming(Leaf(t))
      BY <1>1, <1>15, <2>1 DEF SInv, NodesComing
    <3>. QED
      BY <1>8, <1>15, <3>1, Settled
  <2>2. CASE t \notin addressed
    BY <1>1, <2>2
  <2>. QED
    BY <2>1, <2>2
<1>16. ASSUME failures = 0, NEW k \in wcache \cup {SchemaKey(db)}
       PROVE  k \in store \/ k \in schema
  <2>1. CASE k \in wcache
    <3>1. Coming(k)
      BY <1>16, <2>1 DEF SInv, SchemasComing
    <3>. QED
      BY <1>8, <1>16, <3>1, Settled
  <2>2. CASE k \notin wcache
    BY <1>1, <2>2
  <2>. QED
    BY <2>1, <2>2
<1>17. ASSUME failures = 0 PROVE NodesComing' /\ SchemasComing'
  <2>1. NodesComing'
    <3>1. ASSUME NEW t \in addressed'
          PROVE  \/ Leaf(t) \in store' \/ \E w \in inflight' : Leaf(t) \in w.keys
                 \/ cpc' = "schema" /\ Leaf(t) \in kvs'
      BY <1>1, <1>10, <1>15, <1>17
    <3>. QED
      BY <3>1 DEF NodesComing, Coming
  <2>2. SchemasComing'
    <3>1. \A k \in schema : k \notin nodes
      BY <1>1 DEF SchemaKey, Leaf
    <3>2. ASSUME NEW k \in wcache'
          PROVE  k \in store' \/ \E w \in inflight' : k \in w.keys
      BY <1>1, <1>10, <1>16, <1>17, <3>1
    <3>. QED
      BY <3>2 DEF SchemasComing, Coming
  <2>. QED
    BY <2>1, <2>2
<1>18. ASSUME failures = 0 PROVE RootsAfter'
  <2>1. ASSUME NEW w \in inflight', Branch \in w.keys \/ CommitKey(n) \in w.keys
        PROVE  Pointed(com'[n]) \subseteq store \cup w.keys
    <3>1. w.keys = all
      BY <1>7, <1>8, <1>9, <1>18, <2>1
    <3>2. Leaves(db) \subseteq store \cup nodes
      BY <1>15, <1>18 DEF Leaves
    <3>3. SchemaKey(db) \in store \cup schema
      BY <1>16, <1>18
    <3>. QED
      BY <1>6, <3>1, <3>2, <3>3
  <2>. QED
    BY <1>1, <1>3, <2>1 DEF RootsAfter, Pointed, Leaves, SchemaKey
<1>19. NoCommitWrite /\ \A w \in refused : w.n # n
  BY <1>1, <1>3, NoneInOthers, StoreFacts
<1>22. ASSUME NEW w \in inflight', CommitKey(w.n) \in w.keys
       PROVE  multi /\ w.n = n /\ w.keys = all /\ cpc' = "roots" /\ w = Write(n, all)
  <2>1. w \notin inflight
    BY <1>19, <1>22 DEF NoCommitWrite
  <2>2. multi
    BY <1>7, <1>9, <1>22, <2>1
  <2>. QED
    BY <1>2, <1>9, <2>1, <2>2
<1>23. CommitWrites'
  <2>1. CommitAlone'
    BY <1>1, <1>22 DEF CommitAlone
  <2>2. Failed' = {}
    BY <1>1, <1>3, <1>19 DEF Failed
  <2>3. CommitsInRoots'
    BY <1>3, <1>22, <2>2 DEF CommitsInRoots
  <2>4. ASSUME cpc' = "roots", NEW v \in Unfinished' PROVE CommitKey(n) \in v.keys
    <3>1. v \in inflight' /\ v.n = n /\ v \notin inflight /\ multi
      BY <1>2, <1>3, <2>4, StoreFacts DEF Unfinished
    <3>. QED
      BY <1>9, <3>1
  <2>5. RootsOnly'
    BY <1>3, <2>2, <2>4 DEF RootsOnly
  <2>. QED
    BY <2>1, <2>3, <2>5 DEF CommitWrites
<1>24. CommitKey(head) \in store \/ head \in torn
  BY <1>3, <1>4, <1>19, SoundSettled DEF SInv, RootsSound, This
<1>25. RootsSound'
  <2>1. Sound(head)'
    BY <1>1, <1>24 DEF Sound, Coming
  <2>2. ASSUME NEW w \in inflight', Branch \in w.keys PROVE Sound(w.n)'
    <3>1. CommitKey(w.n) \in w.keys
      BY <1>1, <1>7, <1>9, <2>2
    <3>. QED
      BY <2>2, <3>1 DEF Sound, Coming
  <2>. QED
    BY <2>1, <2>2 DEF RootsSound
<1>26. ParentsKept'
  <2>1. ASSUME NEW m \in 2..Len(com')
        PROVE  CommitKey(com'[m].parent) \in store \/ com'[m].parent \in torn
    <3>1. CASE m = n
      BY <1>3, <1>24, <3>1
    <3>2. CASE m # n
      <4>1. m \in 2..Len(com) /\ com'[m] = com[m]
        BY <1>3, <3>2, StoreFacts
      <4>. QED
        BY <4>1 DEF SInv, ParentsKept
    <3>. QED
      BY <3>1, <3>2
  <2>. QED
    BY <1>1, <2>1 DEF ParentsKept
<1>20. HeadClosed'
  BY <1>1, <1>4 DEF SInv, HeadClosed, Leaves, SchemaKey
<1>21. CommitsClosed'
  <2>1. ASSUME failures = 0, NEW m \in 1..Len(com'), CommitKey(m) \in store
        PROVE  Leaves(com'[m]) \subseteq store /\ SchemaKey(com'[m]) \in store
    <3>1. m \in 1..Len(com) /\ com'[m] = com[m]
      BY <1>3, <1>5, <2>1, StoreFacts
    <3>. QED
      BY <2>1, <3>1 DEF SInv, CommitsClosed
  <2>. QED
    BY <1>1, <2>1 DEF CommitsClosed, Leaves, SchemaKey
<1>. QED
  BY <1>1, <1>11, <1>12, <1>13, <1>14, <1>17, <1>18, <1>20, <1>21, <1>23, <1>25, <1>26 DEF SInv

\* More writes of the commit in progress only bring more keys.
LEMMA ComingKept ==
    ASSUME store \subseteq store', inflight \subseteq inflight', NEW k, Coming(k)
    PROVE  Coming(k)'
  BY DEF Coming

\* The writes of the commit in progress are finished.
LEMMA AwaitedEmpty ==
    ASSUME SInv, Awaited, failures = 0
    PROVE  inflight = {}
  BY DEF SInv, WritesOfThis, Awaited, Unfinished

\* The schema record is written: the nodes follow.
LEMMA SchemaWrittenStore ==
    ASSUME TypeOK, SInv, SchemaWritten
    PROVE  SInv'
<1>1. /\ UNCHANGED <<store, refused, torn, addressed, wcache, com, kvs, multi, head, failures>>
      /\ cpc = "schema" /\ cpc' = "nodes" /\ Awaited /\ ~multi
      /\ inflight' = inflight \cup {Write(This, {k}) : k \in kvs}
  BY DEF SchemaWritten, boundVars, NodeWrites, SInv, OneWrite
<1>2. This' = This /\ \A k : Coming(k) => Coming(k)'
  BY <1>1, ComingKept DEF This
<1>3. ASSUME NEW w \in inflight', w \notin inflight
      PROVE  w.n = This /\ Branch \notin w.keys /\ \A n : CommitKey(n) \notin w.keys
  <2>1. PICK k \in kvs : w = Write(This, {k})
    BY <1>1, <1>3
  <2>2. w.n = This /\ w.keys = {k} /\ k \in {Leaf(t) : t \in Tx}
    BY <2>1, StoreFacts DEF Write
  <2>. QED
    BY <2>2, KeysApart
<1>4. Prepared' /\ OneWrite'
  BY <1>1, <1>2 DEF SInv, Prepared, OneWrite, SchemaKey
<1>11. CommitWrites' /\ NoCommitWrite'
  <2>1. NoCommitWrite'
    BY <1>1, <1>3, NoneInOthers DEF NoCommitWrite
  <2>. QED
    BY <1>1, <2>1 DEF CommitWrites, CommitAlone, CommitsInRoots, RootsOnly, NoCommitWrite
<1>5. OwnKeys'
  BY <1>1, <1>3 DEF SInv, OwnKeys
<1>6. ASSUME failures = 0 PROVE NoneRefused' /\ WritesOfThis'
  BY <1>1, <1>2, <1>3, <1>6 DEF SInv, NoneRefused, WritesOfThis
<1>7. ASSUME failures = 0 PROVE NodesComing' /\ SchemasComing'
  <2>1. ASSUME NEW t \in addressed, Leaf(t) \in kvs PROVE \E w \in inflight' : Leaf(t) \in w.keys
    <3>1. Write(This, {Leaf(t)}) \in inflight' /\ Leaf(t) \in Write(This, {Leaf(t)}).keys
      BY <1>1, <2>1 DEF Write
    <3>. QED
      BY <3>1
  <2>2. ASSUME NEW t \in addressed PROVE Coming(Leaf(t))'
    <3>1. CASE Coming(Leaf(t))
      BY <1>2, <3>1
    <3>2. CASE Leaf(t) \in kvs
      BY <2>1, <3>2 DEF Coming
    <3>. QED
      BY <1>7, <3>1, <3>2 DEF SInv, NodesComing
  <2>3. NodesComing'
    BY <1>1, <2>2 DEF NodesComing
  <2>4. SchemasComing'
    BY <1>1, <1>2, <1>7 DEF SInv, SchemasComing
  <2>. QED
    BY <2>3, <2>4
<1>8. ASSUME failures = 0 PROVE RootsAfter'
  <2>1. inflight = {}
    BY <1>1, <1>8, AwaitedEmpty
  <2>. QED
    BY <1>2, <1>3, <2>1 DEF RootsAfter
<1>9. RootsSound' /\ ParentsKept'
  <2>1. \A m : Sound(m) => Sound(m)'
    BY <1>1, <1>2 DEF Sound
  <2>. QED
    BY <1>1, <1>3, <2>1 DEF SInv, RootsSound, Sound, ParentsKept, Coming
<1>10. HeadClosed' /\ CommitsClosed'
  BY <1>1 DEF SInv, HeadClosed, CommitsClosed, Leaves, SchemaKey
<1>. QED
  BY <1>1, <1>4, <1>5, <1>6, <1>7, <1>8, <1>9, <1>10, <1>11 DEF SInv

\* All that the commit points to is written: the roots follow.
LEMMA NodesWrittenStore ==
    ASSUME TypeOK, SInv, NodesWritten
    PROVE  SInv'
<1> DEFINE c == Write(This, {CommitKey(This)})
           b == Write(This, {Branch})
<1>1. /\ UNCHANGED <<store, refused, torn, addressed, wcache, com, kvs, multi, head, failures>>
      /\ cpc = "nodes" /\ cpc' = "roots" /\ Awaited /\ ~multi
      /\ inflight' = inflight \cup {c, b}
  BY DEF NodesWritten, boundVars, RootWrites, SInv, OneWrite
<1>2. This' = This /\ \A k : Coming(k) => Coming(k)'
  BY <1>1, ComingKept DEF This
<1>3. /\ c.n = This /\ c.keys = {CommitKey(This)} /\ c \in inflight'
      /\ b.n = This /\ b.keys = {Branch} /\ b \in inflight'
  BY <1>1 DEF Write
<1>. HIDE DEF c, b
<1>4. Prepared' /\ OneWrite'
  BY <1>1 DEF Prepared, OneWrite
<1>11. CommitWrites'
  <2>1. Failed' = {} /\ NoCommitWrite /\ Unfinished' = {c, b}
    BY <1>1, <1>2, <1>3, NoneInOthers DEF Awaited, Failed, Unfinished
  <2>2. ASSUME NEW w \in inflight', CommitKey(w.n) \in w.keys PROVE w = c
    BY <1>1, <1>3, <2>1, <2>2, KeysApart DEF NoCommitWrite
  <2>3. CommitAlone'
    BY <1>3, <2>2 DEF CommitAlone
  <2>4. CommitsInRoots'
    BY <1>1, <1>2, <1>3, <2>1, <2>2 DEF CommitsInRoots
  <2>5. RootsOnly'
    BY <1>1, <1>2, <1>3, <2>1 DEF RootsOnly
  <2>. QED
    BY <2>3, <2>4, <2>5 DEF CommitWrites
<1>5. OwnKeys'
  BY <1>1, <1>3, KeysApart DEF SInv, OwnKeys
<1>6. ASSUME failures = 0 PROVE NoneRefused' /\ WritesOfThis'
  BY <1>1, <1>2, <1>3, <1>6 DEF SInv, NoneRefused, WritesOfThis
<1>7. ASSUME failures = 0 PROVE NodesComing' /\ SchemasComing'
  BY <1>1, <1>2, <1>7 DEF SInv, NodesComing, SchemasComing
<1>8. ASSUME failures = 0 PROVE RootsAfter'
  <2>1. inflight = {}
    BY <1>1, <1>8, AwaitedEmpty
  <2>2. \A t \in addressed : Leaf(t) \in store
    BY <1>1, <1>8, <2>1, Settled DEF SInv, NodesComing
  <2>3. \A k \in wcache : k \in store
    BY <1>8, <2>1, Settled DEF SInv, SchemasComing
  <2>4. Pointed(com[This]) \subseteq store
    BY <1>1, <2>2, <2>3 DEF SInv, Prepared, Pointed, Leaves
  <2>5. (Pointed(com[This]) \subseteq store)'
    BY <1>1, <1>2, <2>4 DEF Pointed, Leaves, SchemaKey
  <2>. QED
    BY <2>5 DEF RootsAfter
<1>9. RootsSound' /\ ParentsKept'
  <2>1. \A m : Sound(m) => Sound(m)'
    BY <1>1, <1>2 DEF Sound
  <2>2. Sound(This)'
    BY <1>2, <1>3 DEF Sound, Coming
  <2>3. ASSUME NEW w \in inflight', Branch \in w.keys PROVE Sound(w.n)'
    <3>1. CASE w \in inflight
      BY <2>1, <2>3, <3>1 DEF SInv, RootsSound
    <3>2. CASE w \notin inflight
      <4>1. w.n = This'
        BY <1>1, <1>2, <1>3, <3>2
      <4>. QED
        BY <2>2, <4>1 DEF Sound, Coming
    <3>. QED
      BY <3>1, <3>2
  <2>4. Sound(head)'
    BY <1>1, <2>1 DEF SInv, RootsSound, Sound, Coming
  <2>. QED
    BY <1>1, <2>3, <2>4 DEF SInv, RootsSound, ParentsKept
<1>10. HeadClosed' /\ CommitsClosed'
  BY <1>1 DEF SInv, HeadClosed, CommitsClosed, Leaves, SchemaKey
<1>. QED
  BY <1>1, <1>4, <1>5, <1>6, <1>7, <1>8, <1>9, <1>10, <1>11 DEF SInv

\* A write lands.
LEMMA LandStore ==
    ASSUME TypeOK, SInv, NEW w \in inflight, Land(w)
    PROVE  SInv'
<1>1. /\ UNCHANGED <<refused, torn, addressed, wcache, com, kvs, multi, failures, cpc>>
      /\ inflight' = inflight \ {w} /\ store' = store \cup w.keys
      /\ head' = IF Branch \in w.keys THEN w.n ELSE head
  BY DEF Land, commitVars, boundVars
<1>2. This' = This /\ \A k : Coming(k) => Coming(k)'
  BY <1>1 DEF This, Coming
<1>3. Prepared' /\ OwnKeys'
  BY <1>1, <1>2 DEF SInv, Prepared, OwnKeys, SchemaKey
<1>11. OneWrite'
  BY <1>1 DEF SInv, OneWrite
<1>12. CommitWrites'
  <2>1. Failed' = Failed /\ Unfinished' \subseteq Unfinished
    BY <1>1, <1>2 DEF Failed, Unfinished
  <2>. QED
    BY <1>1, <1>2, <2>1 DEF SInv, CommitWrites, CommitAlone, CommitsInRoots, RootsOnly
<1>4. ASSUME failures = 0 PROVE NoneRefused' /\ WritesOfThis'
  BY <1>1, <1>2, <1>4 DEF SInv, NoneRefused, WritesOfThis
<1>5. ASSUME failures = 0 PROVE NodesComing' /\ SchemasComing'
  BY <1>1, <1>2, <1>5 DEF SInv, NodesComing, SchemasComing
<1>6. ASSUME failures = 0 PROVE RootsAfter'
  <2>1. RootsAfter
    BY <1>6 DEF SInv
  <2>. QED
    BY <1>1, <1>2, <2>1 DEF RootsAfter, Pointed, Leaves, SchemaKey
<1>7. RootsSound' /\ ParentsKept'
  <2>1. \A m : Sound(m) => Sound(m)'
    BY <1>1, <1>2 DEF Sound
  <2>2. ASSUME NEW h, h = head' PROVE Sound(h)
    BY <1>1, <2>2 DEF SInv, RootsSound
  <2>3. Sound(head)'
    BY <2>1, <2>2 DEF Sound, Coming
  <2>4. \A v \in inflight' : Branch \in v.keys => Sound(v.n)'
    BY <1>1, <2>1 DEF SInv, RootsSound
  <2>. QED
    BY <1>1, <2>3, <2>4 DEF SInv, RootsSound, ParentsKept
<1>8. ASSUME failures = 0, Branch \in w.keys \/ CommitKey(This) \in w.keys
      PROVE  Leaves(com[This]) \subseteq store' /\ SchemaKey(com[This]) \in store'
  BY <1>1, <1>8 DEF SInv, RootsAfter, Pointed
<1>9. HeadClosed'
  <2>1. CASE Branch \in w.keys
    <3>1. failures = 0 => head' = This
      BY <1>1, <2>1 DEF SInv, WritesOfThis
    <3>. QED
      BY <1>1, <1>8, <2>1, <3>1 DEF HeadClosed, Leaves, SchemaKey
  <2>2. CASE Branch \notin w.keys
    BY <1>1, <2>2 DEF SInv, HeadClosed, Leaves, SchemaKey
  <2>. QED
    BY <2>1, <2>2
<1>10. CommitsClosed'
  <2>1. ASSUME failures = 0, NEW n \in 1..Len(com), CommitKey(n) \in store'
        PROVE  Leaves(com[n]) \subseteq store' /\ SchemaKey(com[n]) \in store'
    <3>1. CASE CommitKey(n) \in store
      BY <1>1, <2>1, <3>1 DEF SInv, CommitsClosed
    <3>2. CASE CommitKey(n) \notin store
      <4>1. CommitKey(n) \in w.keys
        BY <1>1, <2>1, <3>2
      <4>2. n = This
        BY <2>1, <4>1 DEF SInv, OwnKeys, WritesOfThis
      <4>. QED
        BY <1>8, <2>1, <4>1, <4>2
    <3>. QED
      BY <3>1, <3>2
  <2>. QED
    BY <1>1, <2>1 DEF CommitsClosed, Leaves, SchemaKey
<1>. QED
  BY <1>1, <1>3, <1>4, <1>5, <1>6, <1>7, <1>9, <1>10, <1>11, <1>12 DEF SInv

\* A write is refused: a commit may be lost for which the branch key is or will be
\* set.
LEMMA RefuseStore ==
    ASSUME TypeOK, SInv, NEW w \in inflight, Refuse(w)
    PROVE  SInv'
<1>1. /\ UNCHANGED <<store, addressed, wcache, com, kvs, multi, head, cpc>>
      /\ inflight' = inflight \ {w} /\ refused' = refused \cup {w}
      /\ torn' = torn \cup LostCommits({w})
      /\ failures' = failures + 1 /\ failures \in Nat
  BY StoreFacts DEF Refuse, commitVars
<1>2. failures' # 0 /\ This' = This
  BY <1>1 DEF This
<1>3. Prepared' /\ OwnKeys'
  BY <1>1, <1>2 DEF SInv, Prepared, OwnKeys, SchemaKey
<1>4. OneWrite'
  <2>1. multi => LostCommits({w}) = {}
    BY NoneTorn
  <2>. QED
    BY <1>1, <2>1 DEF SInv, OneWrite
<1>5. CommitWrites'
  <2>1. CommitAlone'
    BY <1>1 DEF SInv, CommitWrites, CommitAlone
  <2>2. Unfinished' \subseteq Unfinished /\ Failed' \subseteq Failed \cup {w}
        /\ (w \in Failed' => w \in Unfinished \cup Failed)
    BY <1>1, <1>2 DEF Failed, Unfinished
  <2>3. RootsOnly'
    BY <1>1, <1>2, <2>2 DEF SInv, CommitWrites, RootsOnly
  <2>4. ASSUME NEW v \in inflight', CommitKey(v.n) \in v.keys
        PROVE  CommitKey(This) \notin w.keys
    <3>1. SUFFICES ASSUME CommitKey(This) \in w.keys PROVE FALSE
      OBVIOUS
    <3>2. w.n = This
      BY <3>1, StoreFacts DEF SInv, OwnKeys
    <3>3. v.n = This
      BY <1>1, <2>4 DEF SInv, CommitWrites, CommitsInRoots
    <3>. QED
      BY <1>1, <2>4, <3>1, <3>2, <3>3 DEF SInv, CommitWrites, CommitAlone
  <2>5. CommitsInRoots'
    BY <1>1, <1>2, <2>2, <2>4 DEF SInv, CommitWrites, CommitsInRoots
  <2>. QED
    BY <2>1, <2>3, <2>5 DEF CommitWrites
<1>6. RootsSound'
  <2>1. Sound(head)'
    <3>1. PICK h : h = head
      OBVIOUS
    <3>2. Sound(h) /\ h \in 1..Len(com) /\ (multi => CommitKey(h) \in store) /\ h = head'
      BY <1>1, <3>1, StoreFacts DEF SInv, RootsSound, OneWrite, This
    <3>3. Sound(h)'
      BY <1>1, <3>2, LostSound
    <3>. QED
      BY <3>2, <3>3 DEF Sound, Coming
  <2>2. ASSUME NEW v \in inflight', Branch \in v.keys PROVE Sound(v.n)'
    <3>1. /\ v \in inflight /\ v.n \in 1..Len(com) /\ Sound(v.n)
          /\ multi => v \in inflight \ {w} /\ CommitKey(v.n) \in v.keys
      BY <1>1, <2>2, StoreFacts DEF SInv, RootsSound, OneWrite
    <3>. QED
      BY <1>1, <3>1, LostSound
  <2>. QED
    BY <2>1, <2>2 DEF RootsSound
<1>7. ParentsKept'
  BY <1>1 DEF SInv, ParentsKept
<1>8. HeadClosed' /\ CommitsClosed'
  BY <1>2 DEF HeadClosed, CommitsClosed
<1>. QED
  BY <1>2, <1>3, <1>4, <1>5, <1>6, <1>7, <1>8 DEF SInv

\* The process dies: what the store holds is all there is, and commits may be lost
\* for which the branch key was set.
LEMMA CrashStore ==
    ASSUME TypeOK, SInv, Crash
    PROVE  SInv'
<1>1. /\ UNCHANGED <<store, com, multi, head, failures>>
      /\ torn' = torn \cup LostCommits(inflight) /\ failures \in Nat
      /\ cpc' = "stopped" /\ addressed' = {} /\ wcache' = {} /\ inflight' = {} /\ refused' = {}
  BY StoreFacts DEF Crash
<1>2. Prepared' /\ OwnKeys'
  BY <1>1 DEF Prepared, OwnKeys
<1>3. OneWrite'
  <2>1. multi => LostCommits(inflight) = {}
    BY NoneTorn
  <2>. QED
    BY <1>1, <2>1 DEF SInv, OneWrite
<1>4. CommitWrites'
  BY <1>1 DEF CommitWrites, CommitAlone, CommitsInRoots, RootsOnly
<1>5. NoneRefused' /\ WritesOfThis' /\ NodesComing' /\ SchemasComing' /\ RootsAfter'
  BY <1>1 DEF NoneRefused, WritesOfThis, NodesComing, SchemasComing, RootsAfter
<1>6. RootsSound' /\ ParentsKept'
  <2>1. PICK h : h = head
    OBVIOUS
  <2>2. Sound(h) /\ h \in 1..Len(com) /\ (multi => CommitKey(h) \in store) /\ h = head'
    BY <1>1, <2>1, StoreFacts DEF SInv, RootsSound, OneWrite, This
  <2>3. inflight' = inflight \ inflight
    BY <1>1
  <2>5. Sound(h)'
    BY <1>1, <2>2, <2>3, LostSound
  <2>4. Sound(head)'
    BY <2>2, <2>5 DEF Sound, Coming
  <2>. QED
    BY <1>1, <2>4 DEF SInv, RootsSound, ParentsKept
<1>7. HeadClosed' /\ CommitsClosed'
  BY <1>1 DEF SInv, HeadClosed, CommitsClosed, Leaves, SchemaKey
<1>. QED
  BY <1>2, <1>3, <1>4, <1>5, <1>6, <1>7 DEF SInv

\* A new process takes the nodes of the durable value for stored, as they are.
LEMMA ConnectStore ==
    ASSUME IInv, SInv, Connect
    PROVE  SInv'
<1>1. /\ UNCHANGED <<store, inflight, refused, torn, wcache, com, kvs, multi, head, failures>>
      /\ inflight = {} /\ cpc' = "take" /\ addressed' = Range(com[head].txs)
  BY DEF Connect, Loaded, storeVars, boundVars, IInv, DownEmpty
<1>2. Prepared' /\ OwnKeys' /\ OneWrite' /\ CommitWrites'
  BY <1>1 DEF SInv, Prepared, OwnKeys, OneWrite, CommitWrites, CommitAlone, CommitsInRoots,
              RootsOnly
<1>3. ASSUME failures = 0
      PROVE  NoneRefused' /\ WritesOfThis' /\ SchemasComing' /\ RootsAfter'
  BY <1>1, <1>3 DEF SInv, NoneRefused, WritesOfThis, SchemasComing, RootsAfter, Coming
<1>4. ASSUME failures = 0 PROVE NodesComing'
  BY <1>1, <1>4 DEF SInv, HeadClosed, Leaves, NodesComing, Coming
<1>5. RootsSound' /\ ParentsKept'
  BY <1>1 DEF SInv, RootsSound, Sound, ParentsKept, Coming
<1>6. HeadClosed' /\ CommitsClosed'
  BY <1>1 DEF SInv, HeadClosed, CommitsClosed, Leaves, SchemaKey
<1>. QED
  BY <1>1, <1>2, <1>3, <1>4, <1>5, <1>6 DEF SInv

LEMMA StoreInit == Init => SInv
<1>. SUFFICES ASSUME Init PROVE SInv
  OBVIOUS
<1>1. /\ inflight = {} /\ refused = {} /\ addressed = {} /\ wcache = {} /\ cpc = "stopped"
      /\ head = 1 /\ failures = 0 /\ torn = {}
      /\ Len(com) = 1 /\ com[1].txs = EmptyDb.txs
      /\ store = {SchemaKey(EmptyDb), CommitKey(1), Branch}
  BY DEF Init, EmptyDb
<1>2. Leaves(com[1]) = {} /\ SchemaKey(com[1]) = SchemaKey(EmptyDb)
  <2>1. Range(com[1].txs) = {}
    BY <1>1 DEF EmptyDb, Range
  <2>. QED
    BY <1>1, <2>1 DEF Leaves, SchemaKey
<1>3. Prepared /\ OwnKeys /\ OneWrite /\ CommitWrites
  BY <1>1 DEF Prepared, OwnKeys, OneWrite, CommitWrites, CommitAlone, CommitsInRoots, RootsOnly
<1>4. NoneRefused /\ WritesOfThis /\ NodesComing /\ SchemasComing /\ RootsAfter
  BY <1>1 DEF NoneRefused, WritesOfThis, NodesComing, SchemasComing, RootsAfter
<1>5. RootsSound /\ ParentsKept
  BY <1>1 DEF RootsSound, Sound, ParentsKept, Coming
<1>6. HeadClosed /\ CommitsClosed
  BY <1>1, <1>2 DEF HeadClosed, CommitsClosed
<1>. QED
  BY <1>3, <1>4, <1>5, <1>6 DEF SInv

LEMMA StoreStep == IInv /\ TypeOK' /\ SInv /\ [Next]_vars => SInv'
<1>. SUFFICES ASSUME IInv, TypeOK', SInv, [Next]_vars PROVE SInv'
  OBVIOUS
<1>. USE DEF clientVars, procVars, commitVars, storeVars, connVars, boundVars
<1>1. TypeOK
  BY DEF IInv
<1>2. ASSUME \/ \E t \in Tx : Call(t) \/ Dispatch(t) \/ FinishBackground(t)
             \/ ProcessingLoop \/ ReportError \/ Release \/ UNCHANGED vars
      PROVE  SInv'
  <2>1. UNCHANGED <<store, inflight, refused, torn, addressed, wcache, com, kvs, multi,
                    head, failures, cpc>>
    BY <1>2 DEF Call, Dispatch, FinishBackground, ProcessingLoop, TransactOk, TransactError,
                StartBackground, Enqueue, StopProcessing, ReportError, AnswerNext, Release, vars
  <2>. QED
    BY <2>1, StoreFrame
<1>3. ASSUME \/ Take \/ StopCommitting \/ Publish \/ Confirm \/ CommitError \/ CloseQueues
      PROVE  SInv'
  <2>1. UNCHANGED <<store, inflight, refused, torn, addressed, wcache, com, kvs, multi,
                    head, failures>>
    BY <1>3 DEF Take, StopCommitting, Publish, Confirm, AnswerNext, CommitError, CloseQueues
  <2>2. cpc' \notin {"schema", "nodes", "roots"}
    BY <1>3 DEF Take, StopCommitting, Publish, Confirm, CommitError, CloseQueues
  <2>3. ASSUME failures = 0 PROVE inflight = {} /\ cpc # "schema" /\ cpc' # "error"
    <3>1. NoneRefused /\ WritesOfThis
      BY <2>3 DEF SInv
    <3>2. CASE Take \/ StopCommitting \/ Confirm
      BY <3>1, <3>2 DEF Take, StopCommitting, Confirm, WritesOfThis
    <3>3. CASE Publish
      BY <2>3, <3>3, AwaitedEmpty DEF Publish
    <3>4. CASE CommitError \/ CloseQueues
      BY <3>1, <3>4 DEF CommitError, CloseQueues, Failed, NoneRefused
    <3>. QED
      BY <1>3, <3>2, <3>3, <3>4
  <2>4. NoCommitWrite
    <3>1. ASSUME cpc = "roots", NEW w \in inflight, CommitKey(w.n) \in w.keys PROVE FALSE
      <4>1. w \in Unfinished /\ CommitKey(This) \in w.keys /\ w.n = This
        BY <3>1 DEF SInv, CommitWrites, CommitsInRoots, Unfinished
      <4>2. CommitError
        BY <1>3, <3>1, <4>1 DEF Take, StopCommitting, Publish, Awaited, Confirm, CloseQueues
      <4>3. PICK v \in Failed : v.keys = {Branch} =>
                                   \A u \in Unfinished : CommitKey(This) \notin u.keys
        BY <4>2 DEF CommitError
      <4>4. v.keys = {Branch} \/ CommitKey(This) \in v.keys
        BY <3>1 DEF SInv, CommitWrites, RootsOnly
      <4>. QED
        BY <3>1, <4>1, <4>3, <4>4 DEF SInv, CommitWrites, CommitsInRoots
    <3>. QED
      BY <3>1, NoneInOthers DEF NoCommitWrite
  <2>. QED
    BY <2>1, <2>2, <2>3, <2>4, StoreFrame
<1>4. CASE Flush
  BY <1>1, <1>4, FlushStore
<1>5. CASE SchemaWritten
  BY <1>1, <1>5, SchemaWrittenStore
<1>6. CASE NodesWritten
  BY <1>1, <1>6, NodesWrittenStore
<1>7. ASSUME NEW w \in inflight, Land(w) \/ Refuse(w) PROVE SInv'
  BY <1>1, <1>7, LandStore, RefuseStore
<1>8. CASE Crash
  BY <1>1, <1>8, CrashStore
<1>9. CASE Connect
  BY <1>9, ConnectStore
<1>. QED
  BY <1>2, <1>3, <1>4, <1>5, <1>6, <1>7, <1>8, <1>9 DEF Next, CommitLoop

-------------------------------------------------------------------------------
(* Theorems *)

\* What the branch key and the commits in the store point to is there or on its way:
\* the inductive invariant of the store, however commits, refusals and crashes follow.
THEOREM StoreInvariant == Spec => []SInv
<1>1. IInv => TypeOK
  BY DEF IInv
<1>. QED
  BY <1>1, Invariant, StoreInit, StoreStep, PTL DEF Spec

\* What the branch key and the commits in the store point to is in the store at
\* every moment, and so after every crash, as long as no write was refused.
THEOREM PointersKept == Spec => []PointersClosed
<1>1. SInv => PointersClosed
  BY DEF SInv, PointersClosed
<1>. QED
  BY <1>1, StoreInvariant, PTL

\* The history of commits can be walked: the parent of every commit is in the
\* store, whichever writes are refused and whenever the process dies, but for a
\* parent whose own write was lost apart from that of its branch key, in a store
\* without multi-key writes.
THEOREM HistoryKept == Spec => []HistoryClosed
<1>1. SInv => HistoryClosed
  BY DEF SInv, OneWrite, HistoryClosed, ParentsKept
<1>. QED
  BY <1>1, StoreInvariant, PTL
===============================================================================
