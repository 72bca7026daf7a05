---------------------------- MODULE VersionsProofs ----------------------------
(***************************************************************************)
(* What is true of Versions for any set of branches and schemas, and any   *)
(* number of commits, collections, calls and crashes: the schema write     *)
(* cache never hides a record that is not there, and as long as nothing of *)
(* what odd tells apart happens, what a record in the store points to is   *)
(* there, the history of a branch is complete, and collections end.        *)
(*                                                                         *)
(* CacheInv, Typed and RegularInv are inductive together.  CacheInv is     *)
(* about the write cache, Typed about what the variables hold.  RegularInv *)
(* says which keys the store holds or is about to, and while a collection  *)
(* marks, which of them survive it.  Each is followed by a lemma for every *)
(* action; the theorems come last.                                         *)
(***************************************************************************)
EXTENDS Versions, TLAPS

\* Every worker has a job, and a job has a step and keys.
JobsOK == /\ DOMAIN job = Worker
          /\ \A w \in Worker : {"step", "keys"} \subseteq DOMAIN job[w]
          /\ {"step"} \subseteq DOMAIN gc

\* A record in the cache was written after the collection that runs took the
\* time, once that has cleared the cache: the sweep spares it.
CachedYoung ==
    gc.step = "mark" =>
        \A s \in wcache : \/ SchemaKey(s) \in young
                          \/ \E w \in Worker : ToWrite(w, SchemaKey(s))

CacheInv == JobsOK /\ WriteCacheTrue /\ CachedYoung

LEMMA CacheInit == Init => CacheInv
  BY DEF Init, CacheInv, JobsOK, WriteCacheTrue, CachedYoung, NoJob, NoGc

\* Whoever takes the nodes when a job starts, the schema records that had to be
\* written still have, by the job that had them or by the one that starts.
LEMMA FlushStep ==
    ASSUME JobsOK, NEW w \in Worker, NEW k \in Branch, Idle(w), w \in {User, k},
           NEW j, {"step", "keys"} \subseteq DOMAIN j, j.step = "nodes",
           NEW nodes, Flush(w, k, j, nodes)
    PROVE  /\ DOMAIN job' = Worker
           /\ \A x \in Worker : {"step", "keys"} \subseteq DOMAIN job'[x]
           /\ \A x \in Worker : \A s : ToWrite(x, SchemaKey(s)) => ToWrite(x, SchemaKey(s))'
           /\ \A s : SchemaKey(s) \in j.keys => ToWrite(w, SchemaKey(s))'
<1> DEFINE p == Partner(w, k)
           theirs == NodesIn(job[p].keys)
<1>1. DOMAIN job = Worker /\ job[w].step = "idle" /\ p \in Worker
  BY DEF JobsOK, Idle, NoJob, Worker, Partner
<1>2. \A s : SchemaKey(s) \notin theirs
  BY DEF NodesIn, SchemaKey
<1>3. CASE job' = [job EXCEPT ![w] = [j EXCEPT !.keys = @ \cup nodes]]
  BY <1>1, <1>3 DEF JobsOK, ToWrite, SchemaKey
<1>4. CASE /\ Shared(w, k)
           /\ \/ job' = [job EXCEPT ![w] = [j EXCEPT !.keys = @ \cup nodes \cup theirs],
                                    ![p].keys = @ \ theirs]
              \/ job' = [job EXCEPT ![w] = j, ![p].keys = @ \cup nodes]
  <2>1. PICK mine, kept :
             /\ \A s : SchemaKey(s) \in j.keys => SchemaKey(s) \in mine
             /\ \A s : SchemaKey(s) \in job[p].keys => SchemaKey(s) \in kept
             /\ \/ job' = [job EXCEPT ![w] = [j EXCEPT !.keys = mine], ![p].keys = kept]
                \/ mine = j.keys /\ job' = [job EXCEPT ![w] = j, ![p].keys = kept]
    <3>. HIDE DEF theirs, p
    <3>1. \A s : SchemaKey(s) \in job[p].keys => SchemaKey(s) \in job[p].keys \ theirs
      BY <1>2
    <3>2. p # w
      BY <1>1, <1>4 DEF Shared, p
    <3>. QED
      BY <1>1, <1>4, <3>1, <3>2
  <2>2. job[p].step = "nodes" /\ p # w
    BY <1>1, <1>4 DEF Shared
  <2>3. /\ DOMAIN job' = Worker
        /\ {"step", "keys"} \subseteq DOMAIN job'[w]
        /\ job'[w].step = "nodes" /\ job'[w].keys = mine
    BY <1>1, <2>1, <2>2
  <2>4. job'[p] = [job[p] EXCEPT !.keys = kept]
    BY <1>1, <2>1, <2>2
  <2>5. \A x \in Worker \ {w, p} : job'[x] = job[x]
    BY <1>1, <2>1, <2>2
  <2>6. {"step", "keys"} \subseteq DOMAIN job[p]
    BY <1>1 DEF JobsOK
  <2>7. {"step", "keys"} \subseteq DOMAIN job'[p] /\ job'[p].step = "nodes" /\ job'[p].keys = kept
    BY <2>2, <2>4, <2>6
  <2>. HIDE DEF p
  <2>. QED
    BY <1>1, <2>1, <2>3, <2>5, <2>7 DEF JobsOK, ToWrite
<1>. QED
  BY <1>3, <1>4 DEF Flush

\* An idle worker starts a commit: a schema new to the cache is in its keys.
LEMMA StartStep ==
    ASSUME CacheInv, NEW w \in Worker, NEW k \in Branch, Idle(w), w \in {User, k},
           NEW b, NEW c, NEW new, NEW resets,
           Start(w, k, b, c, new, resets), UNCHANGED <<store, gc, young>>
    PROVE  CacheInv'
<1> DEFINE j == [step |-> "nodes", on |-> k, to |-> b, n |-> Len(com) + 1,
                 keys |-> {SchemaKey(x) : x \in {c.schema} \ wcache}, resets |-> resets]
<1>1. /\ wcache' = wcache \cup {c.schema}
      /\ Flush(w, k, j, {Node(x) : x \in new})
  BY DEF Start
<1>2. j.step = "nodes" /\ {"step", "keys"} \subseteq DOMAIN j
  OBVIOUS
<1>3. \A s \in {c.schema} \ wcache : SchemaKey(s) \in j.keys
  OBVIOUS
<1>. HIDE DEF j
<1>4. /\ DOMAIN job' = Worker
      /\ \A x \in Worker : {"step", "keys"} \subseteq DOMAIN job'[x]
      /\ \A x \in Worker : \A s : ToWrite(x, SchemaKey(s)) => ToWrite(x, SchemaKey(s))'
      /\ \A s : SchemaKey(s) \in j.keys => ToWrite(w, SchemaKey(s))'
  BY <1>1, <1>2, FlushStep DEF CacheInv
<1>5. JobsOK'
  BY <1>4 DEF CacheInv, JobsOK
<1>6. \A s \in wcache' \ wcache : ToWrite(w, SchemaKey(s))'
  BY <1>1, <1>3, <1>4
<1>7. WriteCacheTrue'
  BY <1>4, <1>6 DEF CacheInv, WriteCacheTrue, SchemaKey
<1>8. CachedYoung'
  BY <1>4, <1>6 DEF CacheInv, CachedYoung, SchemaKey
<1>. QED
  BY <1>5, <1>7, <1>8 DEF CacheInv

\* A worker that is not writing nodes goes on, and keys may be written.
LEMMA WorkStep ==
    ASSUME CacheInv, NEW w \in Worker, job[w].step # "nodes", NEW j,
           {"step", "keys"} \subseteq DOMAIN j,
           job' = [job EXCEPT ![w] = j],
           UNCHANGED <<wcache, gc>>,
           \/ UNCHANGED <<store, young>>
           \/ \E keys : Put(keys)
    PROVE  CacheInv'
<1>1. DOMAIN job = Worker
  BY DEF CacheInv, JobsOK
<1>2. job'[w] = j /\ \A x \in Worker : x # w => job'[x] = job[x]
  BY <1>1
<1>3. JobsOK'
  BY <1>1, <1>2 DEF CacheInv, JobsOK
<1>4. \A x \in Worker : \A k : ToWrite(x, k) => ToWrite(x, k)'
  BY <1>1, <1>2 DEF ToWrite
<1>5. store \subseteq store' /\ (gc.step = "mark" => young \subseteq young')
  BY DEF Put, Collecting, NoGc
<1>6. WriteCacheTrue'
  BY <1>4, <1>5 DEF CacheInv, WriteCacheTrue, SchemaKey
<1>7. CachedYoung'
  BY <1>4, <1>5 DEF CacheInv, CachedYoung, SchemaKey
<1>. QED
  BY <1>3, <1>6, <1>7 DEF CacheInv

\* The nodes and the record that a job still had to write are written.
LEMMA WriteNodesStep ==
    ASSUME CacheInv, NEW w \in Worker, WriteNodes(w)
    PROVE  CacheInv'
<1>1. DOMAIN job = Worker /\ {"step", "keys"} \subseteq DOMAIN job[w]
  BY DEF CacheInv, JobsOK
<1>2. job' = [job EXCEPT ![w] = [job[w] EXCEPT !.step = "roots"]]
  BY DEF WriteNodes
<1>3. /\ {"step", "keys"} \subseteq DOMAIN job'[w]
      /\ \A x \in Worker : x # w => job'[x] = job[x]
  BY <1>1, <1>2
<1>4. JobsOK'
  BY <1>1, <1>2, <1>3 DEF CacheInv, JobsOK, WriteNodes
<1>5. /\ store' = store \cup job[w].keys
      /\ gc.step = "mark" => young' = young \cup job[w].keys
      /\ wcache' = wcache /\ gc' = gc
  BY DEF WriteNodes, Put, Collecting, NoGc
<1>6. \A x \in Worker : \A k : ToWrite(x, k) => ToWrite(x, k)' \/ k \in job[w].keys
  BY <1>3 DEF ToWrite
<1>7. WriteCacheTrue'
  BY <1>5, <1>6 DEF CacheInv, WriteCacheTrue, SchemaKey
<1>8. CachedYoung'
  BY <1>5, <1>6 DEF CacheInv, CachedYoung, SchemaKey
<1>. QED
  BY <1>4, <1>7, <1>8 DEF CacheInv

\* The sweep spares what is young.
LEMMA GcSweepStep ==
    ASSUME CacheInv, GcSweep
    PROVE  CacheInv'
<1>1. gc.step = "mark" /\ store' = store \cap (gc.reachable \cup young)
  BY DEF GcSweep, Kept
<1>2. UNCHANGED <<wcache, job>> /\ gc' = NoGc
  BY DEF GcSweep
<1>3. \A s \in wcache : \/ SchemaKey(s) \in store
                        \/ \E w \in Worker : ToWrite(w, SchemaKey(s))
  BY DEF CacheInv, WriteCacheTrue
<1>4. \A s \in wcache : \/ SchemaKey(s) \in young
                        \/ \E w \in Worker : ToWrite(w, SchemaKey(s))
  BY <1>1 DEF CacheInv, CachedYoung
<1>5. \A s \in wcache : \/ SchemaKey(s) \in store'
                        \/ \E w \in Worker : ToWrite(w, SchemaKey(s))
  BY <1>1, <1>3, <1>4
<1>6. WriteCacheTrue'
  BY <1>2, <1>5 DEF WriteCacheTrue, ToWrite, SchemaKey
<1>7. JobsOK' /\ CachedYoung'
  BY <1>2 DEF CacheInv, JobsOK, CachedYoung, NoGc
<1>. QED
  BY <1>6, <1>7 DEF CacheInv

\* Steps after which the cache is empty.
LEMMA EmptyStep ==
    ASSUME CacheInv, wcache' = {}, JobsOK'
    PROVE  CacheInv'
  BY DEF CacheInv, WriteCacheTrue, CachedYoung

\* Steps that leave the cache, the store and the jobs alone; a collection may
\* start or end, but not begin to mark.
LEMMA QuietStep ==
    ASSUME CacheInv, UNCHANGED <<wcache, store, job>>, "step" \in DOMAIN gc',
           gc'.step = "mark" => gc.step = "mark" /\ young' = young
    PROVE  CacheInv'
<1>1. JobsOK'
  BY DEF CacheInv, JobsOK
<1>2. WriteCacheTrue'
  BY DEF CacheInv, WriteCacheTrue, ToWrite
<1>3. CachedYoung'
  BY DEF CacheInv, CachedYoung, ToWrite
<1>. QED
  BY <1>1, <1>2, <1>3 DEF CacheInv

LEMMA CacheNext == CacheInv /\ [Next]_vars => CacheInv'
<1> SUFFICES ASSUME CacheInv, [Next]_vars PROVE CacheInv'
  OBVIOUS
<1>1. User \in Worker /\ \A b \in Branch : b \in Worker
  BY DEF Worker
<1>2. \A w \in Worker : Idle(w) => job[w].step # "nodes"
  BY DEF Idle, NoJob
<1>3. {"step", "keys"} \subseteq DOMAIN NoJob
  BY DEF NoJob
<1>4. ASSUME NEW b \in Branch, Commit(b) PROVE CacheInv'
  <2>1. PICK s \in Schema, date \in DatesOf(Len(com) + 1) :
             Start(b, b, b, [nodes |-> BuiltOn(mem[b], Len(com) + 1), schema |-> s,
                             parents |-> {points[b]}, time |-> date], {Len(com) + 1}, TRUE)
    BY <1>4 DEF Commit
  <2>2. Idle(b) /\ UNCHANGED <<store, gc, young>>
    BY <1>4 DEF Commit, gcVars
  <2>. QED
    BY <1>1, <2>1, <2>2, StartStep
<1>5. ASSUME NEW b \in Branch, NEW from, Merge(b, from) PROVE CacheInv'
  <2>1. PICK date \in DatesOf(Len(com) + 1) :
             Start(User, b, b, [nodes |-> BuiltOn(shown[b], Len(com) + 1),
                                schema |-> com[shown[b]].schema,
                                parents |-> {points[b], Record(from)}, time |-> date],
                   {Len(com) + 1}, TRUE)
    BY <1>5 DEF Merge
  <2>2. Idle(User) /\ UNCHANGED <<store, gc, young>>
    BY <1>5 DEF Merge, UserCalls, gcVars
  <2>. QED
    BY <1>1, <2>1, <2>2, StartStep
<1>6. ASSUME NEW b \in Branch, NEW v \in DOMAIN com, NEW k \in Branch, NEW p,
             ForceBranch(k, b, v, p)
      PROVE  CacheInv'
  <2>1. Start(User, k, b, [nodes |-> com[v].nodes, schema |-> com[v].schema,
                        parents |-> {p}, time |-> com[v].time], {}, FALSE)
    BY <1>6 DEF ForceBranch
  <2>2. Idle(User) /\ UNCHANGED <<store, gc, young>>
    BY <1>6 DEF ForceBranch, UserCalls, gcVars
  <2>. QED
    BY <1>1, <2>1, <2>2, StartStep
<1>7. ASSUME NEW b \in Branch, NEW n \in DOMAIN com, MakeBranch(b, n) PROVE CacheInv'
  <2> DEFINE j == [NoJob EXCEPT !.step = "key", !.to = b, !.n = n]
  <2>1. Idle(User) /\ job' = [job EXCEPT ![User] = j]
    BY <1>7 DEF MakeBranch, UserCalls
  <2>2. UNCHANGED <<wcache, gc, store, young>>
    BY <1>7 DEF MakeBranch, storeVars, gcVars
  <2>3. {"step", "keys"} \subseteq DOMAIN j
    BY <1>3
  <2>. QED
    BY <1>1, <1>2, <2>1, <2>2, <2>3, WorkStep
<1>8. ASSUME WriteBranch PROVE CacheInv'
  <2> DEFINE j == [job[User] EXCEPT !.step = "announce"]
  <2>1. job[User].step # "nodes" /\ job' = [job EXCEPT ![User] = j]
    BY <1>8 DEF WriteBranch
  <2>2. UNCHANGED <<wcache, gc>> /\ Put({BranchKey(job[User].to)})
    BY <1>8 DEF WriteBranch
  <2>3. {"step", "keys"} \subseteq DOMAIN j
    BY <1>1 DEF CacheInv, JobsOK
  <2>. HIDE DEF j
  <2>. QED
    BY <1>1, <2>1, <2>2, <2>3, WorkStep
<1>9. ASSUME AnnounceBranch PROVE CacheInv'
  <2>1. job[User].step # "nodes" /\ job' = [job EXCEPT ![User] = NoJob]
    BY <1>9 DEF AnnounceBranch
  <2>2. UNCHANGED <<wcache, gc, store, young>>
    BY <1>9 DEF AnnounceBranch, gcVars
  <2>. QED
    BY <1>1, <1>3, <2>1, <2>2, WorkStep
<1>10. ASSUME NEW w \in Worker, WriteRoots(w) PROVE CacheInv'
  <2>1. job[w].step # "nodes" /\ job' = [job EXCEPT ![w] = NoJob]
    BY <1>10 DEF WriteRoots
  <2>2. UNCHANGED <<wcache, gc>> /\ Put({CommitKey(job[w].n), BranchKey(job[w].to)})
    BY <1>10 DEF WriteRoots
  <2>. QED
    BY <1>3, <2>1, <2>2, WorkStep
<1>11. ASSUME NEW b \in Branch, DeleteBranch(b) \/ Connect(b) PROVE CacheInv'
  <2>1. UNCHANGED <<wcache, store, job, gc, young>>
    BY <1>11 DEF DeleteBranch, Connect, storeVars, gcVars
  <2>. QED
    BY <2>1, QuietStep DEF CacheInv, JobsOK
<1>12. ASSUME NEW date, GcStart(date) PROVE CacheInv'
  <2>1. UNCHANGED <<wcache, store, job>> /\ gc' = [NoGc EXCEPT !.step = "clear", !.date = date]
    BY <1>12 DEF GcStart, storeVars
  <2>2. "step" \in DOMAIN gc' /\ gc'.step # "mark"
    BY <2>1 DEF NoGc
  <2>. QED
    BY <2>1, <2>2, QuietStep
<1>13. ASSUME GcClear PROVE CacheInv'
  <2>1. wcache' = {} /\ job' = job /\ gc' = [gc EXCEPT !.step = "mark", !.heads = branches]
    BY <1>13 DEF GcClear, ClearedCache
  <2>2. JobsOK'
    BY <2>1 DEF CacheInv, JobsOK
  <2>. QED
    BY <2>1, <2>2, EmptyStep
<1>14. ASSUME NEW b \in Branch, NEW x, GcHead(b) \/ GcVisit(b, x) PROVE CacheInv'
  <2>1. /\ UNCHANGED <<wcache, store, job, young>>
        /\ gc.step = "mark" /\ DOMAIN gc' = DOMAIN gc
    BY <1>14 DEF GcHead, GcVisit, storeVars
  <2>. QED
    BY <2>1, QuietStep DEF CacheInv, JobsOK
<1>15. ASSUME NEW b \in Branch, NEW x, GcFail(b, x) PROVE CacheInv'
  <2>1. UNCHANGED <<wcache, store, job>> /\ gc' = NoGc
    BY <1>15 DEF GcFail, storeVars
  <2>2. "step" \in DOMAIN NoGc /\ NoGc.step # "mark"
    BY DEF NoGc
  <2>. QED
    BY <2>1, <2>2, QuietStep
<1>16. ASSUME Crash PROVE CacheInv'
  <2>1. wcache' = {} /\ job' = [w \in Worker |-> NoJob] /\ gc' = NoGc
    BY <1>16 DEF Crash
  <2>2. JobsOK'
    BY <2>1 DEF JobsOK, NoJob, NoGc
  <2>. QED
    BY <2>1, <2>2, EmptyStep
<1>17. CASE UNCHANGED vars
  <2>1. UNCHANGED <<wcache, store, job, gc, young>>
    BY <1>17 DEF vars, storeVars, gcVars
  <2>. QED
    BY <2>1, QuietStep DEF CacheInv, JobsOK
<1>18. CASE Next
  BY <1>4, <1>5, <1>6, <1>7, <1>8, <1>9, <1>10, <1>11, <1>12, <1>13, <1>14, <1>15, <1>16, <1>18,
     WriteNodesStep, GcSweepStep DEF Next
<1>. QED
  BY <1>17, <1>18

\* Whatever commits, collections, calls and crashes overlap, a commit that
\* leaves out a schema record because of the write cache relies on one that is in
\* the store or about to be: clear-write-cache in gc-storage! comes at the right
\* moment.
THEOREM CacheTrue == Spec => []WriteCacheTrue
<1>1. CacheInv => WriteCacheTrue
  BY DEF CacheInv
<1>. QED
  BY <1>1, CacheInit, CacheNext, PTL DEF Spec

-------------------------------------------------------------------------------
(* What the variables hold                                                   *)

\* The commits have their types, and the nodes of each are at most two.
ComsTyped ==
    /\ com \in Seq(Commits) /\ Len(com) \in 1..MaxCommit
    /\ \A n \in DOMAIN com : \E x, y \in 1..MaxCommit : com[n].nodes = {x, y}
    /\ \A n \in DOMAIN com : com[n].parents \subseteq Names

\* What is written before the commit key and the branch key.
Items == {Node(n) : n \in 1..MaxCommit} \cup {SchemaKey(s) : s \in Schema}

Tasks == [step : {"idle", "nodes", "roots", "key", "announce"}, on : Branch, to : Branch,
          n : 0..MaxCommit, keys : SUBSET Items, resets : BOOLEAN]

\* What a worker writes was made, and for whom it is reset has a value.
JobsTyped ==
    /\ job \in [Worker -> Tasks]
    /\ \A w \in Worker : /\ job[w].step # "idle" => job[w].n \in DOMAIN com
                         /\ job[w].step # "idle" /\ job[w].resets => mem[job[w].to] # 0

\* The keys in the store are those of what was made.
StoreTyped ==
    /\ store \subseteq Keys /\ young \subseteq store /\ wcache \subseteq Schema
    /\ \A n \in 1..MaxCommit : CommitKey(n) \in store => n \in DOMAIN com
    /\ \A b \in Branch : BranchKey(b) \in store => points[b] # 0

ConnsTyped ==
    /\ points \in [Branch -> 0..Len(com)] /\ branches \subseteq Branch
    /\ mem \in [Branch -> 0..Len(com)] /\ shown \in [Branch -> 0..Len(com)]
    /\ \A b \in Branch : shown[b] # 0 => mem[b] # 0

AnyName == Branch \cup 1..MaxCommit

Gcs == [step : {"idle", "clear", "mark"}, date : 0..MaxCommit, heads : SUBSET Branch,
        todo : SUBSET (Branch \X AnyName), seen : SUBSET (Branch \X AnyName),
        reachable : SUBSET Keys]

\* A collection visits what was made.
GcTyped ==
    /\ gc \in Gcs /\ \A t \in gc.todo \cup gc.seen : t[2] \in Names
    /\ gcs \in 0..MaxGc /\ events \in 0..MaxEvents /\ failed \in BOOLEAN
    /\ cut \in 0..MaxCommit /\ odd \subseteq {"overlap", "ahead", "backdated", "stale", "torn"}

Typed == ComsTyped /\ JobsTyped /\ StoreTyped /\ ConnsTyped /\ GcTyped

\* The inductive form implies the type invariant.
LEMMA TypedTypeOK == Typed => TypeOK
<1>. SUFFICES ASSUME Typed PROVE TypeOK
  OBVIOUS
<1>. USE DEF Typed
<1>1. \A n \in DOMAIN com : com[n] \in Commits
  BY DEF ComsTyped
<1>2. /\ gc.step \in {"idle", "clear", "mark"} /\ gc.date \in 0..MaxCommit
      /\ gc.heads \subseteq Branch /\ gc.reachable \subseteq Keys
      /\ gc.todo \subseteq Branch \X Names /\ gc.seen \subseteq Branch \X Names
  BY DEF GcTyped, Gcs
<1>3. job \in [Worker -> Jobs]
  <2>1. Items \subseteq Keys
    BY DEF Items, Keys
  <2>2. Tasks \subseteq Jobs
    BY <2>1 DEF Tasks, Jobs
  <2>. QED
    BY <2>2 DEF JobsTyped
<1>. QED
  BY <1>1, <1>2, <1>3 DEF TypeOK, ComsTyped, StoreTyped, ConnsTyped, GcTyped

LEMMA TypedInit == Init => Typed
<1>. SUFFICES ASSUME Init PROVE Typed
  OBVIOUS
<1>. USE NameAssumption, BoundAssumption
<1>1. PICK s \in Schema :
          /\ com = <<[nodes |-> {1}, schema |-> s, parents |-> {}, time |-> 1]>>
          /\ store = {Node(1), SchemaKey(s), CommitKey(1), BranchKey(Main)}
  BY DEF Init
<1>2. 1 \in 1..MaxCommit
  OBVIOUS
<1>3. [nodes |-> {1}, schema |-> s, parents |-> {}, time |-> 1] \in Commits
  BY <1>2 DEF Commits
<1>4. com \in Seq(Commits) /\ Len(com) = 1 /\ com[1].nodes = {1} /\ com[1].parents = {}
      /\ DOMAIN com = {1}
  BY <1>1, <1>3
<1>5. ComsTyped
  BY <1>2, <1>4 DEF ComsTyped
<1>6. JobsTyped
  <2>1. NoJob \in Tasks /\ NoJob.step = "idle"
    BY DEF NoJob, Tasks
  <2>. QED
    BY <2>1 DEF JobsTyped, Init
<1>7. StoreTyped
  <2>1. store \subseteq Keys
    BY <1>1, <1>2 DEF Keys
  <2>2. \A n \in 1..MaxCommit : CommitKey(n) \in store => n = 1
    BY <1>1 DEF CommitKey, Node, SchemaKey, BranchKey
  <2>3. \A b \in Branch : BranchKey(b) \in store => b = Main
    BY <1>1 DEF CommitKey, Node, SchemaKey, BranchKey
  <2>. QED
    BY <1>4, <2>1, <2>2, <2>3 DEF StoreTyped, Init
<1>8. ConnsTyped
  BY <1>4 DEF ConnsTyped, Init
<1>9. GcTyped
  <2>1. gc \in Gcs /\ gc.todo = {} /\ gc.seen = {}
    BY DEF Init, NoGc, Gcs
  <2>2. gcs \in 0..MaxGc /\ events \in 0..MaxEvents /\ cut \in 0..MaxCommit
    BY DEF Init
  <2>3. failed \in BOOLEAN /\ odd \subseteq {"overlap", "ahead", "backdated", "stale", "torn"}
    BY DEF Init
  <2>. QED
    BY <2>1, <2>2, <2>3 DEF GcTyped
<1>. QED
  BY <1>5, <1>6, <1>7, <1>8, <1>9 DEF Typed

\* A job starts with some of the nodes that it flushes or finds, and whoever
\* shares the pending writes goes on with others; nothing else changes.
LEMMA FlushJobs ==
    ASSUME job \in [Worker -> Tasks], NEW w \in Worker, NEW k \in Branch, Idle(w), w \in {User, k},
           NEW j \in Tasks, j.step = "nodes", NEW nodes \in SUBSET Items, Flush(w, k, j, nodes)
    PROVE  /\ job' \in [Worker -> Tasks]
           /\ job'[w] = [j EXCEPT !.keys = job'[w].keys]
           /\ \A x \in Worker \ {w} : job'[x] = [job[x] EXCEPT !.keys = job'[x].keys]
<1> DEFINE p == Partner(w, k)
           theirs == NodesIn(job[p].keys)
<1>1. job[w].step = "idle" /\ p \in Worker /\ k \in Worker
  BY DEF Idle, NoJob, Worker, Partner
<1>2. \A x \in Worker : job[x].keys \in SUBSET Items
  BY DEF Tasks
<1>3. \A i \in Tasks : \A keys \in SUBSET Items : [i EXCEPT !.keys = keys] \in Tasks
  BY DEF Tasks
<1>4. j.keys \in SUBSET Items /\ theirs \in SUBSET Items
  BY <1>1, <1>2 DEF NodesIn, Tasks
<1>. HIDE DEF theirs
<1>5. CASE job' = [job EXCEPT ![w] = [j EXCEPT !.keys = @ \cup nodes]]
  <2>1. job' = [job EXCEPT ![w] = [j EXCEPT !.keys = j.keys \cup nodes]]
    BY <1>5 DEF Tasks
  <2>2. [j EXCEPT !.keys = j.keys \cup nodes] \in Tasks
    BY <1>3, <1>4
  <2>3. \A x \in Worker \ {w} : job'[x] = job[x] /\ job[x] \in Tasks
    BY <2>1
  <2>4. \A i \in Tasks : i = [i EXCEPT !.keys = i.keys]
    BY DEF Tasks
  <2>5. job'[w] = [j EXCEPT !.keys = j.keys \cup nodes]
    BY <2>1
  <2>6. job'[w].keys = j.keys \cup nodes
    BY <2>5 DEF Tasks
  <2>. QED
    BY <2>1, <2>2, <2>3, <2>4, <2>5, <2>6
<1>6. CASE /\ Shared(w, k)
           /\ \/ job' = [job EXCEPT ![w] = [j EXCEPT !.keys = @ \cup nodes \cup theirs],
                                    ![p].keys = @ \ theirs]
              \/ job' = [job EXCEPT ![w] = j, ![p].keys = @ \cup nodes]
  <2>. HIDE DEF p
  <2>1. job[p].step = "nodes" /\ p # w
    BY <1>1, <1>6 DEF Shared, p
  <2>2. PICK mine \in SUBSET Items, kept \in SUBSET Items :
             job' = [job EXCEPT ![w] = [j EXCEPT !.keys = mine],
                                ![p] = [job[p] EXCEPT !.keys = kept]]
    <3>1. CASE job' = [job EXCEPT ![w] = [j EXCEPT !.keys = @ \cup nodes \cup theirs],
                                  ![p].keys = @ \ theirs]
      <4>1. job' = [job EXCEPT ![w] = [j EXCEPT !.keys = j.keys \cup nodes \cup theirs],
                               ![p] = [job[p] EXCEPT !.keys = job[p].keys \ theirs]]
        BY <1>1, <2>1, <3>1 DEF Tasks
      <4>2. j.keys \cup nodes \cup theirs \in SUBSET Items /\ job[p].keys \ theirs \in SUBSET Items
        BY <1>1, <1>2, <1>4
      <4>. QED
        BY <4>1, <4>2
    <3>2. CASE job' = [job EXCEPT ![w] = j, ![p].keys = @ \cup nodes]
      <4>1. j = [j EXCEPT !.keys = j.keys]
        BY DEF Tasks
      <4>2. job' = [job EXCEPT ![w] = [j EXCEPT !.keys = j.keys],
                               ![p] = [job[p] EXCEPT !.keys = job[p].keys \cup nodes]]
        BY <1>1, <2>1, <3>2, <4>1 DEF Tasks
      <4>3. job[p].keys \cup nodes \in SUBSET Items
        BY <1>1, <1>2
      <4>. QED
        BY <1>4, <4>2, <4>3
    <3>. QED
      BY <1>6, <3>1, <3>2
  <2>3. /\ [j EXCEPT !.keys = mine] \in Tasks /\ [j EXCEPT !.keys = mine].keys = mine
        /\ [job[p] EXCEPT !.keys = kept] \in Tasks /\ [job[p] EXCEPT !.keys = kept].keys = kept
    BY <1>1, <1>3 DEF Tasks
  <2>4. /\ job' \in [Worker -> Tasks]
        /\ job'[w] = [j EXCEPT !.keys = mine] /\ job'[p] = [job[p] EXCEPT !.keys = kept]
        /\ \A x \in Worker \ {w, p} : job'[x] = job[x] /\ job[x] \in Tasks
    BY <1>1, <2>1, <2>2, <2>3
  <2>5. \A i \in Tasks : i = [i EXCEPT !.keys = i.keys]
    BY DEF Tasks
  <2>. QED
    BY <2>3, <2>4, <2>5
<1>. QED
  BY <1>5, <1>6 DEF Flush, theirs

LEMMA Pair ==
    ASSUME NEW x \in Int, NEW y \in Int
    PROVE  Max({x, y}) \in {x, y}
<1>1. \E m \in {x, y} : \A z \in {x, y} : m >= z
  OBVIOUS
<1>. QED
  BY <1>1 DEF Max

\* A value is built on that of a commit that was made.
LEMMA BuiltPair ==
    ASSUME Typed, NEW n \in DOMAIN com, Len(com) < MaxCommit
    PROVE  \E x, y \in 1..MaxCommit : BuiltOn(n, Len(com) + 1) = {x, y}
<1>1. PICK x, y \in 1..MaxCommit : com[n].nodes = {x, y}
  BY DEF Typed, ComsTyped
<1>2. Max(com[n].nodes) \in 1..MaxCommit
  BY <1>1, Pair, BoundAssumption
<1>3. Len(com) + 1 \in 1..MaxCommit
  BY BoundAssumption DEF Typed, ComsTyped
<1>. QED
  BY <1>2, <1>3 DEF BuiltOn

LEMMA Appended ==
    ASSUME ComsTyped, NEW c \in Commits, \E x, y \in 1..MaxCommit : c.nodes = {x, y},
           c.parents \subseteq Names, Len(com) < MaxCommit, com' = Append(com, c)
    PROVE  /\ ComsTyped' /\ Len(com') = Len(com) + 1 /\ com'[Len(com) + 1] = c
           /\ DOMAIN com = 1..Len(com) /\ DOMAIN com' = 1..(Len(com) + 1)
           /\ \A n \in DOMAIN com : com'[n] = com[n]
<1>. USE DEF ComsTyped
<1>0. Len(com) \in Nat /\ MaxCommit \in Nat
  BY BoundAssumption
<1>1. /\ com' \in Seq(Commits) /\ Len(com') = Len(com) + 1 /\ com'[Len(com) + 1] = c
      /\ DOMAIN com = 1..Len(com) /\ DOMAIN com' = 1..(Len(com) + 1)
      /\ \A n \in 1..Len(com) : com'[n] = com[n]
  OBVIOUS
<1>2. Len(com') \in 1..MaxCommit
  BY <1>0, <1>1
<1>3. \A n \in DOMAIN com' : \E x, y \in 1..MaxCommit : com'[n].nodes = {x, y}
  BY <1>0, <1>1
<1>4. \A n \in DOMAIN com' : com'[n].parents \subseteq Names'
  <2>1. Names \subseteq Names' /\ \A n \in DOMAIN com : com[n].parents \subseteq Names
    BY <1>0, <1>1 DEF Names
  <2>. QED
    BY <1>0, <1>1, <2>1
<1>. QED
  BY <1>1, <1>2, <1>3, <1>4

\* An idle worker starts to write a commit.
LEMMA StartTyped ==
    ASSUME Typed, NEW w \in Worker, NEW k \in Branch, Idle(w), w \in {User, k}, NEW b \in Branch,
           NEW c \in Commits, \E x, y \in 1..MaxCommit : c.nodes = {x, y},
           c.parents \subseteq Names, NEW new \in SUBSET {Len(com) + 1}, NEW resets \in BOOLEAN,
           Len(com) < MaxCommit, Start(w, k, b, c, new, resets),
           \A x \in Branch : mem[x] # 0 => mem'[x] # 0, resets => mem'[b] # 0
    PROVE  /\ ComsTyped' /\ JobsTyped' /\ wcache' \subseteq Schema /\ Len(com') = Len(com) + 1
           /\ DOMAIN com \subseteq DOMAIN com'
<1> DEFINE j == [step |-> "nodes", on |-> k, to |-> b, n |-> Len(com) + 1,
                 keys |-> {SchemaKey(x) : x \in {c.schema} \ wcache}, resets |-> resets]
           nodes == {Node(x) : x \in new}
<1>1. /\ com' = Append(com, c) /\ wcache' = wcache \cup {c.schema}
      /\ Flush(w, k, j, nodes)
  BY DEF Start
<1>2. /\ ComsTyped' /\ Len(com') = Len(com) + 1
      /\ DOMAIN com = 1..Len(com) /\ DOMAIN com' = 1..(Len(com) + 1)
  BY <1>1, Appended DEF Typed
<1>3. Len(com) + 1 \in 1..MaxCommit /\ Len(com) + 1 \in DOMAIN com' /\ DOMAIN com \subseteq DOMAIN com'
  BY <1>2, BoundAssumption DEF Typed, ComsTyped
<1>4. c.schema \in Schema /\ wcache' \subseteq Schema
  BY <1>1 DEF Commits, Typed, StoreTyped
<1>5. nodes \in SUBSET Items
  BY <1>3 DEF Items
<1>6. {SchemaKey(x) : x \in {c.schema} \ wcache} \in SUBSET Items
  BY <1>4 DEF Items
<1>7. j \in Tasks
  BY <1>3, <1>6 DEF Tasks
<1>8. j.step = "nodes" /\ j.n = Len(com) + 1 /\ j.to = b /\ j.resets = resets
  OBVIOUS
<1>. HIDE DEF j, nodes
<1>9. /\ job' \in [Worker -> Tasks]
      /\ job'[w] = [j EXCEPT !.keys = job'[w].keys]
      /\ \A x \in Worker \ {w} : job'[x] = [job[x] EXCEPT !.keys = job'[x].keys]
  BY <1>1, <1>5, <1>7, <1>8, FlushJobs DEF Typed, JobsTyped
<1>10. job'[w].n = Len(com) + 1 /\ job'[w].to = b /\ job'[w].resets = resets
  BY <1>7, <1>8, <1>9 DEF Tasks
<1>11. \A x \in Worker \ {w} : /\ job'[x].n = job[x].n /\ job'[x].to = job[x].to
                               /\ job'[x].step = job[x].step /\ job'[x].resets = job[x].resets
                               /\ job[x].to \in Branch
  BY <1>9 DEF Tasks, Typed, JobsTyped
<1>12. \A x \in Worker : /\ job[x].step # "idle" => job[x].n \in DOMAIN com
                         /\ job[x].step # "idle" /\ job[x].resets => mem[job[x].to] # 0
  BY DEF Typed, JobsTyped
<1>13. ASSUME NEW x \in Worker
       PROVE  /\ job'[x].step # "idle" => job'[x].n \in DOMAIN com'
              /\ job'[x].step # "idle" /\ job'[x].resets => mem'[job'[x].to] # 0
  <2>1. CASE x = w
    BY <1>3, <1>10, <2>1
  <2>2. CASE x # w
    BY <1>3, <1>11, <1>12, <2>2
  <2>. QED
    BY <2>1, <2>2
<1>14. JobsTyped'
  BY <1>9, <1>13 DEF JobsTyped
<1>. QED
  BY <1>2, <1>3, <1>4, <1>14

LEMMA Noted ==
    ASSUME odd \subseteq {"overlap", "ahead", "backdated", "stale", "torn"},
           NEW cases \in SUBSET {"overlap", "ahead", "backdated", "stale", "torn"}, Note(cases)
    PROVE  odd' \subseteq {"overlap", "ahead", "backdated", "stale", "torn"}
  BY DEF Note

LEMMA StoreGrowsNot ==
    ASSUME StoreTyped, UNCHANGED <<store, young, points>>, wcache' \subseteq Schema,
           DOMAIN com \subseteq DOMAIN com'
    PROVE  StoreTyped'
  BY DEF StoreTyped

LEMMA CommitTyped ==
    ASSUME Typed, NEW b \in Branch, Commit(b)
    PROVE  Typed'
<1>. USE DEF Typed
<1>1. PICK s \in Schema, date \in DatesOf(Len(com) + 1) :
          /\ Start(b, b, b, [nodes |-> BuiltOn(mem[b], Len(com) + 1), schema |-> s,
                             parents |-> {points[b]}, time |-> date], {Len(com) + 1}, TRUE)
          /\ mem' = [mem EXCEPT ![b] = Len(com) + 1]
          /\ Note(When("overlap", gc.step = "clear") \cup Ahead(s)
                  \cup When("backdated", Collecting /\ date <= gc.date)
                  \cup When("stale", mem[b] # points[b] \/ Forgotten(b)))
  BY DEF Commit
<1>2. /\ Idle(b) /\ shown[b] # 0 /\ BranchKey(b) \in store /\ Len(com) < MaxCommit
      /\ UNCHANGED <<points, branches, store, shown, gcVars, events>>
  BY DEF Commit
<1>3. mem[b] \in DOMAIN com /\ points[b] \in 1..Len(com) /\ points[b] \in 1..MaxCommit
      /\ Len(com) + 1 \in 1..MaxCommit
  BY <1>2, BoundAssumption DEF ConnsTyped, StoreTyped, ComsTyped
<1> DEFINE c == [nodes |-> BuiltOn(mem[b], Len(com) + 1), schema |-> s,
                 parents |-> {points[b]}, time |-> date]
<1>4. PICK x, y \in 1..MaxCommit : BuiltOn(mem[b], Len(com) + 1) = {x, y}
  BY <1>2, <1>3, BuiltPair
<1>5. c \in Commits /\ \E p, q \in 1..MaxCommit : c.nodes = {p, q}
  BY <1>1, <1>3, <1>4 DEF Commits, DatesOf
<1>6. c.parents \subseteq Names
  BY <1>3 DEF Names, ComsTyped
<1>7. mem'[b] # 0 /\ \A p \in Branch : mem[p] # 0 => mem'[p] # 0
  BY <1>1, <1>3, BoundAssumption DEF ConnsTyped
<1>8. /\ ComsTyped' /\ JobsTyped' /\ wcache' \subseteq Schema /\ Len(com') = Len(com) + 1
      /\ DOMAIN com \subseteq DOMAIN com'
  <2>. HIDE DEF c, Typed
  <2>1. Start(b, b, b, c, {Len(com) + 1}, TRUE) /\ b \in Worker
    BY <1>1 DEF c, Worker
  <2>. QED
    BY <1>2, <1>5, <1>6, <1>7, <2>1, StartTyped
<1>. HIDE DEF c
<1>9. StoreTyped'
  BY <1>2, <1>8, StoreGrowsNot DEF gcVars
<1>10. ConnsTyped'
  <2>1. Len(com) \in Nat /\ 0..Len(com) \subseteq 0..Len(com') /\ Len(com) + 1 \in 0..Len(com')
    BY <1>8, BoundAssumption DEF ComsTyped
  <2>2. /\ points' \in [Branch -> 0..Len(com')] /\ branches' \subseteq Branch
        /\ shown' \in [Branch -> 0..Len(com')] /\ mem' \in [Branch -> 0..Len(com')]
    BY <1>1, <1>2, <2>1 DEF ConnsTyped
  <2>3. \A k \in Branch : shown'[k] # 0 => mem'[k] # 0
    BY <1>1, <1>2, <1>7 DEF ConnsTyped
  <2>. QED
    BY <2>2, <2>3 DEF ConnsTyped
<1>11. GcTyped'
  <2>1. odd' \subseteq {"overlap", "ahead", "backdated", "stale", "torn"}
    BY <1>1, Noted DEF GcTyped, When, Ahead
  <2>2. Names \subseteq Names'
    BY <1>8 DEF Names
  <2>. QED
    BY <1>2, <2>1, <2>2 DEF GcTyped, gcVars
<1>. QED
  BY <1>8, <1>9, <1>10, <1>11

LEMMA MergeTyped ==
    ASSUME Typed, NEW b \in Branch, NEW from \in Branch \cup DOMAIN com, Merge(b, from)
    PROVE  Typed'
<1>. USE DEF Typed
<1>0. PICK date \in DatesOf(Len(com) + 1) :
          Start(User, b, b, [nodes |-> BuiltOn(shown[b], Len(com) + 1), schema |-> com[shown[b]].schema,
                             parents |-> {points[b], Record(from)}, time |-> date],
                {Len(com) + 1}, TRUE)
  BY DEF Merge
<1> DEFINE c == [nodes |-> BuiltOn(shown[b], Len(com) + 1), schema |-> com[shown[b]].schema,
                 parents |-> {points[b], Record(from)}, time |-> date]
<1>1. /\ Start(User, b, b, c, {Len(com) + 1}, TRUE)
      /\ Idle(User) /\ Happens
      /\ Note(When("overlap", Collecting) \cup Ahead(com[shown[b]].schema)
              \cup When("stale", shown[b] # points[b] \/ Forgotten(b) \/ Forgotten(from)))
  BY <1>0 DEF Merge, UserCalls
<1>2. /\ shown[b] # 0 /\ BranchKey(b) \in store /\ Len(com) < MaxCommit /\ Key(from) \in store
      /\ UNCHANGED <<points, branches, store, mem, shown, gcVars>>
  BY DEF Merge, connVars
<1>3. /\ shown[b] \in DOMAIN com /\ points[b] \in 1..MaxCommit /\ mem[b] # 0
      /\ Len(com) + 1 \in 1..MaxCommit
  BY <1>2, BoundAssumption DEF ConnsTyped, StoreTyped, ComsTyped
<1>4. Record(from) \in 1..MaxCommit /\ Record(from) \in DOMAIN com
  BY <1>2, BoundAssumption DEF Record, Key, ConnsTyped, StoreTyped, ComsTyped
<1>5. PICK x, y \in 1..MaxCommit : BuiltOn(shown[b], Len(com) + 1) = {x, y}
  BY <1>2, <1>3, BuiltPair
<1>6. com[shown[b]].schema \in Schema
  <2>1. com[shown[b]] \in Commits
    BY <1>3 DEF ComsTyped
  <2>. QED
    BY <2>1 DEF Commits
<1>7. c \in Commits /\ \E p, q \in 1..MaxCommit : c.nodes = {p, q}
  BY <1>0, <1>3, <1>4, <1>5, <1>6 DEF Commits, DatesOf
<1>8. c.parents \subseteq Names
  <2>1. points[b] \in DOMAIN com
    BY <1>2 DEF ConnsTyped, StoreTyped, ComsTyped
  <2>. QED
    BY <1>4, <2>1 DEF Names
<1>. HIDE DEF c
<1>9. /\ ComsTyped' /\ JobsTyped' /\ wcache' \subseteq Schema /\ Len(com') = Len(com) + 1
      /\ DOMAIN com \subseteq DOMAIN com'
  <2>. HIDE DEF Typed
  <2>1. User \in Worker /\ mem' = mem
    BY <1>2 DEF Worker
  <2>. QED
    BY <1>1, <1>2, <1>3, <1>7, <1>8, <2>1, StartTyped
<1>10. StoreTyped'
  BY <1>2, <1>9, StoreGrowsNot DEF gcVars
<1>11. ConnsTyped'
  <2>1. Len(com) \in Nat /\ 0..Len(com) \subseteq 0..Len(com')
    BY <1>9, BoundAssumption DEF ComsTyped
  <2>. QED
    BY <1>2, <2>1 DEF ConnsTyped
<1>12. GcTyped'
  <2>1. odd' \subseteq {"overlap", "ahead", "backdated", "stale", "torn"}
    BY <1>1, Noted DEF GcTyped, When, Ahead
  <2>2. events' \in 0..MaxEvents
    BY <1>1, BoundAssumption DEF Happens, GcTyped
  <2>3. Names \subseteq Names'
    BY <1>9 DEF Names
  <2>. QED
    BY <1>2, <2>1, <2>2, <2>3 DEF GcTyped, gcVars
<1>. QED
  BY <1>9, <1>10, <1>11, <1>12

LEMMA ForceTyped ==
    ASSUME Typed, NEW k \in Branch, NEW b \in Branch, NEW v \in DOMAIN com,
           NEW p \in Branch \cup DOMAIN com, ForceBranch(k, b, v, p)
    PROVE  Typed'
<1>. USE DEF Typed
<1> DEFINE c == [nodes |-> com[v].nodes, schema |-> com[v].schema,
                 parents |-> {p}, time |-> com[v].time]
<1>1. /\ Start(User, k, b, c, {}, FALSE)
      /\ Idle(User) /\ Happens /\ branches' = branches \cup {b}
      /\ Note(When("overlap", Collecting) \cup Ahead(com[v].schema))
  BY DEF ForceBranch, UserCalls
<1>2. /\ Len(com) < MaxCommit
      /\ UNCHANGED <<points, store, mem, shown, gcVars>>
  BY DEF ForceBranch, connVars
<1>3. p \in Branch \cup 1..MaxCommit
  BY BoundAssumption DEF ComsTyped
<1>4. com[v] \in Commits
  BY DEF ComsTyped
<1>5. PICK x, y \in 1..MaxCommit : com[v].nodes = {x, y}
  BY DEF ComsTyped
<1>6. c \in Commits /\ \E q, r \in 1..MaxCommit : c.nodes = {q, r}
  BY <1>3, <1>4, <1>5 DEF Commits
<1>7. c.parents \subseteq Names
  BY DEF Names
<1>. HIDE DEF c
<1>8. /\ ComsTyped' /\ JobsTyped' /\ wcache' \subseteq Schema /\ Len(com') = Len(com) + 1
      /\ DOMAIN com \subseteq DOMAIN com'
  <2>. HIDE DEF Typed
  <2>1. User \in Worker /\ mem' = mem
    BY <1>2 DEF Worker
  <2>. QED
    BY <1>1, <1>2, <1>6, <1>7, <2>1, StartTyped
<1>9. StoreTyped'
  BY <1>2, <1>8, StoreGrowsNot DEF gcVars
<1>10. ConnsTyped'
  <2>1. Len(com) \in Nat /\ 0..Len(com) \subseteq 0..Len(com')
    BY <1>8, BoundAssumption DEF ComsTyped
  <2>. QED
    BY <1>1, <1>2, <2>1 DEF ConnsTyped
<1>11. GcTyped'
  <2>1. odd' \subseteq {"overlap", "ahead", "backdated", "stale", "torn"}
    BY <1>1, Noted DEF GcTyped, When, Ahead
  <2>2. events' \in 0..MaxEvents
    BY <1>1, BoundAssumption DEF Happens, GcTyped
  <2>3. Names \subseteq Names'
    BY <1>8 DEF Names
  <2>. QED
    BY <1>2, <2>1, <2>2, <2>3 DEF GcTyped, gcVars
<1>. QED
  BY <1>8, <1>9, <1>10, <1>11

\* Worker w goes on with another job, of which the rest is not asked.
LEMMA JobTyped ==
    ASSUME JobsTyped, NEW w \in Worker, NEW j \in Tasks, job' = [job EXCEPT ![w] = j],
           com' = com, mem' = mem,
           j.step # "idle" => j.n \in DOMAIN com /\ (j.resets => mem[j.to] # 0)
    PROVE  JobsTyped'
<1>1. job' \in [Worker -> Tasks] /\ job'[w] = j /\ \A x \in Worker \ {w} : job'[x] = job[x]
  BY DEF JobsTyped
<1>. QED
  BY <1>1 DEF JobsTyped

LEMMA PutTyped ==
    ASSUME store \subseteq Keys, young \subseteq store, NEW keys \in SUBSET Keys, Put(keys)
    PROVE  store' \subseteq Keys /\ young' \subseteq store'
  BY DEF Put

\* One name has one key.
LEMMA KeysApart ==
    /\ \A n, m : CommitKey(n) # Node(m) /\ CommitKey(n) # SchemaKey(m) /\ CommitKey(n) # BranchKey(m)
    /\ \A n, m : BranchKey(n) # Node(m) /\ BranchKey(n) # SchemaKey(m) /\ Node(n) # SchemaKey(m)
    /\ \A n, m : /\ CommitKey(n) = CommitKey(m) => n = m
                 /\ BranchKey(n) = BranchKey(m) => n = m
                 /\ Node(n) = Node(m) => n = m
  BY DEF CommitKey, Node, SchemaKey, BranchKey

LEMMA WriteNodesTyped ==
    ASSUME Typed, NEW w \in Worker, WriteNodes(w)
    PROVE  Typed'
<1>. USE DEF Typed
<1>1. job[w].step = "nodes" /\ job' = [job EXCEPT ![w].step = "roots"] /\ Put(job[w].keys)
      /\ UNCHANGED <<com, points, branches, wcache, connVars, gc, gcs, failed, cut, histVars>>
  BY DEF WriteNodes
<1>2. job[w] \in Tasks
  BY DEF JobsTyped
<1> DEFINE j == [job[w] EXCEPT !.step = "roots"]
<1>3. j \in Tasks /\ j.n = job[w].n /\ j.to = job[w].to /\ j.resets = job[w].resets
  BY <1>2 DEF Tasks
<1>4. job' = [job EXCEPT ![w] = j]
  BY <1>1
<1>. HIDE DEF j
<1>5. JobsTyped'
  <2>1. j.step # "idle" => j.n \in DOMAIN com /\ (j.resets => mem[j.to] # 0)
    BY <1>1, <1>3 DEF JobsTyped
  <2>. QED
    BY <1>1, <1>3, <1>4, <2>1, JobTyped DEF connVars
<1>6. StoreTyped'
  <2>0. job[w].keys \subseteq Items
    BY <1>2 DEF Tasks
  <2>1. job[w].keys \in SUBSET Keys
    BY <2>0 DEF Items, Keys
  <2>2. store' \subseteq Keys /\ young' \subseteq store'
    BY <1>1, <2>1, PutTyped DEF StoreTyped
  <2>3. \A key \in store' : key \in store \/ key \in job[w].keys
    BY <1>1 DEF Put
  <2>4. /\ \A n : CommitKey(n) \in store' => CommitKey(n) \in store
        /\ \A b : BranchKey(b) \in store' => BranchKey(b) \in store
    BY <2>0, <2>3, KeysApart DEF Items
  <2>. QED
    BY <1>1, <2>2, <2>4 DEF StoreTyped
<1>7. ComsTyped' /\ ConnsTyped'
  BY <1>1 DEF Names, ComsTyped, ConnsTyped, connVars
<1>8. GcTyped'
  BY <1>1 DEF GcTyped, Names, histVars
<1>. QED
  BY <1>5, <1>6, <1>7, <1>8

LEMMA WriteRootsTyped ==
    ASSUME Typed, NEW w \in Worker, WriteRoots(w)
    PROVE  Typed'
<1>. USE DEF Typed
<1> DEFINE b == job[w].to
           n == job[w].n
<1>1. /\ job[w].step = "roots" /\ Put({CommitKey(n), BranchKey(b)})
      /\ points' = [points EXCEPT ![b] = n]
      /\ shown' = IF job[w].resets THEN [shown EXCEPT ![b] = n] ELSE shown
      /\ job' = [job EXCEPT ![w] = NoJob]
      /\ UNCHANGED <<com, branches, wcache, mem, gc, gcs, failed, cut, histVars>>
  BY DEF WriteRoots
<1>2. /\ b \in Branch /\ n \in DOMAIN com /\ job[w].resets \in BOOLEAN
      /\ job[w].resets => mem[b] # 0
  <2>1. job[w] \in Tasks
    BY DEF JobsTyped
  <2>2. b \in Branch /\ job[w].resets \in BOOLEAN
    BY <2>1 DEF Tasks
  <2>3. /\ job[w].step # "idle" => job[w].n \in DOMAIN com
        /\ job[w].step # "idle" /\ job[w].resets => mem[job[w].to] # 0
    BY DEF JobsTyped
  <2>4. job[w].step # "idle"
    BY <1>1
  <2>. QED
    BY <2>2, <2>3, <2>4
<1>3. n \in 1..Len(com) /\ n # 0 /\ n \in 1..MaxCommit
  BY <1>2, BoundAssumption DEF ComsTyped
<1>4. JobsTyped'
  <2>1. NoJob \in Tasks /\ NoJob.step = "idle"
    BY NameAssumption, BoundAssumption DEF NoJob, Tasks
  <2>. QED
    BY <1>1, <2>1, JobTyped
<1>. HIDE DEF b, n
<1>5. StoreTyped'
  <2>1. {CommitKey(n), BranchKey(b)} \in SUBSET Keys
    BY <1>2, <1>3 DEF Keys
  <2>2. store' \subseteq Keys /\ young' \subseteq store'
    BY <1>1, <2>1, PutTyped DEF StoreTyped
  <2>3. store' = store \cup {CommitKey(n), BranchKey(b)}
    BY <1>1 DEF Put
  <2>4. /\ \A m : CommitKey(m) \in store' => CommitKey(m) \in store \/ m = n
        /\ \A x : BranchKey(x) \in store' => BranchKey(x) \in store \/ x = b
    BY <2>3, KeysApart
  <2>5. \A x \in Branch : points'[x] = IF x = b THEN n ELSE points[x]
    BY <1>1 DEF ConnsTyped
  <2>. QED
    BY <1>1, <1>2, <1>3, <2>2, <2>4, <2>5 DEF StoreTyped
<1>6. ConnsTyped'
  <2>1. points' \in [Branch -> 0..Len(com)] /\ shown' \in [Branch -> 0..Len(com)]
    BY <1>1, <1>2, <1>3 DEF ConnsTyped
  <2>2. \A x \in Branch : shown'[x] # 0 => mem[x] # 0
    BY <1>1, <1>2 DEF ConnsTyped
  <2>. QED
    BY <1>1, <2>1, <2>2 DEF ConnsTyped
<1>7. ComsTyped' /\ GcTyped'
  BY <1>1 DEF Names, ComsTyped, GcTyped, histVars
<1>. QED
  BY <1>4, <1>5, <1>6, <1>7

LEMMA MakeBranchTyped ==
    ASSUME Typed, NEW b \in Branch, NEW n \in DOMAIN com, MakeBranch(b, n)
    PROVE  Typed'
<1>. USE DEF Typed
<1> DEFINE j == [NoJob EXCEPT !.step = "key", !.to = b, !.n = n]
<1>1. /\ job' = [job EXCEPT ![User] = j] /\ Happens
      /\ Note(When("overlap", Collecting) \cup When("stale", CommitKey(n) \notin store))
      /\ UNCHANGED <<storeVars, connVars, gcVars>>
  BY DEF MakeBranch, UserCalls
<1>2. n \in 0..MaxCommit
  BY BoundAssumption DEF ComsTyped
<1>3. j \in Tasks /\ j.n = n /\ j.resets = FALSE
  BY <1>2, NameAssumption DEF NoJob, Tasks
<1>. HIDE DEF j
<1>4. JobsTyped'
  BY <1>1, <1>3, JobTyped DEF Worker, storeVars, connVars
<1>5. ComsTyped' /\ StoreTyped' /\ ConnsTyped'
  BY <1>1 DEF Names, ComsTyped, StoreTyped, ConnsTyped, storeVars, connVars, gcVars
<1>6. GcTyped'
  <2>1. odd' \subseteq {"overlap", "ahead", "backdated", "stale", "torn"}
    BY <1>1, Noted DEF GcTyped, When
  <2>2. events' \in 0..MaxEvents
    BY <1>1, BoundAssumption DEF Happens, GcTyped
  <2>. QED
    BY <1>1, <2>1, <2>2 DEF GcTyped, Names, storeVars, gcVars
<1>. QED
  BY <1>4, <1>5, <1>6

LEMMA WriteBranchTyped ==
    ASSUME Typed, WriteBranch
    PROVE  Typed'
<1>. USE DEF Typed
<1> DEFINE b == job[User].to
           n == job[User].n
           j == [job[User] EXCEPT !.step = "announce"]
<1>1. /\ job[User].step = "key" /\ Put({BranchKey(b)})
      /\ points' = [points EXCEPT ![b] = n]
      /\ job' = [job EXCEPT ![User] = j]
      /\ UNCHANGED <<com, branches, wcache, connVars, gc, gcs, failed, cut, histVars>>
  BY DEF WriteBranch
<1>2. User \in Worker /\ job[User] \in Tasks
  BY DEF JobsTyped, Worker
<1>3. b \in Branch /\ n \in DOMAIN com
  BY <1>1, <1>2 DEF JobsTyped, Tasks
<1>4. n \in 1..Len(com) /\ n # 0
  BY <1>3, BoundAssumption DEF ComsTyped
<1>5. j \in Tasks /\ j.n = n /\ j.to = b /\ j.resets = job[User].resets
  BY <1>2 DEF Tasks
<1>6. job[User].resets => mem[b] # 0
  BY <1>1, <1>2 DEF JobsTyped
<1>. HIDE DEF b, n, j
<1>7. JobsTyped'
  BY <1>1, <1>2, <1>3, <1>5, <1>6, JobTyped DEF connVars
<1>8. StoreTyped'
  <2>1. {BranchKey(b)} \in SUBSET Keys
    BY <1>3 DEF Keys
  <2>2. store' \subseteq Keys /\ young' \subseteq store'
    BY <1>1, <2>1, PutTyped DEF StoreTyped
  <2>3. store' = store \cup {BranchKey(b)}
    BY <1>1 DEF Put
  <2>4. /\ \A m : CommitKey(m) \in store' => CommitKey(m) \in store
        /\ \A x : BranchKey(x) \in store' => BranchKey(x) \in store \/ x = b
    BY <2>3, KeysApart
  <2>5. \A x \in Branch : points'[x] = IF x = b THEN n ELSE points[x]
    BY <1>1 DEF ConnsTyped
  <2>. QED
    BY <1>1, <1>3, <1>4, <2>2, <2>4, <2>5 DEF StoreTyped
<1>9. ConnsTyped'
  <2>1. n \in 0..Len(com)
    BY <1>4
  <2>2. points' \in [Branch -> 0..Len(com)]
    BY <1>1, <2>1 DEF ConnsTyped
  <2>. QED
    BY <1>1, <2>2 DEF ConnsTyped, connVars
<1>10. ComsTyped' /\ GcTyped'
  BY <1>1 DEF Names, ComsTyped, GcTyped, histVars
<1>. QED
  BY <1>7, <1>8, <1>9, <1>10

LEMMA AnnounceTyped ==
    ASSUME Typed, AnnounceBranch
    PROVE  Typed'
<1>. USE DEF Typed
<1>1. /\ job[User].step = "announce" /\ branches' = branches \cup {job[User].to}
      /\ job' = [job EXCEPT ![User] = NoJob]
      /\ UNCHANGED <<com, points, store, wcache, connVars, gcVars, histVars>>
  BY DEF AnnounceBranch
<1>2. User \in Worker /\ job[User].to \in Branch
  BY DEF JobsTyped, Worker, Tasks
<1>3. NoJob \in Tasks /\ NoJob.step = "idle"
  BY NameAssumption, BoundAssumption DEF NoJob, Tasks
<1>4. JobsTyped'
  BY <1>1, <1>2, <1>3, JobTyped DEF connVars
<1>5. ConnsTyped'
  BY <1>1, <1>2 DEF ConnsTyped, connVars
<1>6. ComsTyped' /\ StoreTyped'
  BY <1>1 DEF Names, ComsTyped, StoreTyped, gcVars
<1>7. GcTyped'
  BY <1>1 DEF GcTyped, Names, gcVars, histVars
<1>. QED
  BY <1>4, <1>5, <1>6, <1>7

LEMMA DeleteTyped ==
    ASSUME Typed, NEW b \in Branch, DeleteBranch(b)
    PROVE  Typed'
<1>. USE DEF Typed
<1>1. /\ Happens /\ branches' = branches \ {b}
      /\ shown' = [shown EXCEPT ![b] = 0]
      /\ UNCHANGED <<com, points, store, wcache, mem, job, gcVars, odd>>
  BY DEF DeleteBranch, UserCalls
<1>2. ConnsTyped'
  <2>1. 0 \in 0..Len(com)
    BY DEF ComsTyped
  <2>2. shown' \in [Branch -> 0..Len(com)] /\ branches' \subseteq Branch
    BY <1>1, <2>1 DEF ConnsTyped
  <2>3. \A x \in Branch : shown'[x] # 0 => mem[x] # 0
    BY <1>1 DEF ConnsTyped
  <2>. QED
    BY <1>1, <2>2, <2>3 DEF ConnsTyped
<1>3. ComsTyped' /\ JobsTyped' /\ StoreTyped'
  BY <1>1 DEF Names, ComsTyped, JobsTyped, StoreTyped, gcVars
<1>4. GcTyped'
  <2>1. events' \in 0..MaxEvents
    BY <1>1, BoundAssumption DEF Happens, GcTyped
  <2>. QED
    BY <1>1, <2>1 DEF GcTyped, Names, gcVars
<1>. QED
  BY <1>2, <1>3, <1>4

LEMMA ConnectTyped ==
    ASSUME Typed, NEW b \in Branch, Connect(b)
    PROVE  Typed'
<1>. USE DEF Typed
<1>1. /\ BranchKey(b) \in store /\ points[b] # 0
      /\ mem' = [mem EXCEPT ![b] = points[b]] /\ shown' = [shown EXCEPT ![b] = points[b]]
      /\ UNCHANGED <<storeVars, job, gcVars, histVars>>
  BY DEF Connect, StoreTyped
<1>2. \A x \in Branch : /\ mem[x] # 0 => mem'[x] # 0
                        /\ shown'[x] # 0 => mem'[x] # 0
  BY <1>1 DEF ConnsTyped
<1>3. ConnsTyped'
  BY <1>1, <1>2 DEF ConnsTyped, storeVars
<1>4. JobsTyped'
  <2>1. \A w \in Worker : job[w].to \in Branch
    BY DEF JobsTyped, Tasks
  <2>. QED
    BY <1>1, <1>2, <2>1 DEF JobsTyped, storeVars
<1>5. ComsTyped' /\ StoreTyped'
  BY <1>1 DEF Names, ComsTyped, StoreTyped, storeVars, gcVars
<1>6. GcTyped'
  BY <1>1 DEF GcTyped, Names, storeVars, gcVars, histVars
<1>. QED
  BY <1>3, <1>4, <1>5, <1>6

-------------------------------------------------------------------------------
(* The walks of a collection                                                 *)

\* What is met from b on is the least that holds b and what follows on its own.
LEMMA MetLeast ==
    ASSUME NEW next, \A x \in DOMAIN next : next[x] \subseteq DOMAIN next, NEW b \in DOMAIN next
    PROVE  /\ b \in Met(b, next) /\ Met(b, next) \subseteq DOMAIN next
           /\ \A x \in Met(b, next) : next[x] \subseteq Met(b, next)
           /\ \A S : b \in S /\ (\A x \in S \cap DOMAIN next : next[x] \subseteq S)
                   => Met(b, next) \subseteq S
<1> DEFINE all == {b} \cup UNION {next[x] : x \in DOMAIN next}
           closed == {S \in SUBSET all : b \in S /\ \A x \in S : next[x] \subseteq S}
<1>1. Met(b, next) = {x \in all : \A S \in closed : x \in S}
  BY DEF Met
<1>2. b \in all /\ all \subseteq DOMAIN next /\ \A x \in DOMAIN next : next[x] \subseteq all
  OBVIOUS
<1>3. \A S \in closed : b \in S /\ \A x \in S : next[x] \subseteq S
  OBVIOUS
<1>4. ASSUME NEW S, b \in S, \A x \in S \cap DOMAIN next : next[x] \subseteq S
      PROVE  Met(b, next) \subseteq S
  <2>1. S \cap all \in closed
    BY <1>2, <1>4
  <2>. QED
    BY <1>1, <2>1
<1>. HIDE DEF all, closed
<1>. QED
  BY <1>1, <1>2, <1>3, <1>4

\* What is followed on from x when its record is read, if there is one.
FollowedIn(x) == IF Key(x) \in store THEN Followed(x) ELSE {}

LEMMA FollowedNamed == Typed => \A x \in Names : FollowedIn(x) \subseteq Names
<1>. SUFFICES ASSUME Typed, NEW x \in Names PROVE FollowedIn(x) \subseteq Names
  OBVIOUS
<1>1. Key(x) \in store => Record(x) \in DOMAIN com
  BY BoundAssumption DEF Names, Key, Record, Typed, ConnsTyped, StoreTyped, ComsTyped
<1>. QED
  BY <1>1 DEF FollowedIn, Followed, Typed, ComsTyped

\* What a collection comes to from y on, as the records are.
Walk(y) == Met(y, [x \in Names |-> FollowedIn(x)])

\* The walk from y is the least that holds y and what is followed.
WalkIs(y) ==
    /\ y \in Walk(y) /\ Walk(y) \subseteq Names
    /\ \A x \in Walk(y) : FollowedIn(x) \subseteq Walk(y)
    /\ \A S : y \in S /\ (\A x \in S \cap Names : FollowedIn(x) \subseteq S) => Walk(y) \subseteq S

WalksAre == \A y \in Names : WalkIs(y)

LEMMA WalkLeast == Typed => WalksAre
<1>. SUFFICES ASSUME Typed, NEW y \in Names PROVE WalkIs(y)
  BY DEF WalksAre
<1> DEFINE next == [x \in Names |-> FollowedIn(x)]
<1>1. /\ \A x \in DOMAIN next : next[x] \subseteq DOMAIN next
      /\ y \in DOMAIN next /\ DOMAIN next = Names /\ \A x \in Names : next[x] = FollowedIn(x)
  BY FollowedNamed
<1>2. Walk(y) = Met(y, next)
  BY DEF Walk
<1>. HIDE DEF next
<1>3. /\ y \in Met(y, next) /\ Met(y, next) \subseteq DOMAIN next
      /\ \A x \in Met(y, next) : next[x] \subseteq Met(y, next)
      /\ \A S : y \in S /\ (\A x \in S \cap DOMAIN next : next[x] \subseteq S)
              => Met(y, next) \subseteq S
  BY <1>1, MetLeast
<1>. QED
  BY <1>1, <1>2, <1>3 DEF WalkIs

-------------------------------------------------------------------------------
(* The steps of a collection, and all of them                                *)

LEMMA BelowKeys ==
    ASSUME ComsTyped, NEW n \in DOMAIN com
    PROVE  Below(n) \subseteq Keys
<1>1. com[n] \in Commits
  BY DEF ComsTyped
<1>. QED
  BY <1>1 DEF Commits, Below, Keys

LEMMA GcHeadTyped ==
    ASSUME Typed, NEW b \in Branch, GcHead(b)
    PROVE  Typed'
<1>. USE DEF Typed
<1> DEFINE head == IF BranchKey(b) \in store THEN {CommitKey(points[b])} ELSE {}
<1>1. /\ gc' = [gc EXCEPT !.heads = @ \ {b}, !.todo = @ \cup {<<b, b>>},
                          !.reachable = @ \cup {BranchKey(b)} \cup head]
      /\ UNCHANGED <<storeVars, connVars, job, young, gcs, failed, cut, histVars>>
  BY DEF GcHead
<1>2. {BranchKey(b)} \cup head \subseteq Keys
  <2>1. BranchKey(b) \in store => points[b] \in 1..MaxCommit
    BY BoundAssumption DEF ConnsTyped, StoreTyped, ComsTyped
  <2>. QED
    BY <2>1 DEF Keys
<1>. HIDE DEF head
<1>3. <<b, b>> \in Branch \X AnyName /\ b \in Names
  BY DEF AnyName, Names
<1>4. gc' \in Gcs /\ gc'.todo = gc.todo \cup {<<b, b>>} /\ gc'.seen = gc.seen
  BY <1>1, <1>2, <1>3 DEF GcTyped, Gcs
<1>5. GcTyped'
  BY <1>1, <1>3, <1>4 DEF GcTyped, Names, storeVars, histVars
<1>6. ComsTyped' /\ JobsTyped' /\ StoreTyped' /\ ConnsTyped'
  BY <1>1 DEF Names, ComsTyped, JobsTyped, StoreTyped, ConnsTyped, storeVars, connVars
<1>. QED
  BY <1>5, <1>6

LEMMA GcVisitTyped ==
    ASSUME Typed, NEW b \in Branch, NEW x \in Names, GcVisit(b, x)
    PROVE  Typed'
<1>. USE DEF Typed
<1> DEFINE seen == gc.seen \cup {<<b, x>>}
           next == {<<b, p>> : p \in Followed(x)}
<1>1. /\ Key(x) \in store
      /\ gc' = [gc EXCEPT !.seen = seen, !.todo = (@ \cup next) \ seen,
                          !.reachable = @ \cup {Key(x)} \cup Below(Record(x))]
      /\ UNCHANGED <<storeVars, connVars, job, young, gcs, failed, cut, histVars>>
  BY DEF GcVisit
<1>2. Record(x) \in DOMAIN com
  BY <1>1, BoundAssumption DEF Names, Key, Record, ConnsTyped, StoreTyped, ComsTyped
<1>3. {Key(x)} \cup Below(Record(x)) \subseteq Keys
  BY <1>1, <1>2, BelowKeys DEF StoreTyped
<1>4. Followed(x) \subseteq Names
  BY <1>2 DEF Followed, ComsTyped
<1>5. Names \subseteq AnyName
  BY BoundAssumption DEF Names, AnyName, ComsTyped
<1>6. /\ next \subseteq Branch \X AnyName /\ seen \subseteq Branch \X AnyName
      /\ \A t \in next \cup seen : t[2] \in Names
  BY <1>4, <1>5 DEF GcTyped, Gcs
<1>. HIDE DEF seen, next
<1>7. gc' \in Gcs /\ gc'.todo \subseteq gc.todo \cup next /\ gc'.seen = seen
  BY <1>1, <1>3, <1>6 DEF GcTyped, Gcs
<1>8. GcTyped'
  BY <1>1, <1>6, <1>7 DEF GcTyped, Names, storeVars, histVars
<1>9. ComsTyped' /\ JobsTyped' /\ StoreTyped' /\ ConnsTyped'
  BY <1>1 DEF Names, ComsTyped, JobsTyped, StoreTyped, ConnsTyped, storeVars, connVars
<1>. QED
  BY <1>8, <1>9

LEMMA GcTypedSteps ==
    ASSUME Typed,
           \/ \E date \in 0..Len(com) : GcStart(date)
           \/ GcClear
           \/ \E b \in Branch, x \in Names : GcFail(b, x)
           \/ GcSweep
    PROVE  Typed'
<1>. USE DEF Typed
<1>0. NoGc \in Gcs /\ NoGc.todo = {} /\ NoGc.seen = {}
  BY BoundAssumption DEF NoGc, Gcs
<1>1. ASSUME NEW date \in 0..Len(com), GcStart(date) PROVE Typed'
  <2>1. /\ gcs < MaxGc /\ gc' = [NoGc EXCEPT !.step = "clear", !.date = date]
        /\ young' = {} /\ gcs' = gcs + 1
        /\ Note(When("overlap", \E w \in Worker : ~Idle(w)))
        /\ UNCHANGED <<storeVars, connVars, job, failed, cut, events>>
    BY <1>1 DEF GcStart
  <2>2. date \in 0..MaxCommit
    BY <1>1, BoundAssumption DEF ComsTyped
  <2>3. gc' \in Gcs /\ gc'.todo = {} /\ gc'.seen = {}
    BY <2>1, <2>2 DEF NoGc, Gcs
  <2>4. odd' \subseteq {"overlap", "ahead", "backdated", "stale", "torn"}
    BY <2>1, Noted DEF GcTyped, When
  <2>5. gcs' \in 0..MaxGc
    BY <2>1, BoundAssumption DEF GcTyped
  <2>6. GcTyped'
    BY <2>1, <2>3, <2>4, <2>5 DEF GcTyped
  <2>7. ComsTyped' /\ JobsTyped' /\ StoreTyped' /\ ConnsTyped'
    BY <2>1 DEF Names, ComsTyped, JobsTyped, StoreTyped, ConnsTyped, storeVars, connVars
  <2>. QED
    BY <2>6, <2>7
<1>2. CASE GcClear
  <2>1. /\ wcache' = {} /\ gc' = [gc EXCEPT !.step = "mark", !.heads = branches]
        /\ UNCHANGED <<com, points, branches, store, connVars, job, young, gcs, failed, cut, histVars>>
    BY <1>2 DEF GcClear, ClearedCache
  <2>2. gc' \in Gcs /\ gc'.todo = gc.todo /\ gc'.seen = gc.seen
    BY <2>1 DEF GcTyped, Gcs, ConnsTyped
  <2>3. GcTyped'
    BY <2>1, <2>2 DEF GcTyped, Names, histVars
  <2>4. ComsTyped' /\ JobsTyped' /\ StoreTyped' /\ ConnsTyped'
    BY <2>1 DEF Names, ComsTyped, JobsTyped, StoreTyped, ConnsTyped, connVars
  <2>. QED
    BY <2>3, <2>4
<1>3. ASSUME NEW b \in Branch, NEW x \in Names, GcFail(b, x) PROVE Typed'
  <2>1. /\ gc' = NoGc /\ young' = {} /\ failed' = TRUE
        /\ UNCHANGED <<storeVars, connVars, job, gcs, cut, histVars>>
    BY <1>3 DEF GcFail
  <2>2. GcTyped'
    BY <1>0, <2>1 DEF GcTyped, histVars
  <2>3. ComsTyped' /\ JobsTyped' /\ StoreTyped' /\ ConnsTyped'
    BY <2>1 DEF Names, ComsTyped, JobsTyped, StoreTyped, ConnsTyped, storeVars, connVars
  <2>. QED
    BY <2>2, <2>3
<1>4. CASE GcSweep
  <2>1. /\ store' = store \cap (gc.reachable \cup young) /\ cut' = Max({cut, gc.date})
        /\ gc' = NoGc /\ young' = {}
        /\ UNCHANGED <<com, points, branches, wcache, connVars, job, gcs, failed, histVars>>
    BY <1>4 DEF GcSweep, Kept
  <2>2. cut' \in 0..MaxCommit
    BY <2>1, Pair, BoundAssumption DEF GcTyped, Gcs
  <2>3. GcTyped'
    BY <1>0, <2>1, <2>2 DEF GcTyped, histVars
  <2>4. ComsTyped' /\ JobsTyped' /\ StoreTyped' /\ ConnsTyped'
    BY <2>1 DEF Names, ComsTyped, JobsTyped, StoreTyped, ConnsTyped, connVars
  <2>. QED
    BY <2>3, <2>4
<1>. QED
  BY <1>1, <1>2, <1>3, <1>4

LEMMA CrashTyped ==
    ASSUME Typed, Crash
    PROVE  Typed'
<1>. USE DEF Typed
<1>1. /\ Happens /\ wcache' = {} /\ job' = [w \in Worker |-> NoJob]
      /\ mem' = [b \in Branch |-> 0] /\ shown' = [b \in Branch |-> 0]
      /\ gc' = NoGc /\ young' = {}
      /\ Note(When("torn", ~Idle(User) \/ \E w \in Branch : Foreign(w) # {}))
      /\ UNCHANGED <<com, points, branches, store, gcs, failed, cut>>
  BY DEF Crash
<1>2. NoJob \in Tasks /\ NoJob.step = "idle"
  BY NameAssumption, BoundAssumption DEF NoJob, Tasks
<1>3. JobsTyped'
  BY <1>1, <1>2 DEF JobsTyped
<1>4. ConnsTyped'
  <2>1. 0 \in 0..Len(com)
    BY DEF ComsTyped
  <2>. QED
    BY <1>1, <2>1 DEF ConnsTyped
<1>5. ComsTyped' /\ StoreTyped'
  BY <1>1 DEF Names, ComsTyped, StoreTyped
<1>6. GcTyped'
  <2>1. odd' \subseteq {"overlap", "ahead", "backdated", "stale", "torn"}
    BY <1>1, Noted DEF GcTyped, When
  <2>2. events' \in 0..MaxEvents
    BY <1>1, BoundAssumption DEF Happens, GcTyped
  <2>3. gc' \in Gcs /\ gc'.todo = {} /\ gc'.seen = {}
    BY <1>1, BoundAssumption DEF NoGc, Gcs
  <2>. QED
    BY <1>1, <2>1, <2>2, <2>3 DEF GcTyped
<1>. QED
  BY <1>3, <1>4, <1>5, <1>6

LEMMA TypedNext == Typed /\ [Next]_vars => Typed'
<1>. SUFFICES ASSUME Typed, [Next]_vars PROVE Typed'
  OBVIOUS
<1>1. CASE Next
  BY <1>1, CommitTyped, MergeTyped, ForceTyped, WriteNodesTyped, WriteRootsTyped, MakeBranchTyped,
     WriteBranchTyped, AnnounceTyped, DeleteTyped, ConnectTyped, GcHeadTyped, GcVisitTyped, GcTypedSteps,
     CrashTyped DEF Next
<1>2. CASE UNCHANGED vars
  <2>1. ComsTyped' /\ JobsTyped' /\ StoreTyped' /\ ConnsTyped'
    BY <1>2 DEF Typed, vars, storeVars, connVars, gcVars, Names, ComsTyped, JobsTyped, StoreTyped, ConnsTyped
  <2>2. GcTyped'
    BY <1>2 DEF Typed, vars, storeVars, gcVars, histVars, GcTyped, Names
  <2>. QED
    BY <2>1, <2>2 DEF Typed
<1>. QED
  BY <1>1, <1>2

\* The variables have their types, whatever the calls, collections and crashes: in
\* particular what is pointed to was made, and a branch key in the store has a
\* commit.
THEOREM TypeCorrect == Spec => []TypeOK
<1>. QED
  BY TypedInit, TypedNext, TypedTypeOK, PTL DEF Spec

-------------------------------------------------------------------------------
(* What holds as long as nothing odd happens                                 *)

\* What is in the store, or was taken by a commit that is about to write it.
Held == store \cup UNION {Foreign(w) : w \in Worker}

\* What worker w has yet to write before the roots.
Owed(w) == IF job[w].step = "nodes" THEN job[w].keys ELSE {}

Working(w) == job[w].step \in {"nodes", "roots"}

\* The commit in the record under x is complete, and the records of its parents
\* are there if it is as young as every snapshot that was to be kept.
RecordWhole(x) ==
    /\ Below(Record(x)) \subseteq Held
    /\ com[Record(x)].time > cut => \A p \in com[Record(x)].parents : Key(p) \in store

RecordsWhole == \A x \in Names : Key(x) \in store => RecordWhole(x)

\* What is being written has all that it shares with others.
JobWhole(w) ==
    Working(w) => /\ Below(job[w].n) \subseteq Held \cup Owed(w)
                  /\ \A p \in com[job[w].n].parents : Key(p) \in store

\* The keys of branch b and of its commit are in the store.
Rooted(b) == BranchKey(b) \in store /\ CommitKey(points[b]) \in store

JobsWhole ==
    /\ \A w \in Worker : JobWhole(w)
    /\ job[User].step = "key" => CommitKey(job[User].n) \in store
    /\ job[User].step = "announce" => Rooted(job[User].to)

\* A known branch has its roots, but for one that is being forced.
Announced == \A b \in branches : Rooted(b) \/ (Working(User) /\ job[User].to = b)

\* A collection runs beside writers that work each on its own.
Apart ==
    Collecting => /\ Idle(User)
                  /\ \A w \in Worker : Foreign(w) = {}
                  /\ gc.step = "clear" => /\ young = {} /\ gc.reachable = {}
                                          /\ gc.todo = {} /\ gc.seen = {}
                                          /\ \A w \in Worker : Idle(w)
                  /\ gc.date \in 0..Len(com)

\* What survives the collection that runs, as far as it has come.
Saved == gc.reachable \cup young

\* The names it has yet to visit, and what it will come to from them.
Open == gc.heads \cup {t[2] : t \in gc.todo}
Reached == UNION {Walk(y) : y \in Open}

\* Of the commits, those in B were marked from the records that led to them: a
\* name that was visited is still open or its record is that of one of them, ...
Traced(B, x) == x \in Open \/ (Key(x) \in Saved /\ Record(x) \in B)

\* ... and so is a name that is followed from one of them, which survives with
\* what it points to.
Good(B, n) == /\ Below(n) \subseteq Saved
              /\ com[n].time > gc.date => \A p \in com[n].parents : Traced(B, p)

\* A commit is one of them, or the collection will come to it.
Covered(B, n) == n \in B \/ \E z \in Reached : Record(z) = n

\* The branch b is yet to be read, or its record and its commit survive.
Safe(B, b) ==
    \/ b \in gc.heads
    \/ /\ BranchKey(b) \in Saved /\ CommitKey(points[b]) \in Saved
       /\ b \in Open \/ points[b] \in B

\* The commit that the writer of b makes during a collection: all that it shares
\* belongs to the commit it builds on, the rest it writes itself.
BuiltAlone(b) ==
    LET n == job[b].n
    IN /\ Working(b) /\ job[b].to = b /\ BranchKey(b) \in store
       /\ com[n].parents = {points[b]} /\ com[n].time > gc.date
       /\ com[n].nodes \subseteq {n} \cup com[points[b]].nodes
       /\ {Node(n), SchemaKey(com[n].schema)} \subseteq Owed(b) \cup young

\* What the marks say: every record that survives belongs to a marked commit or
\* to one that will be.
Marks(B) ==
    /\ \A n \in B : Good(B, n)
    /\ \A t \in gc.seen : Traced(B, t[2])
    /\ \A x \in AnyName : Key(x) \in Saved => Key(x) \in store /\ Covered(B, Record(x))

Marking ==
    gc.step = "mark" =>
        /\ \E B \in SUBSET DOMAIN com :
               Marks(B) /\ \A b \in Branch : b \in branches \/ ~Idle(b) => Safe(B, b)
        /\ \A b \in Branch : ~Idle(b) => BuiltAlone(b)
        /\ \A b \in gc.heads : Rooted(b)
        /\ \A x \in Open : Key(x) \in store \/ cut > 0
        /\ \A t \in gc.todo : t \notin gc.seen
        /\ \A t \in gc.todo \cup gc.seen : t[1] \notin gc.heads

RegularInv ==
    Regular => RecordsWhole /\ JobsWhole /\ Announced /\ Apart /\ Marking /\ (failed => cut > 0)

LEMMA NoneNoted ==
    ASSUME NEW cases, Note(cases), Regular'
    PROVE  Regular /\ cases = {}
  BY DEF Note, Regular

\* A commit is a name of its own.
LEMMA CommitName ==
    ASSUME ComsTyped, NEW n \in DOMAIN com
    PROVE  n \in Names /\ Record(n) = n /\ Key(n) = CommitKey(n)
<1>1. n \notin Branch
  BY NameAssumption, BoundAssumption DEF ComsTyped
<1>. QED
  BY <1>1 DEF Names, Record, Key

LEMMA BranchName ==
    ASSUME NEW b \in Branch
    PROVE  b \in Names /\ Record(b) = points[b] /\ Key(b) = BranchKey(b)
  BY DEF Names, Record, Key

\* A name with a record is that of a commit that was made.
LEMMA RecordMade ==
    ASSUME Typed, NEW x \in AnyName, Key(x) \in store
    PROVE  x \in Names /\ Record(x) \in DOMAIN com
  BY BoundAssumption DEF AnyName, Typed, ComsTyped, StoreTyped, ConnsTyped, Names, Key, Record

LEMMA ParentsNamed ==
    ASSUME ComsTyped, NEW n \in DOMAIN com
    PROVE  com[n].parents \subseteq Branch \cup 1..MaxCommit /\ com[n].time \in Nat
           /\ com[n].schema \in Schema
<1>1. com[n] \in Commits
  BY DEF ComsTyped
<1>2. 1..MaxCommit \cup Dates \subseteq Nat
  BY DateAssumption, BoundAssumption
<1>. QED
  BY <1>1, <1>2 DEF Commits

LEMMA SharedNode ==
    ASSUME ComsTyped, NEW n \in DOMAIN com
    PROVE  Max(com[n].nodes) \in com[n].nodes
<1>1. PICK x, y \in 1..MaxCommit : com[n].nodes = {x, y}
  BY DEF ComsTyped
<1>. QED
  BY <1>1, Pair, BoundAssumption

\* A job starts: what others took or owe is not lost, and of what the new commit
\* needs nothing is.
LEMMA FlushHeld ==
    ASSUME job \in [Worker -> Tasks], NEW w \in Worker, NEW k \in Branch, Idle(w), w \in {User, k},
           NEW j \in Tasks, j.step = "nodes", NEW nodes \in SUBSET {Node(j.n)}, nodes \subseteq Items,
           \A x \in Worker : job[x].step = "nodes" => job[x].n # j.n,
           Flush(w, k, j, nodes), store' = store
    PROVE  /\ Held \subseteq Held'
           /\ \A x \in Worker \ {w} : Owed(x) \subseteq Held' \cup Owed(x)'
           /\ j.keys \cup nodes \subseteq Held' \cup Owed(w)'
           /\ Idle(User) => job' = [job EXCEPT ![w] = [j EXCEPT !.keys = j.keys \cup nodes]]
              \/ w = User
<1> DEFINE p == Partner(w, k)
           theirs == NodesIn(job[p].keys)
<1>1. job[w].step = "idle" /\ p \in Worker /\ k \in Worker /\ User \in Worker
  BY DEF Idle, NoJob, Worker, Partner
<1>2. /\ job' \in [Worker -> Tasks]
      /\ job'[w] = [j EXCEPT !.keys = job'[w].keys]
      /\ \A x \in Worker \ {w} : job'[x] = [job[x] EXCEPT !.keys = job'[x].keys]
  BY FlushJobs
<1>3. \A x \in Worker \ {w} : job'[x].step = job[x].step /\ job'[x].n = job[x].n
  BY <1>2 DEF Tasks
<1>4. job'[w].step = "nodes" /\ job'[w].n = j.n
  BY <1>2 DEF Tasks
<1>5. Foreign(w) = {}
  BY <1>1 DEF Foreign
<1>6. \A x, y : Node(x) = Node(y) => x = y
  BY KeysApart
<1>7. \A x \in nodes : x[1] = "node" /\ x = Node(j.n)
  BY DEF Node
<1>8. CASE job' = [job EXCEPT ![w] = [j EXCEPT !.keys = @ \cup nodes]]
  <2>1. job' = [job EXCEPT ![w] = [j EXCEPT !.keys = j.keys \cup nodes]]
    BY <1>8 DEF Tasks
  <2>2. job'[w].keys = j.keys \cup nodes /\ \A x \in Worker \ {w} : job'[x] = job[x]
    BY <2>1 DEF Tasks
  <2>3. \A x \in Worker \ {w} : Foreign(x)' = Foreign(x) /\ Owed(x)' = Owed(x)
    BY <2>2 DEF Foreign, Owed
  <2>4. Owed(w)' = j.keys \cup nodes
    BY <1>4, <2>2 DEF Owed
  <2>5. Held \subseteq Held'
    BY <1>5, <2>3 DEF Held
  <2>. QED
    BY <2>1, <2>3, <2>4, <2>5
<1>9. CASE /\ Shared(w, k)
           /\ \/ job' = [job EXCEPT ![w] = [j EXCEPT !.keys = @ \cup nodes \cup theirs],
                                    ![p].keys = @ \ theirs]
              \/ job' = [job EXCEPT ![w] = j, ![p].keys = @ \cup nodes]
  <2>. HIDE DEF p
  <2>1. job[p].step = "nodes" /\ p # w /\ theirs \subseteq {Node(job[p].n)}
    BY <1>1, <1>9 DEF Shared, p
  <2>2. Foreign(p) = {} /\ job[p].n # j.n
    BY <1>1, <2>1 DEF Foreign
  <2>3. Idle(User) => w = User
    BY <1>1, <1>9 DEF Shared, Idle, NoJob, Partner
  <2>4. CASE job' = [job EXCEPT ![w] = [j EXCEPT !.keys = @ \cup nodes \cup theirs],
                                ![p].keys = @ \ theirs]
    <3>1. job' = [job EXCEPT ![w] = [j EXCEPT !.keys = j.keys \cup nodes \cup theirs],
                             ![p] = [job[p] EXCEPT !.keys = job[p].keys \ theirs]]
      BY <1>1, <2>1, <2>4 DEF Tasks
    <3>2. /\ job'[w].keys = j.keys \cup nodes \cup theirs
          /\ job'[p].keys = job[p].keys \ theirs
          /\ \A x \in Worker \ {w, p} : job'[x] = job[x]
      BY <1>1, <2>1, <3>1 DEF Tasks
    <3>3. \A x \in Worker \ {w, p} : Foreign(x)' = Foreign(x) /\ Owed(x)' = Owed(x)
      BY <3>2 DEF Foreign, Owed
    <3>4. Owed(w)' = j.keys \cup nodes \cup theirs
      BY <1>4, <3>2 DEF Owed
    <3>5. theirs \subseteq Foreign(w)'
      <4>1. \A x \in theirs : x[1] = "node"
        BY DEF NodesIn
      <4>2. \A x \in theirs : x # Node(j.n)
        BY <1>6, <2>1, <2>2
      <4>3. NodesIn(job'[w].keys) = {x \in job'[w].keys : x[1] = "node"}
        BY DEF NodesIn
      <4>. HIDE DEF theirs
      <4>4. theirs \subseteq NodesIn(job'[w].keys)
        BY <3>2, <4>1, <4>3
      <4>. QED
        BY <1>4, <4>2, <4>4 DEF Foreign
    <3>. HIDE DEF theirs
    <3>6. Owed(p)' = job[p].keys \ theirs /\ Owed(p) = job[p].keys
      BY <1>1, <1>3, <2>1, <3>2 DEF Owed
    <3>7. Held \subseteq Held'
      BY <1>5, <2>2, <3>3 DEF Held
    <3>8. theirs \subseteq Held'
      BY <3>5 DEF Held
    <3>. QED
      BY <2>3, <3>3, <3>4, <3>6, <3>7, <3>8
  <2>5. CASE job' = [job EXCEPT ![w] = j, ![p].keys = @ \cup nodes]
    <3>1. job' = [job EXCEPT ![w] = j, ![p] = [job[p] EXCEPT !.keys = job[p].keys \cup nodes]]
      BY <1>1, <2>1, <2>5 DEF Tasks
    <3>2. /\ job'[w].keys = j.keys
          /\ job'[p].keys = job[p].keys \cup nodes
          /\ \A x \in Worker \ {w, p} : job'[x] = job[x]
      BY <1>1, <2>1, <3>1 DEF Tasks
    <3>3. \A x \in Worker \ {w, p} : Foreign(x)' = Foreign(x) /\ Owed(x)' = Owed(x)
      BY <3>2 DEF Foreign, Owed
    <3>4. Owed(w)' = j.keys
      BY <1>4, <3>2 DEF Owed
    <3>5. nodes \subseteq Foreign(p)'
      <4>1. nodes \subseteq NodesIn(job'[p].keys)
        BY <1>7, <3>2 DEF NodesIn
      <4>2. job'[p].step = "nodes" /\ job'[p].n = job[p].n
        BY <1>1, <1>3, <2>1
      <4>. QED
        BY <1>6, <1>7, <2>2, <4>1, <4>2 DEF Foreign
    <3>. HIDE DEF theirs
    <3>6. Owed(p)' = job[p].keys \cup nodes /\ Owed(p) = job[p].keys
      BY <1>1, <1>3, <2>1, <3>2 DEF Owed
    <3>7. Held \subseteq Held'
      BY <1>5, <2>2, <3>3 DEF Held
    <3>8. nodes \subseteq Held'
      BY <1>1, <3>5 DEF Held
    <3>. QED
      BY <2>3, <3>3, <3>4, <3>6, <3>7, <3>8
  <2>. QED
    BY <1>9, <2>4, <2>5
<1>. QED
  BY <1>8, <1>9 DEF Flush

-------------------------------------------------------------------------------
(* Commits, merges and forced branches                                       *)

\* The keys that a job starts with that is to write c, with nodes new.
FirstKeys(c, new) == {SchemaKey(x) : x \in {c.schema} \ wcache} \cup {Node(x) : x \in new}

\* The job that started, and the others, which keep all but keys.
Started(w, b, c, new) ==
    /\ job'[w].step = "nodes" /\ job'[w].n = Len(com) + 1 /\ job'[w].to = b
    /\ \A x \in Worker \ {w} : /\ job'[x].step = job[x].step /\ job'[x].n = job[x].n
                               /\ job'[x].to = job[x].to
    /\ com'[Len(com) + 1] = c /\ DOMAIN com' = 1..(Len(com) + 1)
    /\ DOMAIN com = 1..Len(com) /\ \A n \in DOMAIN com : com'[n] = com[n]
    /\ Held \subseteq Held'
    /\ \A x \in Worker \ {w} : Owed(x) \subseteq Held' \cup Owed(x)'
    /\ FirstKeys(c, new) \subseteq Held' \cup Owed(w)'
    /\ Idle(User) /\ w # User =>
         /\ job'[w].keys = FirstKeys(c, new)
         /\ \A x \in Worker \ {w} : job'[x] = job[x]

\* A job that starts has to write its first keys, and the others go on.
LEMMA StartJobs ==
    ASSUME Typed, NEW w \in Worker, NEW k \in Branch, Idle(w), w \in {User, k}, NEW b \in Branch,
           NEW c \in Commits, \E x, y \in 1..MaxCommit : c.nodes = {x, y},
           c.parents \subseteq Names, NEW new \in SUBSET {Len(com) + 1}, NEW resets \in BOOLEAN,
           Len(com) < MaxCommit, Start(w, k, b, c, new, resets), store' = store
    PROVE  Started(w, b, c, new)
<1> DEFINE j == [step |-> "nodes", on |-> k, to |-> b, n |-> Len(com) + 1,
                 keys |-> {SchemaKey(x) : x \in {c.schema} \ wcache}, resets |-> resets]
           nodes == {Node(x) : x \in new}
<1>1. /\ com' = Append(com, c) /\ Flush(w, k, j, nodes)
  BY DEF Start
<1>2. /\ ComsTyped' /\ Len(com') = Len(com) + 1 /\ com'[Len(com) + 1] = c
      /\ DOMAIN com = 1..Len(com) /\ DOMAIN com' = 1..(Len(com) + 1)
      /\ \A n \in DOMAIN com : com'[n] = com[n]
  BY <1>1, Appended DEF Typed
<1>3. Len(com) + 1 \in 1..MaxCommit /\ Len(com) + 1 \notin DOMAIN com
  BY <1>2, BoundAssumption DEF Typed, ComsTyped
<1>4. c.schema \in Schema
  BY DEF Commits
<1>5. nodes \subseteq Items /\ nodes \in SUBSET {Node(Len(com) + 1)}
  BY <1>3 DEF Items
<1>6. {SchemaKey(x) : x \in {c.schema} \ wcache} \in SUBSET Items
  BY <1>4 DEF Items
<1>7. j \in Tasks
  BY <1>3, <1>6 DEF Tasks
<1>8. /\ j.step = "nodes" /\ j.n = Len(com) + 1 /\ j.to = b
      /\ j.keys = {SchemaKey(x) : x \in {c.schema} \ wcache}
  OBVIOUS
<1>9. nodes \in SUBSET {Node(j.n)}
  BY <1>5, <1>8
<1>10. \A x \in Worker : job[x].step = "nodes" => job[x].n # j.n
  BY <1>3, <1>8 DEF Typed, JobsTyped
<1>11. job \in [Worker -> Tasks]
  BY DEF Typed, JobsTyped
<1>. HIDE DEF j, nodes
<1>12. /\ job' \in [Worker -> Tasks]
       /\ job'[w] = [j EXCEPT !.keys = job'[w].keys]
       /\ \A x \in Worker \ {w} : job'[x] = [job[x] EXCEPT !.keys = job'[x].keys]
  BY <1>1, <1>5, <1>7, <1>8, <1>11, FlushJobs
<1>13. job'[w].step = "nodes" /\ job'[w].n = Len(com) + 1 /\ job'[w].to = b
  BY <1>7, <1>8, <1>12 DEF Tasks
<1>14. \A x \in Worker \ {w} : /\ job'[x].n = job[x].n /\ job'[x].to = job[x].to
                               /\ job'[x].step = job[x].step
  BY <1>12 DEF Tasks
<1>15. /\ Held \subseteq Held'
       /\ \A x \in Worker \ {w} : Owed(x) \subseteq Held' \cup Owed(x)'
       /\ j.keys \cup nodes \subseteq Held' \cup Owed(w)'
       /\ Idle(User) => job' = [job EXCEPT ![w] = [j EXCEPT !.keys = j.keys \cup nodes]]
          \/ w = User
  BY <1>1, <1>5, <1>7, <1>8, <1>9, <1>10, <1>11, FlushHeld
<1>16. Idle(User) /\ w # User =>
          /\ job'[w].keys = j.keys \cup nodes
          /\ \A x \in Worker \ {w} : job'[x] = job[x]
  BY <1>7, <1>11, <1>15 DEF Tasks
<1>. QED
  BY <1>2, <1>8, <1>13, <1>14, <1>15, <1>16 DEF nodes, FirstKeys, Started

\* What the starting commit shares is held, and what it leaves out is stored.
LEMMA StartWhole ==
    ASSUME Typed, WriteCacheTrue, RecordsWhole, JobsWhole,
           NEW w \in Worker, NEW k \in Branch, Idle(w), w \in {User, k}, NEW b \in Branch,
           NEW c \in Commits, \E x, y \in 1..MaxCommit : c.nodes = {x, y},
           c.parents \subseteq Names, NEW new \in SUBSET {Len(com) + 1}, NEW resets \in BOOLEAN,
           Len(com) < MaxCommit, Start(w, k, b, c, new, resets),
           store' = store, points' = points, cut' = cut, Ahead(c.schema) = {},
           \A m \in c.nodes : m \in new \/ Node(m) \in Held,
           \A p \in c.parents : Key(p) \in store
    PROVE  RecordsWhole' /\ JobsWhole'
<1>1. Started(w, b, c, new)
  BY StartJobs
<1>2. /\ job'[w].step = "nodes" /\ job'[w].n = Len(com) + 1 /\ job'[w].to = b
      /\ \A x \in Worker \ {w} : /\ job'[x].step = job[x].step /\ job'[x].n = job[x].n
                                 /\ job'[x].to = job[x].to
  BY <1>1 DEF Started
<1>3. /\ com'[Len(com) + 1] = c /\ DOMAIN com' = 1..(Len(com) + 1)
      /\ DOMAIN com = 1..Len(com) /\ \A n \in DOMAIN com : com'[n] = com[n]
  BY <1>1 DEF Started
<1>4. /\ Held \subseteq Held'
      /\ \A x \in Worker \ {w} : Owed(x) \subseteq Held' \cup Owed(x)'
      /\ FirstKeys(c, new) \subseteq Held' \cup Owed(w)'
  BY <1>1 DEF Started
<1>5. Len(com) + 1 \in 1..MaxCommit /\ Len(com) + 1 \notin DOMAIN com
  BY <1>3, BoundAssumption DEF Typed, ComsTyped
<1>6. PICK N \in Nat : N = Len(com) + 1
  BY <1>5
<1>7. \A n \in DOMAIN com : Below(n)' = Below(n) /\ com'[n] = com[n]
  BY <1>3 DEF Below
<1>8. RecordsWhole'
  <2>. SUFFICES ASSUME NEW x \in Names', Key(x) \in store' PROVE RecordWhole(x)'
    BY DEF RecordsWhole
  <2>1. x \in AnyName
    BY <1>3, <1>5, BoundAssumption DEF AnyName, Names, Typed, ComsTyped
  <2>2. x \in Names /\ Record(x) \in DOMAIN com
    BY <2>1, RecordMade
  <2>3. RecordWhole(x) /\ Record(x)' = Record(x)
    BY <2>2 DEF RecordsWhole, Record
  <2>. QED
    BY <1>4, <1>7, <2>2, <2>3 DEF RecordWhole
<1>9. ASSUME NEW x \in Worker \ {w} PROVE JobWhole(x)'
  <2>1. Working(x)' => Working(x) /\ job[x].n \in DOMAIN com
    BY <1>2 DEF Working, Typed, JobsTyped
  <2>2. JobWhole(x)
    BY DEF JobsWhole
  <2>. QED
    BY <1>2, <1>4, <1>7, <2>1, <2>2 DEF JobWhole
<1>10. JobWhole(w)'
  <2>1. Below(N)' = {Node(m) : m \in c.nodes} \cup {SchemaKey(c.schema)}
    BY <1>3, <1>6 DEF Below
  <2>2. SchemaKey(c.schema) \in Held' \cup Owed(w)'
    <3>1. CASE c.schema \in wcache
      <4>1. ~ \E x \in Worker : ToWrite(x, SchemaKey(c.schema))
        BY <3>1 DEF Ahead, When
      <4>2. SchemaKey(c.schema) \in store
        BY <3>1, <4>1 DEF WriteCacheTrue
      <4>. QED
        BY <1>4, <4>2 DEF Held
    <3>2. CASE c.schema \notin wcache
      <4>. QED
        BY <1>4, <3>2 DEF FirstKeys
    <3>. QED
      BY <3>1, <3>2
  <2>3. \A m \in c.nodes : Node(m) \in Held' \cup Owed(w)'
    BY <1>4 DEF FirstKeys
  <2>4. Below(N)' \subseteq Held' \cup Owed(w)'
    BY <2>1, <2>2, <2>3
  <2>5. \A p \in com'[N].parents : Key(p) \in store'
    BY <1>3, <1>6
  <2>. QED
    BY <1>2, <1>6, <2>4, <2>5 DEF JobWhole
<1>11. JobsWhole'
  <2>1. \A x \in Worker : JobWhole(x)'
    BY <1>9, <1>10
  <2>2. User \in Worker
    BY DEF Worker
  <2>. QED
    BY <1>2, <2>1, <2>2 DEF JobsWhole, Rooted
<1>. QED
  BY <1>8, <1>11

\* Without a collection there is nothing more to say of it.
LEMMA NoCollection ==
    ASSUME gc = NoGc
    PROVE  Apart /\ Marking
  BY DEF Apart, Marking, Collecting, NoGc

\* While the user is at work no collection runs.
LEMMA NotCollecting ==
    ASSUME Apart, ~Idle(User), UNCHANGED gc
    PROVE  Apart' /\ Marking'
<1>1. gc' = NoGc
  BY DEF Apart, Collecting
<1>. QED
  BY <1>1 DEF Apart, Marking, Collecting, NoGc

\* The operations of the user keep it: there is no collection then.
LEMMA MergeRegular ==
    ASSUME Typed, WriteCacheTrue, RegularInv,
           NEW b \in Branch, NEW from \in Branch \cup DOMAIN com, Merge(b, from)
    PROVE  RegularInv'
<1>. SUFFICES ASSUME Regular' PROVE RegularInv'
  BY DEF RegularInv
<1>. USE DEF Typed
<1>0. PICK date \in DatesOf(Len(com) + 1) :
          Start(User, b, b, [nodes |-> BuiltOn(shown[b], Len(com) + 1), schema |-> com[shown[b]].schema,
                             parents |-> {points[b], Record(from)}, time |-> date],
                {Len(com) + 1}, TRUE)
  BY DEF Merge
<1> DEFINE c == [nodes |-> BuiltOn(shown[b], Len(com) + 1), schema |-> com[shown[b]].schema,
                 parents |-> {points[b], Record(from)}, time |-> date]
           cases == When("overlap", Collecting) \cup Ahead(com[shown[b]].schema)
              \cup When("stale", shown[b] # points[b] \/ Forgotten(b) \/ Forgotten(from))
<1>1. /\ Start(User, b, b, c, {Len(com) + 1}, TRUE) /\ Idle(User) /\ Note(cases)
  BY <1>0 DEF Merge, UserCalls
<1>2. /\ shown[b] # 0 /\ BranchKey(b) \in store /\ Len(com) < MaxCommit /\ Key(from) \in store
      /\ UNCHANGED <<points, branches, store, mem, shown, gcVars>>
  BY DEF Merge, connVars
<1>3. Regular /\ cases = {}
  BY <1>1, NoneNoted
<1>4. /\ ~Collecting /\ Ahead(com[shown[b]].schema) = {} /\ shown[b] = points[b]
      /\ CommitKey(points[b]) \in store /\ (from \in Branch => CommitKey(points[from]) \in store)
  BY <1>3 DEF When, Forgotten
<1>5. RecordsWhole /\ JobsWhole /\ Announced /\ (failed => cut > 0)
  BY <1>3 DEF RegularInv
<1>6. points[b] \in DOMAIN com /\ Len(com) + 1 \in 1..MaxCommit
  BY <1>2, BoundAssumption DEF ConnsTyped, StoreTyped, ComsTyped
<1>7. Record(from) \in DOMAIN com /\ CommitKey(Record(from)) \in store
  <2>1. CASE from \in Branch
    BY <1>2, <1>4, <2>1, BoundAssumption DEF Key, Record, ConnsTyped, StoreTyped, ComsTyped
  <2>2. CASE from \notin Branch
    BY <1>2, <2>2 DEF Key, Record
  <2>. QED
    BY <2>1, <2>2
<1>8. \A n \in DOMAIN com : n \in Names /\ Record(n) = n /\ Key(n) = CommitKey(n) /\ n \in 1..MaxCommit
  BY CommitName, BoundAssumption DEF ComsTyped
<1>9. c \in Commits /\ \E p, q \in 1..MaxCommit : c.nodes = {p, q}
  <2>1. PICK x, y \in 1..MaxCommit : BuiltOn(shown[b], Len(com) + 1) = {x, y}
    BY <1>2, <1>4, <1>6, BuiltPair
  <2>2. com[shown[b]].schema \in Schema
    BY <1>4, <1>6, ParentsNamed
  <2>. QED
    BY <1>0, <1>6, <1>7, <1>8, <2>1, <2>2 DEF Commits, DatesOf
<1>10. c.parents \subseteq Names
  BY <1>6, <1>7 DEF Names
<1>11. \A m \in c.nodes : m \in {Len(com) + 1} \/ Node(m) \in Held
  <2>1. RecordWhole(points[b])
    BY <1>4, <1>5, <1>6, <1>8 DEF RecordsWhole
  <2>2. \A m \in com[points[b]].nodes : Node(m) \in Held
    BY <1>6, <1>8, <2>1 DEF RecordWhole, Below
  <2>3. Max(com[points[b]].nodes) \in com[points[b]].nodes
    BY <1>6, SharedNode
  <2>. QED
    BY <1>4, <2>2, <2>3 DEF BuiltOn
<1>12. \A p \in c.parents : Key(p) \in store
  BY <1>4, <1>6, <1>7, <1>8
<1>13. c.schema = com[shown[b]].schema
  OBVIOUS
<1>. HIDE DEF c, cases, Typed
<1>14. RecordsWhole' /\ JobsWhole'
  <2>1. User \in Worker /\ store' = store /\ points' = points /\ cut' = cut
    BY <1>2 DEF Worker, gcVars
  <2>2. Ahead(c.schema) = {} /\ {Len(com) + 1} \in SUBSET {Len(com) + 1}
    BY <1>4, <1>13
  <2>. QED
    BY <1>1, <1>2, <1>5, <1>9, <1>10, <1>11, <1>12, <2>1, <2>2, StartWhole
<1>15. Announced'
  <2>1. \A x \in branches : Rooted(x)
    BY <1>1, <1>5 DEF Announced, Working, Idle, NoJob
  <2>. QED
    BY <1>2, <2>1 DEF Announced, Rooted
<1>16. Apart' /\ Marking'
  BY <1>2, <1>4 DEF gcVars, Apart, Marking, Collecting, NoGc
<1>17. (failed => cut > 0)'
  BY <1>2, <1>5 DEF gcVars
<1>. QED
  BY <1>14, <1>15, <1>16, <1>17 DEF RegularInv

LEMMA ForceRegular ==
    ASSUME Typed, WriteCacheTrue, RegularInv,
           NEW k \in Branch, NEW b \in Branch, NEW v \in DOMAIN com,
           NEW p \in Branch \cup DOMAIN com, ForceBranch(k, b, v, p)
    PROVE  RegularInv'
<1>. SUFFICES ASSUME Regular' PROVE RegularInv'
  BY DEF RegularInv
<1>. USE DEF Typed
<1> DEFINE c == [nodes |-> com[v].nodes, schema |-> com[v].schema,
                 parents |-> {p}, time |-> com[v].time]
           cases == When("overlap", Collecting) \cup Ahead(com[v].schema)
<1>1. /\ Start(User, k, b, c, {}, FALSE)
      /\ Idle(User) /\ branches' = branches \cup {b} /\ Note(cases)
  BY DEF ForceBranch, UserCalls
<1>2. /\ CommitKey(v) \in store /\ Key(p) \in store /\ Len(com) < MaxCommit
      /\ UNCHANGED <<points, store, mem, shown, gcVars>>
  BY DEF ForceBranch, connVars
<1>3. Regular /\ cases = {}
  BY <1>1, NoneNoted
<1>4. ~Collecting /\ Ahead(com[v].schema) = {}
  BY <1>3 DEF When
<1>5. RecordsWhole /\ JobsWhole /\ Announced /\ (failed => cut > 0)
  BY <1>3 DEF RegularInv
<1>6. c \in Commits /\ \E q, r \in 1..MaxCommit : c.nodes = {q, r}
  <2>1. p \in Branch \cup 1..MaxCommit
    BY BoundAssumption DEF ComsTyped
  <2>2. com[v] \in Commits
    BY DEF ComsTyped
  <2>3. PICK x, y \in 1..MaxCommit : com[v].nodes = {x, y}
    BY DEF ComsTyped
  <2>. QED
    BY <2>1, <2>2, <2>3 DEF Commits
<1>7. c.parents \subseteq Names
  BY DEF Names
<1>8. \A m \in c.nodes : m \in {} \/ Node(m) \in Held
  <2>1. v \in Names /\ Record(v) = v /\ Key(v) = CommitKey(v)
    BY CommitName
  <2>2. RecordWhole(v)
    BY <1>2, <1>5, <2>1 DEF RecordsWhole
  <2>. QED
    BY <2>1, <2>2 DEF RecordWhole, Below
<1>9. c.schema = com[v].schema /\ \A q \in c.parents : Key(q) \in store
  BY <1>2
<1>. HIDE DEF c, cases, Typed
<1>10. Started(User, b, c, {})
  <2>1. User \in Worker /\ store' = store /\ {} \in SUBSET {Len(com) + 1}
    BY <1>2 DEF Worker
  <2>. QED
    BY <1>1, <1>2, <1>6, <1>7, <2>1, StartJobs
<1>11. RecordsWhole' /\ JobsWhole'
  <2>1. User \in Worker /\ store' = store /\ points' = points /\ cut' = cut
    BY <1>2 DEF Worker, gcVars
  <2>2. Ahead(c.schema) = {} /\ {} \in SUBSET {Len(com) + 1}
    BY <1>4, <1>9
  <2>. QED
    BY <1>1, <1>2, <1>5, <1>6, <1>7, <1>8, <1>9, <2>1, <2>2, StartWhole
<1>12. Announced'
  <2>1. \A x \in branches : Rooted(x)
    BY <1>1, <1>5 DEF Announced, Working, Idle, NoJob
  <2>. QED
    BY <1>1, <1>2, <1>10, <2>1 DEF Announced, Rooted, Working, Started
<1>13. Apart' /\ Marking'
  BY <1>2, <1>4 DEF gcVars, Apart, Marking, Collecting, NoGc
<1>14. (failed => cut > 0)'
  BY <1>2, <1>5 DEF gcVars
<1>. QED
  BY <1>11, <1>12, <1>13, <1>14 DEF RegularInv

\* A walk meets what it met before as long as no less is followed.
LEMMA WalkGrows ==
    ASSUME Typed, Typed', Names \subseteq Names',
           \A x \in Names : FollowedIn(x) \subseteq FollowedIn(x)',
           NEW y \in Names
    PROVE  Walk(y) \subseteq Walk(y)'
<1>1. WalkIs(y)
  BY WalkLeast DEF WalksAre
<1>2. WalksAre'
  BY WalkLeast, PTL
<1>3. WalkIs(y)'
  BY <1>2 DEF WalksAre
<1>4. y \in Walk(y)' /\ \A x \in Walk(y)' : FollowedIn(x)' \subseteq Walk(y)'
  BY <1>3 DEF WalkIs
<1>5. \A x \in Walk(y)' \cap Names : FollowedIn(x) \subseteq Walk(y)'
  BY <1>4
<1>. QED
  BY <1>1, <1>4, <1>5 DEF WalkIs

LEMMA OpenNamed == Typed => Open \subseteq Names
  BY DEF Open, Typed, GcTyped, Gcs, Names

LEMMA OpenNamedNext == Typed' => Open' \subseteq Names'
  BY DEF Open, Typed, GcTyped, Gcs, Names

\* The steps after which the commits that were made, the branches and the
\* collection are what they were: the marks are right, and what is safe still is.
LEMMA MarkStays ==
    ASSUME Typed, Typed', gc' = gc, points' = points, store \subseteq store',
           Saved \subseteq Saved',
           DOMAIN com \subseteq DOMAIN com', \A n \in DOMAIN com : com'[n] = com[n],
           NEW B \in SUBSET DOMAIN com, Marks(B),
           \A x \in AnyName : Key(x) \in Saved' => Key(x) \in Saved
    PROVE  /\ Marks(B)'
           /\ \A b \in Branch : Safe(B, b) => Safe(B, b)'
<1>1. \A x : Record(x)' = Record(x) /\ Key(x)' = Key(x)
  BY DEF Record, Key
<1>2. Open' = Open /\ \A x : Traced(B, x) => Traced(B, x)'
  BY <1>1 DEF Open, Traced
<1>3. \A n \in B : Good(B, n)'
  <2>. SUFFICES ASSUME NEW n \in B PROVE Good(B, n)'
    OBVIOUS
  <2>1. Good(B, n) /\ com'[n] = com[n]
    BY DEF Marks
  <2>2. Below(n)' = Below(n)
    BY <2>1 DEF Below
  <2>. QED
    BY <1>2, <2>1, <2>2 DEF Good
<1>4. \A t \in gc'.seen : Traced(B, t[2])'
  BY <1>2 DEF Marks
<1>5. \A x \in Names : FollowedIn(x) \subseteq FollowedIn(x)'
  <2>1. \A x \in Names : Key(x) \in store => Record(x) \in DOMAIN com
    BY BoundAssumption DEF Names, Key, Record, Typed, ConnsTyped, StoreTyped, ComsTyped
  <2>. QED
    BY <1>1, <2>1 DEF FollowedIn, Followed
<1>6. \A y \in Open : Walk(y) \subseteq Walk(y)'
  <2>1. Names \subseteq Names'
    BY DEF Names
  <2>. QED
    BY <1>5, <2>1, OpenNamed, WalkGrows
<1>7. Reached \subseteq Reached'
  BY <1>2, <1>6 DEF Reached
<1>8. \A n : Covered(B, n) => Covered(B, n)'
  BY <1>1, <1>7 DEF Covered
<1>9. ASSUME NEW x \in AnyName, Key(x)' \in Saved'
      PROVE  Key(x)' \in store' /\ Covered(B, Record(x))'
  <2>1. PICK r : r = Record(x)
    OBVIOUS
  <2>2. Key(x) \in store /\ Covered(B, r) /\ Record(x)' = r
    BY <1>1, <1>9, <2>1 DEF Marks
  <2>3. Covered(B, r)'
    BY <1>8, <2>2
  <2>. QED
    BY <1>1, <2>2, <2>3
<1>10. Marks(B)'
  BY <1>3, <1>4, <1>9 DEF Marks
<1>11. \A b \in Branch : Safe(B, b) => Safe(B, b)'
  BY <1>2 DEF Safe
<1>. QED
  BY <1>10, <1>11

\* A writer starts to commit, also beside a collection.
LEMMA CommitRegular ==
    ASSUME Typed, Typed', CacheInv, RegularInv, NEW b \in Branch, Commit(b)
    PROVE  RegularInv'
<1>. SUFFICES ASSUME Regular' PROVE RegularInv'
  BY DEF RegularInv
<1>1. PICK s \in Schema, date \in DatesOf(Len(com) + 1) :
          /\ Start(b, b, b, [nodes |-> BuiltOn(mem[b], Len(com) + 1), schema |-> s,
                             parents |-> {points[b]}, time |-> date], {Len(com) + 1}, TRUE)
          /\ Note(When("overlap", gc.step = "clear") \cup Ahead(s)
                  \cup When("backdated", Collecting /\ date <= gc.date)
                  \cup When("stale", mem[b] # points[b] \/ Forgotten(b)))
  BY DEF Commit
<1> DEFINE c == [nodes |-> BuiltOn(mem[b], Len(com) + 1), schema |-> s,
                 parents |-> {points[b]}, time |-> date]
<1>2. /\ Idle(b) /\ shown[b] # 0 /\ BranchKey(b) \in store /\ Len(com) < MaxCommit
      /\ store' = store /\ points' = points /\ cut' = cut /\ gc' = gc /\ young' = young
      /\ failed' = failed /\ branches' = branches
  BY DEF Commit, gcVars
<1>3. Regular /\ gc.step # "clear" /\ Ahead(s) = {} /\ mem[b] = points[b] /\ b \in branches
      /\ CommitKey(points[b]) \in store /\ ~(Collecting /\ date <= gc.date)
  <2>1. Regular /\ When("overlap", gc.step = "clear") \cup Ahead(s)
                     \cup When("backdated", Collecting /\ date <= gc.date)
                     \cup When("stale", mem[b] # points[b] \/ Forgotten(b)) = {}
    BY <1>1, NoneNoted
  <2>. QED
    BY <2>1 DEF When, Forgotten
<1>4. RecordsWhole /\ JobsWhole /\ Announced /\ Apart /\ Marking /\ (failed => cut > 0)
  BY <1>3 DEF RegularInv
<1>5. points[b] \in DOMAIN com /\ Len(com) + 1 \in 1..MaxCommit /\ points[b] \in 1..MaxCommit
      /\ Len(com) \in Nat
  BY <1>2, BoundAssumption DEF Typed, ConnsTyped, StoreTyped, ComsTyped
<1>6. points[b] \in Names /\ Record(points[b]) = points[b] /\ Key(points[b]) = CommitKey(points[b])
  BY <1>5, CommitName DEF Typed
<1>7. c \in Commits /\ \E p, q \in 1..MaxCommit : c.nodes = {p, q}
  <2>1. PICK x, y \in 1..MaxCommit : BuiltOn(mem[b], Len(com) + 1) = {x, y}
    BY <1>2, <1>3, <1>5, BuiltPair
  <2>. QED
    BY <1>1, <1>5, <2>1 DEF Commits, DatesOf
<1>8. c.parents \subseteq Names /\ \A p \in c.parents : Key(p) \in store
  BY <1>3, <1>6
<1>9. c.nodes \subseteq {Len(com) + 1} \cup com[points[b]].nodes
  <2>1. Max(com[points[b]].nodes) \in com[points[b]].nodes
    BY <1>5, SharedNode DEF Typed
  <2>. QED
    BY <1>3, <2>1 DEF BuiltOn
<1>10. \A m \in c.nodes : m \in {Len(com) + 1} \/ Node(m) \in Held
  <2>1. RecordWhole(points[b])
    BY <1>3, <1>4, <1>6 DEF RecordsWhole
  <2>. QED
    BY <1>6, <1>9, <2>1 DEF RecordWhole, Below
<1>11. /\ c.schema = s /\ c.parents = {points[b]} /\ c.time = date
       /\ b \in Worker /\ User \in Worker /\ b # User
  BY NameAssumption DEF Worker
<1>12. Start(b, b, b, c, {Len(com) + 1}, TRUE)
  BY <1>1
<1>. HIDE DEF c
<1>13. Ahead(c.schema) = {} /\ {Len(com) + 1} \in SUBSET {Len(com) + 1}
  BY <1>3, <1>11
<1>14. RecordsWhole' /\ JobsWhole'
  BY <1>2, <1>4, <1>7, <1>8, <1>10, <1>11, <1>12, <1>13, StartWhole DEF CacheInv
<1>15. Started(b, b, c, {Len(com) + 1})
  BY <1>2, <1>7, <1>8, <1>11, <1>12, <1>13, StartJobs
<1>16. Announced'
  BY <1>2, <1>4, <1>11, <1>15 DEF Announced, Rooted, Working, Started
<1>17. ASSUME Collecting
       PROVE  /\ Idle(User) /\ job'[b].keys = FirstKeys(c, {Len(com) + 1})
              /\ \A x \in Worker \ {b} : job'[x] = job[x]
              /\ gc.date \in 0..Len(com)
  BY <1>4, <1>11, <1>15, <1>17 DEF Apart, Started
<1>18. Apart'
  <2>. SUFFICES ASSUME Collecting' PROVE /\ Idle(User)' /\ \A w \in Worker : Foreign(w)' = {}
                                         /\ gc'.date \in 0..Len(com')
    BY <1>2, <1>3 DEF Apart
  <2>1. Collecting
    BY <1>2 DEF Collecting
  <2>2. Idle(User)'
    BY <1>11, <1>17, <2>1 DEF Idle
  <2>3. \A w \in Worker \ {b} : Foreign(w)' = {}
    BY <1>4, <1>17, <2>1 DEF Apart, Foreign
  <2>4. Foreign(b)' = {}
    <3>1. \A k \in FirstKeys(c, {Len(com) + 1}) : k[1] = "node" => k = Node(Len(com) + 1)
      BY DEF FirstKeys, SchemaKey
    <3>2. job'[b].step = "nodes" /\ job'[b].n = Len(com) + 1
      BY <1>15 DEF Started
    <3>3. NodesIn(job'[b].keys) \subseteq {Node(Len(com) + 1)}
      BY <1>17, <2>1, <3>1 DEF NodesIn
    <3>. QED
      BY <3>2, <3>3 DEF Foreign
  <2>5. Len(com') = Len(com) + 1
    BY <1>12 DEF Start, Typed, ComsTyped
  <2>. QED
    BY <1>2, <1>5, <1>17, <2>1, <2>2, <2>3, <2>4, <2>5
<1>19. Marking'
  <2>. SUFFICES ASSUME gc.step = "mark" PROVE Marking'
    BY <1>2 DEF Marking
  <2>1. Collecting
    BY DEF Collecting, NoGc
  <2>2. /\ \A x \in Branch : ~Idle(x) => BuiltAlone(x)
        /\ \A x \in gc.heads : Rooted(x)
        /\ \A x \in Open : Key(x) \in store \/ cut > 0
        /\ \A t \in gc.todo : t \notin gc.seen
        /\ \A t \in gc.todo \cup gc.seen : t[1] \notin gc.heads
    BY <1>4 DEF Marking
  <2>3. PICK B \in SUBSET DOMAIN com :
             Marks(B) /\ \A x \in Branch : x \in branches \/ ~Idle(x) => Safe(B, x)
    BY <1>4 DEF Marking
  <2>4. /\ DOMAIN com \subseteq DOMAIN com' /\ DOMAIN com = 1..Len(com)
        /\ \A n \in DOMAIN com : com'[n] = com[n]
    BY <1>5, <1>15 DEF Started
  <2>5. Marks(B)' /\ \A x \in Branch : Safe(B, x) => Safe(B, x)'
    <3>1. Saved' = Saved /\ store \subseteq store'
      BY <1>2 DEF Saved
    <3>. QED
      BY <1>2, <2>3, <2>4, <3>1, MarkStays
  <2>6. Open' = Open /\ \A x : Key(x)' = Key(x)
    BY <1>2 DEF Open, Key
  <2>7. \A x \in Branch : x \in branches \/ ~Idle(x)' => x \in branches \/ ~Idle(x)
    BY <1>3, <1>17, <2>1 DEF Idle, Worker
  <2>9. \A x \in Branch \ {b} : ~Idle(x)' => BuiltAlone(x)'
    <3>. SUFFICES ASSUME NEW x \in Branch \ {b}, ~Idle(x)' PROVE BuiltAlone(x)'
      OBVIOUS
    <3>1. x \in Worker /\ job'[x] = job[x] /\ BuiltAlone(x)
      BY <1>17, <2>1, <2>2 DEF Worker, Idle
    <3>2. Working(x) /\ BranchKey(x) \in store
      BY <3>1 DEF BuiltAlone
    <3>3. job[x].n \in DOMAIN com /\ points[x] \in DOMAIN com
      <4>1. job[x].step # "idle"
        BY <3>2 DEF Working
      <4>2. job[x].n \in DOMAIN com
        BY <3>1, <4>1 DEF Typed, JobsTyped
      <4>3. points[x] # 0 /\ points[x] \in 0..Len(com) /\ DOMAIN com = 1..Len(com)
        BY <2>4, <3>2 DEF Typed, StoreTyped, ConnsTyped
      <4>. QED
        BY <1>5, <4>2, <4>3
    <3>. QED
      BY <1>2, <2>4, <3>1, <3>3 DEF BuiltAlone, Working, Owed
  <2>10. BuiltAlone(b)'
    <3>1. job'[b].step = "nodes" /\ job'[b].n = Len(com) + 1 /\ job'[b].to = b
          /\ com'[Len(com) + 1] = c
      BY <1>15 DEF Started
    <3>2. {Node(Len(com) + 1), SchemaKey(s)} \subseteq job'[b].keys \cup young
      <4>1. CASE s \in wcache
        <5>1. ~ \E x \in Worker : ToWrite(x, SchemaKey(s))
          BY <1>3, <4>1 DEF Ahead, When
        <5>2. SchemaKey(s) \in young
          BY <4>1, <5>1 DEF CacheInv, CachedYoung
        <5>. QED
          BY <1>17, <2>1, <5>2 DEF FirstKeys
      <4>2. CASE s \notin wcache
        BY <1>11, <1>17, <2>1, <4>2 DEF FirstKeys
      <4>. QED
        BY <4>1, <4>2
    <3>3. com'[points[b]] = com[points[b]]
      BY <1>5, <2>4
    <3>4. c.time > gc.date
      <4>1. date \in Nat /\ gc.date \in Nat
        BY <1>1, <1>5, <1>17, <2>1, DateAssumption DEF DatesOf
      <4>. QED
        BY <1>3, <1>11, <2>1, <4>1
    <3>. QED
      BY <1>2, <1>9, <1>11, <3>1, <3>2, <3>3, <3>4 DEF BuiltAlone, Working, Owed
  <2>11. /\ \E M \in SUBSET DOMAIN com' :
                Marks(M)' /\ \A x \in Branch : x \in branches' \/ ~Idle(x)' => Safe(M, x)'
         /\ \A x \in gc'.heads : Rooted(x)'
    BY <1>2, <2>2, <2>3, <2>4, <2>5, <2>7 DEF Rooted
  <2>. QED
    BY <1>2, <2>2, <2>6, <2>9, <2>10, <2>11 DEF Marking
<1>20. (failed => cut > 0)'
  BY <1>2, <1>4
<1>. QED
  BY <1>14, <1>16, <1>18, <1>19, <1>20 DEF RegularInv

\* What a job writes first is young, so that a collection spares it.
LEMMA WriteNodesRegular ==
    ASSUME Typed, Typed', RegularInv, NEW w \in Worker, WriteNodes(w)
    PROVE  RegularInv'
<1>. SUFFICES ASSUME Regular' PROVE RegularInv'
  BY DEF RegularInv
<1>1. /\ job[w].step = "nodes" /\ store' = store \cup job[w].keys
      /\ young' = IF Collecting THEN young \cup job[w].keys ELSE {}
      /\ job' = [job EXCEPT ![w].step = "roots"]
      /\ com' = com /\ points' = points /\ branches' = branches /\ gc' = gc
      /\ failed' = failed /\ cut' = cut /\ odd' = odd
  BY DEF WriteNodes, Put, histVars
<1>2. RecordsWhole /\ JobsWhole /\ Announced /\ Apart /\ Marking /\ (failed => cut > 0)
  BY <1>1 DEF RegularInv, Regular
<1>3. job \in [Worker -> Tasks] /\ job[w] \in Tasks /\ User \in Worker
  BY DEF Typed, JobsTyped, Worker
<1>4. /\ job'[w].step = "roots" /\ job'[w].n = job[w].n /\ job'[w].to = job[w].to
      /\ job'[w].keys = job[w].keys
      /\ \A x \in Worker \ {w} : job'[x] = job[x]
  BY <1>1, <1>3 DEF Tasks
<1>5. /\ Foreign(w)' = {} /\ Owed(w)' = {} /\ Owed(w) = job[w].keys /\ Foreign(w) \subseteq job[w].keys
      /\ \A x \in Worker \ {w} : Foreign(x)' = Foreign(x) /\ Owed(x)' = Owed(x)
  BY <1>1, <1>4 DEF Foreign, Owed, NodesIn
<1>6. Held \subseteq Held' /\ Owed(w) \subseteq Held'
  BY <1>1, <1>5 DEF Held
<1>7. \A x : Key(x) \notin job[w].keys
  <2>1. job[w].keys \subseteq Items
    BY <1>3 DEF Tasks
  <2>. QED
    BY <2>1, KeysApart DEF Key, Items
<1>8. \A n : Below(n)' = Below(n)
  BY <1>1 DEF Below
<1>9. RecordsWhole'
  <2>. SUFFICES ASSUME NEW x \in Names, Key(x) \in store' PROVE RecordWhole(x)'
    BY <1>1 DEF RecordsWhole, Names
  <2>1. RecordWhole(x) /\ Record(x)' = Record(x)
    BY <1>1, <1>2, <1>7 DEF RecordsWhole, Record
  <2>. QED
    BY <1>1, <1>6, <1>8, <2>1 DEF RecordWhole
<1>10. JobsWhole'
  <2>1. \A x \in Worker : JobWhole(x)
    BY <1>2 DEF JobsWhole
  <2>2. JobWhole(w)'
    BY <1>1, <1>4, <1>6, <1>8, <2>1 DEF JobWhole, Working
  <2>3. \A x \in Worker \ {w} : JobWhole(x)'
    BY <1>1, <1>4, <1>5, <1>6, <1>8, <2>1 DEF JobWhole, Working
  <2>4. Rooted(job[User].to) => Rooted(job[User].to)'
    BY <1>1, <1>3, <1>4 DEF Rooted
  <2>5. job'[User].step \in {"key", "announce"} => job'[User] = job[User]
    BY <1>3, <1>4
  <2>. QED
    BY <1>1, <1>2, <2>2, <2>3, <2>4, <2>5 DEF JobsWhole, Rooted
<1>11. Announced'
  BY <1>1, <1>2, <1>3, <1>4 DEF Announced, Rooted, Working
<1>12. Apart' /\ Marking'
  <2>1. CASE w = User
    <3>1. ~Idle(User)
      BY <1>1, <2>1 DEF Idle, NoJob
    <3>. QED
      BY <1>1, <1>2, <3>1, NotCollecting
  <2>2. CASE w # User
    <3>1. w \in Branch /\ ~Idle(w) /\ ~Idle(w)'
      BY <1>1, <1>4, <2>2 DEF Worker, Idle, NoJob
    <3>2. Idle(User)' <=> Idle(User)
      BY <1>3, <1>4, <2>2 DEF Idle
    <3>3. Apart'
      BY <1>1, <1>2, <1>5, <3>1, <3>2 DEF Apart, Collecting
    <3>4. ASSUME gc.step = "mark" PROVE Marking'
      <4>1. Collecting
        BY <3>4 DEF Collecting, NoGc
      <4>2. Saved' = Saved \cup job[w].keys /\ young' = young \cup job[w].keys
        BY <1>1, <4>1 DEF Saved
      <4>3. PICK B \in SUBSET DOMAIN com :
                 Marks(B) /\ \A x \in Branch : x \in branches \/ ~Idle(x) => Safe(B, x)
        BY <1>2, <3>4 DEF Marking
      <4>9. Marks(B)' /\ \A x \in Branch : Safe(B, x) => Safe(B, x)'
        <5>1. \A x \in AnyName : Key(x) \in Saved' => Key(x) \in Saved
          BY <1>7, <4>2
        <5>. QED
          BY <1>1, <4>2, <4>3, <5>1, MarkStays
      <4>4. \A x \in Branch : ~Idle(x)' => ~Idle(x)
        BY <1>4, <3>1 DEF Idle, Worker
      <4>5. /\ \A x \in Branch : ~Idle(x) => BuiltAlone(x)
            /\ \A x \in gc.heads : Rooted(x)
            /\ \A x \in Open : Key(x) \in store \/ cut > 0
            /\ \A t \in gc.todo : t \notin gc.seen
            /\ \A t \in gc.todo \cup gc.seen : t[1] \notin gc.heads
        BY <1>2, <3>4 DEF Marking
      <4>6. \A x \in Branch \ {w} : ~Idle(x)' => BuiltAlone(x)'
        BY <1>1, <1>4, <1>5, <4>2, <4>4, <4>5 DEF BuiltAlone, Working, Worker
      <4>7. BuiltAlone(w)'
        BY <1>1, <1>4, <1>5, <3>1, <4>2, <4>5 DEF BuiltAlone, Working
      <4>8. /\ \E M \in SUBSET DOMAIN com' :
                   Marks(M)' /\ \A x \in Branch : x \in branches' \/ ~Idle(x)' => Safe(M, x)'
            /\ \A x \in gc'.heads : Rooted(x)'
            /\ \A x \in Open' : Key(x)' \in store' \/ cut' > 0
        BY <1>1, <4>3, <4>4, <4>5, <4>9 DEF Rooted, Open, Key
      <4>. QED
        BY <1>1, <4>5, <4>6, <4>7, <4>8 DEF Marking
    <3>. QED
      BY <1>1, <3>3, <3>4 DEF Marking
  <2>. QED
    BY <2>1, <2>2
<1>. QED
  BY <1>1, <1>2, <1>9, <1>10, <1>11, <1>12 DEF RegularInv

LEMMA WalkLeastNext == Typed' => WalksAre'
  BY WalkLeast, PTL

\* The writer of b, alone during a collection, moves the record of b on from
\* commit o to commit n: what was on a way still is, and o where b was.
LEMMA WalkMovesOn ==
    ASSUME Typed, Typed', gc' = gc, com' = com, store \subseteq store',
           NEW b \in Branch, NEW n \in DOMAIN com, NEW o \in DOMAIN com, points[b] = o,
           points' = [points EXCEPT ![b] = n], BranchKey(b) \in store', CommitKey(o) \in store,
           com[n].time > gc.date, com[n].parents = {o}, NEW y \in Names
    PROVE  /\ Walk(y) \subseteq Walk(y)'
           /\ b \in Walk(y) => o \in Walk(y)'
<1>1. WalkIs(y)
  BY WalkLeast DEF WalksAre
<1>2. WalkIs(y)'
  BY WalkLeastNext DEF WalksAre, Names
<1>3. y \in Walk(y)' /\ \A x \in Walk(y)' : FollowedIn(x)' \subseteq Walk(y)'
  BY <1>2 DEF WalkIs
<1>4. o \notin Branch /\ Key(o) = CommitKey(o) /\ Record(o) = o /\ Record(o)' = o /\ o # b
  <2>1. o \notin Branch
    BY NameAssumption, BoundAssumption DEF Typed, ComsTyped
  <2>. QED
    BY <2>1 DEF Key, Record
<1>5. Record(b) = o /\ Record(b)' = n /\ Key(b) = BranchKey(b)
  BY DEF Typed, ConnsTyped, Record, Key
<1>6. b \in Walk(y)' => o \in Walk(y)'
  <2>1. FollowedIn(b)' = {o}
    BY <1>5 DEF FollowedIn, Followed, Key
  <2>. QED
    BY <1>3, <2>1
<1>7. FollowedIn(b) \subseteq FollowedIn(o)'
  BY <1>4, <1>5 DEF FollowedIn, Followed, Key
<1>8. \A x \in Names \ {b} : FollowedIn(x) \subseteq FollowedIn(x)'
  <2>1. \A x \in Names \ {b} : Record(x)' = Record(x) /\ Key(x)' = Key(x)
    BY DEF Record, Key, Typed, ConnsTyped
  <2>. QED
    BY <2>1 DEF FollowedIn, Followed
<1>9. \A x \in Walk(y)' \cap Names : FollowedIn(x) \subseteq Walk(y)'
  <2>. SUFFICES ASSUME NEW x \in Walk(y)', x \in Names PROVE FollowedIn(x) \subseteq Walk(y)'
    OBVIOUS
  <2>1. CASE x = b
    BY <1>3, <1>6, <1>7, <2>1
  <2>2. CASE x # b
    BY <1>3, <1>8, <2>2
  <2>. QED
    BY <2>1, <2>2
<1>10. Walk(y) \subseteq Walk(y)'
  BY <1>1, <1>3, <1>9 DEF WalkIs
<1>. QED
  BY <1>6, <1>10

\* The writer of b commits while a collection marks: b and what it led to survive.
LEMMA WriteRootsMarking ==
    ASSUME Typed, Typed', Apart, Marking, JobsWhole, NEW b \in Branch, WriteRoots(b)
    PROVE  Marking'
<1>. SUFFICES ASSUME gc.step = "mark" PROVE Marking'
  BY DEF Marking, WriteRoots
<1>1. job[b].step = "roots" /\ ~Idle(b) /\ b \in Worker
  BY DEF WriteRoots, Idle, NoJob, Worker
<1>2. Collecting
  BY DEF Collecting, NoGc
<1>3. PICK n : n = job[b].n
  OBVIOUS
<1>4. PICK o : o = points[b]
  OBVIOUS
<1>5. /\ \A x \in Branch : ~Idle(x) => BuiltAlone(x)
      /\ \A x \in gc.heads : Rooted(x)
      /\ \A x \in Open : Key(x) \in store \/ cut > 0
      /\ \A t \in gc.todo : t \notin gc.seen
      /\ \A t \in gc.todo \cup gc.seen : t[1] \notin gc.heads
  BY DEF Marking
<1>6. /\ job[b].to = b /\ BranchKey(b) \in store
      /\ com[n].parents = {o} /\ com[n].time > gc.date
      /\ com[n].nodes \subseteq {n} \cup com[o].nodes
      /\ {Node(n), SchemaKey(com[n].schema)} \subseteq young
  <2>1. BuiltAlone(b) /\ Owed(b) = {}
    BY <1>1, <1>5 DEF Owed
  <2>. QED
    BY <1>3, <1>4, <2>1 DEF BuiltAlone
<1>7. /\ store' = store \cup {CommitKey(n), BranchKey(b)}
      /\ young' = young \cup {CommitKey(n), BranchKey(b)}
      /\ points' = [points EXCEPT ![b] = n]
      /\ job' = [job EXCEPT ![b] = NoJob]
      /\ com' = com /\ branches' = branches /\ gc' = gc /\ cut' = cut
  BY <1>2, <1>3, <1>6 DEF WriteRoots, Put
<1>8. n \in DOMAIN com /\ o \in DOMAIN com /\ DOMAIN com = 1..Len(com) /\ Len(com) \in 1..MaxCommit
  <2>1. job[b].n \in DOMAIN com
    BY <1>1 DEF Typed, JobsTyped
  <2>2. points[b] # 0 /\ points[b] \in 0..Len(com) /\ DOMAIN com = 1..Len(com) /\ Len(com) \in 1..MaxCommit
    BY <1>6 DEF Typed, StoreTyped, ConnsTyped, ComsTyped
  <2>. QED
    BY <1>3, <1>4, <2>1, <2>2
<1>9. n \notin Branch /\ o \notin Branch /\ o # b /\ n # b
  BY <1>8, NameAssumption, BoundAssumption
<1>10. CommitKey(o) \in store
  <2>1. JobWhole(b)
    BY <1>1 DEF JobsWhole
  <2>. QED
    BY <1>1, <1>3, <1>6, <1>9, <2>1 DEF JobWhole, Working, Key
<1>11. PICK B \in SUBSET DOMAIN com :
           Marks(B) /\ \A x \in Branch : x \in branches \/ ~Idle(x) => Safe(B, x)
  BY DEF Marking
<1>12. PICK A \in SUBSET DOMAIN com : A = IF b \in Open THEN B ELSE B \cup {n}
  BY <1>8
<1>13. Saved' = Saved \cup {CommitKey(n), BranchKey(b)} /\ Open' = Open
  BY <1>7 DEF Saved, Open
<1>14. /\ \A r : Below(r)' = Below(r)
       /\ \A x : Key(x)' = Key(x)
  BY <1>7 DEF Below, Key
<1>15. /\ Record(b)' = n /\ Record(n)' = n /\ Record(o)' = o
       /\ \A x : x # b => Record(x)' = Record(x)
  BY <1>7, <1>9 DEF Record, Typed, ConnsTyped
<1>16. \A x : Traced(B, x) => Traced(A, x)'
  <2>. SUFFICES ASSUME NEW x, Traced(B, x), x \notin Open PROVE Traced(A, x)'
    BY <1>13 DEF Traced
  <2>1. Key(x) \in Saved' /\ Record(x) \in A
    BY <1>12, <1>13 DEF Traced
  <2>2. CASE x = b
    BY <1>12, <1>14, <1>15, <2>1, <2>2 DEF Traced
  <2>3. CASE x # b
    BY <1>14, <1>15, <2>1, <2>3 DEF Traced
  <2>. QED
    BY <2>2, <2>3
<1>17. \A m \in B : Good(A, m)'
  BY <1>7, <1>11, <1>13, <1>14, <1>16 DEF Marks, Good
<1>18. b \notin Open => Good(A, n)'
  <2>. SUFFICES ASSUME b \notin Open PROVE Good(A, n)'
    OBVIOUS
  <2>1. CommitKey(o) \in Saved /\ o \in B /\ o \in A
    BY <1>1, <1>4, <1>11, <1>12 DEF Safe, Open
  <2>2. Below(o) \subseteq Saved
    BY <1>11, <2>1 DEF Marks, Good
  <2>3. Below(n) \subseteq Saved
    BY <1>6, <2>2 DEF Below, Saved
  <2>4. Traced(A, o)'
    BY <1>9, <1>13, <1>14, <1>15, <2>1 DEF Traced, Key
  <2>. QED
    BY <1>6, <1>7, <1>13, <1>14, <2>3, <2>4 DEF Good
<1>19. \A m \in A : Good(A, m)'
  BY <1>12, <1>17, <1>18
<1>20. \A t \in gc'.seen : Traced(A, t[2])'
  BY <1>7, <1>11, <1>16 DEF Marks
<1>21. \A y \in Open : Walk(y) \subseteq Walk(y)' /\ (b \in Walk(y) => o \in Walk(y)')
  <2>1. store \subseteq store' /\ BranchKey(b) \in store'
    BY <1>7
  <2>. QED
    BY <1>4, <1>6, <1>7, <1>8, <1>10, <2>1, OpenNamed, WalkMovesOn
<1>22. \A r : Covered(B, r) => Covered(A, r)'
  <2>. SUFFICES ASSUME NEW r, Covered(B, r), r \notin B PROVE Covered(A, r)'
    BY <1>12 DEF Covered
  <2>1. PICK y \in Open : \E z \in Walk(y) : Record(z) = r
    BY DEF Covered, Reached
  <2>2. PICK z \in Walk(y) : Record(z) = r
    BY <2>1
  <2>3. PICK q : q \in Walk(y)' /\ Record(q)' = r
    <3>1. CASE z = b
      <4>1. r = o
        BY <1>4, <2>2, <3>1 DEF Record
      <4>. QED
        BY <1>15, <1>21, <2>1, <2>2, <3>1, <4>1
    <3>2. CASE z # b
      BY <1>15, <1>21, <2>1, <2>2, <3>2
    <3>. QED
      BY <3>1, <3>2
  <2>4. q \in Reached'
    BY <1>13, <2>1, <2>3 DEF Reached
  <2>. QED
    BY <2>3, <2>4 DEF Covered
<1>23. Covered(A, n)'
  <2>1. CASE b \in Open
    <3>1. b \in Walk(b)'
      BY WalkLeastNext DEF WalksAre, WalkIs, Names
    <3>2. b \in Reached'
      BY <1>13, <2>1, <3>1 DEF Reached
    <3>. QED
      BY <1>15, <3>2 DEF Covered
  <2>2. CASE b \notin Open
    BY <1>12, <2>2 DEF Covered
  <2>. QED
    BY <2>1, <2>2
<1>24. ASSUME NEW x \in AnyName, Key(x) \in Saved'
       PROVE  Key(x) \in store' /\ Covered(A, Record(x))'
  <2>1. CASE x = b \/ x = n
    <3>1. Key(x) \in store'
      BY <1>7, <1>9, <2>1 DEF Key
    <3>2. Record(x)' = n
      BY <1>15, <2>1
    <3>. QED
      BY <1>23, <3>1, <3>2
  <2>2. CASE x # b /\ x # n
    <3>1. Key(x) # CommitKey(n) /\ Key(x) # BranchKey(b)
      BY <2>2, KeysApart DEF Key
    <3>2. PICK r : r = Record(x)
      OBVIOUS
    <3>3. Key(x) \in store /\ Covered(B, r) /\ Record(x)' = r
      BY <1>11, <1>13, <1>15, <1>24, <2>2, <3>1, <3>2 DEF Marks
    <3>4. Covered(A, r)'
      BY <1>22, <3>3
    <3>. QED
      BY <1>7, <3>3, <3>4
  <2>. QED
    BY <2>1, <2>2
<1>25. Marks(A)'
  BY <1>14, <1>19, <1>20, <1>24 DEF Marks
<1>26. \A x \in Branch \ {b} : points'[x] = points[x] /\ job'[x] = job[x]
  BY <1>7 DEF Typed, ConnsTyped, JobsTyped, Worker
<1>27. points'[b] = n /\ Idle(b)'
  BY <1>1, <1>7 DEF Typed, ConnsTyped, JobsTyped, Idle
<1>28. ASSUME NEW x \in Branch, x \in branches \/ ~Idle(x)' PROVE Safe(A, x)'
  <2>1. CASE x = b
    BY <1>7, <1>12, <1>13, <1>27, <2>1 DEF Safe
  <2>2. CASE x # b
    <3>1. Safe(B, x)
      BY <1>11, <1>26, <1>28, <2>2 DEF Idle
    <3>. QED
      BY <1>7, <1>12, <1>13, <1>26, <2>2, <3>1 DEF Safe
  <2>. QED
    BY <2>1, <2>2
<1>29. ASSUME NEW x \in Branch, ~Idle(x)' PROVE BuiltAlone(x)'
  <2>1. x # b /\ BuiltAlone(x)
    BY <1>5, <1>26, <1>27, <1>29 DEF Idle
  <2>. QED
    BY <1>7, <1>26, <2>1 DEF BuiltAlone, Working, Owed
<1>30. ASSUME NEW x \in gc.heads PROVE Rooted(x)'
  <2>1. x \in Branch /\ Rooted(x)
    BY <1>5, <1>30 DEF Typed, GcTyped, Gcs
  <2>. QED
    BY <1>7, <1>26, <1>27, <2>1 DEF Rooted
<1>31. \A x \in Open' : Key(x)' \in store' \/ cut' > 0
  BY <1>5, <1>7, <1>13, <1>14
<1>32. \E M \in SUBSET DOMAIN com' :
           Marks(M)' /\ \A x \in Branch : x \in branches' \/ ~Idle(x)' => Safe(M, x)'
  BY <1>7, <1>25, <1>28
<1>. QED
  BY <1>5, <1>7, <1>29, <1>30, <1>31, <1>32 DEF Marking

\* The roots are written after all that they point to.
LEMMA WriteRootsRegular ==
    ASSUME Typed, Typed', RegularInv, NEW w \in Worker, WriteRoots(w)
    PROVE  RegularInv'
<1>. SUFFICES ASSUME Regular' PROVE RegularInv'
  BY DEF RegularInv
<1>1. PICK n : n = job[w].n
  OBVIOUS
<1>2. PICK b : b = job[w].to
  OBVIOUS
<1>3. /\ job[w].step = "roots" /\ store' = store \cup {CommitKey(n), BranchKey(b)}
      /\ young' = (IF Collecting THEN young \cup {CommitKey(n), BranchKey(b)} ELSE {})
      /\ points' = [points EXCEPT ![b] = n]
      /\ job' = [job EXCEPT ![w] = NoJob]
      /\ com' = com /\ branches' = branches /\ gc' = gc
      /\ failed' = failed /\ cut' = cut /\ odd' = odd
  BY <1>1, <1>2 DEF WriteRoots, Put, histVars
<1>4. RecordsWhole /\ JobsWhole /\ Announced /\ Apart /\ Marking /\ (failed => cut > 0)
  BY <1>3 DEF RegularInv, Regular
<1>5. job \in [Worker -> Tasks] /\ job[w] \in Tasks /\ User \in Worker
  BY DEF Typed, JobsTyped, Worker
<1>6. n \in DOMAIN com /\ b \in Branch
  BY <1>1, <1>2, <1>3, <1>5 DEF Typed, JobsTyped, Tasks
<1>7. n \notin Branch
  <2>1. DOMAIN com \subseteq Nat
    BY DEF Typed, ComsTyped
  <2>. QED
    BY <1>6, <2>1, NameAssumption
<1>8. /\ job'[w].step = "idle" /\ job[w].n = n /\ job[w].to = b
      /\ \A x \in Worker \ {w} : job'[x] = job[x]
  BY <1>1, <1>2, <1>3, <1>5 DEF NoJob
<1>9. /\ Foreign(w)' = {} /\ Owed(w) = {} /\ Foreign(w) = {}
      /\ \A x \in Worker \ {w} : Foreign(x)' = Foreign(x) /\ Owed(x)' = Owed(x)
  BY <1>3, <1>8 DEF Foreign, Owed
<1>10. Held \subseteq Held'
  BY <1>3, <1>9 DEF Held
<1>11. \A r : Below(r)' = Below(r)
  BY <1>3 DEF Below
<1>12. points'[b] = n /\ \A x \in Branch \ {b} : points'[x] = points[x]
  BY <1>3, <1>6 DEF Typed, ConnsTyped
<1>13. Below(n) \subseteq Held' /\ \A p \in com[n].parents : Key(p) \in store'
  <2>1. JobWhole(w)
    BY <1>4 DEF JobsWhole
  <2>. QED
    BY <1>3, <1>8, <1>9, <1>10, <2>1 DEF JobWhole, Working
<1>14. RecordsWhole'
  <2>. SUFFICES ASSUME NEW x \in Names, Key(x) \in store' PROVE RecordWhole(x)'
    BY <1>3 DEF RecordsWhole, Names
  <2>1. CASE x = b \/ x = n
    <3>1. Record(x)' = n
      BY <1>6, <1>7, <1>12, <2>1 DEF Record
    <3>. QED
      BY <1>3, <1>11, <1>13, <3>1 DEF RecordWhole
  <2>2. CASE x # b /\ x # n
    <3>1. Key(x) # CommitKey(n) /\ Key(x) # BranchKey(b)
      BY <2>2, KeysApart DEF Key
    <3>2. RecordWhole(x)
      BY <1>3, <1>4, <3>1 DEF RecordsWhole
    <3>3. Record(x)' = Record(x)
      BY <1>12, <2>2 DEF Record
    <3>. QED
      BY <1>3, <1>10, <1>11, <3>2, <3>3 DEF RecordWhole
  <2>. QED
    BY <2>1, <2>2
<1>15. \A x \in Branch : Rooted(x) \/ x = b => Rooted(x)'
  BY <1>3, <1>12 DEF Rooted
<1>16. JobsWhole'
  <2>1. \A x \in Worker : JobWhole(x)
    BY <1>4 DEF JobsWhole
  <2>2. JobWhole(w)'
    BY <1>8 DEF JobWhole, Working
  <2>3. \A x \in Worker \ {w} : JobWhole(x)'
    BY <1>3, <1>8, <1>9, <1>10, <1>11, <2>1 DEF JobWhole, Working
  <2>4. job'[User].step \in {"key", "announce"} => job'[User] = job[User]
    BY <1>5, <1>8
  <2>5. job[User].to \in Branch
    BY <1>5 DEF Tasks
  <2>. QED
    BY <1>3, <1>4, <1>15, <2>2, <2>3, <2>4, <2>5 DEF JobsWhole
<1>17. Announced'
  <2>. SUFFICES ASSUME NEW x \in branches PROVE Rooted(x)' \/ (Working(User)' /\ job'[User].to = x)
    BY <1>3 DEF Announced
  <2>1. x \in Branch
    BY DEF Typed, ConnsTyped
  <2>2. Rooted(x) \/ (Working(User) /\ job[User].to = x)
    BY <1>4 DEF Announced
  <2>3. w = User => job[User].to = b
    BY <1>8
  <2>4. w # User => job'[User] = job[User]
    BY <1>5, <1>8
  <2>. QED
    BY <1>15, <2>1, <2>2, <2>3, <2>4 DEF Working
<1>18. Apart' /\ Marking'
  <2>1. CASE w = User
    <3>1. ~Idle(User)
      BY <1>3, <2>1 DEF Idle, NoJob
    <3>. QED
      BY <1>3, <1>4, <3>1, NotCollecting
  <2>2. CASE w # User
    <3>1. w \in Branch /\ ~Idle(w)
      BY <1>3, <2>2 DEF Worker, Idle, NoJob
    <3>2. Idle(User)' <=> Idle(User)
      BY <1>5, <1>8, <2>2 DEF Idle
    <3>3. Apart'
      BY <1>3, <1>4, <1>9, <3>1, <3>2 DEF Apart, Collecting
    <3>4. Marking'
      BY <1>4, <3>1, WriteRootsMarking
    <3>. QED
      BY <3>3, <3>4
  <2>. QED
    BY <2>1, <2>2
<1>. QED
  BY <1>3, <1>4, <1>14, <1>16, <1>17, <1>18 DEF RegularInv

-------------------------------------------------------------------------------
(* Branches, connections, collections and crashes                            *)

\* A step that changes neither records nor jobs, and announces no branch.
LEMMA QuietRegular ==
    ASSUME Typed, Typed', RegularInv, branches' \subseteq branches,
           UNCHANGED <<com, points, store, job, gc, young, failed, cut, odd>>
    PROVE  RegularInv'
<1>. SUFFICES ASSUME Regular' PROVE RegularInv'
  BY DEF RegularInv
<1>1. RecordsWhole /\ JobsWhole /\ Announced /\ Apart /\ Marking /\ (failed => cut > 0)
  BY DEF RegularInv, Regular
<1>2. RecordsWhole' /\ JobsWhole'
  BY <1>1 DEF RecordsWhole, RecordWhole, JobsWhole, JobWhole, Held, Foreign, Owed, Working, Rooted,
              Below, Names, Record, Key
<1>3. Announced'
  BY <1>1 DEF Announced, Rooted, Working
<1>4. Apart'
  BY <1>1 DEF Apart, Collecting, Foreign, Idle
<1>5. Marking'
  <2>. SUFFICES ASSUME gc.step = "mark" PROVE Marking'
    BY DEF Marking
  <2>1. /\ \A x \in Branch : ~Idle(x) => BuiltAlone(x)
        /\ \A x \in gc.heads : Rooted(x)
        /\ \A x \in Open : Key(x) \in store \/ cut > 0
        /\ \A t \in gc.todo : t \notin gc.seen
        /\ \A t \in gc.todo \cup gc.seen : t[1] \notin gc.heads
    BY <1>1 DEF Marking
  <2>2. PICK B \in SUBSET DOMAIN com :
             Marks(B) /\ \A x \in Branch : x \in branches \/ ~Idle(x) => Safe(B, x)
    BY <1>1 DEF Marking
  <2>3. /\ \A x \in Branch : /\ BuiltAlone(x)' = BuiltAlone(x) /\ Idle(x)' = Idle(x)
                             /\ Rooted(x)' = Rooted(x)
        /\ Open' = Open /\ \A x : Key(x)' = Key(x)
    BY DEF BuiltAlone, Working, Owed, Idle, Rooted, Open, Key
  <2>4. Saved' = Saved
    BY DEF Saved
  <2>5. Marks(B)' /\ \A x \in Branch : Safe(B, x) => Safe(B, x)'
    BY <2>2, <2>4, MarkStays
  <2>6. \E M \in SUBSET DOMAIN com' :
            Marks(M)' /\ \A x \in Branch : x \in branches' \/ ~Idle(x)' => Safe(M, x)'
    BY <2>2, <2>3, <2>5
  <2>7. gc.heads \subseteq Branch
    BY DEF Typed, GcTyped, Gcs
  <2>. QED
    BY <2>1, <2>3, <2>6, <2>7 DEF Marking
<1>. QED
  BY <1>1, <1>2, <1>3, <1>4, <1>5 DEF RegularInv

\* branch! checks the new branch, writes its key, announces it: there is no
\* collection, and the commit it starts from is in the store.
LEMMA MakeBranchRegular ==
    ASSUME RegularInv, NEW b \in Branch, NEW n \in DOMAIN com, JobsTyped, MakeBranch(b, n)
    PROVE  RegularInv'
<1>. SUFFICES ASSUME Regular' PROVE RegularInv'
  BY DEF RegularInv
<1> DEFINE j == [NoJob EXCEPT !.step = "key", !.to = b, !.n = n]
<1>1. /\ Idle(User) /\ job' = [job EXCEPT ![User] = j]
      /\ Note(When("overlap", Collecting) \cup When("stale", CommitKey(n) \notin store))
      /\ UNCHANGED <<com, points, branches, store, gc, failed, cut>>
  BY DEF MakeBranch, UserCalls, storeVars, gcVars
<1>2. Regular /\ gc = NoGc /\ CommitKey(n) \in store
  <2>1. Regular /\ When("overlap", Collecting) \cup When("stale", CommitKey(n) \notin store) = {}
    BY <1>1, NoneNoted
  <2>. QED
    BY <2>1 DEF When, Collecting
<1>3. RecordsWhole /\ JobsWhole /\ Announced /\ (failed => cut > 0)
  BY <1>2 DEF RegularInv
<1>4. j.step = "key" /\ j.n = n
  BY DEF NoJob
<1>. HIDE DEF j
<1>5. job'[User] = j /\ \A w \in Worker \ {User} : job'[w] = job[w]
  BY <1>1 DEF JobsTyped, Worker
<1>6. job[User].step = "idle"
  BY <1>1 DEF Idle, NoJob
<1>7. \A w \in Worker : Foreign(w)' = Foreign(w) /\ Owed(w)' = Owed(w) /\ (Working(w)' => w # User)
  BY <1>4, <1>5, <1>6 DEF Foreign, Owed, Working
<1>8. Held' = Held
  BY <1>1, <1>7 DEF Held
<1>9. RecordsWhole'
  BY <1>1, <1>3, <1>8 DEF RecordsWhole, RecordWhole, Names, Below, Record, Key
<1>10. JobsWhole'
  <2>1. \A w \in Worker : JobWhole(w)'
    BY <1>1, <1>3, <1>5, <1>7, <1>8 DEF JobsWhole, JobWhole, Working, Below, Key
  <2>. QED
    BY <1>1, <1>2, <1>4, <1>5, <2>1 DEF JobsWhole
<1>11. Announced'
  BY <1>1, <1>3, <1>6 DEF Announced, Rooted, Working
<1>12. Apart' /\ Marking'
  BY <1>1, <1>2 DEF Apart, Marking, Collecting, NoGc
<1>. QED
  BY <1>1, <1>3, <1>9, <1>10, <1>11, <1>12 DEF RegularInv

LEMMA WriteBranchRegular ==
    ASSUME Typed, RegularInv, WriteBranch
    PROVE  RegularInv'
<1>. SUFFICES ASSUME Regular' PROVE RegularInv'
  BY DEF RegularInv
<1>1. PICK b : b = job[User].to
  OBVIOUS
<1>2. PICK n : n = job[User].n
  OBVIOUS
<1>3. /\ job[User].step = "key" /\ points' = [points EXCEPT ![b] = n]
      /\ store' = store \cup {BranchKey(b)} /\ job' = [job EXCEPT ![User].step = "announce"]
      /\ UNCHANGED <<com, branches, gc, failed, cut, odd>>
  BY <1>1, <1>2 DEF WriteBranch, Put, histVars
<1>4. RecordsWhole /\ JobsWhole /\ Announced /\ Apart /\ (failed => cut > 0)
  BY <1>3 DEF RegularInv, Regular
<1>5. job \in [Worker -> Tasks] /\ User \in Worker /\ b \in Branch /\ n \in DOMAIN com
  BY <1>1, <1>2, <1>3 DEF Typed, JobsTyped, Tasks, Worker
<1>6. n \in Names /\ Record(n) = n /\ Key(n) = CommitKey(n)
  BY <1>5, CommitName DEF Typed
<1>7. n \notin Branch
  <2>1. DOMAIN com \subseteq Nat
    BY DEF Typed, ComsTyped
  <2>. QED
    BY <1>5, <2>1, NameAssumption
<1>8. job'[User].step = "announce" /\ job'[User].to = b /\ \A w \in Worker \ {User} : job'[w] = job[w]
  BY <1>1, <1>3, <1>5 DEF Tasks
<1>9. \A w \in Worker : Foreign(w)' = Foreign(w) /\ Owed(w)' = Owed(w) /\ (Working(w)' => w # User)
  BY <1>3, <1>8 DEF Foreign, Owed, Working
<1>10. Held \subseteq Held'
  BY <1>3, <1>9 DEF Held
<1>11. points'[b] = n /\ \A x \in Branch \ {b} : points'[x] = points[x]
  BY <1>3, <1>5 DEF Typed, ConnsTyped
<1>12. CommitKey(n) \in store
  BY <1>2, <1>3, <1>4 DEF JobsWhole
<1>13. \A r : Below(r)' = Below(r)
  BY <1>3 DEF Below
<1>14. RecordsWhole'
  <2>. SUFFICES ASSUME NEW x \in Names, Key(x) \in store' PROVE RecordWhole(x)'
    BY <1>3 DEF RecordsWhole, Names
  <2>1. PICK r : r = Record(x)'
    OBVIOUS
  <2>2. PICK y \in Names : RecordWhole(y) /\ Record(y) = r
    <3>1. CASE x = b
      <4>1. r = n
        BY <1>5, <1>11, <2>1, <3>1 DEF Record
      <4>. QED
        BY <1>4, <1>6, <1>12, <4>1 DEF RecordsWhole
    <3>2. CASE x # b
      <4>1. Key(x) # BranchKey(b)
        BY <3>2, KeysApart DEF Key
      <4>2. RecordWhole(x)
        BY <1>3, <1>4, <4>1 DEF RecordsWhole
      <4>3. Record(x) = r
        BY <1>11, <2>1, <3>2 DEF Record
      <4>. QED
        BY <4>2, <4>3
    <3>. QED
      BY <3>1, <3>2
  <2>3. Below(r) \subseteq Held' /\ (com[r].time > cut => \A p \in com[r].parents : Key(p) \in store')
    BY <1>3, <1>10, <2>2 DEF RecordWhole
  <2>. QED
    BY <1>3, <1>13, <2>1, <2>3 DEF RecordWhole
<1>15. \A x \in Branch : Rooted(x) \/ x = b => Rooted(x)'
  BY <1>3, <1>11, <1>12 DEF Rooted
<1>16. JobsWhole'
  <2>1. \A w \in Worker : JobWhole(w)'
    BY <1>3, <1>4, <1>8, <1>9, <1>10, <1>13 DEF JobsWhole, JobWhole, Working
  <2>. QED
    BY <1>5, <1>8, <1>15, <2>1 DEF JobsWhole
<1>17. Announced'
  BY <1>3, <1>4, <1>15 DEF Announced, Working, Typed, ConnsTyped
<1>18. Apart' /\ Marking'
  BY <1>3, <1>4, NotCollecting DEF Idle, NoJob
<1>. QED
  BY <1>3, <1>4, <1>14, <1>16, <1>17, <1>18 DEF RegularInv

LEMMA AnnounceRegular ==
    ASSUME Typed, RegularInv, AnnounceBranch
    PROVE  RegularInv'
<1>. SUFFICES ASSUME Regular' PROVE RegularInv'
  BY DEF RegularInv
<1>1. /\ job[User].step = "announce" /\ branches' = branches \cup {job[User].to}
      /\ job' = [job EXCEPT ![User] = NoJob]
      /\ UNCHANGED <<com, points, store, gc, failed, cut, odd>>
  BY DEF AnnounceBranch, gcVars, histVars
<1>2. RecordsWhole /\ JobsWhole /\ Announced /\ Apart /\ (failed => cut > 0)
  BY <1>1 DEF RegularInv, Regular
<1>3. job'[User].step = "idle" /\ \A w \in Worker \ {User} : job'[w] = job[w]
  BY <1>1 DEF Typed, JobsTyped, Worker, NoJob
<1>4. \A w \in Worker : Foreign(w)' = Foreign(w) /\ Owed(w)' = Owed(w) /\ (Working(w)' => w # User)
  BY <1>1, <1>3 DEF Foreign, Owed, Working
<1>5. Held' = Held
  BY <1>1, <1>4 DEF Held
<1>6. RecordsWhole'
  BY <1>1, <1>2, <1>5 DEF RecordsWhole, RecordWhole, Names, Below, Record, Key
<1>7. JobsWhole'
  <2>1. \A w \in Worker : JobWhole(w)'
    BY <1>1, <1>2, <1>3, <1>4, <1>5 DEF JobsWhole, JobWhole, Working, Below, Key
  <2>. QED
    BY <1>3, <2>1 DEF JobsWhole
<1>8. Announced'
  BY <1>1, <1>2 DEF Announced, JobsWhole, Rooted, Working
<1>9. Apart' /\ Marking'
  BY <1>1, <1>2, NotCollecting DEF Idle, NoJob
<1>. QED
  BY <1>1, <1>2, <1>6, <1>7, <1>8, <1>9 DEF RegularInv

\* A collection starts while everyone is idle.
LEMMA GcStartRegular ==
    ASSUME Typed, RegularInv, NEW date \in 0..Len(com), GcStart(date)
    PROVE  RegularInv'
<1>. SUFFICES ASSUME Regular' PROVE RegularInv'
  BY DEF RegularInv
<1>1. /\ gc' = [NoGc EXCEPT !.step = "clear", !.date = date] /\ young' = {}
      /\ Note(When("overlap", \E w \in Worker : ~Idle(w)))
      /\ UNCHANGED <<com, points, branches, store, job, failed, cut>>
  BY DEF GcStart, storeVars
<1>2. Regular /\ \A w \in Worker : Idle(w)
  <2>1. Regular /\ When("overlap", \E w \in Worker : ~Idle(w)) = {}
    BY <1>1, NoneNoted
  <2>. QED
    BY <2>1 DEF When
<1>3. RecordsWhole /\ JobsWhole /\ Announced /\ (failed => cut > 0)
  BY <1>2 DEF RegularInv
<1>4. RecordsWhole' /\ JobsWhole'
  BY <1>1, <1>3 DEF RecordsWhole, RecordWhole, JobsWhole, JobWhole, Held, Foreign, Owed, Working,
                    Rooted, Below, Names, Record, Key
<1>5. Announced'
  BY <1>1, <1>3 DEF Announced, Rooted, Working
<1>6. /\ gc'.step = "clear" /\ gc'.date = date /\ gc'.reachable = {}
      /\ gc'.todo = {} /\ gc'.seen = {}
  BY <1>1 DEF NoGc
<1>7. \A w \in Worker : Idle(w)' /\ Foreign(w)' = {}
  <2>1. \A w \in Worker : job[w].step = "idle"
    BY <1>2 DEF Idle, NoJob
  <2>. QED
    BY <1>1, <1>2, <2>1 DEF Idle, Foreign
<1>8. Apart' /\ Marking'
  BY <1>1, <1>6, <1>7 DEF Apart, Marking, Worker
<1>. QED
  BY <1>1, <1>3, <1>4, <1>5, <1>8 DEF RegularInv

\* It is to mark the known branches, which have their roots.
LEMMA GcClearRegular ==
    ASSUME Typed, RegularInv, GcClear
    PROVE  RegularInv'
<1>. SUFFICES ASSUME Regular' PROVE RegularInv'
  BY DEF RegularInv
<1>1. /\ gc.step = "clear" /\ gc' = [gc EXCEPT !.step = "mark", !.heads = branches]
      /\ UNCHANGED <<com, points, branches, store, job, young, failed, cut, odd>>
  BY DEF GcClear, histVars
<1>2. RecordsWhole /\ JobsWhole /\ Announced /\ Apart /\ (failed => cut > 0)
  BY <1>1 DEF RegularInv, Regular
<1>3. RecordsWhole' /\ JobsWhole'
  BY <1>1, <1>2 DEF RecordsWhole, RecordWhole, JobsWhole, JobWhole, Held, Foreign, Owed, Working,
                    Rooted, Below, Names, Record, Key
<1>4. Announced'
  BY <1>1, <1>2 DEF Announced, Rooted, Working
<1>5. /\ gc'.step = "mark" /\ gc'.date = gc.date /\ gc'.reachable = gc.reachable
      /\ gc'.heads = branches /\ gc'.todo = gc.todo /\ gc'.seen = gc.seen
  BY <1>1 DEF Typed, GcTyped, Gcs
<1>6. /\ gc.reachable = {} /\ young = {} /\ gc.date \in 0..Len(com)
      /\ gc.todo = {} /\ gc.seen = {}
      /\ \A w \in Worker : Idle(w) /\ Foreign(w) = {}
  BY <1>1, <1>2 DEF Apart, Collecting, NoGc
<1>7. \A w \in Worker : Idle(w)' /\ Foreign(w)' = {}
  BY <1>1, <1>6 DEF Idle, Foreign
<1>8. Apart'
  BY <1>1, <1>5, <1>6, <1>7 DEF Apart, Worker
<1>9. Saved' = {} /\ Open' = branches
  BY <1>1, <1>5, <1>6 DEF Saved, Open
<1>10. \A b \in branches : b \in Branch /\ Rooted(b)
  <2>1. branches \subseteq Branch
    BY DEF Typed, ConnsTyped
  <2>2. ~Working(User)
    BY <1>6 DEF Working, Idle, NoJob, Worker
  <2>. QED
    BY <1>2, <2>1, <2>2 DEF Announced
<1>11. Marks({})' /\ \A b \in branches : Safe({}, b)' /\ Rooted(b)' /\ Key(b)' \in store'
  BY <1>1, <1>5, <1>6, <1>9, <1>10 DEF Marks, Safe, Rooted, Key
<1>12. Marking'
  <2>1. \E M \in SUBSET DOMAIN com' :
            Marks(M)' /\ \A b \in Branch : b \in branches' \/ ~Idle(b)' => Safe(M, b)'
    BY <1>1, <1>7, <1>11 DEF Worker
  <2>. QED
    BY <1>1, <1>5, <1>6, <1>7, <1>9, <1>11, <2>1 DEF Marking, Worker
<1>. QED
  BY <1>1, <1>2, <1>3, <1>4, <1>8, <1>12 DEF RegularInv

LEMMA MaxOfTwo ==
    ASSUME NEW x \in Int, NEW y \in Int
    PROVE  Max({x, y}) \in {x, y} /\ Max({x, y}) >= x /\ Max({x, y}) >= y
<1>1. \E m \in {x, y} : \A z \in {x, y} : m >= z
  OBVIOUS
<1>. QED
  BY <1>1 DEF Max

\* Different names have different keys.
LEMMA NamesApart ==
    ASSUME Typed, NEW x \in AnyName, NEW y \in Names, Key(x) = Key(y)
    PROVE  x = y
  BY KeysApart DEF Key

\* While a collection marks, the records are what they were, and so are the walks.
LEMMA WalkStays ==
    ASSUME Typed, Typed', com' = com, points' = points, store' = store, gc'.date = gc.date,
           NEW y \in Names
    PROVE  Walk(y) \subseteq Walk(y)'
<1>1. \A x : Record(x)' = Record(x) /\ Key(x)' = Key(x)
  BY DEF Record, Key
<1>2. \A x \in Names : FollowedIn(x) \subseteq FollowedIn(x)'
  BY <1>1 DEF FollowedIn, Followed
<1>3. Names \subseteq Names'
  BY DEF Names
<1>. QED
  BY <1>2, <1>3, WalkGrows

\* What a step of the marking leaves alone.
LEMMA MarkingKeeps ==
    ASSUME Typed, RegularInv, Regular, gc.step = "mark", gc'.step = "mark", gc'.date = gc.date,
           UNCHANGED <<com, points, branches, store, job, young, failed, cut, odd>>
    PROVE  /\ RecordsWhole' /\ JobsWhole' /\ Announced' /\ Apart' /\ (failed => cut > 0)'
           /\ \A x \in Branch : /\ Idle(x)' = Idle(x) /\ BuiltAlone(x)' = BuiltAlone(x)
                                /\ Rooted(x)' = Rooted(x)
<1>1. RecordsWhole /\ JobsWhole /\ Announced /\ Apart /\ (failed => cut > 0)
  BY DEF RegularInv
<1>2. RecordsWhole' /\ JobsWhole'
  BY <1>1 DEF RecordsWhole, RecordWhole, JobsWhole, JobWhole, Held, Foreign, Owed, Working,
              Rooted, Below, Names, Record, Key
<1>3. Announced'
  BY <1>1 DEF Announced, Rooted, Working
<1>4. Apart'
  <2>1. \A w \in Worker : Idle(w)' = Idle(w) /\ Foreign(w)' = Foreign(w)
    BY DEF Idle, Foreign
  <2>2. Collecting /\ Collecting'
    BY DEF Collecting, NoGc
  <2>3. User \in Worker
    BY DEF Worker
  <2>4. Apart' <=> /\ Idle(User)'
                   /\ \A w \in Worker : Foreign(w)' = {}
                   /\ gc'.date \in 0..Len(com')
    BY <2>2 DEF Apart
  <2>. QED
    BY <1>1, <2>1, <2>2, <2>3, <2>4 DEF Apart
<1>5. \A x \in Branch : /\ Idle(x)' = Idle(x) /\ BuiltAlone(x)' = BuiltAlone(x)
                        /\ Rooted(x)' = Rooted(x)
  BY DEF Idle, BuiltAlone, Working, Owed, Rooted
<1>. QED
  BY <1>1, <1>2, <1>3, <1>4, <1>5

\* The commit id of a branch is read: its commit survives, and it stays open.
LEMMA GcHeadRegular ==
    ASSUME Typed, Typed', RegularInv, NEW b \in Branch, GcHead(b)
    PROVE  RegularInv'
<1>. SUFFICES ASSUME Regular' PROVE RegularInv'
  BY DEF RegularInv
<1> DEFINE head == IF BranchKey(b) \in store THEN {CommitKey(points[b])} ELSE {}
<1>1. /\ gc.step = "mark" /\ b \in gc.heads
      /\ gc' = [gc EXCEPT !.heads = @ \ {b}, !.todo = @ \cup {<<b, b>>},
                          !.reachable = @ \cup {BranchKey(b)} \cup head]
      /\ UNCHANGED <<com, points, branches, store, job, young, failed, cut, odd>>
  BY DEF GcHead, storeVars, histVars
<1>2. Regular /\ Marking
  BY <1>1 DEF RegularInv, Regular
<1>3. /\ \A x \in Branch : ~Idle(x) => BuiltAlone(x)
      /\ \A x \in gc.heads : Rooted(x)
      /\ \A x \in Open : Key(x) \in store \/ cut > 0
      /\ \A t \in gc.todo : t \notin gc.seen
      /\ \A t \in gc.todo \cup gc.seen : t[1] \notin gc.heads
  BY <1>1, <1>2 DEF Marking
<1>4. PICK B \in SUBSET DOMAIN com :
           Marks(B) /\ \A x \in Branch : x \in branches \/ ~Idle(x) => Safe(B, x)
  BY <1>1, <1>2 DEF Marking
<1>5. PICK o : o = points[b]
  OBVIOUS
<1>6. BranchKey(b) \in store /\ CommitKey(o) \in store
  BY <1>1, <1>3, <1>5 DEF Rooted
<1>7. /\ gc'.step = "mark" /\ gc'.date = gc.date /\ gc'.heads = gc.heads \ {b}
      /\ gc'.todo = gc.todo \cup {<<b, b>>} /\ gc'.seen = gc.seen
      /\ gc'.reachable = gc.reachable \cup {BranchKey(b), CommitKey(o)}
  <2>1. head = {CommitKey(o)}
    BY <1>5, <1>6
  <2>. HIDE DEF head
  <2>. QED
    BY <1>1, <2>1 DEF Typed, GcTyped, Gcs
<1>. HIDE DEF head
<1>8. /\ RecordsWhole' /\ JobsWhole' /\ Announced' /\ Apart' /\ (failed => cut > 0)'
      /\ \A x \in Branch : /\ Idle(x)' = Idle(x) /\ BuiltAlone(x)' = BuiltAlone(x)
                           /\ Rooted(x)' = Rooted(x)
  BY <1>1, <1>2, <1>7, MarkingKeeps
<1>9. Saved' = Saved \cup {BranchKey(b), CommitKey(o)} /\ Open' = Open
  <2>1. Saved' = Saved \cup {BranchKey(b), CommitKey(o)}
    BY <1>1, <1>7 DEF Saved
  <2>2. PICK t : t = <<b, b>>
    OBVIOUS
  <2>3. t[2] = b
    BY <2>2
  <2>4. gc'.todo = gc.todo \cup {t}
    BY <1>7, <2>2
  <2>5. \A x : x \in Open' <=> x \in Open
    BY <1>1, <1>7, <2>3, <2>4 DEF Open
  <2>. QED
    BY <2>1, <2>5
<1>10. /\ \A r : Below(r)' = Below(r)
       /\ \A x : Record(x)' = Record(x) /\ Key(x)' = Key(x)
  BY <1>1 DEF Below, Record, Key
<1>11. \A x : Traced(B, x) => Traced(B, x)'
  BY <1>9, <1>10 DEF Traced
<1>12. \A n \in B : Good(B, n)'
  BY <1>1, <1>4, <1>7, <1>9, <1>10, <1>11 DEF Marks, Good
<1>13. \A t \in gc'.seen : Traced(B, t[2])'
  BY <1>4, <1>7, <1>11 DEF Marks
<1>14. Reached \subseteq Reached' /\ b \in Reached'
  <2>1. \A y \in Open : Walk(y) \subseteq Walk(y)'
    BY <1>1, <1>7, OpenNamed, WalkStays
  <2>2. b \in Open /\ b \in Walk(b)'
    BY <1>1, WalkLeastNext DEF Open, WalksAre, WalkIs, Names
  <2>. QED
    BY <1>9, <2>1, <2>2 DEF Reached
<1>15. \A r : Covered(B, r) => Covered(B, r)'
  BY <1>10, <1>14 DEF Covered
<1>16. Covered(B, o)'
  <2>1. Record(b)' = o
    BY <1>1, <1>5 DEF Record
  <2>. QED
    BY <1>14, <2>1 DEF Covered
<1>17. ASSUME NEW x \in AnyName, Key(x) \in Saved'
       PROVE  Key(x) \in store /\ Covered(B, Record(x))'
  <2>1. PICK r : r = Record(x) /\ r = Record(x)'
    BY <1>10
  <2>2. CASE Key(x) \in Saved
    BY <1>4, <1>15, <2>1, <2>2 DEF Marks
  <2>3. CASE Key(x) = BranchKey(b) \/ Key(x) = CommitKey(o)
    <3>1. r = o
      BY <1>5, <2>1, <2>3, KeysApart DEF Key, Record
    <3>. QED
      BY <1>6, <1>16, <2>1, <2>3, <3>1
  <2>. QED
    BY <1>9, <1>17, <2>2, <2>3
<1>18. Marks(B)'
  BY <1>1, <1>10, <1>12, <1>13, <1>17 DEF Marks
<1>19. \A x \in Branch : Safe(B, x) => Safe(B, x)'
  <2>1. b \in Open
    BY <1>1 DEF Open
  <2>. QED
    BY <1>1, <1>5, <1>7, <1>9, <2>1 DEF Safe
<1>20. Marking'
  <2>1. \E M \in SUBSET DOMAIN com' :
            Marks(M)' /\ \A x \in Branch : x \in branches' \/ ~Idle(x)' => Safe(M, x)'
    BY <1>1, <1>4, <1>8, <1>18, <1>19
  <2>2. \A x \in Open' : Key(x)' \in store' \/ cut' > 0
    BY <1>1, <1>3, <1>9, <1>10
  <2>3. /\ \A t \in gc'.todo : t \notin gc'.seen
        /\ \A t \in gc'.todo \cup gc'.seen : t[1] \notin gc'.heads
    BY <1>1, <1>3, <1>7
  <2>4. gc'.heads \subseteq Branch /\ gc'.heads \subseteq gc.heads
    BY <1>7 DEF Typed, GcTyped, Gcs
  <2>. QED
    BY <1>3, <1>8, <2>1, <2>2, <2>3, <2>4 DEF Marking
<1>. QED
  BY <1>8, <1>20 DEF RegularInv

\* A record is read: its commit is marked, and the names that follow are open, or
\* were visited.
LEMMA GcVisitRegular ==
    ASSUME Typed, Typed', RegularInv, NEW b \in Branch, NEW y \in Names, GcVisit(b, y)
    PROVE  RegularInv'
<1>. SUFFICES ASSUME Regular' PROVE RegularInv'
  BY DEF RegularInv
<1>1. /\ gc.step = "mark" /\ <<b, y>> \in gc.todo /\ Key(y) \in store
      /\ UNCHANGED <<com, points, branches, store, job, young, failed, cut, odd>>
  BY DEF GcVisit, storeVars, histVars
<1>2. Regular /\ Marking /\ RecordsWhole
  BY <1>1 DEF RegularInv, Regular
<1>3. /\ \A x \in Branch : ~Idle(x) => BuiltAlone(x)
      /\ \A x \in gc.heads : Rooted(x)
      /\ \A x \in Open : Key(x) \in store \/ cut > 0
      /\ \A t \in gc.todo : t \notin gc.seen
      /\ \A t \in gc.todo \cup gc.seen : t[1] \notin gc.heads
  BY <1>1, <1>2 DEF Marking
<1>4. PICK B \in SUBSET DOMAIN com :
           Marks(B) /\ \A x \in Branch : x \in branches \/ ~Idle(x) => Safe(B, x)
  BY <1>1, <1>2 DEF Marking
<1>5. PICK r : r = Record(y)
  OBVIOUS
<1>6. y \in AnyName /\ r \in DOMAIN com
  <2>1. y \in AnyName
    BY BoundAssumption DEF Names, AnyName, Typed, ComsTyped
  <2>. QED
    BY <1>1, <1>5, <2>1, RecordMade
<1>7. /\ gc'.step = "mark" /\ gc'.date = gc.date /\ gc'.heads = gc.heads
      /\ gc'.seen = gc.seen \cup {<<b, y>>}
      /\ gc'.todo = (gc.todo \cup {<<b, p>> : p \in Followed(y)}) \ gc'.seen
      /\ gc'.reachable = gc.reachable \cup {Key(y)} \cup Below(r)
  BY <1>5 DEF GcVisit, Typed, GcTyped, Gcs
<1>8. /\ RecordsWhole' /\ JobsWhole' /\ Announced' /\ Apart' /\ (failed => cut > 0)'
      /\ \A x \in Branch : /\ Idle(x)' = Idle(x) /\ BuiltAlone(x)' = BuiltAlone(x)
                           /\ Rooted(x)' = Rooted(x)
  BY <1>1, <1>2, <1>7, MarkingKeeps
<1>9. Saved' = Saved \cup {Key(y)} \cup Below(r)
  BY <1>1, <1>7 DEF Saved
<1>10. /\ \A n : Below(n)' = Below(n)
       /\ \A x : Record(x)' = Record(x) /\ Key(x)' = Key(x)
  BY <1>1 DEF Below, Record, Key
<1>11. Followed(y) = IF com[r].time > gc.date THEN com[r].parents ELSE {}
  BY <1>5 DEF Followed
<1>12. \A x \in Open : x \in Open' \/ x = y
  <2>. SUFFICES ASSUME NEW t \in gc.todo, t # <<b, y>> PROVE t \in gc'.todo
    <3>1. \A t \in gc.todo : t = <<b, y>> => t[2] = y
      OBVIOUS
    <3>. QED
      BY <1>7, <3>1 DEF Open
  <2>. QED
    BY <1>3, <1>7
<1>13. PICK A \in SUBSET DOMAIN com : A = B \cup {r}
  BY <1>6
<1>14. Traced(A, y)'
  BY <1>5, <1>9, <1>10, <1>13 DEF Traced
<1>15. \A x : Traced(B, x) => Traced(A, x)'
  <2>. SUFFICES ASSUME NEW x, Traced(B, x), x # y PROVE Traced(A, x)'
    BY <1>14
  <2>. QED
    BY <1>9, <1>10, <1>12, <1>13 DEF Traced
<1>16. \A t \in gc'.seen : Traced(A, t[2])'
  BY <1>4, <1>7, <1>14, <1>15 DEF Marks
<1>17. \A p \in Followed(y) : Traced(A, p)'
  <2>. SUFFICES ASSUME NEW p \in Followed(y) PROVE Traced(A, p)'
    OBVIOUS
  <2>1. PICK t : t = <<b, p>>
    OBVIOUS
  <2>2. t[2] = p
    BY <2>1
  <2>3. t \in gc'.todo \/ t \in gc'.seen
    BY <1>7, <2>1
  <2>4. CASE t \in gc'.todo
    BY <2>2, <2>4 DEF Traced, Open
  <2>5. CASE t \in gc'.seen
    BY <1>16, <2>2, <2>5
  <2>. QED
    BY <2>3, <2>4, <2>5
<1>18. Good(A, r)'
  BY <1>1, <1>7, <1>9, <1>10, <1>11, <1>17 DEF Good
<1>19. \A n \in B : Good(A, n)'
  BY <1>1, <1>4, <1>7, <1>9, <1>10, <1>15 DEF Marks, Good
<1>20. \A n \in A : Good(A, n)'
  BY <1>13, <1>18, <1>19
<1>21. Names' = Names /\ \A x : FollowedIn(x)' = FollowedIn(x)
  BY <1>1, <1>7, <1>10 DEF Names, FollowedIn, Followed
<1>22. \A x \in Names : WalkIs(x) /\ WalkIs(x)'
  BY <1>21, WalkLeast, WalkLeastNext DEF WalksAre
<1>23. Open' \subseteq Reached'
  <2>1. Open' \subseteq Names
    BY <1>21, OpenNamedNext
  <2>. QED
    BY <1>22, <2>1 DEF Reached, WalkIs
<1>24. \A z \in Walk(y) : Record(z) \in A \/ z \in Reached'
  <2> DEFINE S == {z \in Names : Record(z) \in A \/ z \in Reached'}
  <2>1. y \in S
    BY <1>5, <1>13
  <2>2. ASSUME NEW z \in S, NEW p \in FollowedIn(z) PROVE p \in S
    <3>1. p \in Names
      BY FollowedNamed
    <3>2. CASE Record(z) \in A
      <4>1. PICK m \in A : m = Record(z)
        BY <3>2
      <4>2. com[m].time > gc.date /\ p \in com[m].parents
        BY <4>1 DEF FollowedIn, Followed
      <4>3. Traced(A, p)'
        BY <1>1, <1>7, <1>20, <4>2 DEF Good
      <4>. QED
        BY <1>10, <1>23, <3>1, <4>3 DEF Traced
    <3>3. CASE z \in Reached'
      <4>1. PICK x \in Open' : z \in Walk(x)'
        BY <3>3 DEF Reached
      <4>2. x \in Names
        BY <1>21, <4>1, OpenNamedNext
      <4>3. p \in Walk(x)'
        BY <1>21, <1>22, <4>1, <4>2 DEF WalkIs
      <4>. QED
        BY <3>1, <4>1, <4>3 DEF Reached
    <3>. QED
      BY <3>2, <3>3
  <2>3. WalkIs(y) /\ S \cap Names = S
    BY <1>22
  <2>. HIDE DEF S
  <2>4. Walk(y) \subseteq S
    BY <2>1, <2>2, <2>3 DEF WalkIs
  <2>. QED
    BY <2>4 DEF S
<1>25. \A n : Covered(B, n) => Covered(A, n)'
  <2>. SUFFICES ASSUME NEW n, Covered(B, n), n \notin A PROVE Covered(A, n)'
    BY DEF Covered
  <2>1. PICK x \in Open : \E z \in Walk(x) : Record(z) = n
    BY <1>13 DEF Covered, Reached
  <2>2. PICK z \in Walk(x) : Record(z) = n
    BY <2>1
  <2>3. z \in Reached'
    <3>1. CASE x = y
      BY <1>24, <2>2, <3>1
    <3>2. CASE x # y
      <4>1. Walk(x) \subseteq Walk(x)'
        BY <1>1, <1>7, OpenNamed, WalkStays
      <4>. QED
        BY <1>12, <2>2, <3>2, <4>1 DEF Reached
    <3>. QED
      BY <3>1, <3>2
  <2>. QED
    BY <1>10, <2>2, <2>3 DEF Covered
<1>26. ASSUME NEW x \in AnyName, Key(x) \in Saved'
       PROVE  Key(x) \in store /\ Covered(A, Record(x))'
  <2>1. PICK n : n = Record(x) /\ n = Record(x)'
    BY <1>10
  <2>2. CASE Key(x) \in Saved
    BY <1>4, <1>25, <2>1, <2>2 DEF Marks
  <2>3. CASE Key(x) = Key(y)
    <3>1. x = y
      BY <2>3, NamesApart
    <3>. QED
      BY <1>1, <1>5, <1>13, <2>1, <3>1 DEF Covered
  <2>4. Key(x) \notin Below(r)
    BY KeysApart DEF Below, Key
  <2>. QED
    BY <1>9, <1>26, <2>2, <2>3, <2>4
<1>27. Marks(A)'
  BY <1>1, <1>10, <1>16, <1>20, <1>26 DEF Marks
<1>28. ASSUME NEW x \in Branch, Safe(B, x) PROVE Safe(A, x)'
  <2>1. CASE x \in gc.heads
    BY <1>7, <2>1 DEF Safe
  <2>2. CASE x \notin gc.heads
    <3>1. /\ BranchKey(x) \in Saved' /\ CommitKey(points[x]) \in Saved'
          /\ x \in Open \/ points[x] \in A
      BY <1>9, <1>13, <1>28, <2>2 DEF Safe
    <3>2. x = y => points[x] \in A
      BY <1>5, <1>13 DEF Record
    <3>. QED
      BY <1>1, <1>12, <3>1, <3>2 DEF Safe
  <2>. QED
    BY <2>1, <2>2
<1>29. \A x \in Open' : Key(x)' \in store' \/ cut' > 0
  <2>. SUFFICES ASSUME NEW x \in Open' PROVE Key(x) \in store \/ cut > 0
    BY <1>1, <1>10
  <2>1. CASE x \in Open
    BY <1>3, <2>1
  <2>2. CASE x \notin Open
    <3>1. x \in Followed(y)
      BY <1>7, <2>2 DEF Open
    <3>2. com[r].time > gc.date /\ x \in com[r].parents
      BY <1>11, <3>1
    <3>3. com[r].time > cut => Key(x) \in store
      BY <1>1, <1>2, <1>5, <3>2 DEF RecordsWhole, RecordWhole
    <3>4. com[r].time \in Nat /\ gc.date \in Nat /\ cut \in Nat
      BY <1>6, ParentsNamed DEF Typed, GcTyped, Gcs
    <3>. QED
      BY <3>2, <3>3, <3>4
  <2>. QED
    BY <2>1, <2>2
<1>30. Marking'
  <2>1. \E M \in SUBSET DOMAIN com' :
            Marks(M)' /\ \A x \in Branch : x \in branches' \/ ~Idle(x)' => Safe(M, x)'
    BY <1>1, <1>4, <1>8, <1>27, <1>28
  <2>2. /\ \A t \in gc'.todo : t \notin gc'.seen
        /\ \A t \in gc'.todo \cup gc'.seen : t[1] \notin gc'.heads
    <3>1. b \notin gc.heads
      BY <1>1, <1>3
    <3>2. \A t \in gc'.todo \cup gc'.seen : t \in gc.todo \cup gc.seen \/ t[1] = b
      BY <1>7
    <3>. QED
      BY <1>3, <1>7, <3>1, <3>2
  <2>3. gc'.heads \subseteq Branch
    BY <1>7 DEF Typed, GcTyped, Gcs
  <2>. QED
    BY <1>3, <1>7, <1>8, <1>29, <2>1, <2>2, <2>3 DEF Marking
<1>. QED
  BY <1>8, <1>30 DEF RegularInv

\* As long as no snapshot was removed before a date, every name that is open has
\* a record.
LEMMA GcFailRegular ==
    ASSUME Typed, RegularInv, NEW b \in Branch, NEW y \in Names, GcFail(b, y)
    PROVE  RegularInv'
<1>. SUFFICES ASSUME Regular' PROVE RegularInv'
  BY DEF RegularInv
<1>1. /\ gc.step = "mark" /\ <<b, y>> \in gc.todo /\ Key(y) \notin store /\ gc' = NoGc
      /\ UNCHANGED <<com, points, branches, store, job, cut, odd>>
  BY DEF GcFail, storeVars, histVars
<1>2. RecordsWhole /\ JobsWhole /\ Announced /\ Marking
  BY <1>1 DEF RegularInv, Regular
<1>3. RecordsWhole' /\ JobsWhole'
  BY <1>1, <1>2 DEF RecordsWhole, RecordWhole, JobsWhole, JobWhole, Held, Foreign, Owed, Working,
                    Rooted, Below, Names, Record, Key
<1>4. Announced'
  BY <1>1, <1>2 DEF Announced, Rooted, Working
<1>5. Apart' /\ Marking'
  BY <1>1 DEF Apart, Marking, Collecting, NoGc
<1>6. cut > 0
  <2>1. y \in Open
    BY <1>1 DEF Open
  <2>. QED
    BY <1>1, <1>2, <2>1 DEF Marking
<1>. QED
  BY <1>1, <1>3, <1>4, <1>5, <1>6 DEF RegularInv

\* The sweep leaves what survives, so that what it leaves is complete.
LEMMA GcSweepRegular ==
    ASSUME Typed, RegularInv, GcSweep
    PROVE  RegularInv'
<1>. SUFFICES ASSUME Regular' PROVE RegularInv'
  BY DEF RegularInv
<1>1. /\ gc.step = "mark" /\ gc.heads = {} /\ gc.todo = {} /\ gc' = NoGc
      /\ store' = store \cap Saved /\ cut' = Max({cut, gc.date})
      /\ UNCHANGED <<com, points, branches, job, failed, odd>>
  BY DEF GcSweep, Kept, Saved, histVars
<1>2. RecordsWhole /\ JobsWhole /\ Announced /\ Apart /\ Marking /\ (failed => cut > 0)
  BY <1>1 DEF RegularInv, Regular
<1>3. cut \in Nat /\ gc.date \in Nat /\ young \subseteq store
  BY DEF Typed, GcTyped, Gcs, StoreTyped
<1>4. cut' \in Nat /\ cut' >= cut /\ cut' >= gc.date
  <2>1. PICK c, d \in Int : c = cut /\ d = gc.date
    BY <1>3
  <2>2. Max({c, d}) \in {c, d} /\ Max({c, d}) >= c /\ Max({c, d}) >= d
    BY MaxOfTwo
  <2>. QED
    BY <1>1, <1>3, <2>1, <2>2
<1>5. Idle(User) /\ \A w \in Worker : Foreign(w) = {}
  BY <1>1, <1>2 DEF Apart, Collecting, NoGc
<1>6. Held = store
  BY <1>5 DEF Held
<1>7. Held' = store'
  BY <1>1, <1>5 DEF Held, Foreign
<1>8. /\ \A x \in AnyName : Key(x) \in Saved =>
             /\ Key(x) \in store /\ Below(Record(x)) \subseteq Saved
             /\ com[Record(x)].time > gc.date =>
                    \A p \in com[Record(x)].parents : Key(p) \in Saved
      /\ \A x \in Branch : x \in branches \/ ~Idle(x) =>
             BranchKey(x) \in Saved /\ CommitKey(points[x]) \in Saved
      /\ \A x \in Branch : ~Idle(x) => BuiltAlone(x)
  <2>1. PICK B \in SUBSET DOMAIN com :
             Marks(B) /\ \A x \in Branch : x \in branches \/ ~Idle(x) => Safe(B, x)
    BY <1>1, <1>2 DEF Marking
  <2>2. Open = {} /\ Reached = {}
    BY <1>1 DEF Open, Reached
  <2>3. ASSUME NEW x \in AnyName, Key(x) \in Saved
        PROVE  /\ Key(x) \in store /\ Below(Record(x)) \subseteq Saved
               /\ com[Record(x)].time > gc.date =>
                      \A p \in com[Record(x)].parents : Key(p) \in Saved
    <3>1. Key(x) \in store /\ Record(x) \in B
      BY <2>1, <2>2, <2>3 DEF Marks, Covered
    <3>2. Good(B, Record(x))
      BY <2>1, <3>1 DEF Marks
    <3>. QED
      BY <2>2, <3>1, <3>2 DEF Good, Traced
  <2>4. \A x \in Branch : x \in branches \/ ~Idle(x) =>
            BranchKey(x) \in Saved /\ CommitKey(points[x]) \in Saved
    BY <1>1, <2>1 DEF Safe
  <2>. QED
    BY <1>1, <1>2, <2>3, <2>4 DEF Marking
<1>9. Names \subseteq AnyName
  BY BoundAssumption DEF Typed, ComsTyped, Names, AnyName
<1>10. \A x \in AnyName : Key(x) \in Saved => Key(x) \in store'
  BY <1>1, <1>8
<1>11. \A r : Below(r)' = Below(r)
  BY <1>1 DEF Below
<1>12. \A x \in Names : Key(x) \in Saved => Below(Record(x)) \subseteq store'
  <2>. SUFFICES ASSUME NEW x \in Names, Key(x) \in Saved PROVE Below(Record(x)) \subseteq store'
    OBVIOUS
  <2>1. Key(x) \in store /\ Below(Record(x)) \subseteq Saved
    BY <1>8, <1>9
  <2>2. Below(Record(x)) \subseteq store
    BY <1>2, <1>6, <2>1 DEF RecordsWhole, RecordWhole
  <2>. QED
    BY <1>1, <2>1, <2>2
<1>13. RecordsWhole'
  <2>. SUFFICES ASSUME NEW x \in Names, Key(x) \in store' PROVE RecordWhole(x)'
    BY <1>1 DEF RecordsWhole, Names
  <2>1. Key(x) \in Saved /\ Key(x) \in store
    BY <1>1
  <2>2. PICK r : r = Record(x)
    OBVIOUS
  <2>3. Record(x)' = r
    BY <1>1, <2>2 DEF Record
  <2>4. Below(r) \subseteq Held'
    BY <1>7, <1>12, <2>1, <2>2
  <2>5. ASSUME com[r].time > cut' PROVE \A p \in com[r].parents : Key(p) \in store'
    <3>1. r \in DOMAIN com
      BY <1>9, <2>1, <2>2, RecordMade
    <3>2. com[r].time \in Nat /\ com[r].parents \subseteq AnyName
      BY <3>1, ParentsNamed DEF Typed, AnyName
    <3>3. com[r].time > cut /\ com[r].time > gc.date
      BY <1>3, <1>4, <2>5, <3>2
    <3>4. \A p \in com[r].parents : Key(p) \in Saved
      BY <1>8, <1>9, <2>1, <2>2, <3>3
    <3>. QED
      BY <1>10, <3>2, <3>4
  <2>. QED
    BY <1>1, <1>11, <2>3, <2>4, <2>5 DEF RecordWhole
<1>14. ASSUME NEW x \in Branch, BranchKey(x) \in Saved, CommitKey(points[x]) \in Saved
       PROVE  /\ BranchKey(x) \in store' /\ CommitKey(points[x]) \in store'
              /\ points[x] \in DOMAIN com /\ Key(points[x]) = CommitKey(points[x])
              /\ Below(points[x]) \subseteq store'
  <2>1. Key(x) = BranchKey(x) /\ Record(x) = points[x] /\ x \in Names
    BY BranchName
  <2>2. BranchKey(x) \in store'
    BY <1>9, <1>10, <1>14, <2>1
  <2>3. points[x] \in DOMAIN com
    BY <1>1, <1>9, <2>1, <2>2, RecordMade
  <2>4. points[x] \in Names /\ Key(points[x]) = CommitKey(points[x])
    BY <2>3, CommitName DEF Typed
  <2>5. CommitKey(points[x]) \in store'
    BY <1>9, <1>10, <1>14, <2>4
  <2>. QED
    BY <1>12, <1>14, <2>1, <2>2, <2>3, <2>4, <2>5
<1>15. ASSUME NEW w \in Worker PROVE JobWhole(w)'
  <2>. SUFFICES ASSUME Working(w) PROVE JobWhole(w)'
    BY <1>1 DEF JobWhole, Working
  <2>1. ~Idle(w) /\ w \in Branch
    BY <1>5 DEF Working, Idle, NoJob, Worker
  <2>2. PICK n : n = job[w].n
    OBVIOUS
  <2>3. PICK o : o = points[w]
    OBVIOUS
  <2>4. BuiltAlone(w) /\ BranchKey(w) \in Saved /\ CommitKey(o) \in Saved
    BY <1>8, <2>1, <2>3
  <2>5. /\ CommitKey(o) \in store' /\ Key(o) = CommitKey(o) /\ Below(o) \subseteq store'
    BY <1>14, <2>1, <2>3, <2>4
  <2>6. /\ com[n].parents = {o} /\ com[n].nodes \subseteq {n} \cup com[o].nodes
        /\ {Node(n), SchemaKey(com[n].schema)} \subseteq Owed(w) \cup young
    BY <2>2, <2>3, <2>4 DEF BuiltAlone
  <2>7. young \subseteq store'
    BY <1>1, <1>3 DEF Saved
  <2>8. Below(n) \subseteq store' \cup Owed(w)
    BY <2>5, <2>6, <2>7 DEF Below
  <2>9. Owed(w)' = Owed(w)
    BY <1>1 DEF Owed
  <2>10. \A p \in com[n].parents : Key(p) \in store'
    BY <2>5, <2>6
  <2>. QED
    BY <1>1, <1>7, <1>11, <2>2, <2>8, <2>9, <2>10 DEF JobWhole
<1>16. job[User].step = "idle"
  BY <1>5 DEF Idle, NoJob
<1>17. JobsWhole'
  BY <1>1, <1>15, <1>16 DEF JobsWhole
<1>18. Announced'
  BY <1>1, <1>8, <1>14 DEF Announced, Rooted, Typed, ConnsTyped
<1>19. Apart' /\ Marking'
  BY <1>1 DEF Apart, Marking, Collecting, NoGc
<1>20. failed' => cut' > 0
  BY <1>1, <1>2, <1>3, <1>4
<1>. QED
  BY <1>13, <1>17, <1>18, <1>19, <1>20 DEF RegularInv

\* A crash loses jobs, but nothing that others had taken from them.
LEMMA CrashRegular ==
    ASSUME Typed, RegularInv, Crash
    PROVE  RegularInv'
<1>. SUFFICES ASSUME Regular' PROVE RegularInv'
  BY DEF RegularInv
<1>1. /\ job' = [w \in Worker |-> NoJob] /\ gc' = NoGc
      /\ Note(When("torn", ~Idle(User) \/ \E w \in Branch : Foreign(w) # {}))
      /\ UNCHANGED <<com, points, branches, store, failed, cut>>
  BY DEF Crash
<1>2. Regular /\ Idle(User) /\ \A w \in Branch : Foreign(w) = {}
  <2>1. Regular /\ When("torn", ~Idle(User) \/ \E w \in Branch : Foreign(w) # {}) = {}
    BY <1>1, NoneNoted
  <2>. QED
    BY <2>1 DEF When
<1>3. RecordsWhole /\ Announced /\ (failed => cut > 0)
  BY <1>2 DEF RegularInv
<1>4. Foreign(User) = {} /\ ~Working(User)
  BY <1>2 DEF Idle, NoJob, Foreign, Working
<1>5. Held = store
  BY <1>2, <1>4 DEF Held, Worker
<1>6. \A w \in Worker : job'[w].step = "idle"
  BY <1>1 DEF NoJob
<1>7. Held' = store'
  BY <1>6 DEF Held, Foreign
<1>8. RecordsWhole'
  BY <1>1, <1>3, <1>5, <1>7 DEF RecordsWhole, RecordWhole, Names, Below, Record, Key
<1>9. JobsWhole'
  BY <1>6 DEF JobsWhole, JobWhole, Working, Worker
<1>10. Announced'
  BY <1>1, <1>3, <1>4 DEF Announced, Rooted
<1>11. Apart' /\ Marking'
  BY <1>1 DEF Apart, Marking, Collecting, NoGc
<1>. QED
  BY <1>1, <1>3, <1>8, <1>9, <1>10, <1>11 DEF RegularInv

LEMMA RegularInit == Init => RegularInv
<1>. SUFFICES ASSUME Init PROVE RegularInv
  OBVIOUS
<1>1. PICK s \in Schema :
          /\ com = <<[nodes |-> {1}, schema |-> s, parents |-> {}, time |-> 1]>>
          /\ store = {Node(1), SchemaKey(s), CommitKey(1), BranchKey(Main)}
  BY DEF Init
<1>2. /\ points[Main] = 1 /\ branches = {Main} /\ gc = NoGc /\ failed = FALSE
      /\ \A w \in Worker : job[w].step = "idle"
  BY NameAssumption DEF Init, NoJob
<1>3. DOMAIN com = {1} /\ com[1].nodes = {1} /\ com[1].schema = s /\ com[1].parents = {}
  BY <1>1
<1>4. Below(1) \subseteq store
  BY <1>1, <1>3 DEF Below
<1>5. store \subseteq Held
  BY DEF Held
<1>6. RecordsWhole
  <2>. SUFFICES ASSUME NEW x \in Names, Key(x) \in store PROVE RecordWhole(x)
    BY DEF RecordsWhole
  <2>1. x = Main \/ x = 1
    BY <1>1, KeysApart DEF Key
  <2>2. Record(x) = 1
    BY <1>2, <2>1, NameAssumption DEF Record
  <2>. QED
    BY <1>3, <1>4, <1>5, <2>2 DEF RecordWhole
<1>7. JobsWhole
  BY <1>2 DEF JobsWhole, JobWhole, Working, Worker
<1>8. Announced
  BY <1>1, <1>2 DEF Announced, Rooted
<1>9. Apart /\ Marking
  BY <1>2, NoCollection
<1>. QED
  BY <1>2, <1>6, <1>7, <1>8, <1>9 DEF RegularInv

LEMMA RegularNext == Typed /\ CacheInv /\ RegularInv /\ [Next]_vars => RegularInv'
<1>. SUFFICES ASSUME Typed, CacheInv, RegularInv, [Next]_vars PROVE RegularInv'
  OBVIOUS
<1>1. Typed'
  BY TypedNext
<1>2. WriteCacheTrue /\ JobsTyped /\ Typed
  BY DEF CacheInv, Typed
<1>3. ASSUME NEW b \in Branch, DeleteBranch(b) PROVE RegularInv'
  <2>1. /\ branches' \subseteq branches
        /\ UNCHANGED <<com, points, store, job, gc, young, failed, cut, odd>>
    BY <1>3 DEF DeleteBranch, gcVars
  <2>. QED
    BY <1>1, <2>1, QuietRegular
<1>4. ASSUME NEW b \in Branch, Connect(b) PROVE RegularInv'
  <2>1. /\ branches' \subseteq branches
        /\ UNCHANGED <<com, points, store, job, gc, young, failed, cut, odd>>
    BY <1>4 DEF Connect, storeVars, gcVars, histVars
  <2>. QED
    BY <1>1, <2>1, QuietRegular
<1>5. CASE UNCHANGED vars
  <2>1. /\ branches' \subseteq branches
        /\ UNCHANGED <<com, points, store, job, gc, young, failed, cut, odd>>
    BY <1>5 DEF vars, storeVars, gcVars, histVars
  <2>. QED
    BY <1>1, <2>1, QuietRegular
<1>6. CASE Next
  <2>1. CASE \E b \in Branch :
                 \/ Commit(b) \/ DeleteBranch(b) \/ Connect(b) \/ GcHead(b)
                 \/ \E x \in Names : GcVisit(b, x) \/ GcFail(b, x)
                 \/ \E from \in Branch \cup DOMAIN com : Merge(b, from)
                 \/ \E n \in DOMAIN com : MakeBranch(b, n)
                 \/ \E v \in DOMAIN com, k \in Branch, p \in Branch \cup DOMAIN com :
                        ForceBranch(k, b, v, p)
    BY <1>1, <1>2, <1>3, <1>4, <2>1, CommitRegular, MergeRegular, ForceRegular, MakeBranchRegular,
       GcHeadRegular, GcVisitRegular, GcFailRegular
  <2>2. CASE \E w \in Worker : WriteNodes(w) \/ WriteRoots(w)
    BY <1>1, <2>2, WriteNodesRegular, WriteRootsRegular
  <2>3. CASE \/ WriteBranch \/ AnnounceBranch \/ GcClear \/ GcSweep \/ Crash
             \/ \E date \in 0..Len(com) : GcStart(date)
    BY <1>1, <2>3, WriteBranchRegular, AnnounceRegular, GcStartRegular, GcClearRegular,
       GcSweepRegular, CrashRegular
  <2>. QED
    BY <1>6, <2>1, <2>2, <2>3 DEF Next
<1>. QED
  BY <1>5, <1>6

-------------------------------------------------------------------------------
(* The theorems                                                              *)

\* What holds in every reachable state.
Invariant == Typed /\ CacheInv /\ RegularInv

\* The three of them hold in every reachable state.
LEMMA AlwaysInvariant == Spec => []Invariant
<1>1. Init => Invariant
  BY TypedInit, CacheInit, RegularInit DEF Invariant
<1>2. Invariant /\ [Next]_vars => Invariant'
  BY TypedNext, CacheNext, RegularNext DEF Invariant
<1>. QED
  BY <1>1, <1>2, PTL DEF Spec

\* A record in the store is complete.
LEMMA RecordClosed ==
    ASSUME RecordsWhole, NEW x \in Names, Key(x) \in store
    PROVE  Closed(Record(x))
<1>1. Below(Record(x)) \subseteq Held
  BY DEF RecordsWhole, RecordWhole
<1>. QED
  BY <1>1 DEF Closed, Held

\* A branch head is always retained with all that it points to, and so is every
\* commit that can be looked up (gc-storage!, doc/gc.md), across crashes and beside
\* commits that start during a collection, however far that has followed which
\* branch: but for the cases of odd, of which a commit that is dated no later than
\* what the collection was given is one.
THEOREM HeadsClosed == Spec => []PointersClosed
<1>1. Invariant => PointersClosed
  <2>. SUFFICES ASSUME Invariant, Regular PROVE PointersClosed
    BY DEF PointersClosed
  <2>1. Typed /\ RecordsWhole /\ Announced
    BY DEF Invariant, RegularInv
  <2>2. ASSUME NEW b \in branches
        PROVE  \/ BranchKey(b) \in store /\ Closed(points[b])
               \/ BranchKey(b) \notin store /\ job[User].to = b
    <3>1. b \in Branch
      BY <2>1 DEF Typed, ConnsTyped
    <3>2. CASE BranchKey(b) \in store
      BY <2>1, <3>1, <3>2, BranchName, RecordClosed
    <3>3. CASE BranchKey(b) \notin store
      BY <2>1, <3>3 DEF Announced, Rooted
    <3>. QED
      BY <3>2, <3>3
  <2>3. \A n \in DOMAIN com : CommitKey(n) \in store => Closed(n)
    BY <2>1, CommitName, RecordClosed DEF Typed
  <2>. QED
    BY <2>2, <2>3 DEF PointersClosed
<1>. QED
  BY <1>1, AlwaysInvariant, PTL

\* The way back from a branch leads over records that are there.
LEMMA WayStored ==
    ASSUME Typed, RecordsWhole, NEW b \in Branch, BranchKey(b) \in store
    PROVE  \A x \in Way(b, cut) : x \in Names /\ Key(x) \in store
<1> DEFINE next == [x \in Names |-> IF Record(x) \in DOMAIN com /\ com[Record(x)].time > cut
                                    THEN com[Record(x)].parents ELSE {}]
           S == {x \in Names : Key(x) \in store}
<1>1. Way(b, cut) = Met(b, next)
  BY DEF Way
<1>2. DOMAIN next = Names /\ \A x \in DOMAIN next : next[x] \subseteq DOMAIN next
  BY DEF Typed, ComsTyped
<1>3. b \in Names /\ b \in S
  BY BranchName
<1>4. \A x \in S : next[x] \subseteq S
  <2>. SUFFICES ASSUME NEW x \in S, NEW p \in next[x] PROVE p \in S
    OBVIOUS
  <2>1. com[Record(x)].time > cut /\ p \in com[Record(x)].parents
    OBVIOUS
  <2>2. Key(p) \in store
    BY <2>1 DEF RecordsWhole, RecordWhole
  <2>3. p \in Names
    BY <1>2
  <2>. QED
    BY <2>2, <2>3
<1>5. S \cap DOMAIN next = S
  BY <1>2
<1>. HIDE DEF next, S
<1>6. Met(b, next) \subseteq S
  BY <1>2, <1>3, <1>4, <1>5, MetLeast
<1>. QED
  BY <1>1, <1>6 DEF S

\* Collections that are given dates leave the way back from every known branch
\* complete as far as the dates of the records on it tell: reachable-in-branch
\* follows the parents of a record dated after the date, and marks what they lead
\* to.  Behind a record with an earlier date nothing is claimed.
THEOREM HistoryComplete == Spec => []HistoryKept
<1>1. Invariant => HistoryKept
  <2>. SUFFICES ASSUME Invariant, Regular, NEW b \in branches, BranchKey(b) \in store,
                       NEW x \in Way(b, cut)
                PROVE  Key(x) \in store /\ Closed(Record(x))
    BY DEF HistoryKept
  <2>1. Typed /\ RecordsWhole /\ b \in Branch
    BY DEF Invariant, RegularInv, Typed, ConnsTyped
  <2>2. x \in Names /\ Key(x) \in store
    BY <2>1, WayStored
  <2>. QED
    BY <2>1, <2>2, RecordClosed
<1>. QED
  BY <1>1, AlwaysInvariant, PTL

\* A collection meets a key without a record only if an earlier one was given a
\* date: until then the parents that reachable-in-branch follows are all in the
\* store, whatever was branched, forced, merged or deleted.
THEOREM CollectionEnds == Spec => []FailsOnlyAfterDate
<1>1. Invariant => FailsOnlyAfterDate
  BY DEF Invariant, RegularInv, FailsOnlyAfterDate
<1>. QED
  BY <1>1, AlwaysInvariant, PTL

===============================================================================
