------------------------------- MODULE Versions -------------------------------
(***************************************************************************)
(* The branches and commits of one database (datahike.experimental         *)
(* .versioning), and the garbage collection of its store (datahike.gc),    *)
(* beside the commits of the writers of its branches.                      *)
(*                                                                         *)
(* A commit is what module Writer shows it to be, in two steps here: its   *)
(* nodes and schema record are written, then its commit key and its branch *)
(* key.  Of the nodes of a value only those are told apart that the commit *)
(* built and that it shares: each commit replaces what the one before the  *)
(* last had built.                                                         *)
(***************************************************************************)
EXTENDS Integers, FiniteSets, SequencesExt

CONSTANTS
    Branch,    \* the names of branches
    Main,      \* :db
    User,      \* the caller of the versioning operations
    Schema,    \* the schemas, by content
    Dates,     \* the dates that a commit may carry beside that of its making
    MaxCommit, \* bound: how many commits are made
    MaxGc,     \* bound: how many collections are started
    MaxEvents  \* bound: how many calls of the user and crashes there are

ASSUME NameAssumption == Main \in Branch /\ User \notin Branch /\ Branch \cap Nat = {}
ASSUME DateAssumption == Dates \subseteq Nat
ASSUME BoundAssumption == MaxCommit \in Nat \ {0} /\ MaxGc \in Nat /\ MaxEvents \in Nat

VARIABLES
    com,       \* the commits made: nodes, schema, parents, time
    points,    \* points[b]: the commit in the record of branch b, 0 for none
    branches,  \* the set under :branches
    store,     \* the keys the store holds
    wcache,    \* the schema write cache
    mem,       \* mem[b]: the value the writer of b goes on from, 0 without one
    shown,     \* shown[b]: the value the connection to b shows
    job,       \* job[w]: what a writer or the user is writing, and on which
               \* connection, whose store holds the pending writes
    gc,        \* the collection that runs
    young,     \* the keys written since that collection took the time
    gcs, events,
    failed,    \* history: a collection ended with an exception
    cut,       \* history: the latest date before which snapshots were removed
    odd        \* history: which of the cases in which keys may get lost arose

storeVars == <<com, points, branches, store, wcache>>
connVars  == <<mem, shown>>
gcVars    == <<gc, young, gcs, failed, cut>>
histVars  == <<events, odd>>
vars == <<storeVars, connVars, job, gcVars, histVars>>

Worker == Branch \cup {User}

Node(n) == <<"node", n>>
SchemaKey(s) == <<"schema", s>>
CommitKey(n) == <<"commit", n>>
BranchKey(b) == <<"branch", b>>

NoJob == [step |-> "idle", on |-> Main, to |-> Main, n |-> 0, keys |-> {}, resets |-> FALSE]
NoGc  == [step |-> "idle", date |-> 0, heads |-> {}, todo |-> {}, seen |-> {}, reachable |-> {}]
Idle(w) == job[w] = NoJob
ToWrite(w, key) == job[w].step = "nodes" /\ key \in job[w].keys
NodesIn(keys) == {k \in keys : k[1] = "node"}

\* What worker w has to write for a commit of another, from which it took it.
Foreign(w) == IF job[w].step = "nodes" THEN NodesIn(job[w].keys) \ {Node(job[w].n)} ELSE {}
Collecting == gc # NoGc

\* Cases in which keys may get lost, the first of which is remembered in odd:
\*   overlap  a collection began during a job, or a job of the user during one
\*   ahead    a commit skipped a schema record that another had yet to write
\*   backdated a commit began during a collection, and is dated no later than
\*            what that was given
\*   stale    a writer committed over a commit it had not seen, or a branch was
\*            used that was forgotten
\*   torn     the process died during a job of the user, or before a writer had
\*            written the nodes that it took from one
Note(cases) == odd' = IF odd = {} THEN cases ELSE odd
When(case, cond) == IF cond THEN {case} ELSE {}

\* The commit in the record under x, the name of a branch or a commit.
Record(x) == IF x \in Branch THEN points[x] ELSE x
Key(x) == IF x \in Branch THEN BranchKey(x) ELSE CommitKey(x)

Names == Branch \cup DOMAIN com

\* The keys a commit points to.
Below(n) == {Node(k) : k \in com[n].nodes} \cup {SchemaKey(com[n].schema)}

\* A branch that is not known, or that became known again after its commit was
\* collected.
Forgotten(x) == x \in Branch /\ (x \notin branches \/ CommitKey(points[x]) \notin store)

\* What is new in the store is younger than the collection that runs.
Put(keys) == /\ store' = store \cup keys
             /\ young' = IF Collecting THEN young \cup keys ELSE {}

\* The user calls an operation or the process dies.
Happens == events < MaxEvents /\ events' = events + 1

UserCalls == Idle(User) /\ Happens

-------------------------------------------------------------------------------
(* Commits: commit! by a writer or by merge!, and the like of it in          *)
(* force-branch!                                                             *)

\* The nodes of a value built on that of commit n, whose own are new.
BuiltOn(n, new) == {new, Max(com[n].nodes)}

\* The record with schema s is left out though another has yet to write it.
Ahead(s) == When("ahead", s \in wcache /\ \E w \in Worker : ToWrite(w, SchemaKey(s)))

\* The user and the writer of connection k are the ones that flush trees into
\* the pending writes of k and take them from there.
Partner(w, k) == IF w = User THEN k ELSE User

\* The partner may still be about to take what it flushed.
Shared(w, k) ==
    LET j == job[Partner(w, k)]
    IN j.step = "nodes" /\ j.on = k /\ NodesIn(j.keys) \subseteq {Node(j.n)}

\* Job j of w starts on connection k with new nodes.  Whoever takes the pending
\* writes takes all of them, those of its partner too.
Flush(w, k, j, new) ==
    \/ job' = [job EXCEPT ![w] = [j EXCEPT !.keys = @ \cup new]]
    \/ /\ Shared(w, k)
       /\ LET x == Partner(w, k)
              theirs == NodesIn(job[x].keys)
          IN \/ job' = [job EXCEPT ![w] = [j EXCEPT !.keys = @ \cup new \cup theirs],
                                   ![x].keys = @ \ theirs]
             \/ job' = [job EXCEPT ![w] = j, ![x].keys = @ \cup new]

\* Job w starts on connection k to write the record c to branch b.  The schema
\* record is left out if the write cache has it.
Start(w, k, b, c, new, resets) ==
    LET s == {c.schema} \ wcache
    IN /\ com' = Append(com, c)
       /\ wcache' = wcache \cup {c.schema}
       /\ Flush(w, k, [step |-> "nodes", on |-> k, to |-> b, n |-> Len(com) + 1,
                       keys |-> {SchemaKey(x) : x \in s}, resets |-> resets],
                {Node(x) : x \in new})

\* The date of the n-th commit, :datahike/updated-at, is the :db/txInstant of its
\* report: the time of the transaction, or what its caller gave.  A commit of
\* load-entities has none, and counts as made when the database was (date 1).
DatesOf(n) == {n} \cup Dates

\* The writer of an open connection transacts on the value it has in memory and
\* commits it.  The parent is the commit in the record of the branch.
Commit(b) ==
    /\ Idle(b) /\ shown[b] # 0 /\ BranchKey(b) \in store
    /\ Len(com) < MaxCommit
    /\ LET n == Len(com) + 1
       IN \E s \in Schema, date \in DatesOf(n) :
             /\ Start(b, b, b, [nodes |-> BuiltOn(mem[b], n), schema |-> s,
                             parents |-> {points[b]}, time |-> date], {n}, TRUE)
             /\ mem' = [mem EXCEPT ![b] = n]
             /\ Note(When("overlap", gc.step = "clear") \cup Ahead(s)
                     \cup When("backdated", Collecting /\ date <= gc.date)
                     \cup When("stale", mem[b] # points[b] \/ Forgotten(b)))
    /\ UNCHANGED <<points, branches, store, shown, gcVars, events>>

\* merge! of a branch or a commit builds on what the connection shows, and not in
\* the writer.
Merge(b, from) ==
    /\ UserCalls /\ shown[b] # 0 /\ BranchKey(b) \in store
    /\ from # b /\ Key(from) \in store
    /\ Len(com) < MaxCommit
    /\ LET n == Len(com) + 1
       IN \E date \in DatesOf(n) :
             Start(User, b, b, [nodes |-> BuiltOn(shown[b], n), schema |-> com[shown[b]].schema,
                                parents |-> {points[b], Record(from)}, time |-> date], {n}, TRUE)
    /\ Note(When("overlap", Collecting) \cup Ahead(com[shown[b]].schema)
            \cup When("stale", shown[b] # points[b] \/ Forgotten(b) \/ Forgotten(from)))
    /\ UNCHANGED <<points, branches, store, connVars, gcVars>>

\* force-branch! writes the value of commit v, with its dates, under a new
\* commit to any branch.  It announces the branch first, and takes the parents
\* as they are: a commit or the name of a branch, which nobody looks up and which
\* its caller has to know (the docstring).  The value has the store of connection
\* k, and nothing to flush, but the writer of k may have.
ForceBranch(k, b, v, parent) ==
    /\ UserCalls /\ CommitKey(v) \in store /\ Key(parent) \in store
    /\ mem[k] # 0
    /\ Len(com) < MaxCommit
    /\ Start(User, k, b, [nodes |-> com[v].nodes, schema |-> com[v].schema,
                       parents |-> {parent}, time |-> com[v].time], {}, FALSE)
    /\ branches' = branches \cup {b}
    /\ Note(When("overlap", Collecting) \cup Ahead(com[v].schema))
    /\ UNCHANGED <<points, store, connVars, gcVars>>

\* The nodes and the schema record are in the store.
WriteNodes(w) ==
    /\ job[w].step = "nodes"
    /\ Put(job[w].keys)
    /\ job' = [job EXCEPT ![w].step = "roots"]
    /\ UNCHANGED <<com, points, branches, wcache, connVars, gc, gcs, failed, cut, histVars>>

\* A mutation of WriteRoots: the branch key is not written.
WriteRootsCommitOnly(w) ==
    /\ job[w].step = "roots"
    /\ LET b == job[w].to
           n == job[w].n
       IN /\ Put({CommitKey(n)})
          /\ points' = [points EXCEPT ![b] = n]
          /\ shown' = IF job[w].resets THEN [shown EXCEPT ![b] = n] ELSE shown
    /\ job' = [job EXCEPT ![w] = NoJob]
    /\ UNCHANGED <<com, branches, wcache, mem, gc, gcs, failed, cut, histVars>>

\* The commit key and the branch key are; commit! is then followed by a reset of
\* the connection, also of one that was released meanwhile.
WriteRoots(w) ==
    /\ job[w].step = "roots"
    /\ LET b == job[w].to
           n == job[w].n
       IN /\ Put({CommitKey(n), BranchKey(b)})
          /\ points' = [points EXCEPT ![b] = n]
          /\ shown' = IF job[w].resets THEN [shown EXCEPT ![b] = n] ELSE shown
    /\ job' = [job EXCEPT ![w] = NoJob]
    /\ UNCHANGED <<com, branches, wcache, mem, gc, gcs, failed, cut, histVars>>

-------------------------------------------------------------------------------
(* branch! and delete-branch!                                                *)

\* The records branch! accepts: of branches and of commits.
Known(n) == \/ CommitKey(n) \in store
            \/ \E b \in Branch : points[b] = n /\ BranchKey(b) \in store

\* branch! checks that the branch is new and reads where it shall start, ...
MakeBranch(b, n) ==
    /\ UserCalls /\ b \notin branches /\ Known(n)
    /\ job' = [job EXCEPT ![User] = [NoJob EXCEPT !.step = "key", !.to = b, !.n = n]]
    /\ Note(When("overlap", Collecting) \cup When("stale", CommitKey(n) \notin store))
    /\ UNCHANGED <<storeVars, connVars, gcVars>>

\* A mutation of WriteBranch: the key is set to an empty record.
WriteBranchEmpty ==
    /\ job[User].step = "key"
    /\ Put({BranchKey(job[User].to)})
    /\ job' = [job EXCEPT ![User].step = "announce"]
    /\ UNCHANGED <<com, points, branches, wcache, connVars, gc, gcs, failed, cut, histVars>>

\* ... writes the branch key, ...
WriteBranch ==
    /\ job[User].step = "key"
    /\ points' = [points EXCEPT ![job[User].to] = job[User].n]
    /\ Put({BranchKey(job[User].to)})
    /\ job' = [job EXCEPT ![User].step = "announce"]
    /\ UNCHANGED <<com, branches, wcache, connVars, gc, gcs, failed, cut, histVars>>

\* ... and makes the branch known.
AnnounceBranch ==
    /\ job[User].step = "announce"
    /\ branches' = branches \cup {job[User].to}
    /\ job' = [job EXCEPT ![User] = NoJob]
    /\ UNCHANGED <<com, points, store, wcache, connVars, gcVars, histVars>>

\* delete-branch! releases the connection, whose writer goes on, and forgets
\* the branch, whose keys stay until they are collected.
DeleteBranch(b) ==
    /\ UserCalls /\ b # Main /\ b \in branches
    /\ branches' = branches \ {b}
    /\ shown' = [shown EXCEPT ![b] = 0]
    /\ UNCHANGED <<com, points, store, wcache, mem, job, gcVars, odd>>

-------------------------------------------------------------------------------
(* gc-storage!                                                               *)

\* A collection starts for the snapshots before a date: it takes the time, ...
GcStart(date) ==
    /\ ~Collecting /\ gcs < MaxGc
    /\ \E b \in Branch : shown[b] # 0
    /\ gc' = [NoGc EXCEPT !.step = "clear", !.date = date]
    /\ young' = {}
    /\ gcs' = gcs + 1
    /\ Note(When("overlap", \E w \in Worker : ~Idle(w)))
    /\ UNCHANGED <<storeVars, connVars, job, failed, cut, events>>

\* A mutation of ClearedCache: the write cache is kept.
ClearedCacheNot(c) == c

ClearedCache(c) == {}

\* ... clears the write cache and reads the set of branches.  Each of them is
\* then followed on its own, one read after the other.
GcClear ==
    /\ gc.step = "clear"
    /\ wcache' = ClearedCache(wcache)
    /\ gc' = [gc EXCEPT !.step = "mark", !.heads = branches]
    /\ UNCHANGED <<com, points, branches, store, connVars, job, young, gcs, failed, cut>>
    /\ UNCHANGED histVars

\* The commit id in the record of branch b is read, ...
GcHead(b) ==
    /\ gc.step = "mark" /\ b \in gc.heads
    /\ LET head == IF BranchKey(b) \in store THEN {CommitKey(points[b])} ELSE {}
       IN gc' = [gc EXCEPT !.heads = @ \ {b}, !.todo = @ \cup {<<b, b>>},
                           !.reachable = @ \cup {BranchKey(b)} \cup head]
    /\ UNCHANGED <<storeVars, connVars, job, young, gcs, failed, cut, histVars>>

\* A mutation of Followed: the parents of a record before the date are not
\* marked, nor are those of the records before them.
FollowedLate(x) == {p \in com[Record(x)].parents : com[Record(p)].time > gc.date}

\* The parents of the record under x are followed if it is dated after the date.
Followed(x) == IF com[Record(x)].time > gc.date THEN com[Record(x)].parents ELSE {}

\* ... then the record again, and those of the parents that are followed from
\* it, unless they were visited: x is marked, and what its record points to.
GcVisit(b, x) ==
    /\ gc.step = "mark" /\ <<b, x>> \in gc.todo /\ Key(x) \in store
    /\ LET seen == gc.seen \cup {<<b, x>>}
       IN gc' = [gc EXCEPT !.seen = seen,
                           !.todo = (@ \cup {<<b, p>> : p \in Followed(x)}) \ seen,
                           !.reachable = @ \cup {Key(x)} \cup Below(Record(x))]
    /\ UNCHANGED <<storeVars, connVars, job, young, gcs, failed, cut, histVars>>

\* A key that is not in the store has no dates: an exception.
GcFail(b, x) ==
    /\ gc.step = "mark" /\ <<b, x>> \in gc.todo /\ Key(x) \notin store
    /\ gc' = NoGc /\ young' = {} /\ failed' = TRUE
    /\ UNCHANGED <<storeVars, connVars, job, gcs, cut, histVars>>

\* A mutation of Kept: keys written during the collection are not spared.
KeptOld(keys) == keys \cap gc.reachable

\* The keys that survive: those that are reachable or young.
Kept(keys) == keys \cap (gc.reachable \cup young)

\* The other keys are removed.
GcSweep ==
    /\ gc.step = "mark" /\ gc.heads = {} /\ gc.todo = {}
    /\ store' = Kept(store)
    /\ cut' = Max({cut, gc.date})
    /\ gc' = NoGc /\ young' = {}
    /\ UNCHANGED <<com, points, branches, wcache, connVars, job, gcs, failed, histVars>>

-------------------------------------------------------------------------------
(* Connections and crashes *)

\* A connection to a branch, also again after a release: its writer starts from
\* the record of the branch.
Connect(b) ==
    /\ Idle(b) /\ BranchKey(b) \in store
    /\ shown[b] = 0 \/ mem[b] # points[b]
    /\ mem' = [mem EXCEPT ![b] = points[b]]
    /\ shown' = [shown EXCEPT ![b] = points[b]]
    /\ UNCHANGED <<storeVars, job, gcVars, histVars>>

\* The process dies.
Crash ==
    /\ Happens
    /\ wcache' = {} /\ job' = [w \in Worker |-> NoJob]
    /\ mem' = [b \in Branch |-> 0] /\ shown' = [b \in Branch |-> 0]
    /\ gc' = NoGc /\ young' = {}
    /\ Note(When("torn", ~Idle(User) \/ \E w \in Branch : Foreign(w) # {}))
    /\ UNCHANGED <<com, points, branches, store, gcs, failed, cut>>

-------------------------------------------------------------------------------
(* The specification *)

\* A new database: an empty value in the main branch.
Init ==
    /\ \E s \in Schema :
          /\ com = <<[nodes |-> {1}, schema |-> s, parents |-> {}, time |-> 1]>>
          /\ store = {Node(1), SchemaKey(s), CommitKey(1), BranchKey(Main)}
    /\ points = [b \in Branch |-> IF b = Main THEN 1 ELSE 0]
    /\ branches = {Main} /\ wcache = {}
    /\ mem = [b \in Branch |-> 0] /\ shown = [b \in Branch |-> 0]
    /\ job = [w \in Worker |-> NoJob]
    /\ gc = NoGc /\ young = {} /\ gcs = 0 /\ events = 0
    /\ failed = FALSE /\ cut = 0 /\ odd = {}

Next ==
    \/ \E b \in Branch : \/ Commit(b) \/ DeleteBranch(b) \/ Connect(b)
                         \/ GcHead(b)
                         \/ \E x \in Names : GcVisit(b, x) \/ GcFail(b, x)
                         \/ \E from \in Branch \cup DOMAIN com : Merge(b, from)
                         \/ \E n \in DOMAIN com : MakeBranch(b, n)
                         \/ \E v \in DOMAIN com, k \in Branch, p \in Branch \cup DOMAIN com :
                                ForceBranch(k, b, v, p)
    \/ \E w \in Worker : WriteNodes(w) \/ WriteRoots(w)
    \/ WriteBranch \/ AnnounceBranch
    \/ \E date \in 0..Len(com) : GcStart(date)
    \/ GcClear \/ GcSweep
    \/ Crash

Spec == Init /\ [][Next]_vars

-------------------------------------------------------------------------------
(* Safety *)

Commits == [nodes : SUBSET (1..MaxCommit), schema : Schema,
            parents : SUBSET (Branch \cup 1..MaxCommit), time : 1..MaxCommit \cup Dates]

Keys == {Node(n) : n \in 1..MaxCommit} \cup {SchemaKey(s) : s \in Schema}
        \cup {CommitKey(n) : n \in 1..MaxCommit} \cup {BranchKey(b) : b \in Branch}

Jobs == [step : {"idle", "nodes", "roots", "key", "announce"}, on : Branch, to : Branch,
         n : 0..MaxCommit, keys : SUBSET Keys, resets : BOOLEAN]

\* The variables have their types; what is pointed to was made.
TypeOK ==
    /\ \A n \in DOMAIN com : com[n] \in Commits
    /\ Len(com) \in 1..MaxCommit
    /\ points \in [Branch -> 0..Len(com)] /\ branches \subseteq Branch
    /\ mem \in [Branch -> 0..Len(com)] /\ shown \in [Branch -> 0..Len(com)]
    /\ \A b \in Branch : /\ BranchKey(b) \in store => points[b] # 0
                         /\ shown[b] # 0 => mem[b] # 0
    /\ store \subseteq Keys /\ young \subseteq store /\ wcache \subseteq Schema
    /\ job \in [Worker -> Jobs]
    /\ gc.step \in {"idle", "clear", "mark"} /\ gc.date \in 0..MaxCommit
    /\ gc.heads \subseteq Branch /\ gc.reachable \subseteq Keys
    /\ gc.todo \subseteq Branch \X Names /\ gc.seen \subseteq Branch \X Names
    /\ gcs \in 0..MaxGc /\ events \in 0..MaxEvents /\ failed \in BOOLEAN
    /\ cut \in 0..MaxCommit /\ odd \subseteq {"overlap", "ahead", "backdated", "stale", "torn"}

\* A commit skips the schema record that the write cache has (db->stored), which
\* a collection may remove: whatever overlaps, a record in the cache is in the
\* store or about to be written.
WriteCacheTrue ==
    \A s \in wcache : \/ SchemaKey(s) \in store
                      \/ \E w \in Worker : ToWrite(w, SchemaKey(s))

Regular == odd = {}

\* What commit n points to is in the store, or was taken by another commit, which
\* is about to write it.
Closed(n) == \A key \in Below(n) \ store : \E w \in Worker : key \in Foreign(w)

\* "Branch heads are always retained" (doc/gc.md), beside any commits that start
\* during a collection: the key of a known branch is in the store, but for one
\* that is being forced, and what it points to is.  And every commit that can
\* be looked up (commit-as-db), and so be branched from, is complete, also one
\* that no branch holds any more.
PointersClosed ==
    Regular =>
        /\ \A b \in branches :
             \/ BranchKey(b) \in store /\ Closed(points[b])
             \/ BranchKey(b) \notin store /\ job[User].to = b
        /\ \A n \in DOMAIN com : CommitKey(n) \in store => Closed(n)

\* What is met from b on, when next[x] follows on x.
Met(b, next) ==
    LET all == {b} \cup UNION {next[x] : x \in DOMAIN next}
        closed == {S \in SUBSET all : b \in S /\ \A x \in S : next[x] \subseteq S}
    IN {x \in all : \A S \in closed : x \in S}

\* The way back from a branch, which goes on behind a record dated after a date.
Way(b, date) ==
    Met(b, [x \in Names |-> IF Record(x) \in DOMAIN com /\ com[Record(x)].time > date
                            THEN com[Record(x)].parents ELSE {}])

\* A collection beside commits removes nothing before the date it was given, as
\* far as the dates in the records tell: from a known branch back to the first
\* record that is not dated after the latest such date, and that one as well, the
\* history is complete.  That is all there is of "snapshots created after the
\* grace period date are kept" (doc/gc.md): behind a record without a date of its
\* own, or with an earlier one, later snapshots are not looked for.
HistoryKept ==
    Regular => \A b \in branches : BranchKey(b) \in store =>
        \A x \in Way(b, cut) : Key(x) \in store /\ Closed(Record(x))

\* A collection is only brought to an exception by an earlier one that removed
\* snapshots before a date: the branches that are known and the parents that are
\* followed have records, whatever was branched, forced, merged or deleted.
FailsOnlyAfterDate == Regular /\ failed => cut > 0

-------------------------------------------------------------------------------
(* A statement of the documentation that the code does not keep *)

\* "GC requires no coordination" and "branch heads are always retained"
\* (doc/gc.md): what a branch key points to is in the store.
BranchHeadsKept ==
    \A b \in branches : BranchKey(b) \in store => Closed(points[b])
===============================================================================
