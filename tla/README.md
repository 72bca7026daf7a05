# Datahike in TLA+

This directory holds TLA+ models of Datahike, configurations that check them with TLC on small instances, and
theorems about them that TLAPS checks for all instances. Paths are relative to the repository root; the
implementation is `src/datahike`.

1. [What the system consists of](#1-the-system)
2. [The modules](#2-the-modules)
3. [What TLC checks](#3-what-tlc-checks)
4. [What is proved](#4-what-is-proved)
5. [Disagreements between code and documentation](#5-disagreements-between-code-and-documentation)
6. [What is left out](#6-what-is-left-out)
7. [Plan](#7-plan)

## 1. The system

Datahike is a Datalog database whose values are immutable: a *database value* holds persistent search trees (EAVT,
AEVT, AVET, and the same three for the past) whose nodes live in a key-value store (konserve). A *branch key* of the
store points to the newest stored value of a branch, a *commit key* to each value that was ever committed, and both to
the content-addressed *schema record* and to the *nodes* of the trees.

| Component | State it keeps | Operations | Interacts by | Hard behaviour | Correct when |
|---|---|---|---|---|---|
| Local writer, `writer.cljc` | transaction queue, commit queue, value in memory | `transact!`, `load-entities`, `gc-storage!`, `-dispatch!`, `-shutdown`; processing loop; commit loop | channels, a callback per request, `reset!` of the connection | runs ahead of the store; batching; exceptions; commit errors; release while busy | what is answered is durable and visible; one order of transactions; every accepted request answered |
| Commit, `writing.cljc` | pending writes of the store, `:parents`, `:commit-id` | `commit!`, `db->stored`, `stored->db`, `-create-database*`, `-delete-database*` | writes to the store, one by one or in one multi-key write | crash or refused write between two writes; cleared before written | branch and commit keys never point to something missing |
| Connections, `connections.cljc`, `connector.cljc` | `*connections*` with reference counts; the wrapped atom, `:released` in the end | `connect`, `release`, deref, `get-connection`, `add-connection!`, `delete-connection!` | shared atoms | check-then-act on the count; two connects; reconnect while the old writer is busy | one writer per branch; a count that matches the holders |
| Schema caches, `schema_cache.cljc` | shared read cache; a write cache per store | hit, miss, clear | shared by all commits of a process | stale entry for a record that was never written, or was collected | a skipped write is in the store |
| Garbage collection, `gc.cljc` | none | `gc-storage!` | reads branches and parents, sweeps keys older than its start | runs in the background of the writer, beside its commits | nothing reachable is swept |
| Versioning, `experimental/versioning.cljc` | `:branches` | `branch!`, `delete-branch!`, `force-branch!`, `merge!`, `branch-history`, `commit-as-db`, `branch-as-db` | writes the same keys as commits, outside the writer | read-check-write of `:branches`; shared pending writes | branches known and complete; history walks to the root |
| Kabel peer, `kabel/*.cljc` | pending transactions by max-tx, synchronised max-tx, connection, registry of stores | remote dispatch, synchronisation, broadcast, connect, shutdown | RPC, a subscription to the keys of the store, publication of reports | reply and update in any order; duplicate ids; updates before the connection exists | a report is returned after its value arrived; the connection does not go back |
| HTTP writer and server, `http/*.clj`, `remote.cljc`, `http-server` | none between requests | one request per operation | HTTP | a lost reply | the server's answer is handed on |
| Transaction engine, `db/transaction.cljc`, `core.cljc` | the report under construction: indices, tempids, `:max-eid`, `:max-tx`, `:hash` | `:db/add`, `:db/retract`, `:db.fn/cas`, purge, upsert, tempids, tuples, functions | pure | retry after a late upsert; current and temporal indices together | the new value is what the operations say, whatever their order |
| Values and views, `db.cljc`, `db/search.cljc` | none | as-of, since, history, filter, search | pure | added and retracted datoms of the past | a view equals the database as it was |
| Datoms, `datom.cljc` | none | the comparators of the three orders | pure | comparison of values of different types, nil as wildcard | total orders that agree with the quick ones |
| Indices, `index/**` | tree nodes, addresses, pending operations of the hitchhiker tree | insert, upsert, remove, slice, flush, mark | pure but for addresses | buffered operations | both indices answer alike |
| Schema, `schema.cljc` | none | validation of schema entities and updates | pure | | |
| Query, pull, entity | caches of parsed queries | `q`, `pull`, `entity` | pure | rules that recurse, negation | logical meaning |
| Caches, `lru.cljc` | entries, weights, ticks | lookup, miss, hit, evict | swapped in an atom | the limit | the newest entries, within the limit |
| Configuration, norms, migration, bindings, serialisation | | | | norms transacted twice; `import-db` beside the writer | |

`PROJECT.json` lists every component with its sources, and under `hazards` the places of the code that are hard to
test, with the properties that watch them.

## 2. The modules

| Module | Models | Uses |
|---|---|---|
| `DurableLog` | what a caller is promised: a log of transactions that only grows, and answers that are given for what is in it | |
| `Writer` | the local writer, `commit!`, the store it writes to, one connection and its process | `INSTANCE DurableLog` |
| `WriterProofs`, `WriterLogProofs`, `WriterStoreProofs` | theorems about `Writer`: the types and the pipeline; the log and the refinement; the store | `Writer`, TLAPS; the last two `WriterProofs` |
| `Sessions` | the registry of connections, `connect`, `release`, `delete-database` by several callers, and the writers they leave behind | |
| `Versions` | branches, commits, the schema write cache and `gc-storage!`, beside the commits of several writers | |
| `Transact` | the transaction engine and the views of the past, on the sets of current and temporal datoms | |
| `Tempids` | how a transaction finds its entities: tempids, maps, upserts, and the restart of a transaction | |
| `Kabel` | the remote writer and its connection on a client, the peer that owns the database, and what passes between them | `INSTANCE DurableLog` |
| `SessionsProofs`, `VersionsProofs`, `TransactProofs`, `TempidsProofs`, `KabelProofs` | theorems about them | the module of that name, TLAPS |
| `MCWriter`, `MCSessions`, `MCVersions`, `MCTransact`, `MCTempids`, `MCKabel` | constants of the TLC instances | the module of that name |

### Writer

One branch of one database. Callers call `transact!` (`Call`), and a go block dispatches (`Dispatch`), which appends
to `txq`, or, when the queue is closed, drops the operation as `put!` does. The processing loop (`ProcessingLoop`)
takes an operation, applies it to the value it holds (`old`, whose `:max-tx` it first replaces by that of the
connection, `Base`), and puts the result on `cmq` in a second step (`Enqueue`). An exception answers the caller with
it (`TransactError`); an operation that returns a channel continues in the background (`StartBackground`,
`FinishBackground`). The commit loop (`CommitLoop`) takes all waiting results (`Take`), commits the newest
(`ToCommit`), waiting once per phase of `commit!`:

| `cpc` | where the commit loop is |
|---|---|
| `take` | waiting for the commit queue |
| `flush` | before `commit!`; the step reads the branch key, flushes the trees, and starts the first writes |
| `schema`, `nodes` | waiting for the schema record, for the nodes |
| `roots` | waiting for the commit and the branch key, or for the one multi-key write |
| `answer` | the connection is reset; callbacks are called one after the other |
| `error` | an exception; callbacks get it, then both queues are closed and the loop goes on |
| `stopped` | the commit queue is closed and empty |

Correspondence of the state:

| Variable | Code |
|---|---|
| `answer[t]` | the promise of request `t`: not asked, called, waiting, and what it was told; `lost` with its process |
| `txq`, `txOpen`, `cmq`, `cmOpen` | the buffers of the two channels and whether they are open |
| `proc`, `old`, `bg` | the processing loop, its loop variable, and the go blocks of background operations |
| `batch`, `kvs` | `txs` and `pending-kvs` of the commit loop |
| `com` | every value that `db->stored` produced, by the number of its commit id |
| `addressed` | transactions whose nodes have an address in the trees, so that a flush skips them |
| `wcache` | `schema-write-caches` for this store |
| `store`, `head` | keys of the store, and the commit the branch key points to |
| `inflight`, `refused` | started writes that are not finished, and those that threw |
| `torn` | history: the commits whose record was refused or cut off by a crash, in a write apart from that of the branch key |
| `status`, `conn`, `registered` | the wrapped atom and its entry in `*connections*` |

A database value is abstracted to the sequence of the transactions it results from. The nodes that a transaction
was the first to build are one key, `<<"leaf", t>>`, which every later value shares, as the trees do; the schema
record is keyed by the set of schema changes, as it is by its content. The store is konserve as `src` uses it: a
write takes effect at once some time after it was started; a lock per key makes the writes of the branch key take
effect in the order they were started, and makes its reader wait for them; a refused write has no effect. A store
either writes several keys atomically (`multi`) or not; both are checked.

A crash loses the queues, the caches, the callers and the writes that were not finished, and the next `Connect` reads
the branch key. `Release` is that of the last reference.

### Sessions

Threads of one process that use one branch. `*connections*` is `registry`, one entry with a connection and a count,
whose every read and `swap!` is a step of its own; `call[p]` says which step of which function caller `p` is at, and what
it read before:

| Steps of `call[p]` | Code |
|---|---|
| `count`, `check` | `get-connection` found a connection: it counts it, and compares configurations (that of a released one is nil) |
| `load`, `make` | it found none: the branch key is read, and a connection and its writer are made and registered |
| `entry`, `dec` (`entryAll`, `decAll` with `release-all?`) | `release` looks for the entry and decrements its count |
| `lookup`, `inc`, `reset`, `dissoc` | `delete-connection!`, which calls `get-connection` again, resets the atom and removes the entry |
| `shutdown`, `drop` | what follows: the writer of the connection passed in is shut down; the store is deleted |

`conns` holds every connection that was made, with its writer reduced to what `Writer` shows it to be: a queue, the value
in memory, the value of the branch key it set last (`landed`), and the value shown. A writer does not read the branch key:
two of them overwrite each other. That is the point of the module, for `release` does not wait for the writer.

Three history variables say what happened so far: `disturbed` (two calls overlapped, or a connection was reset
while its writer was busy), `forced` (a release for all, or a deletion of the database), `rivals` (a writer was made
while another could still write, or from a value that was no longer the newest).

### Versions

Several branches of one database in one process. Each branch has a writer, and one user calls `branch!`,
`delete-branch!`, `force-branch!` and `merge!`. A commit is `Commit` (or `Merge`, `ForceBranch`), `WriteNodes`,
`WriteRoots`: what `Writer` splits further (which of the writes of a phase took effect) is one step here. A node is
named after the commit that built it; a commit has its own and the newest of the commit it builds on, so that each
commit shares a node and replaces one. `points[b]` is the commit in the record under the branch key of `b`; `store` says
which keys are there. Time is counted in commits. The date of a commit is `:datahike/updated-at`, the `:db/txInstant` of its
report (`writing.cljc:196`): that of its making, or one of `Dates`, since a caller may choose it (`tx-meta`,
`db/transaction.cljc:797`), and a commit of `load-entities` has none and counts as made when the database was. `force-branch!`
keeps the date of the value it is given.

`gc-storage!` takes the time (`GcStart`; from then on `young` collects what is written), clears the write cache and reads
`:branches` (`GcClear`). The branches are then followed side by side (`async/merge`), and every read of one is a step: of the commit
id of the head (`GcHead`), and of each record from the branch key on (`GcVisit`, or `GcFail` if it is missing), which marks what the
record points to and puts the parents that are followed (`Followed`) on the list of those to visit. Commits, connects and crashes come
in between. `gc.todo` and `gc.seen` are `to-check` and `visited` of all branches, in pairs of branch and name; in which order
those of one branch are visited is left open. When nothing is left to read, what is neither reachable nor young is swept
(`GcSweep`, `konserve.gc/sweep!`).

The nodes of a commit pass through the pending writes of its connection's store (`CachedStorage`): the flush puts them there,
and `get-and-clear-pending-kvs!` takes whatever is there in the next step. `merge!` and `force-branch!` run in the user's
thread on the same connection, so that the user and the writer may each take the nodes of the other (`Flush`,
`Shared`). The one that lost its nodes does not wait for them: it sets the branch key while the other still writes them
(`Foreign`). `Closed` counts such nodes as there; that they all arrive unless the process dies first is part of the
properties.

`odd` names the first of the cases after which keys can get lost: `overlap` (a collection started during a commit, or a
versioning operation during a collection), `ahead` (a commit left out a schema record that another had yet to
write), `backdated` (a commit started during a collection, and is dated no later than what that was given), `stale` (a commit over one
its writer had not seen, as `merge!` warns, or use of a deleted branch, also of one that `force-branch!` announces again after
its commit was swept), `torn` (a crash within a versioning operation, or before a writer had written the nodes it took from
one). The safety properties say that there are no other cases; section 5 shows what happens in the first three.

### Transact

What happens inside one step `TransactOk` of `Writer`: a transaction is a loop over operations (`Begin`, one action per
operation, `Finish`), each applied to the value that the ones before it left; an exception (`Raise`) drops all.
A database value is its current and its temporal datoms. Facts `[e, a, v]` come from a finite `Universe`; each attribute may be
of cardinality many, a reference, a component, unique, or without history. Transaction `t` has the instant `t`, so that a
date stands between two transactions.

| Definition | Code |
|---|---|
| `db`, `maxTx` | the value the next transaction starts from |
| `after`, `es` | `:db-after` of the report; the operations that components gave rise to, done before the caller's next |
| `Upsert`, `Insert`, `Retract`, `Purge` | `with-datom-upsert`; `with-datom` for an added and for a retracted datom; `with-temporal-datom` |
| `History` | the datoms of `distinct-datoms`: current ones count for attributes of cardinality many or without history only |
| `Assemble`, `AsOf`, `Since` | `assemble-datoms-xform` behind `as-of-pred` and `since-pred` |
| `Expired` | the datoms that `:db.history.purge/before` purges |

Components generate operations in sets, whose order is that of hashes: any order is allowed, and `es` is a set.
`Add`, `CompareAndSwap`, `RetractFact` and so on are the operations of `apply-db-op`; their failing counterparts are `AddTaken`
and `CompareAndSwapFails`.

Two changes of one attribute in one transaction cannot be told apart later: a retraction and an assertion of a
transaction are one for the temporal index, and `assemble-datoms-xform` takes the lowest of several values. `odd` holds the
transactions that did this, or that purged an expired fact that was current again; what the views promise is
stated for the others.

### Tempids

What a transaction does before the operations of `Transact`: its input is a sequence of items, vectors `[:db/add e a v]` and
maps, that speak of entities by ids, tempids, identity attributes, or not at all. A transaction is the initial state of a behaviour
of one process; there is nothing to interleave, but one step may undo all before it.

| Definition | Code |
|---|---|
| `after`, `tempids` | `:db-after` and `:tempids` of the report; 0 for a tempid that is not in it |
| `next`, `ops` | the entities of `initial-es` that are left, and what `explode` put before them |
| `initial` | the `initial-report` of `transact-tx-data`, of which a retry changes the tempids only |
| `Create`, `Resolve`, `RaiseUpsert` | the outcomes of `entity-map->op-vec`, and of `transact-tx-data` for a vector with a tempid |
| `RetryWithTempid`, `RaiseRetry` | `retry-with-tempid`: a tempid has an id, and now asserts an identity of another entity |
| `ResolveValue`, `CreateValue` | a reference to a tempid, with and without an id |
| `Add`, `RaiseUnique` | `transact-add` for an attribute of cardinality one, and its check of uniqueness |

Two history variables name what a restart may do: `carried` (it took along an id that the aborted run had allocated) and `reused`
(such an id was allocated a second time). The latter makes one entity of two, see section 5.

### Kabel

A peer owns the database: it runs a local writer, and publishes the keys of the store to subscribers (konserve-sync). A client
has a copy of the store; its connections send transactions by a remote call and hold the report back until the update with
the transaction has arrived. A database value is the number of the transactions of `log` it holds, and the owner's writer
is what `Writer` shows it to be, in `Process`, `Commit` and `Reply`: what it processes between two commits gets the same
`:max-tx`, and a commit takes several.

| Variable | Code |
|---|---|
| `log`, `mem`, `id` | the durable transactions, those processed and not committed, and the `:max-tx` each got |
| `hosted`, `synced` | `store-registry` holds the connection; the store is registered with konserve-sync |
| `call[t]`, `via[t]` | where the go block of `-dispatch!` is, or what the caller was told; the connection it was called on, `NoConn` for a caller of the owner |
| `signal[t]` | what was put on the promise `wait-ch` |
| `current[c]`, `pending[c]` | `current-max-tx` and `pending-txs` of the writer of `c` |
| `tiered`, `local` | the kind of the client's store; the value under its branch key |
| `feed[c]`, `offered[c]` | updates sent to the subscription of `c` and not handled yet, in order; the value the handshake of its subscription named |
| `phase[c]`, `shown[c]`, `stored[c]` | how far `connect-kabel` is, and whether the atom was reset by a release, or brought back by an update after it; the value shown; `stored-db-atom` |
| `notify[c]` | `on-db-sync!` between its three steps: reset of the connection, reset of the id, wake-up of the waiters |
| `registered`, `held` | the entry of `*connections*`; the connections callers have and have not released |

`Dispatching(t)` is the go block of a call after its reply: `Register`, then `CheckArrived` or `CheckNotArrived`, then
`WakeSynced` or `WakeShutDown`. `Updating(c)` is the callback of a subscription: an update goes to `stored-db-atom`
as long as `conn-atom` is empty (`UpdateStored`), to `on-db-sync!` afterwards (`UpdateShown`, `NotifyMax`, `NotifyWake`), also after the
release of the connection (`UpdateReleased`), because a release does not end the subscription. `connect-kabel` is `ReadCached` (the
cached branch key of a tiered store), `Subscribe` (the subscription and its handshake, which names what is in the store by then), `Take`
and `Open`, which replaces whatever is registered. Connections of one process share the store of the client: an update that one
of them handles is in the store when another subscribes.

## 3. What TLC checks

All runs finish with deadlock checking off, because the system may stop: after a release, or once all requests of the
instance are answered.

| Run | Instance | Shows |
|---|---|---|
| `writer_safe` | three transactions, the second changing the schema; one crash, one refused write, a release; both kinds of store | the safety properties below, and that the writer implements `DurableLog` |
| `writer_live` | two transactions and a background collection, one crash, one refused write, a release | the three liveness properties |
| `sessions` | two callers, two connections, two transactions; symmetric in both | the registry and what several writers do to each other |
| `versions` | two branches, two schemas (symmetric), three commits, which may have the date of the first; one collection with any date, three calls of the user, crashes or such commits in all; followed after the first case of `odd` only while there was none (`Followable`) | nothing that is needed is collected |
| `kabel` | two transactions, by callers of the owner or of a client with one connection, whose store is in memory or tiered, in the latter case fresh or with a cached value; or one transaction and two connections that share a tiered store (`Small`) | the safety and liveness properties below, and that remote callers get the promise of `DurableLog` |
| `values` | two entities that are parts of each other, seven facts with attributes of each kind; four transactions of four operations in all | current and past datoms agree, and only purges change the past |
| `tempids` | two tempids, two entities, of which one may have no identity, and an identity that none has yet; all transactions of up to four items of ten kinds | tempids and identities decide which entity is which, and every transaction ends |
| `tx_ids`, `dangling_head`, `lost_write`, `gc_race`, `purge_before` | the smallest that show it | the counterexamples of section 5 |

Safety, in `Writer`:

- `AckedDurable`: what was answered with a report is in the value the branch key points to, from then on.
- `CommitOrder`: durable transactions appear once, in the order in which the queue accepted them.
- `PointersClosed`: the branch key and the commits in the store point only to nodes and schema records
  in the store, at every moment and so after every crash, as long as the store refuses no write.
- `HistoryClosed`: the parent of every commit that was tried is stored, through crashes and refused writes of any kind, unless
  just the write of that parent's own record, apart from that of the branch key, was refused or cut off by a crash (`torn`); then, too,
  the history is complete but for it. It has no condition on how often anything failed.
- `ConnDurable`, `ReadYourWrites`: the connection never shows what a crash could take back, and shows what was answered.
- `PipelineOrdered`: durable value, pending branch writes, commit in progress, batch, queue and value in memory each
  hold all that the ones before them hold.
- `ImplementsDurableLog`: every step is a step of `DurableLog` with the durable transactions as its log, or none.

Liveness, in `Writer`, with refused writes: `AcceptedAnswered` (a queued operation is answered, or its process dies, or a commit
error closed the commit queue before the result was put there, `Dropped`), `ShutdownFinishes` (a closed writer drains and
ends), `DurableShown` (a durable commit becomes visible, unless its own record was refused while its branch key was written).

Safety, in `Sessions`; the first two under the condition `~disturbed`, because the code does not keep them otherwise:

- `HeldCounted`: between calls the count of the registered connection is the number of its holders.
- `OneWriter`: no writer is made while another can still write, and between calls a writer that takes requests belongs to the
  registered connection.
- `AckedDurable`: as long as there was one writer at a time, what was acknowledged is in the database.
- `RegisteredOpen`, `ReadYourWrites`: whatever overlaps, the registry keeps no released connection (later connects would
  fail for ever), and a caller finds its transaction in the connection it used.

Safety, in `Versions`; the last three while `odd` is empty:

- `WriteCacheTrue`: whatever overlaps, a schema in the write cache has its record in the store, or about to be written.
- `PointersClosed`: known branches have a key, and branch heads and commits in the store are complete.
- `FailsOnlyAfterDate`: a collection only ends with an exception after another one removed snapshots before a date.
- `HistoryKept`: from a known branch all records back to the first that is not dated after the latest date given to a collection, and
  that one, are there and complete. What the dates hide, behind a record that looks older than it is, is not claimed (section 5).

Safety, in `Kabel`; the first two but for transactions to which the owner gave the same id:

- `ReadYourWrites`: a remote caller that got its report finds the transaction in its open connection.
- `WaiterKnown`: a call that is parked and was not woken is among the waiters, and its id has not arrived, or its
  callback is about to wake it.
- `ImplementsDurableLog`: every step is a step of `DurableLog`, to whose callers those of the owner and of the client both
  belong, or none.

Liveness, in `Kabel`: `ReportReturned` (a call whose report came back is answered), `UpdatesShown` (a commit is shown by each
open connection, unless just its update was overlooked while connecting, in one of the two ways `Overlooked` names); both while
the connection is open and the store synchronised.

Safety, in `Transact`:

- `CurrentSound`: one value per attribute of cardinality one, one entity per unique value, whatever the operations.
- `ViewsAgree`: the database as of its last transaction, read from the temporal index, is what is current; what is seen since a
  transaction holds now, and has all that was not there as of it.
- `PastFixed`: a transaction changes nothing of what the database was as of an earlier one but the facts it purges.
- `PurgedForgotten`, `ExpiredForgotten`: what is purged is in no index, and of the past before a purged date only what is
  current is left.
- `RetractsWhole`: `:db/retractEntity` retracts the entity with all its parts and all references to them, and nothing else.

In `Tempids`:

- `SameEntity`: after a transaction two items are of one entity exactly when a chain of equal ids, tempids and identities says so
  (`One`: no set of nodes that shares no claim with the others has one of them only), and `:tempids` of the report says the same; unless an
  id was `reused`, or an identity was taken from an entity by a later item.
- `RejectedForCause`: a transaction that ends with an exception makes one of two entities: a chain leads from a node that claims the
  id or an identity of one to a node that claims those of another; unless ids were `carried`.
- `Terminates`: every transaction ends, though each step may restart it.

**Bounds.** Three transactions give a batch of two while a third is processed, a failed commit with a successor, and
two schema records; a fourth adds no new relative position of the loops. One crash and one refused write at every
moment cover each single failure; `PointersClosed`, which holds without refused writes, is guarded by the counter
(`failures = 0`) and says so. Liveness has one request less for the sake of time: two in a batch, or one committed while another is
processed, are enough to lose a callback.

In `Sessions` two callers are enough for each pair of calls to meet, two connections for one to replace the other; the
count is bounded by three because an exception in `connect` after counting leaks a reference each time. Three
connections were also checked and give nothing new. In `Versions` three commits are the empty database, one to
be removed and one to be kept; a collection needs one of the user's calls before it or beside it, and `branch!` followed
by `delete-branch!` two, to which a crash or `merge!` may come. Three commits are also the empty database and two that are made while the
collection reads records, of which one may be backdated: without `backdated` TLC finds `PointersClosed` violated. A
backdated commit hides what is behind it; `Followable` counts each that was made as one of the three calls, so that
the states stay within minutes.
Once a case of `odd` arose only `WriteCacheTrue` claims something, for which commits that skip the record and a collection
are what matters: `Followable` leaves out the states with calls too, most of all there are.
`merge!` of a commit needs one call of the user, which with a commit of the writer and a crash covers the pending writes they share.
In `Kabel` two transactions may wait at once, share an id, be in one commit, and be of two kinds of caller; three were also
checked for safety. One connection may be made from an older value, released, and updated afterwards. Two meet in `*connections*`, where
the second replaces the first, and in the store, where an update of the one is what the other has cached or offers in its
handshake: for that they must share a tiered store, and one transaction has all positions among the steps of the two. `Small` says
which calls and connections there are, and only bounds steps that are not fair, so that it does not weaken liveness.
In `Transact` a value is asserted, changed or retracted, asserted again and purged with four operations, and four
transactions let each have its own; two entities that are parts of each other give references, parts of parts and a cycle.
The numbers of the unique attribute are those of the entities, which only the code with attributes stored as ids
confuses.
In `Tempids` a restart needs two items for a tempid that gets an id before its identity, and a third and fourth give a second tempid the
same, before, between or after; four items of two tempids restart a transaction up to twice. An entity without an identity can only be
claimed by its id.

**Fairness.** `Fairness` is weak fairness of each loop, of the go blocks that dispatch and that pass on a background
result, and of the store finishing what it started. The code justifies it: go blocks run on a pool that nothing in
`writer.cljc` blocks for ever, and konserve completes a write or throws. Callers, releases, crashes and refusals are
never fair. In `Kabel` it is weak fairness of the owner's writer, of the go block of each call, and of the callback and of
`connect-kabel` of each connection: updates that were sent arrive. That the store stays synchronised and the connection open
is a condition of the properties instead, as nothing in the code ensures it. In `Tempids` it is weak fairness of the one loop.

**Mutants.** Every property of a passing run is paired in `PROJECT.json` with a small change of a definition, which
makes TLC find it violated: the value of the connection as the basis of the next transaction, the oldest of a batch
committed, the head reset before its nodes are waited for, and so on. These changed definitions stand before the ones
they change and are used by no specification.

## 4. What is proved

`WriterProofs` holds, for every finite or infinite set of requests, every split into schema and background requests,
every number of crashes and refused writes, and both kinds of store:

- `TypeCorrect`: `Spec => []TypeOK`;
- `PipelineCorrect`: `Spec => []PipelineOrdered`;
- `Durability`, `ConnectionDurable`, `ReadsSeeWrites`: `Spec => []AckedDurable`, `[]ConnDurable`, `[]ReadYourWrites`.

The assumptions are those of `Writer`: the schema and background requests are requests, and the bounds are naturals.

The argument is one inductive invariant, `IInv`. Durability is not inductive: that a commit does not drop what was
answered depends on the values still in the pipeline being extensions of the durable one. So `IInv` has
`PipelineOrdered`, with `DownEmpty` (no process, nothing in the pipeline), `RootsStarted` (once the root writes
have started, the branch is being set to this commit, has been, or a write was refused) and `AnswersCommitted` (callbacks are
called when the commit is durable and shown), next to the three properties. There is one lemma per action;
`QuietStep` and `IdleStep` serve those that leave the pipeline alone. The failing commit is the delicate
case: its branch write may still take effect after later ones were built, which is harmless only because those extend
it and because the store keeps the order of the writes of one key.

`WriterLogProofs` adds, from the same assumptions:

- `LogOrdered`: `Spec => []CommitOrder`;
- `WriterDurable`: `Spec => ImplementsDurableLog`, the refinement.

That the log never receives a transaction whose caller was told of its rejection, nor one twice, is a fact about everything that
still may reach it. So `LInv` follows the requests from the queue to the store: `AllOrdered` (every commit, the value in memory and the
queue behind it are in the order of acceptance, `sent`), `QueueOpen` and `MemoryOpen` (what is in the queue or only in memory
waits, or failed with its commit), `ResultsOpen` (the owners of the results in the batch and the commit queue wait, and have one each, so
that no callback is called twice), `AsyncApart` and `DownIdle`. For the refinement, only `Land` of a write of the branch
key moves `log`, and by `PipelineOrdered` it appends; `RefinementStep` maps every other action to an answer or a stutter.

`WriterStoreProofs` adds, for both kinds of store:

- `PointersKept`, `HistoryKept`: `Spec => []PointersClosed`, `[]HistoryClosed`.

Neither survives a step alone: whether the nodes of a commit are in the store when its root lands depends on what is under
way. `SInv` therefore speaks of keys that are `Coming`, in the store or in a write in progress: nodes that have an address and schema
records in the cache are (`NodesComing`, `SchemasComing`), and by the time a root write starts, all it points to is there or in the same
write (`RootsAfter`). `WritesOfThis` is what the waits between the phases of `commit!` give. For the history `HeadComing` and
`ParentsKept` carry the commit record across the time between the two root writes: through every crash and refusal, it is in the store, or
coming, or among `torn`, the records whose own write was lost. The theorem has no other condition.

`SessionsProofs` holds for any set of callers and transactions and any bounds on the number of connections and the
leaked count:

- `TypeCorrect`: `Spec => []TypeOK`;
- `RegistryOpen`: `Spec => []RegisteredOpen`;
- `OwnWritesShown`: `Spec => []ReadYourWrites`.

Its `IInv` joins `TypeOK`, `RegisteredOpen` and `ReadYourWrites` with what makes them inductive: `RegistryOK` (an entry
has a connection, so `delete-connection!` never resets nothing), `ThenOK` (a caller on its way to shut down a writer
still holds the connection), `WritersOrdered` (what a connection shows is in what its writer set the branch key to, and
that in what it has in memory) and `AskedVia` (what waits or is done went through a connection). `RegisteredOpen` needs
no assumption on overlaps because `delete-connection!` resets the connection it found and then removes whatever is
registered: the caller between the two steps is the witness, and only its own removal takes it away. `PlainCall`,
`ConnCall` and `WriterStep` treat the steps that leave the connections alone, that change the caller's, and that are a
writer's; every action is a use of one of them.

Three more theorems are about the conditions under which nothing is lost:

- `OneWriterDurable`: `Spec => []AckedDurable`;
- `CountIsHolders`: `Spec => []HeldCounted`;
- `WritersOneByOne`: `Spec => []OneWriter`.

The first rests on `LastWrites` (without rivals only the connection made last can write, and what its writer landed is the
branch key) with `AllSettled` (a writer that shows all it has in memory has published all that landed, so that whoever
connects then starts from it). The other two are one induction, `Calm`, for `~disturbed`: there is at most one caller in
a call (`Alone`), an open connection is the registered one (`OnlyOpen`), a closed one has a writer that is done
(`ClosedDone`), the count is the cardinality of its holders plus the connect that has counted itself and not yet
returned (`CountOK`), and `CallOK` says what the one call in progress has seen. The counts need `CallerAssumption`: the callers
are finitely many, as the threads of a process are.

`VersionsProofs` holds for any branches, commits and workers:

- `TypeCorrect`: `Spec => []TypeOK`;
- `CacheTrue`: `Spec => []WriteCacheTrue`;
- `HeadsClosed`, `HistoryComplete`, `CollectionEnds`: `Spec => []PointersClosed`, `[]HistoryKept`, `[]FailsOnlyAfterDate`.

`WriteCacheTrue` alone does not survive a sweep. `CacheInv` adds `JobsOK` (the steps of the jobs) and `CachedYoung`: once
a collection has cleared the write cache, any schema in it was entered after the time the collection took, so its record
is either still to be written by the job that entered it or too young to be swept. The order of the two first steps of
`gc-storage!`, the time and then the clearing, is what the proof rests on.

The last three follow from `RegularInv`, which holds as long as none of the cases of `odd` arose. Its parts:

- `RecordsWhole`: every record in the store is complete, where a node that another job took from this one and has yet to write counts
  (`Held`), and the parents of a record after `cut` have records too;
- `JobsWhole`: what a job is to publish is complete but for what it is to write first (`Owed`);
- `Announced`: a known branch has its branch key and its commit key (`Rooted`), or is being forced;
- `Apart`: a collection runs beside writers that took nothing from each other;
- `Marking`: what a collection has come to, between any two of its reads. As in collectors with three colours there is a set `B` of commits that
  were marked through some name: what they point to survives (`Saved`: reachable or young), and what is followed from them is
  marked too or still to be visited (`Good`, `Traced`, `Open`). A key that survives is that of such a commit, or of one that the
  walks from the open names will meet (`Covered`, `Reached`); a branch has yet to be read, or its head survives (`Safe`); and a commit
  that a writer makes meanwhile shares only nodes of the commit in its branch record, and is dated after the date (`BuiltAlone`).

The delicate step is `WriteRoots` during the marking (`WriteRootsMarking`, `WalkMovesOn`): the branch record moves from the commit `o` to the
commit `n` built on it, possibly between the reads of its commit id and of the record, and the walks change. A walk that is still to go over the
branch meets `o` all the same, since the parent of `n` is followed: `n` is dated after the date, or else `backdated` was noted, which is the
condition the proof cannot do without. If the branch was visited before, `o` is in `B` and `n` is young. `GcVisitRegular` moves one commit into
`B`. With nothing left to visit, `Covered` is that everything a survivor points to survives, which is what the sweep needs.

`Walk` (what a collection comes to from a name, of the proof) and `Way` (of `HistoryKept`) are least closed sets (`Met`) and not recursive
functions, so that `MetLeast` gives what an induction would: to show that a walk stays within a set, show that the set is closed. `CollectionEnds` is an instance: without
a date every parent has a record, and a walk cannot leave the set of names that have one. The assumptions are that branches and
commits have different names, as keywords and UUIDs do (`NameAssumption`), that dates are numbers (`DateAssumption`; any dates, in
the past or to come), and that there is room for the commit of the new database (`BoundAssumption`). The attempt to prove `HistoryKept` showed that `stale` was too narrow: a deleted branch whose commit was swept, announced again by
`force-branch!` while its writer is still open, can be committed to. The bounds of the runs are too small for it.

`TransactProofs` holds for any facts, attributes of any kinds, and any number of transactions and operations; it
assumes that entities and values are numbers, that components are references, and that references are to entities:

- `TypeCorrect`: `Spec => []TypeOK`;
- `CurrentValuesSound`: `Spec => []CurrentSound`;
- `PurgedIsForgotten`: `Spec => []PurgedForgotten`, unless attributes are stored as ids, where references to a
  purged entity stay (`transaction.cljc:726` searches with names);
- `ViewsOfOneValue`: `Spec => []ViewsAgree`;
- `PastIsFixed`: `Spec => PastFixed`, with the same restriction: the facts that are left are among those the transaction purges;
- `WhatExpiredIsForgotten`: `Spec => []ExpiredForgotten`;
- `WholeIsRetracted`: `Spec => []RetractsWhole`, with the restriction again: otherwise every value that equals the id is
  retracted too (section 5).

The first two are inductive together. For the third, `Backed` is the point: a purge searches the history, which misses the current
datoms of most attributes, and finds them by a temporal datom of the same fact. So every operation must leave one for each
current datom: `Upsert` relies on the one there was when the value stays the same, and `Purge` takes the current datom with
any temporal one. `Forgotten` says that purged facts that are back are of this transaction. `PairCardinality` settles how many
datoms a purge removes when an assertion and a retraction of one transaction hide each other.

`ViewsAgree` and `PastFixed` say that the two indices stay in step. Their invariant, `PastInv`, is about two sets: what is current, `C`, and
the history, `U`, both cut off at a transaction `t`. They are `Sane` when each current datom has an assertion in `U` that
nothing beside it (of the same entity and attribute, and value if there are many) is later than (`Standing`), an assertion
that another value came after was retracted (`Superseded`), and a transaction left at most one datum of a kind (`OncePer`).
They are `Ended` when what is asserted and not current was retracted later. `SaneViews` derives `ViewsAgree` from these. `PastInv` has
them of `db` and of `after` for every `t` before which no transaction was odd, of the open transaction while it is not odd itself (`Fresh`: what has its
number is in `touched`), and with them that `after` shows what `db` shows as of `t`, less what is purged (`PastSame`). An operation does one of six
things to the two sets, and each has its lemma:

| Lemma | What happens | By |
|---|---|---|
| `Restate…` | what was current appears in the past as an assertion, and stays visible | everything, as of an earlier transaction |
| `Retire…` | current data go, the past gets their retractions | `Retract`, the first half of `Upsert` |
| `Enter…` | a datum of which there is none comes | the second half of `Upsert`, `Insert` |
| `Renew…` | a current datum gets a later transaction | `Upsert` with the value there was |
| `Without…` | all data of some facts go from both | `Purge` |
| `Expire…` | data from before a date go that are not current, and may take current ones of their fact along | `PurgeBefore` |

The lemmas named after operations (`UpsertNow`, `RetractPast`, ...) show that they do this to the indices as they are, where `History` takes
current datoms of attributes without history, or of many values, from the current index. `ExpiredForgotten` needs `OncePer`: a datum
that hides behind another of its transaction would survive.

For `RetractsWhole` the invariant, `WholeInv`, says how far the work is (`Partway`): there is a set of entities that are done, whose parts are
done or due, all within the whole, and what is current is what was, less the data of those done and the references to them. That
retracting a part first hides a reference to it from its owner does no harm, for that part is done. When nothing is due the done are closed under
parts, and `WholeLeast` makes them the whole. Entities that are parts of each other are no special case.

`TempidsProofs` holds for any transaction, schema and database value whose references are to entities, as far as cardinality one goes:

- `TypeCorrect`: `Spec => []TypeOK`;
- `OneEntityEach`: `Spec => []ItemsPlaced`: items with one tempid are of one entity, that of the report, and items with an id of this;
- `IdentitiesKeptApart`: `Spec => []IdentitiesUnique`;
- `OneEntityByClaims`: `Spec => []SameEntity`;
- `RejectionsHaveCause`: `Spec => []RejectedForCause`.

`ItemsPlaced` rests on the restart: a tempid that has an id keeps it for the rest of the run (`ExplodeOK`: what would change it makes
`Resolve` impossible), and `RestartOK` begins again without items, whatever the tempids keep.

The last two need a second invariant, `KinInv`, about nodes that are `PlacedAt` an entity so far and about those that are `Kin`: the claims
of the whole input, met or not, make them one. `Kindred` says that nodes at one entity are kin unless an id was given out twice (section 5),
which is why `SameEntity` has that condition; `Grounded` that a node at an entity there was is kin of one that claims its id; `Told`
that an identity in the database was claimed by a node at its entity; `OpsOf` that the assertions that are left are the last item's, and
that an upsert has no rival for an identity; `Retained` what a restart keeps. `Kin` is defined by sets without ties to others, as `One` is, and
not by chains, so that no induction is needed; it does not change when the transaction gets on, and `KinOne` shows that it
is `One` between nodes, which leave out the tempids without an id. Each step places a node beside kin (`PlaceMore`), and a
restart forgets the items but nothing that `Told` needs, for what there was before tells of itself. The other direction of
`SameEntity`, `OneIsOne`, is that nodes at an entity are such a set in the end. For the exceptions, `RetryCause` finds the second owner by
`Grounded`, `UpsertCause` and `UniqueCause` in the item itself.

The attempt to prove `RejectedForCause` showed that an earlier form of it, that two identities of different entities are among the
claims, held only because every entity of the instance had an identity: an entity may be meant by its id alone. It is now about owners, and
the instance has an entity without an identity.

`KabelProofs` holds for any transactions and connections:

- `TypeCorrect`: `Spec => []TypeOK`;
- `RemoteReadsSeeWrites`: `Spec => []ReadYourWrites`;
- `NoWakeUpLost`: `Spec => []WaiterKnown`;
- `KabelDurable`: `Spec => ImplementsDurableLog`, the refinement.

The client compares ids where it means values, so the heart of the invariant is what ids say: `ChainOK`, the ids of the log and of
what is processed never decrease along the way, those of what is processed are at most one more than the newest committed, and no
transaction is there twice. `StagesOK` ties the stage of a call to where its transaction is (an unprocessed one nowhere, an
acknowledged one in the log), `FeedOK` the updates to the value shown, in order, `ShownOK` says that what was acknowledged
has an id that the connection shows and that the id set by the callback is never ahead of the value, and `WaitOK` extends
`WaiterKnown` to the calls that are about to check. `ArrivedIsIn` then turns ids back into values: in a chain of
non-decreasing ids what has an id of its own that has arrived is in the value. There is one lemma per conjunct and in it one step per
action. For the refinement `ToldStep` reduces each step of a call to what its caller is told, and `CommitExtends` shows that
a commit appends transactions whose callers wait.

All safety properties that the runs check are proved. Only model-checked: all liveness (fairness and `ENABLED` are beyond the prover).

## 5. Disagreements between code and documentation

| Run | What happens |
|---|---|
| `tx_ids` | Two transactions that are processed before the first is committed get the same id, because the processing loop replaces `:max-tx` by that of the connection (`writer.cljc:63`). `doc/time_variance.md` takes a transaction id to be one transaction's entity. |
| `dangling_head` | After a refused write, the commit that follows publishes a head whose nodes or schema record were never written (`writing.cljc:39`, `:63`), contrary to the comment at `writing.cljc:185`. |
| `lost_write` | One caller, no overlapping calls: it transacts without waiting, releases, connects again and transacts. The first writer commits and acknowledges after the second was made from the older head, and the second overwrites it, against "serializes all transactions" (`doc/distributed.md:43`). |
| `gc_race` | A commit stores its nodes, a collection takes the time, marks the old head, the commit sets the branch key, and the sweep removes its nodes (`gc.cljc:56`); "branch heads are always retained" (`doc/gc.md:16`). |
| `purge_before` | A value is set, changed and set again. Purging the history before the last change removes the current value with the first period (`with-temporal-datom`, `db/transaction.cljc:190`), and a component that is now elsewhere would be purged as a whole; "remove all historical data before a date" (`doc/time_variance.md:279`). |

The models show more without a run of their own. An operation dispatched to a closed queue is dropped and its channel never
resolves (`Dispatch`, `writer.cljc:25`). So is a result that the processing loop puts on the commit queue after a commit error
closed it (`writer.cljc:100`, `:133`): the operation was accepted, and applied to the value in memory, but its callback is lost and
its caller waits for ever (`Dropped`; `AcceptedAnswered` without it fails). After a refused write of a commit record the branch
key may be set all the same: the commit is durable, its caller is told that it failed, and the history has a gap (`torn`). A commit under way when its connection is released resets it to a database
(`Publish`, `writer.cljc:122`). Of the writers of two branches that commit the same new schema one relies on the record that
the other has only announced in the write cache (`ahead` in `odd`, `writing.cljc:63`). And views of the past may differ from
what was the present after the transactions that `Transact` calls odd (`db.cljc:165`). A collection with a date removes the parents
of a record that it keeps; one with an earlier date, such as the default, then follows them and fails on their missing date
(`gc.cljc:32`), though it is "safe to run anytime" (`doc/gc.md:29`): `FailsOnlyAfterDate` without its condition fails as soon as
`MaxGc` is 2. The nodes a branch key points to may still be in the hands of another thread (`Foreign`), against the comment at
`writing.cljc:185`.

A collection takes the dates of records for the order of commits, which they need not be. "Snapshots created after the grace period date are
kept; older ones are deleted" (`doc/gc.md:43`), but the parents of a record dated no later than the date are not followed
(`gc.cljc:32`), and are swept however young they are: so it is behind a head that `load-entities` wrote, which has no `:db/txInstant` and
counts as made when the database was, and behind one whose caller set an earlier `:db/txInstant`. With the order of the commits in `Way` instead of
the dates, `HistoryKept` fails. And a commit with such a date that is made while a
collection runs may leave a commit incomplete that can still be looked up: the commit before it was written during the collection too and is
spared for that, but the node it shares with the old head is not, as nothing leads to the old head any more (`backdated` in
`odd`; without it TLC finds `PointersClosed` violated).

Of transactions: a restart keeps all ids of the run it ends, but not the `:max-eid` that was advanced for them
(`retry-with-tempid`, `db/transaction.cljc:482`). So an id may be given out twice, and two entities become one (`reused`; in the
instance of the run `tempids`, `SameEntity` without that condition fails): with entity 1 named `a`, in
`[[:db/add -1 :friend -2] [:db/add -1 :name "a"] {:age 1} {:age 1}]` the friend, -2, is one with the second new entity. A tempid "will be
replaced by Datahike with the next unused eid" (`api/specification.cljc:184`). For the same reason an upsert to an entity
that the transaction itself creates, or two tempids that are upserts, may be rejected as conflicting though they are not. With
`:attribute-refs?`, `retract-entity` looks the names of reference attributes up as if they were ids
(`db/transaction.cljc:628`), and then retracts the datoms of any attribute whose value is the number of the entity: `RetractsWhole`
fails in the instance of the run `values` as soon as `AttributeRefs` is `TRUE`.

Of the remote writer: transactions that share an id (`tx_ids`) replace each other's waiter, so that one report may be withheld for ever or
returned before its value (the exceptions by `Distinct`; `kabel/writer.cljc:102`). An update that is handled between `Take` and
`Open` is not shown before the next one comes (`kabel/connector.cljc:217`, `:269`). Nor is one that another connection to the same
store, open or released, handles after the cached value was read (`:172`) and before the handshake (`:189`): the handshake names the
new value, and nothing is sent. Both are `Overlooked`, without which `UpdatesShown` fails, though "clients receive database updates
as they happen" (`doc/distributed.md:79`). A reply that arrives after the release registers a
waiter that nobody wakes, and every wait is without a timeout (`kabel/writer.cljc:126`). An update after the release resets
the atom to a database again (`revived`; `kabel/writer.cljc:220`), and a second `connect` replaces the registered
connection, whose writer nobody shuts down then (`kabel/connector.cljc:273`).

## 6. What is left out

Of the writer: the limits of the queues (120 000, where `put!` starts to throw at 1024 waiting puts), the throttling
and the commit wait time, the order in which several callers' listeners are called, `Throwable`s that are not
`Exception`s, the release of the store on `release`, and the in-memory backend, which does not flush. A reconnect in
the process that released is in `Sessions`. A collection is only a background operation in `Writer`; what it does to the
store is in `Versions`.

Of the connections: the comparison of configurations other than that of a released one, several branches and databases
(entries of the registry do not influence each other), a second release by a caller that released the connection before, and failed
commits other than that of a deleted database.

Of the versions: refused writes (`Writer`), several users at once, processes other than the one (remote readers and writers), the
eviction of the write cache, and the keys a sweep removes one by one: the sweep is one step.

Of the remote writer: a lost connection of the peers and their reconnection, which are the transport's (a message that is lost there
leaves the call waiting, as one that is merely late does); the keys of a store other than the branch key, which are
sent before it; several processes as clients, which share nothing but the owner; listeners, the broadcast of reports,
`create-database` and the rest of `delete-database` over the wire. That a tiered store copies its keys to its other tier is
not a step of its own.

Of the transaction engine: lookup refs, tuples, nested and reverse maps, identities that are references, functions, entity specs, schema
changes and datoms as input; the hash; tempids together with operations other than assertions of attributes of cardinality one; databases without history; dates between the instants of transactions with the same
instant. `Transact` has sets of datoms, which the three trees of each index hold in their orders.

Components that are not modelled are listed with the reason in `PROJECT.json`; the pure I/O among them (HTTP, command
line, bindings, serialisation, configuration) will stay so.

## 7. Plan

In this order; each with an MC module, mutants, and theorems where noted.

1. `Tempids` with lookup refs, nested maps and attributes of cardinality many; tuples; schema changes.
2. `Datoms`, `Indices`: comparators and the two indices as algorithms; `Caches`: the two LRU caches; query joins and
   pull as algorithms.
3. Two users of `Versions`; `branch-history`; several clients and lost messages in `Kabel`; `import-db` and norms as
   clients of the writer; an abstract reference-counted resource that `Sessions` implements when undisturbed.
4. Proofs about the modules to come.
