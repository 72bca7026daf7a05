-------------------------------- MODULE Writer --------------------------------
(***************************************************************************)
(* The local writer of a Datahike connection (datahike.writer) and the     *)
(* commit it performs (datahike.writing), for one branch of one database.  *)
(*                                                                         *)
(* Callers put operations on the transaction queue.  The processing loop   *)
(* takes them one at a time, applies each to the database value it holds   *)
(* in memory, and puts the result on the commit queue.  The commit loop    *)
(* takes all the results that are waiting, writes the newest of them to    *)
(* the store, resets the connection to it and answers all their callers.   *)
(*                                                                         *)
(* A database value is abstracted to the sequence of transactions it is    *)
(* the result of, and to its :max-tx.  The index nodes that transaction t  *)
(* built first are one key <<"leaf", t>> of the store, shared by every     *)
(* later value as the persistent trees share their nodes; the schema       *)
(* record of a value is the content-addressed key <<"schema", S>>, S being *)
(* the schema-changing transactions in it.                                 *)
(***************************************************************************)
EXTENDS Integers, FiniteSets, SequencesExt

CONSTANTS
    Tx,         \* the requests: transact!, load-entities, gc-storage!
    SchemaTx,   \* those that change the schema
    AsyncTx,    \* those whose operation returns a channel (gc-storage!)
    MaxCrash,   \* bound: how often the process dies
    MaxFail,    \* bound: how many writes the store refuses
    MayRelease  \* whether the owner of the connection may release it

ASSUME TxAssumption == SchemaTx \subseteq Tx /\ AsyncTx \subseteq Tx
ASSUME BoundAssumption == /\ MaxCrash \in Nat /\ MaxFail \in Nat
                          /\ MayRelease \in BOOLEAN

VARIABLES
    answer,     \* answer[t]: how far request t is and what its caller was told
    sent,       \* history: the requests in the order the queue accepted them
    txid,       \* history: the :db/current-tx given to t, 0 before that
    txq,        \* transaction-queue, its buffer
    txOpen,     \* whether it is open
    proc,       \* processing loop: "run", "put" (holds a result), "stopped"
    old,        \* the database value the processing loop recurs with
    bg,         \* the requests running in the background
    cmq,        \* commit-queue, its buffer: the db-after values
    cmOpen,     \* whether it is open
    cpc,        \* commit loop: where it is (Phases)
    batch,      \* txs: the results the commit loop took together
    kvs,        \* pending-kvs: the keys of the nodes the commit has to write
    com,        \* the commits attempted so far: what db->stored produced
    addressed,  \* the transactions whose nodes have been given an address
    wcache,     \* the schema write cache of this store: schema keys
    multi,      \* whether the store writes several keys atomically
    store,      \* the keys the store holds
    head,       \* the number of the commit the branch key points to
    inflight,   \* the writes that were issued and are not finished
    refused,    \* the writes that failed
    torn,       \* history: the commits whose write was lost apart from the
                \* one of the branch key
    status,     \* wrapped-atom: "down" (no process), "open", "released"
    conn,       \* the commit whose value the connection holds
    registered, \* whether the connection is in *connections*
    crashes, failures

clientVars == <<answer, sent>>
procVars   == <<txid, txq, txOpen, proc, old, bg>>
commitVars == <<cmq, cmOpen, cpc, batch, kvs, com, addressed, wcache>>
storeVars  == <<multi, store, head, inflight, refused, torn>>
connVars   == <<status, conn, registered>>
boundVars  == <<crashes, failures>>
vars == <<clientVars, procVars, commitVars, storeVars, connVars, boundVars>>

-------------------------------------------------------------------------------
(* Database values, keys and writes *)

Phases == {"take", "flush", "schema", "nodes", "roots", "answer", "error", "stopped"}

Answers == {"none", "called", "waiting", "ok", "rejected", "failed", "lost", "done"}

Commit == [txs : Seq(Tx), maxTx : Nat, parent : Nat]
Db == [txs : Seq(Tx), maxTx : Nat]
EmptyDb == [txs |-> <<>>, maxTx |-> 0]

\* The request a result belongs to: the last one applied.
Owner(db) == Last(db.txs)

Leaf(t) == <<"leaf", t>>
SchemaKey(db) == <<"schema", Range(db.txs) \cap SchemaTx>>
CommitKey(n) == <<"commit", n>>
Branch == <<"branch">>

\* The nodes a value points to.
Leaves(db) == {Leaf(t) : t \in Range(db.txs)}

\* One call of the store, made for commit n.
Write(n, keys) == [n |-> n, keys |-> keys]

\* The commit the commit loop is busy with, and its writes.
This == Len(com)
Unfinished == {w \in inflight : w.n = This}
Failed     == {w \in refused : w.n = This}

-------------------------------------------------------------------------------
(* The callers and the transaction queue *)

\* transact!, load-entities or gc-storage! is called on an open connection: it
\* reads the connection's writer, and a go block will dispatch to it.
Call(t) ==
    /\ status = "open" /\ answer[t] = "none"
    /\ answer' = [answer EXCEPT ![t] = "called"]
    /\ UNCHANGED <<sent, procVars, commitVars, storeVars, connVars, boundVars>>

\* A mutation of Accepted: the queue serves the newest request first.
AcceptedFirst(q, t) == <<t>> \o q

\* The buffer of the transaction queue after put!.
Accepted(q, t) == Append(q, t)

\* -dispatch!: put! on a closed queue is false and drops the operation, which
\* nobody looks at: the promise channel is returned all the same.
Dispatch(t) ==
    /\ answer[t] = "called"
    /\ answer' = [answer EXCEPT ![t] = "waiting"]
    /\ IF txOpen
       THEN txq' = Accepted(txq, t) /\ sent' = Append(sent, t)
       ELSE UNCHANGED <<txq, sent>>
    /\ UNCHANGED <<txid, txOpen, proc, old, bg>>
    /\ UNCHANGED <<commitVars, storeVars, connVars, boundVars>>

-------------------------------------------------------------------------------
(* The processing loop *)

\* A mutation of Base: the value of the connection, not the one in memory.
BaseOfConnection(o) == [txs |-> com[conn].txs, maxTx |-> com[conn].maxTx]

\* The value the operation is applied to: the one in memory, with the :max-tx
\* of the connection.
Base(o) == [o EXCEPT !.maxTx = com[conn].maxTx]

\* The loop runs with an operation at the head of its queue.
Processing == proc = "run" /\ txq # <<>>

\* The operation returned a report: the loop recurs with its :db-after, which
\* it puts on the commit queue next.
TransactOk ==
    /\ Processing /\ status = "open" /\ Head(txq) \notin AsyncTx
    /\ LET t == Head(txq)
           id == Base(old).maxTx + 1
       IN /\ old' = [txs |-> Append(Base(old).txs, t), maxTx |-> id]
          /\ txid' = [txid EXCEPT ![t] = id]
    /\ txq' = Tail(txq)
    /\ proc' = "put"
    /\ UNCHANGED <<txOpen, bg>>
    /\ UNCHANGED <<clientVars, commitVars, storeVars, connVars, boundVars>>

\* A mutation of AfterError: the loop keeps what the failed operation built.
AfterErrorKept(o, t) == [o EXCEPT !.txs = Append(@, t)]

\* The value the loop recurs with after an exception: the one it had.  (Its
\* :max-tx was replaced, and is again before it is next used.)
AfterError(o, t) == o

\* The operation threw: on invalid input, or because the connection has been
\* released and its :max-tx is nil.
TransactError ==
    /\ Processing /\ Head(txq) \notin AsyncTx
    /\ LET t == Head(txq)
       IN /\ answer' = [answer EXCEPT ![t] = "rejected"]
          /\ old' = AfterError(old, t)
    /\ txq' = Tail(txq)
    /\ UNCHANGED <<sent, txid, txOpen, proc, bg>>
    /\ UNCHANGED <<commitVars, storeVars, connVars, boundVars>>

\* The operation returned a channel: a go block will pass its result on.
StartBackground ==
    /\ Processing /\ Head(txq) \in AsyncTx
    /\ bg' = bg \cup {Head(txq)}
    /\ txq' = Tail(txq)
    /\ UNCHANGED <<txid, txOpen, proc, old>>
    /\ UNCHANGED <<clientVars, commitVars, storeVars, connVars, boundVars>>

\* The background operation has a result: (>! callback (<! res)).
FinishBackground(t) ==
    /\ t \in bg
    /\ bg' = bg \ {t}
    /\ answer' = [answer EXCEPT ![t] = "done"]
    /\ UNCHANGED <<sent, txid, txq, txOpen, proc, old>>
    /\ UNCHANGED <<commitVars, storeVars, connVars, boundVars>>

\* put! on the commit queue; once that is closed the result and its callback
\* are dropped.
Enqueue ==
    /\ proc = "put"
    /\ cmq' = IF cmOpen THEN Append(cmq, old) ELSE cmq
    /\ proc' = "run"
    /\ UNCHANGED <<txid, txq, txOpen, old, bg>>
    /\ UNCHANGED <<cmOpen, cpc, batch, kvs, com, addressed, wcache>>
    /\ UNCHANGED <<clientVars, storeVars, connVars, boundVars>>

\* A mutation of StopProcessing: the commit queue stays open.
StopProcessingOnly ==
    /\ proc = "run" /\ txq = <<>> /\ ~txOpen
    /\ proc' = "stopped"
    /\ UNCHANGED <<txid, txq, txOpen, old, bg>>
    /\ UNCHANGED <<clientVars, commitVars, storeVars, connVars, boundVars>>

\* A closed and drained transaction queue ends the loop.
StopProcessing ==
    /\ proc = "run" /\ txq = <<>> /\ ~txOpen
    /\ proc' = "stopped"
    /\ cmOpen' = FALSE
    /\ UNCHANGED <<txid, txq, txOpen, old, bg>>
    /\ UNCHANGED <<cmq, cpc, batch, kvs, com, addressed, wcache>>
    /\ UNCHANGED <<clientVars, storeVars, connVars, boundVars>>

-------------------------------------------------------------------------------
(* The commit loop *)

\* Take all the results that are waiting.
Take ==
    /\ cpc = "take" /\ cmq # <<>>
    /\ batch' = cmq /\ cmq' = <<>>
    /\ cpc' = "flush"
    /\ UNCHANGED <<cmOpen, kvs, com, addressed, wcache>>
    /\ UNCHANGED <<clientVars, procVars, storeVars, connVars, boundVars>>

\* A closed and drained commit queue ends the loop; a commit error does not.
StopCommitting ==
    /\ cpc = "take" /\ cmq = <<>> /\ ~cmOpen
    /\ cpc' = "stopped"
    /\ UNCHANGED <<cmq, cmOpen, batch, kvs, com, addressed, wcache>>
    /\ UNCHANGED <<clientVars, procVars, storeVars, connVars, boundVars>>

\* A mutation of ToCommit: the oldest of the results.
ToCommitFirst(txs) == Head(txs)

\* Of the results taken together the newest is committed: it holds the others.
ToCommit(txs) == Last(txs)

\* A mutation of NodesToWrite: nodes that already have an address are only
\* skipped when the schema is unchanged.
NodesToWriteMissed(db) == {Leaf(t) : t \in (Range(db.txs) \ addressed) \ SchemaTx}

\* di/-flush adds the nodes that have no address yet to the pending writes,
\* and gives them one.
NodesToWrite(db) == {Leaf(t) : t \in Range(db.txs) \ addressed}

\* The schema record is written unless the write cache says that it was.
SchemaToWrite(db) == {SchemaKey(db)} \ wcache

\* A mutation of AtomicWrite: the commit is left out of the multi-key write.
AtomicWriteNoCommit(n, keys) == {Write(n, keys \cup {Branch})}

\* A store that can writes everything in one step ...
AtomicWrite(n, keys) == {Write(n, keys \cup {CommitKey(n), Branch})}

\* ... and another the nodes, each with a call of its own, ...
NodeWrites(n, keys) == {Write(n, {k}) : k \in keys}

\* ... then the commit and the branch, both started before either is awaited.
RootWrites(n) == {Write(n, {CommitKey(n)}), Write(n, {Branch})}

\* commit! up to its first wait: parents are the commit the branch key points
\* to (reading that key waits for the writes that hold its lock), the indices
\* are flushed and the first writes start.
Flush ==
    /\ cpc = "flush"
    /\ \A w \in inflight : Branch \notin w.keys
    /\ LET db == ToCommit(batch)
           n == Len(com) + 1
           nodes == NodesToWrite(db)
           schema == SchemaToWrite(db)
       IN /\ com' = Append(com, [txs |-> db.txs, maxTx |-> db.maxTx, parent |-> head])
          /\ addressed' = addressed \cup Range(db.txs)
          /\ wcache' = wcache \cup {SchemaKey(db)}
          /\ kvs' = nodes
          /\ \/ /\ multi
                /\ inflight' = inflight \cup AtomicWrite(n, schema \cup nodes)
                /\ cpc' = "roots"
             \/ /\ ~multi /\ schema # {}
                /\ inflight' = inflight \cup {Write(n, schema)}
                /\ cpc' = "schema"
             \/ /\ ~multi /\ schema = {}
                /\ inflight' = inflight \cup NodeWrites(n, nodes)
                /\ cpc' = "nodes"
    /\ UNCHANGED <<cmq, cmOpen, batch, multi, store, head, refused, torn>>
    /\ UNCHANGED <<clientVars, procVars, connVars, boundVars>>

\* The writes of this commit that were started have all succeeded.
Awaited == Unfinished = {} /\ Failed = {}

\* The schema record is in the store: write the nodes.
SchemaWritten ==
    /\ cpc = "schema" /\ Awaited
    /\ inflight' = inflight \cup NodeWrites(This, kvs)
    /\ cpc' = "nodes"
    /\ UNCHANGED <<cmq, cmOpen, batch, kvs, com, addressed, wcache>>
    /\ UNCHANGED <<multi, store, head, refused, torn>>
    /\ UNCHANGED <<clientVars, procVars, connVars, boundVars>>

\* All pointed-to values are in the store: write the commit and the branch.
NodesWritten ==
    /\ cpc = "nodes" /\ Awaited
    /\ inflight' = inflight \cup RootWrites(This)
    /\ cpc' = "roots"
    /\ UNCHANGED <<cmq, cmOpen, batch, kvs, com, addressed, wcache>>
    /\ UNCHANGED <<multi, store, head, refused, torn>>
    /\ UNCHANGED <<clientVars, procVars, connVars, boundVars>>

\* A mutation of Publish: the connection is not reset.
PublishStale ==
    /\ cpc = "roots" /\ Awaited
    /\ cpc' = "answer"
    /\ UNCHANGED <<cmq, cmOpen, batch, kvs, com, addressed, wcache>>
    /\ UNCHANGED <<clientVars, procVars, storeVars, connVars, boundVars>>

\* commit! returned: (reset! connection commit-db), whatever is in there.
Publish ==
    /\ cpc = "roots" /\ Awaited
    /\ conn' = This /\ status' = "open"
    /\ cpc' = "answer"
    /\ UNCHANGED <<registered, cmq, cmOpen, batch, kvs, com, addressed, wcache>>
    /\ UNCHANGED <<clientVars, procVars, storeVars, boundVars>>

\* The callbacks of the batch are called one after the other.
AnswerNext(said) ==
    /\ batch # <<>>
    /\ answer' = [answer EXCEPT ![Owner(Head(batch))] = said]
    /\ batch' = Tail(batch)
    /\ UNCHANGED <<sent, procVars, storeVars, connVars, boundVars>>
    /\ UNCHANGED <<cmq, cmOpen, kvs, com, addressed, wcache>>

\* A mutation of Confirm: the loop does not recur.
ConfirmStuck == cpc = "answer" /\ AnswerNext("ok") /\ UNCHANGED cpc

\* A mutation of Confirm: only the first callback of the batch is called.
ConfirmOne == cpc = "answer" /\ AnswerNext("ok") /\ cpc' = "take"

\* The report of a transaction goes to its caller; after the last the loop
\* recurs.
Confirm ==
    /\ cpc = "answer"
    /\ AnswerNext("ok")
    /\ cpc' = IF Len(batch) = 1 THEN "take" ELSE "answer"

\* Waiting for the writes of a phase meets one that failed.  The write of the
\* branch is only looked at once that of the commit has succeeded.
CommitError ==
    /\ cpc \in {"schema", "nodes", "roots"}
    /\ \E w \in Failed :
          w.keys = {Branch} => \A v \in Unfinished : CommitKey(This) \notin v.keys
    /\ cpc' = "error"
    /\ UNCHANGED <<cmq, cmOpen, batch, kvs, com, addressed, wcache>>
    /\ UNCHANGED <<clientVars, procVars, storeVars, connVars, boundVars>>

\* The exception goes to every caller of the batch.
ReportError == cpc = "error" /\ AnswerNext("failed") /\ UNCHANGED cpc

\* Both queues are closed, and the loop recurs: what the commit queue holds is
\* still taken and committed.
CloseQueues ==
    /\ cpc = "error" /\ batch = <<>>
    /\ cmOpen' = FALSE /\ txOpen' = FALSE
    /\ cpc' = "take"
    /\ UNCHANGED <<cmq, batch, kvs, com, addressed, wcache>>
    /\ UNCHANGED <<txid, txq, proc, old, bg>>
    /\ UNCHANGED <<clientVars, storeVars, connVars, boundVars>>

-------------------------------------------------------------------------------
(* The store: a key-value store with a lock per key, which serves the writes *)
(* of the branch key in the order they were started, the others in any.      *)

\* A write takes effect.
Land(w) ==
    /\ w \in inflight
    /\ Branch \in w.keys =>
          \A v \in inflight : Branch \in v.keys => w.n <= v.n
    /\ inflight' = inflight \ {w}
    /\ store' = store \cup w.keys
    /\ head' = IF Branch \in w.keys THEN w.n ELSE head
    /\ UNCHANGED <<multi, refused, torn>>
    /\ UNCHANGED <<clientVars, procVars, commitVars, connVars, boundVars>>

\* The commits whose key is written by one of the writes, and not together with
\* the branch key.
LostCommits(writes) == {w.n : w \in {v \in writes : v.keys = {CommitKey(v.n)}}}

\* A write fails and has no effect.
Refuse(w) ==
    /\ failures < MaxFail
    /\ w \in inflight
    /\ inflight' = inflight \ {w}
    /\ refused' = refused \cup {w}
    /\ torn' = torn \cup LostCommits({w})
    /\ failures' = failures + 1
    /\ UNCHANGED <<multi, store, head, crashes>>
    /\ UNCHANGED <<clientVars, procVars, commitVars, connVars>>

-------------------------------------------------------------------------------
(* The connection and its process *)

\* release, of the last reference: the atom is set to :released, the writer's
\* transaction queue is closed, and its thread is not waited for.
Release ==
    /\ MayRelease /\ status = "open" /\ registered
    /\ status' = "released" /\ registered' = FALSE
    /\ txOpen' = FALSE
    /\ UNCHANGED <<conn, txid, txq, proc, old, bg>>
    /\ UNCHANGED <<clientVars, commitVars, storeVars, boundVars>>

\* The process dies, and with it the queues, the writes that were not
\* finished, the caches and the callers.
Crash ==
    /\ crashes < MaxCrash /\ status # "down"
    /\ crashes' = crashes + 1
    /\ status' = "down" /\ registered' = FALSE /\ UNCHANGED conn
    /\ answer' = [t \in Tx |-> IF answer[t] \in {"called", "waiting"}
                               THEN "lost" ELSE answer[t]]
    /\ txq' = <<>> /\ txOpen' = FALSE
    /\ proc' = "stopped" /\ old' = EmptyDb /\ bg' = {}
    /\ cmq' = <<>> /\ cmOpen' = FALSE
    /\ cpc' = "stopped" /\ batch' = <<>> /\ kvs' = {}
    /\ addressed' = {} /\ wcache' = {}
    /\ inflight' = {} /\ refused' = {}
    /\ torn' = torn \cup LostCommits(inflight)
    /\ UNCHANGED <<sent, txid, com, multi, store, head, failures>>

\* A mutation of Loaded: the newest commit that was tried, finished or not.
LoadedNewest == Len(com)

\* The commit a connection is opened at.
Loaded == head

\* connect: the branch key is read, and a writer created for what it holds.
Connect ==
    /\ status = "down"
    /\ status' = "open" /\ conn' = Loaded /\ registered' = TRUE
    /\ txOpen' = TRUE /\ cmOpen' = TRUE
    /\ proc' = "run" /\ cpc' = "take"
    /\ old' = [txs |-> com[Loaded].txs, maxTx |-> com[Loaded].maxTx]
    /\ addressed' = Range(com[Loaded].txs)
    /\ UNCHANGED <<txid, txq, bg, cmq, batch, kvs, com, wcache>>
    /\ UNCHANGED <<clientVars, storeVars, boundVars>>

-------------------------------------------------------------------------------
(* The specification *)

\* -create-database* has written the schema record of an empty database, its
\* commit and the branch key; nobody is connected.
Init ==
    /\ answer = [t \in Tx |-> "none"] /\ sent = <<>>
    /\ txid = [t \in Tx |-> 0]
    /\ txq = <<>> /\ txOpen = FALSE
    /\ proc = "stopped" /\ old = EmptyDb /\ bg = {}
    /\ cmq = <<>> /\ cmOpen = FALSE
    /\ cpc = "stopped" /\ batch = <<>> /\ kvs = {}
    /\ com = <<[txs |-> <<>>, maxTx |-> 0, parent |-> 0]>>
    /\ addressed = {} /\ wcache = {}
    /\ multi \in BOOLEAN
    /\ store = {SchemaKey(EmptyDb), CommitKey(1), Branch} /\ head = 1
    /\ inflight = {} /\ refused = {} /\ torn = {}
    /\ status = "down" /\ conn = 1 /\ registered = FALSE
    /\ crashes = 0 /\ failures = 0

ProcessingLoop == TransactOk \/ TransactError \/ StartBackground \/ Enqueue
                  \/ StopProcessing

CommitLoop == Take \/ StopCommitting \/ Flush \/ SchemaWritten \/ NodesWritten
              \/ Publish \/ Confirm \/ CommitError \/ ReportError \/ CloseQueues

Next == \/ \E t \in Tx : Call(t) \/ Dispatch(t) \/ FinishBackground(t)
        \/ ProcessingLoop
        \/ CommitLoop
        \/ \E w \in inflight : Land(w) \/ Refuse(w)
        \/ Release
        \/ Crash
        \/ Connect

Spec == Init /\ [][Next]_vars

-------------------------------------------------------------------------------
(* Safety *)

Keys == {Leaf(t) : t \in Tx} \cup {<<"schema", S>> : S \in SUBSET SchemaTx}
        \cup {CommitKey(n) : n \in 1..Len(com)} \cup {Branch}

Writes == [n : 1..Len(com), keys : SUBSET Keys]

\* The transactions of the value the branch key points to.
Log == com[head].txs

TypeClient == /\ answer \in [Tx -> Answers]
              /\ sent \in Seq(Tx)

TypeProc == /\ txid \in [Tx -> Nat]
            /\ txq \in Seq(Tx) /\ txOpen \in BOOLEAN
            /\ proc \in {"run", "put", "stopped"}
            /\ old \in Db
            /\ proc = "put" => old.txs # <<>>
            /\ bg \subseteq AsyncTx

TypeCommit == /\ cmq \in Seq(Db) /\ cmOpen \in BOOLEAN
              /\ cpc \in Phases
              /\ batch \in Seq(Db)
              /\ \A i \in DOMAIN cmq : cmq[i].txs # <<>>
              /\ \A i \in DOMAIN batch : batch[i].txs # <<>>
              /\ cpc \in {"flush", "schema", "nodes", "roots", "answer"} => batch # <<>>
              /\ com \in Seq(Commit) /\ com # <<>>
              /\ addressed \subseteq Tx
              /\ kvs \subseteq {Leaf(t) : t \in Tx} /\ wcache \subseteq Keys

TypeStore == /\ multi \in BOOLEAN
             /\ store \subseteq Keys
             /\ head \in 1..Len(com)
             /\ inflight \subseteq Writes /\ refused \subseteq Writes
             /\ torn \subseteq 1..Len(com)

TypeConn == /\ status \in {"down", "open", "released"}
            /\ conn \in 1..Len(com)
            /\ registered \in BOOLEAN

\* The variables have the types the code gives them; the values the loops pass
\* on hold at least one transaction, and a commit in progress has callers.
TypeOK == /\ TypeClient /\ TypeProc /\ TypeCommit /\ TypeStore /\ TypeConn
          /\ crashes \in Nat /\ failures \in Nat

\* Durability: a transaction whose caller was given a report is in the value
\* the branch key points to, through every later commit, commit error, release
\* and crash (commit! before put! callback in the commit loop).
AckedDurable == \A t \in Tx : answer[t] = "ok" => t \in Range(Log)

\* One writer, one order: durable transactions are in the log once each, in
\* the order in which the transaction queue accepted them, so a transaction
\* answered before another was dispatched comes first.
CommitOrder ==
    \A i, j \in DOMAIN Log : i < j =>
        \E k, l \in DOMAIN sent : k < l /\ sent[k] = Log[i] /\ sent[l] = Log[j]

\* The nodes and the schema record of the value under the branch key are in the
\* store (write-pending-kvs! before the branch key).
HeadClosed ==
    failures = 0 => /\ Leaves(com[head]) \subseteq store
                    /\ SchemaKey(com[head]) \in store

\* The same for every commit in the store, which branch-as-db, commit-as-db
\* and the garbage collector follow.
CommitsClosed ==
    failures = 0 => \A n \in 1..Len(com) : CommitKey(n) \in store =>
                        /\ Leaves(com[n]) \subseteq store
                        /\ SchemaKey(com[n]) \in store

\* What is written points only to what is in the store already: true of the
\* head and of all commits at every moment, and hence after every crash, as
\* long as the store refuses no write.
PointersClosed == HeadClosed /\ CommitsClosed

\* The parent of every commit that was tried is in the store, so that the history
\* can be walked, through crashes and refused writes of any kind but one: in a
\* store without multi-key writes the write of the parent itself may have been
\* refused or cut off by a crash while its branch key was written.
HistoryClosed ==
    \A n \in 2..Len(com) : \/ CommitKey(com[n].parent) \in store
                           \/ ~multi /\ com[n].parent \in torn

\* A connection never shows what a crash could take back: its value is a
\* prefix of the durable one.
ConnDurable == status # "down" => IsPrefix(com[conn].txs, Log)

\* Read your writes: who has been given a report finds the transaction in the
\* value of the connection (reset! before put! callback).
ReadYourWrites ==
    status = "open" =>
        \A t \in Tx : answer[t] = "ok" => t \in Range(com[conn].txs)

\* The commits the branch key points to or will be set to by a write that was
\* started.
Roots == {head} \cup {w.n : w \in {v \in inflight : Branch \in v.keys}}

\* Value v holds all that u holds.
Below(u, v) == IsPrefix(u.txs, v.txs)

RootsOrdered == \A q, r \in Roots : head <= r /\ (q <= r => Below(com[q], com[r]))

MemoryNewest == status # "down" => \A r \in Roots : Below(com[r], old)

QueueOrdered == \A i \in DOMAIN cmq :
                   /\ Below(cmq[i], old)
                   /\ \A j \in DOMAIN cmq : i <= j => Below(cmq[i], cmq[j])
                   /\ \A r \in Roots : Below(com[r], cmq[i])

BatchOrdered == cpc = "flush" => \A i \in DOMAIN batch :
                   /\ Below(batch[i], old)
                   /\ \A j \in DOMAIN batch : i <= j => Below(batch[i], batch[j])
                   /\ \A j \in DOMAIN cmq : Below(batch[i], cmq[j])
                   /\ \A r \in Roots : Below(com[r], batch[i])

ProgressOrdered == cpc \in {"schema", "nodes"} =>
                   /\ Below(com[This], old)
                   /\ \A j \in DOMAIN cmq : Below(com[This], cmq[j])
                   /\ \A r \in Roots : Below(com[r], com[This])

BatchCommitted == cpc \in {"schema", "nodes", "roots", "answer"} =>
                   \A i \in DOMAIN batch : Below(batch[i], com[This])

\* The order in the pipeline, on which all of the above rests: durable value,
\* branch writes under way, commit in progress, results taken, results waiting
\* and value in memory each hold all that the ones before them hold, whichever
\* commits fail and whenever the connection is released.
PipelineOrdered == /\ RootsOrdered /\ MemoryNewest /\ QueueOrdered
                   /\ BatchOrdered /\ ProgressOrdered /\ BatchCommitted

\* The writer implements the log that its callers were promised.
DL == INSTANCE DurableLog WITH log <- Log

ImplementsDurableLog == DL!DLSpec

-------------------------------------------------------------------------------
(* Liveness *)

\* The go blocks of the writer run whenever they can, and the store finishes
\* every write it was given.
Fairness == /\ WF_vars(ProcessingLoop)
            /\ WF_vars(CommitLoop)
            /\ \A t \in Tx : WF_vars(FinishBackground(t)) /\ WF_vars(Dispatch(t))
            /\ WF_vars(\E w \in inflight : Land(w))

FairSpec == Spec /\ Fairness

Answered(t) == answer[t] \notin {"none", "called", "waiting"}

\* The result of t is about to be put on a commit queue that is closed: the put!
\* does nothing, and its callback is lost.
Dropped(t) == proc = "put" /\ ~cmOpen /\ Owner(old) = t

\* An operation the transaction queue has accepted is answered, also when the
\* connection is released before it is processed (the queue drains), and also
\* after a commit error, unless that error closed the commit queue before the
\* processing loop had put the result there (writer.cljc:100, :133).
AcceptedAnswered == \A t \in Tx : t \in Range(txq) ~> Answered(t) \/ Dropped(t)

\* A writer that was shut down finishes: both loops end, and nothing they had
\* accepted is left behind.
ShutdownFinishes ==
    ~txOpen ~> /\ txOpen \/ (proc = "stopped" /\ cpc = "stopped")
               /\ txq = <<>> /\ cmq = <<>> /\ bg = {}

\* What has become durable becomes visible in the connection, unless the branch
\* key was written and the commit key was not: then the exception leaves the
\* connection where it was.
DurableShown ==
    \A n \in 1..Cardinality(Tx)+1 :
        (status = "open" /\ head = n) ~> (conn >= n \/ status = "down" \/ n \in torn)

-------------------------------------------------------------------------------
(* Statements of the documentation that the code does not keep *)

\* "Each transaction records :db/txInstant" and is an entity one can join over
\* (doc/time_variance.md): no two durable transactions have the same id.
TxIdsUnique == \A i, j \in DOMAIN Log : txid[Log[i]] = txid[Log[j]] => i = j

\* "Make sure all pointed to values are written before the commit log and
\* branch" (commit!), also when an earlier commit failed.
HeadAlwaysClosed == /\ Leaves(com[head]) \subseteq store
                    /\ SchemaKey(com[head]) \in store
===============================================================================
