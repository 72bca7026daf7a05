------------------------------- MODULE Sessions -------------------------------
(***************************************************************************)
(* The connections of one process to one branch (datahike.connector and    *)
(* datahike.connections): threads that call connect, release and           *)
(* delete-database, each a series of steps on the registry *connections*   *)
(* and on the atoms it holds, while the writers of the connections they    *)
(* made go on committing.                                                  *)
(*                                                                         *)
(* A writer is what module Writer shows it to be: it appends the requests  *)
(* of its queue to the value it holds, and sets the branch key and then    *)
(* the connection to that value.  It does not know of other writers.       *)
(***************************************************************************)
EXTENDS Integers, FiniteSets, SequencesExt

CONSTANTS
    Caller,   \* the threads that use the database
    Tx,       \* the transactions
    MaxConn,  \* bound: how many connections are made
    MaxCount  \* bound: the count up to which connect counts (it can leak)

ASSUME BoundAssumption == MaxConn \in Nat /\ MaxCount \in Nat

\* A process has finitely many threads.
ASSUME CallerAssumption == IsFiniteSet(Caller)

VARIABLES
    registry,  \* *connections* at this branch: the connection and its count
    conns,     \* the connections made so far, with their writers
    head,      \* the value the branch key points to
    exists,    \* whether the database does
    call,      \* call[p]: the call caller p is in, its next step and what it
               \* has read: the connection it found, the value it loaded
    mine,      \* mine[p]: the connection it holds, 0 for none
    answer,    \* answer[t]: none, waiting, and what the caller was told
    via,       \* history: the connection t was transacted on
    forced,    \* history: a connection was released for all, or the database deleted
    disturbed, \* history: two calls overlapped, or a release met a busy writer
    rivals     \* history: a writer was made while another could still write

callVars == <<call, mine>>
txVars   == <<answer, via>>
histVars == <<forced, disturbed, rivals>>
vars == <<registry, conns, head, exists, callVars, txVars, histVars>>

None == [conn |-> 0, count |-> 0]
Entry(c, n) == [conn |-> c, count |-> n]
Registered == registry # None

\* A mutation of Connection: the writer starts from the empty value.
ConnectionEmpty(v) == [open |-> TRUE, shown |-> v, wopen |-> TRUE, queue |-> <<>>,
                       mem |-> <<>>, landed |-> v, broken |-> FALSE]

\* A connection that shows value v, with a new writer.
Connection(v) == [open |-> TRUE, shown |-> v, wopen |-> TRUE, queue |-> <<>>,
                  mem |-> v, landed |-> v, broken |-> FALSE]

\* The writer of c has something to do.
Busy(c) == \/ conns[c].queue # <<>>
           \/ ~conns[c].broken /\ conns[c].mem # conns[c].shown

-------------------------------------------------------------------------------
(* Calls *)

\* A call before its first step s, which has connection c and will end with n.
NewCall(s, c, n) == [step |-> s, seen |-> c, loaded |-> <<>>, then |-> n]
NoCall == NewCall("idle", 0, "idle")

Idle(p) == call[p] = NoCall

\* Caller p starts a call; calls that overlap are remembered.
Begin(p, c) == /\ Idle(p)
               /\ call' = [call EXCEPT ![p] = c]
               /\ disturbed' = (disturbed \/ \E q \in Caller : ~Idle(q))

At(p, s) == call[p].step = s

Goto(p, s) == call' = [call EXCEPT ![p].step = s]

\* The call ends with connection c in the hands of the caller, or none.
End(p, c) == /\ call' = [call EXCEPT ![p] = NoCall]
             /\ mine' = [mine EXCEPT ![p] = c]

-------------------------------------------------------------------------------
(* connect *)

\* get-connection looks the connection up, ...
Connect(p) ==
    /\ mine[p] = 0
    /\ Begin(p, NewCall(IF Registered THEN "count" ELSE "load", registry.conn, "idle"))
    /\ UNCHANGED <<registry, conns, head, exists, mine, txVars, forced, rivals>>

\* A mutation of Counted: a connection that is shared is not counted.
CountedNot(r) == r

\* The entry with one more reference.
Counted(r) == Entry(r.conn, r.count + 1)

\* ... and counts the reference on whatever entry there is now; without one,
\* (inc nil) throws.
Count(p) ==
    /\ At(p, "count") /\ registry.count < MaxCount
    /\ \/ Registered /\ registry' = Counted(registry) /\ Goto(p, "check") /\ UNCHANGED mine
       \/ ~Registered /\ UNCHANGED registry /\ End(p, 0)
    /\ UNCHANGED <<conns, head, exists, txVars, histVars>>

\* The configuration of the connection is compared: that of a released one is
\* nil, and the exception leaves the reference counted.
Check(p) ==
    /\ At(p, "check")
    /\ End(p, IF conns[call[p].seen].open THEN call[p].seen ELSE 0)
    /\ UNCHANGED <<registry, conns, head, exists, txVars, histVars>>

\* No connection was there: the branch key is read; without a database this
\* throws.
Load(p) ==
    /\ At(p, "load")
    /\ IF exists
       THEN call' = [call EXCEPT ![p].step = "make", ![p].loaded = head] /\ UNCHANGED mine
       ELSE End(p, 0)
    /\ UNCHANGED <<registry, conns, head, exists, txVars, histVars>>

\* A mutation of FirstEntry: off by one.
FirstEntryNext(c) == Entry(c + 1, 1)

\* The maker holds the one reference.
FirstEntry(c) == Entry(c, 1)

\* A connection and its writer are made of what was read, and registered over
\* any other.
Make(p) ==
    /\ At(p, "make") /\ Len(conns) < MaxConn
    /\ LET c == Len(conns) + 1
       IN /\ conns' = Append(conns, Connection(call[p].loaded))
          /\ registry' = FirstEntry(c)
          /\ End(p, c)
    /\ rivals' = \/ rivals \/ head # call[p].loaded
                 \/ \E c \in DOMAIN conns : conns[c].wopen \/ Busy(c)
    /\ UNCHANGED <<head, exists, txVars, forced, disturbed>>

-------------------------------------------------------------------------------
(* delete-connection!, called by release, delete-database and delete-branch! *)

\* get-connection again: looking up ...
DeleteLookup(p) ==
    /\ At(p, "lookup")
    /\ call' = [call EXCEPT ![p].step = IF Registered THEN "inc" ELSE call[p].then,
                            ![p].seen = registry.conn]
    /\ UNCHANGED <<registry, conns, head, exists, mine, txVars, histVars>>

\* ... and counting; an exception ends the call.
DeleteCount(p) ==
    /\ At(p, "inc")
    /\ \/ Registered /\ registry' = Counted(registry) /\ Goto(p, "reset") /\ UNCHANGED mine
       \/ ~Registered /\ UNCHANGED registry /\ End(p, 0)
    /\ UNCHANGED <<conns, head, exists, txVars, histVars>>

\* (reset! conn :released), of the connection that was registered.
DeleteReset(p) ==
    /\ At(p, "reset")
    /\ conns' = [conns EXCEPT ![call[p].seen].open = FALSE]
    /\ disturbed' = (disturbed \/ Busy(call[p].seen))
    /\ Goto(p, "dissoc")
    /\ UNCHANGED <<registry, head, exists, mine, txVars, forced, rivals>>

\* A mutation of DeleteDissoc: the entry stays.
DeleteDissocKept(p) ==
    /\ At(p, "dissoc")
    /\ Goto(p, call[p].then)
    /\ UNCHANGED <<registry, conns, head, exists, mine, txVars, histVars>>

\* The entry is removed, whichever it is now.
DeleteDissoc(p) ==
    /\ At(p, "dissoc")
    /\ registry' = None
    /\ Goto(p, call[p].then)
    /\ UNCHANGED <<conns, head, exists, mine, txVars, histVars>>

-------------------------------------------------------------------------------
(* release *)

\* A connection that is released already is left alone.  (It stays in mine
\* until the call ends.)
Release(p, all) ==
    /\ Idle(p) /\ mine[p] # 0
    /\ IF conns[mine[p]].open
       THEN /\ Begin(p, NewCall(IF all THEN "entryAll" ELSE "entry", 0, "shutdown"))
            /\ UNCHANGED mine
       ELSE End(p, 0) /\ UNCHANGED disturbed
    /\ forced' = (forced \/ all)
    /\ UNCHANGED <<registry, conns, head, exists, txVars, rivals>>

\* Is there an entry?
HasEntry(p) ==
    /\ At(p, "entry") \/ At(p, "entryAll")
    /\ \/ Registered /\ Goto(p, IF At(p, "entry") THEN "dec" ELSE "decAll") /\ UNCHANGED mine
       \/ ~Registered /\ End(p, 0)
    /\ UNCHANGED <<registry, conns, head, exists, txVars, histVars>>

\* A mutation of IsLast: every release is taken for the last.
IsLastAlways(n) == TRUE

\* No reference is left.
IsLast(n) == n = 0

\* Its count is decremented, and at zero the connection deleted; without an
\* entry (dec nil) throws.
Decrement(p) ==
    /\ At(p, "dec") \/ At(p, "decAll")
    /\ registry' = IF Registered THEN Entry(registry.conn, registry.count - 1) ELSE None
    /\ IF Registered /\ (At(p, "decAll") \/ IsLast(registry.count - 1))
       THEN Goto(p, "lookup") /\ UNCHANGED mine
       ELSE End(p, 0)
    /\ UNCHANGED <<conns, head, exists, txVars, histVars>>

\* A mutation of ShutDown: the writer is not shut down.
ShutDownNot(writer) == writer

\* A writer whose queue is closed.
ShutDown(writer) == [writer EXCEPT !.wopen = FALSE]

\* The writer of the connection that was passed in is shut down.
Shutdown(p) ==
    /\ At(p, "shutdown")
    /\ conns' = [conns EXCEPT ![mine[p]] = ShutDown(@)]
    /\ End(p, 0)
    /\ UNCHANGED <<registry, head, exists, txVars, histVars>>

-------------------------------------------------------------------------------
(* delete-database *)

\* The connections found in the registry are deleted, though their writers are
\* not shut down, ...
DeleteDatabase(p) ==
    /\ exists
    /\ Begin(p, NewCall(IF Registered THEN "lookup" ELSE "drop", 0, "drop"))
    /\ forced' = TRUE
    /\ UNCHANGED <<registry, conns, head, exists, mine, txVars, rivals>>

\* ... and then the store.
Drop(p) ==
    /\ At(p, "drop")
    /\ exists' = FALSE
    /\ call' = [call EXCEPT ![p] = NoCall]
    /\ UNCHANGED <<registry, conns, head, mine, txVars, histVars>>

-------------------------------------------------------------------------------
(* Transactions and the writers *)

\* transact! on an open connection.  On a closed queue the request is dropped.
Transact(p, t) ==
    /\ Idle(p) /\ mine[p] # 0 /\ conns[mine[p]].open /\ answer[t] = "none"
    /\ answer' = [answer EXCEPT ![t] = "waiting"]
    /\ via' = [via EXCEPT ![t] = mine[p]]
    /\ conns' = [conns EXCEPT ![mine[p]].queue =
                    IF conns[mine[p]].wopen THEN Append(@, t) ELSE @]
    /\ UNCHANGED <<registry, head, exists, callVars, histVars>>

\* The processing loop: an operation on a released connection throws, and once
\* a commit has failed results are dropped.
Process(c) ==
    /\ conns[c].queue # <<>>
    /\ LET t == Head(conns[c].queue)
       IN /\ conns' = [conns EXCEPT ![c].queue = Tail(@),
                          ![c].mem = IF conns[c].open /\ ~conns[c].broken
                                     THEN Append(@, t) ELSE @]
          /\ answer' = IF conns[c].open THEN answer
                       ELSE [answer EXCEPT ![t] = "failed"]
    /\ UNCHANGED <<registry, head, exists, callVars, via, histVars>>

\* The commit loop: the branch key is set to the value in memory.
Commit(c) ==
    /\ ~conns[c].broken /\ conns[c].landed = conns[c].shown
    /\ conns[c].mem # conns[c].landed
    /\ exists
    /\ head' = conns[c].mem
    /\ conns' = [conns EXCEPT ![c].landed = conns[c].mem]
    /\ UNCHANGED <<registry, exists, callVars, txVars, histVars>>

\* The requests of connection c in value v that still wait.
Waiting(c, v) == {t \in Range(v) : via[t] = c /\ answer[t] = "waiting"}

\* A mutation of Publish: the callers are answered first.
PublishLate(c) ==
    /\ ~conns[c].broken /\ conns[c].landed # conns[c].shown
    /\ IF Waiting(c, conns[c].landed) = {}
       THEN /\ conns' = [conns EXCEPT ![c].shown = conns[c].landed, ![c].open = TRUE]
            /\ UNCHANGED answer
       ELSE /\ answer' = [t \in Tx |-> IF t \in Waiting(c, conns[c].landed)
                                       THEN "ok" ELSE answer[t]]
            /\ UNCHANGED conns
    /\ UNCHANGED <<registry, head, exists, callVars, via, histVars>>

\* The connection is reset to it, and the callers are answered.
Publish(c) ==
    /\ ~conns[c].broken /\ conns[c].landed # conns[c].shown
    /\ conns' = [conns EXCEPT ![c].shown = conns[c].landed, ![c].open = TRUE]
    /\ answer' = [t \in Tx |-> IF t \in Waiting(c, conns[c].landed)
                               THEN "ok" ELSE answer[t]]
    /\ UNCHANGED <<registry, head, exists, callVars, via, histVars>>

\* The store is gone: the commit throws, and the queues are closed.
CommitError(c) ==
    /\ ~conns[c].broken /\ conns[c].landed = conns[c].shown
    /\ conns[c].mem # conns[c].landed
    /\ ~exists
    /\ conns' = [conns EXCEPT ![c].broken = TRUE, ![c].wopen = FALSE]
    /\ answer' = [t \in Tx |-> IF t \in Waiting(c, conns[c].mem)
                               THEN "failed" ELSE answer[t]]
    /\ UNCHANGED <<registry, head, exists, callVars, via, histVars>>

Writer(c) == Process(c) \/ Commit(c) \/ Publish(c) \/ CommitError(c)

-------------------------------------------------------------------------------
(* The specification *)

Init ==
    /\ registry = None /\ conns = <<>>
    /\ head = <<>> /\ exists = TRUE
    /\ call = [p \in Caller |-> NoCall] /\ mine = [p \in Caller |-> 0]
    /\ answer = [t \in Tx |-> "none"] /\ via = [t \in Tx |-> 0]
    /\ forced = FALSE /\ disturbed = FALSE /\ rivals = FALSE

Call(p) == \/ Connect(p) \/ Count(p) \/ Check(p) \/ Load(p) \/ Make(p)
           \/ \E all \in BOOLEAN : Release(p, all)
           \/ HasEntry(p) \/ Decrement(p) \/ Shutdown(p)
           \/ DeleteLookup(p) \/ DeleteCount(p) \/ DeleteReset(p) \/ DeleteDissoc(p)
           \/ DeleteDatabase(p) \/ Drop(p)
           \/ \E t \in Tx : Transact(p, t)

Next == \/ \E p \in Caller : Call(p)
        \/ \E c \in DOMAIN conns : Writer(c)

Spec == Init /\ [][Next]_vars

-------------------------------------------------------------------------------
(* Safety *)

Writers == [open : BOOLEAN, shown : Seq(Tx), wopen : BOOLEAN, queue : Seq(Tx),
            mem : Seq(Tx), landed : Seq(Tx), broken : BOOLEAN]

Calls == [step : {"idle", "count", "check", "load", "make", "entry", "entryAll",
                  "dec", "decAll", "lookup", "inc", "reset", "dissoc", "shutdown",
                  "drop"},
          seen : Nat, loaded : Seq(Tx), then : {"idle", "shutdown", "drop"}]

\* The variables have their types, and a call that goes on with a connection
\* has one.
TypeOK ==
    /\ conns \in Seq(Writers)
    /\ registry.conn \in 0..Len(conns) /\ registry.count \in Int
    /\ head \in Seq(Tx) /\ exists \in BOOLEAN
    /\ call \in [Caller -> Calls] /\ mine \in [Caller -> 0..Len(conns)]
    /\ answer \in [Tx -> {"none", "waiting", "ok", "failed"}]
    /\ via \in [Tx -> 0..Len(conns)]
    /\ \A p \in Caller : /\ call[p].seen \in 0..Len(conns)
                         /\ call[p].step \in {"count", "check", "inc", "reset", "dissoc"}
                              => call[p].seen # 0
                         /\ call[p].step = "shutdown" => mine[p] # 0
    /\ forced \in BOOLEAN /\ disturbed \in BOOLEAN /\ rivals \in BOOLEAN

Quiet == \A p \in Caller : Idle(p)

\* "You need to release a connection as many times as you connected to it for
\* it to be completely released. Set release-all? to true to force its release."
\* (datahike.api/release): when calls do not overlap and releases wait for what
\* was transacted, a connection that is registered is open and counts those who
\* hold it, and all who hold one hold it, unless theirs was released by force.
HeldCounted ==
    ~disturbed /\ Quiet =>
        /\ Registered => /\ conns[registry.conn].open
                         /\ registry.count =
                               Cardinality({p \in Caller : mine[p] = registry.conn})
        /\ \A p \in Caller : mine[p] \notin {0, registry.conn} =>
                               forced /\ ~conns[mine[p]].open

\* Under these conditions there is one writer at a time: a new one is made when
\* no other can write any more, and starts from the newest value.  No writer
\* that takes requests is forgotten: between calls each can be reached through
\* the registry, and so be shut down.
OneWriter ==
    ~disturbed =>
        /\ ~rivals
        /\ Quiet /\ exists => \A c \in DOMAIN conns : conns[c].wopen => registry.conn = c

\* And with one writer at a time, nothing that was acknowledged is lost, over
\* any number of connections.
AckedDurable ==
    ~rivals /\ exists => \A t \in Tx : answer[t] = "ok" => t \in Range(head)

\* Whatever overlaps: the registry never keeps a released connection, which
\* every later connect would run into, but for the caller about to remove it.
RegisteredOpen ==
    Registered /\ ~conns[registry.conn].open =>
        \E p \in Caller : At(p, "dissoc") /\ call[p].seen = registry.conn

\* Whatever overlaps: a caller finds what it was told is done in its connection.
ReadYourWrites ==
    \A t \in Tx : answer[t] = "ok" => t \in Range(conns[via[t]].shown)

-------------------------------------------------------------------------------
(* A statement of the documentation that the code does not keep *)

\* "Serializes all transactions for strong consistency guarantees"
\* (doc/distributed.md): what was acknowledged stays in the database as long as
\* there is one.
AlwaysDurable == exists => \A t \in Tx : answer[t] = "ok" => t \in Range(head)
===============================================================================
