--------------------------------- MODULE Kabel ---------------------------------
(***************************************************************************)
(* A database that is written through a remote peer (datahike.kabel).  The *)
(* peer that owns it runs a local writer and publishes every new head; the *)
(* clients hold a copy of the store that these updates bring up to date.   *)
(* A transaction is a remote call, whose report is held back by the        *)
(* KabelWriter until the update with its transaction has arrived.          *)
(*                                                                         *)
(* A value of the database is the number of the transactions of the log    *)
(* that it holds.  The local writer of the owner is reduced to what Writer *)
(* shows of it: it appends to one log, several transactions at a time, and *)
(* gives all that it processes between two commits the same :max-tx.       *)
(* Replies arrive in any order, and in any order with updates; the updates *)
(* of one subscription arrive in order.                                    *)
(***************************************************************************)
EXTENDS Integers, FiniteSets, SequencesExt

CONSTANTS
    Tx,       \* the transactions
    Conn,     \* the connections that the client process makes
    NoConn    \* no connection

ASSUME ConnAssumption == NoConn \notin Conn

VARIABLES
    \* the owner
    log,        \* the committed transactions, whose value is the branch key
    mem,        \* those that its writer has processed and not yet committed
    id,         \* id[t]: the :max-tx of t's :db-after, 0 before there is one
    hosted,     \* whether store-registry holds the connection of the store
    synced,     \* whether updates of the store are published
    \* the calls
    call,       \* call[t]: how far the call is, and what its caller was told
    via,        \* via[t]: the connection that it was made with; NoConn for a
                \* caller of the owner, who does not use Kabel
    signal,     \* what was put on wait-ch of t
    \* the client
    tiered,     \* whether its store outlives the connection, or is in memory
    local,      \* the value under the branch key in that store
    feed,       \* feed[c]: the updates sent to the subscription and not handled
    offered,    \* offered[c]: the value in that store that the handshake named
    phase,      \* phase[c]: how far connect-kabel is, and the wrapped atom
    stored,     \* stored-db-atom
    shown,      \* the value the connection is made from, then the one it shows
    notify,     \* how far on-db-sync! is, and with which value
    current,    \* current-max-tx of the KabelWriter
    pending,    \* pending-txs: the calls whose waiter it holds
    registered, \* the connection in *connections*, whose count is 1
    held        \* the connections that were returned and not released by the caller

ownerVars == <<log, mem, id, hosted, synced>>
callVars  == <<call, via, signal>>
storeVars == <<tiered, local, feed, offered>>
connVars  == <<phase, stored, shown, notify, registered, held>>
writerVars == <<current, pending>>
vars == <<ownerVars, callVars, storeVars, connVars, writerVars>>

-------------------------------------------------------------------------------
(* Calls, values and their ids *)

\* The atom of connection c was reset by a release, and has no store any more.
Gone(c) == phase[c] \in {"released", "revived"}

\* A call is "sent", in the "server"'s writer, answered with an "error" or a
\* "report" that is on its way, registered and about to "check" what has been
\* synchronised, "parked" on wait-ch, or its caller was told the outcome.
Outcomes == {"ok", "rejected", "failed"}
Stages == {"none", "sent", "server", "error", "report", "check", "parked"} \cup Outcomes

\* The calls that a client made.
Remote == {t \in Tx : via[t] # NoConn}

NoValue == -1

\* The :max-tx of a value; that of the empty database is 0.
MaxTx(v) == IF v = 0 THEN 0 ELSE id[log[v]]

Newest == Len(log)

\* Transaction t is in value v.
In(t, v) == \E i \in 1..v : log[i] = t

\* No other transaction has the id of t.
Distinct(t) == \A u \in Tx \ {t} : id[u] # id[t]

-------------------------------------------------------------------------------
(* The owner of the database *)

\* transact! of a caller of the owner, on its own connection.
CallLocal(t) ==
    /\ call[t] = "none"
    /\ call' = [call EXCEPT ![t] = "sent"]
    /\ UNCHANGED <<via, signal, ownerVars, storeVars, connVars, writerVars>>

\* The id of the next transaction: one more than that of the connection, which
\* shows what is committed.
NextId == MaxTx(Newest) + 1

\* global-dispatch-handler hands the operation to the writer of the connection
\* it finds for the store, and the operation succeeds.
Process(t) ==
    /\ call[t] = "sent"
    /\ t \in Remote => hosted
    /\ call' = [call EXCEPT ![t] = "server"]
    /\ id' = [id EXCEPT ![t] = NextId]
    /\ mem' = Append(mem, t)
    /\ UNCHANGED <<log, hosted, synced, via, signal, storeVars, connVars, writerVars>>

\* The operation throws, or no connection is registered for the store.
Refuse(t) ==
    /\ call[t] = "sent"
    /\ call' = [call EXCEPT ![t] = "error"]
    /\ UNCHANGED <<via, signal, ownerVars, storeVars, connVars, writerVars>>

\* The first k of the processed transactions are committed together; the new
\* head is published to every subscription.
Commit(k) ==
    /\ k \in 1..Len(mem)
    /\ log' = log \o SubSeq(mem, 1, k)
    /\ mem' = SubSeq(mem, k + 1, Len(mem))
    /\ feed' = [c \in Conn |-> IF synced /\ phase[c] \notin {"new", "cached"}
                               THEN Append(feed[c], Newest + k) ELSE feed[c]]
    /\ UNCHANGED <<id, hosted, synced, tiered, local, offered>>
    /\ UNCHANGED <<callVars, connVars, writerVars>>

\* A mutation of Durable: what the writer has processed.
DurableSoon(t) == TRUE

\* The writer answers for what it has committed.
Durable(t) == In(t, Newest)

\* The report goes back, over the wire or to a caller of the owner.
Reply(t) ==
    /\ call[t] = "server" /\ Durable(t)
    /\ call' = [call EXCEPT ![t] = IF t \in Remote THEN "report" ELSE "ok"]
    /\ UNCHANGED <<via, signal, ownerVars, storeVars, connVars, writerVars>>

\* unregister-store-for-remote-access! and the delete-database handler end the
\* synchronisation first ...
StopSync ==
    /\ synced /\ synced' = FALSE
    /\ UNCHANGED <<log, mem, id, hosted, callVars, storeVars, connVars, writerVars>>

\* ... and then forget the connection.
Unhost ==
    /\ ~synced /\ hosted /\ hosted' = FALSE
    /\ UNCHANGED <<log, mem, id, synced, callVars, storeVars, connVars, writerVars>>

-------------------------------------------------------------------------------
(* KabelWriter: a call of -dispatch! *)

\* transact! on an open connection: the writer of the connection sends it.
Invoke(t, c) ==
    /\ call[t] = "none"
    /\ c \in held /\ phase[c] = "open"
    /\ call' = [call EXCEPT ![t] = "sent"]
    /\ via' = [via EXCEPT ![t] = c]
    /\ UNCHANGED <<signal, ownerVars, storeVars, connVars, writerVars>>

\* The reply is an error, which the caller gets as it is.
ReceiveError(t) ==
    /\ call[t] = "error"
    /\ call' = [call EXCEPT ![t] = "rejected"]
    /\ UNCHANGED <<via, signal, ownerVars, storeVars, connVars, writerVars>>

\* The waiters of connection c but those for the id of t.
Others(t) == {u \in pending[via[t]] : id[u] # id[t]}

\* A mutation of Waiting: the waiter replaces all others.
WaitingAlone(t) == {t}

\* pending-txs after a waiter for t was put in: it is keyed by the id, and
\* replaces the one that was there.
Waiting(t) == Others(t) \cup {t}

\* The reply is a report: a waiter is put in before anything is checked.
Register(t) ==
    /\ call[t] = "report"
    /\ call' = [call EXCEPT ![t] = "check"]
    /\ pending' = [pending EXCEPT ![via[t]] = Waiting(t)]
    /\ UNCHANGED <<via, signal, current, ownerVars, storeVars, connVars>>

\* A mutation of Arrived: one id too early.
ArrivedBefore(t) == current[via[t]] + 1 >= id[t]

\* The update that t is waiting for, or a later one, has been handled.
Arrived(t) == current[via[t]] >= id[t]

\* finalize-and-return!: the entry of the id goes, and the caller gets the
\* report, unless making it needs the store of a connection that was released.
Finalize(t) ==
    /\ \E outcome \in {"ok"} \cup IF Gone(via[t]) THEN {"failed"} ELSE {} :
          call' = [call EXCEPT ![t] = outcome]
    /\ pending' = [pending EXCEPT ![via[t]] = Others(t)]
    /\ UNCHANGED <<via, signal, current, ownerVars, storeVars, connVars>>

\* The update came first.
CheckArrived(t) == call[t] = "check" /\ Arrived(t) /\ Finalize(t)

\* It did not: wait for it, without a timeout.
CheckNotArrived(t) ==
    /\ call[t] = "check" /\ ~Arrived(t)
    /\ call' = [call EXCEPT ![t] = "parked"]
    /\ UNCHANGED <<via, signal, ownerVars, storeVars, connVars, writerVars>>

WakeSynced(t) == call[t] = "parked" /\ signal[t] = "synced" /\ Finalize(t)

\* The writer was shut down: the wait throws, and the caller gets that.
WakeShutDown(t) ==
    /\ call[t] = "parked" /\ signal[t] = "shutdown"
    /\ call' = [call EXCEPT ![t] = "failed"]
    /\ UNCHANGED <<via, signal, ownerVars, storeVars, connVars, writerVars>>

\* A value is put on wait-ch of the calls in S; only the first one counts.
Signalled(S, what) ==
    [t \in Tx |-> IF t \in S /\ signal[t] = "none" THEN what ELSE signal[t]]

-------------------------------------------------------------------------------
(* connect-kabel and the subscription to the store *)

\* The value a tiered store has cached is read ...
ReadCached(c) ==
    /\ phase[c] = "new"
    /\ LET cached == IF tiered THEN local ELSE NoValue
       IN /\ stored' = [stored EXCEPT ![c] = cached]
          /\ shown' = [shown EXCEPT ![c] = cached]
    /\ phase' = [phase EXCEPT ![c] = "cached"]
    /\ UNCHANGED <<notify, registered, held>>
    /\ UNCHANGED <<ownerVars, callVars, storeVars, writerVars>>

\* ... and the store subscribed: the handshake names the branch key that is in
\* the store by now, which another connection to the same store may have brought
\* up to date since, and is sent the newest one unless that is it.
Subscribe(c) ==
    /\ phase[c] = "cached" /\ synced
    /\ offered' = [offered EXCEPT ![c] = local]
    /\ feed' = [feed EXCEPT ![c] = IF local = Newest THEN <<>> ELSE <<Newest>>]
    /\ phase' = [phase EXCEPT ![c] = "subscribed"]
    /\ UNCHANGED <<stored, shown, notify, registered, held, tiered, local>>
    /\ UNCHANGED <<ownerVars, callVars, writerVars>>

\* The next update: the value is in the local store, and the callback called.
Update(c) ==
    /\ feed[c] # <<>> /\ notify[c].at = "idle"
    /\ local' = IF Gone(c) /\ ~tiered THEN local ELSE Head(feed[c])
    /\ feed' = [feed EXCEPT ![c] = Tail(@)]
    /\ UNCHANGED <<tiered, offered>>

\* The callback does not know a connection: the value goes to stored-db-atom.
UpdateStored(c) ==
    /\ Update(c) /\ phase[c] \in {"subscribed", "taken"}
    /\ stored' = [stored EXCEPT ![c] = Head(feed[c])]
    /\ UNCHANGED <<phase, shown, notify, registered, held>>
    /\ UNCHANGED <<ownerVars, callVars, writerVars>>

\* A mutation of UpdateShown: the connection is not reset.
UpdateShownNot(c) ==
    /\ Update(c) /\ phase[c] = "open"
    /\ notify' = [notify EXCEPT ![c] = [at |-> "max", value |-> Head(feed[c])]]
    /\ UNCHANGED <<phase, stored, shown, registered, held>>
    /\ UNCHANGED <<ownerVars, callVars, writerVars>>

\* on-db-sync!: the connection is reset first ...
UpdateShown(c) ==
    /\ Update(c) /\ phase[c] = "open"
    /\ shown' = [shown EXCEPT ![c] = Head(feed[c])]
    /\ notify' = [notify EXCEPT ![c] = [at |-> "max", value |-> Head(feed[c])]]
    /\ UNCHANGED <<phase, stored, registered, held>>
    /\ UNCHANGED <<ownerVars, callVars, writerVars>>

\* ... then on-sync-update! sets the id that has arrived ...
NotifyMax(c) ==
    /\ notify[c].at = "max"
    /\ current' = [current EXCEPT ![c] = MaxTx(notify[c].value)]
    /\ notify' = [notify EXCEPT ![c].at = "wake"]
    /\ UNCHANGED <<phase, stored, shown, registered, held, pending>>
    /\ UNCHANGED <<ownerVars, callVars, storeVars>>

\* A mutation of Due: a waiter for the very id is not woken.
DueBelow(c, v) == {t \in pending[c] : MaxTx(v) > id[t]}

Due(c, v) == {t \in pending[c] : MaxTx(v) >= id[t]}

\* ... and wakes the waiters that it finds.
NotifyWake(c) ==
    /\ notify[c].at = "wake"
    /\ signal' = Signalled(Due(c, notify[c].value), "synced")
    /\ notify' = [notify EXCEPT ![c].at = "idle"]
    /\ UNCHANGED <<phase, stored, shown, registered, held>>
    /\ UNCHANGED <<call, via, ownerVars, storeVars, writerVars>>

\* An update after the release: the atom has neither store nor writer any more.
\* It is reset to the value all the same, unless making that needs the store.
UpdateReleased(c) ==
    /\ Update(c) /\ Gone(c)
    /\ phase' \in {phase, [phase EXCEPT ![c] = "revived"]}
    /\ UNCHANGED <<stored, shown, notify, registered, held>>
    /\ UNCHANGED <<ownerVars, callVars, writerVars>>

\* A mutation of Ready: nobody waits for the synchronisation.
ReadyAtOnce(c) == TRUE

\* There is a cached value, or the first update came.
Ready(c) == shown[c] # NoValue \/ stored[c] # NoValue

\* The value that the connection will be made from is taken.
Take(c) ==
    /\ phase[c] = "subscribed" /\ Ready(c)
    /\ shown' = [shown EXCEPT ![c] = IF @ = NoValue THEN stored[c] ELSE @]
    /\ phase' = [phase EXCEPT ![c] = "taken"]
    /\ UNCHANGED <<stored, notify, registered, held>>
    /\ UNCHANGED <<ownerVars, callVars, storeVars, writerVars>>

\* Connection and writer are made, the callback is told of them, and the
\* connection is registered with count 1, whatever was registered before.
Open(c) ==
    /\ phase[c] = "taken"
    /\ phase' = [phase EXCEPT ![c] = "open"]
    /\ registered' = c
    /\ held' = held \cup {c}
    /\ UNCHANGED <<stored, shown, notify>>
    /\ UNCHANGED <<ownerVars, callVars, storeVars, writerVars>>

\* -shutdown of the writer of connection c.
ShutDown(c) ==
    /\ signal' = Signalled(pending[c], "shutdown")
    /\ pending' = [pending EXCEPT ![c] = {}]

\* release: the registered connection is reset to :released, and if the atom
\* of the released one still has them its writer is shut down and its store
\* released, which forgets what a store in memory holds.
Release(c) ==
    /\ c \in held /\ held' = held \ {c}
    /\ IF phase[c] \in {"open", "revived"} /\ registered # NoConn
       THEN /\ phase' = [phase EXCEPT ![registered] = "released"]
            /\ registered' = NoConn
            /\ IF phase[c] = "open"
               THEN ShutDown(c) /\ local' = IF tiered THEN local ELSE NoValue
               ELSE UNCHANGED <<signal, pending, local>>
       ELSE UNCHANGED <<phase, registered, signal, pending, local>>
    /\ UNCHANGED <<stored, shown, notify, current, call, via, ownerVars, tiered, feed, offered>>

-------------------------------------------------------------------------------
(* The specification *)

\* The owner has created the database and registered it for remote access; a
\* tiered store of the client may hold it from an earlier connection.
Init ==
    /\ log = <<>> /\ mem = <<>> /\ id = [t \in Tx |-> 0]
    /\ hosted = TRUE /\ synced = TRUE
    /\ call = [t \in Tx |-> "none"] /\ via = [t \in Tx |-> NoConn]
    /\ signal = [t \in Tx |-> "none"]
    /\ tiered \in BOOLEAN /\ local \in {NoValue} \cup IF tiered THEN {0} ELSE {}
    /\ feed = [c \in Conn |-> <<>>] /\ offered = [c \in Conn |-> NoValue]
    /\ phase = [c \in Conn |-> "new"]
    /\ stored = [c \in Conn |-> NoValue] /\ shown = [c \in Conn |-> NoValue]
    /\ notify = [c \in Conn |-> [at |-> "idle", value |-> 0]]
    /\ current = [c \in Conn |-> 0] /\ pending = [c \in Conn |-> {}]
    /\ registered = NoConn /\ held = {}

Owner == (\E t \in Tx : Process(t) \/ Refuse(t) \/ Reply(t)) \/ \E k \in 1..Len(mem) : Commit(k)

\* The go block of a call.
Dispatching(t) == ReceiveError(t) \/ Register(t) \/ CheckArrived(t) \/ CheckNotArrived(t)
                  \/ WakeSynced(t) \/ WakeShutDown(t)

\* The callback of a subscription.
Updating(c) == UpdateStored(c) \/ UpdateShown(c) \/ UpdateReleased(c)
               \/ NotifyMax(c) \/ NotifyWake(c)

Connecting(c) == Take(c) \/ Open(c)

Next == \/ Owner
        \/ StopSync \/ Unhost
        \/ \E t \in Tx : CallLocal(t) \/ Dispatching(t) \/ \E c \in Conn : Invoke(t, c)
        \/ \E c \in Conn : ReadCached(c) \/ Subscribe(c) \/ Updating(c) \/ Connecting(c) \/ Release(c)

Spec == Init /\ [][Next]_vars

-------------------------------------------------------------------------------
(* Safety *)

Values == 0..Len(log)

TypeOwner ==
    /\ log \in Seq(Tx) /\ mem \in Seq(Tx)
    /\ id \in [Tx -> Nat]
    /\ hosted \in BOOLEAN /\ synced \in BOOLEAN

TypeCalls ==
    /\ call \in [Tx -> Stages]
    /\ via \in [Tx -> Conn \cup {NoConn}]
    /\ signal \in [Tx -> {"none", "synced", "shutdown"}]
    /\ current \in [Conn -> Nat]
    /\ pending \in [Conn -> SUBSET Tx]
    /\ \A t \in Tx : call[t] \in {"report", "check", "parked"} => t \in Remote
    /\ \A t \in Tx : signal[t] # "none" => call[t] \in {"check", "parked", "ok", "failed"}
    /\ \A c \in Conn : \A t \in pending[c] :
          via[t] = c /\ call[t] \in {"check", "parked"} /\ signal[t] # "shutdown"

TypeClient ==
    /\ tiered \in BOOLEAN
    /\ local \in Values \cup {NoValue}
    /\ feed \in [Conn -> Seq(Values)]
    /\ offered \in [Conn -> Values \cup {NoValue}]
    /\ phase \in [Conn -> {"new", "cached", "subscribed", "taken", "open", "released", "revived"}]
    /\ stored \in [Conn -> Values \cup {NoValue}]
    /\ shown \in [Conn -> Values \cup {NoValue}]
    /\ notify \in [Conn -> [at : {"idle", "max", "wake"}, value : Values]]
    /\ registered \in {c \in Conn : phase[c] = "open"} \cup {NoConn}
    /\ held \subseteq {c \in Conn : phase[c] = "open" \/ Gone(c)}
    /\ \A c \in Conn : phase[c] \notin {"new", "cached", "subscribed"} => shown[c] \in Values

\* The variables have the types the code gives them: among the rest, a connection
\* that is made has a value, and a waiter is of a call that was not told of a
\* shutdown and that was made with the connection whose writer has the waiter.
TypeOK == TypeOwner /\ TypeCalls /\ TypeClient

\* Read your writes: a remote caller that was given its report finds the
\* transaction in the value of its connection, also when the update overtook
\* the reply and when several transactions were waiting; unless the owner gave
\* another transaction the same id.
ReadYourWrites ==
    \A t \in Tx :
        t \in Remote /\ call[t] = "ok" /\ phase[via[t]] = "open" /\ Distinct(t)
            => In(t, shown[via[t]])

\* No lost wake-up: a call that is parked and was not woken is still among the
\* waiters, and its id has not arrived, or its callback is about to wake it.
WaiterKnown ==
    \A t \in Tx :
        LET c == via[t]
        IN call[t] = "parked" /\ signal[t] = "none" /\ phase[c] = "open" /\ Distinct(t) =>
              /\ t \in pending[c]
              /\ Arrived(t) => notify[c].at = "wake" /\ t \in Due(c, notify[c].value)

\* What a caller of DurableLog is told at each stage of a call.
Told(stage) == CASE stage = "sent" -> "called"
                 [] stage \in {"none"} \cup Outcomes -> stage
                 [] OTHER -> "waiting"

\* Remote callers and those of the owner get the promise of the local writer:
\* one log, in which what was acknowledged is and what was rejected never is.
DL == INSTANCE DurableLog WITH AsyncTx <- {}, answer <- [t \in Tx |-> Told(call[t])]

ImplementsDurableLog == DL!DLSpec

-------------------------------------------------------------------------------
(* Liveness *)

\* The go blocks of calls, callbacks and connects run, and the owner goes on.
Fairness == /\ WF_vars(Owner)
            /\ \A t \in Tx : WF_vars(Dispatching(t))
            /\ \A c \in Conn : WF_vars(Updating(c)) /\ WF_vars(Connecting(c))

FairSpec == Spec /\ Fairness

\* The connection of a call is open and kept up to date.
Live(c) == c # NoConn /\ phase[c] = "open" /\ synced

\* Every call whose report came back is answered, as long as its connection
\* lives and the owner gave no other transaction its id: there is no timeout
\* that would end a wait for an update that does not come.
ReportReturned ==
    \A t \in Tx :
        call[t] \in {"report", "check", "parked"}
            ~> (call[t] \in Outcomes \/ ~Live(via[t]) \/ ~Distinct(t))

\* Update n was overlooked: it came after the value for the connection had been
\* read from the cache or taken and before the callback knew the connection, or
\* another connection had put it in the store before the handshake, perhaps after
\* the cached value was read.
Overlooked(c, n) == stored[c] >= n \/ offered[c] = n

\* Whatever is committed is shown by every live connection to the store, unless
\* the connection overlooked just that while it was made: the next is shown again.
UpdatesShown ==
    \A c \in Conn : \A n \in 1..Cardinality(Tx) :
        Live(c) /\ Newest = n ~> (shown[c] >= n \/ ~Live(c) \/ Overlooked(c, n))
===============================================================================
