------------------------------ MODULE DurableLog ------------------------------
(***************************************************************************)
(* What a Datahike database with one writer promises to the callers of     *)
(* transact!, load-entities and gc-storage!: one append-only log of        *)
(* transactions, in which an acknowledged transaction is and a rejected    *)
(* one never is.  The queues, the commit pipeline, the storage keys and    *)
(* the process that runs them are the business of Writer, which is shown   *)
(* to implement this specification.                                        *)
(*                                                                         *)
(* A commit that fails part-way leaves its transactions undecided: their   *)
(* callers are told of the failure, and the log may still receive them.    *)
(***************************************************************************)
EXTENDS SequencesExt

CONSTANTS Tx,        \* the requests the clients may issue
          AsyncTx    \* those that run in the background and never join the log

VARIABLES log,       \* the durable transactions, oldest first
          answer     \* answer[t]: what the caller of t knows

dlvars == <<log, answer>>

\* The stages of a request that has not been answered.
Open == {"none", "called", "waiting"}

\* What a caller can be told; "lost" stands for a caller that died with its
\* process.
Answers == Open \cup {"ok", "rejected", "failed", "lost", "done"}

DLInit == /\ log = <<>>
          /\ answer = [t \in Tx |-> "none"]

Ask(t) == /\ \/ answer[t] = "none" /\ answer' = [answer EXCEPT ![t] = "called"]
             \/ answer[t] = "called" /\ answer' = [answer EXCEPT ![t] = "waiting"]
          /\ UNCHANGED log

\* Transactions join the log at its end, each at most once, and only while
\* nobody has been told that they were rejected or lost.
Extend == /\ IsStrictPrefix(log, log')
          /\ IsInjective(log')
          /\ \A i \in Len(log)+1..Len(log') :
                /\ log'[i] \in Tx \ AsyncTx
                /\ answer[log'[i]] \in {"waiting", "failed"}
          /\ UNCHANGED answer

\* "ok" is only said of what is already in the log.
Acknowledge(t) == /\ answer[t] = "waiting"
                  /\ \E i \in DOMAIN log : log[i] = t
                  /\ answer' = [answer EXCEPT ![t] = "ok"]
                  /\ UNCHANGED log

\* A rejected transaction has no effect, now or later.
Reject(t) == /\ answer[t] = "waiting"
             /\ ~ \E i \in DOMAIN log : log[i] = t
             /\ answer' = [answer EXCEPT ![t] = "rejected"]
             /\ UNCHANGED log

GiveUp(t) == /\ answer[t] = "waiting" /\ t \notin AsyncTx
             /\ answer' = [answer EXCEPT ![t] = "failed"]
             /\ UNCHANGED log

FinishBackground(t) == /\ answer[t] = "waiting" /\ t \in AsyncTx
                       /\ answer' = [answer EXCEPT ![t] = "done"]
                       /\ UNCHANGED log

\* The process dies: the log stays, the callers are gone.
ProcessDies ==
    /\ answer' = [t \in Tx |-> IF answer[t] \in {"called", "waiting"}
                               THEN "lost" ELSE answer[t]]
    /\ UNCHANGED log

DLNext == \/ \E t \in Tx : \/ Ask(t) \/ Acknowledge(t) \/ Reject(t)
                           \/ GiveUp(t) \/ FinishBackground(t)
          \/ Extend
          \/ ProcessDies

DLSpec == DLInit /\ [][DLNext]_dlvars
===============================================================================
