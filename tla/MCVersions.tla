------------------------------ MODULE MCVersions ------------------------------
(* Instances of Versions for TLC. *)
EXTENDS Versions, TLC

CONSTANTS main, b1, user, s1, s2

MCBranch == {main, b1}
MCSchema == {s1, s2}

\* A commit may be dated when the database was made, or when it was made itself.
MCDates == {1}
NoDates == {}

\* Schemas are interchangeable.
Perms == Permutations(MCSchema)

\* A bound: after the first case in which keys may get lost only WriteCacheTrue
\* says more than a type, and it is followed as long as no call of the user or
\* crash has happened; and such events, with the commits that are not dated when
\* they were made, are three at most.
Followable == /\ Regular \/ events = 0
              /\ Cardinality({n \in DOMAIN com : com[n].time # n}) + events <= 3
===============================================================================
