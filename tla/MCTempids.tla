------------------------------- MODULE MCTempids -------------------------------
(* Instances of Tempids for TLC: two entities, one or both with an identity. *)
EXTENDS Tempids

AV(a, v) == [a |-> a, v |-> v]
Vector(e, a, v) == [map |-> FALSE, id |-> e, avs |-> <<AV(a, v)>>]
Map(e, avs) == [map |-> TRUE, id |-> e, avs |-> avs]

MCTempid == {-1, -2}
MCIdent == {"name", "email"}
MCRef == {"friend"}

\* Entity 1 has a name, entity 2 an email or no identity; another name is free.
MCBefore == {[datoms |-> {Datom(1, "name", 1), d}, maxEid |-> 2] :
                d \in {Datom(2, "email", 1), Datom(2, "age", 1)}}

MCItems ==
    {Vector(-1, "age", 1), Vector(-1, "name", 1), Vector(-1, "name", 2), Vector(-1, "friend", -2),
     Vector(-2, "email", 1), Vector(1, "name", 2)}
    \cup {Map(0, <<AV("age", 1)>>), Map(0, <<AV("name", 2), AV("friend", -1)>>),
          Map(-1, <<AV("name", 2), AV("email", 1)>>), Map(2, <<AV("name", 1)>>)}
===============================================================================
