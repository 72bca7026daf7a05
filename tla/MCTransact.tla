------------------------------ MODULE MCTransact ------------------------------
(* Instances of Transact for TLC. *)
EXTENDS Transact

Of(e, a, v) == [e |-> e, a |-> a, v |-> v]

\* Entity 2 is a part that entity 1 can have, and the other way round; it has no
\* history of what it has seen.  Numbers are unique, and look like entities.
MCUniverse == {Of(1, "number", 1), Of(1, "number", 2), Of(2, "number", 1),
               Of(1, "tag", 1), Of(1, "part", 2), Of(2, "part", 1), Of(2, "seen", 2)}

MCMany       == {"tag"}
MCRefs       == {"part"}
MCUnique     == {"number"}
MCNoHistory  == {"seen"}
===============================================================================
