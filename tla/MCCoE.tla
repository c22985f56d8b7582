-------------------------------- MODULE MCCoE --------------------------------
(***************************************************************************)
(* TLC instances of CoE: two small objects of one index and a large one of *)
(* another.                                                                *)
(***************************************************************************)
EXTENDS CoE, TLC

CONSTANTS speed, limit, name

MCObjects == {speed, limit, name}
MCIndex == [o \in MCObjects |-> IF o = name THEN 2 ELSE 1]
MCChunks == [o \in MCObjects |-> IF o = name THEN 3 ELSE 1]
Symmetry == Permutations({speed, limit})
=============================================================================
