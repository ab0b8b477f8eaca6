--------------------------- MODULE MC_TokenResolve ---------------------------
(* The realm at i1 may take the name i2. *)
EXTENDS TokenResolve

CONSTANTS i1, i2

MCMoves == {<<i1, i2>>}
=============================================================================
