------------------------------ MODULE MCPDRouter ------------------------------
(***************************************************************************)
(* Both programs with two requests, one of which at a time fits on D; the  *)
(* benchmark sends the same request ids in a second wave.                  *)
(***************************************************************************)
EXTENDS PDRouter

CONSTANTS r1, r2

MCPrograms == {"run_pd", "bench"}
MCPrompts  == {r1, r2}
=============================================================================
