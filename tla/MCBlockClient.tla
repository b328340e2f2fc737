----------------------------- MODULE MCBlockClient -----------------------------
(***************************************************************************)
(* Three requests over two tokens: a and b share their first block, c does *)
(* not; the pool is too small for all of them.                             *)
(***************************************************************************)
EXTENDS BlockClient, TLC

CONSTANTS a, b, c

MCSeqs      == {a, b, c}
MCPrompt    == (a :> <<1, 1, 1>>) @@ (b :> <<1, 1, 2>>) @@ (c :> <<2, 2>>)
MCMaxTokens == (a :> 2) @@ (b :> 1) @@ (c :> 1)
=============================================================================
