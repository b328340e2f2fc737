---------------------------- MODULE MCPDScheduler ----------------------------
(***************************************************************************)
(* Three sequences.  For safety a and c come under the same request id, so *)
(* that c can follow a or be refused while a lives.  For liveness they     *)
(* have ids of their own and sizes that do not fit together: of four       *)
(* blocks of two tokens a, b and c take 2, 1 and 3 on P, 3, 1 and 4 on D.  *)
(***************************************************************************)
EXTENDS PDScheduler, TLC

CONSTANTS a, b, c, r1, r2, r3, t1, t2, t3

MCPrompt    == (a :> <<1, 1, 1>>) @@ (b :> <<2, 2>>) @@ (c :> <<1, 2>>)
MCMaxTokens == (a :> 1) @@ (b :> 2) @@ (c :> 1)
MCRequestId == (a :> r1) @@ (b :> r2) @@ (c :> r1)
MCAttempt   == (a :> t1) @@ (b :> t2) @@ (c :> t3)

Engine(role, mixed, chunked, seqs, limit, sequences, users) ==
    [role |-> role, mixed |-> mixed, chunked |-> chunked, maxNumSeqs |-> seqs,
     maxBatchedTokens |-> limit, sequences |-> sequences, users |-> users]

\* P with prompts cut and ids used again; D with one slot and ids used again; D
\* with two requests at once and phases that do not mix.
SafetyConfigs ==
    {Engine("prefill", TRUE,  TRUE, 2, 2, {a, b, c}, {"cancel", "shutdown"}),
     Engine("decode",  TRUE,  TRUE, 1, 2, {a, b, c}, {"cancel"}),
     Engine("decode",  FALSE, TRUE, 2, 2, {a, b},    {"cancel", "shutdown"})}

LivePrompt    == (a :> <<1, 1, 1>>) @@ (b :> <<1>>) @@ (c :> <<1, 1, 1, 1, 1>>)
LiveMaxTokens == (a :> 2) @@ (b :> 1) @@ (c :> 2)
LiveRequestId == (a :> r1) @@ (b :> r2) @@ (c :> r3)

\* Blocks run out before slots on P and on D: one of two requests waits for what the
\* other holds, while a third that is smaller passes it; P, without chunks, has a
\* budget for one of its longer prompts and no second one.  Then two of them with
\* cancels, and D with a single slot.
LivenessConfigs ==
    {Engine("prefill", FALSE, FALSE, 3, 5, {a, b, c}, {}),
     Engine("decode",  FALSE, FALSE, 3, 2, {a, b, c}, {}),
     Engine("prefill", FALSE, FALSE, 3, 5, {a, c}, {"cancel"}),
     Engine("decode",  FALSE, FALSE, 3, 2, {b, c}, {"cancel"}),
     Engine("decode",  FALSE, FALSE, 1, 2, {a, b}, {"cancel"})}
=============================================================================
