--------------------------- MODULE MCLocalScheduler ---------------------------
(***************************************************************************)
(* Requests over two tokens, 2 being the end of sequence: a and b share    *)
(* their first block and c does not.  The long requests l and m run until  *)
(* the one that was preempted has lost its cached prefix.                  *)
(***************************************************************************)
EXTENDS LocalScheduler, TLC

CONSTANTS a, b, c, l, m

MCPrompt ==
    (a :> <<1, 1, 1>>) @@ (b :> <<1, 1, 2>>) @@ (c :> <<2, 2>>) @@ (l :> <<1, 1>>) @@ (m :> <<2, 1>>)
MCMaxTokens == (a :> 4) @@ (b :> 4) @@ (c :> 3) @@ (l :> 8) @@ (m :> 6)

Mode(continuous, chunked, eager, seqs, budget, requests) ==
    [continuous |-> continuous, chunked |-> chunked, eager |-> eager, maxNumSeqs |-> seqs,
     maxBatchedTokens |-> budget, requests |-> requests]

\* A budget that cuts prompts, with a graph of more rows than two decodes need;
\* one that recomputes a long request in a step; fewer slots than requests; the
\* legacy mode with and without chunks; an engine without a graph for its slots.
Cut     == Mode(TRUE,  TRUE,  FALSE, 3, 2,  {a, b, c})
Long    == Mode(TRUE,  TRUE,  TRUE,  2, 16, {l, m})
Few     == Mode(TRUE,  TRUE,  TRUE,  2, 3,  {a, b, c})
Chunks  == Mode(FALSE, TRUE,  TRUE,  2, 2,  {a, c})
Whole   == Mode(FALSE, FALSE, FALSE, 3, 6,  {a, b, c})
NoGraph == Mode(TRUE,  TRUE,  FALSE, 2, 3,  {a, c})

MCConfigs == {Cut, Long, Few, Chunks, Whole, NoGraph}

\* Budgets that split the recomputation of a preempted request.
SplitConfigs == {Mode(continuous, TRUE, TRUE, 2, 3, {l, m}) : continuous \in BOOLEAN}

\* Workers get a snapshot of a request whose recomputation fits.
SnapshotConfigs == {Long}
=============================================================================
