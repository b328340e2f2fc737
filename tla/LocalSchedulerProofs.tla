------------------------- MODULE LocalSchedulerProofs -------------------------
(***************************************************************************)
(* What LocalScheduler's run checks for one pool and a few configurations, *)
(* proved for every pool, set of requests and configuration of either      *)
(* scheduling mode.                                                        *)
(*                                                                         *)
(* The invariant LInv says for every point of the loops which sequences    *)
(* the loop has passed and which are ahead, who holds blocks and how many, *)
(* and what the batch computes.  StallInv adds that a loop is entered with *)
(* something to schedule, KVInv what the blocks hold.  First come the      *)
(* definitions, then facts on queues and what the operations do, one       *)
(* section per action, and what LInv and StallInv say; then the contents   *)
(* of the blocks, also action by action; and last two kinds of engines     *)
(* whose configuration keeps them from sampling too early.                 *)
(***************************************************************************)
EXTENDS LocalScheduler, BlockManagerProofs

-----------------------------------------------------------------------------
(* The invariant                                                           *)

\* Where schedule() has begun and not ended.
Loops == {"running", "waiting", "prefill", "decode"}

\* The running sequences in order, those the loop has passed included.
Queue == IF pc \in {"running", "decode"} THEN taken \o running ELSE running

\* What is scheduled and not yet postprocessed.
Batch ==
    IF pc \in Loops \cup {"execute"} THEN prefills \o decodes
    ELSE IF pc = "post" THEN todo ELSE <<>>

\* The tail of the queue, the first to be preempted.
Last(q) == q[Len(q)]

\* What the legacy mode schedules of the sequence at the head of waiting ends in its
\* prompt.  Postprocess takes it so; the code does not ensure it (the run split_recompute).
PartsArePrompts ==
    pc = "post" => \A s \in Elems(todo) : status[s] = "WAITING" => StillPrefill(s)

\* Each mode stays in its own loops.
ModeInv ==
    /\ pc \in {"running", "waiting"} => Continuous
    /\ pc \in {"prefill", "decode"} => ~Continuous

\* The queues list the sequences of their status, each once.
QueueInv ==
    /\ Distinct(waiting) /\ \A s \in Seqs : s \in Elems(waiting) <=> status[s] = "WAITING"
    /\ Distinct(Queue) /\ \A s \in Seqs : s \in Elems(Queue) <=> status[s] = "RUNNING"
    /\ \A s \in Seqs : status[s] # "NEW" => s \in config.requests

\* Who holds blocks: the running sequences and, in legacy mode with chunks, the head of
\* waiting, which then has all it needs.
HoldOK(s) ==
    /\ status[s] = "RUNNING" => table[s] # <<>>
    /\ table[s] # <<>> /\ status[s] # "RUNNING" =>
         /\ ~Continuous /\ EnableChunkedPrefill /\ pc # "decode"
         /\ waiting # <<>> /\ s = Head(waiting) /\ Len(table[s]) = SeqBlocks(s)

\* How long a sequence and its table are: the table lacks at most the block of a token
\* that was just sampled.
LengthOK(s) ==
    /\ NumPrompt(s) <= NumTokens(s) /\ cached[s] < NumTokens(s)
    /\ status[s] # "FINISHED" => NumCompletion(s) < MaxTokens[s]
    /\ table[s] # <<>> => Len(table[s]) <= SeqBlocks(s) /\ SeqBlocks(s) <= Len(table[s]) + 1
    /\ table[s] # <<>> /\ IsPrefill(s) => Len(table[s]) = SeqBlocks(s)

\* A scheduled sequence has the blocks of all its tokens, and some of them to compute.
Ready(s) ==
    /\ table[s] # <<>> /\ Len(table[s]) = SeqBlocks(s)
    /\ scheduled[s] >= 1 /\ cached[s] + scheduled[s] <= NumTokens(s)

\* The batch has what the loop has passed.
BatchInv ==
    /\ Distinct(Batch) /\ \A s \in Elems(Batch) : Ready(s)
    /\ pc \in {"running", "decode"} => Elems(Batch) = Elems(taken)
    /\ pc = "waiting" => Elems(Batch) = Elems(running)
    /\ pc = "prefill" =>
         /\ decodes = <<>> /\ prefills = taken
         /\ \A s \in Elems(taken) : status[s] = "RUNNING" \/ batched = MaxBatchedTokens
    /\ pc = "decode" => prefills = <<>> /\ decodes = taken
    /\ pc \in Loops /\ Batch = <<>> => batched = 0
    /\ pc \in Loops \cup {"execute"} => Len(decodes) <= MaxNumSeqs

\* After this step s will still be in its prompt.
Prompting(s) == IF s \in Elems(Batch) THEN StillPrefill(s) ELSE IsPrefill(s)

\* Continuous batching has one unfinished prompt, the last running sequence, and never more
\* sequences than a step has tokens: only a prompt that took the rest of the budget stays
\* unfinished.
CountInv == Continuous /\ pc # "failed" =>
    /\ \A s \in Elems(Queue) : Prompting(s) => s = Last(Queue)
    /\ Len(Queue) <= MaxNumSeqs /\ Len(Queue) <= MaxBatchedTokens
    /\ pc = "running" => /\ Len(prefills) + Len(decodes) = Len(taken) /\ Len(taken) <= batched
                         /\ running # <<>> => prefills = <<>> /\ batched = Len(taken)
    /\ pc = "waiting" => Len(prefills) + Len(decodes) = Len(running) /\ Len(running) <= batched
    /\ pc \in {"running", "waiting"} =>
         \A s \in Elems(Batch) : StillPrefill(s) => batched = MaxBatchedTokens

\* AllocInv is the allocator's, with publication.
LInv ==
    /\ TypeOK /\ AllocInv(FALSE) /\ ModeInv /\ QueueInv
    /\ \A s \in Seqs : HoldOK(s) /\ LengthOK(s)
    /\ BatchInv /\ CountInv

\* Every request can be served alone, and there is a graph for every batch of decodes.
CanServe ==
    /\ \A s \in config.requests : FitsAlone(s)
    /\ config.eager \/ GraphsCover(MaxNumSeqs)

\* A loop is only entered with something to schedule, and the decode loop when no prompt
\* can be; that never changes inside the loops.
StallInv == CanServe =>
    /\ pc # "failed"
    /\ pc \in Loops => \E s \in Seqs : status[s] \in {"WAITING", "RUNNING"}
    /\ pc = "decode" => \E s \in Seqs : status[s] = "RUNNING"

-----------------------------------------------------------------------------
(* The captured graphs                                                     *)

\* The limits of capture_cudagraph: up to the largest small graph, multiples of
\* the stride, and, as 512 is one, everything from 512 on.
Covered(maxSeqs) ==
    \/ \E n \in SmallGraphs : maxSeqs <= n
    \/ GraphRows(maxSeqs) % GraphStride = 0

\* An engine whose max_num_seqs is covered finds a graph for every batch of
\* decodes that run_model replays (next() over graph_bs never fails).
THEOREM CoveredEnginesReplay ==
    ASSUME NEW maxSeqs \in Nat \ {0}, Covered(maxSeqs)
    PROVE  GraphsCover(maxSeqs)
<1> DEFINE rows == GraphRows(maxSeqs)
<1>1. rows \in Nat \ {0} /\ rows <= maxSeqs
  BY GraphAssumption DEF GraphRows
<1>2. SUFFICES ASSUME NEW batch \in 1 .. rows
               PROVE  GraphFits(batch, maxSeqs)
  BY DEF GraphsCover
<1>3. CASE \E n \in SmallGraphs : maxSeqs <= n
  <2>1. PICK n \in SmallGraphs : maxSeqs <= n
    BY <1>3
  <2>2. n \in Captured(maxSeqs) /\ n \in Nat
    BY GraphAssumption DEF Captured
  <2>3. batch <= n
    BY <1>1, <2>1, <2>2
  <2> QED
    BY <2>2, <2>3 DEF GraphFits
<1>4. CASE rows % GraphStride = 0
  <2>1. rows \in Captured(maxSeqs)
    BY <1>1, <1>4 DEF Captured
  <2> QED
    BY <2>1 DEF GraphFits
<1> QED
  BY <1>3, <1>4 DEF Covered

-----------------------------------------------------------------------------
(* Queues *)

\* A queue is its first element and the others in order.
LEMMA HeadTailFacts ==
    ASSUME NEW D, NEW q \in Seq(D), q # <<>>
    PROVE  /\ Head(q) \in D /\ Tail(q) \in Seq(D) /\ <<Head(q)>> \in Seq(D)
           /\ q = <<Head(q)>> \o Tail(q) /\ Len(Tail(q)) = Len(q) - 1 /\ Len(q) \in Nat \ {0}
           /\ Head(q) \in Elems(q) /\ Elems(q) = {Head(q)} \cup Elems(Tail(q))
           /\ Distinct(q) <=> Distinct(Tail(q)) /\ Head(q) \notin Elems(Tail(q))
           /\ Last(q) \in Elems(q) /\ (Tail(q) # <<>> => Last(Tail(q)) = Last(q))
           /\ Tail(q) = <<>> => Last(q) = Head(q)
<1> DEFINE h == Head(q)
           r == Tail(q)
           one == <<h>>
<1>1. /\ Len(q) \in Nat \ {0} /\ h \in D /\ r \in Seq(D) /\ one \in Seq(D)
      /\ q = one \o r /\ Len(r) = Len(q) - 1 /\ h = q[1]
      /\ \A i \in 1 .. Len(q) - 1 : r[i] = q[i + 1]
  OBVIOUS
<1>2. Elems(one) = {h} /\ Distinct(one)
  BY DEF Elems, Distinct
<1> HIDE DEF h, r, one
<1>3. /\ Elems(one \o r) = Elems(one) \cup Elems(r)
      /\ Distinct(one \o r)
           <=> Distinct(one) /\ Distinct(r) /\ Elems(one) \cap Elems(r) = {}
  BY <1>1, ConcatFacts
<1>4. /\ Elems(q) = {h} \cup Elems(r) /\ (Distinct(q) <=> Distinct(r) /\ h \notin Elems(r))
      /\ h \in Elems(q)
  BY <1>1, <1>2, <1>3
<1>5. Last(q) \in Elems(q)
  BY <1>1 DEF Last, Elems
<1>6. r # <<>> => Last(r) = Last(q)
  <2> SUFFICES ASSUME r # <<>> PROVE r[Len(r)] = q[Len(q)]
    BY DEF Last
  <2>1. Len(r) \in 1 .. Len(q) - 1 /\ Len(r) + 1 = Len(q)
    BY <1>1
  <2> QED BY <1>1, <2>1
<1>7. r = <<>> => Last(q) = h
  <2> SUFFICES ASSUME r = <<>> PROVE q[Len(q)] = q[1]
    BY <1>1 DEF Last
  <2>1. Len(q) = 1
    BY <1>1
  <2> QED BY <2>1
<1> QED BY <1>1, <1>4, <1>5, <1>6, <1>7 DEF h, r, one

\* The loop passes one sequence from running to taken: the line of both stays as it is.
LEMMA MoveFacts ==
    ASSUME NEW D, NEW p \in Seq(D), NEW q \in Seq(D), q # <<>>
    PROVE  Append(p, Head(q)) \o Tail(q) = p \o q
<1> DEFINE one == <<Head(q)>>
           r == Tail(q)
<1>1. one \in Seq(D) /\ r \in Seq(D) /\ q = one \o r /\ Append(p, Head(q)) = p \o one
  OBVIOUS
<1> HIDE DEF one, r
<1>2. (p \o one) \o r = p \o (one \o r)
  BY <1>1, ConcatAssociative
<1> QED BY <1>1, <1>2 DEF r

\* What of a queue is kept ends with its last element if that is kept.
LEMMA KeptLast ==
    ASSUME NEW D, NEW q \in Seq(D), q # <<>>, NEW S, Last(q) \in S
    PROVE  Kept(q, S) # <<>> /\ Last(Kept(q, S)) = Last(q)
<1> DEFINE n == Len(q)
           places == {i \in 1 .. Len(q) : q[i] \in S}
           c == Cardinality(places)
           at(k) == CHOOSE i \in places : Cardinality(places \cap 1 .. i) = k
<1>1. n \in Nat \ {0} /\ places \in SUBSET (1 .. n) /\ n \in places
  BY DEF Last
<1>2. /\ c \in Nat
      /\ \A i, j \in places :
                Cardinality(places \cap 1 .. i) = Cardinality(places \cap 1 .. j) => i = j
      /\ \A i \in places : Cardinality(places \cap 1 .. i) \in 1 .. Cardinality(places)
  <2> HIDE DEF places, n
  <2> QED BY <1>1, RankOnto
<1>3. places \cap 1 .. n = places
  BY <1>1
<1>4. at(c) = n /\ c # 0
  <2> HIDE DEF places, n
  <2>1. Cardinality(places \cap 1 .. n) = c
    BY <1>3
  <2> HIDE DEF c
  <2> QED BY <1>1, <1>2, <2>1
<1>5. Kept(q, S) = [k \in 1 .. c |-> q[at(k)]]
  BY DEF Kept
<1> DEFINE p == Kept(q, S)
<1>6. p \in Seq(D) /\ Len(p) = c
  <2>1. p \in Seq(D) /\ Len(p) = Cardinality({i \in 1 .. Len(q) : q[i] \in S})
    BY KeptFacts
  <2> QED BY <2>1
<1>7. c \in 1 .. c
  BY <1>2, <1>4
<1> HIDE DEF places, c, at
<1>8. p[c] = q[n]
  BY <1>4, <1>5, <1>7
<1> HIDE DEF p
<1>9. p # <<>>
  BY <1>2, <1>4, <1>6
<1> QED BY <1>6, <1>8, <1>9 DEF Last, p

\* The batch grows on either side.
LEMMA BatchGrows ==
    ASSUME NEW D, NEW p \in Seq(D), NEW d \in Seq(D), NEW x \in D,
           Distinct(p \o d), x \notin Elems(p \o d)
    PROVE  /\ Append(p, x) \o d \in Seq(D) /\ Distinct(Append(p, x) \o d)
           /\ Elems(Append(p, x) \o d) = Elems(p \o d) \cup {x}
           /\ Append(p, x) \o d # <<>>
           /\ p \o Append(d, x) \in Seq(D) /\ Distinct(p \o Append(d, x))
           /\ Elems(p \o Append(d, x)) = Elems(p \o d) \cup {x}
           /\ p \o Append(d, x) # <<>>
<1> DEFINE px == Append(p, x)
           dx == Append(d, x)
<1>1. /\ px \in Seq(D) /\ Len(px) = Len(p) + 1 /\ dx \in Seq(D) /\ Len(dx) = Len(d) + 1
      /\ Elems(px) = Elems(p) \cup {x} /\ Elems(dx) = Elems(d) \cup {x}
      /\ Distinct(px) <=> Distinct(p) /\ x \notin Elems(p)
      /\ Distinct(dx) <=> Distinct(d) /\ x \notin Elems(d)
  BY OneMoreFacts
<1>2. /\ Elems(p \o d) = Elems(p) \cup Elems(d)
      /\ Distinct(p \o d) <=> Distinct(p) /\ Distinct(d) /\ Elems(p) \cap Elems(d) = {}
  BY ConcatFacts
<1> HIDE DEF px, dx
<1>3. /\ px \o d \in Seq(D) /\ Distinct(px \o d) /\ Elems(px \o d) = Elems(p \o d) \cup {x}
      /\ px \o d # <<>>
  <2>1. /\ px \o d \in Seq(D) /\ Len(px \o d) = Len(px) + Len(d)
        /\ Elems(px \o d) = Elems(px) \cup Elems(d)
        /\ Distinct(px \o d) <=> Distinct(px) /\ Distinct(d) /\ Elems(px) \cap Elems(d) = {}
    BY <1>1, ConcatFacts
  <2>2. Len(px \o d) >= 1
    BY <1>1, <2>1
  <2> QED BY <1>1, <1>2, <2>1, <2>2
<1>4. /\ p \o dx \in Seq(D) /\ Distinct(p \o dx) /\ Elems(p \o dx) = Elems(p \o d) \cup {x}
      /\ p \o dx # <<>>
  <2>1. /\ p \o dx \in Seq(D) /\ Len(p \o dx) = Len(p) + Len(dx)
        /\ Elems(p \o dx) = Elems(p) \cup Elems(dx)
        /\ Distinct(p \o dx) <=> Distinct(p) /\ Distinct(dx) /\ Elems(p) \cap Elems(dx) = {}
    BY <1>1, ConcatFacts
  <2>2. Len(p \o dx) >= 1
    BY <1>1, <2>1
  <2> QED BY <1>1, <1>2, <2>1, <2>2
<1> QED BY <1>3, <1>4 DEF px, dx

\* What a queue holds.
LEMMA ElemsIn == ASSUME NEW D, NEW q \in Seq(D) PROVE Elems(q) \subseteq D
  BY DEF Elems

\* A concatenation ends as its second part does.
LEMMA ConcatLast ==
    ASSUME NEW D, NEW p \in Seq(D), NEW q \in Seq(D), q # <<>>
    PROVE  p \o q # <<>> /\ Last(p \o q) = Last(q)
<1>1. Len(q) \in Nat \ {0} /\ Len(p) \in Nat /\ Len(p \o q) = Len(p) + Len(q)
  OBVIOUS
<1>2. Len(p \o q) \in Len(p) + 1 .. Len(p) + Len(q) /\ Len(p \o q) - Len(p) = Len(q)
  BY <1>1
<1>3. (p \o q)[Len(p \o q)] = q[Len(q)]
  BY <1>1, <1>2
<1>4. p \o q # <<>>
  <2> DEFINE r == p \o q
  <2>1. Len(r) # 0
    BY <1>1
  <2> HIDE DEF r
  <2>2. r # <<>>
    BY <2>1
  <2> QED BY <2>2 DEF r
<1> QED BY <1>3, <1>4 DEF Last

\* A queue without its last element is one shorter.
LEMMA FrontLength ==
    ASSUME NEW D, NEW q \in Seq(D), q # <<>>
    PROVE  Len(SubSeq(q, 1, Len(q) - 1)) = Len(q) - 1
<1>1. Len(q) \in Nat \ {0}
  OBVIOUS
<1>2. Len(q) - 1 \in 0 .. Len(q)
  BY <1>1
<1>3. PICK n \in 0 .. Len(q) : n = Len(q) - 1
  BY <1>2
<1>4. Len(SubSeq(q, 1, n)) = n
  BY CutFacts
<1> QED BY <1>3, <1>4

-----------------------------------------------------------------------------
(* Frames *)

\* What the type invariant says of the queues, the batch and the configuration.
LEMMA TypeFacts ==
    ASSUME TypeOK
    PROVE  /\ waiting \in Seq(Seqs) /\ running \in Seq(Seqs) /\ taken \in Seq(Seqs)
           /\ prefills \in Seq(Seqs) /\ decodes \in Seq(Seqs) /\ todo \in Seq(Seqs)
           /\ prefills \o decodes \in Seq(Seqs) /\ Batch \in Seq(Seqs)
           /\ taken \o running \in Seq(Seqs) /\ Queue \in Seq(Seqs)
           /\ MaxNumSeqs \in Nat \ {0} /\ MaxBatchedTokens \in Nat \ {0}
           /\ Continuous \in BOOLEAN /\ EnableChunkedPrefill \in BOOLEAN
           /\ batched \in Nat /\ batched <= MaxBatchedTokens /\ Remaining \in Nat
           /\ status \in [Seqs -> {"NEW", "WAITING", "RUNNING", "FINISHED"}]
           /\ BlockTypeOK /\ KVTypeOK /\ config \in Configs /\ scheduled \in [Seqs -> Nat]
<1>1. config \in Configs /\ batched \in 0 .. MaxBatchedTokens
  BY DEF TypeOK
<1>2. /\ MaxNumSeqs \in Nat \ {0} /\ MaxBatchedTokens \in Nat \ {0}
      /\ Continuous \in BOOLEAN /\ EnableChunkedPrefill \in BOOLEAN
  BY <1>1, ConfigAssumption
     DEF MaxNumSeqs, MaxBatchedTokens, Continuous, EnableChunkedPrefill
<1>3. /\ waiting \in Seq(Seqs) /\ running \in Seq(Seqs) /\ taken \in Seq(Seqs)
      /\ prefills \in Seq(Seqs) /\ decodes \in Seq(Seqs) /\ todo \in Seq(Seqs)
  BY DEF TypeOK
<1>4. prefills \o decodes \in Seq(Seqs) /\ taken \o running \in Seq(Seqs)
  BY <1>3
<1>5. Batch \in Seq(Seqs) /\ Queue \in Seq(Seqs)
  BY <1>3, <1>4 DEF Batch, Queue
<1>6. batched \in Nat /\ batched <= MaxBatchedTokens /\ Remaining \in Nat
  BY <1>1, <1>2 DEF Remaining
<1>7. /\ status \in [Seqs -> {"NEW", "WAITING", "RUNNING", "FINISHED"}]
      /\ BlockTypeOK /\ KVTypeOK /\ scheduled \in [Seqs -> Nat]
  BY DEF TypeOK, KVTypeOK
<1> QED BY <1>1, <1>2, <1>3, <1>4, <1>5, <1>6, <1>7

\* What is known of one sequence stays as long as nothing of it changes.
LEMMA SeqFrame ==
    ASSUME NEW r \in Seqs,
           tokens'[r] = tokens[r], cached'[r] = cached[r], table'[r] = table[r]
    PROVE  /\ NumTokens(r)' = NumTokens(r) /\ NumPrompt(r)' = NumPrompt(r)
           /\ SeqBlocks(r)' = SeqBlocks(r) /\ NumCompletion(r)' = NumCompletion(r)
           /\ IsPrefill(r)' <=> IsPrefill(r)
           /\ LengthOK(r) /\ (status[r] # "FINISHED" \/ status'[r] = status[r]) => LengthOK(r)'
           /\ scheduled'[r] = scheduled[r] =>
                (Ready(r)' <=> Ready(r)) /\ (StillPrefill(r)' <=> StillPrefill(r))
<1>1. NumTokens(r)' = NumTokens(r) /\ NumPrompt(r)' = NumPrompt(r)
  BY DEF NumTokens, NumPrompt
<1>2. SeqBlocks(r)' = SeqBlocks(r) /\ NumCompletion(r)' = NumCompletion(r)
  BY <1>1 DEF SeqBlocks, CeilDiv, NumCompletion
<1>3. IsPrefill(r)' <=> IsPrefill(r)
  BY <1>1 DEF IsPrefill
<1>4. LengthOK(r) /\ (status[r] # "FINISHED" \/ status'[r] = status[r]) => LengthOK(r)'
  BY <1>1, <1>2, <1>3 DEF LengthOK
<1>5. scheduled'[r] = scheduled[r] =>
        (Ready(r)' <=> Ready(r)) /\ (StillPrefill(r)' <=> StillPrefill(r))
  BY <1>1, <1>2 DEF Ready, StillPrefill
<1> QED BY <1>1, <1>2, <1>3, <1>4, <1>5

\* A step that leaves the allocator, the configuration and the KV cache alone keeps their
\* part of the invariant.
LEMMA AllFrame ==
    ASSUME LInv, UNCHANGED <<bmVars, scheduled, config>>
    PROVE  /\ AllocInv(FALSE)' /\ config' \in Configs /\ BlockTypeOK'
           /\ MaxNumSeqs' = MaxNumSeqs /\ MaxBatchedTokens' = MaxBatchedTokens
           /\ Continuous' = Continuous /\ EnableChunkedPrefill' = EnableChunkedPrefill
           /\ \A r \in Seqs :
                /\ table'[r] = table[r] /\ cached'[r] = cached[r]
                /\ SeqBlocks(r)' = SeqBlocks(r)
                /\ IsPrefill(r)' <=> IsPrefill(r)
                /\ StillPrefill(r)' <=> StillPrefill(r)
                /\ Ready(r)' <=> Ready(r)
                /\ status[r] # "FINISHED" \/ status'[r] = status[r] => LengthOK(r)'
<1>1. /\ tokens' = tokens /\ cached' = cached /\ table' = table /\ scheduled' = scheduled
      /\ config' = config /\ UNCHANGED bmVars
  BY DEF bmVars
<1>2. AllocInv(FALSE)' /\ BlockTypeOK'
  <2>1. AllocInv(FALSE)'
    BY <1>1, AllocKept DEF LInv
  <2> QED BY <2>1 DEF AllocInv, PoolInv
<1>3. config' \in Configs
  BY <1>1 DEF LInv, TypeOK
<1>4. /\ MaxNumSeqs' = MaxNumSeqs /\ MaxBatchedTokens' = MaxBatchedTokens
      /\ Continuous' = Continuous /\ EnableChunkedPrefill' = EnableChunkedPrefill
  BY <1>1 DEF MaxNumSeqs, MaxBatchedTokens, Continuous, EnableChunkedPrefill
<1>5. ASSUME NEW r \in Seqs
      PROVE  /\ table'[r] = table[r] /\ cached'[r] = cached[r]
             /\ SeqBlocks(r)' = SeqBlocks(r)
             /\ IsPrefill(r)' <=> IsPrefill(r)
             /\ StillPrefill(r)' <=> StillPrefill(r)
             /\ Ready(r)' <=> Ready(r)
             /\ status[r] # "FINISHED" \/ status'[r] = status[r] => LengthOK(r)'
  BY <1>1, SeqFrame DEF LInv
<1> QED BY <1>2, <1>3, <1>4, <1>5

\* Where the numbers of a sequence live.
LEMMA SizeFacts ==
    ASSUME TypeOK, NEW s \in Seqs
    PROVE  /\ tokens[s] \in Seq(Token) /\ cached[s] \in Nat /\ table[s] \in Seq(Blocks)
           /\ scheduled[s] \in Nat /\ NumTokens(s) \in Nat /\ NumPrompt(s) \in Nat \ {0}
<1>1. BlockTypeOK /\ scheduled \in [Seqs -> Nat]
  BY TypeFacts
<1>2. /\ tokens[s] \in Seq(Token) /\ cached[s] \in Nat /\ table[s] \in Seq(Blocks)
      /\ scheduled[s] \in Nat
  BY <1>1 DEF BlockTypeOK
<1>3. Prompt[s] \in Seq(Token) /\ Prompt[s] # <<>>
  BY RequestAssumption
<1> QED BY <1>2, <1>3 DEF NumTokens, NumPrompt

\* The chunk that is scheduled of m tokens when n are left of the budget.
LEMMA SmallerFacts ==
    ASSUME NEW m \in Nat \ {0}, NEW n \in Nat \ {0}
    PROVE  /\ Smaller(m, n) \in Nat \ {0} /\ Smaller(m, n) <= m /\ Smaller(m, n) <= n
           /\ Smaller(m, n) = m \/ Smaller(m, n) = n
  BY DEF Smaller

-----------------------------------------------------------------------------
(* Steps that schedule nothing *)

\* Beginning and ending a loop, a step or the execution of a batch moves no sequence: its
\* queues, blocks and progress stay, and so does what the invariant says of them.
LEMMA QuietFacts ==
    ASSUME LInv, UNCHANGED <<bmVars, scheduled, config, status, waiting>>, Queue' = Queue,
           Elems(Batch') \subseteq Elems(Batch),
           pc' = "decode" =>
             pc = "decode" \/ \A s \in Seqs : status[s] = "WAITING" => table[s] = <<>>
    PROVE  /\ AllocInv(FALSE)' /\ QueueInv' /\ \A s \in Seqs : HoldOK(s)' /\ LengthOK(s)'
           /\ config' \in Configs
           /\ MaxNumSeqs' = MaxNumSeqs /\ MaxBatchedTokens' = MaxBatchedTokens
           /\ Continuous' = Continuous /\ EnableChunkedPrefill' = EnableChunkedPrefill
           /\ \A s \in Elems(Batch') : Ready(s)'
           /\ \A s \in Seqs : StillPrefill(s)' <=> StillPrefill(s)
           /\ /\ Continuous /\ pc # "failed" /\ Elems(Batch') = Elems(Batch)
              => \A s \in Elems(Queue') : Prompting(s)' => s = Last(Queue')
<1> USE DEF LInv
<1>1. /\ AllocInv(FALSE)' /\ config' \in Configs /\ BlockTypeOK'
      /\ MaxNumSeqs' = MaxNumSeqs /\ MaxBatchedTokens' = MaxBatchedTokens
      /\ Continuous' = Continuous /\ EnableChunkedPrefill' = EnableChunkedPrefill
      /\ \A r \in Seqs :
           /\ table'[r] = table[r] /\ cached'[r] = cached[r]
           /\ SeqBlocks(r)' = SeqBlocks(r)
           /\ IsPrefill(r)' <=> IsPrefill(r)
           /\ StillPrefill(r)' <=> StillPrefill(r)
           /\ Ready(r)' <=> Ready(r)
           /\ status[r] # "FINISHED" \/ status'[r] = status[r] => LengthOK(r)'
  BY AllFrame
<1>2. QueueInv'
  BY DEF QueueInv, Distinct, Elems
<1>3. ASSUME NEW s \in Seqs PROVE HoldOK(s)' /\ LengthOK(s)'
  <2>1. HoldOK(s) /\ waiting' = waiting /\ status' = status
    OBVIOUS
  <2>2. table[s] # <<>> /\ status[s] # "RUNNING" => pc' # "decode"
    <3>1. SUFFICES ASSUME table[s] # <<>>, status[s] # "RUNNING" PROVE pc' # "decode"
      OBVIOUS
    <3>2. waiting # <<>> /\ s = Head(waiting) /\ pc # "decode"
      BY <2>1, <3>1 DEF HoldOK
    <3>3. waiting \in Seq(Seqs)
      BY TypeFacts
    <3>4. s \in Elems(waiting)
      BY <3>2, <3>3, HeadTailFacts
    <3>5. status[s] = "WAITING"
      BY <3>4 DEF QueueInv
    <3> QED BY <3>1, <3>2, <3>5
  <2>3. HoldOK(s)'
    BY <1>1, <2>1, <2>2 DEF HoldOK
  <2> QED BY <1>1, <2>3
<1>4. Batch \in Seq(Seqs)
  BY TypeFacts
<1>5. \A s \in Elems(Batch) : s \in Seqs /\ Ready(s)
  BY <1>4 DEF BatchInv, Elems
<1>6. \A s \in Elems(Batch') : Ready(s)'
  BY <1>1, <1>5
<1>7. ASSUME Continuous, pc # "failed", Elems(Batch') = Elems(Batch),
             NEW s \in Elems(Queue'), Prompting(s)'
      PROVE  s = Last(Queue')
  <2>1. Queue \in Seq(Seqs) /\ Queue' = Queue
    BY TypeFacts
  <2>2. s \in Seqs /\ s \in Elems(Queue)
    BY <1>7, <2>1 DEF Elems
  <2>3. Prompting(s)' <=> Prompting(s)
    <3>1. (s \in Elems(Batch))' <=> s \in Elems(Batch)
      BY <1>7, Zenon DEF Elems
    <3> QED BY <1>1, <2>2, <3>1 DEF Prompting
  <2> QED BY <1>7, <2>1, <2>2, <2>3 DEF CountInv, Last
<1> QED BY <1>1, <1>2, <1>3, <1>6, <1>7

\* schedule() is called.
LEMMA BeginStepInv == ASSUME LInv, BeginStep PROVE LInv'
<1> USE DEF LInv
<1>1. /\ pc = "idle" /\ pc' = IF Continuous THEN "running" ELSE "prefill"
      /\ taken' = <<>> /\ prefills' = <<>> /\ decodes' = <<>> /\ batched' = 0
      /\ waiting' = waiting /\ running' = running /\ status' = status /\ todo' = todo
      /\ UNCHANGED <<bmVars, scheduled, config, status, waiting>> /\ kv' = kv
  BY DEF BeginStep, queueVars
<1>2. /\ waiting \in Seq(Seqs) /\ running \in Seq(Seqs) /\ todo \in Seq(Seqs)
      /\ Continuous \in BOOLEAN /\ MaxBatchedTokens \in Nat \ {0} /\ KVTypeOK
      /\ status \in [Seqs -> {"NEW", "WAITING", "RUNNING", "FINISHED"}] /\ MaxNumSeqs \in Nat
  BY TypeFacts
<1>3. Queue' = Queue
  BY <1>1, <1>2 DEF Queue
<1>4. Batch = <<>> /\ Batch' = <<>> /\ prefills' \o decodes' = <<>>
  BY <1>1 DEF Batch, Loops
<1>5. Elems(Batch') = Elems(Batch) /\ Elems(Batch') = {} /\ Distinct(Batch')
  BY <1>4 DEF Elems, Distinct
<1>6. /\ AllocInv(FALSE)' /\ QueueInv' /\ \A s \in Seqs : HoldOK(s)' /\ LengthOK(s)'
      /\ config' \in Configs
      /\ MaxNumSeqs' = MaxNumSeqs /\ MaxBatchedTokens' = MaxBatchedTokens
      /\ Continuous' = Continuous
      /\ Continuous => \A s \in Elems(Queue') : Prompting(s)' => s = Last(Queue')
  BY <1>1, <1>3, <1>5, QuietFacts
<1>7. TypeOK'
  <2>1. BlockTypeOK'
    BY <1>6 DEF AllocInv, PoolInv
  <2>2. KVTypeOK'
    BY <1>1, <1>2 DEF KVTypeOK
  <2> QED BY <1>1, <1>2, <1>6, <2>1, <2>2 DEF TypeOK
<1>8. ModeInv'
  BY <1>1, <1>2, <1>6 DEF ModeInv
<1>9. BatchInv'
  <2>1. Elems(<<>>) = {}
    BY DEF Elems
  <2> QED BY <1>1, <1>2, <1>4, <1>5, <1>6, <2>1 DEF BatchInv
<1>10. CountInv'
  <2>1. Continuous => Len(Queue') <= MaxNumSeqs /\ Len(Queue') <= MaxBatchedTokens
    BY <1>1, <1>3 DEF CountInv
  <2> QED BY <1>1, <1>2, <1>5, <1>6, <2>1 DEF CountInv
<1> QED BY <1>6, <1>7, <1>8, <1>9, <1>10

\* The first loop of the continuous mode ends: what it has taken is the running queue.
LEMMA EndRunningInv == ASSUME LInv, EndRunning PROVE LInv'
<1> USE DEF LInv
<1>1. /\ pc = "running" /\ running = <<>> /\ running' = taken /\ pc' = "waiting"
      /\ waiting' = waiting /\ status' = status /\ kv' = kv
      /\ UNCHANGED <<taken, prefills, decodes, batched, todo>>
      /\ UNCHANGED <<bmVars, scheduled, config, status, waiting>>
  BY DEF EndRunning, batchVars
<1>2. /\ waiting \in Seq(Seqs) /\ taken \in Seq(Seqs) /\ todo \in Seq(Seqs)
      /\ prefills \in Seq(Seqs) /\ decodes \in Seq(Seqs)
      /\ batched \in 0 .. MaxBatchedTokens /\ KVTypeOK
      /\ status \in [Seqs -> {"NEW", "WAITING", "RUNNING", "FINISHED"}]
  BY TypeFacts DEF TypeOK
<1>3. Queue = taken /\ Queue' = taken
  BY <1>1, <1>2 DEF Queue
<1>4. Batch = prefills \o decodes /\ Batch' = prefills \o decodes
  BY <1>1 DEF Batch, Loops
<1>5. Continuous
  BY <1>1 DEF ModeInv
<1>6. /\ AllocInv(FALSE)' /\ QueueInv' /\ \A s \in Seqs : HoldOK(s)' /\ LengthOK(s)'
      /\ config' \in Configs
      /\ MaxNumSeqs' = MaxNumSeqs /\ MaxBatchedTokens' = MaxBatchedTokens
      /\ Continuous' = Continuous
      /\ \A s \in Elems(Batch') : Ready(s)'
      /\ \A s \in Seqs : StillPrefill(s)' <=> StillPrefill(s)
      /\ \A s \in Elems(Queue') : Prompting(s)' => s = Last(Queue')
  BY <1>1, <1>3, <1>4, <1>5, QuietFacts
<1>7. TypeOK'
  <2>1. BlockTypeOK' /\ KVTypeOK'
    BY <1>1, <1>2, <1>6 DEF AllocInv, PoolInv, KVTypeOK
  <2> QED BY <1>1, <1>2, <1>6, <2>1 DEF TypeOK
<1>8. ModeInv'
  BY <1>1, <1>5, <1>6 DEF ModeInv
<1>9. BatchInv'
  BY <1>1, <1>4, <1>6 DEF BatchInv, Loops
<1>10. CountInv'
  <2>1. \A s \in Elems(Batch') : s \in Seqs /\ (StillPrefill(s)' => batched = MaxBatchedTokens)
    <3>1. \A s \in Elems(Batch) : StillPrefill(s) => batched = MaxBatchedTokens
      BY <1>1, <1>5 DEF CountInv
    <3>2. \A s \in Elems(Batch) : s \in Seqs
      BY TypeFacts, ElemsIn
    <3> QED BY <1>4, <1>6, <3>1, <3>2
  <2>2. /\ Len(Queue) <= MaxNumSeqs /\ Len(Queue) <= MaxBatchedTokens
        /\ Len(prefills) + Len(decodes) = Len(taken) /\ Len(taken) <= batched
    BY <1>1, <1>5 DEF CountInv
  <2> QED BY <1>1, <1>3, <1>5, <1>6, <2>1, <2>2 DEF CountInv
<1> QED BY <1>6, <1>7, <1>8, <1>9, <1>10

\* schedule() returns its batch or raises.
LEMMA EndWaitingInv == ASSUME LInv, EndWaiting PROVE LInv'
<1> USE DEF LInv
<1>1. /\ pc = "waiting" /\ pc' \in {"failed", "execute"}
      /\ pc' = IF prefills = <<>> /\ decodes = <<>> THEN "failed" ELSE "execute"
      /\ waiting' = waiting /\ status' = status /\ running' = running /\ kv' = kv
      /\ UNCHANGED <<taken, prefills, decodes, batched, todo>>
      /\ UNCHANGED <<bmVars, scheduled, config, status, waiting>>
  BY DEF EndWaiting, EndLoop, batchVars, queueVars
<1>2. /\ waiting \in Seq(Seqs) /\ running \in Seq(Seqs) /\ taken \in Seq(Seqs)
      /\ prefills \in Seq(Seqs) /\ decodes \in Seq(Seqs) /\ todo \in Seq(Seqs)
      /\ batched \in 0 .. MaxBatchedTokens /\ KVTypeOK /\ MaxNumSeqs \in Nat
      /\ status \in [Seqs -> {"NEW", "WAITING", "RUNNING", "FINISHED"}]
  BY TypeFacts DEF TypeOK
<1>3. Queue' = Queue
  BY <1>1 DEF Queue
<1>4. Batch = prefills \o decodes /\ Batch' = IF pc' = "failed" THEN <<>> ELSE prefills \o decodes
  BY <1>1 DEF Batch, Loops
<1>5. pc' = "failed" => Batch = <<>>
  BY <1>1, <1>2, <1>4
<1>6. Batch' = Batch
  BY <1>4, <1>5
<1>7. Continuous
  BY <1>1 DEF ModeInv
<1>8. /\ AllocInv(FALSE)' /\ QueueInv' /\ \A s \in Seqs : HoldOK(s)' /\ LengthOK(s)'
      /\ config' \in Configs
      /\ MaxNumSeqs' = MaxNumSeqs /\ MaxBatchedTokens' = MaxBatchedTokens
      /\ Continuous' = Continuous
      /\ \A s \in Elems(Batch') : Ready(s)'
      /\ \A s \in Elems(Queue') : Prompting(s)' => s = Last(Queue')
  BY <1>1, <1>3, <1>6, <1>7, QuietFacts
<1>9. TypeOK'
  <2>1. BlockTypeOK' /\ KVTypeOK'
    BY <1>1, <1>2, <1>8 DEF AllocInv, PoolInv, KVTypeOK
  <2> QED BY <1>1, <1>2, <1>8, <2>1 DEF TypeOK
<1>10. ModeInv'
  BY <1>1 DEF ModeInv
<1>11. BatchInv'
  BY <1>1, <1>6, <1>8 DEF BatchInv, Loops
<1>12. CountInv'
  <2>1. Len(Queue) <= MaxNumSeqs /\ Len(Queue) <= MaxBatchedTokens
    BY <1>1, <1>7 DEF CountInv
  <2> QED BY <1>1, <1>3, <1>8, <2>1 DEF CountInv
<1> QED BY <1>8, <1>9, <1>10, <1>11, <1>12

\* The legacy mode executes its prefill batch, or goes on to decodes if it is empty.  A
\* sequence under way at the head of waiting could have been scheduled, so none is there then.
LEMMA EndPrefillInv == ASSUME LInv, EndPrefill PROVE LInv'
<1> USE DEF LInv
<1>1. /\ pc = "prefill" /\ pc' \in {"decode", "execute"} /\ ~MaySchedulePrefill
      /\ pc' = IF taken # <<>> THEN "execute" ELSE "decode"
      /\ waiting' = waiting /\ status' = status /\ running' = running /\ kv' = kv
      /\ UNCHANGED <<taken, prefills, decodes, batched, todo>>
      /\ UNCHANGED <<bmVars, scheduled, config, status, waiting>>
  BY DEF EndPrefill, batchVars, queueVars
<1>2. /\ waiting \in Seq(Seqs) /\ running \in Seq(Seqs) /\ taken \in Seq(Seqs)
      /\ prefills \in Seq(Seqs) /\ decodes \in Seq(Seqs) /\ todo \in Seq(Seqs)
      /\ batched \in 0 .. MaxBatchedTokens /\ KVTypeOK /\ MaxNumSeqs \in Nat \ {0}
      /\ status \in [Seqs -> {"NEW", "WAITING", "RUNNING", "FINISHED"}]
      /\ MaxBatchedTokens \in Nat \ {0}
  BY TypeFacts DEF TypeOK
<1>3. prefills = taken /\ decodes = <<>> /\ Batch = prefills \o decodes /\ Batch = taken
  <2>1. prefills = taken /\ decodes = <<>> /\ Batch = prefills \o decodes
    BY <1>1 DEF Batch, Loops, BatchInv
  <2> QED BY <1>2, <2>1
<1>4. Batch' = Batch
  BY <1>1 DEF Batch, Loops
<1>5. Queue' = Queue
  BY <1>1, <1>2 DEF Queue
<1>6. ~Continuous
  BY <1>1 DEF ModeInv
<1>7. pc' = "decode" => \A s \in Seqs : status[s] = "WAITING" => table[s] = <<>>
  <2> SUFFICES ASSUME taken = <<>>, NEW s \in Seqs, status[s] = "WAITING", table[s] # <<>>
               PROVE  FALSE
    BY <1>1
  <2>1. waiting # <<>> /\ s = Head(waiting) /\ EnableChunkedPrefill
    BY DEF HoldOK
  <2>2. batched = 0
    BY <1>1, <1>3 DEF BatchInv, Loops
  <2>3. Remaining > 0 /\ Len(taken) < MaxNumSeqs
    BY <1>2, <2>2 DEF Remaining
  <2>4. FitsBudget(s)
    BY <2>1 DEF FitsBudget
  <2> QED BY <1>1, <2>1, <2>3, <2>4 DEF MaySchedulePrefill
<1>8. /\ AllocInv(FALSE)' /\ QueueInv' /\ \A s \in Seqs : HoldOK(s)' /\ LengthOK(s)'
      /\ config' \in Configs
      /\ MaxNumSeqs' = MaxNumSeqs /\ MaxBatchedTokens' = MaxBatchedTokens
      /\ Continuous' = Continuous
      /\ \A s \in Elems(Batch') : Ready(s)'
  BY <1>1, <1>4, <1>5, <1>7, QuietFacts
<1>9. TypeOK'
  <2>1. BlockTypeOK' /\ KVTypeOK'
    BY <1>1, <1>2, <1>8 DEF AllocInv, PoolInv, KVTypeOK
  <2> QED BY <1>1, <1>2, <1>8, <2>1 DEF TypeOK
<1>10. ModeInv'
  BY <1>1, <1>6, <1>8 DEF ModeInv
<1>11. BatchInv'
  BY <1>1, <1>2, <1>3, <1>4, <1>8 DEF BatchInv, Loops
<1>12. CountInv'
  BY <1>6, <1>8 DEF CountInv
<1> QED BY <1>8, <1>9, <1>10, <1>11, <1>12

\* The legacy mode returns its decode batch, or raises.
LEMMA EndDecodeInv == ASSUME LInv, EndDecode PROVE LInv'
<1> USE DEF LInv
<1>1. /\ pc = "decode" /\ pc' \in {"failed", "execute"}
      /\ pc' = IF prefills = <<>> /\ decodes = <<>> THEN "failed" ELSE "execute"
      /\ waiting' = waiting /\ status' = status /\ running' = taken \o running /\ kv' = kv
      /\ UNCHANGED <<taken, prefills, decodes, batched, todo>>
      /\ UNCHANGED <<bmVars, scheduled, config, status, waiting>>
  BY DEF EndDecode, EndLoop, batchVars
<1>2. /\ waiting \in Seq(Seqs) /\ taken \o running \in Seq(Seqs) /\ taken \in Seq(Seqs)
      /\ prefills \in Seq(Seqs) /\ decodes \in Seq(Seqs) /\ todo \in Seq(Seqs)
      /\ batched \in 0 .. MaxBatchedTokens /\ KVTypeOK
      /\ status \in [Seqs -> {"NEW", "WAITING", "RUNNING", "FINISHED"}]
  BY TypeFacts DEF TypeOK
<1>3. Queue' = Queue
  BY <1>1 DEF Queue
<1>4. Batch = prefills \o decodes /\ Batch' = IF pc' = "failed" THEN <<>> ELSE prefills \o decodes
  BY <1>1 DEF Batch, Loops
<1>5. pc' = "failed" => Batch = <<>>
  BY <1>1, <1>2, <1>4
<1>6. Batch' = Batch
  BY <1>4, <1>5
<1>7. ~Continuous
  BY <1>1 DEF ModeInv
<1>8. /\ AllocInv(FALSE)' /\ QueueInv' /\ \A s \in Seqs : HoldOK(s)' /\ LengthOK(s)'
      /\ config' \in Configs
      /\ MaxNumSeqs' = MaxNumSeqs /\ MaxBatchedTokens' = MaxBatchedTokens
      /\ Continuous' = Continuous
      /\ \A s \in Elems(Batch') : Ready(s)'
  BY <1>1, <1>3, <1>6, QuietFacts
<1>9. TypeOK'
  <2>1. BlockTypeOK' /\ KVTypeOK'
    BY <1>1, <1>2, <1>8 DEF AllocInv, PoolInv, KVTypeOK
  <2> QED BY <1>1, <1>2, <1>8, <2>1 DEF TypeOK
<1>10. ModeInv'
  BY <1>1 DEF ModeInv
<1>11. BatchInv'
  BY <1>1, <1>6, <1>8 DEF BatchInv, Loops
<1>12. CountInv'
  BY <1>7, <1>8 DEF CountInv
<1> QED BY <1>8, <1>9, <1>10, <1>11, <1>12

\* What a step writes into the KV cache is the KV of tokens or garbage.
LEMMA WritesAreKV ==
    ASSUME LInv, pc = "execute"
    PROVE  \A w \in Writes(prefills, decodes) \cup PaddingWrites : w.value \in Seq(Token)
<1> USE DEF LInv
<1>1. /\ prefills \in Seq(Seqs) /\ decodes \in Seq(Seqs)
      /\ \A s \in Seqs : tokens[s] \in Seq(Token) /\ cached[s] \in Nat /\ scheduled[s] \in Nat
  BY TypeFacts DEF BlockTypeOK
<1>2. Elems(prefills \o decodes) = Elems(prefills) \cup Elems(decodes)
  BY <1>1, ConcatFacts
<1>3. \A s \in Elems(prefills) \cup Elems(decodes) : s \in Seqs /\ Ready(s)
  <2>1. Batch = prefills \o decodes
    BY DEF Batch
  <2>2. \A s \in Elems(prefills) \cup Elems(decodes) : s \in Seqs
    BY <1>1 DEF Elems
  <2> QED BY <1>2, <2>1, <2>2 DEF BatchInv
<1>4. ASSUME NEW s \in Seqs, NEW p \in 0 .. NumTokens(s), NEW n PROVE KVOf(s, p, n) \in Seq(Token)
  <2>1. tokens[s] \in Seq(Token) /\ p \in 0 .. Len(tokens[s])
    BY <1>1, <1>4 DEF NumTokens
  <2>2. SubSeq(tokens[s], 1, p) \in Seq(Token)
    BY <2>1, CutFacts
  <2>3. Garbage \in Seq(Token)
    BY DEF Garbage
  <2> QED BY <2>2, <2>3 DEF KVOf
<1>5. \A s \in Elems(prefills) : \A w \in PrefillWrites(s) : w.value \in Seq(Token)
  <2> SUFFICES ASSUME NEW s \in Elems(prefills),
                      NEW p \in cached[s] + 1 .. cached[s] + scheduled[s]
               PROVE  KVOf(s, p, cached[s]) \in Seq(Token)
    BY DEF PrefillWrites
  <2>1. s \in Seqs /\ Ready(s) /\ NumTokens(s) \in Nat
    BY <1>1, <1>3 DEF NumTokens
  <2>2. p \in 0 .. NumTokens(s)
    BY <1>1, <2>1 DEF Ready
  <2> QED BY <1>4, <2>1, <2>2
<1>6. \A s \in Elems(decodes) : \A w \in DecodeWrites(s) : w.value \in Seq(Token)
  <2> SUFFICES ASSUME NEW s \in Elems(decodes)
               PROVE  KVOf(s, NumTokens(s), NumTokens(s) - 1) \in Seq(Token)
    BY DEF DecodeWrites
  <2>1. s \in Seqs /\ NumTokens(s) \in 0 .. NumTokens(s)
    BY <1>1, <1>3 DEF NumTokens
  <2> QED BY <1>4, <2>1
<1>7. \A w \in PaddingWrites : w.value \in Seq(Token)
  BY DEF PaddingWrites, PaddingSlot
<1> QED BY <1>5, <1>6, <1>7 DEF Writes

\* The batch is executed.
LEMMA ExecuteInv == ASSUME LInv, Execute PROVE LInv'
<1> USE DEF LInv
<1>1. /\ pc = "execute" /\ pc' = "post" /\ todo' = prefills \o decodes
      /\ waiting' = waiting /\ status' = status /\ running' = running
      /\ UNCHANGED <<taken, prefills, decodes, batched>>
      /\ UNCHANGED <<bmVars, scheduled, config, status, waiting>>
      /\ RunStep(Writes(prefills, decodes) \cup PaddingWrites)
  BY DEF Execute, queueVars
<1>2. /\ waiting \in Seq(Seqs) /\ running \in Seq(Seqs) /\ taken \in Seq(Seqs)
      /\ prefills \in Seq(Seqs) /\ decodes \in Seq(Seqs) /\ prefills \o decodes \in Seq(Seqs)
      /\ batched \in 0 .. MaxBatchedTokens /\ KVTypeOK
      /\ status \in [Seqs -> {"NEW", "WAITING", "RUNNING", "FINISHED"}]
  BY TypeFacts DEF TypeOK
<1>3. Queue' = Queue
  BY <1>1 DEF Queue
<1>4. Batch = prefills \o decodes /\ Batch' = prefills \o decodes
  BY <1>1 DEF Batch, Loops
<1>5. /\ AllocInv(FALSE)' /\ QueueInv' /\ \A s \in Seqs : HoldOK(s)' /\ LengthOK(s)'
      /\ config' \in Configs
      /\ MaxNumSeqs' = MaxNumSeqs /\ MaxBatchedTokens' = MaxBatchedTokens
      /\ Continuous' = Continuous
      /\ \A s \in Elems(Batch') : Ready(s)'
      /\ Continuous => \A s \in Elems(Queue') : Prompting(s)' => s = Last(Queue')
  BY <1>1, <1>3, <1>4, QuietFacts
<1>6. KVTypeOK'
  <2> DEFINE W == Writes(prefills, decodes) \cup PaddingWrites
             hit(b, o, w) == w.block = b /\ w.offset = o
  <2>1. \A w \in W : w.value \in Seq(Token)
    BY <1>1, WritesAreKV
  <2>2. kv' = [b \in Blocks |-> [o \in 1 .. BlockSize |->
                  IF \E w \in W : hit(b, o, w) THEN (CHOOSE w \in W : hit(b, o, w)).value
                  ELSE kv[b][o]]]
    BY <1>1 DEF RunStep
  <2> HIDE DEF W, hit
  <2>3. \A b \in Blocks, o \in 1 .. BlockSize :
          (IF \E w \in W : hit(b, o, w) THEN (CHOOSE w \in W : hit(b, o, w)).value
           ELSE kv[b][o]) \in Seq(Token)
    <3> SUFFICES ASSUME NEW b \in Blocks, NEW o \in 1 .. BlockSize
                 PROVE  (IF \E w \in W : hit(b, o, w)
                         THEN (CHOOSE w \in W : hit(b, o, w)).value
                         ELSE kv[b][o]) \in Seq(Token)
      OBVIOUS
    <3>1. kv[b][o] \in Seq(Token)
      BY <1>2 DEF KVTypeOK
    <3>2. (\E w \in W : hit(b, o, w)) => (CHOOSE w \in W : hit(b, o, w)) \in W
      OBVIOUS
    <3> QED BY <2>1, <3>1, <3>2
  <2>4. kv' \in [Blocks -> [1 .. BlockSize -> Seq(Token)]]
    BY <2>2, <2>3
  <2> QED BY <1>1, <1>2, <2>4 DEF KVTypeOK
<1>7. TypeOK'
  <2>1. BlockTypeOK'
    BY <1>5 DEF AllocInv, PoolInv
  <2> QED BY <1>1, <1>2, <1>5, <1>6, <2>1 DEF TypeOK
<1>8. ModeInv'
  BY <1>1 DEF ModeInv
<1>9. BatchInv'
  BY <1>1, <1>4, <1>5 DEF BatchInv, Loops
<1>10. CountInv'
  <2>1. Continuous => Len(Queue) <= MaxNumSeqs /\ Len(Queue) <= MaxBatchedTokens
    BY <1>1 DEF CountInv
  <2> QED BY <1>1, <1>3, <1>5, <2>1 DEF CountInv
<1> QED BY <1>5, <1>7, <1>8, <1>9, <1>10

\* The step ends, or there is no graph for the batch.
LEMMA StepEndsInv == ASSUME LInv, EndStep \/ ExecuteFails PROVE LInv'
<1> USE DEF LInv
<1>1. /\ \/ pc = "post" /\ pc' = "idle" /\ todo = <<>>
         \/ pc = "execute" /\ pc' = "failed"
      /\ UNCHANGED <<taken, prefills, decodes, batched, todo, kv, running>>
      /\ UNCHANGED <<bmVars, scheduled, config, status, waiting>>
  BY DEF EndStep, ExecuteFails, queueVars, batchVars
<1>2. Queue' = Queue
  BY <1>1 DEF Queue
<1>3. Batch' = <<>> /\ (pc' = "idle" => Batch = <<>>)
  BY <1>1 DEF Batch, Loops
<1>4. Elems(Batch') = {} /\ Distinct(Batch') /\ (pc' = "idle" => Elems(Batch) = {})
  BY <1>3 DEF Elems, Distinct
<1>5. /\ AllocInv(FALSE)' /\ QueueInv' /\ \A s \in Seqs : HoldOK(s)' /\ LengthOK(s)'
      /\ config' \in Configs
      /\ MaxNumSeqs' = MaxNumSeqs /\ MaxBatchedTokens' = MaxBatchedTokens
      /\ Continuous' = Continuous
      /\ Continuous /\ pc' = "idle" => \A s \in Elems(Queue') : Prompting(s)' => s = Last(Queue')
  BY <1>1, <1>2, <1>4, QuietFacts
<1>6. TypeOK'
  <2>1. BlockTypeOK' /\ KVTypeOK' /\ batched \in 0 .. MaxBatchedTokens
    BY <1>1, <1>5 DEF AllocInv, PoolInv, KVTypeOK, TypeOK
  <2> QED BY <1>1, <1>5, <2>1 DEF TypeOK
<1>7. ModeInv'
  BY <1>1 DEF ModeInv
<1>8. BatchInv'
  BY <1>1, <1>4, <1>5 DEF BatchInv, Loops
<1>9. CountInv'
  <2>1. Continuous => Len(Queue) <= MaxNumSeqs /\ Len(Queue) <= MaxBatchedTokens
    BY <1>1 DEF CountInv
  <2> QED BY <1>1, <1>2, <1>5, <2>1 DEF CountInv
<1> QED BY <1>5, <1>6, <1>7, <1>8, <1>9

\* A request is added to the end of waiting; it has no blocks.
LEMMA AddInv == ASSUME LInv, NEW s \in Seqs, Add(s) PROVE LInv'
<1> USE DEF LInv
<1>1. /\ pc = "idle" /\ pc' = pc /\ s \in config.requests /\ status[s] = "NEW"
      /\ status' = [status EXCEPT ![s] = "WAITING"] /\ waiting' = Append(waiting, s)
      /\ running' = running /\ kv' = kv
      /\ UNCHANGED <<taken, prefills, decodes, batched, todo>>
      /\ UNCHANGED <<bmVars, scheduled, config>> /\ config' = config
  BY DEF Add, batchVars
<1>2. /\ waiting \in Seq(Seqs) /\ running \in Seq(Seqs) /\ taken \in Seq(Seqs)
      /\ prefills \in Seq(Seqs) /\ decodes \in Seq(Seqs) /\ todo \in Seq(Seqs)
      /\ batched \in 0 .. MaxBatchedTokens /\ KVTypeOK
      /\ status \in [Seqs -> {"NEW", "WAITING", "RUNNING", "FINISHED"}]
  BY TypeFacts DEF TypeOK
<1>3. /\ AllocInv(FALSE)' /\ config' \in Configs /\ BlockTypeOK'
      /\ MaxNumSeqs' = MaxNumSeqs /\ MaxBatchedTokens' = MaxBatchedTokens
      /\ Continuous' = Continuous /\ EnableChunkedPrefill' = EnableChunkedPrefill
      /\ \A r \in Seqs :
           /\ table'[r] = table[r] /\ cached'[r] = cached[r]
           /\ SeqBlocks(r)' = SeqBlocks(r)
           /\ IsPrefill(r)' <=> IsPrefill(r)
           /\ status[r] # "FINISHED" \/ status'[r] = status[r] => LengthOK(r)'
  BY <1>1, AllFrame
<1>4. /\ waiting' \in Seq(Seqs) /\ Elems(waiting') = Elems(waiting) \cup {s}
      /\ Distinct(waiting') <=> Distinct(waiting) /\ s \notin Elems(waiting)
  BY <1>1, <1>2, OneMoreFacts
<1>5. /\ status' \in [Seqs -> {"NEW", "WAITING", "RUNNING", "FINISHED"}]
      /\ status'[s] = "WAITING" /\ \A r \in Seqs \ {s} : status'[r] = status[r]
  BY <1>1, <1>2
<1>6. Queue' = Queue /\ Batch = <<>> /\ Batch' = <<>>
  BY <1>1 DEF Queue, Batch, Loops
<1>7. Elems(Batch) = {} /\ Elems(Batch') = {} /\ Distinct(Batch') /\ Elems(Queue') = Elems(Queue)
  BY <1>6 DEF Elems, Distinct
<1>8. TypeOK'
  <2>1. KVTypeOK'
    BY <1>1, <1>2 DEF KVTypeOK
  <2> QED BY <1>1, <1>2, <1>3, <1>4, <1>5, <2>1 DEF TypeOK
<1>9. ModeInv'
  BY <1>1 DEF ModeInv
<1>10. QueueInv'
  <2>1. /\ Distinct(waiting) /\ \A r \in Seqs : r \in Elems(waiting) <=> status[r] = "WAITING"
        /\ Distinct(Queue) /\ \A r \in Seqs : r \in Elems(Queue) <=> status[r] = "RUNNING"
        /\ \A r \in Seqs : status[r] # "NEW" => r \in config.requests
    BY DEF QueueInv
  <2>2. Distinct(Queue)'
    BY <1>6, <2>1, Zenon DEF Distinct
  <2>3. \A r \in Seqs : r \in Elems(Queue') <=> status'[r] = "RUNNING"
    BY <1>1, <1>5, <1>7, <2>1
  <2>4. \A r \in Seqs : r \in Elems(waiting') <=> status'[r] = "WAITING"
    BY <1>4, <1>5, <2>1
  <2>5. Distinct(waiting')
    BY <1>1, <1>4, <2>1
  <2>6. \A r \in Seqs : status'[r] # "NEW" => r \in config'.requests
    BY <1>1, <1>5, <2>1
  <2> QED BY <2>2, <2>3, <2>4, <2>5, <2>6, Zenon DEF QueueInv, Elems, Distinct
<1>11. ASSUME NEW r \in Seqs PROVE HoldOK(r)' /\ LengthOK(r)'
  <2>1. LengthOK(r)'
    BY <1>1, <1>3, <1>5
  <2>2. table[r] # <<>> /\ status'[r] # "RUNNING" =>
          /\ ~Continuous /\ EnableChunkedPrefill /\ waiting # <<>> /\ r = Head(waiting)
          /\ Len(table[r]) = SeqBlocks(r)
    <3>1. CASE r = s
      <4>1. table[s] = <<>>
        <5> SUFFICES ASSUME table[s] # <<>> PROVE FALSE
          OBVIOUS
        <5>1. waiting # <<>> /\ s = Head(waiting)
          BY <1>1 DEF HoldOK
        <5>2. s \in Elems(waiting)
          BY <1>2, <5>1, HeadTailFacts
        <5> QED BY <1>1, <5>2 DEF QueueInv
      <4> QED BY <3>1, <4>1
    <3>2. CASE r # s
      BY <1>5, <3>2 DEF HoldOK
    <3> QED BY <3>1, <3>2
  <2>3. waiting # <<>> => waiting' # <<>> /\ Head(waiting') = Head(waiting)
    BY <1>1, <1>2
  <2>4. status'[r] = "RUNNING" => table[r] # <<>>
    BY <1>5 DEF HoldOK
  <2>5. pc' # "decode"
    BY <1>1
  <2>6. table'[r] = table[r] /\ SeqBlocks(r)' = SeqBlocks(r)
    BY <1>3
  <2>7. HoldOK(r)'
    BY <1>3, <2>2, <2>3, <2>4, <2>5, <2>6 DEF HoldOK
  <2> QED BY <2>1, <2>7
<1>12. BatchInv'
  BY <1>1, <1>7 DEF BatchInv, Loops
<1>13. CountInv'
  <2>1. Continuous => /\ Len(Queue) <= MaxNumSeqs /\ Len(Queue) <= MaxBatchedTokens
                      /\ \A r \in Elems(Queue) : IsPrefill(r) => r = Last(Queue)
    BY <1>1, <1>7 DEF CountInv, Prompting
  <2>2. \A r \in Elems(Queue) : r \in Seqs
    BY TypeFacts, ElemsIn
  <2>3. Continuous => \A r \in Elems(Queue') : Prompting(r)' => r = Last(Queue')
    BY <1>3, <1>6, <1>7, <2>1, <2>2 DEF Prompting
  <2>4. Continuous' =>
         \A r \in Elems(Queue') : (IF r \in Elems(Batch') THEN StillPrefill(r)' ELSE IsPrefill(r)')
                                      => r = Last(Queue')
    BY <1>3, <2>3 DEF Prompting
  <2> QED BY <1>1, <1>3, <1>6, <2>1, <2>4 DEF CountInv, Prompting
<1> QED BY <1>3, <1>8, <1>9, <1>10, <1>11, <1>12, <1>13

-----------------------------------------------------------------------------
(* Steps that schedule a running sequence *)

\* The head of running is passed to taken and to one side of the batch, where it is not yet.
LEMMA TakenFacts ==
    ASSUME LInv, NEW s \in Seqs, pc \in {"running", "decode"}, running # <<>>,
           s = Head(running), pc' = pc, status' = status, waiting' = waiting,
           taken' = Append(taken, s), running' = Tail(running), config' = config,
           \/ prefills' = Append(prefills, s) /\ decodes' = decodes
           \/ prefills' = prefills /\ decodes' = Append(decodes, s)
    PROVE  /\ taken' \in Seq(Seqs) /\ running' \in Seq(Seqs)
           /\ prefills' \in Seq(Seqs) /\ decodes' \in Seq(Seqs)
           /\ status[s] = "RUNNING" /\ table[s] # <<>>
           /\ Queue' = Queue /\ Queue = taken \o running /\ QueueInv'
           /\ s \in Elems(Queue) /\ s \notin Elems(Batch) /\ s \notin Elems(taken)
           /\ Batch' \in Seq(Seqs) /\ Batch' # <<>> /\ Distinct(Batch')
           /\ Elems(Batch') = Elems(Batch) \cup {s} /\ Elems(Batch') = Elems(taken')
           /\ Len(taken') = Len(taken) + 1
           /\ Len(prefills') + Len(decodes') = Len(prefills) + Len(decodes) + 1
<1> USE DEF LInv
<1>1. /\ waiting \in Seq(Seqs) /\ running \in Seq(Seqs) /\ taken \in Seq(Seqs)
      /\ prefills \in Seq(Seqs) /\ decodes \in Seq(Seqs)
  BY TypeFacts
<1>2. /\ taken' \in Seq(Seqs) /\ running' \in Seq(Seqs)
      /\ prefills' \in Seq(Seqs) /\ decodes' \in Seq(Seqs)
      /\ Len(taken') = Len(taken) + 1
      /\ Len(prefills') + Len(decodes') = Len(prefills) + Len(decodes) + 1
  <2>1. /\ Append(taken, s) \in Seq(Seqs) /\ Len(Append(taken, s)) = Len(taken) + 1
        /\ Tail(running) \in Seq(Seqs)
        /\ Append(prefills, s) \in Seq(Seqs) /\ Len(Append(prefills, s)) = Len(prefills) + 1
        /\ Append(decodes, s) \in Seq(Seqs) /\ Len(Append(decodes, s)) = Len(decodes) + 1
        /\ Len(prefills) \in Nat /\ Len(decodes) \in Nat
    BY <1>1
  <2>2. CASE prefills' = Append(prefills, s) /\ decodes' = decodes
    BY <1>1, <2>1, <2>2
  <2>3. CASE prefills' = prefills /\ decodes' = Append(decodes, s)
    BY <1>1, <2>1, <2>3
  <2> QED BY <2>2, <2>3
<1>3. Queue = taken \o running /\ Queue' = taken' \o running'
  BY DEF Queue
<1>4. Queue' = Queue
  BY <1>1, <1>3, MoveFacts
<1>5. s \in Elems(running) /\ Elems(Queue) = Elems(taken) \cup Elems(running)
  BY <1>1, <1>3, ConcatFacts, HeadTailFacts
<1>6. Elems(taken) \cap Elems(running) = {} /\ Distinct(Queue)
  BY <1>1, <1>3, ConcatFacts DEF QueueInv
<1>7. Batch = prefills \o decodes /\ Batch' = prefills' \o decodes'
  BY DEF Batch, Loops
<1>8. Elems(Batch) = Elems(taken) /\ Distinct(Batch)
  BY DEF BatchInv
<1>9. s \notin Elems(taken) /\ s \notin Elems(Batch) /\ s \in Elems(Queue)
  BY <1>5, <1>6, <1>8
<1>10. status[s] = "RUNNING" /\ table[s] # <<>>
  BY <1>9 DEF QueueInv, HoldOK
<1>11. QueueInv'
  <2> HIDE DEF LInv
  <2>1. QueueInv
    BY DEF LInv
  <2> QED BY <1>4, <2>1 DEF QueueInv
<1>12. /\ Append(prefills, s) \o decodes \in Seq(Seqs)
       /\ Distinct(Append(prefills, s) \o decodes)
       /\ Elems(Append(prefills, s) \o decodes) = Elems(Batch) \cup {s}
       /\ Append(prefills, s) \o decodes # <<>>
       /\ prefills \o Append(decodes, s) \in Seq(Seqs)
       /\ Distinct(prefills \o Append(decodes, s))
       /\ Elems(prefills \o Append(decodes, s)) = Elems(Batch) \cup {s}
       /\ prefills \o Append(decodes, s) # <<>>
  <2>1. Distinct(prefills \o decodes) /\ s \notin Elems(prefills \o decodes)
    BY <1>7, <1>8, <1>9
  <2>2. /\ Append(prefills, s) \o decodes \in Seq(Seqs)
        /\ Distinct(Append(prefills, s) \o decodes)
        /\ Elems(Append(prefills, s) \o decodes) = Elems(prefills \o decodes) \cup {s}
    BY <1>1, <2>1, BatchGrows
  <2>3. /\ prefills \o Append(decodes, s) \in Seq(Seqs)
        /\ Distinct(prefills \o Append(decodes, s))
        /\ Elems(prefills \o Append(decodes, s)) = Elems(prefills \o decodes) \cup {s}
    BY <1>1, <2>1, BatchGrows
  <2>4. Append(prefills, s) \o decodes # <<>> /\ prefills \o Append(decodes, s) # <<>>
    <3>1. \A x : Elems(x) # {} => x # <<>>
      BY DEF Elems
    <3> QED BY <2>2, <2>3, <3>1, Zenon
  <2> QED BY <1>7, <2>2, <2>3, <2>4
<1>13. /\ Batch' \in Seq(Seqs) /\ Distinct(Batch') /\ Elems(Batch') = Elems(Batch) \cup {s}
       /\ Batch' # <<>>
  <2>1. \/ Batch' = Append(prefills, s) \o decodes
        \/ Batch' = prefills \o Append(decodes, s)
    BY <1>7
  <2> QED BY <1>12, <2>1
<1>14. Elems(taken') = Elems(taken) \cup {s}
  BY <1>1, OneMoreFacts
<1> QED BY <1>2, <1>3, <1>4, <1>8, <1>9, <1>10, <1>11, <1>13, <1>14

\* The next token of the head of running is scheduled, with a block for it.
LEMMA DecodeFacts ==
    ASSUME LInv, NEW s \in Seqs, pc \in {"running", "decode"}, running # <<>>,
           s = Head(running), Decode(s)
    PROVE  /\ AllocInv(FALSE)' /\ KVTypeOK' /\ config' \in Configs
           /\ \A r \in Seqs : HoldOK(r)' /\ LengthOK(r)'
           /\ \A r \in Elems(Batch') : Ready(r)'
           /\ MaxNumSeqs' = MaxNumSeqs /\ MaxBatchedTokens' = MaxBatchedTokens
           /\ Continuous' = Continuous
           /\ \A r \in Seqs : IsPrefill(r)' <=> IsPrefill(r)
           /\ \A r \in Seqs \ {s} : StillPrefill(r)' <=> StillPrefill(r)
           /\ ~IsPrefill(s) => ~StillPrefill(s)'
<1> USE DEF LInv
<1>1. /\ CanAppend(s) /\ MayAppend(s) /\ scheduled' = [scheduled EXCEPT ![s] = 1]
      /\ decodes' = Append(decodes, s) /\ taken' = Append(taken, s)
      /\ running' = Tail(running) /\ pc' = pc /\ waiting' = waiting /\ status' = status
      /\ prefills' = prefills /\ todo' = todo /\ tokens' = tokens /\ cached' = cached
      /\ kv' = kv /\ config' = config
  BY DEF Decode
<1>2. /\ scheduled \in [Seqs -> Nat] /\ KVTypeOK /\ BlockTypeOK
      /\ tokens \in [Seqs -> Seq(Token)] /\ cached \in [Seqs -> Nat]
      /\ table[s] \in Seq(Blocks) /\ config \in Configs
  BY TypeFacts DEF BlockTypeOK
<1>3. /\ status[s] = "RUNNING" /\ table[s] # <<>> /\ s \notin Elems(Batch)
      /\ Elems(Batch') = Elems(Batch) \cup {s}
  BY <1>1, TakenFacts
<1>4. AllocInv(FALSE)'
  BY <1>1, AppendInv
<1>5. scheduled'[s] = 1 /\ \A r \in Seqs \ {s} : scheduled'[r] = scheduled[r]
  BY <1>1, <1>2
<1>6. scheduled' \in [Seqs -> Nat]
  BY <1>1, <1>2
<1>7. KVTypeOK'
  BY <1>1, <1>2, <1>6 DEF KVTypeOK
<1>8. \A r \in Seqs \ {s} : table'[r] = table[r]
  BY <1>1, <1>2, MayAppendPool DEF AllocInv
<1>9. /\ NumTokens(s) \in Nat \ {0} /\ SeqBlocks(s) \in Nat \ {0} /\ Len(table[s]) \in Nat
  <2>1. tokens[s] # <<>>
    BY DEF AllocInv, SeqInv
  <2> QED BY <1>2, <2>1, SeqBlocksFacts
<1>10. Len(table'[s]) = SeqBlocks(s) /\ table'[s] # <<>>
  <2>1. Len(table[s]) <= SeqBlocks(s) /\ SeqBlocks(s) <= Len(table[s]) + 1
    BY <1>3 DEF LengthOK
  <2>2. table \in [Seqs -> Seq(Blocks)]
    BY <1>2 DEF BlockTypeOK
  <2>3. CASE Len(table[s]) >= SeqBlocks(s)
    <3>1. table' = table
      BY <1>1, <1>9, <2>3 DEF MayAppend
    <3> QED BY <1>3, <1>9, <2>1, <2>3, <3>1
  <2>4. CASE Len(table[s]) < SeqBlocks(s)
    <3>1. \E b : table' = [table EXCEPT ![s] = Append(@, b)]
      <4>1. ~(Len(table[s]) >= SeqBlocks(s))
        BY <1>9, <2>4
      <4> QED BY <1>1, <4>1, Zenon DEF MayAppend
    <3>2. PICK b : table' = [table EXCEPT ![s] = Append(@, b)]
      BY <3>1
    <3>3. table'[s] = Append(table[s], b)
      BY <2>2, <3>2
    <3>4. Len(table'[s]) = Len(table[s]) + 1
      BY <1>2, <3>3
    <3> QED BY <1>9, <2>1, <2>4, <3>4
  <2> QED BY <1>9, <2>3, <2>4
<1>11. /\ NumTokens(s)' = NumTokens(s) /\ SeqBlocks(s)' = SeqBlocks(s)
       /\ NumPrompt(s)' = NumPrompt(s) /\ NumCompletion(s)' = NumCompletion(s)
       /\ IsPrefill(s)' <=> IsPrefill(s)
  BY <1>1 DEF NumTokens, SeqBlocks, CeilDiv, NumPrompt, NumCompletion, IsPrefill
<1>12. LengthOK(s) /\ cached'[s] = cached[s] /\ cached[s] \in Nat /\ NumPrompt(s) \in Nat
  BY <1>1, <1>2, RequestAssumption DEF NumPrompt
<1>13. LengthOK(s)'
  BY <1>1, <1>9, <1>10, <1>11, <1>12 DEF LengthOK
<1>14. Ready(s)'
  BY <1>5, <1>9, <1>10, <1>11, <1>12 DEF LengthOK, Ready
<1>15. ASSUME NEW r \in Seqs \ {s}
       PROVE  /\ LengthOK(r)' /\ (IsPrefill(r)' <=> IsPrefill(r))
              /\ SeqBlocks(r)' = SeqBlocks(r) /\ table'[r] = table[r]
              /\ (StillPrefill(r)' <=> StillPrefill(r)) /\ (Ready(r)' <=> Ready(r))
  BY <1>1, <1>5, <1>8, SeqFrame
<1>16. ASSUME NEW r \in Seqs PROVE HoldOK(r)'
  <2>1. EnableChunkedPrefill' = EnableChunkedPrefill /\ Continuous' = Continuous
    BY <1>1 DEF EnableChunkedPrefill, Continuous
  <2>2. CASE r = s
    BY <1>1, <1>3, <1>10, <2>2 DEF HoldOK
  <2>3. CASE r # s
    BY <1>1, <1>15, <2>1, <2>3 DEF HoldOK
  <2> QED BY <2>2, <2>3
<1>17. ASSUME NEW r \in Elems(Batch') PROVE Ready(r)'
  <2>1. CASE r = s
    BY <1>14, <2>1
  <2>2. CASE r # s
    <3>1. r \in Elems(Batch)
      BY <1>3, <1>17, <2>2
    <3>2. r \in Seqs
      <4>1. Batch \in Seq(Seqs)
        BY TypeFacts
      <4> QED BY <3>1, <4>1 DEF Elems
    <3> QED BY <1>15, <2>2, <3>1, <3>2 DEF BatchInv
  <2> QED BY <2>1, <2>2
<1>18. ~IsPrefill(s) => ~StillPrefill(s)'
  BY <1>5, <1>11, <1>12 DEF IsPrefill, StillPrefill
<1>19. /\ MaxNumSeqs' = MaxNumSeqs /\ MaxBatchedTokens' = MaxBatchedTokens
       /\ Continuous' = Continuous
  BY <1>1 DEF MaxNumSeqs, MaxBatchedTokens, Continuous
<1> QED BY <1>1, <1>2, <1>4, <1>7, <1>11, <1>13, <1>15, <1>16, <1>17, <1>18, <1>19

\* In the continuous mode the steps of the first loop are taken with room left, and then
\* nothing of the batch is still in its prompt.
LEMMA RoomFacts ==
    ASSUME LInv, pc = "running", running # <<>>, ~RunningFull
    PROVE  /\ Continuous /\ prefills = <<>> /\ batched = Len(taken) /\ Len(decodes) = Len(taken)
           /\ Len(taken) < MaxNumSeqs /\ batched < MaxBatchedTokens
           /\ Len(Queue) <= MaxNumSeqs /\ Len(Queue) <= MaxBatchedTokens
           /\ \A r \in Elems(Queue) : Prompting(r) => r = Last(Queue)
           /\ \A r \in Elems(Batch) : r \in Seqs /\ ~StillPrefill(r)
<1> USE DEF LInv
<1>1. Continuous
  BY DEF ModeInv
<1>2. /\ prefills = <<>> /\ batched = Len(taken) /\ Len(prefills) + Len(decodes) = Len(taken)
      /\ Len(Queue) <= MaxNumSeqs /\ Len(Queue) <= MaxBatchedTokens
      /\ \A r \in Elems(Queue) : Prompting(r) => r = Last(Queue)
      /\ \A r \in Elems(Batch) : StillPrefill(r) => batched = MaxBatchedTokens
  BY <1>1 DEF CountInv
<1>3. /\ taken \in Seq(Seqs) /\ decodes \in Seq(Seqs) /\ MaxNumSeqs \in Nat
      /\ MaxBatchedTokens \in Nat /\ Batch \in Seq(Seqs)
  BY TypeFacts
<1>4. Len(taken) < MaxNumSeqs /\ batched < MaxBatchedTokens /\ Len(decodes) = Len(taken)
  BY <1>2, <1>3 DEF RunningFull
<1>5. \A r \in Elems(Batch) : r \in Seqs
  BY <1>3 DEF Elems
<1> QED BY <1>1, <1>2, <1>3, <1>4, <1>5

\* A decode of the continuous mode.
LEMMA ScheduleDecodeInv == ASSUME LInv, NEW s \in Seqs, ScheduleDecode(s) PROVE LInv'
<1> USE DEF LInv
<1>1. /\ pc = "running" /\ running # <<>> /\ s = Head(running) /\ ~RunningFull /\ ~IsPrefill(s)
      /\ Decode(s) /\ batched' = batched + 1
      /\ decodes' = Append(decodes, s) /\ taken' = Append(taken, s)
      /\ running' = Tail(running) /\ pc' = pc /\ waiting' = waiting /\ status' = status
      /\ prefills' = prefills /\ todo' = todo /\ config' = config
  BY DEF ScheduleDecode, NextRunning, Decode
<1>2. /\ waiting \in Seq(Seqs) /\ taken \in Seq(Seqs) /\ todo \in Seq(Seqs)
      /\ decodes \in Seq(Seqs) /\ prefills \in Seq(Seqs)
      /\ batched \in Nat /\ MaxBatchedTokens \in Nat /\ MaxNumSeqs \in Nat
      /\ status \in [Seqs -> {"NEW", "WAITING", "RUNNING", "FINISHED"}] /\ Queue \in Seq(Seqs)
  BY TypeFacts
<1>3. /\ Continuous /\ prefills = <<>> /\ batched = Len(taken) /\ Len(decodes) = Len(taken)
      /\ Len(taken) < MaxNumSeqs /\ batched < MaxBatchedTokens
      /\ Len(Queue) <= MaxNumSeqs /\ Len(Queue) <= MaxBatchedTokens
      /\ \A r \in Elems(Queue) : Prompting(r) => r = Last(Queue)
      /\ \A r \in Elems(Batch) : r \in Seqs /\ ~StillPrefill(r)
  BY <1>1, RoomFacts
<1>4. /\ taken' \in Seq(Seqs) /\ running' \in Seq(Seqs)
      /\ prefills' \in Seq(Seqs) /\ decodes' \in Seq(Seqs)
      /\ Queue' = Queue /\ Queue = taken \o running /\ QueueInv'
      /\ s \in Elems(Queue) /\ s \notin Elems(Batch) /\ s \notin Elems(taken)
      /\ Batch' \in Seq(Seqs) /\ Batch' # <<>> /\ Distinct(Batch')
      /\ Elems(Batch') = Elems(Batch) \cup {s} /\ Elems(Batch') = Elems(taken')
      /\ Len(taken') = Len(taken) + 1
      /\ Len(prefills') + Len(decodes') = Len(prefills) + Len(decodes) + 1
  BY <1>1, TakenFacts
<1>5. /\ AllocInv(FALSE)' /\ KVTypeOK' /\ config' \in Configs
      /\ \A r \in Seqs : HoldOK(r)' /\ LengthOK(r)'
      /\ \A r \in Elems(Batch') : Ready(r)'
      /\ MaxNumSeqs' = MaxNumSeqs /\ MaxBatchedTokens' = MaxBatchedTokens
      /\ Continuous' = Continuous
      /\ \A r \in Seqs : IsPrefill(r)' <=> IsPrefill(r)
      /\ \A r \in Seqs \ {s} : StillPrefill(r)' <=> StillPrefill(r)
      /\ ~StillPrefill(s)'
  BY <1>1, DecodeFacts
<1>6. batched' \in 0 .. MaxBatchedTokens' /\ Len(prefills) = 0 /\ Len(decodes') <= MaxNumSeqs'
  BY <1>1, <1>2, <1>3, <1>4, <1>5
<1>7. TypeOK'
  <2>1. BlockTypeOK'
    BY <1>5 DEF AllocInv, PoolInv
  <2> QED BY <1>1, <1>2, <1>4, <1>5, <1>6, <2>1 DEF TypeOK
<1>8. ModeInv'
  BY <1>1, <1>3, <1>5 DEF ModeInv
<1>9. BatchInv'
  BY <1>1, <1>4, <1>5, <1>6 DEF BatchInv, Loops
<1>10. \A r \in Elems(Batch') : ~StillPrefill(r)'
  BY <1>3, <1>4, <1>5
<1>11. \A r \in Elems(Queue') : Prompting(r)' => r = Last(Queue')
  <2> SUFFICES ASSUME NEW r \in Elems(Queue), Prompting(r)'
               PROVE  r = Last(Queue)
    BY <1>4 DEF Last
  <2>1. r \notin Elems(Batch') /\ IsPrefill(r)'
    BY <1>10 DEF Prompting
  <2>2. r \notin Elems(Batch) /\ r \in Seqs
    BY <1>2, <1>4, <2>1, ElemsIn
  <2>3. Prompting(r)
    BY <1>5, <2>1, <2>2 DEF Prompting
  <2> QED BY <1>3, <2>3
<1>12. CountInv'
  <2>1. Len(Queue') <= MaxNumSeqs' /\ Len(Queue') <= MaxBatchedTokens'
    BY <1>3, <1>4, <1>5
  <2>2. /\ Len(prefills') + Len(decodes') = Len(taken') /\ Len(taken') <= batched'
        /\ prefills' = <<>> /\ batched' = Len(taken')
    BY <1>1, <1>2, <1>3, <1>4
  <2> QED BY <1>1, <1>10, <1>11, <2>1, <2>2 DEF CountInv
<1> QED BY <1>4, <1>5, <1>7, <1>8, <1>9, <1>12

\* A decode of the legacy mode.
LEMMA LegacyDecodeInv == ASSUME LInv, NEW s \in Seqs, LegacyDecode(s) PROVE LInv'
<1> USE DEF LInv
<1>1. /\ pc = "decode" /\ running # <<>> /\ s = Head(running) /\ Len(taken) < MaxNumSeqs
      /\ Decode(s) /\ batched' = batched
      /\ decodes' = Append(decodes, s) /\ taken' = Append(taken, s)
      /\ running' = Tail(running) /\ pc' = pc /\ waiting' = waiting /\ status' = status
      /\ prefills' = prefills /\ todo' = todo /\ config' = config
  BY DEF LegacyDecode, NextRunning, Decode
<1>2. /\ waiting \in Seq(Seqs) /\ todo \in Seq(Seqs) /\ MaxNumSeqs \in Nat
      /\ taken \in Seq(Seqs) /\ batched \in 0 .. MaxBatchedTokens
      /\ status \in [Seqs -> {"NEW", "WAITING", "RUNNING", "FINISHED"}]
  BY TypeFacts DEF TypeOK
<1>3. prefills = <<>> /\ decodes = taken /\ ~Continuous
  BY <1>1 DEF BatchInv, ModeInv
<1>4. /\ taken' \in Seq(Seqs) /\ running' \in Seq(Seqs)
      /\ prefills' \in Seq(Seqs) /\ decodes' \in Seq(Seqs) /\ QueueInv'
      /\ Batch' \in Seq(Seqs) /\ Batch' # <<>> /\ Distinct(Batch')
      /\ Elems(Batch') = Elems(taken') /\ Len(taken') = Len(taken) + 1
  BY <1>1, TakenFacts
<1>5. /\ AllocInv(FALSE)' /\ KVTypeOK' /\ config' \in Configs
      /\ \A r \in Seqs : HoldOK(r)' /\ LengthOK(r)'
      /\ \A r \in Elems(Batch') : Ready(r)'
      /\ MaxNumSeqs' = MaxNumSeqs /\ MaxBatchedTokens' = MaxBatchedTokens
      /\ Continuous' = Continuous
  BY <1>1, DecodeFacts
<1>6. TypeOK'
  <2>1. BlockTypeOK'
    BY <1>5 DEF AllocInv, PoolInv
  <2> QED BY <1>1, <1>2, <1>4, <1>5, <2>1 DEF TypeOK
<1>7. ModeInv'
  BY <1>1, <1>3, <1>5 DEF ModeInv
<1>8. BatchInv'
  <2>1. prefills' = <<>> /\ decodes' = taken'
    BY <1>1, <1>3
  <2>2. Len(decodes') <= MaxNumSeqs'
    BY <1>1, <1>2, <1>4, <1>5, <2>1
  <2> QED BY <1>1, <1>4, <1>5, <2>1, <2>2 DEF BatchInv, Loops
<1>9. CountInv'
  BY <1>3, <1>5 DEF CountInv
<1> QED BY <1>4, <1>5, <1>6, <1>7, <1>8, <1>9

\* A prompt under way advances by a chunk.
LEMMA ContinuePrefillInv == ASSUME LInv, NEW s \in Seqs, ContinuePrefill(s) PROVE LInv'
<1> USE DEF LInv
<1> DEFINE chunk == Smaller(PrefillLeft(s), Remaining)
<1>1. /\ pc = "running" /\ running # <<>> /\ s = Head(running) /\ ~RunningFull /\ IsPrefill(s)
      /\ scheduled' = [scheduled EXCEPT ![s] = chunk] /\ batched' = batched + chunk
      /\ prefills' = Append(prefills, s) /\ taken' = Append(taken, s)
      /\ running' = Tail(running) /\ pc' = pc /\ waiting' = waiting /\ status' = status
      /\ decodes' = decodes /\ todo' = todo /\ config' = config /\ kv' = kv
      /\ tokens' = tokens /\ cached' = cached /\ table' = table
      /\ UNCHANGED bmVars
  BY DEF ContinuePrefill, NextRunning, bmVars
<1>2. /\ waiting \in Seq(Seqs) /\ running \in Seq(Seqs) /\ taken \in Seq(Seqs)
      /\ todo \in Seq(Seqs) /\ decodes \in Seq(Seqs) /\ prefills \in Seq(Seqs)
      /\ batched \in Nat /\ MaxBatchedTokens \in Nat /\ MaxNumSeqs \in Nat
      /\ status \in [Seqs -> {"NEW", "WAITING", "RUNNING", "FINISHED"}]
      /\ Queue \in Seq(Seqs) /\ Batch \in Seq(Seqs)
      /\ BlockTypeOK /\ KVTypeOK /\ config \in Configs /\ scheduled \in [Seqs -> Nat]
      /\ cached[s] \in Nat /\ NumTokens(s) \in Nat /\ NumPrompt(s) \in Nat
  BY TypeFacts, SizeFacts
<1>3. /\ Continuous /\ prefills = <<>> /\ batched = Len(taken) /\ Len(decodes) = Len(taken)
      /\ Len(taken) < MaxNumSeqs /\ batched < MaxBatchedTokens
      /\ Len(Queue) <= MaxNumSeqs /\ Len(Queue) <= MaxBatchedTokens
      /\ \A r \in Elems(Queue) : Prompting(r) => r = Last(Queue)
      /\ \A r \in Elems(Batch) : r \in Seqs /\ ~StillPrefill(r)
  BY <1>1, RoomFacts
<1>4. /\ taken' \in Seq(Seqs) /\ running' \in Seq(Seqs)
      /\ prefills' \in Seq(Seqs) /\ decodes' \in Seq(Seqs)
      /\ status[s] = "RUNNING" /\ table[s] # <<>>
      /\ Queue' = Queue /\ Queue = taken \o running /\ QueueInv'
      /\ s \in Elems(Queue) /\ s \notin Elems(Batch) /\ s \notin Elems(taken)
      /\ Batch' \in Seq(Seqs) /\ Batch' # <<>> /\ Distinct(Batch')
      /\ Elems(Batch') = Elems(Batch) \cup {s} /\ Elems(Batch') = Elems(taken')
      /\ Len(taken') = Len(taken) + 1
      /\ Len(prefills') + Len(decodes') = Len(prefills) + Len(decodes) + 1
  BY <1>1, TakenFacts
<1>5. /\ chunk \in Nat \ {0} /\ cached[s] + chunk <= NumPrompt(s)
      /\ batched + chunk <= MaxBatchedTokens
      /\ cached[s] + chunk < NumPrompt(s) => batched + chunk = MaxBatchedTokens
  <2>1. PrefillLeft(s) \in Nat \ {0} /\ cached[s] + PrefillLeft(s) = NumPrompt(s)
    <3> HIDE DEF chunk
    <3>1. cached[s] < NumPrompt(s) /\ IsPrefill(s)
      BY <1>1, Zenon DEF IsPrefill
    <3>2. PrefillLeft(s) = NumPrompt(s) - cached[s]
      BY <3>1 DEF PrefillLeft
    <3>3. cached[s] \in Nat /\ NumPrompt(s) \in Nat
      BY <1>2
    <3> QED BY <3>1, <3>2, <3>3
  <2>2. Remaining \in Nat \ {0} /\ batched + Remaining = MaxBatchedTokens
    BY <1>2, <1>3 DEF Remaining
  <2>3. /\ chunk \in Nat \ {0} /\ chunk <= PrefillLeft(s) /\ chunk <= Remaining
        /\ chunk = PrefillLeft(s) \/ chunk = Remaining
    BY <2>1, <2>2, SmallerFacts
  <2> HIDE DEF chunk, LInv
  <2>4. /\ cached[s] \in Nat /\ NumPrompt(s) \in Nat /\ batched \in Nat
        /\ MaxBatchedTokens \in Nat
    BY <1>2
  <2> QED BY <2>1, <2>2, <2>3, <2>4
<1> HIDE DEF chunk
<1>6. /\ scheduled' \in [Seqs -> Nat] /\ scheduled'[s] = chunk
      /\ \A r \in Seqs \ {s} : scheduled'[r] = scheduled[r]
  BY <1>1, <1>2, <1>5
<1>7. AllocInv(FALSE)'
  BY <1>1, AllocKept
<1>8. /\ MaxNumSeqs' = MaxNumSeqs /\ MaxBatchedTokens' = MaxBatchedTokens
      /\ Continuous' = Continuous /\ EnableChunkedPrefill' = EnableChunkedPrefill
  BY <1>1 DEF MaxNumSeqs, MaxBatchedTokens, Continuous, EnableChunkedPrefill
<1>9. /\ \A r \in Seqs : /\ LengthOK(r)' /\ (IsPrefill(r)' <=> IsPrefill(r))
                         /\ SeqBlocks(r)' = SeqBlocks(r)
      /\ \A r \in Seqs \ {s} : /\ (StillPrefill(r)' <=> StillPrefill(r))
                               /\ (Ready(r)' <=> Ready(r))
  BY <1>1, <1>6, SeqFrame
<1>10. Ready(s)' /\ (StillPrefill(s)' => batched' = MaxBatchedTokens)
  <2>1. /\ NumTokens(s)' = NumTokens(s) /\ SeqBlocks(s)' = SeqBlocks(s)
        /\ NumPrompt(s)' = NumPrompt(s)
    BY <1>1, SeqFrame
  <2>2. Len(table[s]) = SeqBlocks(s) /\ NumPrompt(s) <= NumTokens(s)
    BY <1>1, <1>4 DEF LengthOK
  <2>3. cached[s] + chunk <= NumTokens(s) /\ chunk >= 1
    <3> HIDE DEF LInv
    <3>1. cached[s] \in Nat /\ NumTokens(s) \in Nat /\ NumPrompt(s) \in Nat
      BY <1>2
    <3> QED BY <1>5, <2>2, <3>1
  <2>4. Ready(s)'
    BY <1>1, <1>4, <1>6, <2>1, <2>2, <2>3 DEF Ready
  <2> QED BY <1>1, <1>5, <1>6, <2>1, <2>4 DEF StillPrefill
<1>11. batched' \in 0 .. MaxBatchedTokens' /\ Len(prefills) = 0 /\ Len(decodes') <= MaxNumSeqs'
  <2> HIDE DEF LInv
  <2>1. /\ batched \in Nat /\ MaxBatchedTokens \in Nat /\ MaxNumSeqs \in Nat
        /\ batched' = batched + chunk
    BY <1>1, <1>2
  <2>2. prefills = <<>> /\ Len(decodes) = Len(taken) /\ decodes' = decodes
        /\ Len(taken) < MaxNumSeqs
    BY <1>1, <1>3
  <2>3. batched + chunk \in 0 .. MaxBatchedTokens
    BY <1>5, <2>1
  <2> QED BY <1>2, <1>8, <2>1, <2>2, <2>3
<1>12. TypeOK'
  <2>1. BlockTypeOK' /\ KVTypeOK'
    BY <1>1, <1>2, <1>6, <1>7 DEF AllocInv, PoolInv, KVTypeOK
  <2>2. \A q \in {waiting', running', taken', prefills', decodes', todo'} : q \in Seq(Seqs)
    BY <1>1, <1>2, <1>4
  <2>3. config' \in Configs /\ pc' = pc /\ status' = status
    BY <1>1, <1>2
  <2> QED BY <1>2, <1>11, <2>1, <2>2, <2>3 DEF TypeOK
<1>13. ModeInv'
  BY <1>1, <1>3, <1>8 DEF ModeInv
<1>14. \A r \in Seqs : HoldOK(r)'
  BY <1>1, <1>8, <1>9 DEF HoldOK
<1>15. \A r \in Elems(Batch') : Ready(r)'
  BY <1>3, <1>4, <1>9, <1>10 DEF BatchInv
<1>16. BatchInv'
  BY <1>1, <1>4, <1>11, <1>15 DEF BatchInv, Loops
<1>17. s = Last(Queue)
  BY <1>1, <1>3, <1>4 DEF Prompting
<1>18. running' = <<>>
  <2> SUFFICES ASSUME Tail(running) # <<>> PROVE FALSE
    BY <1>1
  <2>1. Last(Tail(running)) = Last(running) /\ Tail(running) \in Seq(Seqs)
    BY <1>1, <1>2, HeadTailFacts
  <2>2. Last(running) \in Elems(Tail(running))
    BY <1>2, <2>1, HeadTailFacts
  <2>3. Last(Queue) = Last(running)
    BY <1>1, <1>2, <1>4, ConcatLast
  <2>4. Distinct(running)
    BY <1>2, <1>4, ConcatFacts DEF QueueInv
  <2>5. Head(running) \notin Elems(Tail(running))
    BY <1>1, <1>2, <2>4, HeadTailFacts
  <2> QED BY <1>1, <1>17, <2>2, <2>3, <2>5
<1>19. \A r \in Elems(Queue') : Prompting(r)' => r = Last(Queue')
  <2> SUFFICES ASSUME NEW r \in Elems(Queue), Prompting(r)', r # s
               PROVE  r = Last(Queue)
    BY <1>4, <1>17 DEF Last
  <2>1. r \in Seqs
    BY <1>2, ElemsIn
  <2>2. Prompting(r)
    BY <1>4, <1>9, <2>1 DEF Prompting
  <2> QED BY <1>3, <2>2
<1>20. \A r \in Elems(Batch') : StillPrefill(r)' => batched' = MaxBatchedTokens'
  BY <1>3, <1>4, <1>8, <1>9, <1>10
<1>21. CountInv'
  <2>1. Len(Queue') <= MaxNumSeqs' /\ Len(Queue') <= MaxBatchedTokens'
    BY <1>3, <1>4, <1>8
  <2>2. /\ Len(prefills') + Len(decodes') = Len(taken') /\ Len(taken') <= batched'
    BY <1>1, <1>2, <1>3, <1>4, <1>5, <1>11
  <2> QED BY <1>1, <1>18, <1>19, <1>20, <2>1, <2>2 DEF CountInv
<1> QED BY <1>4, <1>7, <1>9, <1>12, <1>13, <1>14, <1>16, <1>21

-----------------------------------------------------------------------------
(* Preemption *)

\* The last running sequence gives way: it is not in the batch, and in the continuous mode it
\* takes with it the one prompt that may be under way.
LEMMA PreemptInv ==
    ASSUME LInv, NEW s \in Seqs, Preempt(s) \/ LegacyPreempt(s)
    PROVE  LInv'
<1> USE DEF LInv
<1>0. running \in Seq(Seqs) /\ running # <<>> /\ running[Len(running)] \in Seqs
  <2>1. running \in Seq(Seqs) /\ running # <<>>
    BY TypeFacts DEF Preempt, LegacyPreempt, NextRunning
  <2> QED BY <2>1
<1>28. PICK v \in Seqs : v = running[Len(running)]
  BY <1>0
<1> DEFINE front == SubSeq(running, 1, Len(running) - 1)
<1>1. /\ pc \in {"running", "decode"} /\ running # <<>> /\ pc' = pc /\ running' = front
      /\ Deallocate(v, hash) /\ cached' = [cached EXCEPT ![v] = 0]
      /\ status' = [status EXCEPT ![v] = "WAITING"] /\ waiting' = <<v>> \o waiting
      /\ tokens' = tokens /\ hash' = hash /\ index' = index
      /\ taken' = taken /\ prefills' = prefills /\ decodes' = decodes
      /\ batched' = batched /\ todo' = todo
      /\ scheduled' = scheduled /\ kv' = kv /\ config' = config
  BY <1>28 DEF Preempt, LegacyPreempt, NextRunning, PreemptLast, PreemptSeq, batchVars
<1>2. /\ waiting \in Seq(Seqs) /\ running \in Seq(Seqs) /\ taken \in Seq(Seqs)
      /\ todo \in Seq(Seqs) /\ decodes \in Seq(Seqs) /\ prefills \in Seq(Seqs)
      /\ status \in [Seqs -> {"NEW", "WAITING", "RUNNING", "FINISHED"}]
      /\ Queue \in Seq(Seqs) /\ Batch \in Seq(Seqs) /\ batched \in 0 .. MaxBatchedTokens
      /\ MaxNumSeqs \in Nat /\ MaxBatchedTokens \in Nat
      /\ BlockTypeOK /\ KVTypeOK /\ config \in Configs /\ scheduled \in [Seqs -> Nat]
  BY TypeFacts DEF TypeOK
<1>3. /\ front \in Seq(Seqs) /\ v \in Seqs /\ Elems(running) = Elems(front) \cup {v}
      /\ Distinct(running) <=> Distinct(front) /\ v \notin Elems(front)
  BY <1>1, <1>2, <1>28, LastFacts
<1>4. Len(front) = Len(running) - 1 /\ Len(running) \in Nat \ {0} /\ v = Last(running)
  <2>1. Len(running) \in Nat \ {0} /\ v = Last(running)
    BY <1>1, <1>2, <1>28 DEF Last
  <2>2. Len(front) = Len(running) - 1
    BY <1>1, <1>2, FrontLength
  <2> QED BY <2>1, <2>2
<1> HIDE DEF front
<1>5. Queue = taken \o running /\ Queue' = taken \o front
  BY <1>1 DEF Queue
<1>6. /\ Elems(Queue) = Elems(taken) \cup Elems(running) /\ Distinct(running) /\ Distinct(taken)
      /\ Elems(taken) \cap Elems(running) = {}
  BY <1>2, <1>5, ConcatFacts DEF QueueInv
<1>7. /\ Elems(taken \o front) = Elems(taken) \cup Elems(front)
      /\ Distinct(taken \o front)
           <=> Distinct(taken) /\ Distinct(front) /\ Elems(taken) \cap Elems(front) = {}
      /\ Len(taken \o front) = Len(taken) + Len(front)
      /\ Len(taken \o running) = Len(taken) + Len(running)
  BY <1>2, <1>3, ConcatFacts
<1>8. /\ Elems(Queue) = Elems(taken \o front) \cup {v} /\ v \notin Elems(taken \o front)
      /\ Distinct(taken \o front) /\ v \in Elems(Queue) /\ v \notin Elems(taken)
  BY <1>3, <1>6, <1>7
<1>9. Last(Queue) = v
  BY <1>1, <1>2, <1>4, <1>5, ConcatLast
<1>10. status[v] = "RUNNING" /\ v \notin Elems(waiting) /\ v \in config.requests
  BY <1>3, <1>8 DEF QueueInv
<1>11. /\ <<v>> \o waiting \in Seq(Seqs) /\ Elems(<<v>> \o waiting) = {v} \cup Elems(waiting)
       /\ Distinct(<<v>> \o waiting)
  <2>1. <<v>> \in Seq(Seqs) /\ Elems(<<v>>) = {v} /\ Distinct(<<v>>)
    BY <1>3 DEF Elems, Distinct
  <2> DEFINE one == <<v>>
  <2> HIDE DEF one
  <2>2. /\ one \o waiting \in Seq(Seqs) /\ Elems(one \o waiting) = Elems(one) \cup Elems(waiting)
        /\ Distinct(one \o waiting)
             <=> Distinct(one) /\ Distinct(waiting) /\ Elems(one) \cap Elems(waiting) = {}
    BY <1>2, <2>1, ConcatFacts DEF one
  <2> QED BY <1>10, <2>1, <2>2 DEF one, QueueInv
<1>12. /\ status' \in [Seqs -> {"NEW", "WAITING", "RUNNING", "FINISHED"}]
       /\ status'[v] = "WAITING" /\ \A r \in Seqs \ {v} : status'[r] = status[r]
  BY <1>1, <1>2, <1>3
<1>13. AllocInv(FALSE)'
  BY <1>1, <1>3, ReleaseInv
<1>14. /\ MaxNumSeqs' = MaxNumSeqs /\ MaxBatchedTokens' = MaxBatchedTokens
       /\ Continuous' = Continuous /\ EnableChunkedPrefill' = EnableChunkedPrefill
  BY <1>1 DEF MaxNumSeqs, MaxBatchedTokens, Continuous, EnableChunkedPrefill
<1>15. /\ cached \in [Seqs -> Nat] /\ table \in [Seqs -> Seq(Blocks)]
       /\ table' = [table EXCEPT ![v] = <<>>]
  BY <1>1, <1>2 DEF BlockTypeOK, Deallocate
<1>16. /\ table'[v] = <<>> /\ cached'[v] = 0
       /\ \A r \in Seqs \ {v} : table'[r] = table[r] /\ cached'[r] = cached[r]
  BY <1>1, <1>3, <1>15
<1>17. ASSUME NEW r \in Seqs \ {v}
       PROVE  /\ LengthOK(r)' /\ (IsPrefill(r)' <=> IsPrefill(r))
              /\ (StillPrefill(r)' <=> StillPrefill(r)) /\ (Ready(r)' <=> Ready(r))
  BY <1>1, <1>12, <1>16, SeqFrame
<1>18. LengthOK(v)'
  <2>1. NumTokens(v)' = NumTokens(v) /\ NumPrompt(v)' = NumPrompt(v)
        /\ NumCompletion(v)' = NumCompletion(v)
    BY <1>1 DEF NumTokens, NumPrompt, NumCompletion
  <2>2. NumPrompt(v) \in Nat \ {0} /\ NumTokens(v) \in Nat
    BY <1>3, SizeFacts
  <2>3. NumPrompt(v) <= NumTokens(v) /\ NumCompletion(v) < MaxTokens[v]
    BY <1>3, <1>10 DEF LengthOK
  <2>4. cached'[v] < NumTokens(v)
    BY <1>16, <2>2, <2>3
  <2> QED BY <1>16, <2>1, <2>3, <2>4 DEF LengthOK
<1>19. TypeOK'
  <2>1. BlockTypeOK' /\ KVTypeOK'
    BY <1>1, <1>2, <1>13 DEF AllocInv, PoolInv, KVTypeOK
  <2> QED BY <1>1, <1>2, <1>3, <1>11, <1>12, <1>14, <2>1 DEF TypeOK
<1>20. ModeInv'
  BY <1>1, <1>14 DEF ModeInv
<1>21. QueueInv'
  <2>1. Distinct(waiting') /\ \A r \in Seqs : r \in Elems(waiting') <=> status'[r] = "WAITING"
    BY <1>1, <1>11, <1>12 DEF QueueInv
  <2>2. \A r \in Seqs : r \in Elems(taken \o front) <=> status'[r] = "RUNNING"
    BY <1>8, <1>12 DEF QueueInv
  <2>3. Distinct(Queue)' /\ \A r \in Seqs : r \in Elems(Queue)' <=> status'[r] = "RUNNING"
    <3>1. Distinct(Queue') /\ \A r \in Seqs : r \in Elems(Queue') <=> status'[r] = "RUNNING"
      BY <1>5, <1>8, <2>2
    <3> QED BY <3>1, Zenon DEF Distinct, Elems
  <2>4. \A r \in Seqs : status'[r] # "NEW" => r \in config'.requests
    BY <1>1, <1>10, <1>12 DEF QueueInv
  <2> QED BY <2>1, <2>3, <2>4 DEF QueueInv, Distinct, Elems
<1>22. ASSUME NEW r \in Seqs PROVE HoldOK(r)'
  <2>1. CASE r = v
    BY <1>12, <1>16, <2>1 DEF HoldOK
  <2>2. CASE r # v
    <3>1. table[r] # <<>> => status[r] = "RUNNING"
      BY <1>1, <2>2 DEF HoldOK, ModeInv
    <3> QED BY <1>12, <1>16, <2>2, <3>1 DEF HoldOK
  <2> QED BY <2>1, <2>2
<1>23. Batch' = Batch /\ Elems(Batch) = Elems(taken)
  BY <1>1 DEF Batch, Loops, BatchInv
<1>24. \A r \in Elems(Batch) : r \in Seqs /\ r # v
  BY <1>2, <1>8, <1>23, ElemsIn
<1>25. BatchInv'
  <2>1. \A r \in Elems(Batch') : Ready(r)'
    BY <1>17, <1>23, <1>24 DEF BatchInv
  <2> QED BY <1>1, <1>14, <1>23, <2>1 DEF BatchInv, Loops
<1>26. CountInv'
  <2> SUFFICES ASSUME Continuous PROVE CountInv'
    BY <1>14 DEF CountInv
  <2>1. /\ Len(Queue) <= MaxNumSeqs /\ Len(Queue) <= MaxBatchedTokens /\ pc = "running"
        /\ prefills = <<>> /\ batched = Len(taken)
        /\ Len(prefills) + Len(decodes) = Len(taken) /\ Len(taken) <= batched
        /\ \A r \in Elems(Queue) : Prompting(r) => r = Last(Queue)
        /\ \A r \in Elems(Batch) : StillPrefill(r) => batched = MaxBatchedTokens
    BY <1>1 DEF CountInv, ModeInv
  <2>2. Len(Queue') <= MaxNumSeqs' /\ Len(Queue') <= MaxBatchedTokens'
    <3> HIDE DEF LInv
    <3>1. /\ Len(taken) \in Nat /\ Len(front) \in Nat /\ Len(running) \in Nat
          /\ MaxNumSeqs \in Nat /\ MaxBatchedTokens \in Nat
      BY <1>2, <1>4
    <3>2. Len(Queue') <= Len(Queue) /\ Len(Queue') \in Nat /\ Len(Queue) \in Nat
      BY <1>4, <1>5, <1>7, <3>1
    <3> QED BY <1>14, <2>1, <3>1, <3>2
  <2>3. ASSUME NEW r \in Elems(Queue'), Prompting(r)' PROVE FALSE
    <3>1. r \in Elems(taken \o front)
      BY <1>5, <2>3
    <3>2. r \in Seqs /\ r # v /\ r \in Elems(Queue)
      BY <1>2, <1>8, <3>1, ElemsIn
    <3>3. Prompting(r)
      BY <1>17, <1>23, <2>3, <3>2 DEF Prompting
    <3> QED BY <1>9, <2>1, <3>2, <3>3
  <2>4. \A r \in Elems(Batch') : StillPrefill(r)' => batched' = MaxBatchedTokens'
    BY <1>1, <1>14, <1>17, <1>23, <1>24, <2>1
  <2> QED BY <1>1, <2>1, <2>2, <2>3, <2>4 DEF CountInv
<1>27. \A r \in Seqs : HoldOK(r)' /\ LengthOK(r)'
  BY <1>17, <1>18, <1>22
<1> QED BY <1>13, <1>19, <1>20, <1>21, <1>25, <1>26, <1>27

-----------------------------------------------------------------------------
(* Steps that schedule a waiting sequence *)

\* Of c blocks of m tokens that n tokens need the last is not filled by the ones before.
LEMMA LastBlockNeeded ==
    ASSUME NEW n \in Nat \ {0}, NEW m \in Nat \ {0}, NEW c \in Int, c < CeilDiv(n, m)
    PROVE  c * m < n
<1> DEFINE k == (n + m - 1) \div m
<1>1. k \in Nat /\ k * m <= n + m - 1
  OBVIOUS
<1> HIDE DEF k
<1>2. c <= k - 1
  BY <1>1 DEF CeilDiv, k
<1>3. c * m <= (k - 1) * m
  BY <1>1, <1>2
<1>4. (k - 1) * m = k * m - m
  BY <1>1
<1>5. k * m \in Nat /\ c * m \in Int
  BY <1>1
<1> QED BY <1>1, <1>3, <1>4, <1>5

\* Allocation gives the sequence all the blocks of its tokens, and the last of these tokens is
\* never found in the cache.
LEMMA AllocateFacts ==
    ASSUME AllocInv(FALSE), NEW s \in Seqs, table[s] = <<>>, CanAllocate(s), Allocate(s),
           tokens' = tokens, reserved' = reserved
    PROVE  /\ AllocInv(FALSE)'
           /\ table'[s] # <<>> /\ Len(table'[s]) = SeqBlocks(s)
           /\ cached'[s] \in Nat /\ cached'[s] < NumTokens(s)
           /\ cached'[s] = NumHits(s) * BlockSize
           /\ NumTokens(s)' = NumTokens(s) /\ SeqBlocks(s)' = SeqBlocks(s)
           /\ \A r \in Seqs \ {s} : table'[r] = table[r] /\ cached'[r] = cached[r]
<1>1. /\ PoolInv /\ BlockTypeOK /\ IndexIsCurrent /\ tokens[s] # <<>> /\ reserved[s] = <<>>
      /\ cached \in [Seqs -> Nat]
  BY DEF AllocInv, PoolInv, SeqInv, BlockTypeOK
<1>2. AllocInv(FALSE)'
  BY AllocateInv
<1>3. /\ cached' = [cached EXCEPT ![s] = NumHits(s) * BlockSize]
      /\ \A r \in Seqs \ {s} : table'[r] = table[r]
  BY <1>1, AllocatePool
<1>4. /\ NumTokens(s) \in Nat \ {0} /\ SeqBlocks(s) \in Nat \ {0}
      /\ NumHits(s) \in 0 .. SeqBlocks(s) - 1
  BY <1>1, SeqBlocksFacts, NumHitsFacts
<1>5. Len(table'[s]) = SeqBlocks(s) /\ table'[s] # <<>>
  <2>1. PICK hits \in Seq(Blocks), rest \in Seq(Blocks) :
           /\ table'[s] = hits \o rest /\ Held(s)' = Elems(hits) \cup Elems(rest)
           /\ Len(hits) = NumHits(s) /\ Len(hits) + Len(rest) = SeqBlocks(s)
           /\ \A i \in 1 .. Len(hits) :
                hash[hits[i]] = PrefixHash(s, i) /\ hash[hits[i]] # NoHash
           /\ \A b \in Elems(rest) : b \in Elems(free) /\ b \notin Elems(hits)
           /\ \A b \in Blocks : hash'[b] = IF b \in Elems(rest) THEN NoHash ELSE hash[b]
           /\ index' = {p \in index : p[2] \notin Elems(rest)}
    BY <1>1, AllocatePool
  <2>2. Len(hits \o rest) = SeqBlocks(s)
    <3>1. hits \in Seq(Blocks) /\ rest \in Seq(Blocks) /\ Len(hits) + Len(rest) = SeqBlocks(s)
      BY <2>1
    <3>2. Len(hits \o rest) = Len(hits) + Len(rest)
      BY <3>1, ConcatFacts
    <3> QED BY <3>1, <3>2
  <2>3. Len(table'[s]) = SeqBlocks(s)
    BY <2>1, <2>2
  <2>4. Len(table'[s]) # 0
    BY <1>4, <2>3
  <2>5. \A q : Len(q) # 0 => q # <<>>
    OBVIOUS
  <2> QED BY <2>3, <2>4, <2>5, Zenon
<1>6. NumHits(s) * BlockSize \in Nat /\ NumHits(s) * BlockSize < NumTokens(s)
  <2>1. NumHits(s) \in Nat /\ NumHits(s) < CeilDiv(NumTokens(s), BlockSize)
    BY <1>4 DEF SeqBlocks
  <2> QED BY <1>4, <2>1, PoolAssumption, LastBlockNeeded
<1>7. /\ cached'[s] = NumHits(s) * BlockSize
      /\ \A r \in Seqs \ {s} : cached'[r] = cached[r]
  BY <1>1, <1>3
<1>8. NumTokens(s)' = NumTokens(s) /\ SeqBlocks(s)' = SeqBlocks(s)
  BY DEF NumTokens, SeqBlocks, CeilDiv
<1> QED BY <1>2, <1>3, <1>5, <1>6, <1>7, <1>8

\* A waiting sequence is admitted to the step with its first chunk.
LEMMA AdmitInv == ASSUME LInv, NEW s \in Seqs, Admit(s) PROVE LInv'
<1> USE DEF LInv
<1>1. /\ pc = "waiting" /\ MayAdmit /\ s = Head(waiting) /\ waiting # <<>> /\ pc' = pc
      /\ Allocate(s) /\ CanAllocate(s) /\ tokens' = tokens /\ reserved' = reserved
      /\ status' = [status EXCEPT ![s] = "RUNNING"] /\ waiting' = Tail(waiting)
      /\ running' = Append(running, s) /\ prefills' = Append(prefills, s)
      /\ taken' = taken /\ decodes' = decodes /\ todo' = todo
      /\ kv' = kv /\ config' = config
      /\ Len(prefills) + Len(decodes) < MaxNumSeqs /\ Remaining > 0
  BY DEF Admit, MayAdmit
<1>2. /\ waiting \in Seq(Seqs) /\ running \in Seq(Seqs) /\ taken \in Seq(Seqs)
      /\ todo \in Seq(Seqs) /\ decodes \in Seq(Seqs) /\ prefills \in Seq(Seqs)
      /\ status \in [Seqs -> {"NEW", "WAITING", "RUNNING", "FINISHED"}]
      /\ Batch \in Seq(Seqs) /\ batched \in Nat
      /\ MaxNumSeqs \in Nat /\ MaxBatchedTokens \in Nat /\ Remaining \in Nat
      /\ BlockTypeOK /\ KVTypeOK /\ config \in Configs /\ scheduled \in [Seqs -> Nat]
  BY TypeFacts
<1>3. Continuous
  BY <1>1 DEF ModeInv
<1>4. /\ Tail(waiting) \in Seq(Seqs) /\ Elems(waiting) = {s} \cup Elems(Tail(waiting))
      /\ Distinct(waiting) <=> Distinct(Tail(waiting)) /\ s \notin Elems(Tail(waiting))
  BY <1>1, <1>2, HeadTailFacts
<1>5. status[s] = "WAITING" /\ table[s] = <<>> /\ s \in config.requests
  <2>1. status[s] = "WAITING"
    BY <1>4 DEF QueueInv
  <2> QED BY <1>3, <2>1 DEF HoldOK, QueueInv
<1>6. /\ AllocInv(FALSE)' /\ table'[s] # <<>> /\ Len(table'[s]) = SeqBlocks(s)
      /\ cached'[s] \in Nat /\ cached'[s] < NumTokens(s)
      /\ NumTokens(s)' = NumTokens(s) /\ SeqBlocks(s)' = SeqBlocks(s)
      /\ \A r \in Seqs \ {s} : table'[r] = table[r] /\ cached'[r] = cached[r]
  BY <1>1, <1>5, AllocateFacts
<1> DEFINE d == Smaller(NumTokens(s) - cached'[s], Remaining)
<1>7. PICK chunk \in Nat \ {0} :
        /\ scheduled' = [scheduled EXCEPT ![s] = chunk] /\ batched' = batched + chunk
        /\ cached'[s] + chunk <= NumTokens(s) /\ chunk <= Remaining
        /\ cached'[s] + chunk = NumTokens(s) \/ chunk = Remaining
  <2>1. scheduled' = [scheduled EXCEPT ![s] = d] /\ batched' = batched + d
    BY DEF Admit
  <2>2. NumTokens(s) \in Nat
    BY SizeFacts
  <2>3. NumTokens(s) - cached'[s] \in Nat \ {0} /\ Remaining \in Nat \ {0}
    <3> HIDE DEF d
    <3>1. cached'[s] \in Nat /\ cached'[s] < NumTokens(s)
      BY <1>6
    <3>2. Remaining > 0 /\ Remaining \in Nat
      BY <1>1, <1>2
    <3> QED BY <2>2, <3>1, <3>2
  <2>4. /\ d \in Nat \ {0} /\ d <= NumTokens(s) - cached'[s] /\ d <= Remaining
        /\ d = NumTokens(s) - cached'[s] \/ d = Remaining
    BY <2>3, SmallerFacts
  <2> HIDE DEF d
  <2>5. cached'[s] + d <= NumTokens(s) /\ (cached'[s] + d = NumTokens(s) \/ d = Remaining)
    BY <1>6, <2>2, <2>4
  <2> QED BY <2>1, <2>4, <2>5
<1> HIDE DEF d
<1>8. batched' = batched + chunk /\ batched' \in 0 .. MaxBatchedTokens /\ batched < MaxBatchedTokens
      /\ (chunk = Remaining => batched' = MaxBatchedTokens)
  BY <1>1, <1>2, <1>7 DEF Remaining
<1>9. /\ scheduled' \in [Seqs -> Nat] /\ scheduled'[s] = chunk
      /\ \A r \in Seqs \ {s} : scheduled'[r] = scheduled[r]
      /\ status' \in [Seqs -> {"NEW", "WAITING", "RUNNING", "FINISHED"}]
      /\ status'[s] = "RUNNING" /\ \A r \in Seqs \ {s} : status'[r] = status[r]
  BY <1>1, <1>2, <1>7
<1>10. /\ MaxNumSeqs' = MaxNumSeqs /\ MaxBatchedTokens' = MaxBatchedTokens
       /\ Continuous' = Continuous /\ EnableChunkedPrefill' = EnableChunkedPrefill
  BY <1>1 DEF MaxNumSeqs, MaxBatchedTokens, Continuous, EnableChunkedPrefill
<1>11. ASSUME NEW r \in Seqs \ {s}
       PROVE  /\ LengthOK(r)' /\ (IsPrefill(r)' <=> IsPrefill(r))
              /\ (StillPrefill(r)' <=> StillPrefill(r)) /\ (Ready(r)' <=> Ready(r))
  BY <1>1, <1>6, <1>9, SeqFrame
<1>12. /\ NumPrompt(s)' = NumPrompt(s) /\ NumCompletion(s)' = NumCompletion(s)
       /\ NumPrompt(s) \in Nat /\ NumTokens(s) \in Nat /\ SeqBlocks(s) \in Nat
       /\ NumPrompt(s) <= NumTokens(s) /\ NumCompletion(s) < MaxTokens[s]
  <2>1. NumPrompt(s)' = NumPrompt(s) /\ NumCompletion(s)' = NumCompletion(s)
    BY <1>6 DEF NumPrompt, NumCompletion
  <2>2. NumPrompt(s) \in Nat /\ NumTokens(s) \in Nat
    BY SizeFacts
  <2>3. tokens[s] # <<>>
    BY DEF AllocInv, SeqInv
  <2>4. SeqBlocks(s) \in Nat
    BY <1>2, <2>3, SeqBlocksFacts
  <2> QED BY <1>5, <2>1, <2>2, <2>4 DEF LengthOK
<1>13. LengthOK(s)'
  BY <1>6, <1>12 DEF LengthOK
<1>14. Ready(s)'
  BY <1>6, <1>7, <1>9 DEF Ready
<1>15. StillPrefill(s)' => batched' = MaxBatchedTokens
  <2>1. StillPrefill(s)' => cached'[s] + chunk < NumPrompt(s)
    BY <1>9, <1>12 DEF StillPrefill
  <2>2. StillPrefill(s)' => cached'[s] + chunk # NumTokens(s)
    BY <1>6, <1>7, <1>12, <2>1
  <2> QED BY <1>7, <1>8, <2>2
<1>16. Batch = prefills \o decodes /\ Batch' = Append(prefills, s) \o decodes
  BY <1>1 DEF Batch, Loops
<1>17. Queue = running /\ Queue' = running' /\ Elems(Batch) = Elems(running)
  BY <1>1 DEF Queue, BatchInv
<1>18. s \notin Elems(running) /\ Distinct(running)
  BY <1>5, <1>17 DEF QueueInv
<1>19. /\ running' \in Seq(Seqs) /\ Elems(running') = Elems(running) \cup {s} /\ Distinct(running')
       /\ Len(running') = Len(running) + 1 /\ Last(running') = s
  <2>1. /\ running' \in Seq(Seqs) /\ Elems(running') = Elems(running) \cup {s}
        /\ Distinct(running') <=> Distinct(running) /\ s \notin Elems(running)
    BY <1>1, <1>2, OneMoreFacts
  <2>2. Len(running') = Len(running) + 1 /\ running'[Len(running) + 1] = s
    BY <1>1, <1>2
  <2> QED BY <1>18, <2>1, <2>2 DEF Last
<1>20. /\ prefills' \in Seq(Seqs)
       /\ Len(prefills') + Len(decodes') = Len(prefills) + Len(decodes) + 1
  BY <1>1, <1>2
<1>21. /\ Distinct(Append(prefills, s) \o decodes)
       /\ Elems(Append(prefills, s) \o decodes) = Elems(prefills \o decodes) \cup {s}
  <2>1. Distinct(prefills \o decodes) /\ s \notin Elems(prefills \o decodes)
    BY <1>16, <1>17, <1>18 DEF BatchInv
  <2> QED BY <1>2, <2>1, BatchGrows
<1>22. /\ Distinct(Batch') /\ Elems(Batch') = Elems(Batch) \cup {s}
       /\ Elems(Batch') = Elems(running') /\ Batch' # <<>>
  <2>1. Distinct(Batch') /\ Elems(Batch') = Elems(Batch) \cup {s}
    BY <1>16, <1>21
  <2>2. Elems(<<>>) = {}
    BY DEF Elems
  <2> QED BY <1>17, <1>19, <2>1, <2>2
<1>23. TypeOK'
  <2>1. BlockTypeOK' /\ KVTypeOK'
    BY <1>1, <1>2, <1>6, <1>9 DEF AllocInv, PoolInv, KVTypeOK
  <2> QED BY <1>1, <1>2, <1>4, <1>8, <1>9, <1>10, <1>19, <1>20, <2>1 DEF TypeOK
<1>24. ModeInv'
  BY <1>1, <1>3, <1>10 DEF ModeInv
<1>25. QueueInv'
  <2>1. Distinct(waiting') /\ \A r \in Seqs : r \in Elems(waiting') <=> status'[r] = "WAITING"
    BY <1>1, <1>4, <1>9 DEF QueueInv
  <2>2. Distinct(Queue') /\ \A r \in Seqs : r \in Elems(Queue') <=> status'[r] = "RUNNING"
    BY <1>9, <1>17, <1>19 DEF QueueInv
  <2>3. \A r \in Seqs : status'[r] # "NEW" => r \in config'.requests
    BY <1>1, <1>5, <1>9 DEF QueueInv
  <2> QED BY <2>1, <2>2, <2>3, Zenon DEF QueueInv, Distinct, Elems
<1>26. \A r \in Seqs : HoldOK(r)' /\ LengthOK(r)'
  <2>1. \A r \in Seqs \ {s} : HoldOK(r)'
    BY <1>3, <1>6, <1>9 DEF HoldOK
  <2>2. HoldOK(s)'
    BY <1>6, <1>9 DEF HoldOK
  <2> QED BY <1>11, <1>13, <2>1, <2>2
<1>27. \A r \in Elems(Batch) : r \in Seqs /\ r # s
  BY <1>2, <1>17, <1>18, ElemsIn
<1>28. BatchInv'
  <2>1. \A r \in Elems(Batch') : Ready(r)'
    BY <1>11, <1>14, <1>22, <1>27 DEF BatchInv
  <2>2. Len(decodes') <= MaxNumSeqs'
    BY <1>1, <1>10 DEF BatchInv, Loops
  <2> QED BY <1>1, <1>22, <2>1, <2>2 DEF BatchInv, Loops
<1>29. CountInv'
  <2>1. /\ Len(prefills) + Len(decodes) = Len(running) /\ Len(running) <= batched
        /\ \A r \in Elems(Batch) : StillPrefill(r) => batched = MaxBatchedTokens
    BY <1>1, <1>3 DEF CountInv
  <2>2. \A r \in Elems(Batch) : ~StillPrefill(r)
    BY <1>2, <1>8, <2>1
  <2>3. \A r \in Elems(Batch') : StillPrefill(r)' => batched' = MaxBatchedTokens'
    BY <1>10, <1>11, <1>15, <1>22, <1>27, <2>2
  <2>4. \A r \in Elems(Queue') : Prompting(r)' => r = Last(Queue')
    <3> SUFFICES ASSUME NEW r \in Elems(running'), Prompting(r)', r # s PROVE FALSE
      BY <1>17, <1>19 DEF Last
    <3>1. r \in Elems(Batch) /\ r \in Elems(Batch')
      BY <1>17, <1>19, <1>22
    <3>2. r \in Seqs \ {s}
      BY <1>27, <3>1
    <3> QED BY <1>11, <2>2, <3>1, <3>2 DEF Prompting
  <2>5. /\ Len(prefills') + Len(decodes') = Len(running') /\ Len(running') <= batched'
        /\ Len(Queue') <= MaxNumSeqs' /\ Len(Queue') <= MaxBatchedTokens'
    <3>1. Len(running) \in Nat /\ Len(running') = Len(running) + 1 /\ Len(running) < MaxNumSeqs
      <4> HIDE DEF LInv
      <4>1. Len(running) \in Nat
        BY <1>2
      <4>2. Len(prefills) + Len(decodes) < MaxNumSeqs
        BY <1>1
      <4> QED BY <1>19, <2>1, <4>1, <4>2
    <3>2. Len(prefills') + Len(decodes') = Len(running')
      BY <1>20, <2>1, <3>1
    <3>3. /\ batched' = batched + chunk /\ batched \in Nat /\ chunk \in Nat \ {0}
          /\ batched' <= MaxBatchedTokens /\ Len(running) <= batched
          /\ MaxNumSeqs \in Nat /\ MaxBatchedTokens \in Nat
      BY <1>2, <1>7, <1>8, <2>1
    <3>4. /\ Len(running') <= batched' /\ Len(running') <= MaxNumSeqs
          /\ Len(running') <= MaxBatchedTokens
      BY <3>1, <3>3
    <3> QED BY <1>10, <1>17, <3>2, <3>4
  <2> QED BY <1>1, <2>3, <2>4, <2>5 DEF CountInv
<1> QED BY <1>6, <1>23, <1>24, <1>25, <1>26, <1>28, <1>29

\* In the legacy mode the head of waiting has its blocks already or gets them.
LEMMA EnsureBlocksFacts ==
    ASSUME LInv, NEW s \in Seqs, status[s] = "WAITING", EnsureBlocks(s),
           table[s] = <<>> => CanAllocate(s), tokens' = tokens, reserved' = reserved
    PROVE  /\ AllocInv(FALSE)'
           /\ table'[s] # <<>> /\ Len(table'[s]) = SeqBlocks(s)
           /\ cached'[s] \in Nat /\ cached'[s] < NumTokens(s)
           /\ Needed(s) = NumTokens(s) - cached'[s]
           /\ NumTokens(s)' = NumTokens(s) /\ SeqBlocks(s)' = SeqBlocks(s)
           /\ \A r \in Seqs \ {s} : table'[r] = table[r] /\ cached'[r] = cached[r]
<1> USE DEF LInv
<1>1. CASE table[s] = <<>>
  <2>1. Allocate(s) /\ CanAllocate(s)
    BY <1>1, Zenon DEF EnsureBlocks
  <2>2. /\ AllocInv(FALSE)'
        /\ table'[s] # <<>> /\ Len(table'[s]) = SeqBlocks(s)
        /\ cached'[s] \in Nat /\ cached'[s] < NumTokens(s)
        /\ cached'[s] = NumHits(s) * BlockSize
        /\ NumTokens(s)' = NumTokens(s) /\ SeqBlocks(s)' = SeqBlocks(s)
        /\ \A r \in Seqs \ {s} : table'[r] = table[r] /\ cached'[r] = cached[r]
    BY <1>1, <2>1, AllocateFacts
  <2>3. Needed(s) = NumTokens(s) - cached'[s]
    BY <1>1, <2>2, Zenon DEF Needed
  <2> QED BY <2>2, <2>3
<1>2. CASE table[s] # <<>>
  <2>1. UNCHANGED <<table, cached, blockVars>>
    BY <1>2, Zenon DEF EnsureBlocks
  <2>2. UNCHANGED bmVars /\ table' = table /\ cached' = cached
    BY <2>1 DEF bmVars
  <2>3. AllocInv(FALSE)'
    BY <2>2, AllocKept
  <2>4. Len(table[s]) = SeqBlocks(s) /\ cached[s] < NumTokens(s)
    BY <1>2 DEF HoldOK, LengthOK
  <2>5. cached[s] \in Nat
    BY SizeFacts
  <2>6. NumTokens(s)' = NumTokens(s) /\ SeqBlocks(s)' = SeqBlocks(s)
    BY DEF NumTokens, SeqBlocks, CeilDiv
  <2>7. Needed(s) = NumTokens(s) - cached'[s]
    BY <1>2, <2>2 DEF Needed
  <2> QED BY <1>2, <2>2, <2>3, <2>4, <2>5, <2>6, <2>7
<1> QED BY <1>1, <1>2

\* A prefill of the legacy mode: the sequence runs if the chunk is all of its tokens, and
\* stays at the head of waiting, and fills the step, otherwise.
LEMMA SchedulePrefillInv == ASSUME LInv, NEW s \in Seqs, SchedulePrefill(s) PROVE LInv'
<1> USE DEF LInv
<1>1. /\ pc = "prefill" /\ MaySchedulePrefill /\ s = Head(waiting) /\ waiting # <<>> /\ pc' = pc
      /\ EnsureBlocks(s) /\ (table[s] = <<>> => CanAllocate(s))
      /\ tokens' = tokens /\ reserved' = reserved
      /\ taken' = Append(taken, s) /\ prefills' = Append(prefills, s)
      /\ decodes' = decodes /\ todo' = todo /\ kv' = kv /\ config' = config
      /\ Remaining > 0 /\ FitsBudget(s)
  BY DEF SchedulePrefill, MaySchedulePrefill
<1>2. /\ waiting \in Seq(Seqs) /\ running \in Seq(Seqs) /\ taken \in Seq(Seqs)
      /\ todo \in Seq(Seqs) /\ decodes \in Seq(Seqs) /\ prefills \in Seq(Seqs)
      /\ status \in [Seqs -> {"NEW", "WAITING", "RUNNING", "FINISHED"}]
      /\ batched \in Nat /\ MaxNumSeqs \in Nat /\ MaxBatchedTokens \in Nat /\ Remaining \in Nat
      /\ BlockTypeOK /\ KVTypeOK /\ config \in Configs /\ scheduled \in [Seqs -> Nat]
  BY TypeFacts
<1>3. ~Continuous
  BY <1>1 DEF ModeInv
<1>4. /\ Tail(waiting) \in Seq(Seqs) /\ Elems(waiting) = {s} \cup Elems(Tail(waiting))
      /\ Distinct(waiting) <=> Distinct(Tail(waiting)) /\ s \notin Elems(Tail(waiting))
  BY <1>1, <1>2, HeadTailFacts
<1>5. status[s] = "WAITING" /\ s \in config.requests
  BY <1>4 DEF QueueInv
<1>6. /\ AllocInv(FALSE)' /\ table'[s] # <<>> /\ Len(table'[s]) = SeqBlocks(s)
      /\ cached'[s] \in Nat /\ cached'[s] < NumTokens(s)
      /\ Needed(s) = NumTokens(s) - cached'[s]
      /\ NumTokens(s)' = NumTokens(s) /\ SeqBlocks(s)' = SeqBlocks(s)
      /\ \A r \in Seqs \ {s} : table'[r] = table[r] /\ cached'[r] = cached[r]
  BY <1>1, <1>5, EnsureBlocksFacts
<1> DEFINE d == Smaller(Needed(s), Remaining)
<1>7. PICK chunk \in Nat \ {0} :
        /\ scheduled' = [scheduled EXCEPT ![s] = chunk] /\ batched' = batched + chunk
        /\ PlaceAfter(s, cached'[s] + chunk)
        /\ cached'[s] + chunk <= NumTokens(s) /\ chunk <= Remaining
        /\ cached'[s] + chunk = NumTokens(s) \/ (chunk = Remaining /\ Remaining < Needed(s))
  <2>1. /\ scheduled' = [scheduled EXCEPT ![s] = d] /\ batched' = batched + d
        /\ PlaceAfter(s, cached'[s] + d)
    BY DEF SchedulePrefill
  <2>2. NumTokens(s) \in Nat
    BY SizeFacts
  <2>3. Needed(s) \in Nat \ {0} /\ Remaining \in Nat \ {0}
    <3> HIDE DEF d
    <3>1. /\ cached'[s] \in Nat /\ cached'[s] < NumTokens(s)
          /\ Needed(s) = NumTokens(s) - cached'[s]
      BY <1>6
    <3>2. Remaining > 0 /\ Remaining \in Nat
      BY <1>1, <1>2
    <3> QED BY <2>2, <3>1, <3>2
  <2>4. /\ d \in Nat \ {0} /\ d <= Needed(s) /\ d <= Remaining
        /\ d = Needed(s) \/ d = Remaining
    BY <2>3, SmallerFacts
  <2> HIDE DEF d
  <2>5. /\ cached'[s] + d <= NumTokens(s)
        /\ cached'[s] + d = NumTokens(s) \/ (d = Remaining /\ Remaining < Needed(s))
    BY <1>6, <2>2, <2>3, <2>4
  <2> QED BY <2>1, <2>4, <2>5
<1> HIDE DEF d
<1> DEFINE runs == cached'[s] + chunk = NumTokens(s)
<1>8. batched' = batched + chunk /\ batched' \in 0 .. MaxBatchedTokens /\ batched < MaxBatchedTokens
      /\ (chunk = Remaining => batched' = MaxBatchedTokens)
  BY <1>1, <1>2, <1>7 DEF Remaining
<1>9. /\ scheduled' \in [Seqs -> Nat] /\ scheduled'[s] = chunk
      /\ \A r \in Seqs \ {s} : scheduled'[r] = scheduled[r]
  BY <1>2, <1>7
<1>10. /\ MaxNumSeqs' = MaxNumSeqs /\ MaxBatchedTokens' = MaxBatchedTokens
       /\ Continuous' = Continuous /\ EnableChunkedPrefill' = EnableChunkedPrefill
  BY <1>1 DEF MaxNumSeqs, MaxBatchedTokens, Continuous, EnableChunkedPrefill
<1>11. runs => /\ status' = [status EXCEPT ![s] = "RUNNING"]
               /\ waiting' = Tail(waiting) /\ running' = Append(running, s)
  BY <1>7 DEF PlaceAfter, Runs
<1>12. ~runs => /\ status' = status /\ waiting' = waiting /\ running' = running
                /\ batched' = MaxBatchedTokens /\ taken = <<>> /\ EnableChunkedPrefill
  <2> SUFFICES ASSUME ~runs
               PROVE  /\ status' = status /\ waiting' = waiting /\ running' = running
                      /\ batched' = MaxBatchedTokens /\ taken = <<>> /\ EnableChunkedPrefill
    OBVIOUS
  <2>1. status' = status /\ waiting' = waiting /\ running' = running
    BY <1>7 DEF PlaceAfter, queueVars
  <2>2. chunk = Remaining /\ Remaining < Needed(s)
    BY <1>7
  <2>3. NumTokens(s) \in Nat /\ Needed(s) \in Int
    BY <1>6, SizeFacts
  <2>4. ~(Remaining >= Needed(s))
    BY <1>2, <2>2, <2>3
  <2> QED BY <1>1, <1>8, <2>1, <2>2, <2>4 DEF FitsBudget
<1>13. /\ status' \in [Seqs -> {"NEW", "WAITING", "RUNNING", "FINISHED"}]
       /\ status'[s] = IF runs THEN "RUNNING" ELSE "WAITING"
       /\ \A r \in Seqs \ {s} : status'[r] = status[r]
  BY <1>2, <1>5, <1>11, <1>12
<1>14. ASSUME NEW r \in Seqs \ {s}
       PROVE  LengthOK(r)' /\ SeqBlocks(r)' = SeqBlocks(r) /\ (Ready(r)' <=> Ready(r))
  BY <1>1, <1>6, <1>9, <1>13, SeqFrame
<1>15. LengthOK(s)'
  <2>1. NumPrompt(s)' = NumPrompt(s) /\ NumCompletion(s)' = NumCompletion(s)
    BY <1>6 DEF NumPrompt, NumCompletion
  <2>2. tokens[s] # <<>>
    BY DEF AllocInv, SeqInv
  <2>3. SeqBlocks(s) \in Nat
    BY <1>2, <2>2, SeqBlocksFacts
  <2>4. NumPrompt(s) <= NumTokens(s) /\ NumCompletion(s) < MaxTokens[s]
    BY <1>5 DEF LengthOK
  <2> QED BY <1>6, <2>1, <2>3, <2>4 DEF LengthOK
<1>16. Ready(s)'
  BY <1>6, <1>7, <1>9 DEF Ready
<1>17. /\ prefills = taken /\ decodes = <<>> /\ Batch = prefills \o decodes
       /\ Batch' = prefills' \o decodes' /\ Queue = running /\ Queue' = running'
       /\ \A r \in Elems(taken) : status[r] = "RUNNING" \/ batched = MaxBatchedTokens
  BY <1>1 DEF BatchInv, Batch, Queue, Loops
<1>18. Batch = taken /\ Batch' = taken' /\ taken' \in Seq(Seqs)
  <2>1. Append(taken, s) \in Seq(Seqs)
    BY <1>2
  <2> QED BY <1>1, <1>2, <1>17, <2>1
<1>19. \A r \in Elems(taken) : r \in Seqs /\ status[r] = "RUNNING" /\ r # s /\ Ready(r)
  <2>1. \A r \in Elems(taken) : r \in Seqs /\ status[r] = "RUNNING"
    BY <1>2, <1>8, <1>17, ElemsIn
  <2> QED BY <1>5, <1>18, <2>1 DEF BatchInv
<1>20. Elems(taken') = Elems(taken) \cup {s} /\ Distinct(taken')
  <2>1. Distinct(taken) /\ s \notin Elems(taken)
    BY <1>18, <1>19 DEF BatchInv
  <2> QED BY <1>1, <1>2, <2>1, OneMoreFacts
<1>21. /\ waiting' \in Seq(Seqs) /\ Distinct(waiting')
       /\ Elems(waiting') = IF runs THEN Elems(waiting) \ {s} ELSE Elems(waiting)
  <2>1. Distinct(waiting)
    BY DEF QueueInv
  <2> QED BY <1>2, <1>4, <1>11, <1>12, <2>1
<1>22. s \notin Elems(running) /\ Distinct(running)
  BY <1>5, <1>17 DEF QueueInv
<1>23. /\ running' \in Seq(Seqs) /\ Distinct(running')
       /\ Elems(running') = IF runs THEN Elems(running) \cup {s} ELSE Elems(running)
  <2>1. /\ Append(running, s) \in Seq(Seqs) /\ Distinct(Append(running, s))
        /\ Elems(Append(running, s)) = Elems(running) \cup {s}
    BY <1>2, <1>22, OneMoreFacts
  <2>2. CASE runs
    BY <1>11, <2>1, <2>2
  <2>3. CASE ~runs
    BY <1>2, <1>12, <1>22, <2>3
  <2> QED BY <2>2, <2>3
<1>24. TypeOK'
  <2>1. BlockTypeOK' /\ KVTypeOK'
    BY <1>1, <1>2, <1>6, <1>9 DEF AllocInv, PoolInv, KVTypeOK
  <2>2. prefills' \in Seq(Seqs)
    BY <1>1, <1>2
  <2> QED BY <1>1, <1>2, <1>8, <1>10, <1>13, <1>18, <1>21, <1>23, <2>1, <2>2 DEF TypeOK
<1>25. ModeInv'
  BY <1>1, <1>3, <1>10 DEF ModeInv
<1>26. QueueInv'
  <2>1. \A r \in Seqs : r \in Elems(waiting') <=> status'[r] = "WAITING"
    BY <1>5, <1>13, <1>21 DEF QueueInv
  <2>2. Distinct(Queue') /\ \A r \in Seqs : r \in Elems(Queue') <=> status'[r] = "RUNNING"
    BY <1>13, <1>17, <1>22, <1>23 DEF QueueInv
  <2>3. \A r \in Seqs : status'[r] # "NEW" => r \in config'.requests
    BY <1>1, <1>5, <1>13 DEF QueueInv
  <2> QED BY <1>21, <2>1, <2>2, <2>3, Zenon DEF QueueInv, Distinct, Elems
<1>27. ASSUME NEW r \in Seqs PROVE HoldOK(r)' /\ LengthOK(r)'
  <2>1. CASE r # s
    <3>1. table[r] # <<>> => status[r] = "RUNNING"
      BY <1>1, <2>1 DEF HoldOK
    <3>2. HoldOK(r)'
      BY <1>6, <1>13, <2>1, <3>1 DEF HoldOK
    <3> QED BY <1>14, <2>1, <3>2
  <2>2. CASE r = s
    <3>1. CASE runs
      BY <1>6, <1>13, <1>15, <2>2, <3>1 DEF HoldOK
    <3>2. CASE ~runs
      <4>1. /\ EnableChunkedPrefill' /\ ~Continuous' /\ pc' # "decode"
            /\ waiting' # <<>> /\ s = Head(waiting') /\ status'[s] = "WAITING"
        BY <1>1, <1>3, <1>10, <1>12, <1>13, <3>2
      <4>2. HoldOK(s)'
        BY <1>6, <4>1 DEF HoldOK
      <4> QED BY <1>15, <2>2, <4>2
    <3> QED BY <3>1, <3>2
  <2> QED BY <2>1, <2>2
<1>28. BatchInv'
  <2>1. \A r \in Elems(taken') : Ready(r)'
    BY <1>14, <1>16, <1>19, <1>20
  <2>2. \A r \in Elems(taken') : status'[r] = "RUNNING" \/ batched' = MaxBatchedTokens'
    <3> SUFFICES ASSUME NEW r \in Elems(taken')
                 PROVE  status'[r] = "RUNNING" \/ batched' = MaxBatchedTokens'
      OBVIOUS
    <3>1. CASE r = s
      BY <1>10, <1>12, <1>13, <3>1
    <3>2. CASE r # s
      BY <1>13, <1>19, <1>20, <3>2
    <3> QED BY <3>1, <3>2
  <2>3. Batch' # <<>>
    <3>1. Elems(<<>>) = {}
      BY DEF Elems
    <3> QED BY <1>18, <1>20, <3>1
  <2>4. Distinct(Batch)' /\ \A r \in Elems(Batch)' : Ready(r)'
    BY <1>18, <1>20, <2>1, Zenon DEF Distinct, Elems
  <2>5. Len(decodes') <= MaxNumSeqs' /\ decodes' = <<>> /\ prefills' = taken'
    BY <1>1, <1>2, <1>10, <1>17
  <2> QED BY <1>1, <2>2, <2>3, <2>4, <2>5 DEF BatchInv, Loops
<1>29. CountInv'
  BY <1>3, <1>10 DEF CountInv
<1> QED BY <1>6, <1>24, <1>25, <1>26, <1>27, <1>28, <1>29

-----------------------------------------------------------------------------
(* Postprocessing *)

\* postprocess comes to the next sequence of the batch.
LEMMA PostFacts ==
    ASSUME LInv, NEW s \in Seqs, NextPost(s), Computed(s)
    PROVE  /\ pc = "post" /\ pc' = pc /\ Batch = todo /\ Batch' = todo' /\ Ready(s)
           /\ todo' \in Seq(Seqs) /\ Distinct(todo')
           /\ Elems(todo) = {s} \cup Elems(todo') /\ s \notin Elems(todo')
           /\ \A r \in Elems(todo') : r \in Seqs /\ r # s /\ Ready(r)
           /\ Queue = running /\ Queue' = running'
           /\ waiting' = waiting /\ taken' = taken /\ prefills' = prefills
           /\ decodes' = decodes /\ batched' = batched /\ kv' = kv /\ config' = config
           /\ scheduled' \in [Seqs -> Nat]
           /\ \A r \in Seqs \ {s} : scheduled'[r] = scheduled[r]
           /\ MaxNumSeqs' = MaxNumSeqs /\ MaxBatchedTokens' = MaxBatchedTokens
           /\ Continuous' = Continuous /\ EnableChunkedPrefill' = EnableChunkedPrefill
           /\ HashBlocks(s, scheduled[s])
<1> USE DEF LInv
<1>1. /\ pc = "post" /\ pc' = pc /\ todo # <<>> /\ s = Head(todo) /\ todo' = Tail(todo)
      /\ scheduled' = [scheduled EXCEPT ![s] = 0] /\ HashBlocks(s, scheduled[s])
      /\ waiting' = waiting /\ taken' = taken /\ prefills' = prefills
      /\ decodes' = decodes /\ batched' = batched /\ kv' = kv /\ config' = config
  BY DEF NextPost, Computed
<1>2. todo \in Seq(Seqs) /\ scheduled \in [Seqs -> Nat]
  BY TypeFacts
<1>3. /\ todo' \in Seq(Seqs) /\ Elems(todo) = {s} \cup Elems(todo')
      /\ Distinct(todo) <=> Distinct(todo') /\ s \notin Elems(todo')
  BY <1>1, <1>2, HeadTailFacts
<1>4. Batch = todo /\ Batch' = todo' /\ Queue = running /\ Queue' = running'
  BY <1>1 DEF Batch, Queue, Loops
<1>5. Distinct(todo) /\ \A r \in Elems(todo) : Ready(r)
  BY <1>4 DEF BatchInv
<1>6. \A r \in Elems(todo') : r \in Seqs
  BY <1>3, ElemsIn
<1>7. scheduled' \in [Seqs -> Nat] /\ \A r \in Seqs \ {s} : scheduled'[r] = scheduled[r]
  BY <1>1, <1>2
<1>8. /\ MaxNumSeqs' = MaxNumSeqs /\ MaxBatchedTokens' = MaxBatchedTokens
      /\ Continuous' = Continuous /\ EnableChunkedPrefill' = EnableChunkedPrefill
  BY <1>1 DEF MaxNumSeqs, MaxBatchedTokens, Continuous, EnableChunkedPrefill
<1>9. /\ Distinct(todo') /\ s \notin Elems(todo') /\ Ready(s)
      /\ \A r \in Elems(todo') : r # s /\ Ready(r)
  BY <1>3, <1>5
<1> QED BY <1>1, <1>3, <1>4, <1>6, <1>7, <1>8, <1>9

\* What it leaves alone: the other sequences.
LEMMA PostOthers ==
    ASSUME LInv, NEW s \in Seqs, NextPost(s), Computed(s),
           tokens' \in [Seqs -> Seq(Token)],
           status' \in [Seqs -> {"NEW", "WAITING", "RUNNING", "FINISHED"}],
           \A r \in Seqs \ {s} : /\ tokens'[r] = tokens[r] /\ cached'[r] = cached[r]
                                 /\ table'[r] = table[r] /\ status'[r] = status[r]
    PROVE  /\ \A r \in Seqs \ {s} : /\ LengthOK(r)' /\ HoldOK(r)'
                                    /\ (IsPrefill(r)' <=> IsPrefill(r))
                                    /\ (StillPrefill(r)' <=> StillPrefill(r))
           /\ ModeInv' /\ BatchInv'
           /\ \A r \in Seqs \ {s} : Prompting(r)' <=> Prompting(r)
           /\ ~Prompting(s)' <=> ~IsPrefill(s)'
           /\ Prompting(s) <=> StillPrefill(s)
<1> USE DEF LInv
<1>1. /\ pc = "post" /\ pc' = pc /\ Batch = todo /\ Batch' = todo'
      /\ todo' \in Seq(Seqs) /\ Distinct(todo')
      /\ Elems(todo) = {s} \cup Elems(todo') /\ s \notin Elems(todo')
      /\ \A r \in Elems(todo') : r \in Seqs /\ r # s /\ Ready(r)
      /\ waiting' = waiting /\ \A r \in Seqs \ {s} : scheduled'[r] = scheduled[r]
      /\ Continuous' = Continuous /\ EnableChunkedPrefill' = EnableChunkedPrefill
  BY PostFacts
<1>2. ASSUME NEW r \in Seqs \ {s}
      PROVE  /\ LengthOK(r)' /\ SeqBlocks(r)' = SeqBlocks(r) /\ (IsPrefill(r)' <=> IsPrefill(r))
             /\ (StillPrefill(r)' <=> StillPrefill(r)) /\ (Ready(r)' <=> Ready(r))
  <2>1. /\ tokens'[r] = tokens[r] /\ cached'[r] = cached[r] /\ table'[r] = table[r]
        /\ status'[r] = status[r] /\ scheduled'[r] = scheduled[r] /\ LengthOK(r) /\ r \in Seqs
    BY <1>1
  <2> QED BY <2>1, SeqFrame
<1>3. ASSUME NEW r \in Seqs \ {s} PROVE HoldOK(r)'
  <2>1. HoldOK(r) /\ table'[r] = table[r] /\ status'[r] = status[r]
    OBVIOUS
  <2> QED BY <1>1, <1>2, <2>1 DEF HoldOK
<1>4. ModeInv'
  BY <1>1 DEF ModeInv
<1>5. BatchInv'
  <2>1. \A r \in Elems(Batch') : Ready(r)'
    BY <1>1, <1>2
  <2> QED BY <1>1, <2>1 DEF BatchInv, Loops
<1>6. \A r \in Seqs : (r \in Elems(Batch))' <=> r \in Elems(todo')
  BY <1>1, Zenon DEF Elems
<1>7. \A r \in Seqs \ {s} : Prompting(r)' <=> Prompting(r)
  BY <1>1, <1>2, <1>6 DEF Prompting
<1>8. (~Prompting(s)' <=> ~IsPrefill(s)') /\ (Prompting(s) <=> StillPrefill(s))
  BY <1>1, <1>6 DEF Prompting
<1> QED BY <1>2, <1>3, <1>4, <1>5, <1>7, <1>8

\* A chunk of a prompt is published and counted.
LEMMA PostChunkInv == ASSUME LInv, NEW s \in Seqs, PostChunk(s) PROVE LInv'
<1> USE DEF LInv
<1>1. /\ NextPost(s) /\ Computed(s) /\ StillPrefill(s)
      /\ cached' = [cached EXCEPT ![s] = @ + scheduled[s]]
      /\ running' = running /\ status' = status /\ tokens' = tokens /\ table' = table
      /\ reserved' = reserved /\ free' = free /\ ref' = ref
  BY DEF PostChunk
<1>2. /\ pc = "post" /\ pc' = pc /\ Ready(s) /\ Queue = running /\ Queue' = running'
      /\ todo' \in Seq(Seqs) /\ scheduled' \in [Seqs -> Nat]
      /\ waiting' = waiting /\ taken' = taken /\ prefills' = prefills
      /\ decodes' = decodes /\ batched' = batched /\ kv' = kv /\ config' = config
      /\ MaxNumSeqs' = MaxNumSeqs /\ MaxBatchedTokens' = MaxBatchedTokens
      /\ Continuous' = Continuous /\ EnableChunkedPrefill' = EnableChunkedPrefill
      /\ HashBlocks(s, scheduled[s])
  BY <1>1, PostFacts
<1>3. /\ BlockTypeOK /\ KVTypeOK /\ config \in Configs
      /\ status \in [Seqs -> {"NEW", "WAITING", "RUNNING", "FINISHED"}]
      /\ waiting \in Seq(Seqs) /\ running \in Seq(Seqs) /\ taken \in Seq(Seqs)
      /\ prefills \in Seq(Seqs) /\ decodes \in Seq(Seqs) /\ batched \in 0 .. MaxBatchedTokens
      /\ cached \in [Seqs -> Nat] /\ tokens \in [Seqs -> Seq(Token)]
  BY TypeFacts DEF TypeOK, BlockTypeOK
<1>4. /\ cached[s] \in Nat /\ scheduled[s] \in Nat /\ NumTokens(s) \in Nat /\ NumPrompt(s) \in Nat
  BY SizeFacts
<1>5. /\ cached'[s] = cached[s] + scheduled[s]
      /\ \A r \in Seqs \ {s} : cached'[r] = cached[r]
  BY <1>1, <1>3
<1>6. AllocInv(FALSE)'
  <2>1. Len(table[s]) = SeqBlocks(s) /\ cached[s] + scheduled[s] <= NumTokens(s)
    BY <1>2 DEF Ready
  <2> QED BY <1>1, <1>2, <1>4, <2>1, ComputeInv
<1>7. /\ \A r \in Seqs \ {s} : LengthOK(r)' /\ HoldOK(r)' /\ (Prompting(r)' <=> Prompting(r))
      /\ ModeInv' /\ BatchInv'
      /\ ~Prompting(s)' <=> ~IsPrefill(s)'
      /\ Prompting(s) <=> StillPrefill(s)
  BY <1>1, <1>3, <1>5, PostOthers
<1>8. /\ NumTokens(s)' = NumTokens(s) /\ NumPrompt(s)' = NumPrompt(s)
      /\ SeqBlocks(s)' = SeqBlocks(s) /\ NumCompletion(s)' = NumCompletion(s)
  BY <1>1 DEF NumTokens, NumPrompt, SeqBlocks, CeilDiv, NumCompletion
<1>9. LengthOK(s)'
  <2>1. cached'[s] < NumTokens(s)
    BY <1>1, <1>4, <1>5 DEF StillPrefill, LengthOK
  <2> QED BY <1>1, <1>2, <1>8, <2>1 DEF LengthOK, Ready
<1>10. HoldOK(s)'
  <2>1. HoldOK(s) /\ table' = table /\ status' = status
    BY <1>1
  <2> QED BY <1>2, <1>8, <2>1 DEF HoldOK
<1>11. IsPrefill(s)' <=> StillPrefill(s)
  BY <1>5, <1>8 DEF IsPrefill, StillPrefill
<1>12. TypeOK'
  <2>1. BlockTypeOK' /\ KVTypeOK'
    BY <1>2, <1>3, <1>6 DEF AllocInv, PoolInv, KVTypeOK
  <2> QED BY <1>1, <1>2, <1>3, <2>1 DEF TypeOK
<1>13. QueueInv'
  <2>1. Queue' = Queue
    BY <1>1, <1>2
  <2> QED BY <1>1, <1>2, <2>1 DEF QueueInv, Distinct, Elems
<1>14. CountInv'
  <2> SUFFICES ASSUME Continuous PROVE CountInv'
    BY <1>2 DEF CountInv
  <2>1. /\ \A r \in Elems(Queue) : Prompting(r) => r = Last(Queue)
        /\ Len(Queue) <= MaxNumSeqs /\ Len(Queue) <= MaxBatchedTokens
    BY <1>2 DEF CountInv
  <2>2. \A r \in Elems(Queue) : r \in Seqs
    BY <1>2, <1>3, ElemsIn
  <2>3. \A r \in Elems(Queue) : Prompting(r)' => r = Last(Queue)
    BY <1>7, <1>11, <2>1, <2>2
  <2>4. Queue' = Queue
    BY <1>1, <1>2
  <2> QED BY <1>2, <2>1, <2>3, <2>4 DEF CountInv
<1> QED BY <1>6, <1>7, <1>9, <1>10, <1>12, <1>13, <1>14

\* One more token needs at most one more block.
LEMMA CeilDivGrows ==
    ASSUME NEW n \in Nat, NEW m \in Nat \ {0}
    PROVE  CeilDiv(n, m) <= CeilDiv(n + 1, m) /\ CeilDiv(n + 1, m) <= CeilDiv(n, m) + 1
<1> DEFINE p == (n + m - 1) \div m
           q == (n + 1 + m - 1) \div m
<1>1. p \in Nat /\ p * m <= n + m - 1 /\ n + m - 1 < (p + 1) * m
  OBVIOUS
<1>2. q \in Nat /\ q * m <= n + m /\ n + m < (q + 1) * m
  <2>1. n + 1 + m - 1 = n + m /\ n + m \in Nat
    OBVIOUS
  <2> QED BY <2>1
<1> HIDE DEF p, q
<1>3. p <= q
  <2> SUFFICES ASSUME q + 1 <= p PROVE FALSE
    BY <1>1, <1>2
  <2>1. (q + 1) * m <= p * m
    BY <1>1, <1>2
  <2> QED BY <1>1, <1>2, <2>1
<1>4. q <= p + 1
  <2> SUFFICES ASSUME p + 2 <= q PROVE FALSE
    BY <1>1, <1>2
  <2>1. (p + 2) * m <= q * m /\ (p + 2) * m = (p + 1) * m + m
    BY <1>1, <1>2
  <2> QED BY <1>1, <1>2, <2>1
<1> QED BY <1>3, <1>4 DEF CeilDiv, p, q

\* The batch only holds running sequences when a token is sampled.
LEMMA SamplerRuns ==
    ASSUME LInv, PartsArePrompts, NEW s \in Seqs, NextPost(s), Computed(s), ~StillPrefill(s)
    PROVE  status[s] = "RUNNING"
<1> USE DEF LInv
<1> SUFFICES ASSUME status[s] # "RUNNING" PROVE FALSE
  OBVIOUS
<1>1. pc = "post" /\ s \in Elems(todo) /\ Ready(s)
  BY PostFacts
<1>2. waiting # <<>> /\ s = Head(waiting)
  BY <1>1 DEF HoldOK, Ready
<1>3. s \in Elems(waiting)
  BY <1>2, TypeFacts, HeadTailFacts
<1>4. status[s] = "WAITING"
  BY <1>3 DEF QueueInv
<1> QED BY <1>1, <1>4 DEF PartsArePrompts

\* A sampled token: the sequence goes on.
LEMMA PostTokenInv ==
    ASSUME LInv, PartsArePrompts, NEW s \in Seqs, NEW token \in Token, PostToken(s, token)
    PROVE  LInv'
<1> USE DEF LInv
<1>1. /\ NextPost(s) /\ Computed(s) /\ ~StillPrefill(s) /\ ~Ends(s, token)
      /\ cached' = [cached EXCEPT ![s] = @ + scheduled[s]]
      /\ tokens' = [tokens EXCEPT ![s] = Append(@, token)]
      /\ running' = running /\ status' = status /\ table' = table
      /\ reserved' = reserved /\ free' = free /\ ref' = ref
  BY DEF PostToken
<1>2. /\ pc = "post" /\ pc' = pc /\ Ready(s) /\ Queue = running /\ Queue' = running'
      /\ todo' \in Seq(Seqs) /\ scheduled' \in [Seqs -> Nat]
      /\ waiting' = waiting /\ taken' = taken /\ prefills' = prefills
      /\ decodes' = decodes /\ batched' = batched /\ kv' = kv /\ config' = config
      /\ MaxNumSeqs' = MaxNumSeqs /\ MaxBatchedTokens' = MaxBatchedTokens
      /\ Continuous' = Continuous /\ EnableChunkedPrefill' = EnableChunkedPrefill
      /\ HashBlocks(s, scheduled[s])
  BY <1>1, PostFacts
<1>3. /\ BlockTypeOK /\ KVTypeOK /\ config \in Configs
      /\ status \in [Seqs -> {"NEW", "WAITING", "RUNNING", "FINISHED"}]
      /\ waiting \in Seq(Seqs) /\ running \in Seq(Seqs) /\ taken \in Seq(Seqs)
      /\ prefills \in Seq(Seqs) /\ decodes \in Seq(Seqs) /\ batched \in 0 .. MaxBatchedTokens
      /\ cached \in [Seqs -> Nat] /\ tokens \in [Seqs -> Seq(Token)]
  BY TypeFacts DEF TypeOK, BlockTypeOK
<1>4. /\ cached[s] \in Nat /\ scheduled[s] \in Nat /\ NumTokens(s) \in Nat /\ NumPrompt(s) \in Nat
      /\ tokens[s] \in Seq(Token)
  BY SizeFacts
<1>5. /\ cached'[s] = cached[s] + scheduled[s]
      /\ tokens'[s] = Append(tokens[s], token) /\ tokens' \in [Seqs -> Seq(Token)]
      /\ \A r \in Seqs \ {s} : cached'[r] = cached[r] /\ tokens'[r] = tokens[r]
  BY <1>1, <1>3, <1>4
<1>6. AllocInv(FALSE)'
  <2>1. Len(table[s]) = SeqBlocks(s) /\ cached[s] + scheduled[s] <= NumTokens(s)
    BY <1>2 DEF Ready
  <2> QED BY <1>1, <1>2, <1>4, <2>1, ComputeInv
<1>7. /\ \A r \in Seqs \ {s} : LengthOK(r)' /\ HoldOK(r)' /\ (Prompting(r)' <=> Prompting(r))
      /\ ModeInv' /\ BatchInv' /\ (~Prompting(s)' <=> ~IsPrefill(s)')
  BY <1>1, <1>3, <1>5, PostOthers
<1>8. /\ NumTokens(s)' = NumTokens(s) + 1 /\ NumPrompt(s)' = NumPrompt(s)
      /\ NumCompletion(s)' = NumCompletion(s) + 1
  <2>1. NumTokens(s)' = NumTokens(s) + 1 /\ NumPrompt(s)' = NumPrompt(s)
    BY <1>4, <1>5 DEF NumTokens, NumPrompt
  <2> QED BY <1>4, <2>1 DEF NumCompletion
<1>9. SeqBlocks(s) <= SeqBlocks(s)' /\ SeqBlocks(s)' <= SeqBlocks(s) + 1
  <2>1. BlockSize \in Nat \ {0}
    BY PoolAssumption
  <2>2. SeqBlocks(s)' = CeilDiv(NumTokens(s) + 1, BlockSize)
    BY <1>8 DEF SeqBlocks, CeilDiv
  <2> QED BY <1>4, <2>1, <2>2, CeilDivGrows DEF SeqBlocks
<1>10. status[s] = "RUNNING"
  BY <1>1, SamplerRuns
<1>11. ~IsPrefill(s)'
  BY <1>1, <1>4, <1>5, <1>8 DEF IsPrefill, StillPrefill
<1>12. LengthOK(s)'
  <2>1. cached'[s] < NumTokens(s)' /\ NumPrompt(s)' <= NumTokens(s)'
    <3>1. cached[s] + scheduled[s] <= NumTokens(s) /\ NumPrompt(s) <= NumTokens(s)
      BY <1>2 DEF Ready, LengthOK
    <3> HIDE DEF LInv
    <3>2. /\ cached[s] \in Nat /\ scheduled[s] \in Nat /\ NumTokens(s) \in Nat
          /\ NumPrompt(s) \in Nat
      BY <1>4
    <3> QED BY <1>5, <1>8, <3>1, <3>2
  <2>2. NumCompletion(s)' < MaxTokens[s]
    <3>1. NumCompletion(s) < MaxTokens[s] /\ NumCompletion(s) + 1 # MaxTokens[s]
      BY <1>1, <1>10 DEF LengthOK, Ends
    <3>2. NumCompletion(s) \in Int /\ MaxTokens[s] \in Nat
      BY <1>4, RequestAssumption DEF NumCompletion
    <3> QED BY <1>8, <3>1, <3>2
  <2>3. Len(table'[s]) <= SeqBlocks(s)' /\ SeqBlocks(s)' <= Len(table'[s]) + 1
    BY <1>1, <1>2, <1>9 DEF Ready
  <2> QED BY <1>11, <2>1, <2>2, <2>3 DEF LengthOK
<1>13. HoldOK(s)'
  BY <1>1, <1>2, <1>10 DEF HoldOK, Ready
<1>14. TypeOK'
  <2>1. BlockTypeOK' /\ KVTypeOK'
    BY <1>2, <1>3, <1>6 DEF AllocInv, PoolInv, KVTypeOK
  <2> QED BY <1>1, <1>2, <1>3, <2>1 DEF TypeOK
<1>15. QueueInv'
  <2>1. Queue' = Queue /\ waiting' = waiting /\ status' = status /\ config' = config
    BY <1>1, <1>2
  <2> QED BY <2>1 DEF QueueInv, Distinct, Elems
<1>16. CountInv'
  <2> SUFFICES ASSUME Continuous PROVE CountInv'
    BY <1>2 DEF CountInv
  <2>1. /\ \A r \in Elems(Queue) : Prompting(r) => r = Last(Queue)
        /\ Len(Queue) <= MaxNumSeqs /\ Len(Queue) <= MaxBatchedTokens
    BY <1>2 DEF CountInv
  <2>2. \A r \in Elems(Queue) : r \in Seqs
    BY <1>2, <1>3, ElemsIn
  <2>3. \A r \in Elems(Queue) : Prompting(r)' => r = Last(Queue)
    BY <1>7, <1>11, <2>1, <2>2
  <2>4. Queue' = Queue
    BY <1>1, <1>2
  <2> QED BY <1>2, <2>1, <2>3, <2>4 DEF CountInv
<1>17. \A r \in Seqs : HoldOK(r)' /\ LengthOK(r)'
  BY <1>7, <1>12, <1>13
<1> QED BY <1>6, <1>7, <1>14, <1>15, <1>16, <1>17

\* The blocks a finished sequence filled last are published before it lets go of them.
LEMMA FinishInv ==
    ASSUME AllocInv(FALSE), NEW s \in Seqs, NEW n \in Nat, NEW token \in Token,
           Len(table[s]) = SeqBlocks(s), cached[s] + n <= NumTokens(s), HashBlocks(s, n),
           Deallocate(s, hash'), cached' = [cached EXCEPT ![s] = 0],
           tokens' = [tokens EXCEPT ![s] = Append(@, token)]
    PROVE  /\ AllocInv(FALSE)' /\ table'[s] = <<>>
           /\ \A r \in Seqs \ {s} : table'[r] = table[r]
<1>1. /\ PoolInv /\ BlockTypeOK /\ SharedIsHashed /\ SeqInv(s, FALSE)
      /\ cached \in [Seqs -> Nat] /\ tokens \in [Seqs -> Seq(Token)]
  BY DEF AllocInv, PoolInv, BlockTypeOK
<1> DEFINE filled == {table[s][i] : i \in FilledBlocks(s, n)}
<1>2. /\ \A i \in FilledBlocks(s, n) : i \in 1 .. Len(table[s])
      /\ \A b \in filled : b \in Blocks /\ hash[b] = NoHash /\ hash'[b] # NoHash
      /\ \A b \in Blocks : b \in filled \/ hash'[b] = hash[b]
      /\ hash' \in [Blocks -> Seq(Token)] /\ index' \subseteq Seq(Token) \X Blocks
      /\ IndexIsCurrent'
  BY HashBlocksFacts
<1>3. /\ tokens' \in [Seqs -> Seq(Token)] /\ tokens'[s] # <<>>
      /\ \A r \in Seqs \ {s} : tokens'[r] = tokens[r]
  BY <1>1, TokensGrow DEF SeqInv
<1>4. /\ cached' \in [Seqs -> Nat] /\ cached'[s] = 0
      /\ \A r \in Seqs \ {s} : cached'[r] = cached[r]
  BY <1>1
<1>5. PICK h : h = hash' /\ Deallocate(s, h)
  OBVIOUS
<1>6. /\ PoolInv' /\ table'[s] = <<>> /\ reserved'[s] = <<>> /\ Held(s)' = {}
      /\ \A r \in Seqs \ {s} : table'[r] = table[r] /\ reserved'[r] = reserved[r]
  BY <1>1, <1>2, <1>3, <1>4, <1>5, DeallocatePool
<1>7. \A r \in Seqs \ {s} : Held(r)' = Held(r)
  BY <1>6 DEF Held, Elems
<1>8. \A r \in Seqs : Held(r) \subseteq Blocks
  BY <1>1, HeldFacts
\* A block without a hash has one holder: publishing does not touch the others.
<1>9. \A r \in Seqs \ {s} : \A b \in Held(r) : hash'[b] = hash[b]
  <2> SUFFICES ASSUME NEW r \in Seqs \ {s}, NEW b \in Held(r), b \in filled PROVE FALSE
    BY <1>2, <1>8
  <2>1. b \in Held(s)
    BY <1>2 DEF Held, Elems
  <2>2. hash[b] = NoHash
    BY <1>2
  <2> QED BY <1>1, <2>1, <2>2 DEF SharedIsHashed
<1>10. \A r \in Seqs \ {s} : SeqInv(r, FALSE)'
  <2>1. \A r \in Seqs \ {s} : SeqInv(r, FALSE)
    BY DEF AllocInv
  <2> QED BY <1>1, <1>3, <1>4, <1>6, <1>9, <2>1, SeqInvKept
<1>11. SeqInv(s, FALSE)'
  <2>1. Len(tokens'[s]) \in Nat
    BY <1>3
  <2>2. Len(table'[s]) = 0 /\ Elems(reserved'[s]) = {} /\ BlockSize \in Nat
    BY <1>6, PoolAssumption DEF Elems
  <2>3. 0 * BlockSize = 0
    BY <2>2
  <2>4. cached'[s] <= NumTokens(s)' /\ cached'[s] <= Len(table'[s]) * BlockSize
    BY <1>4, <2>1, <2>2, <2>3 DEF NumTokens
  <2> QED BY <1>3, <1>6, <2>2, <2>4 DEF SeqInv, Elems
<1>12. SharedIsHashed'
  BY <1>1, <1>6, <1>7, <1>9, SharedFollows
<1>13. AllocInv(FALSE)'
  BY <1>2, <1>6, <1>10, <1>11, <1>12 DEF AllocInv
<1> QED BY <1>6, <1>13

\* A sequence is finished.
LEMMA PostFinishInv ==
    ASSUME LInv, PartsArePrompts, NEW s \in Seqs, NEW token \in Token, PostFinish(s, token)
    PROVE  LInv'
<1> USE DEF LInv
<1>1. /\ NextPost(s) /\ Computed(s) /\ ~StillPrefill(s) /\ Deallocate(s, hash')
      /\ cached' = [cached EXCEPT ![s] = 0]
      /\ tokens' = [tokens EXCEPT ![s] = Append(@, token)]
      /\ running' = Kept(running, Seqs \ {s})
      /\ status' = [status EXCEPT ![s] = "FINISHED"]
  BY DEF PostFinish
<1>2. /\ pc = "post" /\ pc' = pc /\ Ready(s) /\ Queue = running /\ Queue' = running'
      /\ todo' \in Seq(Seqs) /\ scheduled' \in [Seqs -> Nat]
      /\ waiting' = waiting /\ taken' = taken /\ prefills' = prefills
      /\ decodes' = decodes /\ batched' = batched /\ kv' = kv /\ config' = config
      /\ MaxNumSeqs' = MaxNumSeqs /\ MaxBatchedTokens' = MaxBatchedTokens
      /\ Continuous' = Continuous /\ EnableChunkedPrefill' = EnableChunkedPrefill
      /\ HashBlocks(s, scheduled[s])
  BY <1>1, PostFacts
<1>3. /\ BlockTypeOK /\ KVTypeOK /\ config \in Configs
      /\ status \in [Seqs -> {"NEW", "WAITING", "RUNNING", "FINISHED"}]
      /\ waiting \in Seq(Seqs) /\ running \in Seq(Seqs) /\ taken \in Seq(Seqs)
      /\ prefills \in Seq(Seqs) /\ decodes \in Seq(Seqs) /\ batched \in 0 .. MaxBatchedTokens
      /\ cached \in [Seqs -> Nat] /\ tokens \in [Seqs -> Seq(Token)]
      /\ MaxNumSeqs \in Nat /\ MaxBatchedTokens \in Nat
  BY TypeFacts DEF TypeOK, BlockTypeOK
<1>4. /\ cached[s] \in Nat /\ scheduled[s] \in Nat /\ NumTokens(s) \in Nat /\ NumPrompt(s) \in Nat
      /\ tokens[s] \in Seq(Token)
  BY SizeFacts
<1>5. /\ cached'[s] = 0 /\ status'[s] = "FINISHED"
      /\ tokens'[s] = Append(tokens[s], token) /\ tokens' \in [Seqs -> Seq(Token)]
      /\ status' \in [Seqs -> {"NEW", "WAITING", "RUNNING", "FINISHED"}]
      /\ \A r \in Seqs \ {s} : cached'[r] = cached[r] /\ tokens'[r] = tokens[r]
      /\ \A r \in Seqs \ {s} : status'[r] = status[r]
  BY <1>1, <1>3, <1>4
<1>6. AllocInv(FALSE)' /\ table'[s] = <<>> /\ \A r \in Seqs \ {s} : table'[r] = table[r]
  <2>1. Len(table[s]) = SeqBlocks(s) /\ cached[s] + scheduled[s] <= NumTokens(s)
    BY <1>2 DEF Ready
  <2> QED BY <1>1, <1>2, <1>4, <2>1, FinishInv
<1>7. /\ \A r \in Seqs \ {s} : LengthOK(r)' /\ HoldOK(r)' /\ (Prompting(r)' <=> Prompting(r))
      /\ ModeInv' /\ BatchInv'
  BY <1>1, <1>5, <1>6, PostOthers
<1>8. /\ NumTokens(s)' = NumTokens(s) + 1 /\ NumPrompt(s)' = NumPrompt(s)
  BY <1>4, <1>5 DEF NumTokens, NumPrompt
<1>9. LengthOK(s)'
  <2>1. cached'[s] < NumTokens(s)' /\ NumPrompt(s)' <= NumTokens(s)'
    BY <1>4, <1>5, <1>8 DEF LengthOK
  <2> QED BY <1>5, <1>6, <2>1 DEF LengthOK
<1>10. status[s] = "RUNNING"
  BY <1>1, SamplerRuns
<1>11. HoldOK(s)'
  BY <1>5, <1>6 DEF HoldOK
<1>12. /\ running' \in Seq(Seqs) /\ Len(running') <= Len(running)
       /\ Elems(running') = Elems(running) \cap (Seqs \ {s})
       /\ Distinct(running) => Distinct(running')
       /\ Len(running) \in Nat /\ Len(running') \in Nat
  <2>1. /\ running' \in Seq(Seqs) /\ Len(running') <= Len(running)
        /\ Elems(running') = Elems(running) \cap (Seqs \ {s})
        /\ Distinct(running) => Distinct(running')
    BY <1>1, <1>3, KeptFacts
  <2> QED BY <1>3, <2>1
<1>13. TypeOK'
  <2>1. BlockTypeOK' /\ KVTypeOK'
    BY <1>2, <1>3, <1>6 DEF AllocInv, PoolInv, KVTypeOK
  <2> QED BY <1>2, <1>3, <1>5, <1>12, <2>1 DEF TypeOK
<1>14. QueueInv'
  <2>1. /\ Distinct(waiting) /\ \A r \in Seqs : r \in Elems(waiting) <=> status[r] = "WAITING"
        /\ Distinct(running) /\ \A r \in Seqs : r \in Elems(running) <=> status[r] = "RUNNING"
        /\ \A r \in Seqs : status[r] # "NEW" => r \in config.requests
    BY <1>2 DEF QueueInv
  <2>2. Distinct(running') /\ \A r \in Seqs : r \in Elems(running') <=> status'[r] = "RUNNING"
    BY <1>5, <1>12, <2>1
  <2>3. \A r \in Seqs : r \in Elems(waiting') <=> status'[r] = "WAITING"
    BY <1>2, <1>5, <1>10, <2>1
  <2>4. Distinct(waiting') /\ \A r \in Seqs : status'[r] # "NEW" => r \in config'.requests
    BY <1>2, <1>5, <1>10, <2>1
  <2>5. Distinct(Queue') /\ \A r \in Seqs : r \in Elems(Queue') <=> status'[r] = "RUNNING"
    BY <1>2, <2>2
  <2> QED BY <2>3, <2>4, <2>5, Zenon DEF QueueInv, Elems, Distinct
<1>15. CountInv'
  <2> SUFFICES ASSUME Continuous PROVE CountInv'
    BY <1>2 DEF CountInv
  <2>1. /\ \A r \in Elems(running) : Prompting(r) => r = Last(running)
        /\ Len(running) <= MaxNumSeqs /\ Len(running) <= MaxBatchedTokens
    BY <1>2 DEF CountInv
  <2>2. Len(running') <= MaxNumSeqs /\ Len(running') <= MaxBatchedTokens
    BY <1>3, <1>12, <2>1
  <2>3. ASSUME NEW r \in Elems(running'), Prompting(r)' PROVE r = Last(running')
    <3>1. r \in Seqs \ {s} /\ r \in Elems(running)
      BY <1>12
    <3>2. r = Last(running)
      BY <1>7, <2>1, <2>3, <3>1
    <3>3. running # <<>>
      BY <3>1 DEF Elems
    <3>4. Last(running) \in Seqs \ {s}
      BY <3>1, <3>2
    <3>5. Last(Kept(running, Seqs \ {s})) = Last(running)
      BY <1>3, <3>3, <3>4, KeptLast
    <3> QED BY <1>1, <3>2, <3>5
  <2>4. \A r \in Elems(Queue') : Prompting(r)' => r = Last(Queue')
    BY <1>2, <2>3
  <2> QED BY <1>2, <2>2, <2>4 DEF CountInv
<1>16. \A r \in Seqs : HoldOK(r)' /\ LengthOK(r)'
  BY <1>7, <1>9, <1>11
<1> QED BY <1>6, <1>7, <1>13, <1>14, <1>15, <1>16

-----------------------------------------------------------------------------
(* The invariant of every execution *)

\* The engine starts with every block free and nothing queued.
LEMMA InitInv == Init => LInv
<1> SUFFICES ASSUME Init PROVE LInv
  OBVIOUS
<1>1. /\ config \in Configs /\ BlockInit /\ KVInit /\ pc = "idle"
      /\ status = [s \in Seqs |-> "NEW"] /\ waiting = <<>> /\ running = <<>>
      /\ taken = <<>> /\ prefills = <<>> /\ decodes = <<>> /\ batched = 0 /\ todo = <<>>
  BY DEF Init
<1>2. /\ MaxNumSeqs \in Nat \ {0} /\ MaxBatchedTokens \in Nat \ {0}
  BY <1>1, ConfigAssumption DEF MaxNumSeqs, MaxBatchedTokens
<1>3. AllocInv(FALSE)
  BY <1>1, InitAllocInv
<1>4. KVTypeOK
  BY <1>1 DEF KVInit, KVTypeOK, Garbage
<1>5. TypeOK
  <2>1. BlockTypeOK /\ <<>> \in Seq(Seqs)
    BY <1>3 DEF AllocInv, PoolInv
  <2> QED BY <1>1, <1>2, <1>4, <2>1 DEF TypeOK
<1>6. Queue = <<>> /\ Batch = <<>> /\ Elems(<<>>) = {} /\ Distinct(<<>>)
  BY <1>1 DEF Queue, Batch, Loops, Elems, Distinct
<1>7. ModeInv /\ QueueInv
  BY <1>1, <1>6 DEF ModeInv, QueueInv
<1>8. BatchInv
  BY <1>1, <1>6 DEF BatchInv, Loops
<1>9. CountInv
  <2>1. Len(<<>>) = 0
    OBVIOUS
  <2> QED BY <1>1, <1>2, <1>6, <2>1 DEF CountInv
<1>10. ASSUME NEW s \in Seqs PROVE HoldOK(s) /\ LengthOK(s)
  <2>1. tokens[s] = Prompt[s] /\ cached[s] = 0 /\ table[s] = <<>> /\ status[s] = "NEW"
    BY <1>1 DEF BlockInit
  <2>2. NumTokens(s) = NumPrompt(s) /\ NumPrompt(s) \in Nat \ {0}
    BY <1>5, <2>1, SizeFacts DEF NumTokens, NumPrompt
  <2>3. NumCompletion(s) < MaxTokens[s]
    BY <2>2, RequestAssumption DEF NumCompletion
  <2> QED BY <2>1, <2>2, <2>3 DEF HoldOK, LengthOK
<1> QED BY <1>3, <1>5, <1>7, <1>8, <1>9, <1>10 DEF LInv

\* Every step keeps it, as long as what is scheduled at the head of waiting is prompt.
LEMMA NextInv == LInv /\ PartsArePrompts /\ [Next]_vars => LInv'
<1> SUFFICES ASSUME LInv, PartsArePrompts, [Next]_vars PROVE LInv'
  OBVIOUS
<1>1. CASE UNCHANGED vars
  <2>1. /\ UNCHANGED <<bmVars, scheduled, config>> /\ pc' = pc /\ kv' = kv
        /\ waiting' = waiting /\ running' = running /\ status' = status
        /\ taken' = taken /\ prefills' = prefills /\ decodes' = decodes
        /\ batched' = batched /\ todo' = todo /\ config' = config
        /\ tokens' = tokens /\ cached' = cached /\ table' = table /\ reserved' = reserved
        /\ free' = free /\ ref' = ref /\ hash' = hash /\ index' = index /\ scheduled' = scheduled
    BY <1>1 DEF vars, queueVars, batchVars, bmVars, blockVars
  <2>2. Queue' = Queue /\ Batch' = Batch
    BY <2>1 DEF Queue, Batch
  <2>3. Elems(Batch') = Elems(Batch) /\ (Distinct(Batch) => Distinct(Batch'))
    BY <2>2
  <2>4. /\ AllocInv(FALSE)' /\ QueueInv' /\ \A s \in Seqs : HoldOK(s)' /\ LengthOK(s)'
        /\ MaxNumSeqs' = MaxNumSeqs /\ MaxBatchedTokens' = MaxBatchedTokens
        /\ Continuous' = Continuous
        /\ \A s \in Elems(Batch') : Ready(s)'
        /\ \A s \in Seqs : StillPrefill(s)' <=> StillPrefill(s)
        /\ Continuous /\ pc # "failed" =>
             \A s \in Elems(Queue') : Prompting(s)' => s = Last(Queue')
    BY <2>1, <2>2, <2>3, QuietFacts
  <2>5. TypeOK'
    BY <2>1 DEF LInv, TypeOK, BlockTypeOK, KVTypeOK, MaxBatchedTokens
  <2>6. ModeInv'
    BY <2>1, <2>4 DEF LInv, ModeInv
  <2>7. BatchInv'
    BY <2>1, <2>2, <2>3, <2>4 DEF LInv, BatchInv
  <2>8. \A s \in Elems(Batch) : s \in Seqs
    BY TypeFacts, ElemsIn DEF LInv
  <2>9. CountInv'
    BY <2>1, <2>2, <2>3, <2>4, <2>8 DEF LInv, CountInv
  <2> QED BY <2>4, <2>5, <2>6, <2>7, <2>9 DEF LInv
<1>2. CASE \E s \in Seqs : Add(s)
  BY <1>2, AddInv
<1>3. CASE ContinuousStep
  BY <1>3, EndRunningInv, EndWaitingInv, ContinuePrefillInv, ScheduleDecodeInv, PreemptInv,
     AdmitInv DEF ContinuousStep
<1>4. CASE LegacyStep
  BY <1>4, EndPrefillInv, EndDecodeInv, SchedulePrefillInv, LegacyDecodeInv, PreemptInv
     DEF LegacyStep
<1>5. CASE RunBatch
  BY <1>5, BeginStepInv, ExecuteInv, StepEndsInv, PostChunkInv, PostTokenInv, PostFinishInv
     DEF RunBatch
<1> QED BY <1>1, <1>2, <1>3, <1>4, <1>5 DEF Next, EngineStep

\* The invariant of the engine.  In legacy mode a sequence that was preempted after it had
\* sampled tokens may be scheduled in part at the head of waiting; the code then samples from
\* a partial context, and this theorem is about the executions in which it does not come to that.
THEOREM EngineInvariant == Spec /\ []PartsArePrompts => []LInv
<1>1. Init => LInv
  BY InitInv
<1>2. LInv /\ PartsArePrompts /\ [Next]_vars => LInv'
  BY NextInv
<1> QED BY <1>1, <1>2, PTL DEF Spec

-----------------------------------------------------------------------------
(* What the invariant says *)

\* Between the loops the queues, the statuses and the tables agree.
LEMMA InvQueuesAgree == LInv => QueuesAgree
<1> SUFFICES ASSUME LInv, pc \in {"idle", "execute", "post"}, NEW s \in Seqs
             PROVE  /\ status[s] = "RUNNING" <=> s \in Elems(running)
                    /\ status[s] = "WAITING" <=> s \in Elems(waiting)
                    /\ table[s] # <<>> =>
                          \/ s \in Elems(running)
                          \/ (~Continuous /\ waiting # <<>> /\ s = Head(waiting))
  BY DEF QueuesAgree
<1>1. Queue = running
  BY DEF Queue
<1>2. QueueInv /\ HoldOK(s)
  BY DEF LInv
<1>3. status[s] = "RUNNING" <=> s \in Elems(running)
  BY <1>1, <1>2 DEF QueueInv
<1>4. status[s] = "WAITING" <=> s \in Elems(waiting)
  BY <1>2 DEF QueueInv
<1> QED BY <1>2, <1>3, <1>4 DEF HoldOK

\* What is in the batch is computed for tokens whose blocks are all there.
LEMMA BatchTokens ==
    ASSUME LInv, NEW s \in Elems(Batch)
    PROVE  /\ s \in Seqs /\ cached[s] \in Nat /\ scheduled[s] \in Nat \ {0}
           /\ NumTokens(s) \in Nat \ {0} /\ cached[s] + scheduled[s] <= NumTokens(s)
           /\ cached[s] < NumTokens(s)
           /\ table[s] \in Seq(Blocks) /\ Len(table[s]) = SeqBlocks(s)
           /\ \A p \in 1 .. NumTokens(s) : SlotIndex(p) \in 1 .. Len(table[s])
<1>1. s \in Seqs /\ Ready(s) /\ TypeOK
  BY TypeFacts, ElemsIn DEF LInv, BatchInv
<1>2. /\ cached[s] \in Nat /\ scheduled[s] \in Nat /\ NumTokens(s) \in Nat
      /\ table[s] \in Seq(Blocks)
  BY <1>1, SizeFacts
<1>3. /\ scheduled[s] >= 1 /\ cached[s] + scheduled[s] <= NumTokens(s)
      /\ Len(table[s]) = SeqBlocks(s)
  BY <1>1 DEF Ready
<1>4. ASSUME NEW p \in 1 .. NumTokens(s) PROVE SlotIndex(p) \in 1 .. Len(table[s])
  <2>1. SlotIndex(p) <= CeilDiv(NumTokens(s), BlockSize) /\ SlotIndex(p) \in Nat \ {0}
    BY <1>2, SlotInBlocks
  <2>2. Len(table[s]) \in Nat /\ SlotIndex(p) <= Len(table[s])
    BY <1>2, <1>3, <2>1 DEF SeqBlocks
  <2> QED BY <2>1, <2>2
<1> QED BY <1>1, <1>2, <1>3, <1>4

\* Division is monotone.
LEMMA DivGrows ==
    ASSUME NEW m \in Nat, NEW n \in Nat, NEW size \in Nat \ {0}, m <= n
    PROVE  m \div size \in Nat /\ n \div size \in Nat /\ m \div size <= n \div size
<1>1. PICK k \in Nat : n = m + k
  BY n - m \in Nat, n = m + (n - m)
<1>2. m \div size \in Nat /\ m \div size <= (m + k) \div size
  OBVIOUS
<1>3. n \div size \in Nat
  OBVIOUS
<1> QED BY <1>1, <1>2, <1>3

\* The slots behind the cached tokens lie in blocks that were not published, and these have
\* one holder.
LEMMA NewSlotsArePrivate ==
    ASSUME LInv, NEW s \in Elems(Batch), NEW p \in cached[s] + 1 .. NumTokens(s)
    PROVE  /\ SlotIndex(p) \in 1 .. Len(table[s])
           /\ hash[table[s][SlotIndex(p)]] = NoHash
           /\ Holders(table[s][SlotIndex(p)]) = {s}
<1>1. /\ s \in Seqs /\ cached[s] \in Nat /\ NumTokens(s) \in Nat \ {0}
      /\ \A q \in 1 .. NumTokens(s) : SlotIndex(q) \in 1 .. Len(table[s])
  BY BatchTokens
<1>2. p \in 1 .. NumTokens(s) /\ p \in Nat \ {0} /\ p > cached[s]
  BY <1>1
<1> DEFINE i == SlotIndex(p)
           k == cached[s] \div BlockSize
           b == table[s][i]
<1>3. i \in 1 .. Len(table[s])
  BY <1>1, <1>2
<1>4. i > k /\ k \in Nat
  <2> DEFINE q == p - 1
             c == cached[s]
  <2>1. BlockSize \in Nat \ {0} /\ q \in Nat /\ c \in Nat /\ c <= q
    BY <1>1, <1>2, PoolAssumption
  <2> HIDE DEF q, c
  <2>2. c \div BlockSize \in Nat /\ q \div BlockSize \in Nat /\ c \div BlockSize <= q \div BlockSize
    BY <2>1, DivGrows
  <2>3. i = q \div BlockSize + 1 /\ k = c \div BlockSize
    BY DEF SlotIndex, q, c
  <2> HIDE DEF i, k
  <2>4. i > k /\ k \in Nat
    BY <2>2, <2>3
  <2> QED BY <2>4
<1>5. SeqInv(s, FALSE) /\ SharedIsHashed /\ BlockTypeOK
  BY <1>1 DEF LInv, AllocInv, PoolInv
<1>6. k \in Nat /\ i \in Nat
  BY <1>3, <1>4
<1> HIDE DEF i, k
<1>7. hash[b] = NoHash
  BY <1>3, <1>4, <1>5, <1>6 DEF SeqInv, k
<1>8. b \in Held(s)
  BY <1>3 DEF Held, Elems
<1>9. \A r \in Seqs : b \in Held(r) => r = s
  BY <1>1, <1>5, <1>7, <1>8 DEF SharedIsHashed
<1>10. Holders(b) = {s}
  BY <1>1, <1>8, <1>9 DEF Holders, Held
<1> QED BY <1>3, <1>7, <1>10 DEF i

\* Nothing is written into a block that another sequence holds or that was published.
LEMMA InvWritesPrivate == LInv => WritesArePrivate
<1> SUFFICES ASSUME LInv, pc = "execute", NEW s \in Elems(prefills \o decodes),
                    NEW w \in IF s \in Elems(prefills) THEN PrefillWrites(s) ELSE DecodeWrites(s)
             PROVE  hash[w.block] = NoHash /\ Holders(w.block) = {s}
  BY DEF WritesArePrivate
<1>1. s \in Elems(Batch)
  BY DEF Batch
<1>2. /\ s \in Seqs /\ cached[s] \in Nat /\ scheduled[s] \in Nat \ {0}
      /\ NumTokens(s) \in Nat \ {0} /\ cached[s] + scheduled[s] <= NumTokens(s)
      /\ cached[s] < NumTokens(s)
      /\ table[s] \in Seq(Blocks) /\ Len(table[s]) = SeqBlocks(s)
  BY <1>1, BatchTokens
<1>3. CASE s \in Elems(prefills)
  <2>1. PICK p \in cached[s] + 1 .. cached[s] + scheduled[s] : w.block = SlotBlock(s, p)
    BY <1>3 DEF PrefillWrites
  <2>2. p \in cached[s] + 1 .. NumTokens(s) /\ w.block = table[s][SlotIndex(p)]
    BY <1>2, <2>1 DEF SlotBlock, SlotIndex
  <2> QED BY <1>1, <2>2, NewSlotsArePrivate
<1>4. CASE s \notin Elems(prefills)
  <2>1. w.block = table[s][Len(table[s])]
    BY <1>4 DEF DecodeWrites
  <2>2. Len(table[s]) = SlotIndex(NumTokens(s))
    BY <1>2, SlotFacts DEF SeqBlocks
  <2>3. NumTokens(s) \in cached[s] + 1 .. NumTokens(s)
    BY <1>2
  <2>4. w.block = table[s][SlotIndex(NumTokens(s))]
    BY <2>1, <2>2
  <2>5. PICK p \in cached[s] + 1 .. NumTokens(s) : p = NumTokens(s)
    BY <2>3
  <2> QED BY <1>1, <2>4, <2>5, NewSlotsArePrivate
<1> QED BY <1>3, <1>4

\* Phase 1 always has room for the sequences it comes to.
LEMMA InvNobodySkipped == LInv => NobodyIsSkipped
<1> SUFFICES ASSUME LInv, pc = "running", running # <<>> PROVE ~RunningFull
  BY DEF NobodyIsSkipped
<1>1. /\ Continuous /\ prefills = <<>> /\ batched = Len(taken)
      /\ Len(Queue) <= MaxNumSeqs /\ Len(Queue) <= MaxBatchedTokens
  BY DEF LInv, ModeInv, CountInv
<1>2. /\ taken \in Seq(Seqs) /\ running \in Seq(Seqs)
      /\ MaxNumSeqs \in Nat /\ MaxBatchedTokens \in Nat
  BY TypeFacts DEF LInv
<1>3. Len(Queue) = Len(taken) + Len(running)
  BY <1>2, ConcatFacts DEF Queue
<1>4. Len(running) \in Nat \ {0} /\ Len(taken) \in Nat /\ Len(prefills) = 0
  BY <1>1, <1>2
<1> QED BY <1>1, <1>2, <1>3, <1>4 DEF RunningFull

-----------------------------------------------------------------------------
(* The engine never gives up *)

\* The pool has its size.
LEMMA BlocksCount == Cardinality(Blocks) = NumBlocks
<1>1. NumBlocks \in Nat \ {0}
  BY PoolAssumption
<1>2. 0 \in Int /\ NumBlocks - 1 \in Int /\ NumBlocks - 1 - 0 + 1 = NumBlocks
  BY <1>1
<1>3. Cardinality(0 .. NumBlocks - 1) = IF 0 > NumBlocks - 1 THEN 0 ELSE NumBlocks - 1 - 0 + 1
  BY <1>2, FS_Interval
<1> QED BY <1>1, <1>2, <1>3 DEF Blocks

\* While nobody holds blocks every request that fits into the pool can be admitted.
LEMMA AllFree ==
    ASSUME LInv, \A s \in Seqs : table[s] = <<>>, NEW h \in Seqs, SeqBlocks(h) <= NumBlocks
    PROVE  CanAllocate(h)
<1>1. /\ AllocInv(FALSE) /\ PoolInv /\ BlockTypeOK /\ FreeIsUnreferenced /\ tokens[h] # <<>>
      /\ free \in Seq(Blocks) /\ NumBlocks \in Nat \ {0}
  BY PoolAssumption DEF LInv, AllocInv, PoolInv, SeqInv, BlockTypeOK
<1>2. \A s \in Seqs : Held(s) = {}
  BY <1>1, NothingHeld
<1>3. \A b \in Blocks : Holders(b) = {}
  BY <1>2 DEF Holders, Held
<1>4. Elems(free) = Blocks
  BY <1>1, <1>3, FreeHasNoHolder DEF FreeIsUnreferenced
<1>5. Cardinality(Blocks) = NumBlocks
  BY BlocksCount
<1>6. Distinct(free)
  BY <1>1 DEF FreeIsUnreferenced, Distinct
<1>7. Len(free) = NumBlocks
  BY <1>1, <1>4, <1>5, <1>6, DistinctCount
<1>8. SeqBlocks(h) \in Nat /\ NumHits(h) \in Nat
  <2>1. SeqBlocks(h) \in Nat \ {0} /\ NumHits(h) \in 0 .. SeqBlocks(h) - 1
    BY <1>1, SeqBlocksFacts, NumHitsFacts
  <2> QED BY <2>1
<1>9. NumUsedHits(h) \in Nat
  <2> DEFINE hits == 1 .. NumHits(h)
             used == {i \in hits : UsedMatches(PrefixHash(h, i)) # {}}
  <2>1. IsFiniteSet(hits)
    BY <1>8, FS_Interval
  <2>2. used \subseteq hits
    OBVIOUS
  <2> HIDE DEF hits, used
  <2>3. Cardinality(used) \in Nat
    BY <2>1, <2>2, FS_Subset, FS_CardinalityType
  <2> QED BY <2>3 DEF NumUsedHits, used, hits
<1> QED BY <1>7, <1>8, <1>9 DEF CanAllocate

\* A sequence that holds all the blocks there are.
LEMMA LoneHolder ==
    ASSUME LInv, NEW v \in Seqs, \A r \in Seqs \ {v} : table[r] = <<>>, free = <<>>
    PROVE  Len(table[v]) = NumBlocks
<1>1. /\ AllocInv(FALSE) /\ PoolInv /\ BlockTypeOK /\ FreeIsUnreferenced
      /\ table[v] \in Seq(Blocks) /\ reserved[v] = <<>> /\ NumBlocks \in Nat \ {0}
  BY PoolAssumption DEF LInv, AllocInv, PoolInv, SeqInv, BlockTypeOK
<1>2. \A r \in Seqs \ {v} : Held(r) = {}
  BY <1>1, NothingHeld
<1>3. \A b \in Blocks : ref[b] # 0
  BY <1>1 DEF FreeIsUnreferenced, Elems
<1>4. \A b \in Blocks : b \in Held(v)
  <2> SUFFICES ASSUME NEW b \in Blocks PROVE b \in Held(v)
    OBVIOUS
  <2>1. Holders(b) # {}
    BY <1>1, <1>3, FreeHasNoHolder
  <2>2. PICK r \in Seqs : b \in Held(r)
    BY <2>1 DEF Holders, Held
  <2> QED BY <1>2, <2>2
<1>5. Held(v) = Elems(table[v]) /\ Held(v) \subseteq Blocks
  <2>1. Elems(<<>>) = {}
    BY DEF Elems
  <2> QED BY <1>1, <2>1, HeldFacts DEF Held
<1>6. Elems(table[v]) = Blocks
  BY <1>4, <1>5
<1>7. Distinct(table[v])
  <2> DEFINE t == table[v]
  <2>1. Distinct(t \o reserved[v]) /\ t \in Seq(Blocks)
    BY <1>1 DEF PoolInv, TablesDistinct
  <2> HIDE DEF t
  <2>2. t \o <<>> = t
    BY <2>1
  <2> QED BY <1>1, <2>1, <2>2 DEF t
<1>8. Cardinality(Blocks) = NumBlocks
  BY BlocksCount
<1> QED BY <1>1, <1>6, <1>7, <1>8, DistinctCount

\* A request that is not finished fits into the pool with the tokens it has.
LEMMA FitsFacts ==
    ASSUME LInv, CanServe, NEW s \in Seqs, status[s] \in {"WAITING", "RUNNING"}
    PROVE  /\ SeqBlocks(s) <= NumBlocks /\ SeqBlocks(s) \in Nat
           /\ Continuous \/ EnableChunkedPrefill \/ NumTokens(s) <= MaxBatchedTokens
<1>1. s \in config.requests /\ LengthOK(s) /\ TypeOK
  BY DEF LInv, QueueInv
<1>2. FitsAlone(s) /\ NumCompletion(s) < MaxTokens[s] /\ NumPrompt(s) <= NumTokens(s)
  BY <1>1 DEF CanServe, LengthOK
<1>3. /\ NumTokens(s) \in Nat /\ NumPrompt(s) \in Nat \ {0} /\ MaxTokens[s] \in Nat
      /\ NumBlocks \in Nat /\ BlockSize \in Nat \ {0} /\ MaxBatchedTokens \in Nat
  BY <1>1, SizeFacts, TypeFacts, RequestAssumption, PoolAssumption
<1> DEFINE n == NumTokens(s)
           all == NumPrompt(s) + MaxTokens[s]
<1>4. n \in Nat \ {0} /\ all \in Nat /\ n + 1 <= all
  BY <1>2, <1>3 DEF NumCompletion
<1>5. CeilDiv(all, BlockSize) <= NumBlocks
  BY <1>2 DEF FitsAlone
<1>6. Continuous \/ EnableChunkedPrefill \/ all <= MaxBatchedTokens + 1
  BY <1>2 DEF FitsAlone
<1>7. SeqBlocks(s) = CeilDiv(n, BlockSize)
  BY DEF SeqBlocks
<1> HIDE DEF n, all
<1>8. /\ CeilDiv(n, BlockSize) <= CeilDiv(all, BlockSize)
      /\ CeilDiv(n, BlockSize) \in Nat /\ CeilDiv(all, BlockSize) \in Nat
  BY <1>3, <1>4, CeilDivFacts
<1>9. Continuous \/ EnableChunkedPrefill \/ n <= MaxBatchedTokens
  BY <1>3, <1>4, <1>6
<1>10. SeqBlocks(s) <= NumBlocks /\ SeqBlocks(s) \in Nat
  BY <1>3, <1>5, <1>7, <1>8
<1> QED BY <1>9, <1>10 DEF n

\* What is waiting can be admitted when nothing runs.
LEMMA HeadFits ==
    ASSUME LInv, CanServe, \A s \in Seqs : status[s] # "RUNNING",
           NEW w \in Seqs, status[w] = "WAITING"
    PROVE  /\ waiting # <<>> /\ Head(waiting) \in Seqs /\ status[Head(waiting)] = "WAITING"
           /\ table[Head(waiting)] = <<>> => CanAllocate(Head(waiting))
<1>1. waiting \in Seq(Seqs) /\ w \in Elems(waiting)
  BY TypeFacts DEF LInv, QueueInv
<1>2. waiting # <<>>
  BY <1>1 DEF Elems
<1>3. PICK h \in Seqs : h = Head(waiting) /\ h \in Elems(waiting)
  BY <1>1, <1>2, HeadTailFacts
<1>4. status[h] = "WAITING"
  BY <1>3 DEF LInv, QueueInv
<1>5. ASSUME table[h] = <<>> PROVE CanAllocate(h)
  <2>1. \A s \in Seqs : table[s] = <<>>
    BY <1>3, <1>5 DEF LInv, HoldOK
  <2>2. SeqBlocks(h) <= NumBlocks
    BY <1>4, FitsFacts
  <2> QED BY <2>1, <2>2, AllFree
<1> QED BY <1>2, <1>3, <1>4, <1>5

\* The requests and the limits of an engine never change.
LEMMA ConfigStays == [Next]_vars => config' = config
  BY DEF Next, EngineStep, ContinuousStep, LegacyStep, RunBatch, Add, EndRunning, EndWaiting,
         ContinuePrefill, ScheduleDecode, Decode, Preempt, LegacyPreempt, PreemptLast, Admit,
         EndPrefill, EndDecode, SchedulePrefill, LegacyDecode, BeginStep, Execute, ExecuteFails,
         EndStep, PostChunk, PostToken, PostFinish, Computed, vars

\* Neither loop of the continuous mode ends with an empty batch ...
LEMMA WaitingFinds ==
    ASSUME LInv, CanServe, StallInv, EndWaiting
    PROVE  pc' = "execute"
<1>1. /\ pc = "waiting" /\ ~MayAdmit
      /\ pc' = IF prefills = <<>> /\ decodes = <<>> THEN "failed" ELSE "execute"
  BY DEF EndWaiting, EndLoop
<1> SUFFICES ASSUME prefills = <<>>, decodes = <<>> PROVE FALSE
  BY <1>1
<1>2. Batch = <<>> /\ Elems(Batch) = {} /\ Len(<<>>) = 0
  BY <1>1 DEF Batch, Loops, Elems
<1>3. batched = 0 /\ Elems(running) = {}
  BY <1>1, <1>2 DEF LInv, BatchInv, Loops
<1>4. \A s \in Seqs : status[s] # "RUNNING"
  BY <1>1, <1>3 DEF LInv, QueueInv, Queue
<1>5. PICK w \in Seqs : status[w] = "WAITING"
  BY <1>1, <1>4 DEF StallInv, Loops
<1>6. /\ waiting # <<>> /\ Head(waiting) \in Seqs
      /\ table[Head(waiting)] = <<>> => CanAllocate(Head(waiting))
  BY <1>4, <1>5, HeadFits
<1>7. table[Head(waiting)] = <<>>
  <2>1. Continuous
    BY <1>1 DEF LInv, ModeInv
  <2> QED BY <1>4, <1>6, <2>1 DEF LInv, HoldOK
<1>8. Remaining > 0 /\ Len(prefills) + Len(decodes) < MaxNumSeqs
  <2>1. MaxNumSeqs \in Nat \ {0} /\ MaxBatchedTokens \in Nat \ {0}
    BY TypeFacts DEF LInv
  <2> QED BY <1>2, <1>3, <2>1 DEF Remaining
<1> QED BY <1>1, <1>6, <1>7, <1>8 DEF MayAdmit

\* ... and when the prefill loop of the legacy mode does, something can be decoded ...
LEMMA PrefillFinds ==
    ASSUME LInv, CanServe, StallInv, EndPrefill, taken = <<>>
    PROVE  \E s \in Seqs : status[s] = "RUNNING"
<1>1. pc = "prefill" /\ ~MaySchedulePrefill
  BY DEF EndPrefill
<1> SUFFICES ASSUME \A s \in Seqs : status[s] # "RUNNING" PROVE FALSE
  OBVIOUS
<1>2. prefills = <<>> /\ decodes = <<>> /\ ~Continuous
  BY <1>1 DEF LInv, BatchInv, ModeInv
<1>3. Batch = <<>> /\ Len(<<>>) = 0
  BY <1>1, <1>2 DEF Batch, Loops
<1>4. batched = 0
  BY <1>1, <1>3 DEF LInv, BatchInv, Loops
<1>5. PICK w \in Seqs : status[w] = "WAITING"
  BY <1>1 DEF StallInv, Loops
<1>6. /\ waiting # <<>> /\ Head(waiting) \in Seqs /\ status[Head(waiting)] = "WAITING"
      /\ table[Head(waiting)] = <<>> => CanAllocate(Head(waiting))
  BY <1>5, HeadFits
<1>7. PICK h \in Seqs : h = Head(waiting)
  BY <1>6
<1>8. EnableChunkedPrefill \/ NumTokens(h) <= MaxBatchedTokens
  BY <1>2, <1>6, <1>7, FitsFacts
<1>9. MaxNumSeqs \in Nat \ {0} /\ MaxBatchedTokens \in Nat \ {0} /\ Remaining = MaxBatchedTokens
  <2>1. MaxNumSeqs \in Nat \ {0} /\ MaxBatchedTokens \in Nat \ {0}
    BY TypeFacts DEF LInv
  <2> QED BY <1>4, <2>1 DEF Remaining
<1>10. Needed(h) <= NumTokens(h) /\ Needed(h) \in Int /\ NumTokens(h) \in Nat
  <2>1. TypeOK /\ BlockTypeOK /\ tokens[h] # <<>>
    BY TypeFacts DEF LInv, AllocInv, SeqInv
  <2>2. NumTokens(h) \in Nat /\ cached[h] \in Nat
    BY <2>1, SizeFacts
  <2>3. NumHits(h) * BlockSize \in Nat
    <3>1. NumHits(h) \in 0 .. SeqBlocks(h) - 1 /\ SeqBlocks(h) \in Nat \ {0}
      BY <2>1, NumHitsFacts, SeqBlocksFacts
    <3>2. NumHits(h) \in Nat /\ BlockSize \in Nat
      BY <3>1, PoolAssumption
    <3> DEFINE n == NumHits(h)
    <3> HIDE DEF n
    <3>3. n * BlockSize \in Nat
      BY <3>2 DEF n
    <3> QED BY <3>3 DEF n
  <2>4. Needed(h) = NumTokens(h) - IF table[h] = <<>> THEN NumHits(h) * BlockSize ELSE cached[h]
    BY DEF Needed
  <2> DEFINE k == NumHits(h) * BlockSize
  <2> HIDE DEF k
  <2> QED BY <2>2, <2>3, <2>4 DEF k
<1>11. FitsBudget(h)
  BY <1>8, <1>9, <1>10 DEF FitsBudget
<1>12. MaySchedulePrefill
  BY <1>3, <1>6, <1>7, <1>9, <1>11 DEF MaySchedulePrefill
<1> QED BY <1>1, <1>12

\* ... so that a decode loop with something to decode finds it ...
LEMMA DecodeFinds ==
    ASSUME LInv, CanServe, StallInv, EndDecode
    PROVE  pc' = "execute"
<1>1. /\ pc = "decode" /\ (running = <<>> \/ Len(taken) >= MaxNumSeqs)
      /\ pc' = IF prefills = <<>> /\ decodes = <<>> THEN "failed" ELSE "execute"
  BY DEF EndDecode, EndLoop
<1> SUFFICES ASSUME decodes = <<>> PROVE FALSE
  BY <1>1
<1>2. taken = <<>> /\ Len(<<>>) = 0 /\ MaxNumSeqs \in Nat \ {0}
  BY <1>1, TypeFacts DEF LInv, BatchInv
<1>3. running = <<>>
  BY <1>1, <1>2
<1>4. Queue = <<>> \o <<>>
  BY <1>1, <1>2, <1>3 DEF Queue
<1>5. Queue = <<>>
  <2>1. <<>> \in Seq(Seqs)
    OBVIOUS
  <2> QED BY <1>4, <2>1
<1>6. Elems(Queue) = {}
  BY <1>5 DEF Elems
<1>7. \A s \in Seqs : status[s] # "RUNNING"
  BY <1>6 DEF LInv, QueueInv
<1> QED BY <1>1, <1>7 DEF StallInv

\* ... and never preempts the only sequence there is.
LEMMA PreemptLeaves ==
    ASSUME LInv, CanServe, NEW s \in Seqs, LegacyPreempt(s)
    PROVE  \E r \in Seqs : status'[r] = "RUNNING"
<1>1. /\ pc = "decode" /\ running # <<>> /\ s = Head(running) /\ ~CanAppend(s)
      /\ status' = [status EXCEPT ![running[Len(running)]] = "WAITING"]
  BY DEF LegacyPreempt, NextRunning, PreemptLast, PreemptSeq
<1>2. /\ running \in Seq(Seqs) /\ taken \in Seq(Seqs)
      /\ status \in [Seqs -> {"NEW", "WAITING", "RUNNING", "FINISHED"}]
  BY TypeFacts DEF LInv
<1>3. PICK v \in Seqs : v = Last(running) /\ v \in Elems(running)
  BY <1>1, <1>2, HeadTailFacts, ElemsIn
<1>4. status' = [status EXCEPT ![v] = "WAITING"]
  BY <1>1, <1>3 DEF Last
<1> SUFFICES ASSUME \A r \in Seqs : status'[r] # "RUNNING" PROVE FALSE
  OBVIOUS
<1>5. \A r \in Seqs \ {v} : status[r] # "RUNNING"
  BY <1>2, <1>4
<1>6. Elems(running) \subseteq Elems(Queue)
  BY <1>1, <1>2, ConcatFacts DEF Queue
<1>7. status[s] = "RUNNING"
  <2>1. s \in Elems(running)
    BY <1>1, <1>2, HeadTailFacts
  <2> QED BY <1>6, <2>1 DEF LInv, QueueInv
<1>8. s = v
  BY <1>5, <1>7
<1>9. \A r \in Seqs \ {s} : table[r] = <<>>
  BY <1>1, <1>5, <1>8 DEF LInv, HoldOK
<1>10. Len(table[s]) < SeqBlocks(s) /\ free = <<>>
  <2>1. Len(table[s]) \in Nat /\ SeqBlocks(s) \in Nat
    <3>1. TypeOK
      BY DEF LInv
    <3> QED BY <1>7, <3>1, SizeFacts, FitsFacts
  <2> QED BY <1>1, <2>1 DEF CanAppend
<1>11. Len(table[s]) = NumBlocks
  BY <1>9, <1>10, LoneHolder
<1>12. SeqBlocks(s) <= NumBlocks /\ SeqBlocks(s) \in Nat /\ NumBlocks \in Nat
  BY <1>7, FitsFacts, PoolAssumption
<1> QED BY <1>10, <1>11, <1>12

\* run_model finds a graph for every batch.
LEMMA GraphIsThere == LInv /\ CanServe => ~ExecuteFails
<1> SUFFICES ASSUME LInv, CanServe, ExecuteFails PROVE FALSE
  OBVIOUS
<1>1. /\ pc = "execute" /\ decodes # <<>> /\ ~config.eager /\ Len(decodes) <= MaxGraphBatch
      /\ ~GraphFits(Len(decodes), MaxNumSeqs)
  BY DEF ExecuteFails, UsesGraph
<1>2. Len(decodes) \in Nat \ {0} /\ Len(decodes) <= MaxNumSeqs
  <2>1. decodes \in Seq(Seqs)
    BY TypeFacts DEF LInv
  <2> QED BY <1>1, <2>1 DEF LInv, BatchInv
<1>3. MaxNumSeqs \in Nat /\ MaxGraphBatch \in Nat
  BY TypeFacts, GraphAssumption DEF LInv
<1>4. Len(decodes) \in 1 .. GraphRows(MaxNumSeqs)
  BY <1>1, <1>2, <1>3 DEF GraphRows
<1>5. GraphsCover(MaxNumSeqs)
  BY <1>1 DEF CanServe
<1> QED BY <1>1, <1>4, <1>5 DEF GraphsCover

\* A step leaves something to schedule for the loop it ends in.
LEMMA StallStep == LInv /\ StallInv /\ [Next]_vars => StallInv'
<1> SUFFICES ASSUME LInv, StallInv, [Next]_vars, CanServe' PROVE StallInv'
  BY DEF StallInv
<1>1. CanServe
  <2>1. config' = config
    BY ConfigStays
  <2> QED BY <2>1 DEF CanServe, FitsAlone, GraphsCover, GraphRows, GraphFits, Captured, MaxNumSeqs,
                      MaxBatchedTokens, Continuous, EnableChunkedPrefill, NumPrompt
<1>2. /\ pc # "failed"
      /\ pc \in Loops => \E s \in Seqs : status[s] \in {"WAITING", "RUNNING"}
      /\ pc = "decode" => \E s \in Seqs : status[s] = "RUNNING"
  BY <1>1 DEF StallInv
<1>3. SUFFICES /\ pc' # "failed"
               /\ pc' \in Loops => \E s \in Seqs : status'[s] \in {"WAITING", "RUNNING"}
               /\ pc' = "decode" => \E s \in Seqs : status'[s] = "RUNNING"
  BY DEF StallInv
<1>4. /\ waiting \in Seq(Seqs) /\ running \in Seq(Seqs)
      /\ status \in [Seqs -> {"NEW", "WAITING", "RUNNING", "FINISHED"}]
  BY TypeFacts DEF LInv
<1>5. CASE BeginStep
  <2>1. /\ pc = "idle" /\ pc' \in {"running", "prefill"} /\ status' = status
        /\ waiting # <<>> \/ running # <<>>
    BY <1>5 DEF BeginStep, queueVars
  <2>2. Queue = running
    BY <2>1 DEF Queue
  <2>3. CASE waiting # <<>>
    <3>1. Head(waiting) \in Seqs /\ Head(waiting) \in Elems(waiting)
      BY <1>4, <2>3, HeadTailFacts
    <3>2. status[Head(waiting)] = "WAITING"
      BY <3>1 DEF LInv, QueueInv
    <3> QED BY <2>1, <3>1, <3>2
  <2>4. CASE running # <<>>
    <3>1. Head(running) \in Seqs /\ Head(running) \in Elems(running)
      BY <1>4, <2>4, HeadTailFacts
    <3>2. status[Head(running)] = "RUNNING"
      BY <2>2, <3>1 DEF LInv, QueueInv
    <3> QED BY <2>1, <3>1, <3>2
  <2> QED BY <2>1, <2>3, <2>4
<1>6. CASE EndRunning \/ \E s \in Seqs : ContinuePrefill(s) \/ ScheduleDecode(s)
  <2>1. pc = "running" /\ pc' \in {"running", "waiting"} /\ status' = status
    BY <1>6 DEF EndRunning, ContinuePrefill, ScheduleDecode, Decode, NextRunning
  <2> QED BY <1>2, <2>1 DEF Loops
<1>7. CASE EndWaiting
  <2>1. pc' = "execute"
    BY <1>1, <1>7, WaitingFinds
  <2> QED BY <2>1 DEF Loops
<1>8. CASE \E s \in Seqs : Preempt(s) \/ LegacyPreempt(s)
  <2>1. PICK s \in Seqs : Preempt(s) \/ LegacyPreempt(s)
    BY <1>8
  <2>2. /\ pc \in {"running", "decode"} /\ pc' = pc /\ running # <<>>
        /\ status' = [status EXCEPT ![Last(running)] = "WAITING"]
    BY <2>1 DEF Preempt, LegacyPreempt, NextRunning, PreemptLast, PreemptSeq, Last
  <2>3. PICK v \in Seqs : v = Last(running)
    BY <1>4, <2>2, HeadTailFacts, ElemsIn
  <2>4. status'[v] = "WAITING"
    BY <1>4, <2>2, <2>3
  <2>5. pc = "decode" => \E r \in Seqs : status'[r] = "RUNNING"
    <3> SUFFICES ASSUME pc = "decode" PROVE \E r \in Seqs : status'[r] = "RUNNING"
      OBVIOUS
    <3>1. LegacyPreempt(s)
      BY <2>1 DEF Preempt, NextRunning
    <3> QED BY <1>1, <3>1, PreemptLeaves
  <2> QED BY <2>2, <2>4, <2>5
<1>9. CASE \E s \in Seqs : Admit(s)
  <2>1. PICK s \in Seqs : Admit(s)
    BY <1>9
  <2>2. pc = "waiting" /\ pc' = pc /\ status' = [status EXCEPT ![s] = "RUNNING"]
    BY <2>1 DEF Admit
  <2>3. status'[s] = "RUNNING"
    BY <1>4, <2>2
  <2> QED BY <2>2, <2>3
<1>10. CASE EndPrefill
  <2>1. /\ pc = "prefill" /\ pc' = IF taken # <<>> THEN "execute" ELSE "decode"
        /\ status' = status
    BY <1>10 DEF EndPrefill, queueVars
  <2>2. taken = <<>> => \E s \in Seqs : status[s] = "RUNNING"
    BY <1>1, <1>10, PrefillFinds
  <2> QED BY <2>1, <2>2 DEF Loops
<1>11. CASE \E s \in Seqs : SchedulePrefill(s)
  <2>1. PICK s \in Seqs : SchedulePrefill(s)
    BY <1>11
  <2>2. /\ pc = "prefill" /\ pc' = pc
        /\ status' = [status EXCEPT ![s] = "RUNNING"] \/ status' = status
    BY <2>1 DEF SchedulePrefill, PlaceAfter, Runs, queueVars
  <2>3. status'[s] = "RUNNING" \/ status' = status
    BY <1>4, <2>2
  <2> QED BY <1>2, <2>2, <2>3 DEF Loops
<1>12. CASE \E s \in Seqs : LegacyDecode(s)
  <2>1. pc = "decode" /\ pc' = pc /\ status' = status
    BY <1>12 DEF LegacyDecode, Decode, NextRunning
  <2> QED BY <1>2, <2>1 DEF Loops
<1>13. CASE EndDecode
  <2>1. pc' = "execute"
    BY <1>1, <1>13, DecodeFinds
  <2> QED BY <2>1 DEF Loops
<1>14. CASE ExecuteFails
  BY <1>1, <1>14, GraphIsThere
<1>15. CASE Execute \/ EndStep
  BY <1>15 DEF Execute, EndStep, Loops
<1>16. CASE \/ \E s \in Seqs : Add(s) \/ PostChunk(s)
            \/ \E s \in Seqs, token \in Token : PostToken(s, token) \/ PostFinish(s, token)
  <2>1. pc \in {"idle", "post"} /\ pc' = pc
    BY <1>16 DEF Add, PostChunk, PostToken, PostFinish, NextPost, Computed
  <2> QED BY <2>1 DEF Loops
<1>17. CASE UNCHANGED vars
  <2>1. pc' = pc /\ status' = status
    BY <1>17 DEF vars, queueVars
  <2> QED BY <1>2, <2>1
<1> QED BY <1>5, <1>6, <1>7, <1>8, <1>9, <1>10, <1>11, <1>12, <1>13, <1>14, <1>15, <1>16, <1>17
        DEF Next, EngineStep, ContinuousStep, LegacyStep, RunBatch

-----------------------------------------------------------------------------
(* What every execution keeps *)

\* The modes in which no sequence is left at the head of waiting with a part computed.
NoSplit == Continuous \/ ~EnableChunkedPrefill

\* Nothing of a waiting sequence is in the batch in these modes.
LEMMA NoSplitParts == LInv /\ NoSplit => PartsArePrompts
<1> SUFFICES ASSUME LInv, NoSplit, pc = "post", NEW s \in Elems(todo), status[s] = "WAITING"
             PROVE  FALSE
  BY DEF PartsArePrompts
<1>1. Batch = todo
  BY DEF Batch, Loops
<1>2. s \in Seqs /\ Ready(s)
  BY <1>1, TypeFacts, ElemsIn DEF LInv, BatchInv
<1>3. HoldOK(s)
  BY <1>2 DEF LInv
<1> QED BY <1>2, <1>3 DEF Ready, HoldOK, NoSplit

\* The mode is the configuration's and stays.
LEMMA NoSplitStays == NoSplit /\ [Next]_vars => NoSplit'
  BY ConfigStays DEF NoSplit, Continuous, EnableChunkedPrefill

\* The engine begins outside the loops.
LEMMA InitStall == Init => StallInv
  BY DEF Init, StallInv, Loops

\* There is always something to schedule.
LEMMA InvNeverStalls == StallInv => NeverStalls
  BY DEF StallInv, CanServe, NeverStalls

\* Types are right in every execution in which the legacy mode splits prompts only.
THEOREM EngineTypes == Spec /\ []PartsArePrompts => []TypeOK
<1>1. LInv => TypeOK
  BY DEF LInv
<1> QED BY <1>1, EngineInvariant, PTL

\* The queues agree with the statuses, and blocks are held by running sequences and the
\* prompt under way, whatever was preempted.
THEOREM EngineQueuesAgree == Spec /\ []PartsArePrompts => []QueuesAgree
  BY EngineInvariant, InvQueuesAgree, PTL

\* No step writes into a block that is shared or published.
THEOREM EngineWritesArePrivate == Spec /\ []PartsArePrompts => []WritesArePrivate
  BY EngineInvariant, InvWritesPrivate, PTL

\* schedule always finds something while every request fits alone.
THEOREM EngineNeverStalls == Spec /\ []PartsArePrompts => []NeverStalls
<1>1. Init => LInv /\ StallInv
  BY InitInv, InitStall
<1>2. (LInv /\ StallInv) /\ PartsArePrompts /\ [Next]_vars => (LInv /\ StallInv)'
  BY NextInv, StallStep
<1>3. LInv /\ StallInv => NeverStalls
  BY InvNeverStalls
<1> QED BY <1>1, <1>2, <1>3, PTL DEF Spec

\* In continuous batching, and in the legacy mode without chunks, all of this holds of every
\* execution.
THEOREM UnsplitEngineSafe ==
    Spec /\ NoSplit =>
        [](TypeOK /\ QueuesAgree /\ WritesArePrivate /\ NeverStalls /\ BlocksAccounted
             /\ HashesAgree)
<1>1. Init /\ NoSplit => LInv /\ StallInv /\ NoSplit
  BY InitInv, InitStall
<1>2. (LInv /\ StallInv /\ NoSplit) /\ [Next]_vars => (LInv /\ StallInv /\ NoSplit)'
  BY NextInv, StallStep, NoSplitParts, NoSplitStays
<1>3. LInv /\ StallInv /\ NoSplit
        => TypeOK /\ QueuesAgree /\ WritesArePrivate /\ NeverStalls /\ BlocksAccounted
             /\ HashesAgree
  <2> SUFFICES ASSUME LInv, StallInv
               PROVE  TypeOK /\ QueuesAgree /\ WritesArePrivate /\ NeverStalls
                        /\ BlocksAccounted /\ HashesAgree
    OBVIOUS
  <2>1. TypeOK /\ AllocInv(FALSE)
    BY DEF LInv
  <2>2. QueuesAgree /\ WritesArePrivate /\ NeverStalls
    BY InvQueuesAgree, InvWritesPrivate, InvNeverStalls
  <2>3. BlocksAccounted /\ HashesAgree
    BY <2>1, AllocAccounted, AllocHashes
  <2> QED BY <2>1, <2>2, <2>3
<1> QED BY <1>1, <1>2, <1>3, PTL DEF Spec

\* The loop over the running sequences is one of continuous batching.
RunningMode == pc = "running" => Continuous

\* It is entered in that mode only.
LEMMA RunningModeStep == RunningMode /\ [Next]_vars => RunningMode'
<1> SUFFICES ASSUME RunningMode, [Next]_vars, pc' = "running" PROVE Continuous'
  BY DEF RunningMode
<1>1. Continuous' = Continuous
  BY ConfigStays DEF Continuous
<1>2. CASE BeginStep
  BY <1>1, <1>2 DEF BeginStep
<1>3. CASE pc = "running"
  BY <1>1, <1>3 DEF RunningMode
<1>4. CASE ~BeginStep /\ pc # "running"
  <2>1. pc' = pc \/ pc' \in {"waiting", "execute", "failed", "decode", "idle", "post"}
    BY <1>4 DEF Next, EngineStep, ContinuousStep, LegacyStep, RunBatch, Add, EndRunning,
       EndWaiting, EndLoop, ContinuePrefill, ScheduleDecode, Decode, Preempt, LegacyPreempt,
       PreemptLast, Admit, EndPrefill, EndDecode, SchedulePrefill, LegacyDecode, Execute,
       ExecuteFails, EndStep, PostChunk, PostToken, PostFinish, Computed, vars
  <2> QED BY <1>4, <2>1
<1> QED BY <1>2, <1>3, <1>4

\* Every running sequence advances in every step of continuous batching, in every execution
\* of every engine.
THEOREM NobodySkipped == Spec => []NobodyIsSkipped
<1> DEFINE Inv == RunningMode /\ (Continuous => LInv)
<1>1. Init => Inv
  BY InitInv DEF Init, RunningMode
<1>2. Inv /\ [Next]_vars => Inv'
  <2> SUFFICES ASSUME Inv, [Next]_vars PROVE Inv'
    OBVIOUS
  <2>1. RunningMode'
    BY RunningModeStep
  <2>2. Continuous' = Continuous
    BY ConfigStays DEF Continuous
  <2>3. Continuous => LInv'
    BY NextInv, NoSplitParts DEF NoSplit
  <2> QED BY <2>1, <2>2, <2>3
<1>3. Inv => NobodyIsSkipped
  BY InvNobodySkipped DEF RunningMode, NobodyIsSkipped
<1> HIDE DEF Inv
<1> QED BY <1>1, <1>2, <1>3, PTL DEF Spec

-----------------------------------------------------------------------------
(* The contents of the blocks: what has to be known of the progress of a sequence *)

\* A token is sampled when the last of the tokens before it is computed, never after a part
\* of the tokens that a preempted sequence has to compute again.  The code does not ensure it
\* (the run split_recompute), but in the legacy mode without chunks.
WholeSampled ==
    pc = "post" =>
        \A s \in Elems(todo) : StillPrefill(s) \/ cached[s] + scheduled[s] = NumTokens(s)

\* A sequence that was scheduled and goes on waiting will lack some tokens; a running one of the
\* legacy mode none; a decode, and a running sequence past its prompt, lacks the last one.
ProgressInv(s) ==
    /\ s \in Elems(Batch) /\ status[s] = "WAITING" => cached[s] + scheduled[s] < NumTokens(s)
    /\ s \in Elems(Batch) /\ status[s] = "RUNNING" /\ ~Continuous =>
          cached[s] + scheduled[s] = NumTokens(s)
    /\ pc \in Loops \cup {"execute"} /\ s \in Elems(decodes) =>
          scheduled[s] = 1 /\ cached[s] + 1 = NumTokens(s)
    /\ s \notin Elems(Batch) /\ status[s] = "RUNNING" =>
          cached[s] + 1 = NumTokens(s) \/ (Continuous /\ IsPrefill(s))

\* The tokens of s whose KV is in the cache, counted or about to be.
Done(s) == IF pc = "post" /\ s \in Elems(todo) THEN cached[s] + scheduled[s] ELSE cached[s]

\* Every sequence finds in its own table what it has computed.
DoneIsStored == \A s \in Seqs : StoredFor(s, Done(s))

\* What the blocks hold and what is counted of it.
KVInv ==
    /\ \A s \in Seqs : ProgressInv(s)
    /\ DoneIsStored /\ PublishedKVIsRight

\* Then what is sampled at the head of waiting does not exist.
LEMMA WholeParts == LInv /\ KVInv /\ WholeSampled => PartsArePrompts
<1> SUFFICES ASSUME LInv, KVInv, WholeSampled, pc = "post", NEW s \in Elems(todo),
                    status[s] = "WAITING"
             PROVE  StillPrefill(s)
  BY DEF PartsArePrompts
<1>1. Batch = todo
  BY DEF Batch, Loops
<1>2. s \in Seqs /\ TypeOK
  BY <1>1, TypeFacts, ElemsIn DEF LInv
<1>3. cached[s] + scheduled[s] < NumTokens(s)
  BY <1>1, <1>2 DEF KVInv, ProgressInv
<1>4. cached[s] + scheduled[s] \in Nat /\ NumTokens(s) \in Nat
  BY <1>2, SizeFacts
<1> QED BY <1>3, <1>4 DEF WholeSampled

\* Without chunks it is the code that ensures it.
LEMMA LegacyWhole == LInv /\ KVInv /\ ~Continuous /\ ~EnableChunkedPrefill => WholeSampled
<1> SUFFICES ASSUME LInv, KVInv, ~Continuous, ~EnableChunkedPrefill, pc = "post",
                    NEW s \in Elems(todo)
             PROVE  cached[s] + scheduled[s] = NumTokens(s)
  BY DEF WholeSampled
<1>1. Batch = todo
  BY DEF Batch, Loops
<1>2. s \in Seqs /\ Ready(s)
  BY <1>1, TypeFacts, ElemsIn DEF LInv, BatchInv
<1>3. status[s] = "RUNNING"
  BY <1>2 DEF LInv, HoldOK, Ready
<1> QED BY <1>1, <1>2, <1>3 DEF KVInv, ProgressInv

\* The progress of a sequence that a step does not touch.
LEMMA ProgressFrame ==
    ASSUME NEW r \in Seqs, ProgressInv(r),
           tokens'[r] = tokens[r], cached'[r] = cached[r], scheduled'[r] = scheduled[r],
           status'[r] = status[r], Continuous' = Continuous,
           r \in Elems(Batch') <=> r \in Elems(Batch),
           pc' \in Loops \cup {"execute"} /\ r \in Elems(decodes') =>
             pc \in Loops \cup {"execute"} /\ r \in Elems(decodes)
    PROVE  ProgressInv(r)'
<1>1. NumTokens(r)' = NumTokens(r) /\ (IsPrefill(r)' <=> IsPrefill(r))
  BY DEF NumTokens, IsPrefill, NumPrompt
<1> QED BY <1>1 DEF ProgressInv

\* A decode is part of the batch.
LEMMA DecodesInBatch ==
    ASSUME TypeOK, pc \in Loops \cup {"execute"}
    PROVE  /\ Batch = prefills \o decodes
           /\ Elems(prefills) \subseteq Elems(Batch) /\ Elems(decodes) \subseteq Elems(Batch)
           /\ Elems(Batch) = Elems(prefills) \cup Elems(decodes)
<1>1. Batch = prefills \o decodes
  BY DEF Batch
<1>2. prefills \in Seq(Seqs) /\ decodes \in Seq(Seqs)
  BY TypeFacts
<1>3. Elems(Batch) = Elems(prefills) \cup Elems(decodes)
  BY <1>1, <1>2, ConcatFacts
<1> QED BY <1>1, <1>3

\* Steps that schedule nothing leave the batch alone.
LEMMA QuietBatch ==
    ASSUME BeginStep \/ EndRunning \/ EndWaiting \/ EndPrefill \/ EndDecode \/ Execute \/ EndStep
    PROVE  /\ tokens' = tokens /\ cached' = cached /\ scheduled' = scheduled /\ status' = status
           /\ config' = config /\ Elems(Batch') = Elems(Batch)
           /\ pc' \in Loops \cup {"execute"} =>
                Elems(decodes') = {} \/ (pc \in Loops \cup {"execute"} /\ decodes' = decodes)
<1>1. /\ tokens' = tokens /\ cached' = cached /\ scheduled' = scheduled /\ status' = status
      /\ config' = config
  BY DEF BeginStep, EndRunning, EndWaiting, EndPrefill, EndDecode, Execute, EndStep,
         queueVars, bmVars
<1>3. Elems(<<>>) = {} /\ <<>> \o <<>> = <<>>
  <2>1. <<>> \in Seq(Seqs)
    OBVIOUS
  <2> QED BY <2>1 DEF Elems
<1>4. /\ Elems(Batch') = Elems(Batch)
      /\ pc' \in Loops \cup {"execute"} =>
           Elems(decodes') = {} \/ (pc \in Loops \cup {"execute"} /\ decodes' = decodes)
  <2>1. CASE BeginStep
    <3>1. pc = "idle" /\ pc' \in {"running", "prefill"} /\ prefills' = <<>> /\ decodes' = <<>>
      BY <2>1 DEF BeginStep
    <3> QED BY <1>3, <3>1 DEF Batch, Loops
  <2>2. CASE EndRunning \/ EndPrefill
    <3>1. /\ pc \in Loops /\ pc' \in Loops \cup {"execute"} /\ prefills' = prefills
          /\ decodes' = decodes
      BY <2>2 DEF EndRunning, EndPrefill, batchVars, Loops
    <3> QED BY <3>1 DEF Batch
  <2>3. CASE EndWaiting \/ EndDecode
    <3>1. /\ pc \in Loops /\ pc' = IF prefills = <<>> /\ decodes = <<>> THEN "failed" ELSE "execute"
          /\ prefills' = prefills /\ decodes' = decodes
      BY <2>3 DEF EndWaiting, EndDecode, EndLoop, batchVars, Loops
    <3> QED BY <1>3, <3>1 DEF Batch, Loops
  <2>4. CASE Execute
    <3>1. pc = "execute" /\ pc' = "post" /\ todo' = prefills \o decodes
      BY <2>4 DEF Execute
    <3> QED BY <3>1 DEF Batch, Loops
  <2>5. CASE EndStep
    <3>1. pc = "post" /\ pc' = "idle" /\ todo = <<>>
      BY <2>5 DEF EndStep
    <3> QED BY <3>1 DEF Batch, Loops
  <2> QED BY <2>1, <2>2, <2>3, <2>4, <2>5
<1> QED BY <1>1, <1>4

\* Nor do they change the progress of a sequence.
LEMMA QuietProgress ==
    ASSUME LInv, KVInv,
           BeginStep \/ EndRunning \/ EndWaiting \/ EndPrefill \/ EndDecode \/ Execute \/ EndStep
    PROVE  \A r \in Seqs : ProgressInv(r)'
<1>1. /\ tokens' = tokens /\ cached' = cached /\ scheduled' = scheduled /\ status' = status
      /\ config' = config /\ Elems(Batch') = Elems(Batch)
      /\ pc' \in Loops \cup {"execute"} =>
           Elems(decodes') = {} \/ (pc \in Loops \cup {"execute"} /\ decodes' = decodes)
  BY QuietBatch
<1>2. Continuous' = Continuous
  BY <1>1 DEF Continuous
<1> TAKE r \in Seqs
<1>3. ProgressInv(r)
  BY DEF KVInv
<1> QED BY <1>1, <1>2, <1>3, ProgressFrame

\* An engine without a graph fails with decodes only.
LEMMA FailsProgress ==
    ASSUME LInv, KVInv, ExecuteFails
    PROVE  \A r \in Seqs : ProgressInv(r)'
<1>1. /\ tokens' = tokens /\ cached' = cached /\ scheduled' = scheduled /\ status' = status
      /\ config' = config /\ pc = "execute" /\ pc' = "failed" /\ prefills = <<>>
  BY DEF ExecuteFails, queueVars, bmVars, UsesGraph
<1>2. Continuous' = Continuous /\ TypeOK
  BY <1>1 DEF Continuous, LInv
<1>3. Elems(prefills) = {} /\ Elems(Batch') = {}
  BY <1>1 DEF Elems, Batch, Loops
<1>4. Elems(Batch) = Elems(decodes)
  BY <1>1, <1>2, <1>3, DecodesInBatch
<1> TAKE r \in Seqs
<1>5. ProgressInv(r)
  BY DEF KVInv
<1>6. NumTokens(r)' = NumTokens(r) /\ (IsPrefill(r)' <=> IsPrefill(r))
  BY <1>1 DEF NumTokens, IsPrefill, NumPrompt
<1> QED BY <1>1, <1>2, <1>3, <1>4, <1>5, <1>6 DEF ProgressInv, Loops

\* A request is added.
LEMMA AddProgress ==
    ASSUME LInv, KVInv, NEW s \in Seqs, Add(s)
    PROVE  \A r \in Seqs : ProgressInv(r)'
<1>1. /\ tokens' = tokens /\ cached' = cached /\ scheduled' = scheduled /\ config' = config
      /\ status' = [status EXCEPT ![s] = "WAITING"] /\ pc = "idle" /\ pc' = pc
  BY DEF Add, bmVars
<1>2. Continuous' = Continuous /\ status \in [Seqs -> {"NEW", "WAITING", "RUNNING", "FINISHED"}]
  BY <1>1, TypeFacts DEF Continuous, LInv
<1>3. Elems(Batch) = {} /\ Elems(Batch') = {}
  BY <1>1 DEF Elems, Batch, Loops
<1> TAKE r \in Seqs
<1>4. CASE r # s
  <2>1. status'[r] = status[r] /\ ProgressInv(r)
    BY <1>1, <1>2, <1>4 DEF KVInv
  <2> QED BY <1>1, <1>2, <1>3, <2>1, ProgressFrame DEF Loops
<1>5. CASE r = s
  <2>1. status'[r] = "WAITING"
    BY <1>1, <1>2, <1>5
  <2> QED BY <1>1, <1>3, <2>1 DEF ProgressInv, Loops
<1> QED BY <1>4, <1>5

\* A running sequence is scheduled for its next token.
LEMMA DecodeProgress ==
    ASSUME LInv, KVInv, NEW s \in Seqs, ScheduleDecode(s) \/ LegacyDecode(s)
    PROVE  \A r \in Seqs : ProgressInv(r)'
<1>1. /\ pc \in {"running", "decode"} /\ running # <<>> /\ s = Head(running) /\ Decode(s)
      /\ pc' = pc /\ status' = status /\ waiting' = waiting /\ config' = config
      /\ taken' = Append(taken, s) /\ running' = Tail(running)
      /\ prefills' = prefills /\ decodes' = Append(decodes, s)
      /\ tokens' = tokens /\ cached' = cached /\ scheduled' = [scheduled EXCEPT ![s] = 1]
      /\ Continuous => ~IsPrefill(s)
  <2>1. Decode(s) /\ running # <<>> /\ s = Head(running) /\ pc \in {"running", "decode"}
    BY DEF ScheduleDecode, LegacyDecode, NextRunning
  <2>2. Continuous => ~IsPrefill(s)
    <3>1. LegacyDecode(s) => ~Continuous
      BY DEF LegacyDecode, NextRunning, LInv, ModeInv
    <3> QED BY <3>1 DEF ScheduleDecode
  <2> QED BY <2>1, <2>2 DEF Decode
<1>2. /\ Continuous' = Continuous /\ scheduled \in [Seqs -> Nat] /\ decodes \in Seq(Seqs)
      /\ Continuous \in BOOLEAN
  BY <1>1, TypeFacts DEF Continuous, LInv
<1>3. /\ s \notin Elems(Batch) /\ Elems(Batch') = Elems(Batch) \cup {s} /\ status[s] = "RUNNING"
  BY <1>1, TakenFacts
<1>4. cached[s] + 1 = NumTokens(s)
  BY <1>1, <1>3 DEF KVInv, ProgressInv
<1>5. Elems(decodes') = Elems(decodes) \cup {s} /\ pc \in Loops
  BY <1>1, <1>2, OneMoreFacts DEF Loops
<1> TAKE r \in Seqs
<1>6. CASE r # s
  <2>1. scheduled'[r] = scheduled[r] /\ ProgressInv(r)
    BY <1>1, <1>2, <1>6 DEF KVInv
  <2> QED BY <1>1, <1>2, <1>3, <1>5, <1>6, <2>1, ProgressFrame
<1>7. CASE r = s
  <2>1. scheduled'[r] = 1 /\ NumTokens(r)' = NumTokens(r)
    BY <1>1, <1>2, <1>7 DEF NumTokens
  <2> QED BY <1>1, <1>3, <1>4, <1>7, <2>1 DEF ProgressInv
<1> QED BY <1>6, <1>7

\* A chunk of a prompt is scheduled.
LEMMA ContinueProgress ==
    ASSUME LInv, KVInv, NEW s \in Seqs, ContinuePrefill(s)
    PROVE  \A r \in Seqs : ProgressInv(r)'
<1>1. /\ pc = "running" /\ running # <<>> /\ s = Head(running)
      /\ pc' = pc /\ status' = status /\ waiting' = waiting /\ config' = config
      /\ taken' = Append(taken, s) /\ running' = Tail(running)
      /\ prefills' = Append(prefills, s) /\ decodes' = decodes
      /\ tokens' = tokens /\ cached' = cached
      /\ \E chunk : scheduled' = [scheduled EXCEPT ![s] = chunk]
  BY DEF ContinuePrefill, NextRunning, bmVars
<1>2. Continuous' = Continuous /\ scheduled \in [Seqs -> Nat] /\ Continuous /\ TypeOK
  BY <1>1, TypeFacts DEF Continuous, LInv, ModeInv
<1>3. /\ s \notin Elems(Batch) /\ Elems(Batch') = Elems(Batch) \cup {s} /\ status[s] = "RUNNING"
  BY <1>1, TakenFacts
<1>4. s \notin Elems(decodes)
  BY <1>1, <1>2, <1>3, DecodesInBatch DEF Loops
<1> TAKE r \in Seqs
<1>5. CASE r # s
  <2>1. scheduled'[r] = scheduled[r] /\ ProgressInv(r)
    BY <1>1, <1>2, <1>5 DEF KVInv
  <2> QED BY <1>1, <1>2, <1>3, <1>5, <2>1, ProgressFrame
<1>6. CASE r = s
  BY <1>1, <1>2, <1>3, <1>4, <1>6 DEF ProgressInv
<1> QED BY <1>5, <1>6

\* A sequence that is preempted was not scheduled.
LEMMA PreemptedUnscheduled ==
    ASSUME LInv, NEW s \in Seqs, Preempt(s) \/ LegacyPreempt(s)
    PROVE  \E v \in Seqs :
             /\ v \notin Elems(Batch) /\ Deallocate(v, hash) /\ hash' = hash /\ index' = index
             /\ cached' = [cached EXCEPT ![v] = 0] /\ status' = [status EXCEPT ![v] = "WAITING"]
             /\ pc \in {"running", "decode"} /\ pc' = pc
             /\ UNCHANGED <<batchVars, scheduled, kv, config, tokens>>
<1>1. /\ pc \in {"running", "decode"} /\ running # <<>> /\ PreemptLast(s)
  BY DEF Preempt, LegacyPreempt, NextRunning
<1>2. /\ taken \in Seq(Seqs) /\ running \in Seq(Seqs)
  BY TypeFacts DEF LInv
<1>3. PICK v \in Seqs : v = Last(running) /\ v \in Elems(running)
  BY <1>1, <1>2, HeadTailFacts, ElemsIn
<1>4. v \notin Elems(Batch)
  <2>1. Distinct(taken \o running) /\ Elems(Batch) = Elems(taken)
    BY <1>1 DEF LInv, QueueInv, BatchInv, Queue
  <2> QED BY <1>2, <1>3, <2>1, ConcatFacts
<1>5. /\ Deallocate(v, hash) /\ hash' = hash /\ index' = index
      /\ cached' = [cached EXCEPT ![v] = 0] /\ status' = [status EXCEPT ![v] = "WAITING"]
      /\ pc' = pc /\ UNCHANGED <<batchVars, scheduled, kv, config, tokens>>
  BY <1>1, <1>3 DEF PreemptLast, PreemptSeq, Last
<1> QED BY <1>1, <1>4, <1>5

\* It has to compute everything again.
LEMMA PreemptProgress ==
    ASSUME LInv, KVInv, NEW s \in Seqs, Preempt(s) \/ LegacyPreempt(s)
    PROVE  \A r \in Seqs : ProgressInv(r)'
<1>1. PICK v \in Seqs :
             /\ v \notin Elems(Batch) /\ Deallocate(v, hash) /\ hash' = hash /\ index' = index
             /\ cached' = [cached EXCEPT ![v] = 0] /\ status' = [status EXCEPT ![v] = "WAITING"]
             /\ pc \in {"running", "decode"} /\ pc' = pc
             /\ UNCHANGED <<batchVars, scheduled, kv, config, tokens>>
  BY PreemptedUnscheduled
<1>2. /\ Continuous' = Continuous /\ Batch' = Batch /\ TypeOK /\ decodes' = decodes
      /\ scheduled' = scheduled /\ tokens' = tokens /\ pc \in Loops
  BY <1>1 DEF Continuous, LInv, Batch, batchVars, Loops
<1>3. /\ cached \in [Seqs -> Nat]
      /\ status \in [Seqs -> {"NEW", "WAITING", "RUNNING", "FINISHED"}]
  BY <1>2, TypeFacts DEF BlockTypeOK
<1>4. v \notin Elems(decodes)
  BY <1>1, <1>2, DecodesInBatch
<1> TAKE r \in Seqs
<1>5. CASE r # v
  <2>1. cached'[r] = cached[r] /\ status'[r] = status[r] /\ ProgressInv(r)
    BY <1>1, <1>3, <1>5 DEF KVInv
  <2> QED BY <1>1, <1>2, <2>1, ProgressFrame
<1>6. CASE r = v
  <2>1. status'[r] = "WAITING"
    BY <1>1, <1>3, <1>6
  <2>2. r \notin Elems(Batch') /\ r \notin Elems(decodes')
    BY <1>1, <1>2, <1>4, <1>6
  <2> QED BY <2>1, <2>2 DEF ProgressInv
<1> QED BY <1>5, <1>6

\* A waiting sequence is admitted.
LEMMA AdmitProgress ==
    ASSUME LInv, KVInv, NEW s \in Seqs, Admit(s)
    PROVE  \A r \in Seqs : ProgressInv(r)'
<1>1. /\ pc = "waiting" /\ MayAdmit /\ s = Head(waiting) /\ Allocate(s) /\ pc' = pc
      /\ config' = config /\ status' = [status EXCEPT ![s] = "RUNNING"]
      /\ prefills' = Append(prefills, s) /\ decodes' = decodes /\ tokens' = tokens
      /\ waiting # <<>> /\ CanAllocate(s) /\ reserved' = reserved
      /\ \E chunk : scheduled' = [scheduled EXCEPT ![s] = chunk]
  BY DEF Admit, MayAdmit
<1>2. /\ Continuous' = Continuous /\ scheduled \in [Seqs -> Nat] /\ Continuous /\ TypeOK
      /\ status \in [Seqs -> {"NEW", "WAITING", "RUNNING", "FINISHED"}]
      /\ prefills \in Seq(Seqs) /\ decodes \in Seq(Seqs) /\ waiting \in Seq(Seqs)
  BY <1>1, TypeFacts DEF Continuous, LInv, ModeInv
<1>3. s \in Elems(waiting) /\ status[s] = "WAITING" /\ table[s] = <<>>
  <2>1. s \in Elems(waiting)
    BY <1>1, <1>2, HeadTailFacts
  <2>2. status[s] = "WAITING"
    BY <2>1 DEF LInv, QueueInv
  <2> QED BY <1>2, <2>1, <2>2 DEF LInv, HoldOK
<1>4. /\ \A r \in Seqs \ {s} : cached'[r] = cached[r]
  BY <1>1, <1>3, AllocateFacts DEF LInv
<1>5. s \notin Elems(Batch)
  BY <1>3 DEF LInv, BatchInv, Ready
<1>6. Elems(Batch') = Elems(Batch) \cup {s}
  <2>1. Batch = prefills \o decodes /\ Batch' = Append(prefills, s) \o decodes
    BY <1>1 DEF Batch, Loops
  <2>2. Distinct(Batch)
    BY DEF LInv, BatchInv
  <2> QED BY <1>2, <1>5, <2>1, <2>2, BatchGrows
<1>7. s \notin Elems(decodes)
  BY <1>1, <1>2, <1>5, DecodesInBatch DEF Loops
<1> TAKE r \in Seqs
<1>8. CASE r # s
  <2>1. /\ scheduled'[r] = scheduled[r] /\ status'[r] = status[r] /\ cached'[r] = cached[r]
        /\ ProgressInv(r)
    BY <1>1, <1>2, <1>4, <1>8 DEF KVInv
  <2> QED BY <1>1, <1>2, <1>6, <1>8, <2>1, ProgressFrame
<1>9. CASE r = s
  <2>1. status'[r] = "RUNNING"
    BY <1>1, <1>2, <1>9
  <2> QED BY <1>1, <1>2, <1>6, <1>7, <1>9, <2>1 DEF ProgressInv
<1> QED BY <1>8, <1>9

\* The legacy mode schedules all that is missing, or a sequence that stays where it is.
LEMMA PrefillProgress ==
    ASSUME LInv, KVInv, NEW s \in Seqs, SchedulePrefill(s)
    PROVE  \A r \in Seqs : ProgressInv(r)'
<1> DEFINE chunk == Smaller(Needed(s), Remaining)
<1>1. /\ pc = "prefill" /\ MaySchedulePrefill /\ s = Head(waiting) /\ EnsureBlocks(s)
      /\ scheduled' = [scheduled EXCEPT ![s] = chunk]
      /\ PlaceAfter(s, cached'[s] + chunk)
      /\ pc' = pc /\ config' = config /\ tokens' = tokens /\ reserved' = reserved
      /\ prefills' = Append(prefills, s) /\ decodes' = decodes
      /\ waiting # <<>> /\ (table[s] = <<>> => CanAllocate(s)) /\ Remaining > 0
  BY DEF SchedulePrefill, MaySchedulePrefill
<1>2. /\ Continuous' = Continuous /\ scheduled \in [Seqs -> Nat] /\ ~Continuous /\ TypeOK
      /\ status \in [Seqs -> {"NEW", "WAITING", "RUNNING", "FINISHED"}]
      /\ prefills \in Seq(Seqs) /\ decodes = <<>> /\ waiting \in Seq(Seqs)
      /\ Remaining \in Nat /\ <<>> \in Seq(Seqs)
  BY <1>1, TypeFacts DEF Continuous, LInv, ModeInv, BatchInv
<1>3. s \in Elems(waiting) /\ status[s] = "WAITING"
  <2>1. s \in Elems(waiting)
    BY <1>1, <1>2, HeadTailFacts
  <2> QED BY <2>1 DEF LInv, QueueInv
<1>4. /\ \A r \in Seqs \ {s} : cached'[r] = cached[r]
      /\ cached'[s] \in Nat /\ cached'[s] < NumTokens(s) /\ Needed(s) = NumTokens(s) - cached'[s]
      /\ NumTokens(s)' = NumTokens(s)
  BY <1>1, <1>3, EnsureBlocksFacts DEF LInv
<1>5. Elems(Batch') = Elems(Batch) \cup {s} /\ Elems(decodes') = {}
  <2>1. Batch = prefills \o <<>> /\ Batch' = Append(prefills, s) \o <<>>
    BY <1>1, <1>2 DEF Batch, Loops
  <2>2. Append(prefills, s) \in Seq(Seqs) /\ Elems(Append(prefills, s)) = Elems(prefills) \cup {s}
    BY <1>2, OneMoreFacts
  <2>3. Elems(<<>>) = {}
    BY DEF Elems
  <2>4. /\ Elems(prefills \o <<>>) = Elems(prefills) \cup {}
        /\ Elems(Append(prefills, s) \o <<>>) = Elems(Append(prefills, s)) \cup {}
    BY <1>2, <2>2, <2>3, ConcatFacts
  <2> QED BY <1>1, <1>2, <2>1, <2>2, <2>3, <2>4
<1>6. NumTokens(s) \in Nat /\ Needed(s) \in Nat \ {0} /\ Remaining \in Nat \ {0}
  <2>1. NumTokens(s) \in Nat
    BY <1>2, SizeFacts
  <2> QED BY <1>1, <1>2, <1>4, <2>1
<1>7. chunk \in Nat \ {0} /\ chunk <= Needed(s)
  BY <1>6, SmallerFacts
<1>8. PICK c \in Nat : c = chunk
  BY <1>7
<1> HIDE DEF chunk
<1>9. cached'[s] + c <= NumTokens(s)
  BY <1>4, <1>6, <1>7, <1>8
<1>10. /\ \A r \in Seqs \ {s} : status'[r] = status[r]
       /\ \/ cached'[s] + c = NumTokens(s) /\ status'[s] = "RUNNING"
          \/ cached'[s] + c # NumTokens(s) /\ status'[s] = "WAITING"
  BY <1>1, <1>2, <1>3, <1>8 DEF PlaceAfter, Runs, queueVars
<1>11. scheduled'[s] = c
  BY <1>1, <1>2, <1>8
<1> TAKE r \in Seqs
<1>12. CASE r # s
  <2>1. /\ scheduled'[r] = scheduled[r] /\ status'[r] = status[r] /\ cached'[r] = cached[r]
        /\ ProgressInv(r)
    BY <1>1, <1>2, <1>4, <1>10, <1>12 DEF KVInv
  <2> QED BY <1>1, <1>2, <1>5, <1>12, <2>1, ProgressFrame
<1>13. CASE r = s
  <2>1. r \in Elems(Batch') /\ r \notin Elems(decodes')
    BY <1>5, <1>13
  <2>2. \/ cached'[r] + scheduled'[r] = NumTokens(r)' /\ status'[r] = "RUNNING"
        \/ cached'[r] + scheduled'[r] < NumTokens(r)' /\ status'[r] = "WAITING"
    <3>1. cached'[s] + c \in Nat
      BY <1>4
    <3> QED BY <1>4, <1>6, <1>9, <1>10, <1>11, <1>13, <3>1
  <2> QED BY <2>1, <2>2 DEF ProgressInv
<1> QED BY <1>12, <1>13

\* What was computed is counted: a prompt is not yet done, or one token was sampled behind
\* all that were computed.
LEMMA PostProgress ==
    ASSUME LInv, KVInv, WholeSampled, NEW s \in Seqs,
           PostChunk(s) \/ \E token \in Token : PostToken(s, token) \/ PostFinish(s, token)
    PROVE  \A r \in Seqs : ProgressInv(r)'
<1>1. NextPost(s) /\ Computed(s)
  BY DEF PostChunk, PostToken, PostFinish
<1>2. /\ pc = "post" /\ pc' = pc /\ Batch = todo /\ Batch' = todo' /\ Ready(s)
      /\ Elems(todo) = {s} \cup Elems(todo') /\ s \notin Elems(todo')
      /\ \A r \in Seqs \ {s} : scheduled'[r] = scheduled[r]
      /\ Continuous' = Continuous
  BY <1>1, PostFacts
<1>3. TypeOK /\ LengthOK(s) /\ ProgressInv(s) /\ Continuous \in BOOLEAN
  BY TypeFacts DEF LInv, KVInv
<1>4. /\ cached[s] \in Nat /\ scheduled[s] \in Nat /\ NumTokens(s) \in Nat /\ NumPrompt(s) \in Nat
      /\ tokens \in [Seqs -> Seq(Token)] /\ cached \in [Seqs -> Nat]
      /\ status \in [Seqs -> {"NEW", "WAITING", "RUNNING", "FINISHED"}]
  BY <1>3, SizeFacts, TypeFacts DEF BlockTypeOK
<1>5. \A r \in Seqs \ {s} : /\ tokens'[r] = tokens[r] /\ cached'[r] = cached[r]
                            /\ status'[r] = status[r]
  BY <1>4 DEF PostChunk, PostToken, PostFinish
<1>6. /\ s \in Elems(Batch) /\ s \notin Elems(Batch')
      /\ pc \notin Loops \cup {"execute"} /\ pc' \notin Loops \cup {"execute"}
  BY <1>2 DEF Loops
<1>7. status'[s] = "RUNNING" => cached'[s] + 1 = NumTokens(s)' \/ (Continuous' /\ IsPrefill(s)')
  <2>1. CASE PostChunk(s)
    <3>1. cached'[s] = cached[s] + scheduled[s] /\ tokens' = tokens /\ status' = status
          /\ StillPrefill(s)
      BY <1>4, <2>1 DEF PostChunk
    <3>2. IsPrefill(s)' /\ cached[s] + scheduled[s] < NumPrompt(s)
      BY <3>1 DEF IsPrefill, NumPrompt, StillPrefill
    <3>3. status[s] = "RUNNING" => Continuous
      <4>1. NumPrompt(s) <= NumTokens(s)
        BY <1>3 DEF LengthOK
      <4>2. cached[s] + scheduled[s] # NumTokens(s)
        BY <1>4, <3>2, <4>1
      <4> QED BY <1>3, <1>6, <4>2 DEF ProgressInv
    <3> QED BY <1>2, <3>1, <3>2, <3>3
  <2>2. CASE \E token \in Token : PostToken(s, token)
    <3>1. PICK token \in Token : PostToken(s, token)
      BY <2>2
    <3>2. cached'[s] = cached[s] + scheduled[s] /\ tokens'[s] = Append(tokens[s], token)
          /\ ~StillPrefill(s)
      BY <1>4, <3>1 DEF PostToken
    <3>3. cached[s] + scheduled[s] = NumTokens(s)
      BY <1>2, <3>2 DEF WholeSampled
    <3>4. NumTokens(s)' = NumTokens(s) + 1
      BY <1>4, <3>2 DEF NumTokens
    <3> QED BY <3>2, <3>3, <3>4
  <2>3. CASE \E token \in Token : PostFinish(s, token)
    <3>1. status'[s] = "FINISHED"
      BY <1>4, <2>3 DEF PostFinish
    <3> QED BY <3>1
  <2> QED BY <2>1, <2>2, <2>3
<1> TAKE r \in Seqs
<1>8. CASE r # s
  <2>1. /\ ProgressInv(r) /\ scheduled'[r] = scheduled[r] /\ status'[r] = status[r]
        /\ cached'[r] = cached[r] /\ tokens'[r] = tokens[r]
        /\ (r \in Elems(Batch') <=> r \in Elems(Batch))
    BY <1>2, <1>5, <1>8 DEF KVInv
  <2> QED BY <1>2, <1>6, <2>1, ProgressFrame
<1>9. CASE r = s
  BY <1>6, <1>7, <1>9 DEF ProgressInv
<1> QED BY <1>8, <1>9

-----------------------------------------------------------------------------
(* The contents of the blocks: steps that write nothing *)

\* What a sequence has stored stays its own as long as its table and its count do.
LEMMA StoredFrame ==
    ASSUME NEW r \in Seqs, StoredFor(r, Done(r)), kv' = kv,
           table'[r] = table[r], tokens'[r] = tokens[r], Done(r)' = Done(r)
    PROVE  StoredFor(r, Done(r))'
  BY DEF StoredFor, Stored

\* Between the loops and in them the count is num_cached_tokens.
LEMMA DoneOutside == pc # "post" => \A r : Done(r) = cached[r]
  BY DEF Done

\* What is published stays right until it is taken.
LEMMA PublishedFrame ==
    ASSUME PublishedKVIsRight, kv' = kv,
           \A b \in Blocks : hash'[b] = hash[b] \/ hash'[b] = NoHash
    PROVE  PublishedKVIsRight'
<1> SUFFICES ASSUME NEW b \in Blocks, hash'[b] # NoHash, NEW o \in 1 .. BlockSize
             PROVE  kv'[b][o] = SubSeq(hash'[b], 1, Len(hash'[b]) - BlockSize + o)
  BY DEF PublishedKVIsRight
<1>1. hash'[b] = hash[b]
  OBVIOUS
<1> QED BY <1>1 DEF PublishedKVIsRight

\* Steps that leave tables, counts and the cache alone.
LEMMA QuietStored ==
    ASSUME LInv, KVInv,
           \/ BeginStep \/ EndRunning \/ EndWaiting \/ EndPrefill \/ EndDecode \/ EndStep
           \/ ExecuteFails \/ \E s \in Seqs : Add(s) \/ ContinuePrefill(s)
    PROVE  DoneIsStored' /\ PublishedKVIsRight'
<1>1. kv' = kv /\ tokens' = tokens /\ table' = table /\ cached' = cached /\ hash' = hash
  BY DEF BeginStep, EndRunning, EndWaiting, EndPrefill, EndDecode, EndStep, ExecuteFails, Add,
         ContinuePrefill, bmVars, blockVars
<1>2. \A r \in Seqs : Done(r) = cached[r]
  <2>1. CASE EndStep
    <3>1. todo = <<>>
      BY <2>1 DEF EndStep
    <3>2. Elems(todo) = {}
      BY <3>1 DEF Elems
    <3> QED BY <3>2 DEF Done
  <2>2. CASE ~EndStep
    <3>1. pc # "post"
      BY <2>2 DEF BeginStep, EndRunning, EndWaiting, EndLoop, EndPrefill, EndDecode,
                  ExecuteFails, Add, ContinuePrefill, NextRunning
    <3> QED BY <3>1 DEF Done
  <2> QED BY <2>1, <2>2
<1>3. pc' # "post"
  BY DEF BeginStep, EndRunning, EndWaiting, EndLoop, EndPrefill, EndDecode, EndStep,
         ExecuteFails, Add, ContinuePrefill, NextRunning
<1>4. \A r \in Seqs : Done(r)' = Done(r)
  BY <1>1, <1>2, <1>3 DEF Done
<1>5. DoneIsStored'
  BY <1>1, <1>4, StoredFrame DEF KVInv, DoneIsStored
<1>6. PublishedKVIsRight'
  BY <1>1, PublishedFrame DEF KVInv
<1> QED BY <1>5, <1>6

\* A decode may take a block, which then is no longer published.
LEMMA DecodeStored ==
    ASSUME LInv, KVInv, NEW s \in Seqs, ScheduleDecode(s) \/ LegacyDecode(s)
    PROVE  DoneIsStored' /\ PublishedKVIsRight'
<1>1. /\ kv' = kv /\ tokens' = tokens /\ cached' = cached /\ pc' = pc /\ pc # "post"
      /\ MayAppend(s)
  BY DEF ScheduleDecode, LegacyDecode, NextRunning, Decode
<1>2. PoolInv /\ BlockTypeOK
  BY DEF LInv, AllocInv, PoolInv
<1>3. tokens' \in [Seqs -> Seq(Token)] /\ cached' \in [Seqs -> Nat]
  BY <1>1, <1>2 DEF BlockTypeOK
<1>4. \A r \in Seqs \ {s} : table'[r] = table[r]
  BY <1>1, <1>2, <1>3, MayAppendPool
<1>5. \/ UNCHANGED <<table, reserved, free, ref, hash, index>>
      \/ /\ UNCHANGED <<free, ref, hash, index>> /\ reserved[s] # <<>>
         /\ table'[s] = Append(table[s], reserved[s][Len(reserved[s])])
      \/ \E b \in Elems(free) :
            /\ table'[s] = Append(table[s], b)
            /\ \A c \in Blocks : hash'[c] = IF c = b THEN NoHash ELSE hash[c]
  BY <1>1, <1>2, <1>3, MayAppendPool
<1>6. \A b \in Blocks : hash'[b] = hash[b] \/ hash'[b] = NoHash
  BY <1>5
<1>7. /\ table[s] \in Seq(Blocks) /\ free \in Seq(Blocks) /\ reserved[s] \in Seq(Blocks)
  BY <1>2 DEF BlockTypeOK
<1>8. table'[s] = table[s] \/ \E b \in Blocks : table'[s] = Append(table[s], b)
  <2>1. /\ Elems(free) \subseteq Blocks
        /\ reserved[s] # <<>> => reserved[s][Len(reserved[s])] \in Blocks
    BY <1>7, ElemsIn, LastFacts
  <2> QED BY <1>5, <2>1
<1>9. /\ table'[s] \in Seq(Blocks) /\ Len(table[s]) <= Len(table'[s])
      /\ \A i \in 1 .. Len(table[s]) : table'[s][i] = table[s][i]
  <2>1. CASE table'[s] = table[s]
    BY <1>7, <2>1
  <2>2. CASE \E b \in Blocks : table'[s] = Append(table[s], b)
    <3>1. PICK b \in Blocks : table'[s] = Append(table[s], b)
      BY <2>2
    <3> DEFINE t == table[s]
    <3>2. t \in Seq(Blocks)
      BY <1>7
    <3> HIDE DEF t
    <3>3. /\ Append(t, b) \in Seq(Blocks) /\ Len(t) <= Len(Append(t, b))
          /\ \A i \in 1 .. Len(t) : Append(t, b)[i] = t[i]
      BY <3>2
    <3> QED BY <3>1, <3>3 DEF t
  <2> QED BY <1>8, <2>1, <2>2
<1>10. ASSUME NEW r \in Seqs PROVE StoredFor(r, Done(r))'
  <2>1. Done(r) = cached[r] /\ Done(r)' = cached[r] /\ StoredFor(r, Done(r))
    BY <1>1 DEF Done, KVInv, DoneIsStored
  <2>2. CASE r # s
    BY <1>1, <1>4, <2>1, <2>2, StoredFrame
  <2>3. CASE r = s
    <3>1. Stored(kv, table[s], tokens[s], cached[s])
      BY <2>1, <2>3 DEF StoredFor
    <3>2. tokens[s] \in Seq(Token) /\ cached[s] \in Nat
      BY <1>2 DEF BlockTypeOK
    <3>3. Stored(kv, table'[s], tokens[s], cached[s])
      <4>1. cached[s] <= cached[s] /\ table[s] \in Seq(Blocks)
        BY <1>7, <3>2
      <4> QED BY <1>9, <3>1, <3>2, <4>1, StoredKept
    <3> QED BY <1>1, <2>1, <2>3, <3>3 DEF StoredFor
  <2> QED BY <2>2, <2>3
<1> QED BY <1>1, <1>6, <1>10, PublishedFrame DEF KVInv, DoneIsStored

\* A preempted sequence has nothing left.
LEMMA PreemptStored ==
    ASSUME LInv, KVInv, NEW s \in Seqs, Preempt(s) \/ LegacyPreempt(s)
    PROVE  DoneIsStored' /\ PublishedKVIsRight'
<1>1. PICK v \in Seqs :
             /\ v \notin Elems(Batch) /\ Deallocate(v, hash) /\ hash' = hash /\ index' = index
             /\ cached' = [cached EXCEPT ![v] = 0] /\ status' = [status EXCEPT ![v] = "WAITING"]
             /\ pc \in {"running", "decode"} /\ pc' = pc
             /\ UNCHANGED <<batchVars, scheduled, kv, config, tokens>>
  BY PreemptedUnscheduled
<1>2. /\ kv' = kv /\ tokens' = tokens /\ pc # "post" /\ pc' # "post"
      /\ table' = [table EXCEPT ![v] = <<>>]
  BY <1>1 DEF Deallocate
<1>3. cached \in [Seqs -> Nat] /\ table \in [Seqs -> Seq(Blocks)]
  BY DEF LInv, AllocInv, PoolInv, BlockTypeOK
<1>4. ASSUME NEW r \in Seqs PROVE StoredFor(r, Done(r))'
  <2>1. Done(r) = cached[r] /\ Done(r)' = cached'[r] /\ StoredFor(r, Done(r))
    BY <1>2 DEF Done, KVInv, DoneIsStored
  <2>2. CASE r # v
    <3>1. cached'[r] = cached[r] /\ table'[r] = table[r]
      BY <1>1, <1>2, <1>3, <2>2
    <3> QED BY <1>2, <2>1, <3>1, StoredFrame
  <2>3. CASE r = v
    <3>1. cached'[r] = 0
      BY <1>1, <1>3, <2>3
    <3> QED BY <2>1, <3>1, NothingStored DEF StoredFor
  <2> QED BY <2>2, <2>3
<1> QED BY <1>1, <1>2, <1>4, PublishedFrame DEF KVInv, DoneIsStored

\* n blocks hold n times the block size.
LEMMA SlotInFull ==
    ASSUME NEW n \in Nat, NEW p \in 1 .. n * BlockSize
    PROVE  SlotIndex(p) \in 1 .. n
<1>1. p \in Nat \ {0} /\ BlockSize \in Nat \ {0} /\ n * BlockSize \in Nat
  BY PoolAssumption
<1> DEFINE i == SlotIndex(p)
           o == SlotOffset(p)
<1>2. i \in Nat \ {0} /\ o \in 1 .. BlockSize /\ p = (i - 1) * BlockSize + o
  BY <1>1, SlotFacts
<1> HIDE DEF i, o
<1>3. ASSUME i > n PROVE FALSE
  <2>1. PICK k \in Nat : i - 1 = n + k
    BY <1>2, <1>3, i - 1 - n \in Nat, i - 1 = n + (i - 1 - n)
  <2>2. (n + k) * BlockSize = n * BlockSize + k * BlockSize /\ k * BlockSize \in Nat
    BY <1>1
  <2>3. p = n * BlockSize + k * BlockSize + o
    BY <1>2, <2>1, <2>2
  <2> QED BY <1>1, <1>2, <2>2, <2>3
<1> QED BY <1>2, <1>3 DEF i

\* A prefix of a prefix.
LEMMA PrefixOfPrefix ==
    ASSUME NEW D, NEW q \in Seq(D), NEW m \in 0 .. Len(q), NEW p \in 0 .. m
    PROVE  SubSeq(SubSeq(q, 1, m), 1, p) = SubSeq(q, 1, p)
<1> DEFINE r == SubSeq(q, 1, m)
<1>1. r \in Seq(D) /\ Len(r) = m /\ \A i \in 1 .. m : r[i] = q[i]
  OBVIOUS
<1> HIDE DEF r
<1>2. /\ SubSeq(r, 1, p) \in Seq(D) /\ SubSeq(q, 1, p) \in Seq(D)
      /\ Len(SubSeq(r, 1, p)) = p /\ Len(SubSeq(q, 1, p)) = p
      /\ \A i \in 1 .. p : SubSeq(r, 1, p)[i] = r[i] /\ SubSeq(q, 1, p)[i] = q[i]
  BY <1>1
<1>3. \A i \in 1 .. p : SubSeq(r, 1, p)[i] = SubSeq(q, 1, p)[i]
  BY <1>1, <1>2
<1> QED BY <1>2, <1>3, SeqEqual DEF r

\* What the KV of a slot is by the hash of its block.
LEMMA HashedSlot ==
    ASSUME BlockTypeOK, NEW s \in Seqs, NEW p \in Nat \ {0},
           SlotIndex(p) * BlockSize <= NumTokens(s)
    PROVE  LET h == PrefixHash(s, SlotIndex(p)) IN
           SubSeq(h, 1, Len(h) - BlockSize + SlotOffset(p)) = SubSeq(tokens[s], 1, p)
<1> DEFINE i == SlotIndex(p)
           o == SlotOffset(p)
           n == i * BlockSize
           h == PrefixHash(s, i)
<1>1. i \in Nat \ {0} /\ o \in 1 .. BlockSize /\ p = (i - 1) * BlockSize + o
  BY SlotFacts
<1>2. BlockSize \in Nat \ {0} /\ tokens[s] \in Seq(Token) /\ NumTokens(s) = Len(tokens[s])
  BY PoolAssumption DEF BlockTypeOK, NumTokens
<1>3. Len(h) = n
  BY <1>1, PrefixHashFacts
<1>4. h = SubSeq(tokens[s], 1, n)
  BY DEF PrefixHash
<1>5. n <= NumTokens(s)
  OBVIOUS
<1> HIDE DEF i, o, h
<1>6. n \in Nat /\ (i - 1) * BlockSize = n - BlockSize
  BY <1>1, <1>2
<1> HIDE DEF n
<1>7. Len(h) - BlockSize + o = p /\ p <= n
  BY <1>1, <1>2, <1>3, <1>6
<1>8. n \in 0 .. Len(tokens[s]) /\ p \in 0 .. n
  BY <1>2, <1>5, <1>6, <1>7
<1>9. SubSeq(h, 1, p) = SubSeq(tokens[s], 1, p)
  BY <1>2, <1>4, <1>8, PrefixOfPrefix
<1> QED BY <1>7, <1>9 DEF h, i, o

\* An admitted sequence finds the KV of its own prefix in the blocks it shares.
LEMMA AllocateStored ==
    ASSUME LInv, KVInv, NEW s \in Seqs, table[s] = <<>>, CanAllocate(s), Allocate(s),
           tokens' = tokens, reserved' = reserved, kv' = kv, pc # "post", pc' = pc
    PROVE  DoneIsStored' /\ PublishedKVIsRight'
<1>1. AllocInv(FALSE)
  BY DEF LInv
<1>2. /\ PoolInv /\ IndexIsCurrent /\ tokens[s] # <<>> /\ reserved[s] = <<>>
      /\ BlockTypeOK
  BY <1>1, NothingHeld DEF AllocInv, SeqInv, PoolInv
<1>3. /\ cached' = [cached EXCEPT ![s] = NumHits(s) * BlockSize]
      /\ \A r \in Seqs \ {s} : table'[r] = table[r]
  BY <1>2, AllocatePool
<1>4. PICK hits \in Seq(Blocks), fresh \in Seq(Blocks) :
        /\ table'[s] = hits \o fresh /\ Len(hits) = NumHits(s)
        /\ \A i \in 1 .. Len(hits) :
             hash[hits[i]] = PrefixHash(s, i) /\ hash[hits[i]] # NoHash
        /\ \A b \in Blocks : hash'[b] = IF b \in Elems(fresh) THEN NoHash ELSE hash[b]
  BY <1>2, AllocatePool
<1>5. \A b \in Blocks : hash'[b] = hash[b] \/ hash'[b] = NoHash
  BY <1>4
<1>6. cached \in [Seqs -> Nat]
  BY <1>2 DEF BlockTypeOK
<1>7. ASSUME NEW r \in Seqs \ {s} PROVE StoredFor(r, Done(r))'
  <2>1. Done(r) = cached[r] /\ Done(r)' = cached'[r] /\ StoredFor(r, Done(r))
    BY DEF Done, KVInv, DoneIsStored
  <2>2. cached'[r] = cached[r] /\ table'[r] = table[r]
    BY <1>3, <1>6
  <2> QED BY <2>1, <2>2, StoredFrame
<1>8. StoredFor(s, Done(s))'
  <2> DEFINE n == NumHits(s)
  <2>1. Done(s)' = n * BlockSize
    BY <1>3, <1>6 DEF Done
  <2>2. SUFFICES ASSUME NEW p \in 1 .. n * BlockSize
                 PROVE  /\ SlotIndex(p) <= Len(table'[s])
                        /\ kv[table'[s][SlotIndex(p)]][SlotOffset(p)] = SubSeq(tokens[s], 1, p)
    BY <2>1 DEF StoredFor, Stored
  <2>3. n \in 0 .. SeqBlocks(s) - 1 /\ n \in Nat
    <3>1. SeqBlocks(s) \in Nat
      BY <1>2, SeqBlocksFacts
    <3> QED BY <1>2, <3>1, NumHitsFacts
  <2>4. n * BlockSize <= NumTokens(s) /\ n * BlockSize \in Nat /\ NumTokens(s) \in Nat
    BY <1>2, <2>3, SeqBlocksFacts
  <2> DEFINE i == SlotIndex(p)
  <2>5. i \in 1 .. n /\ p \in Nat \ {0} /\ SlotOffset(p) \in 1 .. BlockSize
    BY <2>3, SlotInFull, SlotFacts
  <2>6. i * BlockSize <= NumTokens(s)
    <3>1. SeqBlocks(s) \in Nat
      BY <1>2, SeqBlocksFacts
    <3>2. i \in 0 .. SeqBlocks(s) - 1
      BY <2>3, <2>5, <3>1
    <3>3. i * BlockSize \in 0 .. NumTokens(s)
      BY <1>2, <3>2, SeqBlocksFacts
    <3> QED BY <2>4, <3>3
  <2>7. i \in 1 .. Len(hits) /\ table'[s][i] = hits[i] /\ i <= Len(table'[s])
    <3> HIDE DEF i, n
    <3>1. i \in 1 .. Len(hits)
      BY <1>4, <2>5 DEF n
    <3> QED BY <1>4, <3>1
  <2>8. hits[i] \in Blocks /\ hash[hits[i]] = PrefixHash(s, i) /\ hash[hits[i]] # NoHash
    BY <1>4, <2>7
  <2>9. kv[hits[i]][SlotOffset(p)]
          = SubSeq(hash[hits[i]], 1, Len(hash[hits[i]]) - BlockSize + SlotOffset(p))
    BY <2>5, <2>8 DEF KVInv, PublishedKVIsRight
  <2>10. SubSeq(hash[hits[i]], 1, Len(hash[hits[i]]) - BlockSize + SlotOffset(p))
           = SubSeq(tokens[s], 1, p)
    BY <1>2, <2>5, <2>6, <2>8, HashedSlot
  <2> QED BY <2>7, <2>9, <2>10
<1> QED BY <1>5, <1>7, <1>8, PublishedFrame DEF KVInv, DoneIsStored

\* Both modes admit with allocate.
LEMMA AdmitStored ==
    ASSUME LInv, KVInv, NEW s \in Seqs, Admit(s)
    PROVE  DoneIsStored' /\ PublishedKVIsRight'
<1>1. /\ pc = "waiting" /\ pc' = pc /\ s = Head(waiting) /\ waiting # <<>> /\ CanAllocate(s)
      /\ Allocate(s) /\ tokens' = tokens /\ reserved' = reserved /\ kv' = kv
  BY DEF Admit, MayAdmit
<1>2. Continuous /\ waiting \in Seq(Seqs)
  BY <1>1, TypeFacts DEF LInv, ModeInv
<1>3. s \in Elems(waiting)
  BY <1>1, <1>2, HeadTailFacts
<1>4. status[s] = "WAITING"
  BY <1>3 DEF LInv, QueueInv
<1>5. table[s] = <<>>
  BY <1>2, <1>4 DEF LInv, HoldOK
<1> QED BY <1>1, <1>5, AllocateStored

\* A sequence under way has its blocks already.
LEMMA PrefillStored ==
    ASSUME LInv, KVInv, NEW s \in Seqs, SchedulePrefill(s)
    PROVE  DoneIsStored' /\ PublishedKVIsRight'
<1>1. /\ pc = "prefill" /\ pc' = pc /\ (table[s] = <<>> => CanAllocate(s)) /\ EnsureBlocks(s)
      /\ tokens' = tokens /\ reserved' = reserved /\ kv' = kv
  BY DEF SchedulePrefill, MaySchedulePrefill
<1>2. CASE table[s] = <<>> /\ Allocate(s)
  BY <1>1, <1>2, AllocateStored
<1>3. CASE UNCHANGED <<table, cached, blockVars>>
  <2>1. table' = table /\ cached' = cached /\ hash' = hash
    BY <1>3 DEF blockVars
  <2>2. \A r \in Seqs : Done(r)' = Done(r)
    BY <1>1, <2>1 DEF Done
  <2>3. DoneIsStored'
    BY <1>1, <2>1, <2>2, StoredFrame DEF KVInv, DoneIsStored
  <2>4. PublishedKVIsRight'
    BY <1>1, <2>1, PublishedFrame DEF KVInv
  <2> QED BY <2>3, <2>4
<1> QED BY <1>1, <1>2, <1>3 DEF EnsureBlocks

\* A token's place names the token.
LEMMA PlaceNames ==
    ASSUME NEW i \in Nat \ {0}, NEW o \in 1 .. BlockSize, NEW p \in Nat \ {0},
           p = (i - 1) * BlockSize + o
    PROVE  SlotIndex(p) = i /\ SlotOffset(p) = o
<1> DEFINE j == SlotIndex(p)
           u == SlotOffset(p)
           size == BlockSize
<1>1. /\ size \in Nat \ {0} /\ j \in Nat \ {0} /\ u \in 1 .. size
      /\ p = (j - 1) * size + u /\ p = (i - 1) * size + o /\ o \in 1 .. size
  BY PoolAssumption, SlotFacts
<1> HIDE DEF j, u, size
<1>2. ASSUME NEW a \in Nat, NEW b \in Nat, NEW x \in 1 .. size, NEW y \in 1 .. size, a < b,
             a * size + x = b * size + y
      PROVE  FALSE
  <2>0. b - (a + 1) \in Nat /\ b = a + 1 + (b - (a + 1))
    BY <1>2
  <2>1. PICK k \in Nat : b = a + 1 + k
    BY <2>0
  <2>2. b * size = a * size + size + k * size /\ k * size \in Nat /\ a * size \in Nat
    BY <1>1, <2>1
  <2> QED BY <1>1, <1>2, <2>2
<1>3. i - 1 \in Nat /\ j - 1 \in Nat
  BY <1>1
<1>4. ~(i - 1 < j - 1) /\ ~(j - 1 < i - 1)
  BY <1>1, <1>2, <1>3
<1>5. i = j
  BY <1>1, <1>3, <1>4
<1>6. (j - 1) * size \in Nat
  BY <1>1, <1>3
<1> QED BY <1>1, <1>5, <1>6 DEF j, u

\* A filled block holds the KV of the prefix it is published under.
LEMMA FilledRight ==
    ASSUME LInv, KVInv, NEW s \in Seqs, NextPost(s), Computed(s),
           NEW i \in FilledBlocks(s, scheduled[s]), NEW o \in 1 .. BlockSize
    PROVE  LET h == PrefixHash(s, i) IN
           kv[table[s][i]][o] = SubSeq(h, 1, Len(h) - BlockSize + o)
<1>1. /\ pc = "post" /\ Ready(s) /\ HashBlocks(s, scheduled[s]) /\ s \in Elems(todo)
  <2>1. /\ pc = "post" /\ Ready(s) /\ HashBlocks(s, scheduled[s])
        /\ Elems(todo) = {s} \cup Elems(todo')
    BY PostFacts
  <2> QED BY <2>1
<1>2. /\ TypeOK /\ AllocInv(FALSE) /\ BlockTypeOK
  BY TypeFacts DEF LInv
<1>3. /\ cached[s] \in Nat /\ scheduled[s] \in Nat /\ NumTokens(s) \in Nat
      /\ cached[s] + scheduled[s] <= NumTokens(s) /\ BlockSize \in Nat \ {0}
  BY <1>1, <1>2, SizeFacts, PoolAssumption DEF Ready
<1> DEFINE d == cached[s] + scheduled[s]
           n == i * BlockSize
<1>4. i \in Nat \ {0} /\ n <= d
  <2>1. d \in Nat
    BY <1>3
  <2>2. i \in cached[s] \div BlockSize + 1 .. d \div BlockSize
    BY DEF FilledBlocks
  <2>3. cached[s] \div BlockSize \in Nat
    BY <1>3
  <2> HIDE DEF d
  <2>4. d \div BlockSize \in Nat /\ (d \div BlockSize) * BlockSize <= d
    BY <1>3, <2>1
  <2>5. i \in Nat \ {0} /\ i <= d \div BlockSize
    BY <2>2, <2>3, <2>4
  <2>6. PICK k \in Nat : d \div BlockSize = i + k
    BY <2>4, <2>5, d \div BlockSize - i \in Nat, d \div BlockSize = i + (d \div BlockSize - i)
  <2>7. (i + k) * BlockSize = i * BlockSize + k * BlockSize /\ k * BlockSize \in Nat
        /\ i * BlockSize \in Nat
    BY <1>3, <2>5
  <2> QED BY <2>1, <2>4, <2>5, <2>6, <2>7
<1> DEFINE p == (i - 1) * BlockSize + o
<1>5. n \in Nat /\ (i - 1) * BlockSize = n - BlockSize /\ (i - 1) * BlockSize \in Nat
  BY <1>3, <1>4
<1>6. p \in Nat \ {0} /\ p <= d /\ d \in Nat
  <2> HIDE DEF n, d
  <2>1. n <= d /\ d \in Nat
    BY <1>3, <1>4 DEF d
  <2> QED BY <1>3, <1>5, <2>1
<1>7. SlotIndex(p) = i /\ SlotOffset(p) = o
  BY <1>4, <1>6, PlaceNames
<1>8. StoredFor(s, d)
  BY <1>1 DEF KVInv, DoneIsStored, Done
<1>9. kv[table[s][i]][o] = SubSeq(tokens[s], 1, p)
  <2> HIDE DEF p, d
  <2> QED BY <1>6, <1>7, <1>8 DEF StoredFor, Stored
<1>10. i * BlockSize <= NumTokens(s)
  <2> HIDE DEF d
  <2>1. d <= NumTokens(s) /\ d \in Nat
    BY <1>3 DEF d
  <2> QED BY <1>3, <1>4, <1>5, <2>1
<1> HIDE DEF p
<1> QED BY <1>2, <1>6, <1>7, <1>9, <1>10, HashedSlot

-----------------------------------------------------------------------------
(* The contents of the blocks: what postprocess counts and publishes *)

\* The blocks a step has filled get the hash of what is in them.
LEMMA FilledPublished ==
    ASSUME LInv, KVInv, NEW s \in Seqs, NextPost(s), Computed(s)
    PROVE  PublishedKVIsRight'
<1>1. /\ s \in Elems(todo) /\ Ready(s) /\ HashBlocks(s, scheduled[s]) /\ kv' = kv
  <2>1. /\ Ready(s) /\ HashBlocks(s, scheduled[s]) /\ kv' = kv
        /\ Elems(todo) = {s} \cup Elems(todo')
    BY PostFacts
  <2> QED BY <2>1
<1>2. /\ AllocInv(FALSE) /\ ~FALSE /\ scheduled[s] \in Nat
      /\ Len(table[s]) = SeqBlocks(s) /\ cached[s] + scheduled[s] <= NumTokens(s)
  BY <1>1, SizeFacts DEF LInv, Ready
<1> DEFINE filled == {table[s][i] : i \in FilledBlocks(s, scheduled[s])}
<1>3. /\ \A i \in FilledBlocks(s, scheduled[s]) : hash'[table[s][i]] = PrefixHash(s, i)
      /\ \A b \in Blocks : b \in filled \/ hash'[b] = hash[b]
  BY <1>1, <1>2, HashBlocksFacts
<1> SUFFICES ASSUME NEW b \in Blocks, hash'[b] # NoHash, NEW o \in 1 .. BlockSize
             PROVE  kv'[b][o] = SubSeq(hash'[b], 1, Len(hash'[b]) - BlockSize + o)
  BY DEF PublishedKVIsRight
<1>4. CASE b \in filled
  <2>1. PICK i \in FilledBlocks(s, scheduled[s]) : b = table[s][i]
    BY <1>4
  <2>2. kv[table[s][i]][o]
          = SubSeq(PrefixHash(s, i), 1, Len(PrefixHash(s, i)) - BlockSize + o)
    BY FilledRight
  <2> QED BY <1>1, <1>3, <2>1, <2>2
<1>5. CASE hash'[b] = hash[b]
  BY <1>1, <1>5 DEF KVInv, PublishedKVIsRight
<1> QED BY <1>3, <1>4, <1>5

\* What is counted was stored before; what ends is forgotten.
LEMMA PostStored ==
    ASSUME LInv, KVInv, NEW s \in Seqs,
           PostChunk(s) \/ \E token \in Token : PostToken(s, token) \/ PostFinish(s, token)
    PROVE  DoneIsStored' /\ PublishedKVIsRight'
<1>1. NextPost(s) /\ Computed(s)
  BY DEF PostChunk, PostToken, PostFinish
<1>2. /\ pc = "post" /\ pc' = pc /\ kv' = kv /\ Ready(s)
      /\ Elems(todo) = {s} \cup Elems(todo') /\ s \notin Elems(todo')
      /\ \A r \in Seqs \ {s} : scheduled'[r] = scheduled[r]
  BY <1>1, PostFacts
<1>3. /\ BlockTypeOK /\ cached[s] \in Nat /\ scheduled[s] \in Nat
      /\ table[s] \in Seq(Blocks) /\ tokens[s] \in Seq(Token)
  BY SizeFacts, TypeFacts DEF LInv
<1>4. \A r \in Seqs \ {s} : /\ tokens'[r] = tokens[r] /\ cached'[r] = cached[r]
                            /\ table'[r] = table[r]
  BY <1>3 DEF BlockTypeOK, PostChunk, PostToken, PostFinish, Deallocate
<1>5. ASSUME NEW r \in Seqs \ {s} PROVE StoredFor(r, Done(r))'
  <2>1. Done(r)' = Done(r) /\ StoredFor(r, Done(r))
    BY <1>2, <1>4 DEF Done, KVInv, DoneIsStored
  <2> QED BY <1>2, <1>4, <2>1, StoredFrame
<1>6. StoredFor(s, Done(s))'
  <2> DEFINE d == cached[s] + scheduled[s]
  <2>1. Done(s)' = cached'[s] /\ StoredFor(s, d) /\ d \in Nat /\ d <= NumTokens(s)
    BY <1>2, <1>3 DEF Done, KVInv, DoneIsStored, Ready
  <2>2. CASE PostChunk(s)
    <3>1. cached'[s] = d /\ tokens' = tokens /\ table' = table
      BY <1>3, <2>2 DEF PostChunk, BlockTypeOK
    <3> QED BY <1>2, <2>1, <3>1 DEF StoredFor, Stored
  <2>3. CASE \E token \in Token : PostToken(s, token)
    <3>1. PICK token \in Token : PostToken(s, token)
      BY <2>3
    <3>2. /\ cached'[s] = d /\ tokens' = [tokens EXCEPT ![s] = Append(@, token)]
          /\ table' = table
      BY <1>3, <3>1 DEF PostToken, BlockTypeOK
    <3>3. NumTokens(s) \in Nat
          /\ \A n \in 0 .. NumTokens(s) : SubSeq(tokens'[s], 1, n) = SubSeq(tokens[s], 1, n)
      BY <1>3, <3>2, TokensGrow
    <3> HIDE DEF d
    <3>4. \A p \in 1 .. d : SubSeq(tokens'[s], 1, p) = SubSeq(tokens[s], 1, p)
      BY <2>1, <3>3
    <3> QED BY <1>2, <2>1, <3>2, <3>4 DEF StoredFor, Stored
  <2>4. CASE \E token \in Token : PostFinish(s, token)
    <3>1. cached'[s] = 0
      BY <1>3, <2>4 DEF PostFinish, BlockTypeOK
    <3> QED BY <2>1, <3>1, NothingStored DEF StoredFor
  <2> QED BY <2>2, <2>3, <2>4
<1> QED BY <1>1, <1>5, <1>6, FilledPublished DEF DoneIsStored

-----------------------------------------------------------------------------
(* The contents of the blocks: what a step stores *)

\* A store of the batch belongs to one of its sequences.
LEMMA StoreOf ==
    ASSUME NEW w \in Writes(prefills, decodes)
    PROVE  \/ \E s \in Elems(prefills) : w \in PrefillWrites(s)
           \/ \E s \in Elems(decodes) : w \in DecodeWrites(s)
  BY DEF Writes

\* The place of the last token of a decode.
LEMMA DecodePlace ==
    ASSUME LInv, KVInv, pc = "execute", NEW s \in Elems(decodes)
    PROVE  /\ s \in Elems(Batch) /\ scheduled[s] = 1 /\ cached[s] + 1 = NumTokens(s)
           /\ Len(table[s]) = SlotIndex(NumTokens(s)) /\ NumTokens(s) - 1 = cached[s]
<1>1. s \in Elems(Batch)
  BY DecodesInBatch DEF LInv
<1>2. /\ s \in Seqs /\ NumTokens(s) \in Nat \ {0} /\ Len(table[s]) = SeqBlocks(s)
      /\ cached[s] \in Nat
  BY <1>1, BatchTokens
<1>3. scheduled[s] = 1 /\ cached[s] + 1 = NumTokens(s)
  BY <1>2 DEF KVInv, ProgressInv
<1>4. Len(table[s]) = SlotIndex(NumTokens(s))
  BY <1>2, SlotFacts DEF SeqBlocks
<1> QED BY <1>1, <1>2, <1>3, <1>4

\* A step stores the KV of tokens of the batch, read with all that comes before them ...
LEMMA BatchWrites ==
    ASSUME LInv, KVInv, pc = "execute", NEW w \in Writes(prefills, decodes)
    PROVE  \E s \in Elems(Batch) : \E p \in cached[s] + 1 .. cached[s] + scheduled[s] :
              WritesSlot(w, s, p) /\ w.value = SubSeq(tokens[s], 1, p)
<1>1. Elems(prefills) \subseteq Elems(Batch)
  BY DecodesInBatch DEF LInv
<1>2. \A s \in Elems(Batch) : ContextReady(s, cached[s])
  <2> TAKE s \in Elems(Batch)
  <2>1. s \in Seqs /\ Done(s) = cached[s]
    BY BatchTokens DEF Done
  <2> QED BY <2>1, ReadyIsStored DEF KVInv, DoneIsStored
<1>3. CASE \E s \in Elems(prefills) : w \in PrefillWrites(s)
  <2>1. PICK s \in Elems(prefills) : w \in PrefillWrites(s)
    BY <1>3
  <2>2. PICK p \in cached[s] + 1 .. cached[s] + scheduled[s] :
           /\ w.block = SlotBlock(s, p) /\ w.offset = SlotOffset(p)
           /\ w.value = KVOf(s, p, cached[s])
    BY <2>1 DEF PrefillWrites
  <2>3. s \in Elems(Batch) /\ w.value = SubSeq(tokens[s], 1, p)
    BY <1>1, <1>2, <2>1, <2>2 DEF KVOf
  <2>4. p \in 1 .. NumTokens(s) /\ \A q \in 1 .. NumTokens(s) : SlotIndex(q) <= Len(table[s])
    <3>1. /\ cached[s] \in Nat /\ scheduled[s] \in Nat /\ NumTokens(s) \in Nat
          /\ cached[s] + scheduled[s] <= NumTokens(s)
          /\ \A q \in 1 .. NumTokens(s) : SlotIndex(q) \in 1 .. Len(table[s])
      BY <2>3, BatchTokens
    <3> QED BY <2>2, <3>1
  <2>5. WritesSlot(w, s, p)
    BY <2>2, <2>4 DEF WritesSlot, SlotBlock, SlotIndex
  <2> QED BY <2>2, <2>3, <2>5
<1>4. CASE \E s \in Elems(decodes) : w \in DecodeWrites(s)
  <2>1. PICK s \in Elems(decodes) : w \in DecodeWrites(s)
    BY <1>4
  <2> DEFINE p == NumTokens(s)
  <2>2. /\ w.block = table[s][Len(table[s])] /\ w.offset = SlotOffset(p)
        /\ w.value = KVOf(s, p, p - 1)
    BY <2>1 DEF DecodeWrites
  <2>3. /\ s \in Elems(Batch) /\ scheduled[s] = 1 /\ cached[s] + 1 = p
        /\ Len(table[s]) = SlotIndex(p) /\ p - 1 = cached[s]
    BY <2>1, DecodePlace
  <2>4. p \in Nat /\ cached[s] \in Nat
    BY <2>3, BatchTokens
  <2>5. p \in cached[s] + 1 .. cached[s] + scheduled[s]
    <3> HIDE DEF p
    <3> QED BY <2>3, <2>4
  <2>6. SlotIndex(p) <= Len(table[s])
    <3>1. Len(table[s]) \in Nat
      BY <2>3, BatchTokens
    <3> QED BY <2>3, <3>1
  <2>7. w.value = SubSeq(tokens[s], 1, p) /\ WritesSlot(w, s, p)
    BY <1>2, <2>2, <2>3, <2>6 DEF KVOf, WritesSlot
  <2> QED BY <2>3, <2>5, <2>7
<1> QED BY <1>3, <1>4, StoreOf

\* ... all of those that are scheduled.
LEMMA AllWritten ==
    ASSUME LInv, KVInv, pc = "execute", NEW s \in Elems(Batch),
           NEW p \in cached[s] + 1 .. cached[s] + scheduled[s]
    PROVE  \E w \in Writes(prefills, decodes) : WritesSlot(w, s, p)
<1>1. /\ cached[s] \in Nat /\ scheduled[s] \in Nat /\ NumTokens(s) \in Nat
      /\ cached[s] + scheduled[s] <= NumTokens(s) /\ Len(table[s]) \in Nat
      /\ \A q \in 1 .. NumTokens(s) : SlotIndex(q) \in 1 .. Len(table[s])
  BY BatchTokens
<1>2. p \in 1 .. NumTokens(s) /\ SlotIndex(p) <= Len(table[s])
  <2>1. p \in 1 .. NumTokens(s)
    BY <1>1
  <2>2. SlotIndex(p) \in 1 .. Len(table[s])
    BY <1>1, <2>1
  <2> QED BY <2>1, <2>2
<1>3. Elems(Batch) = Elems(prefills) \cup Elems(decodes)
  BY DecodesInBatch DEF LInv
<1>4. CASE s \in Elems(prefills)
  <2> DEFINE w == [block |-> SlotBlock(s, p), offset |-> SlotOffset(p),
                   value |-> KVOf(s, p, cached[s])]
  <2>1. w \in PrefillWrites(s)
    BY DEF PrefillWrites
  <2>2. w \in Writes(prefills, decodes)
    BY <1>4, <2>1 DEF Writes
  <2>3. WritesSlot(w, s, p)
    BY <1>2 DEF WritesSlot, SlotBlock, SlotIndex
  <2> QED BY <2>2, <2>3
<1>5. CASE s \in Elems(decodes)
  <2> DEFINE w == [block |-> table[s][Len(table[s])], offset |-> SlotOffset(NumTokens(s)),
                   value |-> KVOf(s, NumTokens(s), NumTokens(s) - 1)]
  <2>1. w \in DecodeWrites(s)
    BY DEF DecodeWrites
  <2>2. w \in Writes(prefills, decodes)
    BY <1>5, <2>1 DEF Writes
  <2>3. /\ scheduled[s] = 1 /\ cached[s] + 1 = NumTokens(s)
        /\ Len(table[s]) = SlotIndex(NumTokens(s))
    BY <1>5, DecodePlace
  <2>4. p = NumTokens(s)
    BY <1>1, <2>3
  <2>5. w.block = table[s][SlotIndex(p)] /\ w.offset = SlotOffset(p)
    BY <2>3, <2>4
  <2> HIDE DEF w
  <2>6. WritesSlot(w, s, p)
    BY <1>2, <2>5 DEF WritesSlot
  <2> QED BY <2>2, <2>6
<1> QED BY <1>3, <1>4, <1>5

\* A slot to be written is that of one token of one sequence.
LEMMA NewSlotUnique ==
    ASSUME LInv, NEW s \in Elems(Batch), NEW p \in cached[s] + 1 .. cached[s] + scheduled[s],
           NEW q \in Seqs, NEW r \in Nat \ {0},
           NEW w, WritesSlot(w, s, p), WritesSlot(w, q, r)
    PROVE  q = s /\ r = p
<1>1. /\ s \in Seqs /\ cached[s] \in Nat /\ scheduled[s] \in Nat /\ NumTokens(s) \in Nat
      /\ cached[s] + scheduled[s] <= NumTokens(s)
  BY BatchTokens
<1>2. p \in cached[s] + 1 .. NumTokens(s) /\ p \in Nat \ {0}
  BY <1>1
<1>3. SlotIndex(p) \in 1 .. Len(table[s]) /\ Holders(table[s][SlotIndex(p)]) = {s}
  BY <1>2, NewSlotsArePrivate
<1>4. /\ SlotIndex(p) \in Nat \ {0} /\ p = (SlotIndex(p) - 1) * BlockSize + SlotOffset(p)
      /\ SlotIndex(r) \in Nat \ {0} /\ r = (SlotIndex(r) - 1) * BlockSize + SlotOffset(r)
  BY <1>2, SlotFacts
<1>5. /\ PoolInv /\ BlockTypeOK /\ table[s] \in Seq(Blocks) /\ reserved[s] \in Seq(Blocks)
      /\ table[q] \in Seq(Blocks)
  BY <1>1 DEF LInv, AllocInv, PoolInv, BlockTypeOK
<1>6. /\ w.block = table[s][SlotIndex(p)] /\ w.block = table[q][SlotIndex(r)]
      /\ SlotIndex(r) \in 1 .. Len(table[q]) /\ SlotOffset(p) = SlotOffset(r)
  BY <1>4, <1>5 DEF WritesSlot
<1>7. q \in Holders(w.block)
  BY <1>6 DEF Holders, Elems
<1>8. q = s
  BY <1>3, <1>6, <1>7
<1>9. Distinct(table[s])
  <2> DEFINE u == table[s]
             v == reserved[s]
  <2>1. u \in Seq(Blocks) /\ v \in Seq(Blocks) /\ Distinct(u \o v)
    BY <1>1, <1>5 DEF PoolInv, TablesDistinct
  <2> HIDE DEF u, v
  <2>2. Distinct(u)
    BY <2>1, ConcatFacts
  <2> QED BY <2>2 DEF u
<1>10. SlotIndex(p) = SlotIndex(r)
  BY <1>3, <1>6, <1>8, <1>9 DEF Distinct
<1> QED BY <1>4, <1>6, <1>8, <1>10

\* The batch computes the p-th token of s.
Batched(s, p) == s \in Elems(Batch) /\ p \in cached[s] + 1 .. cached[s] + scheduled[s]

\* What a slot holds after the step, if it is to hold the KV of its token.
LEMMA StepSlot ==
    ASSUME LInv, KVInv, pc = "execute", RunStep(Writes(prefills, decodes)),
           NEW s \in Seqs, NEW p \in Nat \ {0}, SlotIndex(p) <= Len(table[s]),
           \/ Batched(s, p)
           \/ kv[table[s][SlotIndex(p)]][SlotOffset(p)] = SubSeq(tokens[s], 1, p)
    PROVE  kv'[table[s][SlotIndex(p)]][SlotOffset(p)] = SubSeq(tokens[s], 1, p)
<1> DEFINE writes == Writes(prefills, decodes)
           value  == SubSeq(tokens[s], 1, p)
<1>1. \A w \in writes : WritesSlot(w, s, p) => w.value = value
  <2> SUFFICES ASSUME NEW w \in writes, WritesSlot(w, s, p) PROVE w.value = value
    OBVIOUS
  <2>1. PICK q \in Elems(Batch) : \E r \in cached[q] + 1 .. cached[q] + scheduled[q] :
              WritesSlot(w, q, r) /\ w.value = SubSeq(tokens[q], 1, r)
    BY BatchWrites
  <2>2. PICK r \in cached[q] + 1 .. cached[q] + scheduled[q] :
              WritesSlot(w, q, r) /\ w.value = SubSeq(tokens[q], 1, r)
    BY <2>1
  <2>3. s = q /\ p = r
    <3>1. /\ cached[q] \in Nat /\ r \in Nat \ {0}
      BY <2>1, <2>2, BatchTokens
    <3> QED BY <2>2, <3>1, NewSlotUnique
  <2> QED BY <2>2, <2>3
<1>2. \/ \E w \in writes : WritesSlot(w, s, p)
      \/ kv[table[s][SlotIndex(p)]][SlotOffset(p)] = value
  BY AllWritten DEF Batched
<1>3. BlockTypeOK
  BY DEF LInv, AllocInv, PoolInv
<1>4. ASSUME NEW ws, RunStep(ws), NEW v, \A w \in ws : WritesSlot(w, s, p) => w.value = v,
             \/ \E w \in ws : WritesSlot(w, s, p)
             \/ kv[table[s][SlotIndex(p)]][SlotOffset(p)] = v
      PROVE  kv'[table[s][SlotIndex(p)]][SlotOffset(p)] = v
  BY <1>3, <1>4, SlotAfter
<1> HIDE DEF value
<1>5. kv'[table[s][SlotIndex(p)]][SlotOffset(p)] = value
  BY <1>1, <1>2, <1>4
<1> QED BY <1>5 DEF value

\* The model's step stores what the batch is to compute and leaves what is published alone.
LEMMA ExecuteStored ==
    ASSUME LInv, KVInv, Execute
    PROVE  DoneIsStored' /\ PublishedKVIsRight'
<1>1. /\ pc = "execute" /\ pc' = "post" /\ todo' = prefills \o decodes
      /\ RunStep(Writes(prefills, decodes) \cup PaddingWrites)
      /\ tokens' = tokens /\ cached' = cached /\ table' = table /\ hash' = hash
      /\ scheduled' = scheduled
  BY DEF Execute, bmVars, blockVars
<1>2. PaddingWrites = {}
  BY DEF PaddingWrites, PaddingSlot
<1>3. RunStep(Writes(prefills, decodes)) /\ Batch = todo'
  <2>1. Writes(prefills, decodes) \cup PaddingWrites = Writes(prefills, decodes)
    BY <1>2
  <2> QED BY <1>1, <2>1 DEF Batch, Loops
<1>4. ASSUME NEW s \in Seqs PROVE StoredFor(s, Done(s))'
  <2>1. StoredFor(s, cached[s])
    BY <1>1 DEF KVInv, DoneIsStored, Done
  <2>2. Done(s)' = IF s \in Elems(Batch) THEN cached[s] + scheduled[s] ELSE cached[s]
    BY <1>1, <1>3 DEF Done
  <2> DEFINE d == Done(s)'
  <2>3. SUFFICES ASSUME NEW p \in 1 .. d
                 PROVE  /\ SlotIndex(p) <= Len(table[s])
                        /\ kv'[table[s][SlotIndex(p)]][SlotOffset(p)] = SubSeq(tokens[s], 1, p)
    BY <1>1 DEF StoredFor, Stored
  <2>4. cached[s] \in Nat /\ scheduled[s] \in Nat
    BY SizeFacts DEF LInv
  <2> HIDE DEF d
  <2>5. /\ p \in Nat \ {0}
        /\ \/ p \in 1 .. cached[s]
           \/ s \in Elems(Batch) /\ p \in cached[s] + 1 .. cached[s] + scheduled[s]
    <3>1. d = IF s \in Elems(Batch) THEN cached[s] + scheduled[s] ELSE cached[s]
      BY <2>2 DEF d
    <3> QED BY <2>4, <3>1
  <2>6. CASE p \in 1 .. cached[s]
    <3>1. /\ SlotIndex(p) <= Len(table[s])
          /\ kv[table[s][SlotIndex(p)]][SlotOffset(p)] = SubSeq(tokens[s], 1, p)
      BY <2>1, <2>6 DEF StoredFor, Stored
    <3> QED BY <1>1, <1>3, <2>5, <3>1, StepSlot
  <2>7. CASE s \in Elems(Batch) /\ p \in cached[s] + 1 .. cached[s] + scheduled[s]
    <3>1. SlotIndex(p) <= Len(table[s])
      <4>1. /\ NumTokens(s) \in Nat /\ cached[s] + scheduled[s] <= NumTokens(s)
            /\ \A q \in 1 .. NumTokens(s) : SlotIndex(q) \in 1 .. Len(table[s])
            /\ table[s] \in Seq(Blocks)
        BY <2>7, BatchTokens
      <4>2. p \in 1 .. NumTokens(s)
        BY <2>4, <2>5, <2>7, <4>1
      <4>3. SlotIndex(p) \in 1 .. Len(table[s])
        BY <4>1, <4>2
      <4> QED BY <4>3
    <3> QED BY <1>1, <1>3, <2>5, <2>7, <3>1, StepSlot DEF Batched
  <2> QED BY <2>5, <2>6, <2>7
<1>5. PublishedKVIsRight'
  <2> SUFFICES ASSUME NEW b \in Blocks, hash[b] # NoHash, NEW o \in 1 .. BlockSize
               PROVE  kv'[b][o] = SubSeq(hash[b], 1, Len(hash[b]) - BlockSize + o)
    BY <1>1 DEF PublishedKVIsRight
  <2>1. \A w \in Writes(prefills, decodes) : w.block # b
    <3> SUFFICES ASSUME NEW w \in Writes(prefills, decodes), w.block = b PROVE FALSE
      OBVIOUS
    <3>1. PICK s \in Elems(Batch) : \E p \in cached[s] + 1 .. cached[s] + scheduled[s] :
              WritesSlot(w, s, p)
      BY <1>1, BatchWrites
    <3>2. PICK p \in cached[s] + 1 .. cached[s] + scheduled[s] : WritesSlot(w, s, p)
      BY <3>1
    <3>3. /\ cached[s] \in Nat /\ scheduled[s] \in Nat /\ NumTokens(s) \in Nat
          /\ cached[s] + scheduled[s] <= NumTokens(s)
      BY <3>1, BatchTokens
    <3>4. p \in cached[s] + 1 .. NumTokens(s)
      BY <3>2, <3>3
    <3>5. hash[table[s][SlotIndex(p)]] = NoHash
      BY <3>1, <3>4, NewSlotsArePrivate
    <3> QED BY <3>2, <3>5 DEF WritesSlot
  <2>2. kv'[b][o] = kv[b][o]
    BY <1>3, <2>1 DEF RunStep
  <2> QED BY <2>2 DEF KVInv, PublishedKVIsRight
<1> QED BY <1>4, <1>5 DEF DoneIsStored

-----------------------------------------------------------------------------
(* The contents in every state *)

\* At the start nothing is computed and nothing is published.
LEMMA InitKVInv == Init => KVInv
<1> SUFFICES ASSUME Init PROVE KVInv
  OBVIOUS
<1>1. /\ pc = "idle" /\ status = [s \in Seqs |-> "NEW"] /\ cached = [s \in Seqs |-> 0]
      /\ hash = [b \in Blocks |-> NoHash] /\ prefills = <<>> /\ decodes = <<>>
  BY DEF Init, BlockInit
<1>2. \A s \in Seqs : ProgressInv(s)
  <2>1. \A s \in Seqs : status[s] = "NEW"
    BY <1>1
  <2> QED BY <1>1, <2>1 DEF ProgressInv, Loops
<1>3. DoneIsStored
  <2>1. \A s \in Seqs : Done(s) = 0
    BY <1>1 DEF Done
  <2> QED BY <2>1, NothingStored DEF DoneIsStored, StoredFor
<1>4. PublishedKVIsRight
  BY <1>1 DEF PublishedKVIsRight
<1> QED BY <1>2, <1>3, <1>4 DEF KVInv

\* Every step keeps the contents, if what it samples it samples from all tokens.
LEMMA NextKVInv == LInv /\ KVInv /\ WholeSampled /\ [Next]_vars => KVInv'
<1> SUFFICES ASSUME LInv, KVInv, WholeSampled, [Next]_vars PROVE KVInv'
  OBVIOUS
<1>1. CASE UNCHANGED vars
  <2>1. /\ pc' = pc /\ kv' = kv /\ status' = status /\ prefills' = prefills
        /\ decodes' = decodes /\ todo' = todo /\ config' = config /\ tokens' = tokens
        /\ cached' = cached /\ table' = table /\ hash' = hash /\ scheduled' = scheduled
    BY <1>1 DEF vars, queueVars, batchVars, bmVars, blockVars
  <2>2. Batch' = Batch /\ Continuous' = Continuous /\ \A r \in Seqs : Done(r)' = Done(r)
    BY <2>1 DEF Batch, Continuous, Done
  <2>3. \A r \in Seqs : ProgressInv(r)'
    BY <2>1, <2>2, ProgressFrame DEF KVInv
  <2>4. DoneIsStored'
    BY <2>1, <2>2, StoredFrame DEF KVInv, DoneIsStored
  <2>5. PublishedKVIsRight'
    BY <2>1, PublishedFrame DEF KVInv
  <2> QED BY <2>3, <2>4, <2>5 DEF KVInv
<1>2. CASE \E s \in Seqs : Add(s)
  BY <1>2, AddProgress, QuietStored DEF KVInv
<1>3. CASE ContinuousStep
  <2>1. \A r \in Seqs : ProgressInv(r)'
    BY <1>3, QuietProgress, ContinueProgress, DecodeProgress, PreemptProgress, AdmitProgress
       DEF ContinuousStep
  <2>2. DoneIsStored' /\ PublishedKVIsRight'
    BY <1>3, QuietStored, DecodeStored, PreemptStored, AdmitStored DEF ContinuousStep
  <2> QED BY <2>1, <2>2 DEF KVInv
<1>4. CASE LegacyStep
  <2>1. \A r \in Seqs : ProgressInv(r)'
    BY <1>4, QuietProgress, PrefillProgress, DecodeProgress, PreemptProgress DEF LegacyStep
  <2>2. DoneIsStored' /\ PublishedKVIsRight'
    BY <1>4, QuietStored, PrefillStored, DecodeStored, PreemptStored DEF LegacyStep
  <2> QED BY <2>1, <2>2 DEF KVInv
<1>5. CASE RunBatch
  <2>1. \A r \in Seqs : ProgressInv(r)'
    BY <1>5, QuietProgress, FailsProgress, PostProgress DEF RunBatch
  <2>2. DoneIsStored' /\ PublishedKVIsRight'
    BY <1>5, QuietStored, ExecuteStored, PostStored DEF RunBatch
  <2> QED BY <2>1, <2>2 DEF KVInv
<1> QED BY <1>1, <1>2, <1>3, <1>4, <1>5 DEF Next, EngineStep

\* Both invariants go together: what is sampled in part is what either of them excludes.
LEMMA NextBoth == LInv /\ KVInv /\ WholeSampled /\ [Next]_vars => (LInv /\ KVInv)'
  BY NextInv, NextKVInv, WholeParts

\* What num_cached_tokens counts is in the cache.
LEMMA InvCached == LInv /\ KVInv => CachedKVIsWritten
<1> SUFFICES ASSUME LInv, KVInv, NEW s \in Seqs PROVE ContextReady(s, cached[s])
  BY DEF CachedKVIsWritten
<1>1. cached[s] \in Nat /\ scheduled[s] \in Nat
  BY SizeFacts DEF LInv
<1>2. StoredFor(s, Done(s)) /\ Done(s) \in Nat /\ cached[s] <= Done(s)
  <2>1. Done(s) = cached[s] \/ Done(s) = cached[s] + scheduled[s]
    BY DEF Done
  <2>2. StoredFor(s, Done(s))
    BY DEF KVInv, DoneIsStored
  <2> QED BY <1>1, <2>1, <2>2
<1>3. 1 .. cached[s] \subseteq 1 .. Done(s)
  <2> DEFINE d == Done(s)
             c == cached[s]
  <2>1. d \in Nat /\ c \in Nat /\ c <= d
    BY <1>1, <1>2
  <2> HIDE DEF d, c
  <2>2. 1 .. c \subseteq 1 .. d
    BY <2>1
  <2> QED BY <2>2 DEF c, d
<1>4. StoredFor(s, cached[s])
  BY <1>2, <1>3 DEF StoredFor, Stored
<1> QED BY <1>4, ReadyIsStored

\* A token is added by postprocess, which has the KV of all that comes before it.
LEMMA SampledWhole ==
    LInv /\ KVInv /\ WholeSampled /\ [Next]_vars =>
        \A s \in Seqs : tokens'[s] # tokens[s] =>
          ContextReady(s, Len(tokens[s])) /\ cached[s] + scheduled[s] = Len(tokens[s])
<1> SUFFICES ASSUME LInv, KVInv, WholeSampled, [Next]_vars, NEW s \in Seqs,
                    tokens'[s] # tokens[s]
             PROVE  ContextReady(s, Len(tokens[s])) /\ cached[s] + scheduled[s] = Len(tokens[s])
  OBVIOUS
<1>1. PICK r \in Seqs : \E token \in Token : PostToken(r, token) \/ PostFinish(r, token)
  <2>1. CASE UNCHANGED vars
    <3>1. tokens' = tokens
      BY <2>1 DEF vars, bmVars
    <3> QED BY <3>1
  <2>2. CASE \E r \in Seqs : Add(r)
    <3>1. tokens' = tokens
      BY <2>2 DEF Add, bmVars
    <3> QED BY <3>1
  <2>3. CASE ContinuousStep \/ LegacyStep
    <3>1. EndRunning \/ EndWaiting \/ EndPrefill \/ EndDecode => tokens' = tokens
      BY DEF EndRunning, EndWaiting, EndPrefill, EndDecode, bmVars
    <3>2. ASSUME NEW r \in Seqs, ContinuePrefill(r) \/ Admit(r) \/ SchedulePrefill(r)
          PROVE  tokens' = tokens
      BY <3>2 DEF ContinuePrefill, Admit, SchedulePrefill, bmVars
    <3>3. ASSUME NEW r \in Seqs, ScheduleDecode(r) \/ LegacyDecode(r)
          PROVE  tokens' = tokens
      BY <3>3 DEF ScheduleDecode, LegacyDecode, Decode
    <3>4. ASSUME NEW r \in Seqs, Preempt(r) \/ LegacyPreempt(r)
          PROVE  tokens' = tokens
      BY <3>4, PreemptedUnscheduled
    <3>5. tokens' = tokens
      BY <2>3, <3>1, <3>2, <3>3, <3>4 DEF ContinuousStep, LegacyStep
    <3> QED BY <3>5
  <2>4. CASE RunBatch
    <3>1. BeginStep \/ Execute \/ ExecuteFails \/ EndStep \/ (\E r \in Seqs : PostChunk(r))
            => tokens' = tokens
      BY DEF BeginStep, Execute, ExecuteFails, EndStep, PostChunk, bmVars
    <3> QED BY <2>4, <3>1 DEF RunBatch
  <2> QED BY <2>1, <2>2, <2>3, <2>4 DEF Next, EngineStep
<1>2. PICK token \in Token : PostToken(r, token) \/ PostFinish(r, token)
  BY <1>1
<1>3. /\ NextPost(r) /\ Computed(r) /\ ~StillPrefill(r)
      /\ tokens' = [tokens EXCEPT ![r] = Append(@, token)]
  BY <1>2 DEF PostToken, PostFinish
<1>4. tokens \in [Seqs -> Seq(Token)]
  BY DEF LInv, AllocInv, PoolInv, BlockTypeOK
<1>5. s = r
  BY <1>3, <1>4
<1>6. pc = "post" /\ s \in Elems(todo)
  <2>1. pc = "post" /\ Elems(todo) = {r} \cup Elems(todo')
    BY <1>3, PostFacts
  <2> QED BY <1>5, <2>1
<1>7. cached[s] + scheduled[s] = NumTokens(s)
  BY <1>3, <1>5, <1>6 DEF WholeSampled
<1>8. StoredFor(s, NumTokens(s))
  <2>1. Done(s) = NumTokens(s)
    BY <1>6, <1>7 DEF Done
  <2> QED BY <2>1 DEF KVInv, DoneIsStored
<1> QED BY <1>7, <1>8, ReadyIsStored DEF NumTokens

\* What the cache contains, in an execution that samples from all tokens.
THEOREM EngineStores == Spec /\ []WholeSampled => [](LInv /\ KVInv)
<1>1. Init => LInv /\ KVInv
  BY InitInv, InitKVInv
<1>2. (LInv /\ KVInv) /\ WholeSampled /\ [Next]_vars => (LInv /\ KVInv)'
  BY NextBoth
<1> QED BY <1>1, <1>2, PTL DEF Spec

\* num_cached_tokens never counts a token whose KV is not in the blocks of the sequence,
\* whatever was shared, preempted or computed again (block_manager.py and scheduler.py).
THEOREM EngineCachesWhatItCounts == Spec /\ []WholeSampled => []CachedKVIsWritten
  BY EngineStores, InvCached, PTL

\* A block is published under the tokens whose KV it holds: a prefix hit finds its own.
THEOREM EnginePublishesWhatItHolds == Spec /\ []WholeSampled => []PublishedKVIsRight
<1>1. LInv /\ KVInv => PublishedKVIsRight
  BY DEF KVInv
<1> QED BY <1>1, EngineStores, PTL

\* Then every token is sampled with the KV of all tokens before it in the cache.
THEOREM EngineSamplesWhole == Spec /\ []WholeSampled => TokensFromFullContext
<1>1. LInv /\ KVInv /\ WholeSampled /\ [Next]_vars =>
        [\A s \in Seqs : tokens'[s] # tokens[s] =>
          ContextReady(s, Len(tokens[s])) /\ cached[s] + scheduled[s] = Len(tokens[s])]_vars
  BY SampledWhole
<1> QED BY <1>1, EngineStores, PTL DEF Spec, TokensFromFullContext

\* The legacy mode without chunks: the prompt, or all of what is computed again, is one piece.
Unchunked == ~Continuous /\ ~EnableChunkedPrefill

\* The mode is a matter of the configuration.
LEMMA UnchunkedStays == Unchunked /\ [Next]_vars => Unchunked'
  BY ConfigStays DEF Unchunked, Continuous, EnableChunkedPrefill

\* With continuous batching and chunked prefill both switched off, all of this holds of every
\* execution: such an engine never samples from a part of the tokens.
THEOREM UnchunkedEngineStores ==
    Spec /\ Unchunked => [](CachedKVIsWritten /\ PublishedKVIsRight) /\ TokensFromFullContext
<1> DEFINE Inv == LInv /\ KVInv /\ Unchunked
<1>1. Init /\ Unchunked => Inv
  BY InitInv, InitKVInv
<1>2. Inv /\ [Next]_vars => Inv'
  BY NextBoth, LegacyWhole, UnchunkedStays DEF Unchunked
<1>3. Inv => CachedKVIsWritten /\ PublishedKVIsRight
  BY InvCached DEF KVInv
<1>4. Inv /\ [Next]_vars =>
        [\A s \in Seqs : tokens'[s] # tokens[s] =>
          ContextReady(s, Len(tokens[s])) /\ cached[s] + scheduled[s] = Len(tokens[s])]_vars
  BY SampledWhole, LegacyWhole DEF Unchunked
<1> HIDE DEF Inv
<1> QED BY <1>1, <1>2, <1>3, <1>4, PTL DEF Spec, TokensFromFullContext

-----------------------------------------------------------------------------
(* An engine that never samples from a part: all in one step               *)

\* The legacy mode has the budget to compute any request in one step, whatever is left of it
\* after a preemption: the tokens before its last one fit.
OneStepEach ==
    /\ ~Continuous
    /\ \A s \in config.requests : NumPrompt(s) + MaxTokens[s] <= MaxBatchedTokens + 1

\* What is scheduled runs.
NothingWaits == \A s \in Elems(Batch) : status[s] # "WAITING"

\* Then all that is scheduled is computed whole ...
LEMMA RunsWhole == LInv /\ KVInv /\ ~Continuous /\ NothingWaits => WholeSampled
<1> SUFFICES ASSUME LInv, KVInv, ~Continuous, NothingWaits, pc = "post", NEW s \in Elems(todo)
             PROVE  cached[s] + scheduled[s] = NumTokens(s)
  BY DEF WholeSampled
<1>1. Batch = todo
  BY DEF Batch, Loops
<1>2. s \in Seqs /\ Ready(s) /\ HoldOK(s) /\ QueueInv /\ waiting \in Seq(Seqs)
  BY <1>1, TypeFacts, ElemsIn DEF LInv, BatchInv
<1>3. status[s] = "RUNNING"
  <2> SUFFICES ASSUME status[s] # "RUNNING" PROVE FALSE
    OBVIOUS
  <2>1. waiting # <<>> /\ s = Head(waiting)
    BY <1>2 DEF HoldOK, Ready
  <2>2. s \in Elems(waiting)
    BY <1>2, <2>1, HeadTailFacts
  <2>3. status[s] = "WAITING"
    BY <1>2, <2>2 DEF QueueInv
  <2> QED BY <1>1, <2>3 DEF NothingWaits
<1> QED BY <1>1, <1>2, <1>3 DEF KVInv, ProgressInv

\* ... because the first prefill of a step has the whole budget, and the others are only
\* scheduled when they fit.
LEMMA WholeChunk ==
    ASSUME LInv, OneStepEach, NEW s \in Seqs, SchedulePrefill(s)
    PROVE  /\ status'[s] = "RUNNING" /\ \A r \in Seqs \ {s} : status'[r] = status[r]
           /\ Elems(Batch') = Elems(Batch) \cup {s}
<1>1. /\ pc = "prefill" /\ MaySchedulePrefill /\ s = Head(waiting) /\ EnsureBlocks(s)
      /\ PlaceAfter(s, cached'[s] + Smaller(Needed(s), Remaining))
      /\ pc' = pc /\ tokens' = tokens /\ reserved' = reserved
      /\ prefills' = Append(prefills, s) /\ decodes' = decodes
      /\ waiting # <<>> /\ (table[s] = <<>> => CanAllocate(s)) /\ Remaining > 0
  BY DEF SchedulePrefill, MaySchedulePrefill
<1>2. /\ TypeOK /\ status \in [Seqs -> {"NEW", "WAITING", "RUNNING", "FINISHED"}]
      /\ prefills \in Seq(Seqs) /\ decodes = <<>> /\ waiting \in Seq(Seqs) /\ prefills = taken
      /\ Remaining \in Nat /\ <<>> \in Seq(Seqs) /\ MaxBatchedTokens \in Nat /\ batched \in Nat
  BY <1>1, TypeFacts DEF LInv, BatchInv
<1>3. s \in Elems(waiting) /\ status[s] = "WAITING"
  <2>1. s \in Elems(waiting)
    BY <1>1, <1>2, HeadTailFacts
  <2> QED BY <2>1 DEF LInv, QueueInv
<1>4. /\ cached'[s] \in Nat /\ cached'[s] < NumTokens(s) /\ Needed(s) = NumTokens(s) - cached'[s]
      /\ NumTokens(s) \in Nat
  <2>1. NumTokens(s) \in Nat
    BY <1>2, SizeFacts
  <2> QED BY <1>1, <1>3, <2>1, EnsureBlocksFacts
<1>5. NumTokens(s) <= MaxBatchedTokens
  <2>1. s \in config.requests /\ LengthOK(s)
    BY <1>3 DEF LInv, QueueInv
  <2>2. NumPrompt(s) + MaxTokens[s] <= MaxBatchedTokens + 1 /\ NumTokens(s) - NumPrompt(s) < MaxTokens[s]
    BY <1>3, <2>1 DEF OneStepEach, LengthOK, NumCompletion
  <2>3. NumPrompt(s) \in Nat /\ MaxTokens[s] \in Nat
    BY <1>2, SizeFacts, RequestAssumption
  <2> QED BY <1>2, <1>4, <2>2, <2>3
<1>6. Needed(s) \in Nat /\ Needed(s) <= Remaining
  <2>1. Needed(s) \in Nat /\ Needed(s) <= MaxBatchedTokens
    BY <1>2, <1>4, <1>5
  <2>2. CASE taken = <<>>
    <3>1. Batch = <<>>
      BY <1>1, <1>2, <2>2 DEF Batch, Loops
    <3>2. batched = 0
      BY <1>1, <3>1 DEF LInv, BatchInv, Loops
    <3> QED BY <1>2, <2>1, <3>2 DEF Remaining
  <2>3. CASE taken # <<>>
    <3>1. Remaining >= Needed(s)
      BY <1>1, <2>3 DEF MaySchedulePrefill, FitsBudget
    <3> QED BY <1>2, <2>1, <3>1
  <2> QED BY <2>2, <2>3
<1>7. Smaller(Needed(s), Remaining) = Needed(s)
  BY <1>2, <1>6 DEF Smaller
<1>8. cached'[s] + Needed(s) = NumTokens(s)
  BY <1>4
<1>9. Runs(s)
  BY <1>1, <1>7, <1>8 DEF PlaceAfter
<1>10. status'[s] = "RUNNING" /\ \A r \in Seqs \ {s} : status'[r] = status[r]
  BY <1>2, <1>9 DEF Runs
<1>11. Elems(Batch') = Elems(Batch) \cup {s}
  <2>1. Batch = prefills \o <<>> /\ Batch' = Append(prefills, s) \o <<>>
    BY <1>1, <1>2 DEF Batch, Loops
  <2>2. Append(prefills, s) \in Seq(Seqs) /\ Elems(Append(prefills, s)) = Elems(prefills) \cup {s}
    BY <1>2, OneMoreFacts
  <2>3. Elems(<<>>) = {}
    BY DEF Elems
  <2>4. /\ Elems(prefills \o <<>>) = Elems(prefills) \cup {}
        /\ Elems(Append(prefills, s) \o <<>>) = Elems(Append(prefills, s)) \cup {}
    BY <1>2, <2>2, <2>3, ConcatFacts
  <2> QED BY <2>1, <2>2, <2>4
<1> QED BY <1>10, <1>11

\* No step schedules what stays in waiting, or preempts what is scheduled.
LEMMA NothingWaitsStep ==
    LInv /\ OneStepEach /\ NothingWaits /\ [Next]_vars => NothingWaits'
<1> SUFFICES ASSUME LInv, OneStepEach, NothingWaits, [Next]_vars PROVE NothingWaits'
  OBVIOUS
<1> USE DEF NothingWaits
<1>1. /\ ~Continuous /\ TypeOK /\ Batch \in Seq(Seqs)
      /\ status \in [Seqs -> {"NEW", "WAITING", "RUNNING", "FINISHED"}]
  BY TypeFacts DEF OneStepEach, LInv
<1>2. Elems(Batch) \subseteq Seqs
  BY <1>1, ElemsIn
<1>3. CASE BeginStep \/ EndRunning \/ EndWaiting \/ EndPrefill \/ EndDecode \/ Execute \/ EndStep
  BY <1>3, QuietBatch
<1>4. CASE ExecuteFails
  <2>1. pc' = "failed"
    BY <1>4 DEF ExecuteFails
  <2> QED BY <2>1 DEF Batch, Loops, Elems
<1>5. ASSUME NEW s \in Seqs, Add(s) PROVE NothingWaits'
  <2>1. pc' = "idle"
    BY <1>5 DEF Add
  <2> QED BY <2>1 DEF Batch, Loops, Elems
<1>6. ASSUME NEW s \in Seqs, ContinuePrefill(s) \/ ScheduleDecode(s) \/ Admit(s) PROVE NothingWaits'
  BY <1>1, <1>6 DEF ContinuePrefill, ScheduleDecode, Admit, NextRunning, LInv, ModeInv
<1>7. ASSUME NEW s \in Seqs, LegacyDecode(s) PROVE NothingWaits'
  <2>1. /\ pc = "decode" /\ running # <<>> /\ s = Head(running) /\ pc' = pc /\ status' = status
        /\ waiting' = waiting /\ taken' = Append(taken, s) /\ running' = Tail(running)
        /\ config' = config /\ prefills' = prefills /\ decodes' = Append(decodes, s)
    BY <1>7 DEF LegacyDecode, NextRunning, Decode
  <2>2. status[s] = "RUNNING" /\ Elems(Batch') = Elems(Batch) \cup {s}
    BY <2>1, TakenFacts
  <2> QED BY <2>1, <2>2
<1>8. ASSUME NEW s \in Seqs, Preempt(s) \/ LegacyPreempt(s) PROVE NothingWaits'
  <2>1. PICK v \in Seqs :
             /\ v \notin Elems(Batch) /\ Deallocate(v, hash) /\ hash' = hash /\ index' = index
             /\ cached' = [cached EXCEPT ![v] = 0] /\ status' = [status EXCEPT ![v] = "WAITING"]
             /\ pc \in {"running", "decode"} /\ pc' = pc
             /\ UNCHANGED <<batchVars, scheduled, kv, config, tokens>>
    BY <1>8, PreemptedUnscheduled
  <2>2. Batch' = Batch
    BY <2>1 DEF Batch, batchVars, Loops
  <2>3. \A r \in Elems(Batch) : status'[r] = status[r]
    BY <1>1, <1>2, <2>1
  <2> QED BY <2>2, <2>3
<1>9. ASSUME NEW s \in Seqs, SchedulePrefill(s) PROVE NothingWaits'
  BY <1>2, <1>9, WholeChunk
<1>10. ASSUME NEW s \in Seqs,
              PostChunk(s) \/ \E token \in Token : PostToken(s, token) \/ PostFinish(s, token)
       PROVE  NothingWaits'
  <2>1. NextPost(s) /\ Computed(s)
    BY <1>10 DEF PostChunk, PostToken, PostFinish
  <2>2. /\ Batch = todo /\ Batch' = todo' /\ Elems(todo) = {s} \cup Elems(todo')
        /\ s \notin Elems(todo')
    BY <2>1, PostFacts
  <2>3. \A r \in Seqs \ {s} : status'[r] = status[r]
    BY <1>1, <1>10 DEF PostChunk, PostToken, PostFinish
  <2> QED BY <1>2, <2>2, <2>3
<1>11. CASE UNCHANGED vars
  <2>1. status' = status /\ Batch' = Batch
    BY <1>11 DEF vars, queueVars, batchVars, Batch
  <2> QED BY <2>1
<1> QED BY <1>3, <1>4, <1>5, <1>6, <1>7, <1>8, <1>9, <1>10, <1>11
        DEF Next, EngineStep, ContinuousStep, LegacyStep, RunBatch

\* The budget and the requests are the configuration's.
LEMMA OneStepStays == OneStepEach /\ [Next]_vars => OneStepEach'
<1> SUFFICES ASSUME OneStepEach, [Next]_vars PROVE OneStepEach'
  OBVIOUS
<1>1. config' = config
  BY ConfigStays
<1> QED BY <1>1 DEF OneStepEach, Continuous, MaxBatchedTokens, NumPrompt

-----------------------------------------------------------------------------
(* An engine that never samples from a part: nothing is computed again     *)

\* The pool has the blocks of max_num_seqs requests of any kind at a time.
AmplePool ==
    /\ Continuous
    /\ \E per \in Nat :
         /\ MaxNumSeqs * per <= NumBlocks
         /\ \A s \in config.requests : CeilDiv(NumPrompt(s) + MaxTokens[s], BlockSize) <= per

\* What a request that is not finished needs.
LEMMA NeedsAtMost ==
    ASSUME LInv, NEW s \in Seqs, status[s] = "RUNNING", NEW per \in Nat,
           \A r \in config.requests : CeilDiv(NumPrompt(r) + MaxTokens[r], BlockSize) <= per
    PROVE  SeqBlocks(s) \in Nat /\ SeqBlocks(s) <= per
<1>1. s \in config.requests /\ LengthOK(s) /\ TypeOK
  BY DEF LInv, QueueInv
<1>2. NumCompletion(s) < MaxTokens[s] /\ NumPrompt(s) <= NumTokens(s)
  BY <1>1 DEF LengthOK
<1>3. /\ NumTokens(s) \in Nat /\ NumPrompt(s) \in Nat \ {0} /\ MaxTokens[s] \in Nat
      /\ BlockSize \in Nat \ {0}
  BY <1>1, SizeFacts, RequestAssumption, PoolAssumption
<1> DEFINE n == NumTokens(s)
           all == NumPrompt(s) + MaxTokens[s]
<1>4. n \in Nat \ {0} /\ all \in Nat /\ n <= all
  BY <1>2, <1>3 DEF NumCompletion
<1>5. CeilDiv(all, BlockSize) <= per
  BY <1>1
<1>6. SeqBlocks(s) = CeilDiv(n, BlockSize)
  BY DEF SeqBlocks
<1> HIDE DEF n, all
<1>7. /\ CeilDiv(n, BlockSize) <= CeilDiv(all, BlockSize)
      /\ CeilDiv(n, BlockSize) \in Nat /\ CeilDiv(all, BlockSize) \in Nat
  BY <1>3, <1>4, CeilDivFacts
<1> QED BY <1>5, <1>6, <1>7

\* Products of the sizes grow with them.
LEMMA ProductGrows ==
    ASSUME NEW k \in Nat, NEW m \in Nat, k <= m, NEW per \in Nat
    PROVE  k * per <= m * per
  OBVIOUS

\* Rows of at most per blocks each, one of them shorter, are less than rows * per blocks.
LEMMA FewerPlaces ==
    ASSUME NEW rows \in Nat, NEW per \in Nat, NEW row \in 1 .. rows, per # 0,
           NEW places \in SUBSET ((1 .. rows) \X (1 .. per)), <<row, per>> \notin places
    PROVE  IsFiniteSet(places) /\ Cardinality(places) \in Nat /\ Cardinality(places) < rows * per
<1> DEFINE all == (1 .. rows) \X (1 .. per)
<1>1. /\ IsFiniteSet(1 .. rows) /\ Cardinality(1 .. rows) = rows
      /\ IsFiniteSet(1 .. per) /\ Cardinality(1 .. per) = per
  <2>1. \A n \in Nat : IsFiniteSet(1 .. n) /\ Cardinality(1 .. n) = n
    <3> TAKE n \in Nat
    <3>1. 1 \in Int /\ n \in Int /\ (1 > n => n = 0) /\ n - 1 + 1 = n
      OBVIOUS
    <3>2. IsFiniteSet(1 .. n) /\ Cardinality(1 .. n) = IF 1 > n THEN 0 ELSE n - 1 + 1
      BY <3>1, FS_Interval
    <3> QED BY <3>1, <3>2
  <2> QED BY <2>1
<1>2. IsFiniteSet(all) /\ Cardinality(all) = rows * per
  BY <1>1, FS_Product
<1>3. <<row, per>> \in all
  OBVIOUS
<1>4. places \in SUBSET (all \ {<<row, per>>})
  OBVIOUS
<1> HIDE DEF all
<1>5. IsFiniteSet(all \ {<<row, per>>}) /\ Cardinality(all \ {<<row, per>>}) = rows * per - 1
  BY <1>2, <1>3, FS_RemoveElement
<1>6. IsFiniteSet(places) /\ Cardinality(places) <= rows * per - 1
  BY <1>4, <1>5, FS_Subset
<1>7. Cardinality(places) \in Nat /\ rows * per \in Int
  BY <1>6, FS_CardinalityType
<1> QED BY <1>6, <1>7

\* With such a pool a running sequence always finds the block of its next token: the blocks
\* are in the tables of at most max_num_seqs running sequences, and its own has a free place.
LEMMA AlwaysAppends ==
    ASSUME LInv, AmplePool, NEW s \in Seqs, pc = "running", running # <<>>, s = Head(running)
    PROVE  CanAppend(s)
<1> SUFFICES ASSUME ~CanAppend(s) PROVE FALSE
  OBVIOUS
<1>1. PICK per \in Nat :
         /\ MaxNumSeqs * per <= NumBlocks
         /\ \A r \in config.requests : CeilDiv(NumPrompt(r) + MaxTokens[r], BlockSize) <= per
  BY DEF AmplePool
<1>2. /\ AllocInv(FALSE) /\ PoolInv /\ BlockTypeOK /\ FreeIsUnreferenced /\ TypeOK
      /\ Queue = taken \o running /\ Queue \in Seq(Seqs) /\ MaxNumSeqs \in Nat
      /\ Len(Queue) <= MaxNumSeqs /\ Continuous /\ NumBlocks \in Nat
      /\ taken \in Seq(Seqs) /\ running \in Seq(Seqs)
  BY PoolAssumption, TypeFacts
     DEF LInv, AllocInv, PoolInv, Queue, CountInv, AmplePool
<1>3. free = <<>> /\ Len(table[s]) < SeqBlocks(s)
  <2>1. free = <<>> /\ ~(Len(table[s]) >= SeqBlocks(s))
    BY DEF CanAppend
  <2>2. Len(table[s]) \in Nat /\ SeqBlocks(s) \in Nat
    <3>1. tokens[s] # <<>> /\ table[s] \in Seq(Blocks)
      BY <1>2 DEF AllocInv, SeqInv, BlockTypeOK
    <3>2. SeqBlocks(s) \in Nat
      BY <1>2, <3>1, SeqBlocksFacts
    <3> QED BY <3>1, <3>2
  <2> QED BY <2>1, <2>2
<1>4. s \in Elems(Queue)
  <2>1. s \in Elems(running)
    BY <1>2, HeadTailFacts
  <2> QED BY <1>2, <2>1, ConcatFacts
<1>5. \A r \in Elems(Queue) :
        r \in Seqs /\ status[r] = "RUNNING" /\ Len(table[r]) \in Nat /\ Len(table[r]) <= per
  <2> SUFFICES ASSUME NEW r \in Elems(Queue)
               PROVE  /\ r \in Seqs /\ status[r] = "RUNNING"
                      /\ Len(table[r]) \in Nat /\ Len(table[r]) <= per
    OBVIOUS
  <2>1. r \in Seqs
    BY <1>2, ElemsIn
  <2>2. status[r] = "RUNNING" /\ table[r] \in Seq(Blocks)
    BY <1>2, <2>1 DEF LInv, QueueInv, BlockTypeOK
  <2>3. Len(table[r]) <= SeqBlocks(r)
    BY <2>1, <2>2 DEF LInv, HoldOK, LengthOK
  <2>4. SeqBlocks(r) \in Nat /\ SeqBlocks(r) <= per
    BY <1>1, <2>1, <2>2, NeedsAtMost
  <2> QED BY <2>1, <2>2, <2>3, <2>4
<1>6. Len(table[s]) < per /\ per # 0 /\ Len(table[s]) \in Nat
  <2>1. SeqBlocks(s) \in Nat /\ SeqBlocks(s) <= per /\ Len(table[s]) \in Nat
    BY <1>1, <1>4, <1>5, NeedsAtMost
  <2> QED BY <1>3, <2>1
<1> DEFINE rows == Len(Queue)
           places == {p \in (1 .. rows) \X (1 .. per) : p[2] <= Len(table[Queue[p[1]]])}
           at == [p \in places |-> table[Queue[p[1]]][p[2]]]
<1>7. \A b \in Blocks : \E p \in places : at[p] = b
  <2> SUFFICES ASSUME NEW b \in Blocks PROVE \E p \in places : at[p] = b
    OBVIOUS
  <2>1. ref[b] # 0
    BY <1>2, <1>3 DEF FreeIsUnreferenced, Elems
  <2>2. Holders(b) # {}
    BY <1>2, <2>1, FreeHasNoHolder
  <2>3. PICK r \in Seqs : b \in Elems(table[r]) \cup Elems(reserved[r])
    BY <2>2 DEF Holders
  <2>4. b \in Elems(table[r]) /\ table[r] \in Seq(Blocks)
    <3>1. reserved[r] = <<>> /\ table[r] \in Seq(Blocks)
      BY <1>2 DEF AllocInv, SeqInv, BlockTypeOK
    <3>2. Elems(<<>>) = {}
      BY DEF Elems
    <3> QED BY <2>3, <3>1, <3>2
  <2>5. PICK j \in 1 .. Len(table[r]) : table[r][j] = b
    BY <2>4 DEF Elems
  <2>6. status[r] = "RUNNING"
    <3>1. table[r] # <<>>
      BY <2>4, <2>5
    <3> QED BY <1>2, <3>1 DEF LInv, HoldOK
  <2>7. r \in Elems(Queue)
    BY <2>6 DEF LInv, QueueInv
  <2>8. PICK i \in 1 .. rows : Queue[i] = r
    BY <2>7 DEF Elems
  <2>9. j \in 1 .. per
    BY <1>5, <2>5, <2>7
  <2>10. <<i, j>> \in places /\ at[<<i, j>>] = b
    BY <2>5, <2>8, <2>9
  <2> QED BY <2>10
<1>8. PICK row \in 1 .. rows : Queue[row] = s
  BY <1>4 DEF Elems
<1>9. places \in SUBSET ((1 .. rows) \X (1 .. per)) /\ <<row, per>> \notin places
  BY <1>6, <1>8
<1>10. rows \in Nat /\ rows <= MaxNumSeqs
  BY <1>2
<1>11. at \in [places -> {at[p] : p \in places}]
  OBVIOUS
<1> HIDE DEF rows, places, at
<1>12. IsFiniteSet(places) /\ Cardinality(places) \in Nat /\ Cardinality(places) < rows * per
  BY <1>6, <1>8, <1>9, <1>10, FewerPlaces
<1> DEFINE used == {at[p] : p \in places}
<1>13. at \in Surjection(places, used)
  BY <1>11 DEF Surjection
<1>14. IsFiniteSet(used) /\ Cardinality(used) <= Cardinality(places)
  BY <1>12, <1>13, FS_Surjection
<1>15. Blocks \in SUBSET used
  BY <1>7
<1> HIDE DEF used
<1>16. Cardinality(Blocks) <= Cardinality(used)
  BY <1>14, <1>15, FS_Subset
<1>17. Cardinality(used) \in Nat
  BY <1>14, FS_CardinalityType
<1>18. rows * per <= MaxNumSeqs * per
  BY <1>2, <1>10, ProductGrows
<1>19. rows * per \in Nat /\ MaxNumSeqs * per \in Nat
  BY <1>2, <1>10
<1> QED BY <1>1, <1>2, <1>12, <1>14, <1>16, <1>17, <1>18, <1>19, BlocksCount

\* A sequence computes its prompt once: before, it has no other tokens.
FirstTime(s) ==
    /\ status[s] \in {"NEW", "WAITING"} \/ (status[s] = "RUNNING" /\ IsPrefill(s)) =>
         NumTokens(s) = NumPrompt(s)
    /\ s \in Elems(Batch) /\ ~IsPrefill(s) => cached[s] + scheduled[s] = NumTokens(s)

\* So it is for all of them when nothing is preempted.
NothingAgain == \A s \in Seqs : FirstTime(s)

\* A chunk then either ends in the prompt or is the rest of it.
LEMMA OnceWhole == LInv /\ NothingAgain /\ Continuous => WholeSampled
<1> SUFFICES ASSUME LInv, NothingAgain, Continuous, pc = "post", NEW s \in Elems(todo)
             PROVE  StillPrefill(s) \/ cached[s] + scheduled[s] = NumTokens(s)
  BY DEF WholeSampled
<1>1. Batch = todo
  BY DEF Batch, Loops
<1>2. s \in Seqs /\ Ready(s) /\ TypeOK
  BY <1>1, TypeFacts, ElemsIn DEF LInv, BatchInv
<1>3. FirstTime(s) /\ HoldOK(s)
  BY <1>2 DEF NothingAgain, LInv
<1>4. status[s] = "RUNNING"
  BY <1>2, <1>3 DEF HoldOK, Ready
<1>5. /\ cached[s] \in Nat /\ scheduled[s] \in Nat /\ NumTokens(s) \in Nat /\ NumPrompt(s) \in Nat
      /\ cached[s] + scheduled[s] <= NumTokens(s)
  BY <1>2, SizeFacts DEF Ready
<1>6. CASE IsPrefill(s)
  <2>1. NumTokens(s) = NumPrompt(s)
    BY <1>3, <1>4, <1>6 DEF FirstTime
  <2> QED BY <1>5, <2>1 DEF StillPrefill
<1>7. CASE ~IsPrefill(s)
  BY <1>1, <1>3, <1>7 DEF FirstTime
<1> QED BY <1>6, <1>7

\* A sequence that a step does not touch.
LEMMA FirstTimeFrame ==
    ASSUME NEW r \in Seqs, FirstTime(r),
           tokens'[r] = tokens[r], cached'[r] = cached[r], scheduled'[r] = scheduled[r],
           status'[r] = status[r], r \in Elems(Batch') => r \in Elems(Batch)
    PROVE  FirstTime(r)'
<1>1. NumTokens(r)' = NumTokens(r) /\ (IsPrefill(r)' <=> IsPrefill(r)) /\ NumPrompt(r)' = NumPrompt(r)
  BY DEF NumTokens, IsPrefill, NumPrompt
<1> QED BY <1>1 DEF FirstTime

\* Phase 1: a chunk of a prompt, or the one token that is missing.
LEMMA RunningFirst ==
    ASSUME LInv, KVInv, NothingAgain, NEW s \in Seqs, ContinuePrefill(s) \/ ScheduleDecode(s)
    PROVE  NothingAgain'
<1>1. /\ pc = "running" /\ running # <<>> /\ s = Head(running)
      /\ pc' = pc /\ status' = status /\ waiting' = waiting /\ config' = config
      /\ taken' = Append(taken, s) /\ running' = Tail(running)
      /\ \/ prefills' = Append(prefills, s) /\ decodes' = decodes
         \/ prefills' = prefills /\ decodes' = Append(decodes, s)
      /\ tokens' = tokens /\ cached' = cached
      /\ \/ IsPrefill(s) /\ \E chunk : scheduled' = [scheduled EXCEPT ![s] = chunk]
         \/ ~IsPrefill(s) /\ scheduled' = [scheduled EXCEPT ![s] = 1]
  <2>1. CASE ContinuePrefill(s)
    BY <2>1 DEF ContinuePrefill, NextRunning, bmVars
  <2>2. CASE ScheduleDecode(s)
    BY <2>2 DEF ScheduleDecode, NextRunning, Decode
  <2> QED BY <2>1, <2>2
<1>2. scheduled \in [Seqs -> Nat]
  BY TypeFacts DEF LInv
<1>3. /\ s \notin Elems(Batch) /\ Elems(Batch') = Elems(Batch) \cup {s} /\ status[s] = "RUNNING"
  BY <1>1, TakenFacts
<1> SUFFICES ASSUME NEW r \in Seqs PROVE FirstTime(r)'
  BY DEF NothingAgain
<1>4. FirstTime(r)
  BY DEF NothingAgain
<1>5. CASE r # s
  <2>1. scheduled'[r] = scheduled[r]
    BY <1>1, <1>2, <1>5
  <2> QED BY <1>1, <1>3, <1>4, <1>5, <2>1, FirstTimeFrame
<1>6. CASE r = s
  <2>1. /\ NumTokens(s)' = NumTokens(s) /\ (IsPrefill(s)' <=> IsPrefill(s))
        /\ NumPrompt(s)' = NumPrompt(s)
    BY <1>1 DEF NumTokens, IsPrefill, NumPrompt
  <2>2. ~IsPrefill(s) => cached'[s] + scheduled'[s] = NumTokens(s)'
    <3> SUFFICES ASSUME ~IsPrefill(s) PROVE cached'[s] + scheduled'[s] = NumTokens(s)'
      OBVIOUS
    <3>1. cached[s] + 1 = NumTokens(s)
      BY <1>3 DEF KVInv, ProgressInv
    <3>2. scheduled'[s] = 1
      BY <1>1, <1>2
    <3> QED BY <1>1, <2>1, <3>1, <3>2
  <2>3. NumTokens(s) = NumPrompt(s) \/ ~IsPrefill(s)
    BY <1>3, <1>4, <1>6 DEF FirstTime
  <2> QED BY <1>1, <1>3, <1>6, <2>1, <2>2, <2>3 DEF FirstTime
<1> QED BY <1>5, <1>6

\* Phase 2: what is admitted has only its prompt, and the prefix it finds is not all of it.
LEMMA AdmitFirst ==
    ASSUME LInv, NothingAgain, NEW s \in Seqs, Admit(s)
    PROVE  NothingAgain'
<1>1. /\ pc = "waiting" /\ MayAdmit /\ s = Head(waiting) /\ Allocate(s) /\ pc' = pc
      /\ status' = [status EXCEPT ![s] = "RUNNING"]
      /\ prefills' = Append(prefills, s) /\ decodes' = decodes /\ tokens' = tokens
      /\ waiting # <<>> /\ CanAllocate(s) /\ reserved' = reserved
      /\ \E chunk : scheduled' = [scheduled EXCEPT ![s] = chunk]
  BY DEF Admit, MayAdmit
<1>2. /\ scheduled \in [Seqs -> Nat] /\ Continuous
      /\ status \in [Seqs -> {"NEW", "WAITING", "RUNNING", "FINISHED"}]
      /\ prefills \in Seq(Seqs) /\ decodes \in Seq(Seqs) /\ waiting \in Seq(Seqs)
  BY <1>1, TypeFacts DEF LInv, ModeInv
<1>3. s \in Elems(waiting) /\ status[s] = "WAITING" /\ table[s] = <<>>
  <2>1. s \in Elems(waiting)
    BY <1>1, <1>2, HeadTailFacts
  <2>2. status[s] = "WAITING"
    BY <2>1 DEF LInv, QueueInv
  <2> QED BY <1>2, <2>1, <2>2 DEF LInv, HoldOK
<1>4. /\ \A r \in Seqs \ {s} : cached'[r] = cached[r]
      /\ cached'[s] < NumTokens(s) /\ NumTokens(s)' = NumTokens(s)
  BY <1>1, <1>3, AllocateFacts DEF LInv
<1>5. s \notin Elems(Batch)
  BY <1>3 DEF LInv, BatchInv, Ready
<1>6. Elems(Batch') = Elems(Batch) \cup {s}
  <2>1. Batch = prefills \o decodes /\ Batch' = Append(prefills, s) \o decodes
    BY <1>1 DEF Batch, Loops
  <2>2. Distinct(Batch)
    BY DEF LInv, BatchInv
  <2> QED BY <1>2, <1>5, <2>1, <2>2, BatchGrows
<1> SUFFICES ASSUME NEW r \in Seqs PROVE FirstTime(r)'
  BY DEF NothingAgain
<1>7. FirstTime(r)
  BY DEF NothingAgain
<1>8. CASE r # s
  <2>1. /\ scheduled'[r] = scheduled[r] /\ status'[r] = status[r] /\ cached'[r] = cached[r]
    BY <1>1, <1>2, <1>4, <1>8
  <2> QED BY <1>1, <1>6, <1>7, <1>8, <2>1, FirstTimeFrame
<1>9. CASE r = s
  <2>1. NumTokens(s) = NumPrompt(s)
    BY <1>3, <1>7, <1>9 DEF FirstTime
  <2>2. NumPrompt(s)' = NumPrompt(s) /\ IsPrefill(s)'
    BY <1>4, <2>1 DEF IsPrefill, NumPrompt
  <2> QED BY <1>4, <1>9, <2>1, <2>2 DEF FirstTime
<1> QED BY <1>8, <1>9

\* Postprocess: a token is only added behind a prompt that is done.
LEMMA PostFirst ==
    ASSUME LInv, NothingAgain, Continuous, NEW s \in Seqs,
           PostChunk(s) \/ \E token \in Token : PostToken(s, token) \/ PostFinish(s, token)
    PROVE  NothingAgain'
<1>1. NextPost(s) /\ Computed(s)
  BY DEF PostChunk, PostToken, PostFinish
<1>2. /\ Batch = todo /\ Batch' = todo' /\ Ready(s)
      /\ Elems(todo) = {s} \cup Elems(todo') /\ s \notin Elems(todo')
      /\ \A r \in Seqs \ {s} : scheduled'[r] = scheduled[r]
  BY <1>1, PostFacts
<1>3. /\ tokens \in [Seqs -> Seq(Token)] /\ cached \in [Seqs -> Nat] /\ TypeOK
      /\ status \in [Seqs -> {"NEW", "WAITING", "RUNNING", "FINISHED"}]
  BY TypeFacts DEF LInv, BlockTypeOK
<1>4. /\ cached[s] \in Nat /\ scheduled[s] \in Nat /\ NumPrompt(s) \in Nat
  BY <1>3, SizeFacts
<1>5. \A r \in Seqs \ {s} : /\ tokens'[r] = tokens[r] /\ cached'[r] = cached[r]
                            /\ status'[r] = status[r]
  BY <1>3 DEF PostChunk, PostToken, PostFinish
<1>6. status[s] = "RUNNING" /\ FirstTime(s)
  BY <1>2 DEF LInv, HoldOK, Ready, NothingAgain
<1> SUFFICES ASSUME NEW r \in Seqs PROVE FirstTime(r)'
  BY DEF NothingAgain
<1>7. CASE r # s
  <2>1. FirstTime(r)
    BY DEF NothingAgain
  <2> QED BY <1>2, <1>5, <1>7, <2>1, FirstTimeFrame
<1>8. CASE r = s
  <2>1. r \notin Elems(Batch')
    BY <1>2, <1>8
  <2>2. NumPrompt(s)' = NumPrompt(s)
    BY DEF NumPrompt
  <2>3. \/ status'[s] = "FINISHED" \/ (status'[s] = "RUNNING" /\ ~IsPrefill(s)')
        \/ (status'[s] = "RUNNING" /\ NumTokens(s)' = NumPrompt(s))
    <3>1. CASE PostChunk(s)
      <4>1. cached[s] + scheduled[s] < NumPrompt(s) /\ tokens' = tokens /\ status' = status
        BY <3>1 DEF PostChunk, StillPrefill
      <4>2. IsPrefill(s)
        BY <1>4, <4>1 DEF IsPrefill
      <4>3. NumTokens(s) = NumPrompt(s) /\ NumTokens(s)' = NumTokens(s)
        BY <1>6, <4>1, <4>2 DEF FirstTime, NumTokens
      <4> QED BY <1>6, <4>1, <4>3
    <3>2. CASE \E token \in Token : PostToken(s, token)
      <4>1. /\ cached'[s] = cached[s] + scheduled[s] /\ status' = status
            /\ ~(cached[s] + scheduled[s] < NumPrompt(s))
        BY <1>3, <3>2 DEF PostToken, StillPrefill
      <4>2. ~IsPrefill(s)'
        BY <2>2, <4>1 DEF IsPrefill
      <4> QED BY <1>6, <4>1, <4>2
    <3>3. CASE \E token \in Token : PostFinish(s, token)
      <4>1. status'[s] = "FINISHED"
        BY <1>3, <3>3 DEF PostFinish
      <4> QED BY <4>1
    <3> QED BY <3>1, <3>2, <3>3
  <2> QED BY <1>8, <2>1, <2>2, <2>3 DEF FirstTime
<1> QED BY <1>7, <1>8

\* Nothing is preempted, so nothing is computed again.
LEMMA NothingAgainStep ==
    LInv /\ KVInv /\ AmplePool /\ NothingAgain /\ [Next]_vars => NothingAgain'
<1> SUFFICES ASSUME LInv, KVInv, AmplePool, NothingAgain, [Next]_vars PROVE NothingAgain'
  OBVIOUS
<1>1. Continuous /\ status \in [Seqs -> {"NEW", "WAITING", "RUNNING", "FINISHED"}]
  BY TypeFacts DEF AmplePool, LInv
<1>2. ASSUME UNCHANGED <<tokens, cached, scheduled, status>>, Elems(Batch') \subseteq Elems(Batch)
      PROVE  NothingAgain'
  BY <1>2, FirstTimeFrame DEF NothingAgain
<1>3. CASE BeginStep \/ EndRunning \/ EndWaiting \/ EndPrefill \/ EndDecode \/ Execute \/ EndStep
  BY <1>2, <1>3, QuietBatch
<1>4. CASE ExecuteFails
  <2>1. pc' = "failed" /\ UNCHANGED <<tokens, cached, scheduled, status>>
    BY <1>4 DEF ExecuteFails, queueVars, bmVars
  <2>2. Elems(Batch') = {}
    BY <2>1 DEF Batch, Loops, Elems
  <2> QED BY <1>2, <2>1, <2>2
<1>5. ASSUME NEW s \in Seqs, Add(s) PROVE NothingAgain'
  <2>1. /\ pc' = "idle" /\ tokens' = tokens /\ cached' = cached /\ scheduled' = scheduled
        /\ status[s] = "NEW" /\ status' = [status EXCEPT ![s] = "WAITING"]
    BY <1>5 DEF Add, bmVars
  <2>2. Elems(Batch') = {}
    BY <2>1 DEF Batch, Loops, Elems
  <2> SUFFICES ASSUME NEW r \in Seqs PROVE FirstTime(r)'
    BY DEF NothingAgain
  <2>3. FirstTime(r)
    BY DEF NothingAgain
  <2>4. CASE r # s
    <3>1. status'[r] = status[r]
      BY <1>1, <2>1, <2>4
    <3> QED BY <2>1, <2>2, <2>3, <3>1, FirstTimeFrame
  <2>5. CASE r = s
    <3>1. NumTokens(r) = NumPrompt(r)
      BY <2>1, <2>3, <2>5 DEF FirstTime
    <3>2. NumTokens(r)' = NumTokens(r) /\ NumPrompt(r)' = NumPrompt(r)
      BY <2>1 DEF NumTokens, NumPrompt
    <3> QED BY <2>2, <3>1, <3>2 DEF FirstTime
  <2> QED BY <2>4, <2>5
<1>6. ASSUME NEW s \in Seqs, ContinuePrefill(s) \/ ScheduleDecode(s) PROVE NothingAgain'
  BY <1>6, RunningFirst
<1>7. ASSUME NEW s \in Seqs, Admit(s) PROVE NothingAgain'
  BY <1>7, AdmitFirst
<1>8. ASSUME NEW s \in Seqs, Preempt(s) PROVE NothingAgain'
  <2>1. pc = "running" /\ running # <<>> /\ s = Head(running) /\ ~CanAppend(s)
    BY <1>8 DEF Preempt, NextRunning, PreemptLast
  <2> QED BY <2>1, AlwaysAppends
<1>9. ASSUME NEW s \in Seqs, LegacyDecode(s) \/ LegacyPreempt(s) \/ SchedulePrefill(s)
      PROVE  NothingAgain'
  BY <1>1, <1>9 DEF LegacyDecode, LegacyPreempt, SchedulePrefill, NextRunning, LInv, ModeInv
<1>10. ASSUME NEW s \in Seqs,
              PostChunk(s) \/ \E token \in Token : PostToken(s, token) \/ PostFinish(s, token)
       PROVE  NothingAgain'
  BY <1>1, <1>10, PostFirst
<1>11. CASE UNCHANGED vars
  <2>1. UNCHANGED <<tokens, cached, scheduled, status>> /\ Batch' = Batch
    BY <1>11 DEF vars, queueVars, bmVars, batchVars, Batch
  <2> QED BY <1>2, <2>1
<1> QED BY <1>3, <1>4, <1>5, <1>6, <1>7, <1>8, <1>9, <1>10, <1>11
        DEF Next, EngineStep, ContinuousStep, LegacyStep, RunBatch

-----------------------------------------------------------------------------
(* What the configuration alone ensures                                    *)

\* All that the runs check of an engine's states.
EngineSafe ==
    /\ TypeOK /\ QueuesAgree /\ WritesArePrivate /\ NeverStalls
    /\ CachedKVIsWritten /\ PublishedKVIsRight

\* The invariants say so.
LEMMA InvEngineSafe == LInv /\ KVInv /\ StallInv => EngineSafe
<1> SUFFICES ASSUME LInv, KVInv, StallInv PROVE EngineSafe
  OBVIOUS
<1>1. QueuesAgree /\ WritesArePrivate /\ NeverStalls
  BY InvQueuesAgree, InvWritesPrivate, InvNeverStalls
<1>2. CachedKVIsWritten
  BY InvCached
<1> QED BY <1>1, <1>2 DEF EngineSafe, LInv, KVInv

\* One step on.
LEMMA NextAll ==
    LInv /\ KVInv /\ StallInv /\ WholeSampled /\ [Next]_vars => (LInv /\ KVInv /\ StallInv)'
<1> SUFFICES ASSUME LInv, KVInv, StallInv, WholeSampled, [Next]_vars
             PROVE  (LInv /\ KVInv /\ StallInv)'
  OBVIOUS
<1>1. LInv' /\ KVInv'
  BY NextBoth
<1>2. StallInv'
  BY StallStep
<1> QED BY <1>1, <1>2

\* The requests and the limits are the configuration's.
LEMMA AmpleStays == AmplePool /\ [Next]_vars => AmplePool'
<1> SUFFICES ASSUME AmplePool, [Next]_vars PROVE AmplePool'
  OBVIOUS
<1>1. config' = config
  BY ConfigStays
<1> QED BY <1>1 DEF AmplePool, Continuous, MaxNumSeqs, NumPrompt, CeilDiv

\* A legacy engine, with or without chunks, whose max_num_batched_tokens covers any one
\* request is safe and samples from full contexts, however often it preempts.
THEOREM OneStepEngineSafe == Spec /\ OneStepEach => []EngineSafe /\ TokensFromFullContext
<1> DEFINE Inv == LInv /\ KVInv /\ StallInv /\ OneStepEach /\ NothingWaits
<1>1. Init /\ OneStepEach => Inv
  <2>1. Init => NothingWaits
    BY DEF Init, NothingWaits, Batch, Loops, Elems
  <2> QED BY <2>1, InitInv, InitKVInv, InitStall
<1>2. Inv => WholeSampled
  BY RunsWhole DEF OneStepEach
<1>3. Inv /\ [Next]_vars => Inv'
  <2> SUFFICES ASSUME Inv, [Next]_vars PROVE Inv'
    OBVIOUS
  <2>1. LInv' /\ KVInv' /\ StallInv'
    BY <1>2, NextAll
  <2>2. OneStepEach' /\ NothingWaits'
    BY OneStepStays, NothingWaitsStep
  <2> QED BY <2>1, <2>2
<1>4. Inv => EngineSafe
  BY InvEngineSafe
<1>5. Inv /\ [Next]_vars =>
        [\A s \in Seqs : tokens'[s] # tokens[s] =>
          ContextReady(s, Len(tokens[s])) /\ cached[s] + scheduled[s] = Len(tokens[s])]_vars
  BY <1>2, SampledWhole
<1> HIDE DEF Inv
<1> QED BY <1>1, <1>3, <1>4, <1>5, PTL DEF Spec, TokensFromFullContext

\* So is continuous batching, whatever its budget cuts, with a pool that holds max_num_seqs
\* requests: it never preempts and computes every prompt once.
THEOREM AmpleEngineSafe == Spec /\ AmplePool => []EngineSafe /\ TokensFromFullContext
<1> DEFINE Inv == LInv /\ KVInv /\ StallInv /\ AmplePool /\ NothingAgain
<1>1. Init /\ AmplePool => Inv
  <2>1. Init => NothingAgain
    BY DEF Init, BlockInit, NothingAgain, FirstTime, Batch, Loops, Elems, NumTokens, NumPrompt
  <2> QED BY <2>1, InitInv, InitKVInv, InitStall
<1>2. Inv => WholeSampled
  BY OnceWhole DEF AmplePool
<1>3. Inv /\ [Next]_vars => Inv'
  <2> SUFFICES ASSUME Inv, [Next]_vars PROVE Inv'
    OBVIOUS
  <2>1. LInv' /\ KVInv' /\ StallInv'
    BY <1>2, NextAll
  <2>2. AmplePool' /\ NothingAgain'
    BY AmpleStays, NothingAgainStep
  <2> QED BY <2>1, <2>2
<1>4. Inv => EngineSafe
  BY InvEngineSafe
<1>5. Inv /\ [Next]_vars =>
        [\A s \in Seqs : tokens'[s] # tokens[s] =>
          ContextReady(s, Len(tokens[s])) /\ cached[s] + scheduled[s] = Len(tokens[s])]_vars
  BY <1>2, SampledWhole
<1> HIDE DEF Inv
<1> QED BY <1>1, <1>3, <1>4, <1>5, PTL DEF Spec, TokensFromFullContext
=============================================================================
