--------------------------- MODULE LocalScheduler ----------------------------
(***************************************************************************)
(* The engine of one process: LLMEngine.generate and step over             *)
(* Scheduler.schedule, which takes the continuous-batching loops or the    *)
(* legacy ones as it is configured.                                        *)
(***************************************************************************)
EXTENDS ContinuousBatching, LegacyScheduling

EngineStep == ContinuousStep \/ LegacyStep \/ RunBatch

Next == EngineStep \/ \E s \in Seqs : Add(s)

Spec == Init /\ [][Next]_vars

\* generate keeps calling step until nothing is left.
FairSpec == Spec /\ WF_vars(EngineStep)

-----------------------------------------------------------------------------
(* Properties                                                              *)

\* The request can be served alone.  Without chunks the legacy mode needs a step
\* for all its tokens, since preemption may make it compute them again.
FitsAlone(s) ==
    /\ CeilDiv(NumPrompt(s) + MaxTokens[s], BlockSize) <= NumBlocks
    /\ \/ Continuous \/ EnableChunkedPrefill
       \/ NumPrompt(s) + MaxTokens[s] <= MaxBatchedTokens + 1

\* The engine never gives up while every request can be served alone, however
\* preemption and sharing spread the blocks: schedule always finds something, and
\* run_model a graph for it if the captured ones reach up to max_num_seqs.
NeverStalls ==
    /\ \A s \in config.requests : FitsAlone(s)
    /\ config.eager \/ GraphsCover(MaxNumSeqs)
    => pc # "failed"

\* Between the scheduling loops each sequence is in the queue its status names.
\* Blocks are held only by running sequences and by the one prompt that legacy
\* scheduling has under way at the head of waiting: preemption never puts
\* another in front of it.
QueuesAgree ==
    pc \in {"idle", "execute", "post"} =>
        \A s \in Seqs :
            /\ status[s] = "RUNNING" <=> s \in Elems(running)
            /\ status[s] = "WAITING" <=> s \in Elems(waiting)
            /\ table[s] # <<>> =>
                  \/ s \in Elems(running)
                  \/ (~Continuous /\ waiting # <<>> /\ s = Head(waiting))

\* Every request that was added finishes, in spite of preemption, unless the
\* engine fails for want of a graph.
EveryRequestFinishes ==
    \A s \in Seqs : status[s] = "WAITING" ~> status[s] = "FINISHED" \/ pc = "failed"
=============================================================================
