----------------------------- MODULE BlockClient -----------------------------
(***************************************************************************)
(* The most general client of the block manager that keeps to the calling  *)
(* rules of the scheduler: whole requests come, run and go in any order.   *)
(* It is an engine that allocates and publishes prefixes, or a PD engine,  *)
(* which reserves whole footprints and publishes nothing.                  *)
(***************************************************************************)
EXTENDS BlockManager

VARIABLE exclusive      \* whether this is a PD engine

clientVars == <<exclusive, bmVars>>

ClientInit == BlockInit /\ exclusive \in BOOLEAN

ClientAllocate(s) ==
    /\ ~exclusive
    /\ table[s] = <<>> /\ NumCompletion(s) < MaxTokens[s]
    /\ CanAllocate(s)
    /\ Allocate(s)
    /\ UNCHANGED <<exclusive, tokens, reserved>>

ClientReserve(s) ==
    /\ exclusive
    /\ table[s] = <<>> /\ tokens[s] = Prompt[s]
    /\ LET total == CeilDiv(NumPrompt(s) + MaxTokens[s], BlockSize) IN
       CanAllocateExclusive(total) /\ AllocateExclusive(s, total)
    /\ UNCHANGED <<exclusive, tokens, cached>>

\* Any number of the remaining tokens is computed, and published unless PD.
ClientCompute(s, n) ==
    /\ table[s] # <<>> /\ Len(table[s]) = SeqBlocks(s)
    /\ cached[s] + n <= NumTokens(s)
    /\ IF exclusive THEN UNCHANGED <<hash, index>> ELSE HashBlocks(s, n)
    /\ cached' = [cached EXCEPT ![s] = @ + n]
    /\ UNCHANGED <<exclusive, tokens, table, reserved, free, ref>>

\* A token is sampled after all the others are computed.
ClientSample(s, token) ==
    /\ table[s] # <<>> /\ cached[s] = NumTokens(s)
    /\ NumCompletion(s) < MaxTokens[s]
    /\ tokens' = [tokens EXCEPT ![s] = Append(@, token)]
    /\ UNCHANGED <<exclusive, cached, table, reserved, blockVars>>

ClientAppend(s) ==
    /\ table[s] # <<>> /\ Len(table[s]) < SeqBlocks(s)
    /\ CanAppend(s) /\ MayAppend(s)
    /\ UNCHANGED <<exclusive, tokens, cached>>

\* Preemption and completion alike.
ClientRelease(s) ==
    /\ table[s] # <<>>
    /\ Deallocate(s, hash)
    /\ cached' = [cached EXCEPT ![s] = 0]
    /\ UNCHANGED <<exclusive, tokens, hash, index>>

ClientNext ==
    \E s \in Seqs :
        \/ ClientAllocate(s) \/ ClientReserve(s)
        \/ \E n \in 1 .. NumTokens(s) : ClientCompute(s, n)
        \/ \E token \in Token : ClientSample(s, token)
        \/ ClientAppend(s) \/ ClientRelease(s)

BlockSpec == ClientInit /\ [][ClientNext]_clientVars
=============================================================================
