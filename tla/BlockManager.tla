---------------------------- MODULE BlockManager ----------------------------
(***************************************************************************)
(* The paged KV-cache allocator, nanovllm/engine/block_manager.py, and the *)
(* part of Sequence (engine/sequence.py) it works on.                      *)
(*                                                                         *)
(* Blocks are reference counted.  A block whose count is zero waits in one *)
(* queue, whether or not it still holds a reusable prefix: unpublished     *)
(* blocks go to the front, published ones to the back in LRU order, and    *)
(* allocation takes the front.  A published block can be found by the      *)
(* prefix it ends and shared by several sequences.                         *)
(*                                                                         *)
(* A prefix hash is modelled by the tokens it was computed from: the chain *)
(* of compute_hash over blocks is the concatenation of their tokens, and   *)
(* -1, no hash, is the empty sequence.  Hash collisions are left out.      *)
(*                                                                         *)
(* The operators are fragments of actions: the schedulers build their      *)
(* steps from them, and BlockClient a most general client.                 *)
(***************************************************************************)
EXTENDS Integers, Sequences, FiniteSets

CONSTANTS
    Seqs,           \* requests, one Sequence object each
    Token,          \* token ids
    NumBlocks,      \* size of the pool
    BlockSize,      \* tokens per block
    Prompt,         \* the prompt of each request
    MaxTokens       \* max_tokens of each request

ASSUME PoolAssumption == NumBlocks \in Nat \ {0} /\ BlockSize \in Nat \ {0}
ASSUME RequestAssumption ==
    /\ Prompt \in [Seqs -> Seq(Token) \ {<<>>}]
    /\ MaxTokens \in [Seqs -> Nat \ {0}]

VARIABLES
    tokens,         \* token_ids of each sequence
    cached,         \* num_cached_tokens of each sequence
    table,          \* block_table of each sequence
    reserved,       \* reserved_block_ids, <<>> for no entry
    free,           \* the evictable queue, front first
    ref,            \* ref_count of each block
    hash,           \* hash and token_ids of each block
    index           \* hash_to_block_ids, as <<hash, block>> pairs

blockVars == <<free, ref, hash, index>>
bmVars    == <<tokens, cached, table, reserved, blockVars>>

Blocks == 0 .. NumBlocks - 1
NoHash == <<>>

BlockTypeOK ==
    /\ tokens \in [Seqs -> Seq(Token)]
    /\ cached \in [Seqs -> Nat]
    /\ table \in [Seqs -> Seq(Blocks)]
    /\ reserved \in [Seqs -> Seq(Blocks)]
    /\ free \in Seq(Blocks)
    /\ ref \in [Blocks -> Nat]
    /\ hash \in [Blocks -> Seq(Token)]
    /\ index \subseteq Seq(Token) \X Blocks

BlockInit ==
    /\ tokens = Prompt
    /\ cached = [s \in Seqs |-> 0]
    /\ table = [s \in Seqs |-> <<>>]
    /\ reserved = [s \in Seqs |-> <<>>]
    /\ free = [i \in 1 .. NumBlocks |-> i - 1]
    /\ ref = [b \in Blocks |-> 0]
    /\ hash = [b \in Blocks |-> NoHash]
    /\ index = {}

-----------------------------------------------------------------------------
(* Sequence *)

CeilDiv(n, m)    == (n + m - 1) \div m
NumTokens(s)     == Len(tokens[s])
NumPrompt(s)     == Len(Prompt[s])
SeqBlocks(s)     == CeilDiv(NumTokens(s), BlockSize)
IsPrefill(s)     == cached[s] < NumPrompt(s)
PrefillLeft(s)   == IF IsPrefill(s) THEN NumPrompt(s) - cached[s] ELSE 0
NumCompletion(s) == NumTokens(s) - NumPrompt(s)

\* The hash chain over the first i blocks of s, and the tokens of block i.
PrefixHash(s, i) == SubSeq(tokens[s], 1, i * BlockSize)
BlockTokens(s, i) == SubSeq(tokens[s], (i - 1) * BlockSize + 1, i * BlockSize)

-----------------------------------------------------------------------------
(* Looking up and allocating *)

\* Block.token_ids: the last block of the tokens the hash stands for.
LastChunk(h) == SubSeq(h, Len(h) - BlockSize + 1, Len(h))

Matches(h) ==
    {b \in Blocks : <<h, b>> \in index /\ hash[b] # NoHash
                                       /\ LastChunk(hash[b]) = LastChunk(h)}
UsedMatches(h) == {b \in Matches(h) : ref[b] > 0}

\* _find_cached_block: any copy in use, else any idle one (the copies are a
\* set, whose order is nobody's choice).
Found(h) == IF UsedMatches(h) # {} THEN UsedMatches(h) ELSE Matches(h)

\* How many leading blocks can_allocate finds; the last block never counts.
NumHits(s) ==
    CHOOSE n \in 0 .. SeqBlocks(s) - 1 :
        /\ \A i \in 1 .. n : Matches(PrefixHash(s, i)) # {}
        /\ n < SeqBlocks(s) - 1 => Matches(PrefixHash(s, n + 1)) = {}

NumUsedHits(s) ==
    Cardinality({i \in 1 .. NumHits(s) : UsedMatches(PrefixHash(s, i)) # {}})

\* can_allocate(s) # -1: an idle hit leaves the queue too, so it cannot also
\* pay for a new block.
CanAllocate(s) == Len(free) >= SeqBlocks(s) - NumUsedHits(s)

Elems(q) == {q[i] : i \in 1 .. Len(q)}

\* The elements of q that are in S, in the order of q.
Kept(q, S) ==
    LET places == {i \in 1 .. Len(q) : q[i] \in S} IN
    [k \in 1 .. Cardinality(places) |->
        q[CHOOSE i \in places : Cardinality(places \cap 1 .. i) = k]]

\* Mutant of TakeFront: a reused block keeps its hash and its index entry.
TakeFrontCached(queue, n, counts) ==
    LET taken == Elems(SubSeq(queue, 1, n)) IN
    /\ free' = SubSeq(queue, n + 1, Len(queue))
    /\ ref' = [b \in Blocks |-> IF b \in taken THEN 1 ELSE counts[b]]
    /\ UNCHANGED <<hash, index>>

\* Mutant of TakeFront: the block is reset but stays in the index.
TakeFrontIndexed(queue, n, counts) ==
    LET taken == Elems(SubSeq(queue, 1, n)) IN
    /\ free' = SubSeq(queue, n + 1, Len(queue))
    /\ ref' = [b \in Blocks |-> IF b \in taken THEN 1 ELSE counts[b]]
    /\ hash' = [b \in Blocks |-> IF b \in taken THEN NoHash ELSE hash[b]]
    /\ UNCHANGED index

\* _allocate_block, n times: the front of the queue loses its old contents.
TakeFront(queue, n, counts) ==
    LET taken == Elems(SubSeq(queue, 1, n)) IN
    /\ free' = SubSeq(queue, n + 1, Len(queue))
    /\ ref' = [b \in Blocks |-> IF b \in taken THEN 1 ELSE counts[b]]
    /\ hash' = [b \in Blocks |-> IF b \in taken THEN NoHash ELSE hash[b]]
    /\ index' = {p \in index : p[2] \notin taken}

\* Mutant of Allocate: an idle hit is not removed from the queue.
AllocateIdleHit(s) ==
    LET n == NumHits(s) IN
    \E hits \in [1 .. n -> Blocks] :
        /\ \A i \in 1 .. n : hits[i] \in Found(PrefixHash(s, i))
        /\ LET shared == Elems(hits)
               counts == [b \in Blocks |-> IF b \in shared THEN ref[b] + 1 ELSE ref[b]]
               need   == SeqBlocks(s) - n
           IN  /\ TakeFront(free, need, counts)
               /\ table' = [table EXCEPT ![s] = hits \o SubSeq(free, 1, need)]
        /\ cached' = [cached EXCEPT ![s] = n * BlockSize]

\* allocate(s, NumHits(s)): share the hits, then take the rest.
Allocate(s) ==
    LET n == NumHits(s) IN
    \E hits \in [1 .. n -> Blocks] :
        /\ \A i \in 1 .. n : hits[i] \in Found(PrefixHash(s, i))
        /\ LET shared == Elems(hits)
               queue  == Kept(free, Blocks \ shared)
               counts == [b \in Blocks |-> IF b \in shared THEN ref[b] + 1 ELSE ref[b]]
               need   == SeqBlocks(s) - n
           IN  /\ TakeFront(queue, need, counts)
               /\ table' = [table EXCEPT ![s] = hits \o SubSeq(queue, 1, need)]
        /\ cached' = [cached EXCEPT ![s] = n * BlockSize]

\* allocate_exclusive(s, total), when it succeeds.
CanAllocateExclusive(total) == total <= Len(free)

AllocateExclusive(s, total) ==
    LET blocks == SubSeq(free, 1, total) IN
    /\ table[s] = <<>> /\ reserved[s] = <<>>
    /\ TakeFront(free, total, ref)
    /\ table' = [table EXCEPT ![s] = SubSeq(blocks, 1, SeqBlocks(s))]
    /\ reserved' = [reserved EXCEPT ![s] = SubSeq(blocks, SeqBlocks(s) + 1, total)]

CanAppend(s) ==
    Len(table[s]) >= SeqBlocks(s) \/ reserved[s] # <<>> \/ free # <<>>

\* Mutant of MayAppend: the block is used but not taken from the queue.
MayAppendUntaken(s) ==
    /\ UNCHANGED <<reserved, blockVars>>
    /\ \/ Len(table[s]) >= SeqBlocks(s) /\ UNCHANGED table
       \/ /\ Len(table[s]) < SeqBlocks(s) /\ free # <<>>
          /\ table' = [table EXCEPT ![s] = Append(@, Head(free))]

\* may_append: one more block if the next token needs it, from the sequence's
\* reservation (its last block) if it has one.
MayAppend(s) ==
    \/ /\ Len(table[s]) >= SeqBlocks(s)
       /\ UNCHANGED <<table, reserved, blockVars>>
    \/ /\ Len(table[s]) < SeqBlocks(s) /\ reserved[s] # <<>>
       /\ table' = [table EXCEPT ![s] = Append(@, reserved[s][Len(reserved[s])])]
       /\ reserved' = [reserved EXCEPT ![s] = SubSeq(@, 1, Len(@) - 1)]
       /\ UNCHANGED blockVars
    \/ /\ Len(table[s]) < SeqBlocks(s) /\ reserved[s] = <<>>
       /\ free # <<>>
       /\ table' = [table EXCEPT ![s] = Append(@, Head(free))]
       /\ TakeFront(free, 1, ref)
       /\ UNCHANGED reserved

-----------------------------------------------------------------------------
(* Publishing and releasing *)

\* hash_blocks(s) when n more tokens of s are computed: each block they fill
\* is hashed onto the hash of the block before it.
FilledBlocks(s, n) == cached[s] \div BlockSize + 1 .. (cached[s] + n) \div BlockSize

HashAfter(s, n) ==
    LET filled == FilledBlocks(s, n)
        first  == cached[s] \div BlockSize
        base   == IF first > 0 THEN hash[table[s][first]] ELSE NoHash
        chain(i) == base \o SubSeq(tokens[s], first * BlockSize + 1, i * BlockSize)
    IN  [b \in Blocks |->
            IF \E i \in filled : table[s][i] = b
            THEN chain(CHOOSE i \in filled : table[s][i] = b)
            ELSE hash[b]]

HashBlocks(s, n) ==
    /\ hash' = HashAfter(s, n)
    /\ index' = index \cup {<<hash'[table[s][i]], table[s][i]>> : i \in FilledBlocks(s, n)}

Reversed(q) == [i \in 1 .. Len(q) |-> q[Len(q) + 1 - i]]

\* What a holder leaves to the queue: the blocks nobody else holds, by their hashes h.
Idle(blocks, h)        == Kept(blocks, {b \in Blocks : ref[b] = 1 /\ h[b] = NoHash})
IdleHashed(blocks, h)  == Kept(blocks, {b \in Blocks : ref[b] = 1 /\ h[b] # NoHash})

\* Mutant of Deallocate: the reservation is forgotten, not returned.
DeallocateTable(s, h) ==
    /\ ref' = [b \in Blocks |-> IF b \in Elems(table[s]) THEN ref[b] - 1 ELSE ref[b]]
    /\ free' = Idle(table[s], h) \o free \o Reversed(IdleHashed(table[s], h))
    /\ table' = [table EXCEPT ![s] = <<>>]
    /\ reserved' = [reserved EXCEPT ![s] = <<>>]

\* Mutant of Deallocate: published blocks never return to the queue.
DeallocateLeaky(s, h) ==
    LET blocks == table[s] \o reserved[s] IN
    /\ ref' = [b \in Blocks |-> IF b \in Elems(blocks) THEN ref[b] - 1 ELSE ref[b]]
    /\ free' = Idle(blocks, h) \o free
    /\ table' = [table EXCEPT ![s] = <<>>]
    /\ reserved' = [reserved EXCEPT ![s] = <<>>]

\* deallocate(s), with the hashes h: walking the table backwards, a block
\* whose last holder leaves goes to the front of the queue if it is
\* unpublished and to the back otherwise.
Deallocate(s, h) ==
    LET blocks == table[s] \o reserved[s] IN
    /\ ref' = [b \in Blocks |-> IF b \in Elems(blocks) THEN ref[b] - 1 ELSE ref[b]]
    /\ free' = Idle(blocks, h) \o free \o Reversed(IdleHashed(blocks, h))
    /\ table' = [table EXCEPT ![s] = <<>>]
    /\ reserved' = [reserved EXCEPT ![s] = <<>>]

-----------------------------------------------------------------------------
(* Properties of the allocator *)

\* A block is in the queue exactly if nobody holds it, and once: the asserts of
\* the queue and of _allocate_block, and the KeyError remove could raise.
FreeIsUnreferenced ==
    /\ Elems(free) = {b \in Blocks : ref[b] = 0}
    /\ \A i, j \in 1 .. Len(free) : free[i] = free[j] => i = j

Holders(b) == {s \in Seqs : b \in Elems(table[s]) \cup Elems(reserved[s])}

\* The count of a block is the number of sequences that hold it: nothing leaks
\* and nothing is reclaimed while a block table still points at it.
RefCountsHolders ==
    \A b \in Blocks : ref[b] = Cardinality(Holders(b))

\* A sequence never has the same block twice, and a reservation is its alone.
TablesAreSets ==
    \A s \in Seqs :
        LET blocks == table[s] \o reserved[s] IN
        /\ Cardinality(Elems(blocks)) = Len(blocks)
        /\ \A b \in Elems(reserved[s]) : Holders(b) = {s}

\* All at once: allocate shares, revives and takes blocks in one step, and no block is
\* counted for one of these and queued for another, or handed out twice.
BlocksAccounted == FreeIsUnreferenced /\ RefCountsHolders /\ TablesAreSets

\* hash_to_block_ids lists a block under its present hash and nothing else: no
\* stale entry survives the reuse of an evicted block.
IndexIsCurrent ==
    index = {<<hash[b], b>> : b \in {c \in Blocks : hash[c] # NoHash}}

\* Blocks found by hash are shared as a prefix of the right length: the i-th
\* block of a table, if published, carries the hash of the first i blocks.
TableFollowsHashes ==
    \A s \in Seqs : \A i \in 1 .. Len(table[s]) :
        hash[table[s][i]] # NoHash => hash[table[s][i]] = PrefixHash(s, i)

\* A lookup through the index leads to the prefix that was asked for, whatever was
\* published, shared, evicted and published again since.
HashesAgree == IndexIsCurrent /\ TableFollowsHashes
=============================================================================
