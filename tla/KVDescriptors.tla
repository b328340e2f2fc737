---------------------------- MODULE KVDescriptors -----------------------------
(***************************************************************************)
(* Which memory a KV transfer names: block_descriptors of nanovllm/        *)
(* distributed/kv_transfer/nixl.py and the checks of metadata.py.          *)
(*                                                                         *)
(* A cache is a record: its address, its regions (K and V of each layer),  *)
(* its capacity in blocks and its block size in tokens.  Addresses and     *)
(* sizes count tokens of one region.                                       *)
(***************************************************************************)
EXTENDS Integers, Sequences

\* _validate_blocks and the checks of block_descriptors: without them it raises.
ValidBlocks(cache, blocks, numTokens) ==
    /\ numTokens > 0
    /\ Len(blocks) = (numTokens + cache.blockSize - 1) \div cache.blockSize
    /\ \A i, j \in 1 .. Len(blocks) : blocks[i] = blocks[j] => i = j
    /\ \A i \in 1 .. Len(blocks) : blocks[i] \in 0 .. cache.capacity - 1

\* One region of one block; the last block is cut where the tokens end.
Descriptor(cache, blocks, numTokens, region, i) ==
    [address |-> cache.address + (region * cache.capacity + blocks[i]) * cache.blockSize,
     size    |-> IF i * cache.blockSize < numTokens THEN cache.blockSize
                 ELSE numTokens - (i - 1) * cache.blockSize]

Extent(d) == d.address .. d.address + d.size - 1

\* The tokens a READ puts at each address of a region: it copies the i-th remote
\* descriptor to the i-th local one.
TokensRead(cache, blocks, numTokens, region) ==
    UNION {LET d == Descriptor(cache, blocks, numTokens, region, i) IN
           {[address |-> a, token |-> (i - 1) * cache.blockSize + a - d.address + 1]
              : a \in Extent(d)}
           : i \in 1 .. Len(blocks)}
=============================================================================
