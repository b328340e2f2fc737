------------------------- MODULE KVDescriptorsProofs --------------------------
(***************************************************************************)
(* What NIXL is told about a KV cache of any shape.                        *)
(***************************************************************************)
EXTENDS KVDescriptors, TLAPS

Caches == [address : Nat, regions : Nat, capacity : Nat, blockSize : Nat \ {0}]

Memory(cache) ==
    cache.address .. cache.address + (cache.regions * cache.capacity) * cache.blockSize - 1

\* Rows of length n do not overlap.
LEMMA Rows ==
    ASSUME NEW a \in Nat, NEW b \in Nat, NEW n \in Nat, a < b
    PROVE  a * n + n <= b * n /\ a * n \in Nat /\ b * n \in Nat
OBVIOUS

\* A block id and a region name a row of the cache.
LEMMA RowInCache ==
    ASSUME NEW region \in Nat, NEW regions \in Nat, NEW capacity \in Nat,
           NEW block \in 0 .. capacity - 1, region < regions
    PROVE  region * capacity + block \in Nat /\ region * capacity + block < regions * capacity
BY Rows

\* Rows of different regions differ.
LEMMA RowsApart ==
    ASSUME NEW r \in Nat, NEW q \in Nat, NEW c \in Nat, NEW x \in 0 .. c - 1,
           NEW y \in 0 .. c - 1, r < q
    PROVE  r * c + x < q * c + y /\ r * c + x \in Nat /\ q * c + y \in Nat
BY Rows

\* Every block of a transfer holds at least one of its tokens.
LEMMA BlockInUse ==
    ASSUME NEW t \in Nat, NEW n \in Nat \ {0}, NEW i \in 1 .. (t + n - 1) \div n
    PROVE  (i - 1) * n < t /\ (i - 1) * n \in Nat /\ i * n = (i - 1) * n + n
<1> DEFINE m == (t + n - 1) \div n
<1>1. m * n <= t + n - 1 /\ m \in Nat
  OBVIOUS
<1>2. i \in Nat \ {0} /\ i <= m
  BY <1>1
<1> HIDE DEF m
<1>3. i * n <= m * n
  BY <1>1, <1>2
<1>4. (i - 1) * n = i * n - n /\ i * n \in Nat /\ (i - 1) * n \in Nat
  BY <1>2
<1>5. m * n \in Nat
  BY <1>1
<1> QED
  BY <1>1, <1>3, <1>4, <1>5

\* Where the tokens end inside the last block.
LEMMA SizeOfBlock ==
    ASSUME NEW t \in Nat, NEW n \in Nat \ {0}, NEW i \in 1 .. (t + n - 1) \div n
    PROVE  (IF i * n < t THEN n ELSE t - (i - 1) * n) \in 1 .. n
BY BlockInUse

\* Memory of a row, and of two rows, counted from a base address.
LEMMA SpanInside ==
    ASSUME NEW base \in Nat, NEW x \in Nat, NEW n \in Nat, NEW end \in Nat,
           NEW size \in 1 .. n, x + n <= end
    PROVE  base + x .. base + x + size - 1 \subseteq base .. base + end - 1
OBVIOUS

LEMMA SpansApart ==
    ASSUME NEW base \in Nat, NEW x \in Nat, NEW y \in Nat, NEW n \in Nat,
           NEW size \in 1 .. n, NEW other \in 1 .. n, x + n <= y
    PROVE  (base + x .. base + x + size - 1) \cap (base + y .. base + y + other - 1) = {}
OBVIOUS

\* A descriptor covers at most its block.
LEMMA DescriptorRow ==
    ASSUME NEW cache \in Caches, NEW numTokens \in Nat, NEW blocks \in Seq(Nat),
           ValidBlocks(cache, blocks, numTokens),
           NEW region \in 0 .. cache.regions - 1, NEW i \in 1 .. Len(blocks)
    PROVE  LET row == region * cache.capacity + blocks[i]
               d   == Descriptor(cache, blocks, numTokens, region, i)
           IN  /\ row \in Nat /\ row < cache.regions * cache.capacity
               /\ d.address = cache.address + row * cache.blockSize
               /\ d.size \in 1 .. cache.blockSize
<1>1. /\ cache.regions \in Nat /\ cache.capacity \in Nat
      /\ cache.blockSize \in Nat \ {0}
  BY DEF Caches
<1>2. blocks[i] \in 0 .. cache.capacity - 1 /\ region \in Nat /\ region < cache.regions
  BY <1>1 DEF ValidBlocks
<1>3. /\ region * cache.capacity + blocks[i] \in Nat
      /\ region * cache.capacity + blocks[i] < cache.regions * cache.capacity
  BY <1>1, <1>2, RowInCache
<1>4. i \in 1 .. (numTokens + cache.blockSize - 1) \div cache.blockSize
  BY DEF ValidBlocks
<1>5. (IF i * cache.blockSize < numTokens THEN cache.blockSize
       ELSE numTokens - (i - 1) * cache.blockSize) \in 1 .. cache.blockSize
  BY <1>1, <1>4, SizeOfBlock
<1>6. Descriptor(cache, blocks, numTokens, region, i).size \in 1 .. cache.blockSize
  BY <1>5, Zenon DEF Descriptor
<1>7. Descriptor(cache, blocks, numTokens, region, i).address
        = cache.address + (region * cache.capacity + blocks[i]) * cache.blockSize
  BY Zenon DEF Descriptor
<1> QED
  BY <1>3, <1>6, <1>7

\* A transfer reads and writes inside the registered caches only (block_descriptors
\* over any list of blocks that passes the checks).
THEOREM DescriptorsStayInside ==
    ASSUME NEW cache \in Caches, NEW numTokens \in Nat, NEW blocks \in Seq(Nat),
           ValidBlocks(cache, blocks, numTokens),
           NEW region \in 0 .. cache.regions - 1, NEW i \in 1 .. Len(blocks)
    PROVE  Extent(Descriptor(cache, blocks, numTokens, region, i)) \subseteq Memory(cache)
<1> DEFINE row   == region * cache.capacity + blocks[i]
           rows  == cache.regions * cache.capacity
           n     == cache.blockSize
           d     == Descriptor(cache, blocks, numTokens, region, i)
<1>1. /\ row \in Nat /\ row < rows
      /\ d.address = cache.address + row * n
      /\ d.size \in 1 .. n
  BY DescriptorRow
<1>2. cache.address \in Nat /\ rows \in Nat /\ n \in Nat
  BY DEF Caches
<1> HIDE DEF row, rows, n, d
<1>3. row * n + n <= rows * n /\ row * n \in Nat /\ rows * n \in Nat
  BY <1>1, <1>2, Rows
<1>4. cache.address + row * n .. cache.address + row * n + d.size - 1
        \subseteq cache.address .. cache.address + rows * n - 1
  BY <1>1, <1>2, <1>3, SpanInside
<1> QED
  BY <1>1, <1>4 DEF Extent, Memory, rows, n, d

\* No two descriptors of a transfer share memory, so that no part of the prompt's
\* KV is overwritten by another region or block of the same READ.
THEOREM DescriptorsAreDisjoint ==
    ASSUME NEW cache \in Caches, NEW numTokens \in Nat, NEW blocks \in Seq(Nat),
           ValidBlocks(cache, blocks, numTokens),
           NEW region \in 0 .. cache.regions - 1, NEW i \in 1 .. Len(blocks),
           NEW other \in 0 .. cache.regions - 1, NEW j \in 1 .. Len(blocks),
           <<region, i>> # <<other, j>>
    PROVE  Extent(Descriptor(cache, blocks, numTokens, region, i))
             \cap Extent(Descriptor(cache, blocks, numTokens, other, j)) = {}
<1> DEFINE n         == cache.blockSize
           c         == cache.capacity
           Row(r, k) == r * c + blocks[k]
           D(r, k)   == Descriptor(cache, blocks, numTokens, r, k)
           Regions   == 0 .. cache.regions - 1
           Places    == 1 .. Len(blocks)
<1>1. \A r \in Regions, k \in Places :
        /\ Row(r, k) \in Nat
        /\ D(r, k).address = cache.address + Row(r, k) * n
        /\ D(r, k).size \in 1 .. n
  BY DescriptorRow
<1>2. /\ cache.address \in Nat /\ n \in Nat /\ c \in Nat
      /\ \A r \in Regions : r \in Nat
  BY DEF Caches
<1>3. /\ \A k \in Places : blocks[k] \in 0 .. c - 1
      /\ \A k, l \in Places : blocks[k] = blocks[l] => k = l
  BY DEF ValidBlocks
<1> HIDE DEF n, c, Regions, Places
<1>4. Row(region, i) # Row(other, j)
  <2>1. region \in Regions /\ other \in Regions /\ i \in Places /\ j \in Places
    BY DEF Regions, Places
  <2>2. CASE region = other
    <3>1. blocks[i] # blocks[j]
      BY <2>1, <2>2, <1>3
    <3>2. region * c \in Nat
      BY <1>2, <2>1
    <3>3. blocks[i] \in Nat /\ blocks[j] \in Nat
      BY <1>2, <1>3, <2>1
    <3> DEFINE base == region * c
               x    == blocks[i]
               y    == blocks[j]
    <3>4. Row(region, i) = base + x /\ Row(other, j) = base + y
      BY <2>2
    <3> HIDE DEF base, x, y
    <3>5. base \in Nat /\ x \in Nat /\ y \in Nat /\ x # y
      BY <3>1, <3>2, <3>3 DEF base, x, y
    <3>6. base + x # base + y
      BY <3>5
    <3> HIDE DEF Row
    <3> QED
      BY <3>4, <3>6
  <2>3. \A r, q \in Regions, k, l \in Places : r < q => r * c + blocks[k] < q * c + blocks[l]
    BY <1>2, <1>3, RowsApart
  <2>4. CASE region # other
    <3>1. region < other \/ other < region
      BY <1>2, <2>1, <2>4
    <3>2. Row(region, i) < Row(other, j) \/ Row(other, j) < Row(region, i)
      BY <2>1, <2>3, <3>1
    <3>3. Row(region, i) \in Nat /\ Row(other, j) \in Nat
      BY <1>1, <2>1
    <3> HIDE DEF Row
    <3> QED
      BY <3>2, <3>3
  <2> QED
    BY <2>2, <2>4
<1> HIDE DEF Row, D
<1>5. ASSUME NEW r \in Regions, NEW k \in Places, NEW q \in Regions, NEW l \in Places,
             Row(r, k) < Row(q, l)
      PROVE  Extent(D(r, k)) \cap Extent(D(q, l)) = {}
  <2>1. Row(r, k) * n + n <= Row(q, l) * n /\ Row(r, k) * n \in Nat /\ Row(q, l) * n \in Nat
    BY <1>1, <1>2, <1>5, Rows
  <2>2. D(r, k).size \in 1 .. n /\ D(q, l).size \in 1 .. n
    BY <1>1
  <2>3. (cache.address + Row(r, k) * n .. cache.address + Row(r, k) * n + D(r, k).size - 1)
          \cap (cache.address + Row(q, l) * n .. cache.address + Row(q, l) * n + D(q, l).size - 1) = {}
    BY <2>1, <2>2, <1>2, SpansApart
  <2> QED
    BY <2>3, <1>1 DEF Extent
<1>6. Row(region, i) < Row(other, j) \/ Row(other, j) < Row(region, i)
  BY <1>1, <1>4 DEF Regions, Places
<1>7. Extent(D(region, i)) \cap Extent(D(other, j)) = {}
  BY <1>5, <1>6 DEF Regions, Places
<1> QED
  BY <1>7 DEF D
=============================================================================
