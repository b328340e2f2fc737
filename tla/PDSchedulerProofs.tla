--------------------------- MODULE PDSchedulerProofs ---------------------------
(***************************************************************************)
(* Proofs about the PD scheduler: its types and limits, who owns blocks,   *)
(* which transfers keep them, who may run, when blocks are taken, and what *)
(* the blocks contain.                                                     *)
(*                                                                         *)
(* The inductive invariant PDInv says where a request is in its life and   *)
(* what follows from that for the queues, the request table, the           *)
(* transfers, the batch and the blocks:                                    *)
(*   NEW, WAITING         no blocks, its transfer has not begun            *)
(*   REMOTE               on D: blocks claimed by a transfer under way     *)
(*   RUNNING              blocks; on D its transfer has ended, on P it has *)
(*                        not begun                                        *)
(*   FINISHED, alive      on P: handed off, the transfer is under way      *)
(*   FINISHED, not alive  nothing is left                                  *)
(* BlockManagerProofs provides what the fragments of the allocator do.     *)
(*                                                                         *)
(* On top of it KVInv says what the cache holds for each request: the KV   *)
(* of the tokens it counts as computed, and from a report to its event the *)
(* received prompt.  Its step is Execute, where all that is stored into a  *)
(* slot has to be the KV of the one token that the slot is for.            *)
(***************************************************************************)
EXTENDS PDScheduler, BlockManagerProofs, KVDescriptorsProofs

-----------------------------------------------------------------------------
(* The invariant                                                           *)

Closing == pc \in {"closing", "closed"}

Alive(s) == requests[RequestId[s]] = s

\* A transfer is queued, under way, or its end has not reached the scheduler.
Queued(t)   == t \in loads \cup sends \cup active
Underway(t) == Queued(t) \/ (t \in fresh /\ pending[t] # NoRequest)

Transferring(s) == status[s] = "REMOTE" \/ (status[s] = "FINISHED" /\ Alive(s))
Unbegun(s)      == status[s] \in {"NEW", "WAITING"} \/ (status[s] = "RUNNING" /\ ~Decodes)
Holding(s)      == status[s] = "RUNNING" \/ Transferring(s)

\* Blocks have one owner, which is alive and admitted.
OwnInv ==
    /\ PoolInv
    /\ \A r, s \in Seqs : r # s => Held(r) \cap Held(s) = {}
    /\ \A s \in Seqs : Held(s) # {} => Alive(s) /\ status[s] # "WAITING"

\* A request table entry is of that request.
EntriesInv ==
    \A r \in Requests : requests[r] # NoSeq =>
        RequestId[requests[r]] = r /\ status[requests[r]] # "NEW"

\* How many tokens a sequence has, and how many blocks for them.
SizeInv(s) ==
    /\ NumTokens(s) >= NumPrompt(s)
    /\ status[s] \in {"NEW", "WAITING", "REMOTE"} \/ ~Decodes => tokens[s] = Prompt[s]
    /\ Decodes /\ status[s] = "RUNNING" => NumCompletion(s) < MaxTokens[s]
    /\ Unbegun(s) => IsPrefill(s)
    /\ Holding(s) => Len(table[s]) + Len(reserved[s]) = TotalBlocks(s)
    /\ Holding(s) /\ ~(Decodes /\ status[s] = "RUNNING") =>
          Len(table[s]) = CeilDiv(NumPrompt(s), BlockSize)

\* The queues hold the requests of their status, once.
Listed(q, name, of) == Distinct(q) /\ Elems(q) = {s \in Seqs : of[s] = name}

QueueInv ==
    /\ Listed(waiting, "WAITING", status)
    /\ Listed(running, "RUNNING", status)
    /\ remote = {RequestId[s] : s \in {q \in Seqs : status[q] = "REMOTE"}}

\* What is left of each loop, and the batch.
BatchInv ==
    /\ pc = "admit" => /\ Len(todo) <= Len(waiting)
                       /\ \A i \in 1 .. Len(todo) : todo[i] = waiting[i]
                       /\ prefills = <<>> /\ decodes = <<>>
    /\ pc \in {"batch", "post"} => Distinct(todo) /\ Elems(todo) \subseteq Elems(running)
    /\ pc \in {"batch", "execute"} =>
          /\ Distinct(prefills) /\ Distinct(decodes)
          /\ Elems(prefills) \cap Elems(decodes) = {}
          /\ Elems(prefills) \cup Elems(decodes) \subseteq Elems(running)
          /\ \A s \in Elems(prefills) : cached[s] + scheduled[s] <= NumPrompt(s)
    /\ pc = "batch" => Elems(todo) \cap (Elems(prefills) \cup Elems(decodes)) = {}
    /\ pc \in {"batch", "execute", "post"} =>
          \A s \in Elems(prefills) \cup Elems(decodes) : RequestId[s] \notin cancelled

\* Admitted and waiting requests are alive, and only a request in transfer can be
\* both cancelled and alive.
LifeInv ==
    /\ \A s \in Seqs : status[s] \in {"WAITING", "REMOTE", "RUNNING"} => Alive(s)
    /\ \A s \in Seqs : /\ status[s] = "REMOTE" => Decodes
                       /\ status[s] = "FINISHED" /\ Alive(s) => ~Decodes
    /\ \A r \in cancelled : requests[r] # NoSeq /\ Transferring(requests[r])

\* The transfer of s goes with its status, and names its table while under way.
TransferInv(s) ==
    LET t == Attempt[s] IN
    /\ Underway(t) <=> Transferring(s)
    /\ Underway(t) => pending[t] = RequestId[s] /\ claims[t] = table[s]
    /\ pending[t] # NoRequest => Underway(t) \/ t \in DOMAIN events \ fresh
    /\ Unbegun(s) => ~Queued(t) /\ t \notin ended /\ pending[t] = NoRequest

\* The events of a step are of transfers that have ended, and of known ones.
EventInv ==
    /\ fresh \subseteq DOMAIN events /\ DOMAIN events \subseteq ended
    /\ pc \notin {"post", "events"} => DOMAIN events = {}
    /\ \A t \in ended : ~Queued(t)
    /\ \A t \in Transfers : Queued(t) \/ t \in ended \/ pending[t] # NoRequest =>
          \E s \in Seqs : Attempt[s] = t

OpenInv ==
    /\ \A s \in Seqs : SizeInv(s) /\ TransferInv(s)
    /\ QueueInv /\ BatchInv /\ LifeInv /\ EventInv

PDInv ==
    /\ TypeOK /\ IsFiniteSet(remote)
    /\ OwnInv /\ EntriesInv
    /\ ~Closing => OpenInv
    /\ Closing => active = {}
    /\ pc = "closed" => loads = {} /\ sends = {} /\ \A r \in Requests : requests[r] = NoSeq

-----------------------------------------------------------------------------
(* Queues and numbers                                                      *)

\* The head of a queue and the rest of it.
LEMMA TailFacts ==
    ASSUME NEW D, NEW q \in Seq(D), q # <<>>
    PROVE  /\ Tail(q) \in Seq(D) /\ Len(Tail(q)) = Len(q) - 1 /\ Head(q) \in D
           /\ Elems(q) = {Head(q)} \cup Elems(Tail(q))
           /\ Distinct(q) => Distinct(Tail(q)) /\ Head(q) \notin Elems(Tail(q))
           /\ \A i \in 1 .. Len(q) - 1 : Tail(q)[i] = q[i + 1]
<1> DEFINE t == Tail(q)
           h == Head(q)
           n == Len(q)
<1>1. /\ t \in Seq(D) /\ Len(t) = n - 1 /\ h \in D /\ n \in Nat \ {0} /\ h = q[1]
      /\ \A i \in 1 .. n - 1 : t[i] = q[i + 1]
  OBVIOUS
<1> HIDE DEF t, h
<1>2. Elems(q) = {h} \cup Elems(t)
  <2>1. \A i \in 1 .. n : i = 1 \/ (i - 1 \in 1 .. n - 1 /\ q[i] = t[i - 1])
    <3> SUFFICES ASSUME NEW i \in 1 .. n, i # 1
                 PROVE  i - 1 \in 1 .. n - 1 /\ q[i] = t[i - 1]
      OBVIOUS
    <3> HIDE DEF n
    <3>1. i - 1 \in 1 .. n - 1 /\ (i - 1) + 1 = i
      BY <1>1
    <3> QED BY <1>1, <3>1
  <2>2. \A i \in 1 .. n - 1 : i + 1 \in 1 .. n /\ 1 \in 1 .. n
    BY <1>1
  <2>3. 1 \in 1 .. n
    BY <1>1
  <2> QED BY <1>1, <2>1, <2>2, <2>3 DEF Elems
<1>3. ASSUME Distinct(q) PROVE Distinct(t) /\ h \notin Elems(t)
  <2>1. \A i, j \in 1 .. n - 1 :
           i + 1 \in 1 .. n /\ j + 1 \in 1 .. n /\ 1 \in 1 .. n /\ i + 1 # 1
           /\ (i + 1 = j + 1 => i = j)
    BY <1>1
  <2>2. Distinct(t)
    BY <1>1, <1>3, <2>1 DEF Distinct
  <2>3. \A i \in 1 .. n - 1 : t[i] # h
    BY <1>1, <1>3, <2>1 DEF Distinct
  <2> QED BY <1>1, <2>2, <2>3 DEF Elems
<1> QED BY <1>1, <1>2, <1>3 DEF t, h

\* A queue without one of its members.
LEMMA WithoutFacts ==
    ASSUME NEW q \in Seq(Seqs), NEW s
    PROVE  /\ Without(q, s) \in Seq(Seqs) /\ Len(Without(q, s)) <= Len(q)
           /\ Elems(Without(q, s)) = Elems(q) \ {s}
           /\ Distinct(q) => Distinct(Without(q, s))
           /\ Distinct(q) /\ s \in Elems(q) => Len(Without(q, s)) = Len(q) - 1
<1> DEFINE S == Seqs \ {s}
           w == Kept(q, S)
<1>1. w = Without(q, s)
  BY DEF Without
<1> HIDE DEF S
<1>2. w \in Seq(Seqs) /\ Len(w) <= Len(q) /\ (Distinct(q) => Distinct(w))
  BY KeptFacts
<1>3. Elems(w) = Elems(q) \cap S
  BY KeptFacts
<1>4. Elems(q) \subseteq Seqs
  BY DEF Elems
<1>5. Elems(w) = Elems(q) \ {s}
  BY <1>3, <1>4 DEF S
<1> HIDE DEF w
<1>6. ASSUME Distinct(q), s \in Elems(q) PROVE Len(w) = Len(q) - 1
  <2>1. IsFiniteSet(Elems(q)) /\ Cardinality(Elems(q)) = Len(q)
    BY <1>6, DistinctCount
  <2>2. Cardinality(Elems(w)) = Len(w)
    BY <1>2, <1>6, DistinctCount
  <2>3. Cardinality(Elems(q) \ {s}) = Cardinality(Elems(q)) - 1
    BY <1>6, <2>1, FS_RemoveElement
  <2> QED BY <1>5, <2>1, <2>2, <2>3
<1> QED BY <1>1, <1>2, <1>5, <1>6

-----------------------------------------------------------------------------
(* What a step leaves as it is                                             *)

Statuses == {"NEW", "WAITING", "REMOTE", "RUNNING", "FINISHED"}

\* The parts of TypeOK.
LEMMA TypeFacts ==
    ASSUME TypeOK
    PROVE  /\ BlockTypeOK /\ KVTypeOK
           /\ waiting \in Seq(Seqs) /\ running \in Seq(Seqs) /\ todo \in Seq(Seqs)
           /\ prefills \in Seq(Seqs) /\ decodes \in Seq(Seqs)
           /\ MaxNumSeqs \in Nat \ {0} /\ MaxBatchedTokens \in Nat \ {0}
           /\ remote \subseteq Requests /\ cancelled \subseteq Requests
           /\ status \in [Seqs -> Statuses]
           /\ requests \in [Requests -> Seqs \cup {NoSeq}]
           /\ pending \in [Transfers -> Requests \cup {NoRequest}]
           /\ claims \in [Transfers -> Seq(Blocks)]
           /\ loads \subseteq Transfers /\ sends \subseteq Transfers
           /\ cancels \subseteq Transfers /\ active \subseteq Transfers
           /\ ended \subseteq Transfers /\ fresh \subseteq Transfers
           /\ seen \subseteq Transfers /\ handoffs \subseteq Transfers
           /\ failures \subseteq Transfers
           /\ budget \in 0 .. MaxBatchedTokens
           /\ DOMAIN events \subseteq Transfers
<1>1. MaxNumSeqs \in Nat \ {0} /\ MaxBatchedTokens \in Nat \ {0}
  BY ConfigAssumption DEF TypeOK, MaxNumSeqs, MaxBatchedTokens
<1>2. /\ waiting \in Seq(Seqs) /\ running \in Seq(Seqs) /\ todo \in Seq(Seqs)
      /\ prefills \in Seq(Seqs) /\ decodes \in Seq(Seqs)
  BY Zenon DEF TypeOK
<1>3. \A c \in {seen, loads, sends, cancels, handoffs, failures, active, ended, fresh} :
         c \subseteq Transfers
  BY DEF TypeOK
<1>4. /\ loads \subseteq Transfers /\ sends \subseteq Transfers
      /\ cancels \subseteq Transfers /\ active \subseteq Transfers
      /\ ended \subseteq Transfers /\ fresh \subseteq Transfers
      /\ seen \subseteq Transfers /\ handoffs \subseteq Transfers
      /\ failures \subseteq Transfers
  BY <1>3, Zenon
<1> QED BY <1>1, <1>2, <1>4 DEF TypeOK, Statuses

\* A request has a prompt, which tokens follow.
LEMMA SeqFacts ==
    ASSUME TypeOK, NEW s \in Seqs
    PROVE  /\ NumPrompt(s) \in Nat \ {0} /\ MaxTokens[s] \in Nat \ {0}
           /\ NumTokens(s) \in Nat /\ tokens[s] \in Seq(Token) /\ cached[s] \in Nat
           /\ scheduled[s] \in Nat /\ BlockSize \in Nat \ {0}
           /\ Prompt[s] \in Seq(Token) /\ RequestId[s] \in Requests
           /\ Attempt[s] \in Transfers /\ s # NoSeq
           /\ Footprint(s) \in Nat /\ NumPrompt(s) <= Footprint(s)
           /\ NumTokens(s) >= NumPrompt(s) => tokens[s] # <<>>
<1>1. /\ tokens[s] \in Seq(Token) /\ cached[s] \in Nat /\ scheduled[s] \in Nat
      /\ BlockSize \in Nat \ {0}
  BY PoolAssumption DEF TypeOK, BlockTypeOK, KVTypeOK
<1>2. Prompt[s] \in Seq(Token) /\ Prompt[s] # <<>> /\ MaxTokens[s] \in Nat \ {0}
  BY RequestAssumption
<1>3. NumPrompt(s) \in Nat \ {0} /\ NumTokens(s) \in Nat
  BY <1>1, <1>2 DEF NumPrompt, NumTokens
<1>4. Footprint(s) \in Nat /\ NumPrompt(s) <= Footprint(s)
  BY <1>2, <1>3 DEF Footprint
<1>5. NumTokens(s) >= NumPrompt(s) => tokens[s] # <<>>
  BY <1>3 DEF NumTokens
<1>6. RequestId[s] \in Requests /\ Attempt[s] \in Transfers /\ s # NoSeq
  BY IdAssumption
<1> QED BY <1>1, <1>2, <1>3, <1>4, <1>5, <1>6

\* A sequence a step does not touch ...
LEMMA SizeKept ==
    ASSUME NEW q \in Seqs, SizeInv(q), config' = config,
           tokens'[q] = tokens[q], cached'[q] = cached[q], status'[q] = status[q],
           table'[q] = table[q], reserved'[q] = reserved[q], Alive(q)' <=> Alive(q)
    PROVE  SizeInv(q)'
<1>1. /\ Holding(q)' <=> Holding(q)
      /\ Unbegun(q)' <=> Unbegun(q)
  BY DEF Holding, Transferring, Unbegun, Decodes
<1>2. /\ NumTokens(q)' = NumTokens(q) /\ NumCompletion(q)' = NumCompletion(q)
      /\ IsPrefill(q)' <=> IsPrefill(q)
      /\ TotalBlocks(q)' = TotalBlocks(q) /\ Decodes' = Decodes
  BY DEF NumTokens, NumCompletion, IsPrefill, TotalBlocks, Footprint, Decodes, NumPrompt
<1> QED BY <1>1, <1>2 DEF SizeInv

\* ... and its transfer.
LEMMA TransferKept ==
    ASSUME NEW q \in Seqs, TransferInv(q), config' = config,
           status'[q] = status[q], Alive(q)' <=> Alive(q), table'[q] = table[q],
           Queued(Attempt[q])' <=> Queued(Attempt[q]),
           pending'[Attempt[q]] = pending[Attempt[q]],
           claims'[Attempt[q]] = claims[Attempt[q]],
           Attempt[q] \in fresh' <=> Attempt[q] \in fresh,
           Attempt[q] \in DOMAIN events' <=> Attempt[q] \in DOMAIN events,
           Attempt[q] \in ended' <=> Attempt[q] \in ended
    PROVE  TransferInv(q)'
<1>1. /\ Transferring(q)' <=> Transferring(q)
      /\ Unbegun(q)' <=> Unbegun(q)
      /\ Underway(Attempt[q])' <=> Underway(Attempt[q])
  BY DEF Transferring, Unbegun, Underway, Decodes
<1> QED BY <1>1 DEF TransferInv

\* The owners, when blocks move to one sequence from the queue or nowhere ...
LEMMA OwnFollows ==
    ASSUME OwnInv, PoolInv', NEW s \in Seqs,
           \A q \in Seqs \ {s} : table'[q] = table[q] /\ reserved'[q] = reserved[q],
           Held(s)' \subseteq Held(s) \cup Elems(free),
           Held(s)' # {} => Alive(s)' /\ status'[s] # "WAITING",
           \A q \in Seqs \ {s} : Alive(q) => Alive(q)',
           \A q \in Seqs \ {s} : status'[q] = status[q]
    PROVE  OwnInv'
<1>1. PoolInv /\ \A q \in Seqs : \A b \in Held(q) : b \notin Elems(free)
  <2>1. PoolInv
    BY DEF OwnInv
  <2> QED BY <2>1, FreeHasNoHolder
<1>2. \A q \in Seqs \ {s} : Held(q)' = Held(q)
  BY DEF Held, Elems
<1>3. \A q, r \in Seqs : q # r => Held(q)' \cap Held(r)' = {}
  <2> SUFFICES ASSUME NEW q \in Seqs, NEW r \in Seqs, q # r
               PROVE  Held(q)' \cap Held(r)' = {}
    OBVIOUS
  <2>1. \A x, y \in Seqs : x # y => Held(x) \cap Held(y) = {}
    BY DEF OwnInv
  <2>2. CASE q # s /\ r # s
    BY <1>2, <2>1, <2>2
  <2>3. CASE q = s
    BY <1>1, <1>2, <2>1, <2>3
  <2>4. CASE r = s
    BY <1>1, <1>2, <2>1, <2>4
  <2> QED BY <2>2, <2>3, <2>4
<1>4. \A q \in Seqs : Held(q)' # {} => Alive(q)' /\ status'[q] # "WAITING"
  <2> SUFFICES ASSUME NEW q \in Seqs, Held(q)' # {}
               PROVE  Alive(q)' /\ status'[q] # "WAITING"
    OBVIOUS
  <2>1. CASE q = s
    BY <2>1
  <2>2. CASE q # s
    <3>1. Held(q) # {}
      BY <1>2, <2>2
    <3>2. Alive(q) /\ status[q] # "WAITING"
      BY <3>1 DEF OwnInv
    <3> QED BY <2>2, <3>2
  <2> QED BY <2>1, <2>2
<1> QED BY <1>3, <1>4 DEF OwnInv

\* ... and when no blocks move.
LEMMA OwnKept ==
    ASSUME OwnInv, BlockTypeOK', UNCHANGED <<table, reserved, free, ref>>,
           \A s \in Seqs : Held(s) # {} => Alive(s)' /\ status'[s] # "WAITING"
    PROVE  OwnInv'
<1>1. PoolInv
  BY DEF OwnInv
<1>2. table' = table /\ reserved' = reserved /\ free' = free /\ ref' = ref
  OBVIOUS
<1>3. PoolInv'
  <2>1. FreeIsUnreferenced'
    BY <1>1, <1>2 DEF PoolInv, FreeIsUnreferenced, Blocks, Elems
  <2>2. \A b \in Blocks : Holders(b)' = Holders(b)
    BY <1>2 DEF Holders, Elems
  <2>3. RefsCount'
    <3>1. RefsCount
      BY <1>1 DEF PoolInv
    <3> QED BY <1>2, <2>2, <3>1 DEF RefsCount, Blocks
  <2>4. TablesDistinct'
    <3>1. \A q \in Seqs : Distinct(table[q] \o reserved[q])
      BY <1>1 DEF PoolInv, TablesDistinct
    <3> QED BY <1>2, <3>1 DEF TablesDistinct
  <2> QED BY <2>1, <2>3, <2>4 DEF PoolInv
<1>4. \A q \in Seqs : Held(q)' = Held(q)
  BY <1>2 DEF Held, Elems
<1>5. \A x, y \in Seqs : x # y => Held(x) \cap Held(y) = {}
  BY DEF OwnInv
<1>6. \A x, y \in Seqs : x # y => Held(x)' \cap Held(y)' = {}
  BY <1>4, <1>5
<1>7. \A q \in Seqs : Held(q)' # {} => Alive(q)' /\ status'[q] # "WAITING"
  BY <1>4
<1> QED BY <1>3, <1>6, <1>7 DEF OwnInv

-----------------------------------------------------------------------------
(* What a step changes                                                     *)

\* A queue follows one sequence whose status changes, and keeps its members when it
\* is turned.
LEMMA ListedFacts ==
    ASSUME NEW q \in Seq(Seqs), NEW name, NEW of \in [Seqs -> Statuses],
           Listed(q, name, of), NEW s \in Seqs, NEW to
    PROVE  LET new == [of EXCEPT ![s] = to] IN
           /\ of[s] # name => Listed(Append(q, s), name, [of EXCEPT ![s] = name])
           /\ to # name => Listed(Without(q, s), name, new)
           /\ to # name /\ of[s] # name => Listed(q, name, new)
           /\ of[s] # name => Listed(Without(q, s), name, of)
           /\ of[s] = name => Listed(Append(Without(q, s), s), name, of)
           /\ q # <<>> /\ s = Head(q) =>
                /\ of[s] = name /\ s \in Elems(q)
                /\ Listed(Append(Tail(q), s), name, of)
                /\ to # name => Listed(Tail(q), name, new)
<1> DEFINE new == [of EXCEPT ![s] = to]
           w   == Without(q, s)
<1>1. Distinct(q) /\ Elems(q) = {x \in Seqs : of[x] = name}
  BY DEF Listed
<1>2. /\ w \in Seq(Seqs) /\ Elems(w) = Elems(q) \ {s} /\ Distinct(w)
      /\ Elems(Append(q, s)) = Elems(q) \cup {s}
      /\ Distinct(Append(q, s)) <=> s \notin Elems(q)
  BY <1>1, WithoutFacts, OneMoreFacts
<1>3. Elems(Append(w, s)) = Elems(q) \cup {s} /\ Distinct(Append(w, s))
  <2> HIDE DEF w
  <2>1. /\ Elems(Append(w, s)) = Elems(w) \cup {s}
        /\ Distinct(Append(w, s)) <=> Distinct(w) /\ s \notin Elems(w)
    BY <1>2, OneMoreFacts
  <2> QED BY <1>2, <2>1
<1>4. new[s] = to /\ \A x \in Seqs \ {s} : new[x] = of[x]
  OBVIOUS
<1> HIDE DEF new, w
<1>5. ASSUME of[s] # name PROVE Listed(Append(q, s), name, [of EXCEPT ![s] = name])
  <2> DEFINE now == [of EXCEPT ![s] = name]
  <2>1. now[s] = name /\ \A x \in Seqs \ {s} : now[x] = of[x]
    OBVIOUS
  <2> HIDE DEF now
  <2>2. Listed(Append(q, s), name, now)
    BY <1>1, <1>2, <1>5, <2>1 DEF Listed
  <2> QED BY <2>2 DEF now
<1>6. ASSUME to # name PROVE Listed(w, name, new)
  BY <1>1, <1>2, <1>4, <1>6 DEF Listed
<1>7. ASSUME to # name, of[s] # name PROVE Listed(q, name, new)
  BY <1>1, <1>4, <1>7 DEF Listed
<1>8. ASSUME of[s] = name PROVE Listed(Append(w, s), name, of)
  BY <1>1, <1>3, <1>8 DEF Listed
<1>11. ASSUME of[s] # name PROVE Listed(w, name, of)
  BY <1>1, <1>2, <1>11 DEF Listed
<1>9. ASSUME q # <<>>, s = Head(q)
      PROVE  /\ of[s] = name /\ s \in Elems(q)
             /\ Listed(Append(Tail(q), s), name, of)
             /\ to # name => Listed(Tail(q), name, new)
  <2> DEFINE t == Tail(q)
  <2>1. /\ t \in Seq(Seqs) /\ Elems(q) = {s} \cup Elems(t)
        /\ Distinct(t) /\ s \notin Elems(t)
    BY <1>1, <1>9, TailFacts
  <2> HIDE DEF t
  <2>2. Elems(Append(t, s)) = Elems(q) /\ Distinct(Append(t, s))
    <3>1. /\ Elems(Append(t, s)) = Elems(t) \cup {s}
          /\ Distinct(Append(t, s)) <=> Distinct(t) /\ s \notin Elems(t)
      BY <2>1, OneMoreFacts
    <3> QED BY <2>1, <3>1
  <2>3. of[s] = name /\ s \in Elems(q)
    BY <1>1, <2>1
  <2>4. Listed(Append(t, s), name, of)
    BY <1>1, <2>2 DEF Listed
  <2>5. ASSUME to # name PROVE Listed(t, name, new)
    <3>1. Elems(t) = {x \in Seqs : new[x] = name}
      BY <1>1, <1>4, <2>1, <2>3, <2>5
    <3> QED BY <2>1, <3>1 DEF Listed
  <2> QED BY <2>3, <2>4, <2>5 DEF t
<1> QED BY <1>5, <1>6, <1>7, <1>8, <1>9, <1>11 DEF new, w

\* So does the set of requests that wait for their KV, which are all alive.
LEMMA RemoteFacts ==
    ASSUME QueueInv, LifeInv, NEW s \in Seqs, Alive(s),
           status \in [Seqs -> Statuses], NEW to, status' = [status EXCEPT ![s] = to]
    PROVE  LET now == {RequestId[x] : x \in {q \in Seqs : status'[q] = "REMOTE"}} IN
           /\ to = "REMOTE" => now = remote \cup {RequestId[s]}
           /\ to # "REMOTE" => now = remote \ {RequestId[s]}
           /\ status[s] # "REMOTE" => RequestId[s] \notin remote
<1>1. remote = {RequestId[x] : x \in {q \in Seqs : status[q] = "REMOTE"}}
  BY DEF QueueInv
<1>2. \A q \in Seqs : status[q] = "REMOTE" /\ RequestId[q] = RequestId[s] => q = s
  BY DEF LifeInv, Alive
<1>3. status'[s] = to /\ \A x \in Seqs \ {s} : status'[x] = status[x]
  OBVIOUS
<1> QED BY <1>1, <1>2, <1>3

\* What _release_pd does to an alive request, and that it concerns no other.
LEMMA ReleaseFacts ==
    ASSUME TypeOK, OwnInv, EntriesInv, NEW s \in Seqs, Alive(s), Release(s),
           tokens' \in [Seqs -> Seq(Token)], cached' \in [Seqs -> Nat],
           hash' = hash, index' = index
    PROVE  /\ OwnInv' /\ EntriesInv' /\ BlockTypeOK'
           /\ ~Alive(s)' /\ Held(s)' = {}
           /\ \A q \in Seqs \ {s} : /\ Alive(q)' <=> Alive(q)
                                    /\ table'[q] = table[q] /\ reserved'[q] = reserved[q]
           /\ requests' \in [Requests -> Seqs \cup {NoSeq}]
           /\ status' = [status EXCEPT ![s] = "FINISHED"]
           /\ remote' = remote \ {RequestId[s]} /\ cancelled' = cancelled \ {RequestId[s]}
<1>1. /\ remote' = remote \ {RequestId[s]}
      /\ requests' = [requests EXCEPT ![RequestId[s]] = NoSeq]
      /\ cancelled' = cancelled \ {RequestId[s]}
      /\ status' = [status EXCEPT ![s] = "FINISHED"]
      /\ Deallocate(s, hash)
  BY DEF Release
<1>2. /\ requests \in [Requests -> Seqs \cup {NoSeq}] /\ BlockTypeOK
      /\ status \in [Seqs -> Statuses]
  BY TypeFacts
<1>3. RequestId \in [Seqs -> Requests] /\ NoSeq \notin Seqs
  BY IdAssumption
<1>4. PoolInv /\ hash' \in [Blocks -> Seq(Token)] /\ index' \subseteq Seq(Token) \X Blocks
  BY <1>2 DEF OwnInv, BlockTypeOK
<1>5. /\ PoolInv' /\ Held(s)' = {}
      /\ \A q \in Seqs \ {s} : table'[q] = table[q] /\ reserved'[q] = reserved[q]
  BY <1>1, <1>4, DeallocatePool
<1>6. requests' \in [Requests -> Seqs \cup {NoSeq}]
  BY <1>1, <1>2
<1>7. ~Alive(s)'
  BY <1>1, <1>2, <1>3 DEF Alive
<1>8. \A q \in Seqs \ {s} : Alive(q)' <=> Alive(q)
  BY <1>1, <1>2, <1>3 DEF Alive
<1>9. \A q \in Seqs \ {s} : status'[q] = status[q]
  BY <1>1, <1>2
<1>10. OwnInv'
  BY <1>5, <1>8, <1>9, OwnFollows
<1>11. EntriesInv'
  <2> SUFFICES ASSUME NEW r \in Requests, requests'[r] # NoSeq
               PROVE  RequestId[requests'[r]] = r /\ status'[requests'[r]] # "NEW"
    BY DEF EntriesInv
  <2>1. r # RequestId[s] /\ requests'[r] = requests[r]
    BY <1>1, <1>2, <1>3
  <2>2. RequestId[requests[r]] = r /\ status[requests[r]] # "NEW" /\ requests[r] \in Seqs
    BY <1>2, <2>1 DEF EntriesInv
  <2>3. requests[r] # s
    BY <2>1, <2>2
  <2> QED BY <1>9, <2>1, <2>2, <2>3
<1>12. BlockTypeOK'
  BY <1>5 DEF PoolInv
<1> QED BY <1>1, <1>5, <1>6, <1>7, <1>8, <1>10, <1>11, <1>12

-----------------------------------------------------------------------------
(* Steps that only move the loops                                          *)

\* The requests, when a step changes nothing of them ...
LEMMA RequestsKept ==
    ASSUME TypeOK, OwnInv, EntriesInv, QueueInv, LifeInv, \A s \in Seqs : SizeInv(s),
           UNCHANGED <<waiting, running, status, requests, remote, cancelled, tokens, cached,
                       table, reserved, free, ref, hash, index, config>>
    PROVE  /\ BlockTypeOK' /\ OwnInv' /\ EntriesInv' /\ QueueInv' /\ LifeInv'
           /\ \A s \in Seqs : SizeInv(s)' /\ (Alive(s)' <=> Alive(s))
<1>1. /\ waiting' = waiting /\ running' = running /\ status' = status
      /\ requests' = requests /\ remote' = remote /\ cancelled' = cancelled
      /\ tokens' = tokens /\ cached' = cached /\ table' = table /\ reserved' = reserved
      /\ free' = free /\ ref' = ref /\ hash' = hash /\ index' = index /\ config' = config
  OBVIOUS
<1>2. BlockTypeOK'
  <2>1. BlockTypeOK
    BY TypeFacts
  <2> QED BY <1>1, <2>1 DEF BlockTypeOK, Blocks
<1>3. \A s \in Seqs : Alive(s)' <=> Alive(s)
  BY <1>1 DEF Alive
<1>4. OwnInv'
  <2>1. \A s \in Seqs : Held(s) # {} => Alive(s)' /\ status'[s] # "WAITING"
    BY <1>1, <1>3 DEF OwnInv
  <2>2. UNCHANGED <<table, reserved, free, ref>>
    BY <1>1
  <2> QED BY <1>2, <2>1, <2>2, OwnKept
<1>5. EntriesInv'
  BY <1>1 DEF EntriesInv
<1>6. QueueInv'
  <2>1. Listed(waiting, "WAITING", status)' /\ Listed(running, "RUNNING", status)'
    BY <1>1 DEF QueueInv, Listed, Distinct, Elems
  <2> QED BY <1>1, <2>1 DEF QueueInv
<1>7. LifeInv'
  BY <1>1 DEF LifeInv, Alive, Decodes, Transferring
<1>8. \A s \in Seqs : SizeInv(s)'
  BY <1>1, <1>3, SizeKept
<1> QED BY <1>2, <1>3, <1>4, <1>5, <1>6, <1>7, <1>8

\* ... and their transfers.
LEMMA TransfersKept ==
    ASSUME \A s \in Seqs : TransferInv(s), EventInv,
           UNCHANGED <<status, requests, table, config, loads, sends, active, pending,
                       claims, fresh, events, ended>>,
           pc' \notin {"post", "events"} => pc \notin {"post", "events"}
    PROVE  (\A s \in Seqs : TransferInv(s)') /\ EventInv'
<1>1. /\ status' = status /\ requests' = requests /\ table' = table /\ config' = config
      /\ loads' = loads /\ sends' = sends /\ active' = active /\ pending' = pending
      /\ claims' = claims /\ fresh' = fresh /\ events' = events /\ ended' = ended
  OBVIOUS
<1>2. \A t : Queued(t)' <=> Queued(t)
  BY <1>1 DEF Queued
<1>3. \A s \in Seqs : Alive(s)' <=> Alive(s)
  BY <1>1 DEF Alive
<1>4. \A s \in Seqs : TransferInv(s)'
  BY <1>1, <1>2, <1>3, TransferKept
<1>5. EventInv'
  BY <1>1, <1>2 DEF EventInv
<1> QED BY <1>4, <1>5

\* The invariant of an open engine from its parts ...
LEMMA PDInvMade ==
    ASSUME TypeOK', IsFiniteSet(remote'), OwnInv', EntriesInv',
           pc' \notin {"closing", "closed"},
           \A s \in Seqs : SizeInv(s)', \A s \in Seqs : TransferInv(s)',
           QueueInv', BatchInv', LifeInv', EventInv'
    PROVE  PDInv'
BY DEF PDInv, OpenInv, Closing

\* ... and its parts.
LEMMA OpenFacts ==
    ASSUME PDInv, pc \notin {"closing", "closed"}
    PROVE  /\ TypeOK /\ IsFiniteSet(remote) /\ OwnInv /\ EntriesInv
           /\ \A s \in Seqs : SizeInv(s)
           /\ \A s \in Seqs : TransferInv(s)
           /\ QueueInv /\ BatchInv /\ LifeInv /\ EventInv
BY DEF PDInv, OpenInv, Closing

\* A step of a loop that leaves the requests and the transfers alone.
LEMMA LoopStep ==
    ASSUME PDInv, pc \notin {"closing", "closed"}, pc' \notin {"closing", "closed"},
           BatchInv', TypeOK',
           UNCHANGED <<queueVars, requestVars, commandVars, workerVars, bmVars, config>>,
           pc' \notin {"post", "events"} => pc \notin {"post", "events"}
    PROVE  PDInv'
<1>1. /\ TypeOK /\ IsFiniteSet(remote) /\ OwnInv /\ EntriesInv
      /\ \A s \in Seqs : SizeInv(s)
      /\ \A s \in Seqs : TransferInv(s)
      /\ QueueInv /\ LifeInv /\ EventInv
  BY OpenFacts
<1>2. UNCHANGED <<waiting, running, status, requests, remote, cancelled, tokens, cached,
                  table, reserved, free, ref, hash, index, config>>
  BY DEF queueVars, requestVars, bmVars, blockVars
<1>3. UNCHANGED <<status, requests, table, config, loads, sends, active, pending,
                  claims, fresh, events, ended>>
  BY DEF queueVars, requestVars, bmVars, commandVars, workerVars
<1>4. /\ OwnInv' /\ EntriesInv' /\ QueueInv' /\ LifeInv'
      /\ \A s \in Seqs : SizeInv(s)'
  BY <1>1, <1>2, RequestsKept
<1>5. (\A s \in Seqs : TransferInv(s)') /\ EventInv'
  BY <1>1, <1>3, TransfersKept
<1>6. IsFiniteSet(remote')
  BY <1>1, <1>2
<1> QED BY <1>4, <1>5, <1>6, PDInvMade

\* TypeOK from its parts.
LEMMA TypeMade ==
    ASSUME config' \in Configs, BlockTypeOK', KVTypeOK',
           pc' \in {"idle", "admit", "batch", "execute", "post", "events", "closing",
                    "closed"},
           waiting' \in Seq(Seqs), running' \in Seq(Seqs), todo' \in Seq(Seqs),
           prefills' \in Seq(Seqs), decodes' \in Seq(Seqs),
           status' \in [Seqs -> Statuses],
           requests' \in [Requests -> Seqs \cup {NoSeq}],
           remote' \subseteq Requests, cancelled' \subseteq Requests,
           pending' \in [Transfers -> Requests \cup {NoRequest}],
           claims' \in [Transfers -> Seq(Blocks)],
           loads' \subseteq Transfers, sends' \subseteq Transfers,
           cancels' \subseteq Transfers, active' \subseteq Transfers,
           ended' \subseteq Transfers, fresh' \subseteq Transfers,
           seen' \subseteq Transfers, handoffs' \subseteq Transfers,
           failures' \subseteq Transfers,
           DOMAIN events' \subseteq Transfers,
           \A t \in DOMAIN events' : events'[t] \in Outcomes,
           budget' \in 0 .. MaxBatchedTokens',
           Len(running') + Cardinality(remote') <= MaxNumSeqs'
    PROVE  TypeOK'
<1>1. \A q \in {waiting', running', prefills', decodes', todo'} : q \in Seq(Seqs)
  BY Zenon
<1>2. \A c \in {seen', loads', sends', cancels', handoffs', failures', active', ended',
                fresh'} :
         c \subseteq Transfers
  BY Zenon
<1>3. claims' \in [Transfers -> Seq(Blocks')]
  BY DEF Blocks
<1> QED BY <1>1, <1>2, <1>3, Zenon DEF TypeOK, Statuses

\* The types after a step that leaves the requests and the transfers alone.
LEMMA LoopTypes ==
    ASSUME TypeOK,
           UNCHANGED <<queueVars, requestVars, commandVars, workerVars, bmVars, config>>,
           KVTypeOK',
           pc' \in {"idle", "admit", "batch", "execute", "post", "events"},
           todo' \in Seq(Seqs), prefills' \in Seq(Seqs), decodes' \in Seq(Seqs),
           budget' \in 0 .. MaxBatchedTokens
    PROVE  TypeOK'
<1>1. /\ waiting' = waiting /\ running' = running /\ status' = status
      /\ requests' = requests /\ remote' = remote /\ cancelled' = cancelled
      /\ seen' = seen /\ handoffs' = handoffs /\ failures' = failures
      /\ pending' = pending /\ loads' = loads /\ sends' = sends /\ cancels' = cancels
      /\ claims' = claims /\ active' = active /\ ended' = ended /\ events' = events
      /\ fresh' = fresh /\ config' = config
      /\ tokens' = tokens /\ cached' = cached /\ table' = table /\ reserved' = reserved
      /\ free' = free /\ ref' = ref /\ hash' = hash /\ index' = index
  BY DEF queueVars, requestVars, commandVars, workerVars, bmVars, blockVars
<1>2. BlockTypeOK'
  <2>1. BlockTypeOK
    BY TypeFacts
  <2> QED BY <1>1, <2>1 DEF BlockTypeOK, Blocks
<1>3. MaxNumSeqs' = MaxNumSeqs /\ MaxBatchedTokens' = MaxBatchedTokens
  BY <1>1 DEF MaxNumSeqs, MaxBatchedTokens
<1>4. /\ config \in Configs /\ \A t \in DOMAIN events : events[t] \in Outcomes
      /\ Len(running) + Cardinality(remote) <= MaxNumSeqs
  BY DEF TypeOK
<1> QED BY <1>1, <1>2, <1>3, <1>4, TypeFacts, TypeMade, Zenon

\* The end of a loop and its start.
LEMMA BeginStepInv == ASSUME PDInv, BeginStep PROVE PDInv'
<1>1. /\ pc = "idle" /\ pc' = "admit" /\ todo' = waiting
      /\ prefills' = <<>> /\ decodes' = <<>> /\ budget' = MaxBatchedTokens
      /\ UNCHANGED <<queueVars, requestVars, commandVars, workerVars, bmVars, scheduled,
                     kv, config>>
  BY DEF BeginStep
<1>2. TypeOK
  BY DEF PDInv
<1>3. TypeOK'
  <2>1. /\ todo' \in Seq(Seqs) /\ prefills' \in Seq(Seqs) /\ decodes' \in Seq(Seqs)
        /\ budget' \in 0 .. MaxBatchedTokens
    BY <1>1, <1>2, TypeFacts
  <2>2. KVTypeOK'
    BY <1>1, <1>2, TypeFacts DEF KVTypeOK, Blocks
  <2> QED BY <1>1, <1>2, <2>1, <2>2, LoopTypes
<1>4. BatchInv'
  <2>1. waiting' = waiting /\ waiting \in Seq(Seqs)
    BY <1>1, <1>2, TypeFacts DEF queueVars
  <2> QED BY <1>1, <2>1 DEF BatchInv
<1> QED BY <1>1, <1>3, <1>4, LoopStep

\* The candidates of the batch are the running requests.
LEMMA EndAdmitInv == ASSUME PDInv, EndAdmit PROVE PDInv'
<1>1. /\ pc = "admit" /\ pc' = "batch" /\ todo' = Candidates
      /\ prefills' = prefills /\ decodes' = decodes /\ budget' = budget
      /\ UNCHANGED <<queueVars, requestVars, commandVars, workerVars, bmVars, scheduled,
                     kv, config>>
  BY DEF EndAdmit
<1>2. TypeOK /\ BatchInv /\ QueueInv
  BY <1>1, OpenFacts
<1>3. /\ Candidates \in Seq(Seqs) /\ Distinct(Candidates)
      /\ Elems(Candidates) \subseteq Elems(running)
  <2> DEFINE S == {s \in Seqs : IsPrefill(s)}
             p == Kept(running, Seqs \ S)
             q == Kept(running, S)
  <2>1. running \in Seq(Seqs) /\ Distinct(running) /\ Elems(running) \subseteq Seqs
    BY <1>2, TypeFacts DEF QueueInv, Listed
  <2> HIDE DEF S
  <2>2. /\ p \in Seq(Seqs) /\ Distinct(p) /\ Elems(p) = Elems(running) \cap (Seqs \ S)
        /\ q \in Seq(Seqs) /\ Distinct(q) /\ Elems(q) = Elems(running) \cap S
    BY <2>1, KeptFacts
  <2>3. Candidates = p \o q
    BY DEF Candidates, S
  <2> HIDE DEF p, q
  <2>4. Elems(p) \cap Elems(q) = {} /\ Elems(p) \cup Elems(q) \subseteq Elems(running)
    BY <2>2
  <2> QED BY <2>2, <2>3, <2>4, ConcatFacts
<1>4. prefills = <<>> /\ decodes = <<>> /\ running' = running
  BY <1>1, <1>2 DEF BatchInv, queueVars
<1>5. TypeOK'
  <2>1. /\ todo' \in Seq(Seqs) /\ prefills' \in Seq(Seqs) /\ decodes' \in Seq(Seqs)
        /\ budget' \in 0 .. MaxBatchedTokens
    BY <1>1, <1>2, <1>3, TypeFacts
  <2>2. KVTypeOK'
    BY <1>1, <1>2, TypeFacts DEF KVTypeOK, Blocks
  <2> QED BY <1>1, <1>2, <2>1, <2>2, LoopTypes
<1>6. BatchInv'
  <2>1. /\ Distinct(prefills') /\ Distinct(decodes')
        /\ Elems(prefills') = {} /\ Elems(decodes') = {}
    BY <1>1, <1>4 DEF Distinct, Elems
  <2>2. Elems(running)' = Elems(running) /\ Elems(todo') = Elems(Candidates)
    BY <1>1, <1>4 DEF Elems
  <2>3. Elems(todo') \subseteq Elems(running') /\ Distinct(todo')
    BY <1>1, <1>3, <1>4
  <2> QED BY <1>1, <2>1, <2>3 DEF BatchInv
<1> QED BY <1>1, <1>5, <1>6, LoopStep

\* The batch is complete.
LEMMA EndBatchInv == ASSUME PDInv, EndBatch PROVE PDInv'
<1>1. /\ pc = "batch" /\ pc' = "execute"
      /\ UNCHANGED <<queueVars, requestVars, commandVars, workerVars, batchVars, bmVars,
                     scheduled, kv, config>>
  BY DEF EndBatch
<1>2. TypeOK /\ BatchInv
  BY <1>1, OpenFacts
<1>3. /\ todo' = todo /\ prefills' = prefills /\ decodes' = decodes /\ budget' = budget
      /\ running' = running /\ cached' = cached /\ scheduled' = scheduled
      /\ cancelled' = cancelled
  BY <1>1 DEF batchVars, queueVars, bmVars, requestVars
<1>4. TypeOK'
  <2>1. KVTypeOK'
    BY <1>1, <1>2, TypeFacts DEF KVTypeOK, Blocks
  <2> QED BY <1>1, <1>2, <1>3, <2>1, TypeFacts, LoopTypes
<1>5. BatchInv'
  BY <1>1, <1>2, <1>3 DEF BatchInv
<1> QED BY <1>1, <1>4, <1>5, LoopStep

\* The batch is done with.
LEMMA EndPostInv == ASSUME PDInv, EndPost PROVE PDInv'
<1>1. /\ pc = "post" /\ pc' = "events"
      /\ UNCHANGED <<queueVars, requestVars, commandVars, workerVars, batchVars, bmVars,
                     scheduled, kv, config>>
  BY DEF EndPost
<1>2. TypeOK
  BY <1>1, OpenFacts
<1>3. todo' = todo /\ prefills' = prefills /\ decodes' = decodes /\ budget' = budget
  BY <1>1 DEF batchVars
<1>4. TypeOK'
  <2>1. KVTypeOK'
    BY <1>1, <1>2, TypeFacts DEF KVTypeOK, Blocks
  <2> QED BY <1>1, <1>2, <1>3, <2>1, TypeFacts, LoopTypes
<1>5. BatchInv'
  BY <1>1 DEF BatchInv
<1> QED BY <1>1, <1>4, <1>5, LoopStep

\* A candidate has to wait for the next step.
LEMMA BatchSkipInv == ASSUME PDInv, NEW s \in Seqs, BatchSkip(s) PROVE PDInv'
<1>1. /\ pc = "batch" /\ todo # <<>> /\ todo' = Tail(todo) /\ pc' = pc
      /\ prefills' = prefills /\ decodes' = decodes /\ budget' = budget
      /\ UNCHANGED <<queueVars, requestVars, commandVars, workerVars, bmVars, scheduled,
                     kv, config>>
  BY DEF BatchSkip, NextCandidate
<1>2. TypeOK /\ BatchInv
  BY <1>1, OpenFacts
<1>3. /\ todo \in Seq(Seqs) /\ todo' \in Seq(Seqs) /\ Distinct(todo')
      /\ Elems(todo') \subseteq Elems(todo)
  <2>1. todo \in Seq(Seqs) /\ Distinct(todo)
    BY <1>1, <1>2, TypeFacts DEF BatchInv
  <2> DEFINE t == Tail(todo)
  <2>2. t \in Seq(Seqs) /\ Distinct(t) /\ Elems(todo) = {Head(todo)} \cup Elems(t)
    BY <1>1, <2>1, TailFacts
  <2>3. todo' = t
    BY <1>1
  <2> HIDE DEF t
  <2> QED BY <2>1, <2>2, <2>3
<1>4. running' = running /\ cached' = cached /\ scheduled' = scheduled
      /\ cancelled' = cancelled
  BY <1>1 DEF queueVars, bmVars, requestVars
<1>5. TypeOK'
  <2>1. KVTypeOK'
    BY <1>1, <1>2, TypeFacts DEF KVTypeOK, Blocks
  <2>2. /\ prefills' \in Seq(Seqs) /\ decodes' \in Seq(Seqs)
        /\ budget' \in 0 .. MaxBatchedTokens
    BY <1>1, <1>2, TypeFacts
  <2>3. pc' \in {"idle", "admit", "batch", "execute", "post", "events"}
    BY <1>1
  <2>4. UNCHANGED <<queueVars, requestVars, commandVars, workerVars, bmVars, config>>
    BY <1>1
  <2> QED BY <1>2, <1>3, <2>1, <2>2, <2>3, <2>4, LoopTypes
<1>6. BatchInv'
  BY <1>1, <1>2, <1>3, <1>4 DEF BatchInv
<1> QED BY <1>1, <1>5, <1>6, LoopStep

-----------------------------------------------------------------------------
(* What follows a change of one request                                    *)

\* The life of s goes on with another status.
LEMMA StatusLife ==
    ASSUME TypeOK, EntriesInv, LifeInv, NEW s \in Seqs, NEW to \in Statuses,
           status' = [status EXCEPT ![s] = to],
           config' = config, requests' = requests, cancelled' = cancelled,
           to \in {"WAITING", "REMOTE", "RUNNING"} => Alive(s),
           to = "REMOTE" => Decodes, to = "FINISHED" => ~Decodes,
           RequestId[s] \in cancelled /\ Alive(s) =>
              to = "REMOTE" \/ (to = "FINISHED" /\ Alive(s))
    PROVE  LifeInv'
<1>1. status'[s] = to /\ \A q \in Seqs \ {s} : status'[q] = status[q]
  BY TypeFacts
<1>2. (Decodes' <=> Decodes) /\ \A q : Alive(q)' <=> Alive(q)
  BY DEF Decodes, Alive
<1>3. \A q \in Seqs : /\ status[q] \in {"WAITING", "REMOTE", "RUNNING"} => Alive(q)
                      /\ status[q] = "REMOTE" => Decodes
                      /\ status[q] = "FINISHED" /\ Alive(q) => ~Decodes
  BY DEF LifeInv
<1>4. ASSUME NEW q \in Seqs
      PROVE  /\ status'[q] \in {"WAITING", "REMOTE", "RUNNING"} => Alive(q)'
             /\ status'[q] = "REMOTE" => Decodes'
             /\ status'[q] = "FINISHED" /\ Alive(q)' => ~Decodes'
  <2>1. CASE q = s
    BY <1>1, <1>2, <2>1
  <2>2. CASE q # s
    <3>1. status'[q] = status[q]
      BY <1>1, <2>2
    <3> QED BY <1>2, <1>3, <3>1
  <2> QED BY <2>1, <2>2
<1>5. ASSUME NEW r \in cancelled PROVE requests[r] # NoSeq /\ Transferring(requests[r])'
  <2>1. /\ requests[r] # NoSeq /\ Transferring(requests[r]) /\ requests[r] \in Seqs
    BY TypeFacts DEF LifeInv
  <2>2. CASE requests[r] = s
    <3>1. RequestId[s] = r
      BY <2>1, <2>2, TypeFacts DEF EntriesInv
    <3>2. Alive(s) /\ RequestId[s] \in cancelled
      BY <2>2, <3>1 DEF Alive
    <3> QED BY <1>1, <1>2, <2>1, <2>2, <3>2 DEF Transferring
  <2>3. CASE requests[r] # s
    BY <1>1, <1>2, <2>1, <2>3 DEF Transferring
  <2> QED BY <2>1, <2>2, <2>3
<1> QED BY <1>4, <1>5 DEF LifeInv

\* The sizes and the transfers of all sequences but s.
LEMMA OthersKept ==
    ASSUME NEW s \in Seqs, \A q \in Seqs : SizeInv(q) /\ TransferInv(q), config' = config,
           \A q \in Seqs \ {s} :
              /\ tokens'[q] = tokens[q] /\ cached'[q] = cached[q] /\ status'[q] = status[q]
              /\ table'[q] = table[q] /\ reserved'[q] = reserved[q]
              /\ Alive(q)' <=> Alive(q),
           \A t \in Transfers \ {Attempt[s]} :
              /\ Queued(t)' <=> Queued(t)
              /\ pending'[t] = pending[t] /\ claims'[t] = claims[t]
              /\ t \in fresh' <=> t \in fresh,
           events' = events, ended' = ended
    PROVE  \A q \in Seqs \ {s} : SizeInv(q)' /\ TransferInv(q)'
<1> SUFFICES ASSUME NEW q \in Seqs \ {s} PROVE SizeInv(q)' /\ TransferInv(q)'
  OBVIOUS
<1>1. Attempt[q] \in Transfers \ {Attempt[s]}
  BY IdAssumption
<1>2. /\ tokens'[q] = tokens[q] /\ cached'[q] = cached[q] /\ status'[q] = status[q]
      /\ table'[q] = table[q] /\ reserved'[q] = reserved[q]
      /\ Alive(q)' <=> Alive(q) /\ SizeInv(q) /\ TransferInv(q)
  OBVIOUS
<1>3. /\ Queued(Attempt[q])' <=> Queued(Attempt[q])
      /\ pending'[Attempt[q]] = pending[Attempt[q]]
      /\ claims'[Attempt[q]] = claims[Attempt[q]]
      /\ Attempt[q] \in fresh' <=> Attempt[q] \in fresh
      /\ Attempt[q] \in DOMAIN events' <=> Attempt[q] \in DOMAIN events
      /\ Attempt[q] \in ended' <=> Attempt[q] \in ended
  BY <1>1
<1>4. SizeInv(q)'
  BY <1>2, SizeKept
<1>5. TransferInv(q)'
  BY <1>2, <1>3, TransferKept
<1> QED BY <1>4, <1>5

\* The events, when at most the transfer of s begins.
LEMMA EventsKept ==
    ASSUME EventInv, NEW s \in Seqs, events' = events, ended' = ended, fresh' \subseteq fresh,
           pc' \notin {"post", "events"} => pc \notin {"post", "events"},
           \A t : Queued(t)' => Queued(t) \/ (t = Attempt[s] /\ t \notin ended),
           \A t \in Transfers : pending'[t] # NoRequest =>
                                   pending[t] # NoRequest \/ t = Attempt[s]
    PROVE  EventInv'
<1>1. /\ fresh \subseteq DOMAIN events /\ DOMAIN events \subseteq ended
      /\ pc \notin {"post", "events"} => DOMAIN events = {}
      /\ \A t \in ended : ~Queued(t)
      /\ \A t \in Transfers : Queued(t) \/ t \in ended \/ pending[t] # NoRequest =>
            \E q \in Seqs : Attempt[q] = t
  BY DEF EventInv
<1>2. /\ fresh' \subseteq DOMAIN events' /\ DOMAIN events' \subseteq ended'
      /\ pc' \notin {"post", "events"} => DOMAIN events' = {}
  BY <1>1
<1>3. \A t \in ended' : ~Queued(t)'
  BY <1>1
<1>4. \A t \in Transfers : Queued(t)' \/ t \in ended' \/ pending'[t] # NoRequest =>
            \E q \in Seqs : Attempt[q] = t
  BY <1>1
<1> QED BY <1>2, <1>3, <1>4 DEF EventInv

\* The invariant, when only s and its transfer have changed.
LEMMA OneChanged ==
    ASSUME PDInv, pc \notin {"closing", "closed"}, pc' = pc, NEW s \in Seqs,
           config' = config, TypeOK', IsFiniteSet(remote'), OwnInv', EntriesInv',
           \A q \in Seqs \ {s} :
              /\ tokens'[q] = tokens[q] /\ cached'[q] = cached[q] /\ status'[q] = status[q]
              /\ table'[q] = table[q] /\ reserved'[q] = reserved[q]
              /\ Alive(q)' <=> Alive(q),
           \A t \in Transfers \ {Attempt[s]} :
              /\ pending'[t] = pending[t] /\ claims'[t] = claims[t]
              /\ t \in fresh' <=> t \in fresh,
           Attempt[s] \in fresh' => Attempt[s] \in fresh,
           loads' \in {loads, loads \cup {Attempt[s]}},
           sends' \in {sends, sends \cup {Attempt[s]}},
           loads' # loads \/ sends' # sends => Attempt[s] \notin ended,
           active' = active, events' = events, ended' = ended,
           SizeInv(s)', TransferInv(s)', QueueInv', BatchInv', LifeInv'
    PROVE  PDInv'
<1>1. /\ TypeOK /\ EventInv
      /\ \A q \in Seqs : SizeInv(q)
      /\ \A q \in Seqs : TransferInv(q)
  BY OpenFacts
<1>2. \A q \in Seqs : SizeInv(q) /\ TransferInv(q)
  BY <1>1
<1>3. \A t : /\ t # Attempt[s] => (Queued(t)' <=> Queued(t))
             /\ Queued(t)' => Queued(t) \/ (t = Attempt[s] /\ t \notin ended)
  BY DEF Queued
<1>4. \A q \in Seqs \ {s} : SizeInv(q)' /\ TransferInv(q)'
  <2>1. \A t \in Transfers \ {Attempt[s]} :
              /\ Queued(t)' <=> Queued(t)
              /\ pending'[t] = pending[t] /\ claims'[t] = claims[t]
              /\ t \in fresh' <=> t \in fresh
    BY <1>3
  <2> QED BY <1>2, <2>1, OthersKept
<1>5. EventInv'
  <2>1. fresh \subseteq Transfers /\ fresh' \subseteq Transfers
    BY <1>1, TypeFacts DEF TypeOK
  <2>2. fresh' \subseteq fresh
    BY <2>1
  <2>3. \A t \in Transfers : pending'[t] # NoRequest =>
                                pending[t] # NoRequest \/ t = Attempt[s]
    OBVIOUS
  <2> QED BY <1>1, <1>3, <2>2, <2>3, EventsKept
<1>6. (\A q \in Seqs : SizeInv(q)') /\ (\A q \in Seqs : TransferInv(q)')
  BY <1>4
<1> QED BY <1>5, <1>6, PDInvMade

-----------------------------------------------------------------------------
(* Admission                                                               *)

\* The request the admission loop looks at is the first waiting one, which has
\* nothing yet.
LEMMA NextAdmitFacts ==
    ASSUME PDInv, NEW s \in Seqs, NextAdmit(s)
    PROVE  /\ pc = "admit" /\ waiting # <<>> /\ s = Head(waiting) /\ status[s] = "WAITING"
           /\ Alive(s) /\ Unbegun(s) /\ tokens[s] = Prompt[s] /\ IsPrefill(s)
           /\ prefills = <<>> /\ decodes = <<>> /\ RequestId[s] \notin cancelled
           /\ ~Queued(Attempt[s]) /\ Attempt[s] \notin ended
           /\ pending[Attempt[s]] = NoRequest
           /\ Tail(todo) \in Seq(Seqs) /\ Tail(waiting) \in Seq(Seqs)
           /\ Append(Tail(waiting), s) \in Seq(Seqs)
           /\ \A w \in {Tail(waiting), Append(Tail(waiting), s)} :
                /\ Len(Tail(todo)) <= Len(w)
                /\ \A i \in 1 .. Len(Tail(todo)) : Tail(todo)[i] = w[i]
<1>1. /\ pc = "admit" /\ todo # <<>> /\ s = Head(todo)
  BY DEF NextAdmit
<1>2. /\ TypeOK /\ QueueInv /\ BatchInv /\ LifeInv /\ SizeInv(s) /\ TransferInv(s)
      /\ todo \in Seq(Seqs) /\ waiting \in Seq(Seqs)
      /\ requests \in [Requests -> Seqs \cup {NoSeq}]
  BY <1>1, OpenFacts, TypeFacts
<1>3. /\ Len(todo) <= Len(waiting) /\ prefills = <<>> /\ decodes = <<>>
      /\ \A i \in 1 .. Len(todo) : todo[i] = waiting[i]
  BY <1>1, <1>2 DEF BatchInv
<1>4. Len(todo) \in Nat \ {0} /\ Len(waiting) \in Nat \ {0} /\ waiting # <<>>
  BY <1>1, <1>2, <1>3
<1>5. s = Head(waiting) /\ 1 \in 1 .. Len(waiting) /\ s = waiting[1]
  BY <1>1, <1>2, <1>3, <1>4
<1>6. status[s] = "WAITING"
  BY <1>2, <1>5 DEF QueueInv, Listed, Elems
<1>7. Alive(s) /\ Unbegun(s)
  BY <1>2, <1>6 DEF LifeInv, Unbegun
<1>8. RequestId[s] \notin cancelled
  <2> SUFFICES ASSUME RequestId[s] \in cancelled PROVE FALSE
    OBVIOUS
  <2>1. Transferring(requests[RequestId[s]])
    BY <1>2 DEF LifeInv
  <2> QED BY <1>6, <1>7, <2>1 DEF Transferring, Alive
<1>9. tokens[s] = Prompt[s] /\ IsPrefill(s)
  BY <1>2, <1>6, <1>7 DEF SizeInv
<1>10. ~Queued(Attempt[s]) /\ Attempt[s] \notin ended /\ pending[Attempt[s]] = NoRequest
  BY <1>2, <1>7 DEF TransferInv
<1> DEFINE t == Tail(todo)
           u == Tail(waiting)
           v == Append(u, s)
<1>11. /\ t \in Seq(Seqs) /\ Len(t) = Len(todo) - 1
       /\ \A i \in 1 .. Len(todo) - 1 : t[i] = todo[i + 1]
  BY <1>1, <1>2, TailFacts
<1>12. /\ u \in Seq(Seqs) /\ Len(u) = Len(waiting) - 1
       /\ \A i \in 1 .. Len(waiting) - 1 : u[i] = waiting[i + 1]
  BY <1>2, <1>4, TailFacts
<1> HIDE DEF t, u
<1>13. /\ v \in Seq(Seqs) /\ Len(v) = Len(waiting)
       /\ \A i \in 1 .. Len(waiting) - 1 : v[i] = u[i]
  BY <1>4, <1>12
<1> HIDE DEF v
<1>14. Len(t) <= Len(u) /\ Len(t) <= Len(v)
  BY <1>3, <1>4, <1>11, <1>12, <1>13
<1>15. \A i \in 1 .. Len(t) : t[i] = u[i] /\ t[i] = v[i]
  <2> SUFFICES ASSUME NEW i \in 1 .. Len(t) PROVE t[i] = u[i] /\ t[i] = v[i]
    OBVIOUS
  <2>1. /\ i \in 1 .. Len(todo) - 1 /\ i \in 1 .. Len(waiting) - 1
        /\ i + 1 \in 1 .. Len(todo)
    BY <1>3, <1>4, <1>11
  <2> QED BY <1>3, <1>11, <1>12, <1>13, <2>1
<1>16. \A w \in {u, v} : Len(t) <= Len(w) /\ \A i \in 1 .. Len(t) : t[i] = w[i]
  BY <1>14, <1>15
<1> QED BY <1>1, <1>3, <1>4, <1>5, <1>6, <1>7, <1>8, <1>9, <1>10, <1>11, <1>12, <1>13, <1>16
        DEF t, u, v

\* A request that cannot be admitted goes to the end of its queue.
LEMMA AdmitSkipInv == ASSUME PDInv, NEW s \in Seqs, AdmitSkip(s) PROVE PDInv'
<1>1. /\ NextAdmit(s) /\ waiting' = Append(Tail(waiting), s) /\ todo' = Tail(todo)
      /\ pc' = pc /\ running' = running /\ status' = status
      /\ prefills' = prefills /\ decodes' = decodes /\ budget' = budget
      /\ UNCHANGED <<requestVars, commandVars, workerVars, bmVars, scheduled, kv, config>>
  BY DEF AdmitSkip
<1>2. /\ pc = "admit" /\ waiting # <<>> /\ s = Head(waiting) /\ status[s] = "WAITING"
      /\ prefills = <<>> /\ decodes = <<>>
      /\ Tail(todo) \in Seq(Seqs) /\ Append(Tail(waiting), s) \in Seq(Seqs)
  BY <1>1, NextAdmitFacts
<1>3. /\ Len(todo') <= Len(waiting') /\ \A i \in 1 .. Len(todo') : todo'[i] = waiting'[i]
  BY <1>1, NextAdmitFacts
<1>4. /\ TypeOK /\ IsFiniteSet(remote) /\ OwnInv /\ EntriesInv
      /\ \A q \in Seqs : SizeInv(q)
      /\ \A q \in Seqs : TransferInv(q)
      /\ QueueInv /\ BatchInv /\ LifeInv /\ EventInv
  BY <1>2, OpenFacts
<1>5. /\ requests' = requests /\ remote' = remote /\ cancelled' = cancelled
      /\ seen' = seen /\ handoffs' = handoffs /\ failures' = failures
      /\ pending' = pending /\ loads' = loads /\ sends' = sends /\ cancels' = cancels
      /\ claims' = claims /\ active' = active /\ ended' = ended /\ events' = events
      /\ fresh' = fresh /\ config' = config /\ scheduled' = scheduled /\ kv' = kv
      /\ tokens' = tokens /\ cached' = cached /\ table' = table /\ reserved' = reserved
      /\ free' = free /\ ref' = ref /\ hash' = hash /\ index' = index
  BY <1>1 DEF requestVars, commandVars, workerVars, bmVars, blockVars
<1>6. \A q \in Seqs : Alive(q)' <=> Alive(q)
  BY <1>5 DEF Alive
<1>7. BlockTypeOK'
  BY <1>4, <1>5, TypeFacts DEF BlockTypeOK, Blocks
<1>8. TypeOK'
  <2>1. KVTypeOK'
    BY <1>4, <1>5, TypeFacts DEF KVTypeOK, Blocks
  <2>2. MaxNumSeqs' = MaxNumSeqs /\ MaxBatchedTokens' = MaxBatchedTokens
    BY <1>5 DEF MaxNumSeqs, MaxBatchedTokens
  <2>3. /\ config \in Configs /\ \A t \in DOMAIN events : events[t] \in Outcomes
        /\ Len(running) + Cardinality(remote) <= MaxNumSeqs
    BY <1>4 DEF TypeOK
  <2>4. /\ pc' \in {"idle", "admit", "batch", "execute", "post", "events", "closing",
                    "closed"}
        /\ waiting' \in Seq(Seqs) /\ todo' \in Seq(Seqs)
    BY <1>1, <1>2
  <2> QED BY <1>1, <1>4, <1>5, <1>7, <2>1, <2>2, <2>3, <2>4, TypeFacts, TypeMade, Zenon
<1>9. OwnInv'
  <2>1. \A q \in Seqs : Held(q) # {} => Alive(q)' /\ status'[q] # "WAITING"
    BY <1>1, <1>4, <1>6 DEF OwnInv
  <2> QED BY <1>4, <1>5, <1>7, <2>1, OwnKept
<1>10. EntriesInv'
  BY <1>1, <1>4, <1>5 DEF EntriesInv
<1>11. \A q \in Seqs : SizeInv(q)'
  BY <1>1, <1>4, <1>5, <1>6, SizeKept
<1>12. (\A q \in Seqs : TransferInv(q)') /\ EventInv'
  <2>1. UNCHANGED <<status, requests, table, config, loads, sends, active, pending,
                    claims, fresh, events, ended>>
    BY <1>1, <1>5
  <2> QED BY <1>1, <1>4, <2>1, TransfersKept
<1>13. QueueInv'
  <2>1. /\ waiting \in Seq(Seqs) /\ status \in [Seqs -> Statuses]
        /\ Listed(waiting, "WAITING", status)
    BY <1>4, TypeFacts DEF QueueInv
  <2>2. Listed(waiting', "WAITING", status)
    BY <1>1, <1>2, <2>1, ListedFacts
  <2>3. Listed(waiting, "WAITING", status)'
    BY <1>1, <2>2 DEF Listed
  <2>4. Listed(running, "RUNNING", status)'
    BY <1>1, <1>4 DEF QueueInv, Listed, Distinct, Elems
  <2> QED BY <1>1, <1>4, <1>5, <2>3, <2>4 DEF QueueInv
<1>14. BatchInv'
  BY <1>1, <1>2, <1>3 DEF BatchInv
<1>15. LifeInv'
  BY <1>1, <1>4, <1>5 DEF LifeInv, Alive, Decodes, Transferring
<1>16. IsFiniteSet(remote') /\ pc' \notin {"closing", "closed"}
  BY <1>1, <1>2, <1>4, <1>5
<1> QED BY <1>8, <1>9, <1>10, <1>11, <1>12, <1>13, <1>14, <1>15, <1>16, PDInvMade

\* What both kinds of admission do.
LEMMA AdmitFacts ==
    ASSUME PDInv, NEW s \in Seqs, Admit(s), NEW to \in {"RUNNING", "REMOTE"},
           status' = [status EXCEPT ![s] = to]
    PROVE  /\ BlockTypeOK' /\ OwnInv' /\ EntriesInv'
           /\ \A q \in Seqs : Alive(q)' <=> Alive(q)
           /\ \A q \in Seqs \ {s} : table'[q] = table[q] /\ reserved'[q] = reserved[q]
           /\ to = "REMOTE" <=> Decodes => SizeInv(s)'
           /\ Listed(waiting', "WAITING", status') /\ BatchInv'
           /\ Len(running) + Cardinality(remote) < MaxNumSeqs
           /\ table' \in [Seqs -> Seq(Blocks)]
<1>1. /\ NextAdmit(s) /\ Admissible(s) /\ AllocateExclusive(s, TotalBlocks(s))
      /\ waiting' = Tail(waiting) /\ todo' = Tail(todo)
      /\ pc' = pc /\ requests' = requests /\ cancelled' = cancelled
      /\ prefills' = prefills /\ decodes' = decodes
      /\ tokens' = tokens /\ cached' = cached /\ config' = config
  BY DEF Admit
<1>2. /\ pc = "admit" /\ waiting # <<>> /\ s = Head(waiting) /\ status[s] = "WAITING"
      /\ Alive(s) /\ tokens[s] = Prompt[s] /\ IsPrefill(s)
      /\ prefills = <<>> /\ decodes = <<>>
      /\ Tail(todo) \in Seq(Seqs) /\ Tail(waiting) \in Seq(Seqs)
  BY <1>1, NextAdmitFacts
<1>3. /\ Len(todo') <= Len(waiting') /\ \A i \in 1 .. Len(todo') : todo'[i] = waiting'[i]
  BY <1>1, NextAdmitFacts
<1>4. /\ TypeOK /\ OwnInv /\ EntriesInv /\ QueueInv /\ \A q \in Seqs : SizeInv(q)
      /\ BlockTypeOK /\ status \in [Seqs -> Statuses]
      /\ waiting \in Seq(Seqs) /\ PoolInv
  BY <1>2, OpenFacts, TypeFacts DEF OwnInv
<1>5. /\ TotalBlocks(s) \in Nat /\ SeqBlocks(s) \in 0 .. TotalBlocks(s)
      /\ SeqBlocks(s) = CeilDiv(NumPrompt(s), BlockSize)
  <2>1. /\ NumPrompt(s) \in Nat \ {0} /\ Footprint(s) \in Nat
        /\ NumPrompt(s) <= Footprint(s) /\ BlockSize \in Nat \ {0}
    BY <1>4, SeqFacts
  <2>2. SeqBlocks(s) = CeilDiv(NumPrompt(s), BlockSize)
    BY <1>2 DEF SeqBlocks, NumTokens, NumPrompt
  <2>3. /\ CeilDiv(NumPrompt(s), BlockSize) \in Nat \ {0}
        /\ CeilDiv(Footprint(s), BlockSize) \in Nat \ {0}
        /\ CeilDiv(NumPrompt(s), BlockSize) <= CeilDiv(Footprint(s), BlockSize)
    BY <2>1, CeilDivFacts
  <2>4. TotalBlocks(s) = CeilDiv(Footprint(s), BlockSize)
    BY DEF TotalBlocks
  <2> QED BY <2>2, <2>3, <2>4
<1>6. tokens' \in [Seqs -> Seq(Token)] /\ cached' \in [Seqs -> Nat]
  BY <1>1, <1>4 DEF BlockTypeOK
<1>7. /\ PoolInv' /\ Len(table'[s]) = SeqBlocks(s)
      /\ Len(table'[s]) + Len(reserved'[s]) = TotalBlocks(s)
      /\ Held(s)' \subseteq Elems(free)
      /\ \A q \in Seqs \ {s} : table'[q] = table[q] /\ reserved'[q] = reserved[q]
  <2>1. CanAllocateExclusive(TotalBlocks(s))
    BY <1>1 DEF Admissible
  <2> QED BY <1>1, <1>4, <1>5, <1>6, <2>1, AllocateExclusivePool
<1>8. status'[s] = to /\ \A q \in Seqs \ {s} : status'[q] = status[q]
  BY <1>4
<1>9. \A q \in Seqs : Alive(q)' <=> Alive(q)
  BY <1>1 DEF Alive
<1>10. OwnInv'
  <2>1. Alive(s)' /\ status'[s] # "WAITING"
    BY <1>2, <1>8, <1>9
  <2> QED BY <1>4, <1>7, <1>8, <1>9, <2>1, OwnFollows
<1>11. EntriesInv'
  <2> SUFFICES ASSUME NEW r \in Requests, requests[r] # NoSeq
               PROVE  RequestId[requests[r]] = r /\ status'[requests[r]] # "NEW"
    BY <1>1 DEF EntriesInv
  <2>1. RequestId[requests[r]] = r /\ status[requests[r]] # "NEW" /\ requests[r] \in Seqs
    BY <1>4, TypeFacts DEF EntriesInv
  <2> QED BY <1>8, <2>1
<1>13. ASSUME to = "REMOTE" <=> Decodes PROVE SizeInv(s)'
  <2>1. /\ Decodes' <=> Decodes
        /\ NumTokens(s)' = NumPrompt(s) /\ NumPrompt(s) \in Nat
        /\ (IsPrefill(s))' /\ TotalBlocks(s)' = TotalBlocks(s)
        /\ tokens'[s] = Prompt[s]
    BY <1>1, <1>2, <1>4, SeqFacts
       DEF Decodes, NumTokens, NumPrompt, IsPrefill, TotalBlocks, Footprint
  <2>2. ~(Decodes' /\ status'[s] = "RUNNING")
    BY <1>8, <1>13, <2>1
  <2>3. Len(table'[s]) = CeilDiv(NumPrompt(s), BlockSize)
    BY <1>5, <1>7
  <2> QED BY <1>7, <2>1, <2>2, <2>3 DEF SizeInv, NumPrompt
<1>14. Listed(waiting', "WAITING", status')
  <2>1. Listed(waiting, "WAITING", status)
    BY <1>4 DEF QueueInv
  <2> QED BY <1>1, <1>2, <1>4, <2>1, ListedFacts
<1>15. BatchInv'
  BY <1>1, <1>2, <1>3 DEF BatchInv
<1>16. BlockTypeOK' /\ table' \in [Seqs -> Seq(Blocks)]
  BY <1>7 DEF PoolInv, BlockTypeOK, Blocks
<1>17. Len(running) + Cardinality(remote) < MaxNumSeqs
  BY <1>1 DEF Admissible, SlotFree
<1> QED BY <1>7, <1>9, <1>10, <1>11, <1>13, <1>14, <1>15, <1>16, <1>17

\* P admits a request that is prefilled next.
LEMMA AdmitPromptInv == ASSUME PDInv, NEW s \in Seqs, AdmitPrompt(s) PROVE PDInv'
<1>1. /\ ~Decodes /\ Admit(s)
      /\ status' = [status EXCEPT ![s] = "RUNNING"] /\ running' = Append(running, s)
      /\ remote' = remote /\ pending' = pending /\ loads' = loads /\ claims' = claims
  BY DEF AdmitPrompt
<1>2. /\ NextAdmit(s) /\ waiting' = Tail(waiting) /\ todo' = Tail(todo)
      /\ pc' = pc /\ requests' = requests /\ cancelled' = cancelled
      /\ seen' = seen /\ handoffs' = handoffs /\ failures' = failures
      /\ sends' = sends /\ cancels' = cancels /\ active' = active /\ ended' = ended
      /\ events' = events /\ fresh' = fresh /\ prefills' = prefills
      /\ decodes' = decodes /\ budget' = budget /\ scheduled' = scheduled /\ kv' = kv
      /\ config' = config /\ tokens' = tokens /\ cached' = cached
  BY <1>1 DEF Admit, workerVars
<1>3. /\ pc = "admit" /\ status[s] = "WAITING" /\ Alive(s) /\ Unbegun(s)
      /\ RequestId[s] \notin cancelled /\ Tail(todo) \in Seq(Seqs)
      /\ Tail(waiting) \in Seq(Seqs)
      /\ ~Queued(Attempt[s]) /\ Attempt[s] \notin ended /\ pending[Attempt[s]] = NoRequest
  BY <1>2, NextAdmitFacts
<1>4. /\ TypeOK /\ IsFiniteSet(remote) /\ EntriesInv /\ QueueInv /\ LifeInv
      /\ status \in [Seqs -> Statuses] /\ running \in Seq(Seqs)
  BY <1>3, OpenFacts, TypeFacts
<1>5. /\ BlockTypeOK' /\ OwnInv' /\ EntriesInv'
      /\ \A q \in Seqs : Alive(q)' <=> Alive(q)
      /\ \A q \in Seqs \ {s} : table'[q] = table[q] /\ reserved'[q] = reserved[q]
      /\ Listed(waiting', "WAITING", status') /\ BatchInv'
      /\ Len(running) + Cardinality(remote) < MaxNumSeqs
      /\ SizeInv(s)'
  BY <1>1, AdmitFacts
<1>6. /\ status'[s] = "RUNNING" /\ \A q \in Seqs \ {s} : status'[q] = status[q]
      /\ Queued(Attempt[s])' <=> Queued(Attempt[s])
  <2>1. loads' = loads /\ sends' = sends /\ active' = active
    BY <1>1, <1>2
  <2>2. Queued(Attempt[s])' <=> Queued(Attempt[s])
    BY <2>1 DEF Queued
  <2> QED BY <1>1, <1>4, <2>2
<1>7. TypeOK'
  <2>1. KVTypeOK'
    BY <1>2, <1>4, TypeFacts DEF KVTypeOK, Blocks
  <2>2. MaxNumSeqs' = MaxNumSeqs /\ MaxBatchedTokens' = MaxBatchedTokens
    BY <1>2 DEF MaxNumSeqs, MaxBatchedTokens
  <2>3. config \in Configs /\ \A t \in DOMAIN events : events[t] \in Outcomes
    BY <1>4 DEF TypeOK
  <2>4. /\ pc' \in {"idle", "admit", "batch", "execute", "post", "events", "closing",
                    "closed"}
        /\ waiting' \in Seq(Seqs) /\ todo' \in Seq(Seqs)
    BY <1>2, <1>3
  <2>5. running' \in Seq(Seqs) /\ Len(running') = Len(running) + 1
    BY <1>1, <1>4
  <2>6. Len(running') + Cardinality(remote') <= MaxNumSeqs'
    <3>1. Cardinality(remote) \in Nat /\ MaxNumSeqs \in Nat /\ Len(running) \in Nat
      BY <1>4, FS_CardinalityType, TypeFacts
    <3> QED BY <1>1, <1>5, <2>2, <2>5, <3>1
  <2>7. status' \in [Seqs -> Statuses]
    BY <1>1, <1>4 DEF Statuses
  <2> QED BY <1>1, <1>2, <1>4, <1>5, <2>1, <2>2, <2>3, <2>4, <2>5, <2>6, <2>7,
             TypeFacts, TypeMade, Zenon
<1>8. TransferInv(s)'
  <2>1. ~Underway(Attempt[s])' /\ ~Transferring(s)'
    <3>1. Attempt[s] \notin fresh' \/ pending'[Attempt[s]] = NoRequest
      BY <1>1, <1>3
    <3> QED BY <1>3, <1>6, <3>1 DEF Underway, Transferring
  <2>2. /\ ~Queued(Attempt[s])' /\ Attempt[s] \notin ended'
        /\ pending'[Attempt[s]] = NoRequest
    BY <1>1, <1>2, <1>3, <1>6
  <2> QED BY <2>1, <2>2 DEF TransferInv
<1>9. QueueInv'
  <2>1. Listed(running', "RUNNING", status')
    BY <1>1, <1>3, <1>4, ListedFacts DEF QueueInv
  <2>2. remote' = {RequestId[x] : x \in {q \in Seqs : status'[q] = "REMOTE"}}
    <3>1. {RequestId[x] : x \in {q \in Seqs : status'[q] = "REMOTE"}}
             = remote \ {RequestId[s]}
      BY <1>1, <1>3, <1>4, RemoteFacts
    <3>2. RequestId[s] \notin remote
      BY <1>1, <1>3, <1>4, RemoteFacts
    <3> QED BY <1>1, <3>1, <3>2
  <2> QED BY <1>5, <2>1, <2>2 DEF QueueInv, Listed
<1>10. LifeInv'
  BY <1>1, <1>2, <1>3, <1>4, StatusLife DEF Statuses
<1>11. IsFiniteSet(remote')
  BY <1>1, <1>4
<1> QED BY <1>1, <1>2, <1>3, <1>5, <1>6, <1>7, <1>8, <1>9, <1>10, <1>11, OneChanged

\* D admits a request, whose KV the transfer loads into the blocks of its table.
LEMMA AdmitRemoteInv == ASSUME PDInv, NEW s \in Seqs, AdmitRemote(s) PROVE PDInv'
<1> DEFINE t == Attempt[s]
           r == RequestId[s]
<1>1. /\ Decodes /\ Admit(s) /\ running' = running
      /\ status' = [status EXCEPT ![s] = "REMOTE"]
      /\ remote' = remote \cup {r} /\ loads' = loads \cup {t}
      /\ pending' = [pending EXCEPT ![t] = r] /\ claims' = [claims EXCEPT ![t] = table'[s]]
  BY DEF AdmitRemote
<1>2. /\ NextAdmit(s) /\ waiting' = Tail(waiting) /\ todo' = Tail(todo)
      /\ pc' = pc /\ requests' = requests /\ cancelled' = cancelled
      /\ seen' = seen /\ handoffs' = handoffs /\ failures' = failures
      /\ sends' = sends /\ cancels' = cancels /\ active' = active /\ ended' = ended
      /\ events' = events /\ fresh' = fresh /\ prefills' = prefills
      /\ decodes' = decodes /\ budget' = budget /\ scheduled' = scheduled /\ kv' = kv
      /\ config' = config /\ tokens' = tokens /\ cached' = cached
  BY <1>1 DEF Admit, workerVars
<1>3. /\ pc = "admit" /\ status[s] = "WAITING" /\ Alive(s)
      /\ RequestId[s] \notin cancelled /\ Tail(todo) \in Seq(Seqs)
      /\ Tail(waiting) \in Seq(Seqs) /\ t \notin ended
  BY <1>2, NextAdmitFacts
<1>4. /\ TypeOK /\ IsFiniteSet(remote) /\ EntriesInv /\ QueueInv /\ LifeInv
      /\ status \in [Seqs -> Statuses] /\ running \in Seq(Seqs)
      /\ pending \in [Transfers -> Requests \cup {NoRequest}]
      /\ claims \in [Transfers -> Seq(Blocks)] /\ remote \subseteq Requests
      /\ loads \subseteq Transfers /\ r \in Requests /\ t \in Transfers
  BY <1>3, OpenFacts, TypeFacts, IdAssumption
<1>5. /\ BlockTypeOK' /\ OwnInv' /\ EntriesInv'
      /\ \A q \in Seqs : Alive(q)' <=> Alive(q)
      /\ \A q \in Seqs \ {s} : table'[q] = table[q] /\ reserved'[q] = reserved[q]
      /\ Listed(waiting', "WAITING", status') /\ BatchInv'
      /\ Len(running) + Cardinality(remote) < MaxNumSeqs
      /\ SizeInv(s)' /\ table' \in [Seqs -> Seq(Blocks)]
  BY <1>1, AdmitFacts
<1>6. /\ status'[s] = "REMOTE" /\ \A q \in Seqs \ {s} : status'[q] = status[q]
      /\ pending'[t] = r /\ claims'[t] = table'[s]
      /\ \A u \in Transfers \ {t} : pending'[u] = pending[u] /\ claims'[u] = claims[u]
  BY <1>1, <1>4
<1>7. /\ IsFiniteSet(remote') /\ Cardinality(remote') <= Cardinality(remote) + 1
      /\ Cardinality(remote) \in Nat /\ Cardinality(remote') \in Nat
  <2> DEFINE now == remote \cup {r}
  <2>1. /\ IsFiniteSet(now) /\ Cardinality(remote) \in Nat
        /\ Cardinality(now) = IF r \in remote THEN Cardinality(remote)
                                              ELSE Cardinality(remote) + 1
    BY <1>4, FS_AddElement, FS_CardinalityType
  <2>2. remote' = now
    BY <1>1
  <2> HIDE DEF now
  <2> QED BY <2>1, <2>2, FS_CardinalityType
<1>8. TypeOK'
  <2>1. KVTypeOK'
    BY <1>2, <1>4, TypeFacts DEF KVTypeOK, Blocks
  <2>2. MaxNumSeqs' = MaxNumSeqs /\ MaxBatchedTokens' = MaxBatchedTokens
    BY <1>2 DEF MaxNumSeqs, MaxBatchedTokens
  <2>3. config \in Configs /\ \A u \in DOMAIN events : events[u] \in Outcomes
    BY <1>4 DEF TypeOK
  <2>4. /\ pc' \in {"idle", "admit", "batch", "execute", "post", "events", "closing",
                    "closed"}
        /\ waiting' \in Seq(Seqs) /\ todo' \in Seq(Seqs)
    BY <1>2, <1>3
  <2>5. Len(running') + Cardinality(remote') <= MaxNumSeqs'
    <3>1. MaxNumSeqs \in Nat /\ Len(running) \in Nat
      BY <1>4, TypeFacts
    <3> QED BY <1>1, <1>5, <1>7, <2>2, <3>1
  <2>6. /\ status' \in [Seqs -> Statuses]
        /\ pending' \in [Transfers -> Requests \cup {NoRequest}]
        /\ claims' \in [Transfers -> Seq(Blocks)]
        /\ remote' \subseteq Requests /\ loads' \subseteq Transfers
    <3>1. table'[s] \in Seq(Blocks)
      BY <1>5
    <3> QED BY <1>1, <1>4, <3>1 DEF Statuses
  <2> HIDE DEF t, r
  <2> QED BY <1>1, <1>2, <1>4, <1>5, <2>1, <2>2, <2>3, <2>4, <2>5, <2>6,
             TypeFacts, TypeMade, Zenon
<1>9. TransferInv(s)'
  <2>1. Queued(t)' /\ Underway(t)'
    BY <1>1 DEF Queued, Underway
  <2>2. Transferring(s)' /\ ~Unbegun(s)'
    BY <1>6 DEF Transferring, Unbegun
  <2> QED BY <1>6, <2>1, <2>2 DEF TransferInv
<1>10. QueueInv'
  <2>1. Listed(running', "RUNNING", status')
    <3>1. Listed(running, "RUNNING", status) /\ status[s] # "RUNNING"
      BY <1>3, <1>4 DEF QueueInv
    <3>2. Listed(running, "RUNNING", [status EXCEPT ![s] = "REMOTE"])
      <4>1. running \in Seq(Seqs) /\ status \in [Seqs -> Statuses]
        BY <1>4
      <4>2. "REMOTE" # "RUNNING"
        OBVIOUS
      <4> QED BY <3>1, <4>1, <4>2, ListedFacts, Zenon
    <3> QED BY <1>1, <3>2
  <2>2. remote' = {RequestId[x] : x \in {q \in Seqs : status'[q] = "REMOTE"}}
    BY <1>1, <1>3, <1>4, RemoteFacts
  <2> QED BY <1>5, <2>1, <2>2 DEF QueueInv, Listed
<1>11. LifeInv'
  <2>1. "REMOTE" \in Statuses
    BY DEF Statuses
  <2> QED BY <1>1, <1>2, <1>3, <1>4, <2>1, StatusLife
<1>12. \A u \in Transfers \ {t} : u \in fresh' <=> u \in fresh
  BY <1>2
<1>13. /\ loads' \in {loads, loads \cup {t}} /\ sends' \in {sends, sends \cup {t}}
       /\ t \in fresh' => t \in fresh
  BY <1>1, <1>2
<1> QED BY <1>2, <1>3, <1>5, <1>6, <1>7, <1>8, <1>9, <1>10, <1>11, <1>12, <1>13, OneChanged

-----------------------------------------------------------------------------
(* The batch                                                               *)

\* What the batch loop knows of the running request it looks at.
LEMMA CandidateFacts ==
    ASSUME PDInv, NEW s \in Seqs, pc \in {"batch", "post"}, todo # <<>>, s = Head(todo)
    PROVE  /\ s \in Elems(running) /\ status[s] = "RUNNING" /\ Alive(s)
           /\ SizeInv(s) /\ TransferInv(s) /\ ~Transferring(s) /\ ~Underway(Attempt[s])
           /\ RequestId[s] \notin cancelled
           /\ Tail(todo) \in Seq(Seqs) /\ Distinct(Tail(todo))
           /\ Elems(todo) = {s} \cup Elems(Tail(todo)) /\ s \notin Elems(Tail(todo))
           /\ pc = "batch" => s \notin Elems(prefills) \cup Elems(decodes)
<1>1. /\ TypeOK /\ QueueInv /\ BatchInv /\ LifeInv /\ SizeInv(s) /\ TransferInv(s)
      /\ todo \in Seq(Seqs) /\ running \in Seq(Seqs)
  BY OpenFacts, TypeFacts
<1>2. /\ Distinct(todo) /\ Elems(todo) \subseteq Elems(running)
      /\ pc = "batch" => Elems(todo) \cap (Elems(prefills) \cup Elems(decodes)) = {}
  BY <1>1 DEF BatchInv
<1> DEFINE t == Tail(todo)
<1>3. t \in Seq(Seqs) /\ Distinct(t) /\ Elems(todo) = {s} \cup Elems(t) /\ s \notin Elems(t)
  BY <1>1, <1>2, TailFacts
<1> HIDE DEF t
<1>4. Elems(running) = {q \in Seqs : status[q] = "RUNNING"}
  BY <1>1 DEF QueueInv, Listed
<1>5. s \in Elems(running) /\ status[s] = "RUNNING"
  BY <1>2, <1>3, <1>4
<1>6. Alive(s)
  BY <1>1, <1>5 DEF LifeInv
<1>7. ~Transferring(s)
  BY <1>5 DEF Transferring
<1>8. ~Underway(Attempt[s])
  BY <1>1, <1>7 DEF TransferInv
<1>9. RequestId[s] \notin cancelled
  <2> SUFFICES ASSUME RequestId[s] \in cancelled PROVE FALSE
    OBVIOUS
  <2>1. Transferring(requests[RequestId[s]])
    BY <1>1 DEF LifeInv
  <2> QED BY <1>6, <1>7, <2>1 DEF Alive
<1>10. pc = "batch" => s \notin Elems(prefills) \cup Elems(decodes)
  BY <1>2, <1>3
<1> QED BY <1>1, <1>3, <1>5, <1>6, <1>7, <1>8, <1>9, <1>10 DEF t

\* A decode is on D, and its next token has a place in its own reservation.
LEMMA DecodeHasBlocks ==
    ASSUME TypeOK, NEW s \in Seqs, SizeInv(s), status[s] = "RUNNING", ~IsPrefill(s)
    PROVE  /\ Decodes /\ Len(table[s]) + Len(reserved[s]) = TotalBlocks(s)
           /\ Len(table[s]) >= SeqBlocks(s) \/ reserved[s] # <<>>
<1>1. Decodes
  BY DEF SizeInv, Unbegun
<1>2. /\ Len(table[s]) + Len(reserved[s]) = TotalBlocks(s)
      /\ NumCompletion(s) < MaxTokens[s] /\ NumTokens(s) >= NumPrompt(s)
  BY <1>1 DEF SizeInv, Holding
<1>3. /\ NumPrompt(s) \in Nat \ {0} /\ NumTokens(s) \in Nat /\ MaxTokens[s] \in Nat
      /\ BlockSize \in Nat \ {0}
  BY SeqFacts
<1>4. /\ Footprint(s) = NumPrompt(s) + MaxTokens[s]
      /\ NumTokens(s) - NumPrompt(s) < MaxTokens[s]
  BY <1>1, <1>2 DEF Footprint, NumCompletion
<1> DEFINE n == NumTokens(s)
           m == Footprint(s)
<1>5. n \in Nat \ {0} /\ m \in Nat \ {0} /\ n <= m
  BY <1>2, <1>3, <1>4
<1> HIDE DEF n, m
<1>6. CeilDiv(n, BlockSize) <= CeilDiv(m, BlockSize) /\ CeilDiv(n, BlockSize) \in Nat
      /\ CeilDiv(m, BlockSize) \in Nat
  BY <1>3, <1>5, CeilDivFacts
<1>7. SeqBlocks(s) <= TotalBlocks(s) /\ SeqBlocks(s) \in Nat /\ TotalBlocks(s) \in Nat
  BY <1>6 DEF SeqBlocks, TotalBlocks, n, m
<1>8. table[s] \in Seq(Blocks) /\ reserved[s] \in Seq(Blocks)
  BY TypeFacts DEF BlockTypeOK
<1>9. ASSUME reserved[s] = <<>> PROVE Len(table[s]) >= SeqBlocks(s)
  <2>1. Len(reserved[s]) = 0 /\ Len(table[s]) \in Nat
    BY <1>8, <1>9
  <2> QED BY <1>2, <1>7, <2>1
<1> QED BY <1>1, <1>2, <1>9

\* What becomes of the blocks of a request that joins the batch.
LEMMA JoinBlocks ==
    ASSUME TypeOK, OwnInv, NEW s \in Seqs, SizeInv(s), status[s] = "RUNNING",
           tokens' = tokens, cached' = cached, status' = status, requests' = requests,
           \/ IsPrefill(s) /\ UNCHANGED <<table, reserved, blockVars>>
           \/ ~IsPrefill(s) /\ MayAppend(s)
    PROVE  /\ OwnInv' /\ BlockTypeOK' /\ free' = free
           /\ \A q \in Seqs \ {s} : table'[q] = table[q] /\ reserved'[q] = reserved[q]
           /\ Len(table'[s]) + Len(reserved'[s]) = Len(table[s]) + Len(reserved[s])
           /\ IsPrefill(s) => table' = table
           /\ ~IsPrefill(s) => Decodes
<1>1. PoolInv /\ BlockTypeOK /\ \A q : Alive(q)' <=> Alive(q)
  BY TypeFacts DEF OwnInv, Alive
<1>2. \A q \in Seqs : Held(q) # {} => Alive(q)' /\ status'[q] # "WAITING"
  BY <1>1 DEF OwnInv
<1>3. CASE UNCHANGED <<table, reserved, blockVars>>
  <2>1. /\ table' = table /\ reserved' = reserved /\ free' = free /\ ref' = ref
        /\ hash' = hash /\ index' = index
    BY <1>3 DEF blockVars
  <2>2. BlockTypeOK'
    BY <1>1, <2>1 DEF BlockTypeOK, Blocks
  <2>3. OwnInv'
    BY <1>2, <2>1, <2>2, OwnKept
  <2>4. ~IsPrefill(s) => Decodes
    BY DecodeHasBlocks
  <2> QED BY <2>1, <2>2, <2>3, <2>4
<1>4. CASE ~IsPrefill(s) /\ reserved[s] # <<>> /\ MayAppend(s) /\ UNCHANGED blockVars
           /\ table' = [table EXCEPT ![s] = Append(@, reserved[s][Len(reserved[s])])]
           /\ reserved' = [reserved EXCEPT ![s] = SubSeq(@, 1, Len(@) - 1)]
  <2>1. tokens' \in [Seqs -> Seq(Token)] /\ cached' \in [Seqs -> Nat]
    BY <1>1 DEF BlockTypeOK
  <2>2. /\ table[s] \in Seq(Blocks) /\ reserved[s] \in Seq(Blocks)
        /\ table \in [Seqs -> Seq(Blocks)] /\ reserved \in [Seqs -> Seq(Blocks)]
    BY <1>1 DEF BlockTypeOK
  <2>3. /\ table'[s] = Append(table[s], reserved[s][Len(reserved[s])])
        /\ reserved'[s] = SubSeq(reserved[s], 1, Len(reserved[s]) - 1)
        /\ \A q \in Seqs \ {s} : table'[q] = table[q] /\ reserved'[q] = reserved[q]
    BY <1>4, <2>2
  <2>4. Len(table'[s]) = Len(table[s]) + 1 /\ Len(reserved'[s]) = Len(reserved[s]) - 1
        /\ Len(table[s]) \in Nat /\ Len(reserved[s]) \in Nat
    <3> DEFINE t == table[s]
               r == reserved[s]
    <3>1. t \in Seq(Blocks) /\ r \in Seq(Blocks) /\ r # <<>>
      BY <1>4, <2>2
    <3> HIDE DEF t, r
    <3>2. Len(Append(t, r[Len(r)])) = Len(t) + 1 /\ Len(t) \in Nat /\ Len(r) \in Nat
      BY <3>1
    <3>3. Len(SubSeq(r, 1, Len(r) - 1)) = Len(r) - 1
      <4> DEFINE n == Len(r) - 1
      <4>1. n \in 0 .. Len(r)
        BY <3>1
      <4> HIDE DEF n
      <4>2. Len(SubSeq(r, 1, n)) = n
        BY <3>1, <4>1, CutFacts
      <4> QED BY <4>2 DEF n
    <3> QED BY <2>3, <3>2, <3>3 DEF t, r
  <2>5. PoolInv'
    BY <1>1, <1>4, <2>1, MayAppendPool
  <2>6. free' = free
    BY <1>4 DEF blockVars
  <2>7. Held(s)' = Held(s)
    <3> DEFINE q == reserved[s]
    <3>1. Elems(q) = Elems(SubSeq(q, 1, Len(q) - 1)) \cup {q[Len(q)]} /\ q[Len(q)] \in Blocks
      BY <1>4, <2>2, LastFacts
    <3>2. Elems(Append(table[s], q[Len(q)])) = Elems(table[s]) \cup {q[Len(q)]}
      BY <2>2, <3>1, OneMoreFacts
    <3> QED BY <2>3, <3>1, <3>2 DEF Held
  <2>8. Held(s)' # {} => Alive(s)' /\ status'[s] # "WAITING"
    BY <1>2, <2>7
  <2>9. OwnInv'
    <3>1. /\ \A q \in Seqs \ {s} : Alive(q) => Alive(q)'
          /\ \A q \in Seqs \ {s} : status'[q] = status[q]
          /\ Held(s)' \subseteq Held(s) \cup Elems(free)
      BY <1>1, <2>7
    <3> QED BY <2>3, <2>5, <2>8, <3>1, OwnFollows
  <2>10. BlockTypeOK'
    BY <2>5 DEF PoolInv
  <2>11. Decodes
    BY <1>4, DecodeHasBlocks
  <2>12. Len(table'[s]) + Len(reserved'[s]) = Len(table[s]) + Len(reserved[s])
    <3> DEFINE a == Len(table[s])
               b == Len(reserved[s])
               c == Len(table'[s])
               d == Len(reserved'[s])
    <3>1. a \in Nat /\ b \in Nat /\ c = a + 1 /\ d = b - 1
      BY <2>4
    <3> HIDE DEF a, b, c, d
    <3>2. c + d = a + b
      BY <3>1
    <3> QED BY <3>2 DEF a, b, c, d
  <2>13. ~IsPrefill(s)
    BY <1>4
  <2> QED BY <2>3, <2>6, <2>9, <2>10, <2>11, <2>12, <2>13, Zenon
<1>5. CASE ~IsPrefill(s) /\ MayAppend(s)
  <2>1. Len(table[s]) >= SeqBlocks(s) \/ reserved[s] # <<>>
    BY <1>5, DecodeHasBlocks
  <2>2. table[s] \in Seq(Blocks)
    BY <1>1 DEF BlockTypeOK
  <2>3. ~(Len(table[s]) >= SeqBlocks(s) /\ Len(table[s]) < SeqBlocks(s))
    <3>1. SeqBlocks(s) \in Nat
      <4>1. tokens[s] # <<>>
        BY SeqFacts DEF SizeInv
      <4> QED BY <1>1, <4>1, SeqBlocksFacts
    <3> QED BY <2>2, <3>1
  <2>4. \/ UNCHANGED <<table, reserved, blockVars>>
        \/ /\ reserved[s] # <<>> /\ UNCHANGED blockVars
           /\ table' = [table EXCEPT ![s] = Append(@, reserved[s][Len(reserved[s])])]
           /\ reserved' = [reserved EXCEPT ![s] = SubSeq(@, 1, Len(@) - 1)]
    BY <1>5, <2>1, <2>3, Zenon DEF MayAppend
  <2>5. CASE UNCHANGED <<table, reserved, blockVars>>
    BY <1>3, <2>5
  <2>6. CASE /\ reserved[s] # <<>> /\ UNCHANGED blockVars
             /\ table' = [table EXCEPT ![s] = Append(@, reserved[s][Len(reserved[s])])]
             /\ reserved' = [reserved EXCEPT ![s] = SubSeq(@, 1, Len(@) - 1)]
    BY <1>4, <1>5, <2>6
  <2> QED BY <2>4, <2>5, <2>6
<1>6. CASE IsPrefill(s) /\ UNCHANGED <<table, reserved, blockVars>>
  BY <1>3, <1>6
<1> QED BY <1>5, <1>6

\* How much of a request joins the batch, within the budget.
LEMMA ChunkFacts ==
    ASSUME TypeOK, NEW s \in Seqs, budget > 0
    PROVE  /\ Chunk(s) \in Nat \ {0} /\ budget - Chunk(s) \in 0 .. MaxBatchedTokens
           /\ IsPrefill(s) => cached[s] + Chunk(s) <= NumPrompt(s)
<1>1. /\ cached[s] \in Nat /\ NumPrompt(s) \in Nat /\ MaxBatchedTokens \in Nat
      /\ budget \in 0 .. MaxBatchedTokens
  BY SeqFacts, TypeFacts
<1>2. /\ Need(s) \in Nat \ {0}
      /\ IsPrefill(s) => Need(s) = NumPrompt(s) - cached[s]
  BY <1>1 DEF Need, IsPrefill, PrefillLeft
<1>3. Chunk(s) \in Nat \ {0} /\ Chunk(s) <= Need(s) /\ Chunk(s) <= budget
  BY <1>1, <1>2 DEF Chunk
<1> QED BY <1>1, <1>2, <1>3

\* A request that joins the batch goes to the end of running.
LEMMA BatchJoinInv == ASSUME PDInv, NEW s \in Seqs, BatchJoin(s) PROVE PDInv'
<1>1. /\ pc = "batch" /\ budget > 0 /\ todo # <<>> /\ s = Head(todo)
      /\ scheduled' = [scheduled EXCEPT ![s] = Chunk(s)] /\ budget' = budget - Chunk(s)
      /\ running' = Append(Without(running, s), s) /\ todo' = Tail(todo)
      /\ pc' = pc /\ waiting' = waiting /\ status' = status /\ tokens' = tokens
      /\ cached' = cached /\ kv' = kv /\ config' = config
      /\ UNCHANGED <<requestVars, commandVars, workerVars>>
  BY DEF BatchJoin, NextCandidate
<1>2. \/ /\ IsPrefill(s) /\ prefills' = Append(prefills, s) /\ decodes' = decodes
         /\ UNCHANGED <<table, reserved, blockVars>>
      \/ /\ ~IsPrefill(s) /\ decodes' = Append(decodes, s) /\ prefills' = prefills
         /\ MayAppend(s)
  BY Zenon DEF BatchJoin
<1>3. /\ requests' = requests /\ remote' = remote /\ cancelled' = cancelled
      /\ seen' = seen /\ handoffs' = handoffs /\ failures' = failures
      /\ pending' = pending /\ loads' = loads /\ sends' = sends /\ cancels' = cancels
      /\ claims' = claims /\ active' = active /\ ended' = ended /\ events' = events
      /\ fresh' = fresh
  BY <1>1 DEF requestVars, commandVars, workerVars
<1>4. /\ TypeOK /\ IsFiniteSet(remote) /\ OwnInv /\ EntriesInv
      /\ QueueInv /\ BatchInv /\ LifeInv /\ running \in Seq(Seqs)
      /\ prefills \in Seq(Seqs) /\ decodes \in Seq(Seqs)
      /\ scheduled \in [Seqs -> Nat] /\ status \in [Seqs -> Statuses]
  BY <1>1, OpenFacts, TypeFacts DEF KVTypeOK
<1>5. /\ s \in Elems(running) /\ status[s] = "RUNNING" /\ Alive(s)
      /\ SizeInv(s) /\ TransferInv(s) /\ ~Transferring(s) /\ ~Underway(Attempt[s])
      /\ RequestId[s] \notin cancelled
      /\ Tail(todo) \in Seq(Seqs) /\ Distinct(Tail(todo))
      /\ Elems(todo) = {s} \cup Elems(Tail(todo)) /\ s \notin Elems(Tail(todo))
      /\ s \notin Elems(prefills) \cup Elems(decodes)
  BY <1>1, CandidateFacts, Zenon
<1>6. /\ OwnInv' /\ BlockTypeOK'
      /\ \A q \in Seqs \ {s} : table'[q] = table[q] /\ reserved'[q] = reserved[q]
      /\ Len(table'[s]) + Len(reserved'[s]) = Len(table[s]) + Len(reserved[s])
      /\ IsPrefill(s) => table' = table
      /\ ~IsPrefill(s) => Decodes
  <2>1. \/ IsPrefill(s) /\ UNCHANGED <<table, reserved, blockVars>>
        \/ ~IsPrefill(s) /\ MayAppend(s)
    BY <1>2
  <2> QED BY <1>1, <1>3, <1>4, <1>5, <2>1, JoinBlocks, Zenon
<1>7. \A q \in Seqs : Alive(q)' <=> Alive(q)
  BY <1>3 DEF Alive
<1>8. /\ Chunk(s) \in Nat \ {0} /\ budget' \in 0 .. MaxBatchedTokens
      /\ IsPrefill(s) => cached[s] + Chunk(s) <= NumPrompt(s)
  BY <1>1, <1>4, ChunkFacts
<1>9. /\ scheduled'[s] = Chunk(s) /\ scheduled' \in [Seqs -> Nat]
      /\ \A q \in Seqs \ {s} : scheduled'[q] = scheduled[q]
  BY <1>1, <1>4, <1>8
<1>10. /\ running' \in Seq(Seqs) /\ Len(running') = Len(running)
       /\ Elems(running') = Elems(running) /\ Listed(running', "RUNNING", status)
  <2> DEFINE w == Without(running, s)
  <2>1. /\ w \in Seq(Seqs) /\ Len(w) = Len(running) - 1 /\ Elems(w) = Elems(running) \ {s}
    BY <1>4, <1>5, WithoutFacts DEF QueueInv, Listed
  <2>2. Listed(Append(w, s), "RUNNING", status)
    BY <1>4, <1>5, ListedFacts DEF QueueInv
  <2>3. running' = Append(w, s)
    BY <1>1
  <2> HIDE DEF w
  <2>4. Elems(Append(w, s)) = Elems(w) \cup {s}
    BY <2>1, OneMoreFacts
  <2> QED BY <1>4, <1>5, <2>1, <2>2, <2>3, <2>4
<1>11. /\ prefills' \in Seq(Seqs) /\ decodes' \in Seq(Seqs)
       /\ Distinct(prefills') /\ Distinct(decodes')
       /\ Elems(prefills') \cap Elems(decodes') = {}
       /\ Elems(prefills') \cup Elems(decodes') = {s} \cup Elems(prefills) \cup Elems(decodes)
       /\ Elems(prefills') = IF IsPrefill(s) THEN {s} \cup Elems(prefills)
                                             ELSE Elems(prefills)
  <2>1. /\ Distinct(prefills) /\ Distinct(decodes)
        /\ Elems(prefills) \cap Elems(decodes) = {}
    BY <1>1, <1>4 DEF BatchInv
  <2>2. \A q \in {prefills, decodes} :
           /\ Append(q, s) \in Seq(Seqs) /\ Elems(Append(q, s)) = Elems(q) \cup {s}
           /\ Distinct(Append(q, s)) <=> Distinct(q) /\ s \notin Elems(q)
    BY <1>4, OneMoreFacts
  <2> DEFINE a == Append(prefills, s)
             b == Append(decodes, s)
  <2>3. /\ a \in Seq(Seqs) /\ Elems(a) = Elems(prefills) \cup {s}
        /\ Distinct(a) <=> Distinct(prefills) /\ s \notin Elems(prefills)
        /\ b \in Seq(Seqs) /\ Elems(b) = Elems(decodes) \cup {s}
        /\ Distinct(b) <=> Distinct(decodes) /\ s \notin Elems(decodes)
    BY <2>2, Zenon
  <2>4. \/ IsPrefill(s) /\ prefills' = a /\ decodes' = decodes
        \/ ~IsPrefill(s) /\ decodes' = b /\ prefills' = prefills
    BY <1>2
  <2> HIDE DEF a, b
  <2>5. CASE IsPrefill(s) /\ prefills' = a /\ decodes' = decodes
    BY <1>4, <1>5, <2>1, <2>3, <2>5
  <2>6. CASE ~IsPrefill(s) /\ decodes' = b /\ prefills' = prefills
    BY <1>4, <1>5, <2>1, <2>3, <2>6
  <2> QED BY <2>4, <2>5, <2>6
<1>12. TypeOK'
  <2>1. KVTypeOK'
    BY <1>1, <1>4, <1>9, TypeFacts DEF KVTypeOK, Blocks
  <2>2. MaxNumSeqs' = MaxNumSeqs /\ MaxBatchedTokens' = MaxBatchedTokens
    BY <1>1 DEF MaxNumSeqs, MaxBatchedTokens
  <2>3. /\ config \in Configs /\ \A u \in DOMAIN events : events[u] \in Outcomes
        /\ Len(running) + Cardinality(remote) <= MaxNumSeqs
    BY <1>4 DEF TypeOK
  <2>4. /\ pc' \in {"idle", "admit", "batch", "execute", "post", "events", "closing",
                    "closed"}
        /\ todo' \in Seq(Seqs)
    BY <1>1, <1>5
  <2>5. Len(running') + Cardinality(remote') <= MaxNumSeqs'
    BY <1>3, <1>10, <2>2, <2>3
  <2> QED BY <1>1, <1>3, <1>4, <1>6, <1>8, <1>10, <1>11, <2>1, <2>2, <2>3, <2>4, <2>5,
             TypeFacts, TypeMade, Zenon
<1>13. EntriesInv'
  BY <1>1, <1>3, <1>4 DEF EntriesInv
<1>14. SizeInv(s)'
  <2>1. /\ Holding(s)' /\ Holding(s) /\ (Unbegun(s)' <=> Unbegun(s))
        /\ Decodes' = Decodes
    BY <1>1, <1>5 DEF Holding, Unbegun, Decodes
  <2>2. /\ NumTokens(s)' = NumTokens(s) /\ NumCompletion(s)' = NumCompletion(s)
        /\ IsPrefill(s)' <=> IsPrefill(s) /\ NumPrompt(s)' = NumPrompt(s)
        /\ TotalBlocks(s)' = TotalBlocks(s)
    BY <1>1, <2>1 DEF NumTokens, NumCompletion, IsPrefill, TotalBlocks, Footprint, NumPrompt
  <2>3. ~Decodes => table' = table
    BY <1>6
  <2> QED BY <1>1, <1>5, <1>6, <2>1, <2>2, <2>3 DEF SizeInv
<1>15. TransferInv(s)'
  <2>1. (Queued(Attempt[s])' <=> Queued(Attempt[s])) /\ ~Underway(Attempt[s])'
    BY <1>3, <1>5 DEF Queued, Underway
  <2>2. ~Transferring(s)' /\ (Unbegun(s)' <=> Unbegun(s))
    BY <1>1, <1>5 DEF Transferring, Unbegun, Decodes
  <2> QED BY <1>3, <1>5, <2>1, <2>2 DEF TransferInv
<1>16. QueueInv'
  <2>1. Listed(waiting', "WAITING", status') /\ Listed(running', "RUNNING", status')
    BY <1>1, <1>4, <1>10 DEF QueueInv
  <2> QED BY <1>1, <1>3, <1>4, <2>1 DEF QueueInv, Listed
<1>17. BatchInv'
  <2>1. /\ Elems(prefills) \cup Elems(decodes) \subseteq Elems(running)
        /\ \A q \in Elems(prefills) : cached[q] + scheduled[q] <= NumPrompt(q)
        /\ Elems(todo) \cap (Elems(prefills) \cup Elems(decodes)) = {}
        /\ \A q \in Elems(prefills) \cup Elems(decodes) : RequestId[q] \notin cancelled
        /\ Elems(todo) \subseteq Elems(running)
    BY <1>1, <1>4 DEF BatchInv
  <2>2. /\ Distinct(todo') /\ Elems(todo') \subseteq Elems(running')
        /\ Elems(prefills') \cup Elems(decodes') \subseteq Elems(running')
        /\ Elems(todo') \cap (Elems(prefills') \cup Elems(decodes')) = {}
    BY <1>1, <1>5, <1>10, <1>11, <2>1
  <2>3. \A q \in Elems(prefills') \cup Elems(decodes') : RequestId[q] \notin cancelled'
    BY <1>3, <1>5, <1>11, <2>1
  <2>4. \A q \in Elems(prefills') : cached'[q] + scheduled'[q] <= NumPrompt(q)
    <3>1. Elems(prefills) \subseteq Seqs
      BY <1>4 DEF Elems
    <3>2. \A q \in Elems(prefills) : q # s /\ q \in Seqs
      BY <1>5, <3>1
    <3> QED BY <1>1, <1>8, <1>9, <1>11, <2>1, <3>2
  <2>5. pc' = "batch"
    BY <1>1
  <2> QED BY <1>11, <2>2, <2>3, <2>4, <2>5 DEF BatchInv, NumPrompt
<1>18. LifeInv'
  BY <1>1, <1>3, <1>4 DEF LifeInv, Alive, Decodes, Transferring
<1>19. IsFiniteSet(remote')
  BY <1>3, <1>4
<1> QED BY <1>1, <1>3, <1>6, <1>7, <1>12, <1>13, <1>14, <1>15, <1>16, <1>17, <1>18, <1>19,
           OneChanged

-----------------------------------------------------------------------------
(* Running the batch                                                       *)

\* The tokens of the blocks before the i-th.
LEMMA BlocksBefore ==
    ASSUME NEW i \in Nat \ {0}, NEW n \in Nat
    PROVE  (i - 1) * n \in Nat /\ i * n = (i - 1) * n + n
OBVIOUS

\* A read copies tokens of the prompt.
LEMMA TokenIsRead ==
    ASSUME NEW cache \in Caches, NEW numTokens \in Nat, NEW blocks \in Seq(Nat),
           NEW read \in TokensRead(cache, blocks, numTokens, 0)
    PROVE  read.token \in 1 .. numTokens
<1> DEFINE n == cache.blockSize
<1>1. PICK i \in 1 .. Len(blocks) :
         LET d == Descriptor(cache, blocks, numTokens, 0, i) IN
         \E a \in Extent(d) : read = [address |-> a,
                                     token   |-> (i - 1) * n + a - d.address + 1]
  BY DEF TokensRead
<1> DEFINE d == Descriptor(cache, blocks, numTokens, 0, i)
<1>2. PICK a \in Extent(d) : read.token = (i - 1) * n + a - d.address + 1
  BY <1>1
<1>3. /\ n \in Nat \ {0} /\ cache.capacity \in Nat /\ cache.address \in Nat
      /\ blocks[i] \in Nat /\ i \in Nat \ {0}
  BY DEF Caches
<1>4. d.address \in Int /\ d.size = (IF i * n < numTokens THEN n ELSE numTokens - (i - 1) * n)
  BY <1>3 DEF Descriptor
<1>5. a \in d.address .. d.address + d.size - 1
  BY <1>2 DEF Extent
<1> DEFINE m == (i - 1) * n
           k == i * n
           size == d.size
           base == d.address
<1>6. m \in Nat /\ k = m + n
  BY <1>3, BlocksBefore
<1>7. /\ base \in Int /\ size = (IF k < numTokens THEN n ELSE numTokens - m)
      /\ a \in base .. base + size - 1 /\ read.token = m + a - base + 1
  BY <1>2, <1>4, <1>5
<1> HIDE DEF m, k, size, base, d, n
<1>8. size \in Int /\ m + size <= numTokens
  BY <1>3, <1>6, <1>7
<1> QED BY <1>6, <1>7, <1>8

\* A write of the batch is a prefill's or a decode's.
LEMMA WriteOf ==
    ASSUME NEW p, NEW d, NEW w, w \in Writes(p, d)
    PROVE  \/ \E s \in Elems(p) : w \in PrefillWrites(s)
           \/ \E s \in Elems(d) : w \in DecodeWrites(s)
<1>1. \/ w \in UNION {PrefillWrites(s) : s \in Elems(p)}
      \/ w \in UNION {DecodeWrites(s) : s \in Elems(d)}
  BY DEF Writes
<1> QED BY <1>1

\* What a prefill or decode stores is KV of the first tokens of its sequence.
LEMMA WritesTyped ==
    ASSUME TypeOK, BatchInv, QueueInv, \A s \in Seqs : SizeInv(s), pc = "execute",
           NEW w \in Writes(prefills, decodes)
    PROVE  w.value \in Seq(Token)
<1>1. /\ Elems(prefills) \subseteq Seqs /\ Elems(decodes) \subseteq Seqs
      /\ \A s \in Elems(prefills) : cached[s] + scheduled[s] <= NumPrompt(s)
  BY TypeFacts DEF BatchInv, Elems
<1>2. ASSUME NEW s \in Seqs, NEW p \in 1 .. NumTokens(s), NEW ready
      PROVE  KVOf(s, p, ready) \in Seq(Token)
  <2>1. tokens[s] \in Seq(Token) /\ p \in 1 .. Len(tokens[s])
    BY <1>2, SeqFacts DEF NumTokens
  <2> DEFINE q == tokens[s]
  <2> HIDE DEF q
  <2>2. SubSeq(q, 1, p) \in Seq(Token)
    BY <2>1, CutFacts DEF q
  <2> QED BY <2>2 DEF KVOf, Garbage, q
<1>3. CASE \E s \in Elems(prefills) : w \in PrefillWrites(s)
  <2>5. PICK s \in Elems(prefills) : w \in PrefillWrites(s)
    BY <1>3
  <2>1. PICK p \in cached[s] + 1 .. cached[s] + scheduled[s] :
           w.value = KVOf(s, p, cached[s])
    BY <2>5 DEF PrefillWrites
  <2>2. /\ s \in Seqs /\ cached[s] \in Nat /\ scheduled[s] \in Nat /\ NumTokens(s) \in Nat
        /\ NumPrompt(s) \in Nat /\ cached[s] + scheduled[s] <= NumPrompt(s)
    BY <1>1, SeqFacts
  <2>3. NumTokens(s) >= NumPrompt(s)
    BY <2>2 DEF SizeInv
  <2>4. p \in 1 .. NumTokens(s)
    BY <2>1, <2>2, <2>3
  <2> QED BY <1>2, <2>1, <2>2, <2>4
<1>4. CASE \E s \in Elems(decodes) : w \in DecodeWrites(s)
  <2>1. PICK s \in Elems(decodes) : w.value = KVOf(s, NumTokens(s), NumTokens(s) - 1)
    BY <1>4 DEF DecodeWrites
  <2>2. s \in Seqs /\ NumTokens(s) \in Nat /\ NumPrompt(s) \in Nat \ {0}
    BY <1>1, SeqFacts
  <2>4. NumTokens(s) >= NumPrompt(s)
    BY <2>2 DEF SizeInv
  <2>3. NumTokens(s) \in 1 .. NumTokens(s)
    BY <2>2, <2>4
  <2>5. \A ready : KVOf(s, NumTokens(s), ready) \in Seq(Token)
    BY <1>2, <2>2, <2>3
  <2> QED BY <2>1, <2>5, Zenon
<1>5. \/ \E s \in Elems(prefills) : w \in PrefillWrites(s)
      \/ \E s \in Elems(decodes) : w \in DecodeWrites(s)
  BY WriteOf
<1> QED BY <1>3, <1>4, <1>5

\* So is what a transfer stores, if it stores anything known.
LEMMA TransferWritesTyped ==
    ASSUME TypeOK, NEW finished \in SUBSET Transfers, NEW f,
           \A t \in finished : \E q \in Seqs : Attempt[q] = t,
           NEW w \in TransferWrites([t \in finished |-> f[t]])
    PROVE  w.value \in Seq(Token)
<1>1. PICK t \in finished :
         LET s == CHOOSE q \in Seqs : Attempt[q] = t IN
         \E read \in TokensRead(Cache, claims[t], NumPrompt(s), 0) :
            \/ w.value = SubSeq(Prompt[s], 1, read.token)
            \/ w.value = Garbage
  BY DEF TransferWrites
<1> DEFINE s == CHOOSE q \in Seqs : Attempt[q] = t
<1>2. s \in Seqs
  BY <1>1
<1> HIDE DEF s
<1>3. /\ claims[t] \in Seq(Nat) /\ Cache \in Caches /\ NumPrompt(s) \in Nat
      /\ Prompt[s] \in Seq(Token) /\ NumPrompt(s) = Len(Prompt[s])
  <2>1. claims[t] \in Seq(Blocks) /\ NumPrompt(s) \in Nat /\ Prompt[s] \in Seq(Token)
    BY <1>1, <1>2, TypeFacts, SeqFacts
  <2>2. Cache \in Caches
    BY PoolAssumption DEF Cache, Caches
  <2>3. claims[t] \in Seq(Nat)
    <3>1. Blocks \subseteq Nat
      BY DEF Blocks
    <3> QED BY <2>1, <3>1, SeqMonotonic
  <2> QED BY <2>1, <2>2, <2>3 DEF NumPrompt
<1>4. CASE w.value = Garbage
  BY <1>4 DEF Garbage
<1>5. CASE \E read \in TokensRead(Cache, claims[t], NumPrompt(s), 0) :
             w.value = SubSeq(Prompt[s], 1, read.token)
  <2>1. PICK read \in TokensRead(Cache, claims[t], NumPrompt(s), 0) :
           w.value = SubSeq(Prompt[s], 1, read.token)
    BY <1>5
  <2>2. read.token \in 1 .. NumPrompt(s)
    BY <1>3, TokenIsRead
  <2> DEFINE n == read.token
             p == Prompt[s]
  <2> HIDE DEF n, p
  <2>3. SubSeq(p, 1, n) \in Seq(Token)
    <3>1. n \in 0 .. Len(p) /\ p \in Seq(Token)
      BY <1>3, <2>2 DEF n, p
    <3> QED BY <3>1, CutFacts
  <2> QED BY <2>1, <2>3 DEF n, p
<1> QED BY <1>1, <1>4, <1>5 DEF s

\* A step leaves KV in the cache.
LEMMA RunStepTyped ==
    ASSUME TypeOK, NEW writes, \A w \in writes : w.value \in Seq(Token), RunStep(writes)
    PROVE  kv' \in [Blocks -> [1 .. BlockSize -> Seq(Token)]]
<1>1. \A b \in Blocks : \A o \in 1 .. BlockSize : kv[b][o] \in Seq(Token)
  <2>1. kv \in [Blocks -> [1 .. BlockSize -> Seq(Token)]]
    BY TypeFacts DEF KVTypeOK
  <2> QED BY <2>1
<1>2. \A b \in Blocks : \A o \in 1 .. BlockSize :
         (\E w \in writes : w.block = b /\ w.offset = o) =>
            (CHOOSE w \in writes : w.block = b /\ w.offset = o).value \in Seq(Token)
  <2> SUFFICES ASSUME NEW b \in Blocks, NEW o \in 1 .. BlockSize,
                      \E w \in writes : w.block = b /\ w.offset = o
               PROVE  (CHOOSE w \in writes : w.block = b /\ w.offset = o).value \in Seq(Token)
    OBVIOUS
  <2> DEFINE x == CHOOSE w \in writes : w.block = b /\ w.offset = o
  <2>1. x \in writes
    OBVIOUS
  <2> HIDE DEF x
  <2>2. x.value \in Seq(Token)
    BY <2>1
  <2> QED BY <2>2 DEF x
<1> QED BY <1>1, <1>2 DEF RunStep

\* The worker takes the commands and reports the ends of some transfers.
LEMMA ReportedTransfers ==
    ASSUME EventInv, pc = "execute", pc' = "post", \A q \in Seqs : TransferInv(q),
           NEW finished \in SUBSET (active \cup loads \cup sends), NEW again \in SUBSET ended,
           DOMAIN events' = finished \cup again, fresh' = finished \cup again,
           active' = (active \cup loads \cup sends) \ finished, loads' = {}, sends' = {},
           ended' = ended \cup finished,
           status' = status, requests' = requests, table' = table, pending' = pending,
           claims' = claims, config' = config
    PROVE  EventInv' /\ \A q \in Seqs : TransferInv(q)'
<1>1. /\ DOMAIN events = {} /\ fresh = {} /\ \A t \in ended : ~Queued(t)
      /\ \A t \in Transfers : Queued(t) \/ t \in ended \/ pending[t] # NoRequest =>
            \E s \in Seqs : Attempt[s] = t
  BY DEF EventInv
<1>2. /\ \A t : Queued(t)' <=> Queued(t) /\ t \notin finished
      /\ \A t \in finished : Queued(t)
  BY DEF Queued
<1>3. \A t \in ended' : ~Queued(t)'
  BY <1>1, <1>2
<1>4. EventInv'
  <2>1. \A t \in Transfers : Queued(t)' \/ t \in ended' \/ pending'[t] # NoRequest =>
            \E s \in Seqs : Attempt[s] = t
    BY <1>1, <1>2
  <2>2. fresh' \subseteq DOMAIN events' /\ DOMAIN events' \subseteq ended'
    OBVIOUS
  <2> QED BY <1>3, <2>1, <2>2 DEF EventInv
<1>5. ASSUME NEW q \in Seqs PROVE TransferInv(q)'
  <2> DEFINE t == Attempt[q]
  <2>1. /\ Underway(t) <=> Queued(t)
        /\ Underway(t) <=> Transferring(q)
        /\ Underway(t) => pending[t] = RequestId[q] /\ claims[t] = table[q]
        /\ pending[t] # NoRequest => Underway(t)
        /\ Unbegun(q) => ~Queued(t) /\ t \notin ended /\ pending[t] = NoRequest
    BY <1>1 DEF TransferInv, Underway
  <2>2. RequestId[q] # NoRequest
    BY IdAssumption
  <2>3. (Transferring(q)' <=> Transferring(q)) /\ (Unbegun(q)' <=> Unbegun(q))
    BY DEF Transferring, Alive, Unbegun, Decodes
  <2>4. t \in fresh' <=> t \in finished \/ t \in again
    OBVIOUS
  <2>5. Underway(t)' <=> Queued(t)' \/ (t \in fresh' /\ pending[t] # NoRequest)
    BY DEF Underway
  <2>6. t \in again => t \in ended
    OBVIOUS
  <2> HIDE DEF t
  <2>7. Underway(t)' <=> Underway(t)
    BY <1>1, <1>2, <2>1, <2>2, <2>4, <2>5, <2>6
  <2>8. Unbegun(q) => ~Queued(t)' /\ t \notin ended'
    BY <1>2, <2>1
  <2> QED BY <2>1, <2>3, <2>7, <2>8 DEF TransferInv, t
<1> QED BY <1>4, <1>5

\* The batch is run.
LEMMA ExecuteInv == ASSUME PDInv, Execute PROVE PDInv'
<1>1. /\ pc = "execute" /\ pc' = "post" /\ loads' = {} /\ sends' = {} /\ cancels' = {}
      /\ todo' = prefills \o decodes
      /\ UNCHANGED <<queueVars, requestVars, pending, claims, prefills, decodes, budget,
                     bmVars, scheduled, config>>
  BY DEF Execute
<1>2. PICK finished \in SUBSET (active \cup loads \cup sends), again \in SUBSET ended :
         \E reported \in [finished \cup again -> Outcomes] :
            /\ events' = reported
            /\ fresh' = finished \cup again
            /\ active' = (active \cup loads \cup sends) \ finished
            /\ ended' = ended \cup finished
            /\ RunStep(Writes(prefills, decodes) \cup
                  IF Decodes THEN TransferWrites([t \in finished |-> reported[t]]) ELSE {})
  BY DEF Execute
<1>3. PICK reported \in [finished \cup again -> Outcomes] :
         /\ events' = reported
         /\ fresh' = finished \cup again
         /\ active' = (active \cup loads \cup sends) \ finished
         /\ ended' = ended \cup finished
         /\ RunStep(Writes(prefills, decodes) \cup
               IF Decodes THEN TransferWrites([t \in finished |-> reported[t]]) ELSE {})
  BY <1>2
<1>4. /\ TypeOK /\ IsFiniteSet(remote) /\ OwnInv /\ EntriesInv
      /\ \A s \in Seqs : SizeInv(s)
      /\ \A s \in Seqs : TransferInv(s)
      /\ QueueInv /\ BatchInv /\ LifeInv /\ EventInv
  BY <1>1, OpenFacts
<1>5. /\ active \subseteq Transfers /\ loads \subseteq Transfers /\ sends \subseteq Transfers
      /\ ended \subseteq Transfers /\ prefills \in Seq(Seqs) /\ decodes \in Seq(Seqs)
  BY <1>4, TypeFacts
<1>6. /\ waiting' = waiting /\ running' = running /\ status' = status
      /\ requests' = requests /\ remote' = remote /\ cancelled' = cancelled
      /\ seen' = seen /\ handoffs' = handoffs /\ failures' = failures
      /\ tokens' = tokens /\ cached' = cached /\ table' = table /\ reserved' = reserved
      /\ free' = free /\ ref' = ref /\ hash' = hash /\ index' = index
      /\ pending' = pending /\ claims' = claims /\ prefills' = prefills
      /\ decodes' = decodes /\ budget' = budget /\ scheduled' = scheduled
      /\ config' = config
  BY <1>1 DEF queueVars, requestVars, bmVars, blockVars
<1>7. /\ BlockTypeOK' /\ OwnInv' /\ EntriesInv' /\ QueueInv' /\ LifeInv'
      /\ \A s \in Seqs : SizeInv(s)'
  <2>1. UNCHANGED <<waiting, running, status, requests, remote, cancelled, tokens, cached,
                    table, reserved, free, ref, hash, index, config>>
    BY <1>6
  <2> QED BY <1>4, <2>1, RequestsKept
<1>8. DOMAIN events' = finished \cup again
  BY <1>3
<1>9. EventInv' /\ \A s \in Seqs : TransferInv(s)'
  BY <1>1, <1>3, <1>4, <1>6, <1>8, ReportedTransfers
<1>10. KVTypeOK'
  <2> DEFINE received == TransferWrites([t \in finished |-> reported[t]])
             writes == Writes(prefills, decodes) \cup IF Decodes THEN received ELSE {}
  <2>1. \A w \in Writes(prefills, decodes) : w.value \in Seq(Token)
    BY <1>1, <1>4, WritesTyped
  <2>2. \A w \in received : w.value \in Seq(Token)
    <3>1. \A t \in finished : Queued(t) /\ t \in Transfers
      BY <1>5 DEF Queued
    <3>2. \A t \in finished : \E q \in Seqs : Attempt[q] = t
      BY <1>4, <3>1 DEF EventInv
    <3>3. finished \in SUBSET Transfers
      BY <3>1
    <3> QED BY <1>4, <3>2, <3>3, TransferWritesTyped
  <2> HIDE DEF received
  <2>3. \A w \in writes : w.value \in Seq(Token)
    BY <2>1, <2>2
  <2>4. RunStep(writes)
    BY <1>3 DEF received
  <2> HIDE DEF writes
  <2>5. kv' \in [Blocks -> [1 .. BlockSize -> Seq(Token)]]
    BY <1>4, <2>3, <2>4, RunStepTyped
  <2> QED BY <1>4, <1>6, <2>5, TypeFacts DEF KVTypeOK, Blocks
<1>11. /\ todo' \in Seq(Seqs) /\ Distinct(todo')
       /\ Elems(todo') = Elems(prefills) \cup Elems(decodes)
       /\ Elems(prefills) \cup Elems(decodes) \subseteq Elems(running)
  <2>1. /\ Distinct(prefills) /\ Distinct(decodes)
        /\ Elems(prefills) \cap Elems(decodes) = {}
        /\ Elems(prefills) \cup Elems(decodes) \subseteq Elems(running)
    BY <1>1, <1>4 DEF BatchInv
  <2> QED BY <1>1, <1>5, <2>1, ConcatFacts
<1>12. BatchInv'
  <2>1. \A s \in Elems(prefills) \cup Elems(decodes) : RequestId[s] \notin cancelled
    BY <1>1, <1>4 DEF BatchInv
  <2> QED BY <1>1, <1>6, <1>11, <2>1 DEF BatchInv
<1>13. TypeOK'
  <2>1. MaxNumSeqs' = MaxNumSeqs /\ MaxBatchedTokens' = MaxBatchedTokens
    BY <1>6 DEF MaxNumSeqs, MaxBatchedTokens
  <2>2. /\ config \in Configs /\ Len(running) + Cardinality(remote) <= MaxNumSeqs
    BY <1>4 DEF TypeOK
  <2>3. /\ pc' \in {"idle", "admit", "batch", "execute", "post", "events", "closing",
                    "closed"}
        /\ loads' \subseteq Transfers /\ sends' \subseteq Transfers
        /\ cancels' \subseteq Transfers
    BY <1>1
  <2>4. /\ active' \subseteq Transfers /\ ended' \subseteq Transfers
        /\ fresh' \subseteq Transfers /\ DOMAIN events' \subseteq Transfers
        /\ \A t \in DOMAIN events' : events'[t] \in Outcomes
    BY <1>3, <1>5, <1>8
  <2> QED BY <1>4, <1>6, <1>7, <1>10, <1>11, <2>1, <2>2, <2>3, <2>4, TypeFacts, TypeMade,
             Zenon
<1>14. IsFiniteSet(remote') /\ pc' \notin {"closing", "closed"}
  BY <1>1, <1>4, <1>6
<1> QED BY <1>7, <1>9, <1>12, <1>13, <1>14, PDInvMade

-----------------------------------------------------------------------------
(* The end of a request                                                    *)

\* No request but the released one is affected.
LEMMA ReleaseLife ==
    ASSUME TypeOK, EntriesInv, LifeInv, NEW s \in Seqs, Alive(s), ~Alive(s)',
           \A q \in Seqs \ {s} : Alive(q)' <=> Alive(q),
           requests' = [requests EXCEPT ![RequestId[s]] = NoSeq],
           cancelled' = cancelled \ {RequestId[s]},
           status' = [status EXCEPT ![s] = "FINISHED"], config' = config
    PROVE  LifeInv'
<1>1. status'[s] = "FINISHED" /\ \A q \in Seqs \ {s} : status'[q] = status[q]
  BY TypeFacts
<1>2. /\ Decodes' <=> Decodes
      /\ requests \in [Requests -> Seqs \cup {NoSeq}] /\ cancelled \subseteq Requests
  BY TypeFacts DEF Decodes
<1>3. \A q \in Seqs : /\ status[q] \in {"WAITING", "REMOTE", "RUNNING"} => Alive(q)
                      /\ status[q] = "REMOTE" => Decodes
                      /\ status[q] = "FINISHED" /\ Alive(q) => ~Decodes
  BY DEF LifeInv
<1>4. ASSUME NEW q \in Seqs
      PROVE  /\ status'[q] \in {"WAITING", "REMOTE", "RUNNING"} => Alive(q)'
             /\ status'[q] = "REMOTE" => Decodes'
             /\ status'[q] = "FINISHED" /\ Alive(q)' => ~Decodes'
  <2>1. CASE q = s
    BY <1>1, <2>1
  <2>2. CASE q # s
    <3>1. status'[q] = status[q] /\ (Alive(q)' <=> Alive(q))
      BY <1>1, <2>2
    <3> QED BY <1>2, <1>3, <3>1
  <2> QED BY <2>1, <2>2
<1>5. ASSUME NEW r \in cancelled' PROVE requests'[r] # NoSeq /\ Transferring(requests[r])'
  <2>1. r \in cancelled /\ r # RequestId[s] /\ requests'[r] = requests[r]
    BY <1>2
  <2>2. /\ requests[r] # NoSeq /\ Transferring(requests[r]) /\ requests[r] \in Seqs
    BY <1>2, <2>1 DEF LifeInv
  <2>3. requests[r] # s
    BY <1>2, <2>1, <2>2 DEF EntriesInv
  <2>4. PICK q \in Seqs : q = requests[r]
    BY <2>2
  <2>5. status'[q] = status[q] /\ (Alive(q)' <=> Alive(q)) /\ Transferring(q)
    BY <1>1, <2>2, <2>3, <2>4
  <2>6. Transferring(q)'
    BY <2>5 DEF Transferring
  <2>7. requests'[r] = q /\ requests'[r] # NoSeq
    BY <2>1, <2>2, <2>4
  <2> QED BY <2>6, <2>7 DEF Transferring, Alive
<1> QED BY <1>4, <1>5 DEF LifeInv

\* A request ends whose transfer, if it ever began, is over.
LEMMA ReleasedInv ==
    ASSUME PDInv, pc \notin {"closing", "closed"}, pc' = pc, NEW s \in Seqs, Alive(s),
           Release(s), cached' = [cached EXCEPT ![s] = 0],
           tokens' \in [Seqs -> Seq(Token)], \A q \in Seqs \ {s} : tokens'[q] = tokens[q],
           NumTokens(s)' >= NumPrompt(s), ~Decodes => tokens'[s] = Prompt[s],
           pending' = pending, claims' = claims, loads' = loads, sends' = sends,
           active' = active, events' = events, ended' = ended, fresh' \subseteq fresh,
           \A t \in Transfers \ {Attempt[s]} : t \in fresh' <=> t \in fresh,
           ~Queued(Attempt[s]),
           pending[Attempt[s]] # NoRequest => Attempt[s] \in DOMAIN events \ fresh',
           hash' = hash, index' = index, config' = config, kv' = kv,
           prefills' = prefills, decodes' = decodes, budget' = budget,
           seen' = seen, handoffs' = handoffs,
           scheduled' \in [Seqs -> Nat], todo' \in Seq(Seqs),
           cancels' \subseteq Transfers, failures' \subseteq Transfers,
           waiting' \in Seq(Seqs), running' \in Seq(Seqs), Len(running') <= Len(running),
           Listed(waiting', "WAITING", status'), Listed(running', "RUNNING", status'),
           BatchInv'
    PROVE  PDInv'
<1>1. /\ TypeOK /\ IsFiniteSet(remote) /\ OwnInv /\ EntriesInv /\ QueueInv /\ LifeInv
      /\ status \in [Seqs -> Statuses] /\ cached \in [Seqs -> Nat]
      /\ remote \subseteq Requests /\ cancelled \subseteq Requests
      /\ running \in Seq(Seqs) /\ fresh \subseteq Transfers
  BY OpenFacts, TypeFacts DEF BlockTypeOK
<1>2. cached' \in [Seqs -> Nat] /\ cached'[s] = 0
      /\ \A q \in Seqs \ {s} : cached'[q] = cached[q]
  BY <1>1
<1>3. /\ OwnInv' /\ EntriesInv' /\ BlockTypeOK' /\ ~Alive(s)'
      /\ \A q \in Seqs \ {s} : /\ Alive(q)' <=> Alive(q)
                               /\ table'[q] = table[q] /\ reserved'[q] = reserved[q]
      /\ requests' \in [Requests -> Seqs \cup {NoSeq}]
      /\ status' = [status EXCEPT ![s] = "FINISHED"]
      /\ remote' = remote \ {RequestId[s]} /\ cancelled' = cancelled \ {RequestId[s]}
  BY <1>1, <1>2, ReleaseFacts
<1>4. requests' = [requests EXCEPT ![RequestId[s]] = NoSeq]
  BY DEF Release
<1>5. status'[s] = "FINISHED" /\ \A q \in Seqs \ {s} : status'[q] = status[q]
  BY <1>1, <1>3
<1>6. /\ IsFiniteSet(remote') /\ Cardinality(remote') <= Cardinality(remote)
      /\ Cardinality(remote) \in Nat /\ Cardinality(remote') \in Nat
  <2>1. remote' \subseteq remote
    BY <1>3
  <2> QED BY <1>1, <2>1, FS_Subset, FS_CardinalityType
<1>7. TypeOK'
  <2>1. KVTypeOK'
    BY <1>1, TypeFacts DEF KVTypeOK, Blocks
  <2>2. MaxNumSeqs' = MaxNumSeqs /\ MaxBatchedTokens' = MaxBatchedTokens
    BY DEF MaxNumSeqs, MaxBatchedTokens
  <2>3. /\ config \in Configs /\ \A t \in DOMAIN events : events[t] \in Outcomes
        /\ Len(running) + Cardinality(remote) <= MaxNumSeqs
        /\ pc \in {"idle", "admit", "batch", "execute", "post", "events", "closing",
                   "closed"}
    BY <1>1 DEF TypeOK
  <2>4. Len(running') + Cardinality(remote') <= MaxNumSeqs'
    <3>1. MaxNumSeqs \in Nat /\ Len(running) \in Nat /\ Len(running') \in Nat
      BY <1>1, TypeFacts
    <3> QED BY <1>6, <2>2, <2>3, <3>1
  <2>5. /\ status' \in [Seqs -> Statuses] /\ remote' \subseteq Requests
        /\ cancelled' \subseteq Requests /\ fresh' \subseteq Transfers
    BY <1>1, <1>3 DEF Statuses
  <2> QED BY <1>1, <1>3, <2>1, <2>2, <2>3, <2>4, <2>5, TypeFacts, TypeMade, Zenon
<1>8. ~Holding(s)' /\ ~Unbegun(s)' /\ ~Transferring(s)'
  BY <1>3, <1>5 DEF Holding, Transferring, Unbegun
<1>9. SizeInv(s)'
  <2>1. status'[s] \notin {"NEW", "WAITING", "REMOTE", "RUNNING"} /\ Decodes' = Decodes
    BY <1>5 DEF Decodes
  <2>2. NumPrompt(s)' = NumPrompt(s)
    BY DEF NumPrompt
  <2> QED BY <1>8, <2>1, <2>2 DEF SizeInv
<1>10. TransferInv(s)'
  <2>1. Queued(Attempt[s])' <=> Queued(Attempt[s])
    BY DEF Queued
  <2>2. ~Underway(Attempt[s])'
    BY <2>1 DEF Underway
  <2> QED BY <1>8, <2>2 DEF TransferInv
<1>11. QueueInv'
  <2>1. remote' = {RequestId[x] : x \in {q \in Seqs : status'[q] = "REMOTE"}}
    <3>1. {RequestId[x] : x \in {q \in Seqs : status'[q] = "REMOTE"}}
             = remote \ {RequestId[s]}
      <4>1. QueueInv /\ LifeInv /\ status \in [Seqs -> Statuses]
        BY <1>1
      <4>2. status' = [status EXCEPT ![s] = "FINISHED"]
        BY <1>3
      <4>3. "FINISHED" # "REMOTE"
        OBVIOUS
      <4> QED BY <4>1, <4>2, <4>3, RemoteFacts, Zenon
    <3> QED BY <1>3, <3>1
  <2> QED BY <2>1 DEF QueueInv, Listed
<1>12. LifeInv'
  BY <1>1, <1>3, <1>4, ReleaseLife
<1>13. \A q \in Seqs \ {s} :
              /\ tokens'[q] = tokens[q] /\ cached'[q] = cached[q] /\ status'[q] = status[q]
              /\ table'[q] = table[q] /\ reserved'[q] = reserved[q]
              /\ Alive(q)' <=> Alive(q)
  BY <1>2, <1>3, <1>5
<1>14. /\ loads' \in {loads, loads \cup {Attempt[s]}}
       /\ sends' \in {sends, sends \cup {Attempt[s]}}
       /\ Attempt[s] \in fresh' => Attempt[s] \in fresh
       /\ \A t \in Transfers \ {Attempt[s]} :
              /\ pending'[t] = pending[t] /\ claims'[t] = claims[t]
              /\ t \in fresh' <=> t \in fresh
  OBVIOUS
<1> QED BY <1>3, <1>6, <1>7, <1>9, <1>10, <1>11, <1>12, <1>13, <1>14, OneChanged

-----------------------------------------------------------------------------
(* postprocess                                                             *)

\* What the postprocess loop knows of the request it looks at, and leaves alone.
LEMMA PostFacts ==
    ASSUME PDInv, NEW s \in Seqs, NextPost(s), Counted(s)
    PROVE  /\ pc = "post" /\ pc' = pc /\ pc \notin {"closing", "closed"}
           /\ TypeOK /\ IsFiniteSet(remote) /\ OwnInv /\ EntriesInv /\ QueueInv /\ LifeInv
           /\ s \in Elems(running) /\ status[s] = "RUNNING" /\ Alive(s)
           /\ SizeInv(s) /\ TransferInv(s) /\ ~Transferring(s) /\ ~Underway(Attempt[s])
           /\ RequestId[s] \notin cancelled
           /\ scheduled' \in [Seqs -> Nat] /\ Computed(s) \in Nat
           /\ waiting' = waiting /\ active' = active /\ ended' = ended /\ events' = events
           /\ fresh' = fresh /\ prefills' = prefills /\ decodes' = decodes
           /\ budget' = budget /\ seen' = seen /\ failures' = failures /\ loads' = loads
           /\ cancels' = cancels /\ hash' = hash /\ index' = index /\ kv' = kv
           /\ config' = config /\ todo' \in Seq(Seqs)
<1>1. /\ pc = "post" /\ todo # <<>> /\ s = Head(todo)
  BY DEF NextPost
<1>2. /\ scheduled' = [scheduled EXCEPT ![s] = 0] /\ todo' = Tail(todo)
      /\ pc' = pc /\ waiting' = waiting /\ prefills' = prefills /\ decodes' = decodes
      /\ budget' = budget /\ seen' = seen /\ failures' = failures /\ loads' = loads
      /\ cancels' = cancels /\ hash' = hash /\ index' = index /\ kv' = kv
      /\ config' = config
      /\ active' = active /\ ended' = ended /\ events' = events /\ fresh' = fresh
  BY DEF Counted, workerVars
<1>3. /\ TypeOK /\ IsFiniteSet(remote) /\ OwnInv /\ EntriesInv /\ QueueInv /\ LifeInv
  BY <1>1, OpenFacts
<1>4. /\ s \in Elems(running) /\ status[s] = "RUNNING" /\ Alive(s)
      /\ SizeInv(s) /\ TransferInv(s) /\ ~Transferring(s) /\ ~Underway(Attempt[s])
      /\ RequestId[s] \notin cancelled /\ Tail(todo) \in Seq(Seqs)
  BY <1>1, CandidateFacts, Zenon
<1>5. scheduled' \in [Seqs -> Nat]
  BY <1>2, <1>3, TypeFacts DEF KVTypeOK
<1>6. Computed(s) \in Nat
  BY <1>3, SeqFacts DEF Computed
<1>7. todo' \in Seq(Seqs)
  BY <1>2, <1>4
<1> QED BY <1>1, <1>2, <1>3, <1>4, <1>5, <1>6, <1>7

\* The batch, when s leaves the loop and perhaps running.
LEMMA PostBatch ==
    ASSUME PDInv, NEW s \in Seqs, NextPost(s), Counted(s),
           Elems(running) \ {s} \subseteq Elems(running'), cancelled' \subseteq cancelled
    PROVE  BatchInv'
<1>1. /\ pc = "post" /\ todo # <<>> /\ s = Head(todo) /\ pc' = pc /\ todo' = Tail(todo)
      /\ prefills' = prefills /\ decodes' = decodes
  BY DEF NextPost, Counted
<1>2. /\ Distinct(Tail(todo)) /\ s \notin Elems(Tail(todo))
      /\ Elems(todo) = {s} \cup Elems(Tail(todo))
  BY <1>1, CandidateFacts, Zenon
<1>3. /\ Elems(todo) \subseteq Elems(running)
      /\ \A q \in Elems(prefills) \cup Elems(decodes) : RequestId[q] \notin cancelled
  BY <1>1, OpenFacts DEF BatchInv
<1>4. Distinct(todo') /\ Elems(todo') \subseteq Elems(running')
  BY <1>1, <1>2, <1>3
<1>5. \A q \in Elems(prefills') \cup Elems(decodes') : RequestId[q] \notin cancelled'
  BY <1>1, <1>3
<1> QED BY <1>1, <1>4, <1>5 DEF BatchInv

\* The types, when the request goes on.
LEMMA PostTypes ==
    ASSUME PDInv, NEW s \in Seqs, NextPost(s), Counted(s),
           cached' = [cached EXCEPT ![s] = Computed(s)],
           tokens' \in [Seqs -> Seq(Token)], UNCHANGED <<requests, remote, cancelled>>,
           UNCHANGED <<table, reserved, free, ref>>,
           status' \in [Seqs -> Statuses], running' \in Seq(Seqs),
           Len(running') <= Len(running), handoffs' \subseteq Transfers,
           pending' \in [Transfers -> Requests \cup {NoRequest}],
           sends' \subseteq Transfers, claims' \in [Transfers -> Seq(Blocks)]
    PROVE  TypeOK' /\ BlockTypeOK' /\ IsFiniteSet(remote')
<1>1. /\ pc = "post" /\ pc' = pc /\ TypeOK /\ IsFiniteSet(remote)
      /\ scheduled' \in [Seqs -> Nat] /\ Computed(s) \in Nat
      /\ waiting' = waiting /\ active' = active /\ ended' = ended /\ events' = events
      /\ fresh' = fresh /\ prefills' = prefills /\ decodes' = decodes
      /\ budget' = budget /\ seen' = seen /\ failures' = failures /\ loads' = loads
      /\ cancels' = cancels /\ hash' = hash /\ index' = index /\ kv' = kv
      /\ config' = config /\ todo' \in Seq(Seqs)
  BY PostFacts, Zenon
<1>2. /\ requests' = requests /\ remote' = remote /\ cancelled' = cancelled
      /\ table' = table /\ reserved' = reserved /\ free' = free /\ ref' = ref
  OBVIOUS
<1>3. BlockTypeOK'
  <2>1. BlockTypeOK /\ cached \in [Seqs -> Nat]
    BY <1>1, TypeFacts DEF BlockTypeOK
  <2>2. cached' \in [Seqs -> Nat]
    BY <1>1, <2>1
  <2> QED BY <1>1, <1>2, <2>1, <2>2 DEF BlockTypeOK, Blocks
<1>4. KVTypeOK'
  BY <1>1, TypeFacts DEF KVTypeOK, Blocks
<1>5. MaxNumSeqs' = MaxNumSeqs /\ MaxBatchedTokens' = MaxBatchedTokens
  BY <1>1 DEF MaxNumSeqs, MaxBatchedTokens
<1>6. /\ config \in Configs /\ \A t \in DOMAIN events : events[t] \in Outcomes
      /\ Len(running) + Cardinality(remote) <= MaxNumSeqs
      /\ pc \in {"idle", "admit", "batch", "execute", "post", "events", "closing", "closed"}
  BY <1>1 DEF TypeOK
<1>7. Len(running') + Cardinality(remote') <= MaxNumSeqs'
  <2>1. /\ MaxNumSeqs \in Nat /\ Len(running) \in Nat /\ Len(running') \in Nat
        /\ Cardinality(remote) \in Nat
    BY <1>1, TypeFacts, FS_CardinalityType
  <2> QED BY <1>2, <1>5, <1>6, <2>1
<1>8. TypeOK'
  BY <1>1, <1>2, <1>3, <1>4, <1>5, <1>6, <1>7, TypeFacts, TypeMade, Zenon
<1>9. IsFiniteSet(remote')
  BY <1>1, <1>2
<1> QED BY <1>3, <1>8, <1>9

\* The request stays in running.
LEMMA PostKept ==
    ASSUME PDInv, NEW s \in Seqs, NextPost(s), Counted(s),
           cached' = [cached EXCEPT ![s] = Computed(s)],
           tokens' \in [Seqs -> Seq(Token)], \A q \in Seqs \ {s} : tokens'[q] = tokens[q],
           UNCHANGED <<running, status, requests, remote, cancelled, handoffs, pending, sends,
                       claims, table, reserved, free, ref>>,
           SizeInv(s)'
    PROVE  PDInv'
<1>1. /\ running' = running /\ status' = status /\ requests' = requests
      /\ remote' = remote /\ cancelled' = cancelled /\ handoffs' = handoffs
      /\ pending' = pending /\ sends' = sends /\ claims' = claims
      /\ table' = table /\ reserved' = reserved /\ free' = free /\ ref' = ref
  OBVIOUS
<1>2. /\ pc' = pc /\ pc \notin {"closing", "closed"} /\ TypeOK /\ OwnInv /\ EntriesInv
      /\ QueueInv /\ LifeInv /\ TransferInv(s)
      /\ waiting' = waiting /\ active' = active /\ ended' = ended /\ events' = events
      /\ fresh' = fresh /\ loads' = loads /\ config' = config
  BY PostFacts, Zenon
<1>3. /\ status \in [Seqs -> Statuses] /\ running \in Seq(Seqs)
      /\ handoffs \subseteq Transfers
      /\ pending \in [Transfers -> Requests \cup {NoRequest}]
      /\ sends \subseteq Transfers /\ claims \in [Transfers -> Seq(Blocks)]
      /\ cached \in [Seqs -> Nat]
  BY <1>2, TypeFacts DEF BlockTypeOK
<1>4. TypeOK' /\ BlockTypeOK' /\ IsFiniteSet(remote')
  <2>1. Len(running') <= Len(running)
    BY <1>1, <1>3
  <2>2. /\ status' \in [Seqs -> Statuses] /\ running' \in Seq(Seqs)
        /\ handoffs' \subseteq Transfers
        /\ pending' \in [Transfers -> Requests \cup {NoRequest}]
        /\ sends' \subseteq Transfers /\ claims' \in [Transfers -> Seq(Blocks)]
    BY <1>1, <1>3
  <2>3. UNCHANGED <<requests, remote, cancelled>> /\ UNCHANGED <<table, reserved, free, ref>>
    BY <1>1
  <2> QED BY <2>1, <2>2, <2>3, PostTypes
<1>5. \A q \in Seqs : Alive(q)' <=> Alive(q)
  BY <1>1 DEF Alive
<1>6. OwnInv'
  <2>1. \A q \in Seqs : Held(q) # {} => Alive(q)' /\ status'[q] # "WAITING"
    BY <1>1, <1>2, <1>5 DEF OwnInv
  <2> QED BY <1>1, <1>2, <1>4, <2>1, OwnKept
<1>7. EntriesInv'
  BY <1>1, <1>2 DEF EntriesInv
<1>8. TransferInv(s)'
  <2>1. Queued(Attempt[s])' <=> Queued(Attempt[s])
    BY <1>1, <1>2 DEF Queued
  <2> QED BY <1>1, <1>2, <1>5, <2>1, TransferKept
<1>9. QueueInv'
  BY <1>1, <1>2 DEF QueueInv, Listed, Distinct, Elems
<1>10. LifeInv'
  BY <1>1, <1>2 DEF LifeInv, Alive, Decodes, Transferring
<1>11. BatchInv'
  BY <1>1, PostBatch
<1>12. \A q \in Seqs \ {s} :
              /\ tokens'[q] = tokens[q] /\ cached'[q] = cached[q] /\ status'[q] = status[q]
              /\ table'[q] = table[q] /\ reserved'[q] = reserved[q]
              /\ Alive(q)' <=> Alive(q)
  BY <1>1, <1>3, <1>5
<1>13. /\ loads' \in {loads, loads \cup {Attempt[s]}}
       /\ sends' \in {sends, sends \cup {Attempt[s]}}
       /\ Attempt[s] \in fresh' => Attempt[s] \in fresh
       /\ loads' = loads /\ sends' = sends
       /\ \A t \in Transfers \ {Attempt[s]} :
              /\ pending'[t] = pending[t] /\ claims'[t] = claims[t]
              /\ t \in fresh' <=> t \in fresh
  BY <1>1, <1>2
<1> QED BY <1>2, <1>4, <1>6, <1>7, <1>8, <1>9, <1>10, <1>11, <1>12, <1>13, OneChanged

\* What does not change the size of s.
LEMMA SizeSame ==
    ASSUME NEW s \in Seqs, config' = config, status' = status, requests' = requests
    PROVE  /\ Decodes' = Decodes /\ (Holding(s)' <=> Holding(s))
           /\ (Unbegun(s)' <=> Unbegun(s))
           /\ NumPrompt(s)' = NumPrompt(s) /\ TotalBlocks(s)' = TotalBlocks(s)
BY DEF Decodes, Holding, Transferring, Alive, Unbegun, NumPrompt, TotalBlocks, Footprint

\* A part of the prompt is computed.
LEMMA PostChunkInv == ASSUME PDInv, NEW s \in Seqs, PostChunk(s) PROVE PDInv'
<1>1. /\ NextPost(s) /\ StillPrefill(s) /\ Counted(s)
      /\ cached' = [cached EXCEPT ![s] = Computed(s)]
      /\ UNCHANGED <<running, status, requests, remote, cancelled, handoffs, pending, sends,
                     claims, table, reserved, free, ref>>
      /\ tokens' = tokens /\ status' = status /\ requests' = requests /\ table' = table
      /\ reserved' = reserved
  BY DEF PostChunk
<1>2. TypeOK /\ SizeInv(s) /\ config' = config
  BY <1>1, PostFacts, Zenon
<1>3. tokens \in [Seqs -> Seq(Token)] /\ cached \in [Seqs -> Nat]
  BY <1>2, TypeFacts DEF BlockTypeOK
<1>4. SizeInv(s)'
  <2>1. /\ Decodes' = Decodes /\ (Holding(s)' <=> Holding(s))
        /\ (Unbegun(s)' <=> Unbegun(s))
        /\ NumPrompt(s)' = NumPrompt(s) /\ TotalBlocks(s)' = TotalBlocks(s)
    BY <1>1, <1>2, SizeSame
  <2>2. NumTokens(s)' = NumTokens(s) /\ NumCompletion(s)' = NumCompletion(s)
    BY <1>1 DEF NumTokens, NumCompletion, NumPrompt
  <2>3. IsPrefill(s)'
    <3>1. cached'[s] = Computed(s)
      BY <1>1, <1>3
    <3> QED BY <1>1, <3>1 DEF IsPrefill, StillPrefill, NumPrompt
  <2> QED BY <1>1, <1>2, <2>1, <2>2, <2>3 DEF SizeInv
<1>5. tokens' \in [Seqs -> Seq(Token)] /\ \A q \in Seqs \ {s} : tokens'[q] = tokens[q]
  BY <1>1, <1>3
<1> QED BY <1>1, <1>4, <1>5, PostKept

\* A token is sampled, and there is room for another.
LEMMA PostTokenInv ==
    ASSUME PDInv, NEW s \in Seqs, NEW token \in Token, PostToken(s, token) PROVE PDInv'
<1>1. /\ NextPost(s) /\ Decodes /\ ~Ends(s, token) /\ Counted(s)
      /\ cached' = [cached EXCEPT ![s] = Computed(s)]
      /\ tokens' = [tokens EXCEPT ![s] = Append(@, token)]
      /\ UNCHANGED <<running, status, requests, remote, cancelled, handoffs, pending, sends,
                     claims, table, reserved, free, ref>>
      /\ status' = status /\ requests' = requests /\ table' = table
      /\ reserved' = reserved
  BY DEF PostToken
<1>2. TypeOK /\ SizeInv(s) /\ config' = config /\ status[s] = "RUNNING"
  BY <1>1, PostFacts, Zenon
<1>3. tokens \in [Seqs -> Seq(Token)] /\ cached \in [Seqs -> Nat]
  BY <1>2, TypeFacts DEF BlockTypeOK
<1>4. tokens'[s] = Append(tokens[s], token) /\ \A q \in Seqs \ {s} : tokens'[q] = tokens[q]
  BY <1>1, <1>3
<1>5. tokens' \in [Seqs -> Seq(Token)] /\ Len(tokens'[s]) = Len(tokens[s]) + 1
  <2>1. tokens[s] \in Seq(Token)
    BY <1>3
  <2>2. Append(tokens[s], token) \in Seq(Token)
        /\ Len(Append(tokens[s], token)) = Len(tokens[s]) + 1
    BY <2>1
  <2> QED BY <1>1, <1>3, <1>4, <2>2
<1>6. SizeInv(s)'
  <2>1. /\ Decodes' = Decodes /\ (Holding(s)' <=> Holding(s))
        /\ (Unbegun(s)' <=> Unbegun(s))
        /\ NumPrompt(s)' = NumPrompt(s) /\ TotalBlocks(s)' = TotalBlocks(s)
    BY <1>1, <1>2, SizeSame
  <2>2. /\ NumTokens(s) \in Nat /\ NumPrompt(s) \in Nat /\ MaxTokens[s] \in Nat
        /\ NumTokens(s) >= NumPrompt(s) /\ NumCompletion(s) < MaxTokens[s]
        /\ NumCompletion(s) = NumTokens(s) - NumPrompt(s)
    BY <1>1, <1>2, SeqFacts DEF SizeInv, NumCompletion
  <2>3. NumTokens(s)' = NumTokens(s) + 1 /\ NumCompletion(s)' = NumTokens(s)' - NumPrompt(s)
    BY <1>5, <2>1 DEF NumTokens, NumCompletion
  <2>4. NumTokens(s)' >= NumPrompt(s) /\ NumCompletion(s)' < MaxTokens[s]
    <3>1. NumCompletion(s) + 1 # MaxTokens[s]
      BY <1>1 DEF Ends
    <3> QED BY <2>2, <2>3, <3>1
  <2>5. ~Unbegun(s)
    BY <1>1, <1>2 DEF Unbegun
  <2>6. /\ status'[s] = "RUNNING" /\ Decodes'
        /\ Holding(s)' => Len(table'[s]) + Len(reserved'[s]) = TotalBlocks(s)'
    BY <1>1, <1>2, <2>1 DEF SizeInv
  <2> QED BY <2>1, <2>4, <2>5, <2>6 DEF SizeInv
<1> QED BY <1>1, <1>4, <1>5, <1>6, PostKept

\* P hands the prompt's KV off, and keeps its blocks.
LEMMA PostHandoffInv == ASSUME PDInv, NEW s \in Seqs, PostHandoff(s) PROVE PDInv'
<1> DEFINE t == Attempt[s]
           r == RequestId[s]
<1>1. /\ NextPost(s) /\ ~Decodes /\ Counted(s)
      /\ cached' = [cached EXCEPT ![s] = Computed(s)]
      /\ running' = Without(running, s) /\ status' = [status EXCEPT ![s] = "FINISHED"]
      /\ pending' = [pending EXCEPT ![t] = r] /\ sends' = sends \cup {t}
      /\ claims' = [claims EXCEPT ![t] = table[s]] /\ handoffs' = handoffs \cup {t}
      /\ requests' = requests /\ remote' = remote /\ cancelled' = cancelled
      /\ tokens' = tokens /\ table' = table /\ reserved' = reserved /\ free' = free
      /\ ref' = ref
  BY DEF PostHandoff
<1>2. /\ pc' = pc /\ pc \notin {"closing", "closed"} /\ TypeOK /\ OwnInv /\ EntriesInv
      /\ QueueInv /\ LifeInv /\ SizeInv(s) /\ TransferInv(s)
      /\ s \in Elems(running) /\ status[s] = "RUNNING" /\ Alive(s)
      /\ RequestId[s] \notin cancelled
      /\ waiting' = waiting /\ active' = active /\ ended' = ended /\ events' = events
      /\ fresh' = fresh /\ loads' = loads /\ config' = config
  BY <1>1, PostFacts, Zenon
<1>3. /\ status \in [Seqs -> Statuses] /\ running \in Seq(Seqs) /\ waiting \in Seq(Seqs)
      /\ handoffs \subseteq Transfers
      /\ pending \in [Transfers -> Requests \cup {NoRequest}]
      /\ sends \subseteq Transfers /\ claims \in [Transfers -> Seq(Blocks)]
      /\ cached \in [Seqs -> Nat] /\ tokens \in [Seqs -> Seq(Token)]
      /\ table[s] \in Seq(Blocks) /\ t \in Transfers /\ r \in Requests
  BY <1>2, TypeFacts, IdAssumption DEF BlockTypeOK
<1>4. /\ status'[s] = "FINISHED" /\ \A q \in Seqs \ {s} : status'[q] = status[q]
      /\ pending'[t] = r /\ claims'[t] = table[s]
      /\ \A u \in Transfers \ {t} : pending'[u] = pending[u] /\ claims'[u] = claims[u]
  BY <1>1, <1>3
<1>5. Unbegun(s) /\ t \notin ended /\ \A q \in Seqs : Alive(q)' <=> Alive(q)
  <2>1. Unbegun(s)
    BY <1>1, <1>2 DEF Unbegun
  <2>2. t \notin ended
    BY <1>2, <2>1 DEF TransferInv
  <2>3. \A q \in Seqs : Alive(q)' <=> Alive(q)
    BY <1>1 DEF Alive
  <2> QED BY <2>1, <2>2, <2>3
<1>6. /\ running' \in Seq(Seqs) /\ Len(running') <= Len(running)
      /\ Elems(running') = Elems(running) \ {s}
  BY <1>1, <1>3, WithoutFacts
<1>7. TypeOK' /\ BlockTypeOK' /\ IsFiniteSet(remote')
  <2>1. /\ status' \in [Seqs -> Statuses] /\ handoffs' \subseteq Transfers
        /\ pending' \in [Transfers -> Requests \cup {NoRequest}]
        /\ sends' \subseteq Transfers /\ claims' \in [Transfers -> Seq(Blocks)]
        /\ tokens' \in [Seqs -> Seq(Token)]
    BY <1>1, <1>3 DEF Statuses
  <2>2. UNCHANGED <<requests, remote, cancelled>> /\ UNCHANGED <<table, reserved, free, ref>>
    BY <1>1
  <2> QED BY <1>1, <1>6, <2>1, <2>2, PostTypes
<1>8. OwnInv'
  <2>1. \A q \in Seqs : Held(q) # {} => Alive(q)' /\ status'[q] # "WAITING"
    BY <1>2, <1>4, <1>5 DEF OwnInv
  <2> QED BY <1>1, <1>2, <1>7, <2>1, OwnKept
<1>9. EntriesInv'
  <2> SUFFICES ASSUME NEW u \in Requests, requests[u] # NoSeq
               PROVE  RequestId[requests[u]] = u /\ status'[requests[u]] # "NEW"
    BY <1>1 DEF EntriesInv
  <2>1. RequestId[requests[u]] = u /\ status[requests[u]] # "NEW" /\ requests[u] \in Seqs
    BY <1>2, TypeFacts DEF EntriesInv
  <2> QED BY <1>4, <2>1
<1>10. SizeInv(s)'
  <2>1. /\ Decodes' = Decodes /\ NumPrompt(s)' = NumPrompt(s)
        /\ TotalBlocks(s)' = TotalBlocks(s) /\ NumTokens(s)' = NumTokens(s)
    BY <1>1, <1>2 DEF Decodes, NumPrompt, TotalBlocks, Footprint, NumTokens
  <2>2. /\ NumTokens(s) >= NumPrompt(s) /\ tokens[s] = Prompt[s]
        /\ Len(table[s]) + Len(reserved[s]) = TotalBlocks(s)
        /\ Len(table[s]) = CeilDiv(NumPrompt(s), BlockSize)
    BY <1>1, <1>2 DEF SizeInv, Holding
  <2>3. ~Unbegun(s)' /\ ~Decodes'
    BY <1>1, <1>4, <2>1 DEF Unbegun
  <2> QED BY <1>1, <2>1, <2>2, <2>3 DEF SizeInv
<1>11. TransferInv(s)'
  <2>1. Queued(t)' /\ Underway(t)'
    BY <1>1 DEF Queued, Underway
  <2>2. Transferring(s)' /\ ~Unbegun(s)'
    BY <1>2, <1>4, <1>5 DEF Transferring, Unbegun
  <2> QED BY <1>1, <1>4, <2>1, <2>2 DEF TransferInv
<1>12. QueueInv'
  <2>1. Listed(waiting, "WAITING", status) /\ Listed(running, "RUNNING", status)
    BY <1>2 DEF QueueInv
  <2>2. Listed(waiting', "WAITING", status')
    <3>1. status[s] # "WAITING" /\ "FINISHED" # "WAITING"
      BY <1>2
    <3>2. Listed(waiting, "WAITING", [status EXCEPT ![s] = "FINISHED"])
      BY <1>3, <2>1, <3>1, ListedFacts, Zenon
    <3> QED BY <1>1, <1>2, <3>2
  <2>3. Listed(running', "RUNNING", status')
    <3>1. "FINISHED" # "RUNNING"
      OBVIOUS
    <3>2. Listed(Without(running, s), "RUNNING", [status EXCEPT ![s] = "FINISHED"])
      BY <1>3, <2>1, <3>1, ListedFacts, Zenon
    <3> QED BY <1>1, <3>2
  <2>4. remote' = {RequestId[x] : x \in {q \in Seqs : status'[q] = "REMOTE"}}
    <3>1. \A q \in Seqs : status'[q] = "REMOTE" <=> status[q] = "REMOTE"
      BY <1>2, <1>4
    <3> QED BY <1>1, <1>2, <3>1 DEF QueueInv
  <2> QED BY <2>2, <2>3, <2>4 DEF QueueInv, Listed
<1>13. LifeInv'
  <2>1. "FINISHED" \in Statuses
    BY DEF Statuses
  <2> QED BY <1>1, <1>2, <2>1, StatusLife
<1>14. BatchInv'
  BY <1>1, <1>6, PostBatch
<1>15. \A q \in Seqs \ {s} :
              /\ tokens'[q] = tokens[q] /\ cached'[q] = cached[q] /\ status'[q] = status[q]
              /\ table'[q] = table[q] /\ reserved'[q] = reserved[q]
              /\ Alive(q)' <=> Alive(q)
  BY <1>1, <1>3, <1>4, <1>5
<1>16. /\ loads' \in {loads, loads \cup {t}} /\ sends' \in {sends, sends \cup {t}}
       /\ t \in fresh' => t \in fresh
       /\ \A u \in Transfers \ {t} :
              /\ pending'[u] = pending[u] /\ claims'[u] = claims[u]
              /\ u \in fresh' <=> u \in fresh
  BY <1>1, <1>2, <1>4
<1> QED BY <1>2, <1>5, <1>7, <1>8, <1>9, <1>10, <1>11, <1>12, <1>13, <1>14, <1>15, <1>16,
           OneChanged

\* The last token is sampled.
LEMMA PostFinishInv ==
    ASSUME PDInv, NEW s \in Seqs, NEW token \in Token, PostFinish(s, token) PROVE PDInv'
<1>1. /\ NextPost(s) /\ Decodes /\ Counted(s) /\ Release(s)
      /\ cached' = [cached EXCEPT ![s] = 0]
      /\ tokens' = [tokens EXCEPT ![s] = Append(@, token)]
      /\ running' = Without(running, s)
      /\ handoffs' = handoffs /\ pending' = pending /\ sends' = sends /\ claims' = claims
  BY DEF PostFinish
<1>2. /\ pc' = pc /\ pc \notin {"closing", "closed"} /\ TypeOK /\ QueueInv
      /\ SizeInv(s) /\ TransferInv(s)
      /\ s \in Elems(running) /\ status[s] = "RUNNING" /\ Alive(s) /\ ~Underway(Attempt[s])
      /\ scheduled' \in [Seqs -> Nat] /\ todo' \in Seq(Seqs)
      /\ waiting' = waiting /\ active' = active /\ ended' = ended /\ events' = events
      /\ fresh' = fresh /\ prefills' = prefills /\ decodes' = decodes
      /\ budget' = budget /\ seen' = seen /\ failures' = failures /\ loads' = loads
      /\ cancels' = cancels /\ hash' = hash /\ index' = index /\ kv' = kv
      /\ config' = config
  BY <1>1, PostFacts, Zenon
<1>3. /\ status \in [Seqs -> Statuses] /\ running \in Seq(Seqs) /\ waiting \in Seq(Seqs)
      /\ cancels \subseteq Transfers /\ failures \subseteq Transfers
      /\ tokens \in [Seqs -> Seq(Token)] /\ fresh \subseteq Transfers
  BY <1>2, TypeFacts DEF BlockTypeOK
<1>4. /\ tokens' \in [Seqs -> Seq(Token)] /\ NumTokens(s)' >= NumPrompt(s)
      /\ \A q \in Seqs \ {s} : tokens'[q] = tokens[q]
  <2>1. tokens[s] \in Seq(Token)
    BY <1>3
  <2>2. /\ Append(tokens[s], token) \in Seq(Token)
        /\ Len(Append(tokens[s], token)) = Len(tokens[s]) + 1 /\ Len(tokens[s]) \in Nat
    BY <2>1
  <2>3. tokens'[s] = Append(tokens[s], token) /\ tokens' \in [Seqs -> Seq(Token)]
        /\ \A q \in Seqs \ {s} : tokens'[q] = tokens[q]
    BY <1>1, <1>3, <2>2
  <2>4. NumTokens(s)' = NumTokens(s) + 1 /\ NumTokens(s) >= NumPrompt(s)
    BY <1>2, <2>2, <2>3 DEF NumTokens, SizeInv
  <2>5. NumTokens(s) \in Nat /\ NumPrompt(s) \in Nat
    BY <1>2, SeqFacts
  <2> QED BY <2>3, <2>4, <2>5
<1>5. /\ ~Queued(Attempt[s])
      /\ pending[Attempt[s]] # NoRequest => Attempt[s] \in DOMAIN events \ fresh'
  BY <1>2 DEF TransferInv, Underway
<1>6. /\ running' \in Seq(Seqs) /\ Len(running') <= Len(running)
      /\ Elems(running') = Elems(running) \ {s}
  BY <1>1, <1>3, WithoutFacts
<1>7. status' = [status EXCEPT ![s] = "FINISHED"] /\ cancelled' = cancelled \ {RequestId[s]}
  BY <1>1 DEF Release
<1>8. Listed(waiting', "WAITING", status') /\ Listed(running', "RUNNING", status')
  <2>1. Listed(waiting, "WAITING", status) /\ Listed(running, "RUNNING", status)
    BY <1>2 DEF QueueInv
  <2>2. Listed(waiting', "WAITING", status')
    <3>1. status[s] # "WAITING" /\ "FINISHED" # "WAITING"
      BY <1>2
    <3>2. Listed(waiting, "WAITING", [status EXCEPT ![s] = "FINISHED"])
      BY <1>3, <2>1, <3>1, ListedFacts, Zenon
    <3> QED BY <1>2, <1>7, <3>2
  <2>3. Listed(running', "RUNNING", status')
    <3>1. "FINISHED" # "RUNNING"
      OBVIOUS
    <3>2. Listed(Without(running, s), "RUNNING", [status EXCEPT ![s] = "FINISHED"])
      BY <1>3, <2>1, <3>1, ListedFacts, Zenon
    <3> QED BY <1>1, <1>7, <3>2
  <2> QED BY <2>2, <2>3
<1>9. BatchInv'
  <2>1. cancelled' \subseteq cancelled
    BY <1>7
  <2> QED BY <1>1, <1>6, <2>1, PostBatch
<1>10. /\ cancels' \subseteq Transfers /\ failures' \subseteq Transfers
       /\ waiting' \in Seq(Seqs) /\ fresh' \subseteq fresh
       /\ \A t \in Transfers \ {Attempt[s]} : t \in fresh' <=> t \in fresh
  BY <1>2, <1>3
<1> QED BY <1>1, <1>2, <1>4, <1>5, <1>6, <1>8, <1>9, <1>10, ReleasedInv

-----------------------------------------------------------------------------
(* update_connector_output                                                 *)

\* An event of a live request ends the transfer of that request, which is under way.
LEMMA EventFacts ==
    ASSUME PDInv, NEW t \in Transfers, NextEvent(t)
    PROVE  /\ pc = "events" /\ t \in fresh /\ t \in DOMAIN events /\ ~Queued(t)
           /\ \E s \in Seqs :
                /\ Attempt[s] = t /\ TransferInv(s) /\ SizeInv(s)
                /\ SeqOf(t) = NoSeq => ~Underway(t)
                /\ SeqOf(t) # NoSeq => /\ SeqOf(t) = s /\ pending[t] = RequestId[s]
                                       /\ Transferring(s) /\ Alive(s)
<1>1. pc = "events" /\ t \in fresh
  BY DEF NextEvent
<1>2. /\ TypeOK /\ LifeInv /\ EventInv
      /\ \A s \in Seqs : TransferInv(s)
      /\ \A s \in Seqs : SizeInv(s)
  BY <1>1, OpenFacts
<1>3. t \in DOMAIN events /\ t \in ended /\ ~Queued(t)
  BY <1>1, <1>2 DEF EventInv
<1>4. PICK s \in Seqs : Attempt[s] = t
  BY <1>2, <1>3 DEF EventInv
<1>5. /\ Underway(t) <=> Transferring(s)
      /\ Underway(t) => pending[t] = RequestId[s]
  BY <1>2, <1>4 DEF TransferInv
<1>6. Transferring(s) => Alive(s)
  BY <1>2 DEF LifeInv, Transferring
<1>7. SeqOf(t) # NoSeq => pending[t] # NoRequest /\ SeqOf(t) = requests[pending[t]]
  BY DEF SeqOf
<1>8. pending[t] # NoRequest => Underway(t)
  BY <1>1 DEF Underway
<1>9. s # NoSeq /\ RequestId[s] # NoRequest
  BY IdAssumption
<1>10. Alive(s) => requests[RequestId[s]] = s
  BY DEF Alive
<1>11. SeqOf(t) = NoSeq => ~Underway(t)
  <2> SUFFICES ASSUME Underway(t) PROVE SeqOf(t) # NoSeq
    OBVIOUS
  <2>1. pending[t] = RequestId[s] /\ requests[pending[t]] = s
    BY <1>5, <1>6, <1>10
  <2> QED BY <1>9, <2>1 DEF SeqOf
<1>12. SeqOf(t) # NoSeq => /\ SeqOf(t) = s /\ pending[t] = RequestId[s]
                           /\ Transferring(s) /\ Alive(s)
  BY <1>5, <1>6, <1>7, <1>8, <1>10
<1> QED BY <1>1, <1>2, <1>3, <1>4, <1>11, <1>12

\* What the loop over the events leaves alone.
LEMMA EventSame ==
    ASSUME UNCHANGED eventUnchanged
    PROVE  /\ pc' = pc /\ waiting' = waiting /\ seen' = seen /\ handoffs' = handoffs
           /\ pending' = pending /\ loads' = loads /\ sends' = sends /\ cancels' = cancels
           /\ claims' = claims /\ active' = active /\ ended' = ended /\ events' = events
           /\ prefills' = prefills /\ decodes' = decodes /\ budget' = budget
           /\ todo' = todo /\ tokens' = tokens /\ hash' = hash /\ index' = index
           /\ scheduled' = scheduled /\ kv' = kv /\ config' = config
BY DEF eventUnchanged, commandVars, batchVars

\* The batch means nothing any more.
LEMMA EventBatch == ASSUME pc = "events", pc' = pc PROVE BatchInv'
BY DEF BatchInv

\* A late or repeated event.
LEMMA EventStaleInv == ASSUME PDInv, NEW t \in Transfers, EventStale(t) PROVE PDInv'
<1>1. /\ NextEvent(t) /\ SeqOf(t) = NoSeq /\ fresh' = fresh \ {t}
      /\ running' = running /\ status' = status /\ requests' = requests
      /\ remote' = remote /\ cancelled' = cancelled /\ failures' = failures
      /\ cached' = cached /\ table' = table /\ reserved' = reserved /\ free' = free
      /\ ref' = ref /\ UNCHANGED eventUnchanged
  BY DEF EventStale
<1>2. /\ pc' = pc /\ waiting' = waiting /\ seen' = seen /\ handoffs' = handoffs
      /\ pending' = pending /\ loads' = loads /\ sends' = sends /\ cancels' = cancels
      /\ claims' = claims /\ active' = active /\ ended' = ended /\ events' = events
      /\ prefills' = prefills /\ decodes' = decodes /\ budget' = budget
      /\ todo' = todo /\ tokens' = tokens /\ hash' = hash /\ index' = index
      /\ scheduled' = scheduled /\ kv' = kv /\ config' = config
  BY <1>1, EventSame
<1>3. /\ pc = "events" /\ t \in DOMAIN events /\ ~Queued(t)
      /\ \E s \in Seqs : Attempt[s] = t /\ TransferInv(s) /\ SizeInv(s) /\ ~Underway(t)
  BY <1>1, EventFacts
<1>4. PICK s \in Seqs : Attempt[s] = t /\ TransferInv(s) /\ SizeInv(s) /\ ~Underway(t)
  BY <1>3
<1>5. /\ TypeOK /\ IsFiniteSet(remote) /\ OwnInv /\ EntriesInv
      /\ \A q \in Seqs : SizeInv(q)
      /\ QueueInv /\ LifeInv
  BY <1>3, OpenFacts
<1>6. /\ BlockTypeOK' /\ OwnInv' /\ EntriesInv' /\ QueueInv' /\ LifeInv'
      /\ \A q \in Seqs : SizeInv(q)' /\ (Alive(q)' <=> Alive(q))
  <2>1. UNCHANGED <<waiting, running, status, requests, remote, cancelled, tokens, cached,
                    table, reserved, free, ref, hash, index, config>>
    BY <1>1, <1>2
  <2> QED BY <1>5, <2>1, RequestsKept
<1>7. TypeOK'
  <2>1. KVTypeOK'
    BY <1>2, <1>5, TypeFacts DEF KVTypeOK, Blocks
  <2>2. MaxNumSeqs' = MaxNumSeqs /\ MaxBatchedTokens' = MaxBatchedTokens
    BY <1>2 DEF MaxNumSeqs, MaxBatchedTokens
  <2>3. /\ config \in Configs /\ \A u \in DOMAIN events : events[u] \in Outcomes
        /\ Len(running) + Cardinality(remote) <= MaxNumSeqs
        /\ pc \in {"idle", "admit", "batch", "execute", "post", "events", "closing",
                   "closed"}
    BY <1>5 DEF TypeOK
  <2>4. fresh' \subseteq Transfers
    BY <1>1, <1>5, TypeFacts
  <2> QED BY <1>1, <1>2, <1>5, <1>6, <2>1, <2>2, <2>3, <2>4, TypeFacts, TypeMade, Zenon
<1>8. TransferInv(s)'
  <2>1. (Queued(t)' <=> Queued(t)) /\ (Transferring(s)' <=> Transferring(s))
        /\ (Unbegun(s)' <=> Unbegun(s))
    BY <1>1, <1>2 DEF Queued, Transferring, Alive, Unbegun, Decodes
  <2>2. ~Underway(t)'
    BY <1>1, <1>3, <2>1 DEF Underway
  <2>3. /\ ~Transferring(s)
        /\ pending[t] # NoRequest => t \in DOMAIN events \ fresh
        /\ Unbegun(s) => ~Queued(t) /\ t \notin ended /\ pending[t] = NoRequest
    BY <1>4 DEF TransferInv
  <2>4. pending'[t] # NoRequest => t \in DOMAIN events' \ fresh'
    BY <1>1, <1>2, <2>3
  <2> QED BY <1>2, <1>4, <2>1, <2>2, <2>3, <2>4 DEF TransferInv
<1>9. BatchInv'
  BY <1>2, <1>3, EventBatch
<1>10. /\ \A q \in Seqs \ {s} :
              /\ tokens'[q] = tokens[q] /\ cached'[q] = cached[q] /\ status'[q] = status[q]
              /\ table'[q] = table[q] /\ reserved'[q] = reserved[q]
              /\ Alive(q)' <=> Alive(q)
       /\ \A u \in Transfers \ {Attempt[s]} :
              /\ pending'[u] = pending[u] /\ claims'[u] = claims[u]
              /\ u \in fresh' <=> u \in fresh
       /\ Attempt[s] \in fresh' => Attempt[s] \in fresh
       /\ loads' \in {loads, loads \cup {Attempt[s]}}
       /\ sends' \in {sends, sends \cup {Attempt[s]}}
  BY <1>1, <1>2, <1>4, <1>6
<1>11. IsFiniteSet(remote') /\ SizeInv(s)' /\ pc \notin {"closing", "closed"}
  BY <1>1, <1>3, <1>5, <1>6
<1>12. loads' = loads /\ sends' = sends
  BY <1>2
<1> QED BY <1>2, <1>6, <1>7, <1>8, <1>9, <1>10, <1>11, <1>12, OneChanged

\* The prompt's KV has arrived: the request may run.
LEMMA EventReceivedInv == ASSUME PDInv, NEW t \in Transfers, EventReceived(t) PROVE PDInv'
<1>1. /\ NextEvent(t) /\ SeqOf(t) # NoSeq /\ MayStart(t) /\ fresh' = fresh \ {t}
      /\ requests' = requests /\ cancelled' = cancelled /\ failures' = failures
      /\ table' = table /\ reserved' = reserved /\ free' = free /\ ref' = ref
      /\ UNCHANGED eventUnchanged
  BY DEF EventReceived
<1>2. /\ pc' = pc /\ waiting' = waiting /\ seen' = seen /\ handoffs' = handoffs
      /\ pending' = pending /\ loads' = loads /\ sends' = sends /\ cancels' = cancels
      /\ claims' = claims /\ active' = active /\ ended' = ended /\ events' = events
      /\ prefills' = prefills /\ decodes' = decodes /\ budget' = budget
      /\ todo' = todo /\ tokens' = tokens /\ hash' = hash /\ index' = index
      /\ scheduled' = scheduled /\ kv' = kv /\ config' = config
  BY <1>1, EventSame
<1>3. /\ pc = "events" /\ t \in DOMAIN events /\ ~Queued(t)
      /\ \E s \in Seqs : /\ Attempt[s] = t /\ TransferInv(s) /\ SizeInv(s)
                         /\ SeqOf(t) = s /\ pending[t] = RequestId[s]
                         /\ Transferring(s) /\ Alive(s)
  BY <1>1, EventFacts
<1>4. PICK s \in Seqs : /\ Attempt[s] = t /\ TransferInv(s) /\ SizeInv(s)
                        /\ SeqOf(t) = s /\ pending[t] = RequestId[s]
                        /\ Transferring(s) /\ Alive(s)
  BY <1>3
<1>5. /\ TypeOK /\ IsFiniteSet(remote) /\ OwnInv /\ EntriesInv /\ QueueInv /\ LifeInv
      /\ status \in [Seqs -> Statuses] /\ running \in Seq(Seqs)
      /\ cached \in [Seqs -> Nat] /\ remote \subseteq Requests
      /\ requests \in [Requests -> Seqs \cup {NoSeq}] /\ BlockTypeOK
  BY <1>3, OpenFacts, TypeFacts DEF BlockTypeOK
<1>6. /\ remote' = remote \ {RequestId[s]}
      /\ cached' = [cached EXCEPT ![s] = NumPrompt(s) - 1]
      /\ status' = [status EXCEPT ![s] = "RUNNING"]
      /\ running' = Append(running, s)
  BY <1>4 DEF EventReceived
<1>7. Decodes /\ RequestId[s] \notin cancelled /\ status[s] = "REMOTE"
  BY <1>1, <1>4, <1>5 DEF MayStart, Transferring, LifeInv
<1>8. /\ cached' \in [Seqs -> Nat] /\ \A q \in Seqs \ {s} : cached'[q] = cached[q]
      /\ status'[s] = "RUNNING" /\ \A q \in Seqs \ {s} : status'[q] = status[q]
      /\ status' \in [Seqs -> Statuses]
  <2>1. NumPrompt(s) - 1 \in Nat
    BY <1>5, SeqFacts
  <2> QED BY <1>5, <1>6, <2>1 DEF Statuses
<1>9. \A q \in Seqs : Alive(q)' <=> Alive(q)
  BY <1>1 DEF Alive
<1>10. IsFiniteSet(remote') /\ Len(running') + Cardinality(remote') <= MaxNumSeqs
  <2>1. RequestId[s] \in remote
    BY <1>5, <1>7 DEF QueueInv
  <2> DEFINE less == remote \ {RequestId[s]}
  <2>2. IsFiniteSet(less) /\ Cardinality(less) = Cardinality(remote) - 1
    BY <1>5, <2>1, FS_RemoveElement
  <2>3. remote' = less
    BY <1>6
  <2> HIDE DEF less
  <2>4. /\ Len(running') = Len(running) + 1 /\ Len(running) \in Nat
        /\ Cardinality(remote) \in Nat
    BY <1>5, <1>6, FS_CardinalityType
  <2>5. Len(running) + Cardinality(remote) <= MaxNumSeqs /\ MaxNumSeqs \in Nat
    BY <1>5, TypeFacts DEF TypeOK
  <2> QED BY <2>2, <2>3, <2>4, <2>5
<1>11. BlockTypeOK'
  BY <1>1, <1>2, <1>5, <1>8 DEF BlockTypeOK, Blocks
<1>12. TypeOK'
  <2>1. KVTypeOK'
    BY <1>2, <1>5, TypeFacts DEF KVTypeOK, Blocks
  <2>2. MaxNumSeqs' = MaxNumSeqs /\ MaxBatchedTokens' = MaxBatchedTokens
    BY <1>2 DEF MaxNumSeqs, MaxBatchedTokens
  <2>3. /\ config \in Configs /\ \A u \in DOMAIN events : events[u] \in Outcomes
        /\ pc \in {"idle", "admit", "batch", "execute", "post", "events", "closing",
                   "closed"}
    BY <1>5 DEF TypeOK
  <2>4. fresh' \subseteq Transfers /\ remote' \subseteq Requests /\ running' \in Seq(Seqs)
    BY <1>1, <1>5, <1>6, TypeFacts
  <2> QED BY <1>1, <1>2, <1>5, <1>8, <1>10, <1>11, <2>1, <2>2, <2>3, <2>4, TypeFacts,
             TypeMade, Zenon
<1>13. OwnInv'
  <2>1. \A q \in Seqs : Held(q) # {} => Alive(q)' /\ status'[q] # "WAITING"
    BY <1>5, <1>8, <1>9 DEF OwnInv
  <2> QED BY <1>1, <1>5, <1>11, <2>1, OwnKept
<1>14. EntriesInv'
  <2> SUFFICES ASSUME NEW u \in Requests, requests[u] # NoSeq
               PROVE  RequestId[requests[u]] = u /\ status'[requests[u]] # "NEW"
    BY <1>1 DEF EntriesInv
  <2>1. RequestId[requests[u]] = u /\ status[requests[u]] # "NEW" /\ requests[u] \in Seqs
    BY <1>5 DEF EntriesInv
  <2> QED BY <1>8, <2>1
<1>15. SizeInv(s)'
  <2>1. /\ Decodes' = Decodes /\ NumPrompt(s)' = NumPrompt(s)
        /\ TotalBlocks(s)' = TotalBlocks(s) /\ NumTokens(s)' = NumTokens(s)
        /\ NumCompletion(s)' = NumTokens(s) - NumPrompt(s)
    BY <1>2 DEF Decodes, NumPrompt, TotalBlocks, Footprint, NumTokens, NumCompletion
  <2>2. /\ NumTokens(s) >= NumPrompt(s) /\ tokens[s] = Prompt[s]
        /\ Len(table[s]) + Len(reserved[s]) = TotalBlocks(s)
    BY <1>4, <1>7 DEF SizeInv, Holding
  <2>3. NumTokens(s) = NumPrompt(s) /\ NumPrompt(s) \in Nat /\ MaxTokens[s] \in Nat \ {0}
    BY <1>5, <2>2, SeqFacts DEF NumTokens, NumPrompt
  <2>4. NumCompletion(s)' < MaxTokens[s]
    BY <2>1, <2>3
  <2>5. ~Unbegun(s)' /\ Decodes' /\ status'[s] = "RUNNING"
    BY <1>7, <1>8, <2>1 DEF Unbegun
  <2> QED BY <1>1, <2>1, <2>2, <2>4, <2>5 DEF SizeInv
<1>16. TransferInv(s)'
  <2>1. ~Queued(t)' /\ ~Underway(t)'
    BY <1>1, <1>2, <1>3 DEF Queued, Underway
  <2>2. ~Transferring(s)' /\ ~Unbegun(s)'
    BY <1>2, <1>7, <1>8 DEF Transferring, Unbegun, Decodes
  <2>3. t \in DOMAIN events' \ fresh'
    BY <1>1, <1>2, <1>3
  <2> QED BY <1>4, <2>1, <2>2, <2>3 DEF TransferInv
<1>17. QueueInv'
  <2>1. Listed(waiting, "WAITING", status) /\ Listed(running, "RUNNING", status)
    BY <1>5 DEF QueueInv
  <2>2. Listed(waiting', "WAITING", status')
    <3>1. status[s] # "WAITING" /\ "RUNNING" # "WAITING" /\ waiting \in Seq(Seqs)
      BY <1>5, <1>7, TypeFacts
    <3>2. Listed(waiting, "WAITING", [status EXCEPT ![s] = "RUNNING"])
      BY <1>5, <2>1, <3>1, ListedFacts, Zenon
    <3> QED BY <1>2, <1>6, <3>2
  <2>3. Listed(running', "RUNNING", status')
    <3>1. /\ status[s] # "RUNNING" /\ running \in Seq(Seqs) /\ status \in [Seqs -> Statuses]
          /\ Listed(running, "RUNNING", status)
      BY <1>5, <1>7, <2>1
    <3>2. Listed(Append(running, s), "RUNNING", [status EXCEPT ![s] = "RUNNING"])
      BY <3>1, ListedFacts, Zenon
    <3> QED BY <1>6, <3>2
  <2>4. remote' = {RequestId[x] : x \in {q \in Seqs : status'[q] = "REMOTE"}}
    <3>1. "RUNNING" # "REMOTE"
      OBVIOUS
    <3>2. {RequestId[x] : x \in {q \in Seqs : status'[q] = "REMOTE"}}
             = remote \ {RequestId[s]}
      BY <1>4, <1>5, <1>6, <3>1, RemoteFacts, Zenon
    <3> QED BY <1>6, <3>2
  <2> QED BY <2>2, <2>3, <2>4 DEF QueueInv, Listed
<1>18. LifeInv'
  <2>1. "RUNNING" \in Statuses
    BY DEF Statuses
  <2> QED BY <1>1, <1>2, <1>4, <1>5, <1>6, <1>7, <2>1, StatusLife
<1>19. BatchInv'
  BY <1>2, <1>3, EventBatch
<1>20. /\ \A q \in Seqs \ {s} :
              /\ tokens'[q] = tokens[q] /\ cached'[q] = cached[q] /\ status'[q] = status[q]
              /\ table'[q] = table[q] /\ reserved'[q] = reserved[q]
              /\ Alive(q)' <=> Alive(q)
       /\ \A u \in Transfers \ {Attempt[s]} :
              /\ pending'[u] = pending[u] /\ claims'[u] = claims[u]
              /\ u \in fresh' <=> u \in fresh
       /\ Attempt[s] \in fresh' => Attempt[s] \in fresh
       /\ loads' \in {loads, loads \cup {Attempt[s]}}
       /\ sends' \in {sends, sends \cup {Attempt[s]}}
  BY <1>1, <1>2, <1>4, <1>8, <1>9
<1>21. loads' = loads /\ sends' = sends /\ pc \notin {"closing", "closed"}
  BY <1>2, <1>3
<1> QED BY <1>2, <1>10, <1>12, <1>13, <1>14, <1>15, <1>16, <1>17, <1>18, <1>19, <1>20,
           <1>21, OneChanged

\* Any other end of the transfer ends the request.
LEMMA EventEndsInv == ASSUME PDInv, NEW t \in Transfers, EventEnds(t) PROVE PDInv'
<1>1. /\ NextEvent(t) /\ SeqOf(t) # NoSeq /\ fresh' = fresh \ {t}
      /\ failures' = IF events[t] = "failed" THEN failures \cup {t} ELSE failures
      /\ running' = running /\ UNCHANGED eventUnchanged
  BY DEF EventEnds
<1>2. /\ pc' = pc /\ waiting' = waiting /\ seen' = seen /\ handoffs' = handoffs
      /\ pending' = pending /\ loads' = loads /\ sends' = sends /\ cancels' = cancels
      /\ claims' = claims /\ active' = active /\ ended' = ended /\ events' = events
      /\ prefills' = prefills /\ decodes' = decodes /\ budget' = budget
      /\ todo' = todo /\ tokens' = tokens /\ hash' = hash /\ index' = index
      /\ scheduled' = scheduled /\ kv' = kv /\ config' = config
  BY <1>1, EventSame
<1>3. /\ pc = "events" /\ t \in DOMAIN events /\ ~Queued(t)
      /\ \E s \in Seqs : /\ Attempt[s] = t /\ SizeInv(s)
                         /\ SeqOf(t) = s /\ Transferring(s) /\ Alive(s)
  BY <1>1, EventFacts
<1>4. PICK s \in Seqs : /\ Attempt[s] = t /\ SizeInv(s)
                        /\ SeqOf(t) = s /\ Transferring(s) /\ Alive(s)
  BY <1>3
<1>5. Release(s) /\ cached' = [cached EXCEPT ![s] = 0]
  BY <1>4 DEF EventEnds
<1>6. status' = [status EXCEPT ![s] = "FINISHED"]
  BY <1>5 DEF Release
<1>7. /\ TypeOK /\ QueueInv /\ status \in [Seqs -> Statuses]
      /\ waiting \in Seq(Seqs) /\ running \in Seq(Seqs)
      /\ tokens \in [Seqs -> Seq(Token)] /\ scheduled \in [Seqs -> Nat]
      /\ todo \in Seq(Seqs) /\ cancels \subseteq Transfers /\ failures \subseteq Transfers
  BY <1>3, OpenFacts, TypeFacts DEF BlockTypeOK, KVTypeOK
<1>8. status[s] # "WAITING" /\ status[s] # "RUNNING"
  BY <1>4 DEF Transferring
<1>9. Listed(waiting', "WAITING", status') /\ Listed(running', "RUNNING", status')
  <2>1. Listed(waiting, "WAITING", status) /\ Listed(running, "RUNNING", status)
    BY <1>7 DEF QueueInv
  <2>2. "FINISHED" # "WAITING" /\ "FINISHED" # "RUNNING"
    OBVIOUS
  <2>3. Listed(waiting, "WAITING", [status EXCEPT ![s] = "FINISHED"])
    BY <1>7, <1>8, <2>1, <2>2, ListedFacts, Zenon
  <2>4. Listed(running, "RUNNING", [status EXCEPT ![s] = "FINISHED"])
    BY <1>7, <1>8, <2>1, <2>2, ListedFacts, Zenon
  <2> QED BY <1>1, <1>2, <1>6, <2>3, <2>4
<1>10. BatchInv'
  BY <1>2, <1>3, EventBatch
<1>11. /\ tokens' \in [Seqs -> Seq(Token)] /\ \A q \in Seqs \ {s} : tokens'[q] = tokens[q]
       /\ NumTokens(s)' >= NumPrompt(s) /\ (~Decodes => tokens'[s] = Prompt[s])
  <2>1. NumTokens(s)' = NumTokens(s)
    BY <1>2 DEF NumTokens
  <2>2. NumTokens(s) >= NumPrompt(s) /\ (~Decodes => tokens[s] = Prompt[s])
    BY <1>4 DEF SizeInv
  <2> QED BY <1>2, <1>7, <2>1, <2>2
<1>12. /\ failures' \subseteq Transfers /\ fresh' \subseteq fresh
       /\ \A u \in Transfers \ {Attempt[s]} : u \in fresh' <=> u \in fresh
       /\ ~Queued(Attempt[s]) /\ Attempt[s] \in DOMAIN events \ fresh'
       /\ Len(running') <= Len(running) /\ pc \notin {"closing", "closed"}
  BY <1>1, <1>3, <1>4, <1>7
<1> QED BY <1>1, <1>2, <1>4, <1>5, <1>7, <1>9, <1>10, <1>11, <1>12, ReleasedInv

\* The connector forgets the transfers that have ended.
LEMMA EndEventsInv == ASSUME PDInv, EndEvents PROVE PDInv'
<1>1. /\ pc = "events" /\ fresh = {} /\ pc' = "idle" /\ events' = <<>>
      /\ pending' = [t \in Transfers |->
                      IF t \in DOMAIN events THEN NoRequest ELSE pending[t]]
      /\ UNCHANGED <<queueVars, requestVars, loads, sends, cancels, claims, active, ended,
                     fresh, batchVars, bmVars, scheduled, kv, config>>
  BY DEF EndEvents
<1>2. /\ waiting' = waiting /\ running' = running /\ status' = status
      /\ requests' = requests /\ remote' = remote /\ cancelled' = cancelled
      /\ seen' = seen /\ handoffs' = handoffs /\ failures' = failures
      /\ tokens' = tokens /\ cached' = cached /\ table' = table /\ reserved' = reserved
      /\ free' = free /\ ref' = ref /\ hash' = hash /\ index' = index
      /\ loads' = loads /\ sends' = sends /\ cancels' = cancels /\ claims' = claims
      /\ active' = active /\ ended' = ended /\ fresh' = fresh /\ prefills' = prefills
      /\ decodes' = decodes /\ budget' = budget /\ todo' = todo
      /\ scheduled' = scheduled /\ kv' = kv /\ config' = config
  BY <1>1 DEF queueVars, requestVars, bmVars, blockVars, batchVars
<1>3. /\ TypeOK /\ IsFiniteSet(remote) /\ OwnInv /\ EntriesInv
      /\ \A s \in Seqs : SizeInv(s)
      /\ \A s \in Seqs : TransferInv(s)
      /\ QueueInv /\ LifeInv /\ EventInv
  BY <1>1, OpenFacts
<1>4. /\ BlockTypeOK' /\ OwnInv' /\ EntriesInv' /\ QueueInv' /\ LifeInv'
      /\ \A s \in Seqs : SizeInv(s)' /\ (Alive(s)' <=> Alive(s))
  <2>1. UNCHANGED <<waiting, running, status, requests, remote, cancelled, tokens, cached,
                    table, reserved, free, ref, hash, index, config>>
    BY <1>2
  <2> QED BY <1>3, <2>1, RequestsKept
<1>5. DOMAIN events' = {}
  BY <1>1
<1>6. \A t \in Transfers :
         /\ pending'[t] = IF t \in DOMAIN events THEN NoRequest ELSE pending[t]
         /\ Queued(t)' <=> Queued(t)
  BY <1>1, <1>2 DEF Queued
<1>7. EventInv'
  <2>1. /\ DOMAIN events \subseteq ended /\ \A t \in ended : ~Queued(t)
        /\ \A t \in Transfers : Queued(t) \/ t \in ended \/ pending[t] # NoRequest =>
              \E s \in Seqs : Attempt[s] = t
    BY <1>3 DEF EventInv
  <2>2. \A t \in ended' : ~Queued(t)'
    BY <1>2, <2>1 DEF Queued
  <2>3. \A t \in Transfers : Queued(t)' \/ t \in ended' \/ pending'[t] # NoRequest =>
              \E s \in Seqs : Attempt[s] = t
    BY <1>2, <1>6, <2>1
  <2> QED BY <1>1, <1>2, <1>5, <2>2, <2>3 DEF EventInv
<1>8. ASSUME NEW s \in Seqs PROVE TransferInv(s)'
  <2> DEFINE t == Attempt[s]
  <2>1. t \in Transfers
    BY IdAssumption
  <2>2. /\ Underway(t) <=> Transferring(s)
        /\ Underway(t) => pending[t] = RequestId[s] /\ claims[t] = table[s]
        /\ pending[t] # NoRequest => Underway(t) \/ t \in DOMAIN events \ fresh
        /\ Unbegun(s) => ~Queued(t) /\ t \notin ended /\ pending[t] = NoRequest
    BY <1>3 DEF TransferInv
  <2>3. /\ Underway(t) <=> Queued(t)
        /\ Underway(t)' <=> Queued(t)'
    BY <1>1, <1>2 DEF Underway
  <2>4. Queued(t) => t \notin DOMAIN events
    BY <1>3 DEF EventInv
  <2>5. (Transferring(s)' <=> Transferring(s)) /\ (Unbegun(s)' <=> Unbegun(s))
    BY <1>2 DEF Transferring, Unbegun, Alive, Decodes
  <2>6. /\ pending'[t] = IF t \in DOMAIN events THEN NoRequest ELSE pending[t]
        /\ Queued(t)' <=> Queued(t)
    BY <1>6, <2>1
  <2>7. claims'[t] = claims[t] /\ table'[s] = table[s] /\ ended' = ended /\ fresh = {}
    BY <1>1, <1>2
  <2> HIDE DEF t
  <2>8. pending'[t] # NoRequest => Underway(t)'
    BY <2>2, <2>3, <2>6, <2>7
  <2>9. Underway(t)' => pending'[t] = RequestId[s] /\ claims'[t] = table'[s]
    BY <2>2, <2>3, <2>4, <2>6, <2>7
  <2>10. Underway(t)' <=> Transferring(s)'
    BY <2>2, <2>3, <2>5, <2>6
  <2>11. Unbegun(s)' => ~Queued(t)' /\ t \notin ended' /\ pending'[t] = NoRequest
    BY <2>2, <2>5, <2>6, <2>7
  <2> QED BY <2>8, <2>9, <2>10, <2>11 DEF TransferInv, t
<1>9. BatchInv'
  BY <1>1 DEF BatchInv
<1>10. TypeOK'
  <2>1. KVTypeOK'
    BY <1>2, <1>3, TypeFacts DEF KVTypeOK, Blocks
  <2>2. MaxNumSeqs' = MaxNumSeqs /\ MaxBatchedTokens' = MaxBatchedTokens
    BY <1>2 DEF MaxNumSeqs, MaxBatchedTokens
  <2>3. config \in Configs /\ Len(running) + Cardinality(remote) <= MaxNumSeqs
    BY <1>3 DEF TypeOK
  <2>4. /\ pc' \in {"idle", "admit", "batch", "execute", "post", "events", "closing",
                    "closed"}
        /\ DOMAIN events' \subseteq Transfers
        /\ \A t \in DOMAIN events' : events'[t] \in Outcomes
    BY <1>1, <1>5
  <2>5. pending' \in [Transfers -> Requests \cup {NoRequest}]
    BY <1>1, <1>3, TypeFacts
  <2> QED BY <1>2, <1>3, <1>4, <2>1, <2>2, <2>3, <2>4, <2>5, TypeFacts, TypeMade, Zenon
<1>11. IsFiniteSet(remote') /\ pc' \notin {"closing", "closed"}
  BY <1>1, <1>2, <1>3
<1> QED BY <1>4, <1>7, <1>8, <1>9, <1>10, <1>11, PDInvMade

-----------------------------------------------------------------------------
(* Between steps                                                           *)

\* A request is accepted.
LEMMA AddInv == ASSUME PDInv, NEW s \in Seqs, Add(s) PROVE PDInv'
<1> DEFINE r == RequestId[s]
           t == Attempt[s]
<1>1. /\ pc = "idle" /\ status[s] = "NEW" /\ requests[r] = NoSeq
      /\ requests' = [requests EXCEPT ![r] = s]
      /\ seen' = IF Decodes THEN seen \cup {t} ELSE seen
      /\ status' = [status EXCEPT ![s] = "WAITING"]
      /\ waiting' = Append(waiting, s)
      /\ UNCHANGED <<pc, running, remote, cancelled, handoffs, failures, commandVars,
                     workerVars, batchVars, bmVars, scheduled, kv, config>>
  BY DEF Add, Acceptable
<1>2. /\ pc' = pc /\ running' = running /\ remote' = remote /\ cancelled' = cancelled
      /\ handoffs' = handoffs /\ failures' = failures
      /\ tokens' = tokens /\ cached' = cached /\ table' = table /\ reserved' = reserved
      /\ free' = free /\ ref' = ref /\ hash' = hash /\ index' = index
      /\ pending' = pending /\ loads' = loads /\ sends' = sends /\ cancels' = cancels
      /\ claims' = claims /\ active' = active /\ ended' = ended /\ events' = events
      /\ fresh' = fresh /\ prefills' = prefills /\ decodes' = decodes
      /\ budget' = budget /\ todo' = todo /\ scheduled' = scheduled /\ kv' = kv
      /\ config' = config
  BY <1>1 DEF commandVars, workerVars, batchVars, bmVars, blockVars
<1>3. /\ TypeOK /\ IsFiniteSet(remote) /\ OwnInv /\ EntriesInv /\ QueueInv /\ LifeInv
      /\ SizeInv(s) /\ TransferInv(s)
      /\ status \in [Seqs -> Statuses] /\ waiting \in Seq(Seqs) /\ running \in Seq(Seqs)
      /\ requests \in [Requests -> Seqs \cup {NoSeq}] /\ BlockTypeOK
      /\ seen \subseteq Transfers /\ r \in Requests /\ t \in Transfers /\ s # NoSeq
  BY <1>1, OpenFacts, TypeFacts, IdAssumption
<1>4. /\ status'[s] = "WAITING" /\ \A q \in Seqs \ {s} : status'[q] = status[q]
      /\ status' \in [Seqs -> Statuses]
  BY <1>1, <1>3 DEF Statuses
<1>5. Alive(s)' /\ ~Alive(s) /\ \A q \in Seqs \ {s} : Alive(q)' <=> Alive(q)
  <2>1. requests'[r] = s /\ \A u \in Requests \ {r} : requests'[u] = requests[u]
    BY <1>1, <1>3
  <2>2. ASSUME NEW q \in Seqs \ {s} PROVE Alive(q)' <=> Alive(q)
    <3>1. q # NoSeq /\ RequestId[q] \in Requests
      BY IdAssumption
    <3>2. CASE RequestId[q] = r
      BY <1>1, <2>1, <3>1, <3>2 DEF Alive
    <3>3. CASE RequestId[q] # r
      BY <2>1, <3>1, <3>3 DEF Alive
    <3> QED BY <3>2, <3>3
  <2> QED BY <1>1, <1>3, <2>1, <2>2 DEF Alive
<1>6. BlockTypeOK'
  BY <1>2, <1>3 DEF BlockTypeOK, Blocks
<1>7. TypeOK'
  <2>1. KVTypeOK'
    BY <1>2, <1>3, TypeFacts DEF KVTypeOK, Blocks
  <2>2. MaxNumSeqs' = MaxNumSeqs /\ MaxBatchedTokens' = MaxBatchedTokens
    BY <1>2 DEF MaxNumSeqs, MaxBatchedTokens
  <2>3. /\ config \in Configs /\ \A u \in DOMAIN events : events[u] \in Outcomes
        /\ Len(running) + Cardinality(remote) <= MaxNumSeqs
        /\ pc \in {"idle", "admit", "batch", "execute", "post", "events", "closing",
                   "closed"}
    BY <1>3 DEF TypeOK
  <2>4. /\ requests' \in [Requests -> Seqs \cup {NoSeq}] /\ waiting' \in Seq(Seqs)
        /\ seen' \subseteq Transfers
    BY <1>1, <1>3
  <2> QED BY <1>2, <1>3, <1>4, <1>6, <2>1, <2>2, <2>3, <2>4, TypeFacts, TypeMade, Zenon
<1>8. OwnInv'
  <2>1. \A q \in Seqs : Held(q) # {} => Alive(q)' /\ status'[q] # "WAITING"
    <3>1. Held(s) = {}
      BY <1>3, <1>5 DEF OwnInv
    <3>2. \A q \in Seqs : Held(q) # {} => Alive(q) /\ status[q] # "WAITING"
      BY <1>3 DEF OwnInv
    <3> QED BY <1>4, <1>5, <3>1, <3>2
  <2>2. UNCHANGED <<table, reserved, free, ref>>
    BY <1>2
  <2> QED BY <1>3, <1>6, <2>1, <2>2, OwnKept
<1>9. EntriesInv'
  <2> SUFFICES ASSUME NEW u \in Requests, requests'[u] # NoSeq
               PROVE  RequestId[requests'[u]] = u /\ status'[requests'[u]] # "NEW"
    BY DEF EntriesInv
  <2>1. CASE u = r
    BY <1>1, <1>3, <1>4, <2>1
  <2>2. CASE u # r
    <3>1. requests'[u] = requests[u] /\ requests[u] # NoSeq
      BY <1>1, <1>3, <2>2
    <3>2. PICK q \in Seqs : q = requests[u]
      BY <1>3, <3>1
    <3>3. RequestId[q] = u /\ status[q] # "NEW"
      BY <1>3, <3>1, <3>2 DEF EntriesInv
    <3>4. status'[q] # "NEW"
      BY <1>4, <2>2, <3>3
    <3> QED BY <3>1, <3>2, <3>3, <3>4
  <2> QED BY <2>1, <2>2
<1>10. SizeInv(s)'
  <2>1. /\ Decodes' = Decodes /\ NumPrompt(s)' = NumPrompt(s)
        /\ NumTokens(s)' = NumTokens(s) /\ IsPrefill(s)' = IsPrefill(s)
    BY <1>2 DEF Decodes, NumPrompt, NumTokens, IsPrefill
  <2>2. NumTokens(s) >= NumPrompt(s) /\ tokens[s] = Prompt[s] /\ IsPrefill(s)
    BY <1>1, <1>3 DEF SizeInv, Unbegun
  <2>3. status'[s] # "RUNNING" /\ ~Holding(s)'
    BY <1>4 DEF Holding, Transferring
  <2> QED BY <1>2, <2>1, <2>2, <2>3 DEF SizeInv
<1>11. TransferInv(s)'
  <2>1. /\ ~Queued(t) /\ t \notin ended /\ pending[t] = NoRequest
    BY <1>1, <1>3 DEF TransferInv, Unbegun
  <2>2. ~Queued(t)' /\ ~Underway(t)'
    BY <1>2, <2>1 DEF Queued, Underway
  <2>3. ~Transferring(s)'
    BY <1>4 DEF Transferring
  <2> QED BY <1>2, <2>1, <2>2, <2>3 DEF TransferInv
<1>12. QueueInv'
  <2>1. Listed(waiting, "WAITING", status) /\ Listed(running, "RUNNING", status)
    BY <1>3 DEF QueueInv
  <2>2. Listed(waiting', "WAITING", status')
    <3>1. /\ status[s] # "WAITING" /\ waiting \in Seq(Seqs) /\ status \in [Seqs -> Statuses]
          /\ Listed(waiting, "WAITING", status)
      BY <1>1, <1>3, <2>1
    <3>2. Listed(Append(waiting, s), "WAITING", [status EXCEPT ![s] = "WAITING"])
      BY <3>1, ListedFacts, Zenon
    <3> QED BY <1>1, <3>2
  <2>3. Listed(running', "RUNNING", status')
    <3>1. status[s] # "RUNNING" /\ "WAITING" # "RUNNING"
      BY <1>1
    <3>2. Listed(running, "RUNNING", [status EXCEPT ![s] = "WAITING"])
      BY <1>3, <2>1, <3>1, ListedFacts, Zenon
    <3> QED BY <1>1, <1>2, <3>2
  <2>4. remote' = {RequestId[x] : x \in {q \in Seqs : status'[q] = "REMOTE"}}
    <3>1. \A q \in Seqs : status'[q] = "REMOTE" <=> status[q] = "REMOTE"
      BY <1>1, <1>4
    <3> QED BY <1>2, <1>3, <3>1 DEF QueueInv
  <2> QED BY <2>2, <2>3, <2>4 DEF QueueInv, Listed
<1>13. LifeInv'
  <2>1. ASSUME NEW q \in Seqs
        PROVE  /\ status'[q] \in {"WAITING", "REMOTE", "RUNNING"} => Alive(q)'
               /\ status'[q] = "REMOTE" => Decodes'
               /\ status'[q] = "FINISHED" /\ Alive(q)' => ~Decodes'
    <3>1. Decodes' = Decodes
      BY <1>2 DEF Decodes
    <3>2. CASE q = s
      BY <1>4, <1>5, <3>2
    <3>3. CASE q # s
      <4>1. status'[q] = status[q] /\ (Alive(q)' <=> Alive(q))
        BY <1>4, <1>5, <3>3
      <4> QED BY <1>3, <3>1, <4>1 DEF LifeInv
    <3> QED BY <3>2, <3>3
  <2>2. ASSUME NEW u \in cancelled
        PROVE  requests'[u] # NoSeq /\ Transferring(requests[u])'
    <3>1. requests[u] # NoSeq /\ Transferring(requests[u]) /\ u \in Requests
      BY <1>3, TypeFacts DEF LifeInv
    <3>2. u # r /\ requests'[u] = requests[u]
      BY <1>1, <1>3, <3>1
    <3>3. PICK q \in Seqs : q = requests[u]
      BY <1>3, <3>1
    <3>4. q # s
      BY <1>3, <3>1, <3>2, <3>3 DEF EntriesInv
    <3>5. Transferring(q) /\ status'[q] = status[q] /\ (Alive(q)' <=> Alive(q))
      BY <1>4, <1>5, <3>1, <3>3, <3>4
    <3>6. Transferring(q)'
      BY <3>5 DEF Transferring
    <3>7. requests'[u] = q /\ requests'[u] # NoSeq
      BY <3>1, <3>2, <3>3
    <3> QED BY <3>6, <3>7 DEF Transferring, Alive
  <2> QED BY <1>2, <2>1, <2>2 DEF LifeInv
<1>14. BatchInv'
  BY <1>1, <1>2 DEF BatchInv
<1>15. IsFiniteSet(remote') /\ pc \notin {"closing", "closed"}
  BY <1>1, <1>2, <1>3
<1>16. /\ \A q \in Seqs \ {s} :
              /\ tokens'[q] = tokens[q] /\ cached'[q] = cached[q] /\ status'[q] = status[q]
              /\ table'[q] = table[q] /\ reserved'[q] = reserved[q]
              /\ Alive(q)' <=> Alive(q)
       /\ \A u \in Transfers \ {t} :
              /\ pending'[u] = pending[u] /\ claims'[u] = claims[u]
              /\ u \in fresh' <=> u \in fresh
       /\ t \in fresh' => t \in fresh
       /\ loads' \in {loads, loads \cup {t}} /\ sends' \in {sends, sends \cup {t}}
  BY <1>2, <1>4, <1>5
<1>17. loads' = loads /\ sends' = sends
  BY <1>2
<1> QED BY <1>2, <1>7, <1>8, <1>9, <1>10, <1>11, <1>12, <1>13, <1>14, <1>15, <1>16, <1>17,
           OneChanged

\* Between steps a connector entry means that the transfer is under way.
LEMMA PendingFacts ==
    ASSUME PDInv, pc = "idle", NEW r \in Requests, requests[r] # NoSeq
    PROVE  \E s \in Seqs :
             /\ s = requests[r] /\ RequestId[s] = r /\ Alive(s)
             /\ SizeInv(s) /\ TransferInv(s)
             /\ PendingOf(r) # {} => Transferring(s)
             /\ PendingOf(r) = {} => ~Queued(Attempt[s]) /\ pending[Attempt[s]] = NoRequest
<1>1. /\ TypeOK /\ EntriesInv /\ EventInv /\ LifeInv
      /\ \A q \in Seqs : TransferInv(q)
      /\ \A q \in Seqs : SizeInv(q)
      /\ requests \in [Requests -> Seqs \cup {NoSeq}]
  BY OpenFacts, TypeFacts
<1>2. PICK s \in Seqs : s = requests[r]
  BY <1>1
<1>3. RequestId[s] = r /\ Alive(s)
  BY <1>1, <1>2 DEF EntriesInv, Alive
<1>4. DOMAIN events = {} /\ fresh = {}
  BY <1>1 DEF EventInv
<1>5. \A q \in Seqs : /\ Queued(Attempt[q]) <=> Transferring(q)
                      /\ Queued(Attempt[q]) <=> pending[Attempt[q]] # NoRequest
                      /\ Queued(Attempt[q]) => pending[Attempt[q]] = RequestId[q]
  <2> SUFFICES ASSUME NEW q \in Seqs
               PROVE  /\ Queued(Attempt[q]) <=> Transferring(q)
                      /\ Queued(Attempt[q]) <=> pending[Attempt[q]] # NoRequest
                      /\ Queued(Attempt[q]) => pending[Attempt[q]] = RequestId[q]
    OBVIOUS
  <2>1. Underway(Attempt[q]) <=> Queued(Attempt[q])
    BY <1>4 DEF Underway
  <2>2. RequestId[q] # NoRequest
    BY IdAssumption
  <2> QED BY <1>1, <1>4, <2>1, <2>2 DEF TransferInv
<1>6. ASSUME PendingOf(r) # {} PROVE Transferring(s)
  <2>1. PICK t \in Transfers : pending[t] = r
    BY <1>6 DEF PendingOf
  <2>2. r # NoRequest
    BY IdAssumption
  <2>3. PICK q \in Seqs : Attempt[q] = t
    BY <1>1, <2>1, <2>2 DEF EventInv
  <2>4. Transferring(q) /\ RequestId[q] = r
    BY <1>5, <2>1, <2>2, <2>3
  <2>5. Alive(q)
    BY <1>1, <2>4 DEF Transferring, LifeInv
  <2> QED BY <1>2, <2>4, <2>5 DEF Alive
<1>7. ASSUME PendingOf(r) = {} PROVE ~Queued(Attempt[s]) /\ pending[Attempt[s]] = NoRequest
  <2>1. Attempt[s] \in Transfers /\ pending[Attempt[s]] # r
    BY <1>7, IdAssumption DEF PendingOf
  <2> QED BY <1>3, <1>5, <2>1
<1> QED BY <1>1, <1>2, <1>3, <1>6, <1>7

\* A cancel while the transfer is under way changes the request table only.
LEMMA CancelPendingInv ==
    ASSUME PDInv, NEW r \in Requests, CancelRequest(r), PendingOf(r) # {}
    PROVE  PDInv'
<1>1. /\ pc = "idle" /\ requests[r] # NoSeq
      /\ UNCHANGED <<pc, seen, handoffs, failures, pending, loads, sends, claims,
                     workerVars, batchVars, tokens, hash, index, scheduled, kv, config>>
  BY DEF CancelRequest
<1>2. PICK s \in Seqs : /\ s = requests[r] /\ RequestId[s] = r /\ Alive(s) /\ Transferring(s)
                        /\ SizeInv(s) /\ TransferInv(s)
  BY <1>1, PendingFacts
<1>3. /\ waiting' = Without(waiting, s) /\ running' = Without(running, s)
      /\ cancelled' = cancelled \cup {r} /\ cancels' = cancels \cup PendingOf(r)
      /\ requests' = requests /\ remote' = remote /\ status' = status /\ cached' = cached
      /\ table' = table /\ reserved' = reserved /\ free' = free /\ ref' = ref
  BY <1>2 DEF CancelRequest, CancelPending
<1>4. /\ pc' = pc /\ seen' = seen /\ handoffs' = handoffs /\ failures' = failures
      /\ pending' = pending /\ loads' = loads /\ sends' = sends /\ claims' = claims
      /\ active' = active /\ ended' = ended /\ events' = events /\ fresh' = fresh
      /\ prefills' = prefills /\ decodes' = decodes /\ budget' = budget /\ todo' = todo
      /\ tokens' = tokens /\ hash' = hash /\ index' = index /\ scheduled' = scheduled
      /\ kv' = kv /\ config' = config
  BY <1>1 DEF workerVars, batchVars
<1>5. /\ TypeOK /\ IsFiniteSet(remote) /\ OwnInv /\ EntriesInv /\ QueueInv /\ LifeInv
      /\ status \in [Seqs -> Statuses] /\ waiting \in Seq(Seqs) /\ running \in Seq(Seqs)
      /\ cancelled \subseteq Requests /\ cancels \subseteq Transfers /\ BlockTypeOK
  BY <1>1, OpenFacts, TypeFacts
<1>6. status[s] # "WAITING" /\ status[s] # "RUNNING"
  BY <1>2 DEF Transferring
<1>7. \A q \in Seqs : Alive(q)' <=> Alive(q)
  BY <1>3 DEF Alive
<1>8. BlockTypeOK'
  BY <1>3, <1>4, <1>5 DEF BlockTypeOK, Blocks
<1>9. /\ waiting' \in Seq(Seqs) /\ running' \in Seq(Seqs) /\ Len(running') <= Len(running)
  BY <1>3, <1>5, WithoutFacts
<1>10. TypeOK'
  <2>1. KVTypeOK'
    BY <1>4, <1>5, TypeFacts DEF KVTypeOK, Blocks
  <2>2. MaxNumSeqs' = MaxNumSeqs /\ MaxBatchedTokens' = MaxBatchedTokens
    BY <1>4 DEF MaxNumSeqs, MaxBatchedTokens
  <2>3. /\ config \in Configs /\ \A u \in DOMAIN events : events[u] \in Outcomes
        /\ Len(running) + Cardinality(remote) <= MaxNumSeqs
        /\ pc \in {"idle", "admit", "batch", "execute", "post", "events", "closing",
                   "closed"}
    BY <1>5 DEF TypeOK
  <2>4. cancelled' \subseteq Requests /\ cancels' \subseteq Transfers
    BY <1>3, <1>5 DEF PendingOf
  <2>5. Len(running') + Cardinality(remote') <= MaxNumSeqs'
    <3>1. MaxNumSeqs \in Nat /\ Len(running) \in Nat /\ Len(running') \in Nat
          /\ Cardinality(remote) \in Nat /\ remote' = remote
      BY <1>3, <1>5, <1>9, TypeFacts, FS_CardinalityType
    <3> QED BY <1>9, <2>2, <2>3, <3>1
  <2> QED BY <1>3, <1>4, <1>5, <1>8, <1>9, <2>1, <2>2, <2>3, <2>4, <2>5, TypeFacts,
             TypeMade, Zenon
<1>11. OwnInv'
  <2>1. \A q \in Seqs : Held(q) # {} => Alive(q)' /\ status'[q] # "WAITING"
    BY <1>3, <1>5, <1>7 DEF OwnInv
  <2>2. UNCHANGED <<table, reserved, free, ref>>
    BY <1>3
  <2> QED BY <1>5, <1>8, <2>1, <2>2, OwnKept
<1>12. EntriesInv'
  BY <1>3, <1>5 DEF EntriesInv
<1>13. SizeInv(s)' /\ TransferInv(s)'
  <2>1. SizeInv(s)'
    BY <1>2, <1>3, <1>4, <1>7, SizeKept
  <2>2. Queued(Attempt[s])' <=> Queued(Attempt[s])
    BY <1>4 DEF Queued
  <2>3. TransferInv(s)'
    BY <1>2, <1>3, <1>4, <1>7, <2>2, TransferKept
  <2> QED BY <2>1, <2>3
<1>14. QueueInv'
  <2>1. /\ Listed(waiting, "WAITING", status) /\ Listed(running, "RUNNING", status)
        /\ remote = {RequestId[x] : x \in {q \in Seqs : status[q] = "REMOTE"}}
    BY <1>5 DEF QueueInv
  <2>2. Listed(Without(waiting, s), "WAITING", status)
    BY <1>5, <1>6, <2>1, ListedFacts
  <2>3. Listed(Without(running, s), "RUNNING", status)
    BY <1>5, <1>6, <2>1, ListedFacts
  <2>4. Listed(waiting', "WAITING", status') /\ Listed(running', "RUNNING", status')
    BY <1>3, <2>2, <2>3
  <2> QED BY <1>3, <2>1, <2>4 DEF QueueInv, Listed
<1>15. LifeInv'
  <2>1. \A u \in cancelled' : requests[u] # NoSeq /\ Transferring(requests[u])
    BY <1>1, <1>2, <1>3, <1>5 DEF LifeInv
  <2> QED BY <1>3, <1>4, <1>5, <2>1 DEF LifeInv, Alive, Decodes, Transferring
<1>16. BatchInv'
  BY <1>1, <1>4 DEF BatchInv
<1>17. IsFiniteSet(remote') /\ pc \notin {"closing", "closed"}
  BY <1>1, <1>3, <1>5
<1>18. /\ \A q \in Seqs \ {s} :
              /\ tokens'[q] = tokens[q] /\ cached'[q] = cached[q] /\ status'[q] = status[q]
              /\ table'[q] = table[q] /\ reserved'[q] = reserved[q]
              /\ Alive(q)' <=> Alive(q)
       /\ \A u \in Transfers \ {Attempt[s]} :
              /\ pending'[u] = pending[u] /\ claims'[u] = claims[u]
              /\ u \in fresh' <=> u \in fresh
       /\ Attempt[s] \in fresh' => Attempt[s] \in fresh
       /\ loads' \in {loads, loads \cup {Attempt[s]}}
       /\ sends' \in {sends, sends \cup {Attempt[s]}}
  BY <1>3, <1>4, <1>7
<1>19. loads' = loads /\ sends' = sends
  BY <1>4
<1> QED BY <1>4, <1>10, <1>11, <1>12, <1>13, <1>14, <1>15, <1>16, <1>17, <1>18, <1>19,
           OneChanged

\* Any other request goes at once.
LEMMA CancelReleaseInv ==
    ASSUME PDInv, NEW r \in Requests, CancelRequest(r), PendingOf(r) = {}
    PROVE  PDInv'
<1>1. /\ pc = "idle" /\ requests[r] # NoSeq
      /\ UNCHANGED <<pc, seen, handoffs, failures, pending, loads, sends, claims,
                     workerVars, batchVars, tokens, hash, index, scheduled, kv, config>>
  BY DEF CancelRequest
<1>2. PICK s \in Seqs : /\ s = requests[r] /\ RequestId[s] = r /\ Alive(s) /\ SizeInv(s)
                        /\ ~Queued(Attempt[s]) /\ pending[Attempt[s]] = NoRequest
  BY <1>1, PendingFacts
<1>3. /\ waiting' = Without(waiting, s) /\ running' = Without(running, s)
      /\ Release(s) /\ cached' = [cached EXCEPT ![s] = 0] /\ cancels' = cancels
  BY <1>2 DEF CancelRequest
<1>4. /\ pc' = pc /\ seen' = seen /\ handoffs' = handoffs /\ failures' = failures
      /\ pending' = pending /\ loads' = loads /\ sends' = sends /\ claims' = claims
      /\ active' = active /\ ended' = ended /\ events' = events /\ fresh' = fresh
      /\ prefills' = prefills /\ decodes' = decodes /\ budget' = budget /\ todo' = todo
      /\ tokens' = tokens /\ hash' = hash /\ index' = index /\ scheduled' = scheduled
      /\ kv' = kv /\ config' = config
  BY <1>1 DEF workerVars, batchVars
<1>5. /\ TypeOK /\ QueueInv
      /\ status \in [Seqs -> Statuses] /\ waiting \in Seq(Seqs) /\ running \in Seq(Seqs)
      /\ cancels \subseteq Transfers /\ failures \subseteq Transfers /\ todo \in Seq(Seqs)
      /\ tokens \in [Seqs -> Seq(Token)] /\ scheduled \in [Seqs -> Nat]
  BY <1>1, OpenFacts, TypeFacts DEF BlockTypeOK, KVTypeOK
<1>6. status' = [status EXCEPT ![s] = "FINISHED"]
  BY <1>3 DEF Release
<1>7. waiting' \in Seq(Seqs) /\ running' \in Seq(Seqs) /\ Len(running') <= Len(running)
  BY <1>3, <1>5, WithoutFacts
<1>8. Listed(waiting', "WAITING", status') /\ Listed(running', "RUNNING", status')
  <2>1. Listed(waiting, "WAITING", status) /\ Listed(running, "RUNNING", status)
    BY <1>5 DEF QueueInv
  <2>2. "FINISHED" # "WAITING" /\ "FINISHED" # "RUNNING"
    OBVIOUS
  <2>3. Listed(Without(waiting, s), "WAITING", [status EXCEPT ![s] = "FINISHED"])
    BY <1>5, <2>1, <2>2, ListedFacts, Zenon
  <2>4. Listed(Without(running, s), "RUNNING", [status EXCEPT ![s] = "FINISHED"])
    BY <1>5, <2>1, <2>2, ListedFacts, Zenon
  <2> QED BY <1>3, <1>6, <2>3, <2>4
<1>9. BatchInv'
  BY <1>1, <1>4 DEF BatchInv
<1>10. /\ tokens' \in [Seqs -> Seq(Token)] /\ \A q \in Seqs \ {s} : tokens'[q] = tokens[q]
       /\ NumTokens(s)' >= NumPrompt(s) /\ (~Decodes => tokens'[s] = Prompt[s])
  <2>1. NumTokens(s)' = NumTokens(s)
    BY <1>4 DEF NumTokens
  <2>2. NumTokens(s) >= NumPrompt(s) /\ (~Decodes => tokens[s] = Prompt[s])
    BY <1>2 DEF SizeInv
  <2> QED BY <1>4, <1>5, <2>1, <2>2
<1>11. /\ cancels' \subseteq Transfers /\ failures' \subseteq Transfers
       /\ fresh' \subseteq fresh /\ pc \notin {"closing", "closed"}
       /\ todo' \in Seq(Seqs) /\ scheduled' \in [Seqs -> Nat]
       /\ \A u \in Transfers \ {Attempt[s]} : u \in fresh' <=> u \in fresh
  BY <1>1, <1>3, <1>4, <1>5
<1> QED BY <1>2, <1>3, <1>4, <1>7, <1>8, <1>9, <1>10, <1>11, ReleasedInv

-----------------------------------------------------------------------------
(* Shutdown, where only the table of requests and the blocks count         *)

\* The invariant of an engine that is closing.
LEMMA ClosingMade ==
    ASSUME TypeOK', IsFiniteSet(remote'), OwnInv', EntriesInv', active' = {}, pc' = "closing"
    PROVE  PDInv'
BY DEF PDInv, Closing

\* Shutdown begins.
LEMMA BeginShutdownInv == ASSUME PDInv, BeginShutdown PROVE PDInv'
<1>1. /\ pc = "idle" /\ pc' = "closing" /\ waiting' = <<>> /\ running' = <<>>
      /\ active' = {} /\ ended' = ended \cup active
      /\ UNCHANGED <<status, requestVars, commandVars, events, fresh, batchVars, bmVars,
                     scheduled, kv, config>>
  BY DEF BeginShutdown
<1>2. /\ status' = status /\ requests' = requests /\ remote' = remote
      /\ cancelled' = cancelled /\ seen' = seen /\ handoffs' = handoffs
      /\ failures' = failures /\ tokens' = tokens /\ cached' = cached /\ table' = table
      /\ reserved' = reserved /\ free' = free /\ ref' = ref /\ hash' = hash
      /\ index' = index /\ pending' = pending /\ loads' = loads /\ sends' = sends
      /\ cancels' = cancels /\ claims' = claims /\ events' = events /\ fresh' = fresh
      /\ prefills' = prefills /\ decodes' = decodes /\ budget' = budget /\ todo' = todo
      /\ scheduled' = scheduled /\ kv' = kv /\ config' = config
  BY <1>1 DEF requestVars, commandVars, batchVars, bmVars, blockVars
<1>3. /\ TypeOK /\ IsFiniteSet(remote) /\ OwnInv /\ EntriesInv /\ BlockTypeOK
      /\ active \subseteq Transfers /\ ended \subseteq Transfers
      /\ running \in Seq(Seqs)
  BY <1>1, OpenFacts, TypeFacts
<1>4. BlockTypeOK'
  BY <1>2, <1>3 DEF BlockTypeOK, Blocks
<1>5. TypeOK'
  <2>1. KVTypeOK'
    BY <1>2, <1>3, TypeFacts DEF KVTypeOK, Blocks
  <2>2. MaxNumSeqs' = MaxNumSeqs /\ MaxBatchedTokens' = MaxBatchedTokens
    BY <1>2 DEF MaxNumSeqs, MaxBatchedTokens
  <2>3. /\ config \in Configs /\ \A u \in DOMAIN events : events[u] \in Outcomes
        /\ Len(running) + Cardinality(remote) <= MaxNumSeqs
    BY <1>3 DEF TypeOK
  <2>4. /\ waiting' \in Seq(Seqs) /\ running' \in Seq(Seqs) /\ Len(running') = 0
        /\ active' \subseteq Transfers /\ ended' \subseteq Transfers
        /\ pc' \in {"idle", "admit", "batch", "execute", "post", "events", "closing",
                    "closed"}
    BY <1>1, <1>3
  <2>5. Len(running') + Cardinality(remote') <= MaxNumSeqs'
    <3>1. MaxNumSeqs \in Nat /\ Len(running) \in Nat /\ Cardinality(remote) \in Nat
      BY <1>3, TypeFacts, FS_CardinalityType
    <3> QED BY <1>2, <2>2, <2>3, <2>4, <3>1
  <2> QED BY <1>2, <1>3, <1>4, <2>1, <2>2, <2>3, <2>4, <2>5, TypeFacts, TypeMade, Zenon
<1>6. OwnInv'
  <2>1. \A q \in Seqs : Held(q) # {} => Alive(q)' /\ status'[q] # "WAITING"
    BY <1>2, <1>3 DEF OwnInv, Alive
  <2>2. UNCHANGED <<table, reserved, free, ref>>
    BY <1>2
  <2> QED BY <1>3, <1>4, <2>1, <2>2, OwnKept
<1>7. EntriesInv'
  BY <1>2, <1>3 DEF EntriesInv
<1> QED BY <1>1, <1>2, <1>3, <1>5, <1>6, <1>7, ClosingMade

\* It releases every request.
LEMMA ReleaseAtShutdownInv ==
    ASSUME PDInv, NEW r \in Requests, ReleaseAtShutdown(r) PROVE PDInv'
<1>1. /\ pc = "closing" /\ requests[r] # NoSeq /\ Release(requests[r])
      /\ cached' = [cached EXCEPT ![requests[r]] = 0]
      /\ UNCHANGED <<pc, waiting, running, seen, handoffs, failures, commandVars,
                     workerVars, batchVars, tokens, hash, index, scheduled, kv, config>>
  BY DEF ReleaseAtShutdown
<1>2. /\ pc' = pc /\ waiting' = waiting /\ running' = running /\ seen' = seen
      /\ handoffs' = handoffs /\ failures' = failures
      /\ tokens' = tokens /\ hash' = hash /\ index' = index /\ pending' = pending
      /\ loads' = loads /\ sends' = sends /\ cancels' = cancels /\ claims' = claims
      /\ active' = active /\ ended' = ended /\ events' = events /\ fresh' = fresh
      /\ prefills' = prefills /\ decodes' = decodes /\ budget' = budget /\ todo' = todo
      /\ scheduled' = scheduled /\ kv' = kv /\ config' = config
  BY <1>1 DEF commandVars, workerVars, batchVars
<1>3. /\ TypeOK /\ IsFiniteSet(remote) /\ OwnInv /\ EntriesInv /\ active = {}
      /\ requests \in [Requests -> Seqs \cup {NoSeq}] /\ status \in [Seqs -> Statuses]
      /\ cached \in [Seqs -> Nat] /\ tokens \in [Seqs -> Seq(Token)]
      /\ remote \subseteq Requests /\ cancelled \subseteq Requests
      /\ running \in Seq(Seqs)
  BY <1>1, TypeFacts DEF PDInv, Closing, BlockTypeOK
<1>4. PICK s \in Seqs : s = requests[r]
  BY <1>1, <1>3
<1>5. Alive(s)
  BY <1>1, <1>3, <1>4 DEF EntriesInv, Alive
<1>6. Release(s) /\ cached' \in [Seqs -> Nat] /\ tokens' \in [Seqs -> Seq(Token)]
  BY <1>1, <1>2, <1>3, <1>4
<1>7. /\ OwnInv' /\ EntriesInv' /\ BlockTypeOK'
      /\ requests' \in [Requests -> Seqs \cup {NoSeq}]
      /\ status' = [status EXCEPT ![s] = "FINISHED"]
      /\ remote' = remote \ {RequestId[s]} /\ cancelled' = cancelled \ {RequestId[s]}
  BY <1>2, <1>3, <1>5, <1>6, ReleaseFacts, Zenon
<1>8. /\ IsFiniteSet(remote') /\ Cardinality(remote') <= Cardinality(remote)
      /\ Cardinality(remote) \in Nat /\ Cardinality(remote') \in Nat
  <2>1. remote' \subseteq remote
    BY <1>7
  <2> QED BY <1>3, <2>1, FS_Subset, FS_CardinalityType
<1>9. TypeOK'
  <2>1. KVTypeOK'
    BY <1>2, <1>3, TypeFacts DEF KVTypeOK, Blocks
  <2>2. MaxNumSeqs' = MaxNumSeqs /\ MaxBatchedTokens' = MaxBatchedTokens
    BY <1>2 DEF MaxNumSeqs, MaxBatchedTokens
  <2>3. /\ config \in Configs /\ \A u \in DOMAIN events : events[u] \in Outcomes
        /\ Len(running) + Cardinality(remote) <= MaxNumSeqs
        /\ pc \in {"idle", "admit", "batch", "execute", "post", "events", "closing",
                   "closed"}
    BY <1>3 DEF TypeOK
  <2>4. Len(running') + Cardinality(remote') <= MaxNumSeqs'
    <3>1. MaxNumSeqs \in Nat /\ Len(running) \in Nat
      BY <1>3, TypeFacts
    <3> QED BY <1>2, <1>8, <2>2, <2>3, <3>1
  <2>5. /\ status' \in [Seqs -> Statuses] /\ remote' \subseteq Requests
        /\ cancelled' \subseteq Requests
    BY <1>3, <1>7 DEF Statuses
  <2> QED BY <1>2, <1>3, <1>7, <2>1, <2>2, <2>3, <2>4, <2>5, TypeFacts, TypeMade, Zenon
<1> QED BY <1>1, <1>2, <1>3, <1>7, <1>8, <1>9, ClosingMade

\* The connector's state goes last.
LEMMA EndShutdownInv == ASSUME PDInv, EndShutdown PROVE PDInv'
<1>1. /\ pc = "closing" /\ pc' = "closed" /\ \A r \in Requests : requests[r] = NoSeq
      /\ pending' = [t \in Transfers |-> NoRequest]
      /\ loads' = {} /\ sends' = {} /\ cancels' = {}
      /\ UNCHANGED <<queueVars, requestVars, claims, workerVars, batchVars, bmVars,
                     scheduled, kv, config>>
  BY DEF EndShutdown
<1>2. /\ waiting' = waiting /\ running' = running /\ status' = status
      /\ requests' = requests /\ remote' = remote
      /\ cancelled' = cancelled /\ seen' = seen /\ handoffs' = handoffs
      /\ failures' = failures /\ tokens' = tokens /\ cached' = cached /\ table' = table
      /\ reserved' = reserved /\ free' = free /\ ref' = ref /\ hash' = hash
      /\ index' = index /\ claims' = claims /\ active' = active /\ ended' = ended
      /\ events' = events /\ fresh' = fresh
      /\ prefills' = prefills /\ decodes' = decodes /\ budget' = budget /\ todo' = todo
      /\ scheduled' = scheduled /\ kv' = kv /\ config' = config
  BY <1>1 DEF queueVars, requestVars, workerVars, batchVars, bmVars, blockVars
<1>3. /\ TypeOK /\ IsFiniteSet(remote) /\ OwnInv /\ EntriesInv /\ BlockTypeOK /\ active = {}
  BY <1>1, TypeFacts DEF PDInv, Closing
<1>4. BlockTypeOK'
  BY <1>2, <1>3 DEF BlockTypeOK, Blocks
<1>5. TypeOK'
  <2>1. KVTypeOK'
    BY <1>2, <1>3, TypeFacts DEF KVTypeOK, Blocks
  <2>2. MaxNumSeqs' = MaxNumSeqs /\ MaxBatchedTokens' = MaxBatchedTokens
    BY <1>2 DEF MaxNumSeqs, MaxBatchedTokens
  <2>3. /\ config \in Configs /\ \A u \in DOMAIN events : events[u] \in Outcomes
        /\ Len(running) + Cardinality(remote) <= MaxNumSeqs
    BY <1>3 DEF TypeOK
  <2>4. /\ pending' \in [Transfers -> Requests \cup {NoRequest}]
        /\ loads' \subseteq Transfers /\ sends' \subseteq Transfers
        /\ cancels' \subseteq Transfers
        /\ pc' \in {"idle", "admit", "batch", "execute", "post", "events", "closing",
                    "closed"}
    BY <1>1
  <2> QED BY <1>2, <1>3, <1>4, <2>1, <2>2, <2>3, <2>4, TypeFacts, TypeMade, Zenon
<1>6. OwnInv'
  <2>1. \A q \in Seqs : Held(q) # {} => Alive(q)' /\ status'[q] # "WAITING"
    BY <1>2, <1>3 DEF OwnInv, Alive
  <2>2. UNCHANGED <<table, reserved, free, ref>>
    BY <1>2
  <2> QED BY <1>3, <1>4, <2>1, <2>2, OwnKept
<1>7. EntriesInv' /\ IsFiniteSet(remote') /\ \A r \in Requests : requests'[r] = NoSeq
  BY <1>1, <1>2, <1>3 DEF EntriesInv
<1> QED BY <1>1, <1>2, <1>3, <1>5, <1>6, <1>7 DEF PDInv, Closing

-----------------------------------------------------------------------------
(* The invariant                                                           *)

\* A new engine has no requests.
LEMMA InitPDInv == Init => PDInv
<1> SUFFICES ASSUME Init PROVE PDInv
  OBVIOUS
<1>1. /\ config \in Configs /\ BlockInit /\ KVInit /\ pc = "idle"
      /\ waiting = <<>> /\ running = <<>> /\ status = [s \in Seqs |-> "NEW"]
      /\ requests = [r \in Requests |-> NoSeq]
      /\ remote = {} /\ cancelled = {} /\ seen = {} /\ handoffs = {} /\ failures = {}
      /\ pending = [t \in Transfers |-> NoRequest]
      /\ loads = {} /\ sends = {} /\ cancels = {} /\ claims = [t \in Transfers |-> <<>>]
      /\ active = {} /\ ended = {} /\ events = <<>> /\ fresh = {}
      /\ prefills = <<>> /\ decodes = <<>> /\ budget = 0 /\ todo = <<>>
  BY DEF Init
<1>2. PoolInv /\ BlockTypeOK /\ \A s \in Seqs : Held(s) = {}
  BY <1>1, InitPool DEF PoolInv
<1>3. DOMAIN events = {} /\ <<>> \in Seq(Seqs) /\ <<>> \in Seq(Blocks)
  BY <1>1
<1>4. MaxNumSeqs \in Nat \ {0} /\ MaxBatchedTokens \in Nat \ {0}
  BY <1>1, ConfigAssumption DEF MaxNumSeqs, MaxBatchedTokens
<1>5. TypeOK
  <2>1. KVTypeOK
    <3>1. Garbage \in Seq(Token)
      BY DEF Garbage
    <3> QED BY <1>1, <3>1 DEF KVInit, KVTypeOK
  <2>2. \A q \in {waiting, running, prefills, decodes, todo} : q \in Seq(Seqs)
    BY <1>1, <1>3
  <2>3. /\ status \in [Seqs -> {"NEW", "WAITING", "REMOTE", "RUNNING", "FINISHED"}]
        /\ requests \in [Requests -> Seqs \cup {NoSeq}]
        /\ pending \in [Transfers -> Requests \cup {NoRequest}]
        /\ claims \in [Transfers -> Seq(Blocks)]
    BY <1>1, <1>3
  <2>4. \A c \in {seen, loads, sends, cancels, handoffs, failures, active, ended, fresh} :
           c \subseteq Transfers
    BY <1>1
  <2>5. Len(running) + Cardinality(remote) <= MaxNumSeqs /\ budget \in 0 .. MaxBatchedTokens
    BY <1>1, <1>4, FS_EmptySet
  <2> QED BY <1>1, <1>2, <1>3, <2>1, <2>2, <2>3, <2>4, <2>5 DEF TypeOK
<1>6. OwnInv /\ EntriesInv /\ IsFiniteSet(remote)
  BY <1>1, <1>2, FS_EmptySet DEF OwnInv, EntriesInv
<1>7. ASSUME NEW s \in Seqs PROVE SizeInv(s) /\ TransferInv(s)
  <2>1. status[s] = "NEW" /\ tokens[s] = Prompt[s] /\ cached[s] = 0
    BY <1>1 DEF BlockInit
  <2>2. ~Holding(s) /\ ~Transferring(s)
    BY <2>1 DEF Holding, Transferring
  <2>3. NumPrompt(s) \in Nat \ {0} /\ NumTokens(s) = NumPrompt(s) /\ IsPrefill(s)
    BY <1>5, <2>1, SeqFacts DEF NumTokens, NumPrompt, IsPrefill
  <2>4. SizeInv(s)
    <3>1. NumTokens(s) >= NumPrompt(s) /\ tokens[s] = Prompt[s] /\ status[s] # "RUNNING"
      BY <2>1, <2>3
    <3> QED BY <2>2, <2>3, <3>1, Zenon DEF SizeInv
  <2>5. /\ ~Queued(Attempt[s]) /\ ~Underway(Attempt[s])
        /\ pending[Attempt[s]] = NoRequest
    BY <1>1, IdAssumption DEF Queued, Underway
  <2>6. TransferInv(s)
    BY <1>1, <2>2, <2>5 DEF TransferInv
  <2> QED BY <2>4, <2>6
<1>8. QueueInv
  <2>1. Distinct(<<>>) /\ Elems(<<>>) = {}
    BY DEF Distinct, Elems
  <2>2. \A s \in Seqs : status[s] = "NEW"
    BY <1>1
  <2> QED BY <1>1, <2>1, <2>2 DEF QueueInv, Listed
<1>9. BatchInv
  BY <1>1 DEF BatchInv
<1>10. LifeInv
  <2>1. \A s \in Seqs : status[s] = "NEW"
    BY <1>1
  <2> QED BY <1>1, <2>1 DEF LifeInv
<1>11. EventInv
  BY <1>1, <1>3 DEF EventInv, Queued
<1> QED BY <1>1, <1>5, <1>6, <1>7, <1>8, <1>9, <1>10, <1>11 DEF PDInv, OpenInv, Closing

\* A step that changes nothing.
LEMMA StutterInv == ASSUME PDInv, UNCHANGED vars PROVE PDInv'
<1>1. /\ pc' = pc /\ waiting' = waiting /\ running' = running /\ status' = status
      /\ requests' = requests /\ remote' = remote
      /\ cancelled' = cancelled /\ seen' = seen /\ handoffs' = handoffs
      /\ failures' = failures /\ tokens' = tokens /\ cached' = cached /\ table' = table
      /\ reserved' = reserved /\ free' = free /\ ref' = ref /\ hash' = hash
      /\ index' = index /\ claims' = claims /\ active' = active /\ ended' = ended
      /\ events' = events /\ fresh' = fresh /\ pending' = pending
      /\ loads' = loads /\ sends' = sends /\ cancels' = cancels
      /\ prefills' = prefills /\ decodes' = decodes /\ budget' = budget /\ todo' = todo
      /\ scheduled' = scheduled /\ kv' = kv /\ config' = config
  BY DEF vars, queueVars, requestVars, commandVars, workerVars, batchVars, bmVars, blockVars
<1>2. TypeOK /\ IsFiniteSet(remote) /\ OwnInv /\ EntriesInv /\ BlockTypeOK
  BY TypeFacts DEF PDInv
<1>3. BlockTypeOK'
  BY <1>1, <1>2 DEF BlockTypeOK, Blocks
<1>4. TypeOK'
  <2>1. KVTypeOK'
    BY <1>1, <1>2, TypeFacts DEF KVTypeOK, Blocks
  <2>2. MaxNumSeqs' = MaxNumSeqs /\ MaxBatchedTokens' = MaxBatchedTokens
    BY <1>1 DEF MaxNumSeqs, MaxBatchedTokens
  <2>3. /\ config \in Configs /\ \A u \in DOMAIN events : events[u] \in Outcomes
        /\ Len(running) + Cardinality(remote) <= MaxNumSeqs
        /\ pc \in {"idle", "admit", "batch", "execute", "post", "events", "closing",
                   "closed"}
    BY <1>2 DEF TypeOK
  <2> QED BY <1>1, <1>2, <1>3, <2>1, <2>2, <2>3, TypeFacts, TypeMade, Zenon
<1>5. OwnInv'
  <2>1. \A q \in Seqs : Held(q) # {} => Alive(q)' /\ status'[q] # "WAITING"
    BY <1>1, <1>2 DEF OwnInv, Alive
  <2>2. UNCHANGED <<table, reserved, free, ref>>
    BY <1>1
  <2> QED BY <1>2, <1>3, <2>1, <2>2, OwnKept
<1>6. EntriesInv' /\ IsFiniteSet(remote')
  BY <1>1, <1>2 DEF EntriesInv
<1>7. CASE Closing
  <2>1. /\ active = {}
        /\ pc = "closed" =>
              loads = {} /\ sends = {} /\ \A r \in Requests : requests[r] = NoSeq
    BY <1>7 DEF PDInv
  <2> QED BY <1>1, <1>4, <1>5, <1>6, <1>7, <2>1 DEF PDInv, Closing
<1>8. CASE ~Closing
  <2>1. pc \notin {"closing", "closed"} /\ pc' \notin {"closing", "closed"}
    BY <1>1, <1>8 DEF Closing
  <2>2. BatchInv'
    <3>1. BatchInv
      BY <2>1, OpenFacts
    <3> QED BY <1>1, <3>1 DEF BatchInv
  <2>3. UNCHANGED <<queueVars, requestVars, commandVars, workerVars, bmVars, config>>
    BY DEF vars
  <2>4. pc' \notin {"post", "events"} => pc \notin {"post", "events"}
    BY <1>1
  <2> QED BY <1>4, <2>1, <2>2, <2>3, <2>4, LoopStep
<1> QED BY <1>7, <1>8

\* The invariant is inductive.
LEMMA NextPDInv == PDInv /\ [Next]_vars => PDInv'
<1> SUFFICES ASSUME PDInv, [Next]_vars PROVE PDInv'
  OBVIOUS
<1>1. CASE EngineStep
  <2>1. CASE BeginStep
    BY <2>1, BeginStepInv
  <2>2. CASE EndAdmit
    BY <2>2, EndAdmitInv
  <2>3. CASE EndBatch
    BY <2>3, EndBatchInv
  <2>4. CASE Execute
    BY <2>4, ExecuteInv
  <2>5. CASE EndPost
    BY <2>5, EndPostInv
  <2>6. CASE EndEvents
    BY <2>6, EndEventsInv
  <2>7. CASE \E s \in Seqs : AdmitSkip(s) \/ AdmitPrompt(s) \/ AdmitRemote(s)
    BY <2>7, AdmitSkipInv, AdmitPromptInv, AdmitRemoteInv
  <2>8. CASE \E s \in Seqs : BatchSkip(s) \/ BatchJoin(s)
    BY <2>8, BatchSkipInv, BatchJoinInv
  <2>9. CASE \E s \in Seqs : PostChunk(s) \/ PostHandoff(s)
    BY <2>9, PostChunkInv, PostHandoffInv
  <2>10. CASE \E s \in Seqs, token \in Token : PostToken(s, token) \/ PostFinish(s, token)
    BY <2>10, PostTokenInv, PostFinishInv
  <2>11. CASE \E t \in Transfers : EventStale(t) \/ EventReceived(t) \/ EventEnds(t)
    BY <2>11, EventStaleInv, EventReceivedInv, EventEndsInv
  <2> QED BY <1>1, <2>1, <2>2, <2>3, <2>4, <2>5, <2>6, <2>7, <2>8, <2>9, <2>10, <2>11
          DEF EngineStep
<1>2. CASE \E s \in Seqs : Add(s)
  BY <1>2, AddInv
<1>3. CASE \E r \in Requests : CancelRequest(r)
  BY <1>3, CancelPendingInv, CancelReleaseInv
<1>4. CASE \E r \in Requests : ReleaseAtShutdown(r)
  BY <1>4, ReleaseAtShutdownInv
<1>5. CASE BeginShutdown
  BY <1>5, BeginShutdownInv
<1>6. CASE EndShutdown
  BY <1>6, EndShutdownInv
<1>7. CASE UNCHANGED vars
  BY <1>7, StutterInv
<1> QED BY <1>1, <1>2, <1>3, <1>4, <1>5, <1>6, <1>7 DEF Next

\* PDInv holds in every state.
THEOREM PDInvariant == Spec => []PDInv
<1> QED BY InitPDInv, NextPDInv, PTL DEF Spec

-----------------------------------------------------------------------------
(* What follows                                                            *)

\* The types of the scheduler's state, the budget of a step and the limit of slots,
\* which running requests and those that wait for their KV share.
THEOREM EngineTypes == Spec => []TypeOK
<1>1. PDInv => TypeOK
  BY DEF PDInv
<1> QED BY <1>1, PDInvariant, PTL

\* A transfer that is queued or under way reads or writes blocks that its live request
\* alone holds: the worker can use the claim until it reports the end.
THEOREM ClaimsAreHeld == Spec => []TransfersKeepBlocks
<1>1. PDInv => TransfersKeepBlocks
  <2> SUFFICES ASSUME PDInv, pc # "closing", NEW t \in loads \cup sends \cup active
               PROVE  /\ SeqOf(t) # NoSeq /\ Attempt[SeqOf(t)] = t
                      /\ ValidBlocks(Cache, claims[t], NumPrompt(SeqOf(t)))
                      /\ claims[t] = SubSeq(table[SeqOf(t)], 1, Len(claims[t]))
                      /\ \A b \in Elems(claims[t]) : Holders(b) = {SeqOf(t)}
    BY DEF TransfersKeepBlocks
  <2>1. pc \notin {"closing", "closed"}
    BY DEF PDInv, Closing
  <2>2. /\ TypeOK /\ OwnInv /\ LifeInv /\ EventInv
        /\ \A s \in Seqs : SizeInv(s)
        /\ \A s \in Seqs : TransferInv(s)
    BY <2>1, OpenFacts
  <2>3. Queued(t) /\ Underway(t) /\ t \in Transfers
    BY <2>2, TypeFacts DEF Queued, Underway
  <2>4. PICK s \in Seqs : Attempt[s] = t
    BY <2>2, <2>3 DEF EventInv
  <2>5. Transferring(s) /\ pending[t] = RequestId[s] /\ claims[t] = table[s]
    BY <2>2, <2>3, <2>4 DEF TransferInv
  <2>6. Alive(s) /\ Holding(s) /\ status[s] # "RUNNING"
    BY <2>2, <2>5 DEF LifeInv, Transferring, Holding
  <2>7. SeqOf(t) = s /\ s # NoSeq
    BY <2>5, <2>6, IdAssumption DEF SeqOf, Alive
  <2>8. Len(table[s]) = CeilDiv(NumPrompt(s), BlockSize)
    BY <2>2, <2>6 DEF SizeInv
  <2>9. table[s] \in Seq(Blocks) /\ reserved[s] \in Seq(Blocks) /\ Distinct(table[s])
    <3> DEFINE p == table[s]
               q == reserved[s]
    <3>1. p \in Seq(Blocks) /\ q \in Seq(Blocks) /\ Distinct(p \o q)
      BY <2>2 DEF OwnInv, PoolInv, BlockTypeOK, TablesDistinct
    <3> HIDE DEF p, q
    <3>2. Distinct(p)
      BY <3>1, ConcatFacts
    <3> QED BY <3>1, <3>2 DEF p, q
  <2>10. ValidBlocks(Cache, claims[t], NumPrompt(s))
    <3>1. NumPrompt(s) \in Nat \ {0} /\ BlockSize \in Nat \ {0} /\ NumBlocks \in Nat
      BY <2>2, SeqFacts, PoolAssumption
    <3>2. Cache.blockSize = BlockSize /\ Cache.capacity = NumBlocks
      BY DEF Cache
    <3>3. \A i \in 1 .. Len(table[s]) : table[s][i] \in 0 .. NumBlocks - 1
      <4>1. \A i \in 1 .. Len(table[s]) : table[s][i] \in Blocks
        BY <2>9
      <4> QED BY <4>1 DEF Blocks
    <3>4. \A i, j \in 1 .. Len(table[s]) : table[s][i] = table[s][j] => i = j
      BY <2>9 DEF Distinct
    <3> QED BY <2>5, <2>8, <3>1, <3>2, <3>3, <3>4 DEF ValidBlocks, CeilDiv
  <2>11. claims[t] = SubSeq(table[s], 1, Len(claims[t]))
    <3>1. SubSeq(table[s], 1, Len(table[s])) = table[s]
      BY <2>9
    <3> QED BY <2>5, <3>1
  <2>12. ASSUME NEW b \in Elems(claims[t]) PROVE Holders(b) = {s}
    <3>1. Holders(b) = {q \in Seqs : b \in Held(q)}
      BY DEF Holders, Held
    <3>2. b \in Held(s)
      BY <2>5 DEF Held
    <3>3. \A q \in Seqs : q # s => Held(q) \cap Held(s) = {}
      BY <2>2 DEF OwnInv
    <3> QED BY <3>1, <3>2, <3>3
  <2> QED BY <2>4, <2>7, <2>10, <2>11, <2>12
<1> QED BY <1>1, PDInvariant, PTL

\* Only requests in the table that have been admitted hold blocks, the counts are those
\* of the holders, and shutdown leaves every block in the queue.
THEOREM BlocksHaveLiveOwners == Spec => []OnlyLiveRequestsOwnBlocks
<1>1. PDInv => OnlyLiveRequestsOwnBlocks
  <2> SUFFICES ASSUME PDInv PROVE OnlyLiveRequestsOwnBlocks
    OBVIOUS
  <2>1. PoolInv /\ RefsCount /\ FreeIsUnreferenced /\ BlockTypeOK
    BY DEF PDInv, OwnInv, PoolInv
  <2>2. \A s \in Seqs : Held(s) # {} => Alive(s) /\ status[s] # "WAITING"
    BY DEF PDInv, OwnInv
  <2>3. ASSUME NEW s \in Seqs, table[s] \o reserved[s] # <<>>
        PROVE  requests[RequestId[s]] = s /\ status[s] # "WAITING"
    <3> DEFINE q == table[s] \o reserved[s]
    <3>1. Elems(q) = Held(s) /\ q \in Seq(Blocks)
      BY <2>1, HeldFacts DEF BlockTypeOK
    <3>2. q # <<>>
      BY <2>3
    <3> HIDE DEF q
    <3>3. 1 \in 1 .. Len(q)
      BY <3>1, <3>2
    <3>4. Held(s) # {}
      BY <3>1, <3>3 DEF Elems
    <3> QED BY <2>2, <3>4 DEF Alive
  <2>4. RefCountsHolders
    BY <2>1 DEF RefsCount, RefCountsHolders
  <2>5. ASSUME pc = "closed" PROVE Elems(free) = Blocks
    <3>1. \A r \in Requests : requests[r] = NoSeq
      BY <2>5 DEF PDInv
    <3>2. \A s \in Seqs : ~Alive(s)
      BY <3>1, IdAssumption DEF Alive
    <3>3. \A b \in Blocks : Holders(b) = {}
      BY <2>2, <3>2 DEF Holders, Held
    <3>4. \A b \in Blocks : ref[b] = 0
      BY <2>1, <3>3, FreeHasNoHolder
    <3> QED BY <2>1, <3>4 DEF FreeIsUnreferenced
  <2> QED BY <2>3, <2>4, <2>5 DEF OnlyLiveRequestsOwnBlocks
<1> QED BY <1>1, PDInvariant, PTL

\* No batch has a cancelled request, nor has the queue it is taken from.
THEOREM CancelledRequestsStayOut == Spec => []CancelledNeverRuns
<1>1. PDInv => CancelledNeverRuns
  <2> SUFFICES ASSUME PDInv, NEW s \in Elems(running \o prefills \o decodes),
                      pc \in {"batch", "execute", "post"}, RequestId[s] \in cancelled
               PROVE  FALSE
    BY DEF CancelledNeverRuns
  <2>1. /\ TypeOK /\ QueueInv /\ BatchInv /\ LifeInv
        /\ running \in Seq(Seqs) /\ prefills \in Seq(Seqs) /\ decodes \in Seq(Seqs)
    BY OpenFacts, TypeFacts
  <2>2. Elems(running \o prefills \o decodes)
          = Elems(running) \cup Elems(prefills) \cup Elems(decodes)
    <3> DEFINE p == running \o prefills
    <3>1. p \in Seq(Seqs) /\ Elems(p) = Elems(running) \cup Elems(prefills)
      BY <2>1, ConcatFacts
    <3> HIDE DEF p
    <3>2. Elems(p \o decodes) = Elems(p) \cup Elems(decodes)
      BY <2>1, <3>1, ConcatFacts
    <3> QED BY <3>1, <3>2 DEF p
  <2>3. s \in Elems(running)
    BY <2>1, <2>2 DEF BatchInv
  <2>4. s \in Seqs /\ status[s] = "RUNNING"
    BY <2>1, <2>3 DEF QueueInv, Listed
  <2>5. requests[RequestId[s]] = s
    BY <2>1, <2>4 DEF LifeInv, Alive
  <2>6. Transferring(requests[RequestId[s]])
    BY <2>1 DEF LifeInv
  <2> QED BY <2>4, <2>5, <2>6 DEF Transferring
<1> QED BY <1>1, PDInvariant, PTL

\* A release only makes the queue of free blocks longer.
LEMMA DeallocateGrows ==
    ASSUME BlockTypeOK, NEW s \in Seqs, Deallocate(s, hash) PROVE Len(free') >= Len(free)
<1> DEFINE blocks == table[s] \o reserved[s]
           plain  == {b \in Blocks : ref[b] = 1 /\ hash[b] = NoHash}
           hashed == {b \in Blocks : ref[b] = 1 /\ hash[b] # NoHash}
           front  == Kept(blocks, plain)
           back   == Reversed(Kept(blocks, hashed))
<1>1. free' = front \o free \o back
  BY DEF Deallocate, Idle, IdleHashed
<1>2. blocks \in Seq(Blocks) /\ free \in Seq(Blocks)
  BY DEF BlockTypeOK
<1> HIDE DEF blocks, plain, hashed
<1>3. front \in Seq(Blocks) /\ Kept(blocks, hashed) \in Seq(Blocks)
  BY <1>2, KeptFacts
<1>4. back \in Seq(Blocks)
  BY <1>3, ReversedFacts
<1> HIDE DEF front, back
<1> QED BY <1>1, <1>2, <1>3, <1>4

\* Blocks leave the queue at admission only: a request that runs has all it needs.
THEOREM AllocationIsAtAdmission == Spec => NoLateAllocation
<1> DEFINE Late == Len(free') < Len(free) => pc = "admit"
<1>1. ASSUME PDInv, Next PROVE Late
  <2>1. BlockTypeOK /\ free \in Seq(Blocks) /\ Len(free) \in Nat
    BY <1>1, TypeFacts DEF PDInv, BlockTypeOK
  <2>2. free' = free => Late
    BY <2>1
  <2>3. ASSUME NEW s \in Seqs, Release(s) PROVE Late
    BY <2>1, <2>3, DeallocateGrows DEF Release
  <2>4. CASE BeginStep \/ EndAdmit \/ EndBatch \/ Execute \/ EndPost \/ EndEvents
    BY <2>2, <2>4 DEF BeginStep, EndAdmit, EndBatch, Execute, EndPost, EndEvents, bmVars,
                      blockVars
  <2>5. CASE \E s \in Seqs : AdmitSkip(s) \/ AdmitPrompt(s) \/ AdmitRemote(s)
    BY <2>5 DEF AdmitSkip, AdmitPrompt, AdmitRemote, Admit, NextAdmit
  <2>6. CASE \E s \in Seqs : BatchSkip(s) \/ PostChunk(s) \/ PostHandoff(s)
    BY <2>2, <2>6 DEF BatchSkip, PostChunk, PostHandoff, bmVars, blockVars
  <2>7. ASSUME NEW s \in Seqs, BatchJoin(s) PROVE free' = free
    <3>1. /\ NextCandidate(s)
          /\ UNCHANGED <<pc, waiting, status, requestVars, tokens, cached>>
          /\ \/ IsPrefill(s) /\ UNCHANGED <<table, reserved, blockVars>>
             \/ ~IsPrefill(s) /\ MayAppend(s)
      BY <2>7 DEF BatchJoin
    <3>2. /\ tokens' = tokens /\ cached' = cached /\ status' = status
          /\ requests' = requests
      BY <3>1 DEF requestVars
    <3>3. pc \in {"batch", "post"} /\ todo # <<>> /\ s = Head(todo)
      BY <3>1 DEF NextCandidate
    <3>4. TypeOK /\ OwnInv
      BY <1>1 DEF PDInv
    <3>5. SizeInv(s) /\ status[s] = "RUNNING"
      BY <1>1, <3>3, CandidateFacts
    <3> QED BY <3>1, <3>2, <3>4, <3>5, JoinBlocks
  <2>8. CASE \E s \in Seqs : BatchJoin(s)
    BY <2>2, <2>7, <2>8
  <2>9. CASE \E s \in Seqs, token \in Token : PostToken(s, token) \/ PostFinish(s, token)
    BY <2>2, <2>3, <2>9 DEF PostToken, PostFinish
  <2>10. CASE \E t \in Transfers : EventStale(t) \/ EventReceived(t)
    BY <2>2, <2>10 DEF EventStale, EventReceived
  <2>11. ASSUME NEW t \in Transfers, EventEnds(t) PROVE Late
    <3>1. NextEvent(t) /\ SeqOf(t) # NoSeq /\ Release(SeqOf(t))
      BY <2>11 DEF EventEnds
    <3>2. \E s \in Seqs : SeqOf(t) = s
      BY <1>1, <3>1, EventFacts
    <3> QED BY <2>3, <3>1, <3>2
  <2>12. CASE \E s \in Seqs : Add(s)
    BY <2>2, <2>12 DEF Add, bmVars, blockVars
  <2>13. ASSUME NEW r \in Requests, requests[r] # NoSeq PROVE requests[r] \in Seqs
    BY <1>1, <2>13, TypeFacts DEF PDInv
  <2>14. CASE \E r \in Requests : CancelRequest(r)
    <3>1. PICK r \in Requests : CancelRequest(r)
      BY <2>14
    <3>2. requests[r] # NoSeq /\ (free' = free \/ Release(requests[r]))
      BY <3>1 DEF CancelRequest, CancelPending
    <3> QED BY <2>2, <2>3, <2>13, <3>2
  <2>15. CASE \E r \in Requests : ReleaseAtShutdown(r)
    BY <2>3, <2>13, <2>15 DEF ReleaseAtShutdown
  <2>16. CASE BeginShutdown \/ EndShutdown
    BY <2>2, <2>16 DEF BeginShutdown, EndShutdown, bmVars, blockVars
  <2> HIDE DEF Late
  <2> QED BY <1>1, <2>4, <2>5, <2>6, <2>8, <2>9, <2>10, <2>11, <2>12, <2>14, <2>15, <2>16
          DEF Next, EngineStep
<1>2. PDInv /\ [Next]_vars => [Late]_vars
  BY <1>1
<1> QED BY <1>2, PDInvariant, PTL DEF Spec, NoLateAllocation

-----------------------------------------------------------------------------
(* The contents of the blocks                                              *)

Batching    == pc \in {"batch", "execute"}
Received(t) == t \in fresh /\ events[t] = "ok"

\* How far a request has been computed, and that its KV up to there is stored: what
\* the batch adds is missing until postprocess, and D's prompt until it is received.
StoredInv(s) ==
    /\ StoredFor(s, cached[s])
    /\ status[s] \in {"NEW", "WAITING", "REMOTE"} => cached[s] = 0
    /\ status[s] = "FINISHED" /\ Alive(s) => cached[s] = NumPrompt(s)
    /\ status[s] = "REMOTE" /\ Received(Attempt[s]) => StoredFor(s, NumPrompt(s))
    /\ status[s] = "RUNNING" =>
          /\ CeilDiv(NumPrompt(s), BlockSize) <= Len(table[s])
          /\ Len(table[s]) <= SeqBlocks(s)
          /\ NumTokens(s) = IF IsPrefill(s) THEN NumPrompt(s) ELSE cached[s] + 1
    /\ Batching /\ s \in Elems(prefills) => IsPrefill(s)
    /\ Batching /\ s \in Elems(decodes) =>
          ~IsPrefill(s) /\ scheduled[s] = 1 /\ Len(table[s]) = SeqBlocks(s)
    /\ pc = "post" /\ s \in Elems(todo) =>
          /\ StoredFor(s, Computed(s))
          /\ IF IsPrefill(s) THEN Computed(s) <= NumPrompt(s) ELSE scheduled[s] = 1

KVInv == ~Closing => \A s \in Seqs : StoredInv(s)

\* A request a step does not touch.
LEMMA StoredSame ==
    ASSUME NEW q \in Seqs, StoredInv(q), kv' = kv, tokens'[q] = tokens[q],
           cached'[q] = cached[q], table'[q] = table[q], status'[q] = status[q],
           scheduled'[q] = scheduled[q], Alive(q)' <=> Alive(q),
           Received(Attempt[q])' => Received(Attempt[q]),
           Batching' /\ q \in Elems(prefills)' => Batching /\ q \in Elems(prefills),
           Batching' /\ q \in Elems(decodes)' => Batching /\ q \in Elems(decodes),
           pc' = "post" /\ q \in Elems(todo)' => pc = "post" /\ q \in Elems(todo)
    PROVE  StoredInv(q)'
<1>1. /\ NumTokens(q)' = NumTokens(q) /\ SeqBlocks(q)' = SeqBlocks(q)
      /\ IsPrefill(q)' <=> IsPrefill(q)
      /\ NumPrompt(q)' = NumPrompt(q) /\ Computed(q)' = Computed(q)
  BY DEF NumTokens, SeqBlocks, IsPrefill, NumPrompt, Computed
<1>2. \A n : Stored(kv', table'[q], tokens'[q], n) <=> StoredFor(q, n)
  BY DEF StoredFor
<1>3. /\ StoredFor(q, cached[q])' <=> StoredFor(q, cached[q])
      /\ StoredFor(q, NumPrompt(q))' <=> StoredFor(q, NumPrompt(q))
      /\ StoredFor(q, Computed(q))' <=> StoredFor(q, Computed(q))
  BY <1>1 DEF StoredFor
<1> QED BY <1>1, <1>3 DEF StoredInv

\* A step of a loop that leaves the requests, their blocks and the cache alone.
LEMMA AllStoredSame ==
    ASSUME KVInv, pc \notin {"closing", "closed"},
           UNCHANGED <<kv, tokens, cached, table, status, scheduled, requests>>,
           fresh' \subseteq fresh, events' = events,
           Batching' => /\ Elems(prefills)' \subseteq IF Batching THEN Elems(prefills) ELSE {}
                        /\ Elems(decodes)' \subseteq IF Batching THEN Elems(decodes) ELSE {},
           pc' = "post" => pc = "post" /\ Elems(todo)' \subseteq Elems(todo)
    PROVE  KVInv'
<1> SUFFICES ASSUME NEW q \in Seqs PROVE StoredInv(q)'
  BY DEF KVInv
<1>1. StoredInv(q)
  BY DEF KVInv, Closing
<1>2. Alive(q)' <=> Alive(q)
  BY DEF Alive
<1>3. Received(Attempt[q])' => Received(Attempt[q])
  BY DEF Received
<1>4. /\ Batching' /\ q \in Elems(prefills)' => Batching /\ q \in Elems(prefills)
      /\ Batching' /\ q \in Elems(decodes)' => Batching /\ q \in Elems(decodes)
      /\ pc' = "post" /\ q \in Elems(todo)' => pc = "post" /\ q \in Elems(todo)
  OBVIOUS
<1> QED BY <1>1, <1>2, <1>3, <1>4, StoredSame

\* The steps that begin and end the loops, and those that skip a request.
LEMMA LoopStored ==
    ASSUME PDInv, KVInv,
           \/ BeginStep \/ EndAdmit \/ EndBatch \/ EndPost
           \/ \E s \in Seqs : AdmitSkip(s) \/ BatchSkip(s)
    PROVE  KVInv'
<1>1. /\ UNCHANGED <<kv, tokens, cached, table, status, scheduled, requests, events, fresh>>
      /\ pc \in {"idle", "admit", "batch", "post"}
      /\ \/ pc' \in {"admit", "events"}
         \/ pc = "admit" /\ pc' = "batch" /\ prefills' = prefills /\ decodes' = decodes
         \/ /\ pc = "batch" /\ pc' \in {"batch", "execute"}
            /\ prefills' = prefills /\ decodes' = decodes
  BY DEF BeginStep, EndAdmit, EndBatch, EndPost, AdmitSkip, BatchSkip, NextAdmit,
         NextCandidate, bmVars, batchVars, queueVars, requestVars, workerVars
<1>2. pc = "admit" => Elems(prefills) = {} /\ Elems(decodes) = {}
  <2> SUFFICES ASSUME pc = "admit" PROVE Elems(prefills) = {} /\ Elems(decodes) = {}
    OBVIOUS
  <2>1. prefills = <<>> /\ decodes = <<>>
    BY OpenFacts DEF BatchInv
  <2> QED BY <2>1 DEF Elems
<1>3. pc \notin {"closing", "closed"} /\ fresh' \subseteq fresh /\ events' = events
  BY <1>1
<1>4. Batching' => /\ Elems(prefills)' \subseteq IF Batching THEN Elems(prefills) ELSE {}
                   /\ Elems(decodes)' \subseteq IF Batching THEN Elems(decodes) ELSE {}
  BY <1>1, <1>2 DEF Batching, Elems
<1>5. pc' = "post" => pc = "post" /\ Elems(todo)' \subseteq Elems(todo)
  BY <1>1
<1> QED BY <1>1, <1>3, <1>4, <1>5, AllStoredSame

\* Late events, forgotten attempts, and steps that change nothing.
LEMMA QuietStored ==
    ASSUME PDInv, KVInv, pc \notin {"closing", "closed"},
           \/ \E t \in Transfers : EventStale(t)
           \/ EndEvents
           \/ UNCHANGED vars
    PROVE  KVInv'
<1>1. CASE \E t \in Transfers : EventStale(t)
  <2>1. /\ UNCHANGED <<kv, tokens, cached, table, status, scheduled, requests, events>>
        /\ fresh' \subseteq fresh /\ pc = "events" /\ pc' = pc
    BY <1>1 DEF EventStale, NextEvent, eventUnchanged
  <2> QED BY <2>1, AllStoredSame DEF Batching
<1>2. CASE EndEvents
  <2>1. /\ UNCHANGED <<kv, tokens, cached, table, status, scheduled, requests>>
        /\ fresh' = {} /\ pc' = "idle"
    BY <1>2 DEF EndEvents, bmVars, queueVars, requestVars
  <2> SUFFICES ASSUME NEW q \in Seqs PROVE StoredInv(q)'
    BY DEF KVInv
  <2>2. StoredInv(q)
    BY DEF KVInv, Closing
  <2>3. /\ Alive(q)' <=> Alive(q)
        /\ ~Received(Attempt[q])' /\ ~Batching' /\ pc' # "post"
    BY <2>1 DEF Alive, Received, Batching
  <2> QED BY <2>1, <2>2, <2>3, StoredSame
<1>3. CASE UNCHANGED vars
  <2>1. /\ UNCHANGED <<kv, tokens, cached, table, status, scheduled, requests, events>>
        /\ fresh' = fresh /\ pc' = pc /\ prefills' = prefills /\ decodes' = decodes
        /\ todo' = todo
    BY <1>3 DEF vars, bmVars, queueVars, requestVars, workerVars, batchVars
  <2> QED BY <2>1, AllStoredSame DEF Batching, Elems
<1> QED BY <1>1, <1>2, <1>3

\* A request goes: nothing is stored for it.
LEMMA ReleasedStored ==
    ASSUME PDInv, KVInv, pc \notin {"closing", "closed"}, pc' = pc, NEW s \in Seqs, Alive(s),
           Release(s), cached' = [cached EXCEPT ![s] = 0],
           tokens' \in [Seqs -> Seq(Token)], \A q \in Seqs \ {s} : tokens'[q] = tokens[q],
           hash' = hash, index' = index, kv' = kv, events' = events, fresh' \subseteq fresh,
           \A q \in Seqs \ {s} : scheduled'[q] = scheduled[q],
           pc \notin {"batch", "execute"},
           pc = "post" => s \notin Elems(todo)' /\ Elems(todo)' \subseteq Elems(todo)
    PROVE  KVInv'
<1>1. /\ TypeOK /\ OwnInv /\ EntriesInv /\ BlockTypeOK /\ status \in [Seqs -> Statuses]
  BY OpenFacts, TypeFacts
<1>2. cached' \in [Seqs -> Nat] /\ cached'[s] = 0 /\ \A q \in Seqs \ {s} : cached'[q] = cached[q]
  BY <1>1 DEF BlockTypeOK
<1>3. /\ ~Alive(s)' /\ \A q \in Seqs \ {s} : (Alive(q)' <=> Alive(q)) /\ table'[q] = table[q]
      /\ status' = [status EXCEPT ![s] = "FINISHED"]
  BY <1>1, <1>2, ReleaseFacts
<1>4. status'[s] = "FINISHED" /\ \A q \in Seqs \ {s} : status'[q] = status[q]
  BY <1>1, <1>3
<1>5. ~Batching'
  BY DEF Batching
<1>6. StoredInv(s)'
  <2>1. StoredFor(s, cached[s])'
    BY <1>2, NothingStored DEF StoredFor
  <2> QED BY <1>3, <1>4, <1>5, <2>1 DEF StoredInv
<1>7. ASSUME NEW q \in Seqs \ {s} PROVE StoredInv(q)'
  <2>1. StoredInv(q)
    BY DEF KVInv, Closing
  <2>2. Received(Attempt[q])' => Received(Attempt[q])
    BY DEF Received
  <2>3. /\ kv' = kv /\ tokens'[q] = tokens[q] /\ cached'[q] = cached[q]
        /\ table'[q] = table[q] /\ status'[q] = status[q] /\ scheduled'[q] = scheduled[q]
        /\ Alive(q)' <=> Alive(q)
        /\ pc' = "post" /\ q \in Elems(todo)' => pc = "post" /\ q \in Elems(todo)
    BY <1>2, <1>3, <1>4
  <2> QED BY <1>5, <2>1, <2>2, <2>3, StoredSame
<1> QED BY <1>6, <1>7 DEF KVInv

\* A step of one request.
LEMMA OneStored ==
    ASSUME KVInv, pc \notin {"closing", "closed"}, NEW s \in Seqs, kv' = kv,
           \A q \in Seqs \ {s} :
              /\ tokens'[q] = tokens[q] /\ cached'[q] = cached[q] /\ table'[q] = table[q]
              /\ status'[q] = status[q] /\ scheduled'[q] = scheduled[q]
              /\ Alive(q)' <=> Alive(q),
           events' = events, fresh' \subseteq fresh, pc' = pc,
           Batching => /\ Elems(prefills)' \subseteq Elems(prefills) \cup {s}
                       /\ Elems(decodes)' \subseteq Elems(decodes) \cup {s},
           pc = "post" => Elems(todo)' \subseteq Elems(todo),
           StoredInv(s)'
    PROVE  KVInv'
<1> SUFFICES ASSUME NEW q \in Seqs \ {s} PROVE StoredInv(q)'
  BY DEF KVInv
<1>1. StoredInv(q)
  BY DEF KVInv, Closing
<1>2. Received(Attempt[q])' => Received(Attempt[q])
  BY DEF Received
<1>3. /\ Batching' /\ q \in Elems(prefills)' => Batching /\ q \in Elems(prefills)
      /\ Batching' /\ q \in Elems(decodes)' => Batching /\ q \in Elems(decodes)
      /\ pc' = "post" /\ q \in Elems(todo)' => pc = "post" /\ q \in Elems(todo)
  BY DEF Batching
<1> QED BY <1>1, <1>2, <1>3, StoredSame

\* A new request has computed nothing.
LEMMA AddStored == ASSUME PDInv, KVInv, NEW s \in Seqs, Add(s) PROVE KVInv'
<1>1. /\ pc = "idle" /\ pc' = pc /\ status[s] = "NEW" /\ requests[RequestId[s]] = NoSeq
      /\ requests' = [requests EXCEPT ![RequestId[s]] = s]
      /\ status' = [status EXCEPT ![s] = "WAITING"]
      /\ kv' = kv /\ tokens' = tokens /\ cached' = cached /\ table' = table
      /\ scheduled' = scheduled /\ events' = events /\ fresh' = fresh
  BY DEF Add, Acceptable, bmVars, workerVars
<1>2. /\ TypeOK /\ status \in [Seqs -> Statuses]
      /\ requests \in [Requests -> Seqs \cup {NoSeq}] /\ ~Batching
  BY <1>1, OpenFacts, TypeFacts DEF Batching
<1>3. status'[s] = "WAITING" /\ \A q \in Seqs \ {s} : status'[q] = status[q]
  BY <1>1, <1>2
<1>4. ASSUME NEW q \in Seqs \ {s} PROVE Alive(q)' <=> Alive(q)
  <2>1. RequestId[s] \in Requests /\ RequestId[q] \in Requests /\ q # NoSeq
    BY IdAssumption
  <2> QED BY <1>1, <1>2, <2>1 DEF Alive
<1>5. StoredInv(s)'
  <2>1. cached[s] = 0
    BY <1>1 DEF KVInv, Closing, StoredInv
  <2>2. StoredFor(s, cached[s])'
    BY <1>1, <2>1, NothingStored DEF StoredFor
  <2> QED BY <1>1, <1>2, <1>3, <2>1, <2>2 DEF StoredInv, Batching
<1> QED BY <1>1, <1>2, <1>3, <1>4, <1>5, OneStored

\* A cancel keeps the blocks of a transfer, or releases the request.
LEMMA CancelStored == ASSUME PDInv, KVInv, NEW r \in Requests, CancelRequest(r) PROVE KVInv'
<1>1. /\ pc = "idle" /\ requests[r] # NoSeq /\ pc' = pc
      /\ kv' = kv /\ tokens' = tokens /\ hash' = hash /\ index' = index
      /\ scheduled' = scheduled /\ events' = events /\ fresh' = fresh
      /\ \/ CancelPending(requests[r])
         \/ /\ Release(requests[r]) /\ cached' = [cached EXCEPT ![requests[r]] = 0]
  BY DEF CancelRequest, workerVars
<1>2. PICK s \in Seqs : s = requests[r] /\ Alive(s)
  BY <1>1, PendingFacts
<1>3. CASE CancelPending(s)
  <2>1. UNCHANGED <<kv, tokens, cached, table, status, scheduled, requests>>
    BY <1>1, <1>3 DEF CancelPending
  <2> QED BY <1>1, <2>1, AllStoredSame DEF Batching
<1>4. CASE Release(s) /\ cached' = [cached EXCEPT ![s] = 0]
  <2>1. tokens' \in [Seqs -> Seq(Token)]
    BY <1>1, OpenFacts, TypeFacts DEF BlockTypeOK
  <2> QED BY <1>1, <1>2, <1>4, <2>1, ReleasedStored
<1> QED BY <1>1, <1>2, <1>3, <1>4

\* An admitted request has nothing stored yet, and blocks for its prompt.
LEMMA AdmitStored ==
    ASSUME PDInv, KVInv, NEW s \in Seqs, AdmitPrompt(s) \/ AdmitRemote(s)
    PROVE  KVInv'
<1>1. /\ Admit(s) /\ \E to \in {"RUNNING", "REMOTE"} : status' = [status EXCEPT ![s] = to]
  BY DEF AdmitPrompt, AdmitRemote
<1>2. PICK to \in {"RUNNING", "REMOTE"} : status' = [status EXCEPT ![s] = to]
  BY <1>1
<1>3. /\ NextAdmit(s) /\ Admissible(s) /\ AllocateExclusive(s, TotalBlocks(s))
      /\ pc' = pc /\ tokens' = tokens /\ cached' = cached /\ kv' = kv
      /\ scheduled' = scheduled /\ events' = events /\ fresh' = fresh
  BY <1>1 DEF Admit, workerVars
<1>4. /\ pc = "admit" /\ status[s] = "WAITING" /\ tokens[s] = Prompt[s] /\ IsPrefill(s)
  BY <1>3, NextAdmitFacts
<1>5. /\ TypeOK /\ EventInv /\ status \in [Seqs -> Statuses] /\ PoolInv /\ BlockTypeOK
  BY <1>4, OpenFacts, TypeFacts DEF OwnInv
<1>6. /\ \A q \in Seqs : Alive(q)' <=> Alive(q)
      /\ \A q \in Seqs \ {s} : table'[q] = table[q]
  BY <1>1, <1>2, AdmitFacts
<1>7. status'[s] = to /\ \A q \in Seqs \ {s} : status'[q] = status[q]
  BY <1>2, <1>5
<1>8. SeqBlocks(s) = CeilDiv(NumPrompt(s), BlockSize) /\ NumTokens(s) = NumPrompt(s)
  BY <1>4 DEF SeqBlocks, NumTokens, NumPrompt
<1>9. Len(table'[s]) = SeqBlocks(s) /\ SeqBlocks(s) \in Nat
  <2>1. /\ NumPrompt(s) \in Nat \ {0} /\ Footprint(s) \in Nat
        /\ NumPrompt(s) <= Footprint(s) /\ BlockSize \in Nat \ {0}
    BY <1>5, SeqFacts
  <2>2. /\ CeilDiv(NumPrompt(s), BlockSize) \in Nat \ {0}
        /\ CeilDiv(Footprint(s), BlockSize) \in Nat \ {0}
        /\ CeilDiv(NumPrompt(s), BlockSize) <= CeilDiv(Footprint(s), BlockSize)
    BY <2>1, CeilDivFacts
  <2>3. TotalBlocks(s) \in Nat /\ SeqBlocks(s) \in 0 .. TotalBlocks(s)
    BY <1>8, <2>2 DEF TotalBlocks
  <2>4. CanAllocateExclusive(TotalBlocks(s))
    BY <1>3 DEF Admissible
  <2>5. tokens' \in [Seqs -> Seq(Token)] /\ cached' \in [Seqs -> Nat]
    BY <1>3, <1>5 DEF BlockTypeOK
  <2>6. Len(table'[s]) = SeqBlocks(s)
    BY <1>3, <1>5, <2>3, <2>4, <2>5, AllocateExclusivePool
  <2> QED BY <2>3, <2>6
<1>10. StoredInv(s)'
  <2>1. cached[s] = 0
    BY <1>4 DEF KVInv, Closing, StoredInv
  <2>2. StoredFor(s, cached[s])'
    BY <1>3, <2>1, NothingStored DEF StoredFor
  <2>3. ~Received(Attempt[s])' /\ ~Batching' /\ pc' # "post"
    BY <1>3, <1>4, <1>5 DEF EventInv, Received, Batching
  <2>4. /\ SeqBlocks(s)' = SeqBlocks(s) /\ (IsPrefill(s)' <=> IsPrefill(s))
        /\ NumTokens(s)' = NumTokens(s) /\ NumPrompt(s)' = NumPrompt(s)
    BY <1>3 DEF SeqBlocks, NumTokens, IsPrefill, NumPrompt
  <2>5. to # "FINISHED" /\ (to \in {"NEW", "WAITING", "REMOTE"} => cached'[s] = 0)
    BY <1>3, <2>1
  <2> QED BY <1>4, <1>7, <1>8, <1>9, <2>2, <2>3, <2>4, <2>5 DEF StoredInv
<1>11. ~Batching
  BY <1>4 DEF Batching
<1> QED BY <1>3, <1>4, <1>6, <1>7, <1>10, <1>11, OneStored

\* A received prompt starts with all but its last token computed; anything else ends it.
LEMMA EventStored ==
    ASSUME PDInv, KVInv, NEW t \in Transfers, EventReceived(t) \/ EventEnds(t)
    PROVE  KVInv'
<1>1. /\ NextEvent(t) /\ SeqOf(t) # NoSeq
      /\ pc' = pc /\ tokens' = tokens /\ kv' = kv /\ hash' = hash /\ index' = index
      /\ scheduled' = scheduled /\ events' = events /\ fresh' \subseteq fresh
  BY DEF EventReceived, EventEnds, eventUnchanged
<1>2. PICK s \in Seqs :
         /\ Attempt[s] = t /\ SizeInv(s) /\ SeqOf(t) = s /\ Transferring(s) /\ Alive(s)
         /\ pc = "events" /\ t \in fresh
  BY <1>1, EventFacts
<1>3. /\ TypeOK /\ LifeInv /\ status \in [Seqs -> Statuses] /\ BlockTypeOK /\ ~Batching
  BY <1>2, OpenFacts, TypeFacts DEF Batching
<1>4. CASE EventReceived(t)
  <2>1. /\ Decodes /\ events[t] = "ok"
        /\ cached' = [cached EXCEPT ![s] = NumPrompt(s) - 1]
        /\ status' = [status EXCEPT ![s] = "RUNNING"]
        /\ requests' = requests /\ table' = table
    BY <1>2, <1>4 DEF EventReceived, MayStart
  <2>2. /\ cached'[s] = NumPrompt(s) - 1 /\ status'[s] = "RUNNING"
        /\ \A q \in Seqs \ {s} : cached'[q] = cached[q] /\ status'[q] = status[q]
    BY <1>3, <2>1 DEF BlockTypeOK
  <2>3. \A q \in Seqs : Alive(q)' <=> Alive(q)
    BY <2>1 DEF Alive
  <2>4. status[s] = "REMOTE"
    BY <1>2, <1>3, <2>1 DEF Transferring, LifeInv
  <2>5. StoredFor(s, NumPrompt(s))
    BY <1>2, <2>1, <2>4 DEF KVInv, Closing, StoredInv, Received
  <2>6. /\ tokens[s] = Prompt[s] /\ Len(table[s]) = CeilDiv(NumPrompt(s), BlockSize)
        /\ NumPrompt(s) \in Nat \ {0} /\ table[s] \in Seq(Blocks)
        /\ tokens[s] \in Seq(Token)
    BY <1>2, <1>3, <2>4, SeqFacts DEF SizeInv, Holding, Transferring, BlockTypeOK
  <2>7. StoredFor(s, NumPrompt(s) - 1)
    BY <2>5, <2>6, StoredKept DEF StoredFor
  <2>8. StoredFor(s, cached[s])'
    BY <1>1, <2>1, <2>2, <2>7 DEF StoredFor
  <2>9. /\ SeqBlocks(s)' = CeilDiv(NumPrompt(s), BlockSize)
        /\ NumTokens(s)' = NumPrompt(s) /\ NumPrompt(s)' = NumPrompt(s)
        /\ IsPrefill(s)'
    BY <1>1, <2>2, <2>6 DEF SeqBlocks, NumTokens, IsPrefill, NumPrompt
  <2>10. ~Batching' /\ pc' # "post"
    BY <1>1, <1>2 DEF Batching
  <2>11. Len(table'[s]) \in Nat /\ Len(table'[s]) = CeilDiv(NumPrompt(s), BlockSize)
    BY <2>1, <2>6
  <2>12. StoredInv(s)'
    BY <2>2, <2>8, <2>9, <2>10, <2>11 DEF StoredInv
  <2> QED BY <1>1, <1>2, <1>3, <2>1, <2>2, <2>3, <2>12, OneStored
<1>5. CASE EventEnds(t)
  <2>1. Release(s) /\ cached' = [cached EXCEPT ![s] = 0]
    BY <1>2, <1>5 DEF EventEnds
  <2>2. tokens' \in [Seqs -> Seq(Token)]
    BY <1>1, <1>3 DEF BlockTypeOK
  <2> QED BY <1>1, <1>2, <2>1, <2>2, ReleasedStored
<1> QED BY <1>4, <1>5

\* One more token takes at most one more block.
LEMMA OneMoreBlock ==
    ASSUME NEW n \in Nat \ {0}
    PROVE  /\ CeilDiv(n + 1, BlockSize) <= CeilDiv(n, BlockSize) + 1
           /\ CeilDiv(n, BlockSize) <= CeilDiv(n + 1, BlockSize)
           /\ CeilDiv(n, BlockSize) \in Nat /\ CeilDiv(n + 1, BlockSize) \in Nat
<1> DEFINE b == BlockSize
<1>1. b \in Nat \ {0}
  BY PoolAssumption
<1> HIDE DEF b
<1>2. /\ CeilDiv(n, b) \in Nat /\ CeilDiv(n + 1, b) \in Nat
      /\ CeilDiv(n, b) <= CeilDiv(n + 1, b)
  <2>1. n + 1 \in Nat /\ n <= n + 1
    OBVIOUS
  <2> QED BY <1>1, <2>1, CeilDivFacts
<1>3. CeilDiv(n + 1, b) <= CeilDiv(n + b, b)
  <2>1. n + 1 \in Nat \ {0} /\ n + b \in Nat /\ n + 1 <= n + b
    BY <1>1
  <2> QED BY <1>1, <2>1, CeilDivFacts
<1>4. CeilDiv(n + b, b) = CeilDiv(n, b) + 1
  <2> DEFINE q == n + b - 1
  <2>1. q \in Nat /\ n + b + b - 1 = q + b
    BY <1>1
  <2> HIDE DEF q
  <2>2. (q + b) \div b = (q \div b) + 1
    BY <1>1, <2>1
  <2> QED BY <2>1, <2>2 DEF CeilDiv, q
<1> QED BY <1>2, <1>3, <1>4 DEF b

\* A decode gets the block its next token goes to.
LEMMA DecodeBlock ==
    ASSUME TypeOK, NEW s \in Seqs, SizeInv(s), StoredInv(s), status[s] = "RUNNING",
           ~IsPrefill(s), MayAppend(s)
    PROVE  /\ table'[s] \in Seq(Blocks) /\ Len(table'[s]) = SeqBlocks(s)
           /\ Len(table[s]) <= Len(table'[s])
           /\ \A i \in 1 .. Len(table[s]) : table'[s][i] = table[s][i]
<1>1. /\ table \in [Seqs -> Seq(Blocks)] /\ table[s] \in Seq(Blocks)
      /\ reserved[s] \in Seq(Blocks) /\ Len(table[s]) \in Nat
      /\ NumPrompt(s) \in Nat \ {0} /\ cached[s] \in Nat /\ BlockSize \in Nat \ {0}
  BY TypeFacts, SeqFacts DEF BlockTypeOK
<1>2. /\ Len(table[s]) <= SeqBlocks(s) /\ NumTokens(s) = cached[s] + 1
      /\ StoredFor(s, cached[s])
  BY DEF StoredInv
<1>3. cached[s] \in Nat \ {0}
  BY <1>1 DEF IsPrefill
<1>4. /\ CeilDiv(cached[s], BlockSize) <= Len(table[s])
  <2>1. cached[s] \in 1 .. cached[s]
    BY <1>3
  <2>2. SlotIndex(cached[s]) <= Len(table[s])
    BY <1>2, <2>1 DEF StoredFor, Stored
  <2> QED BY <1>3, <2>2, SlotFacts
<1>5. SeqBlocks(s) <= Len(table[s]) + 1 /\ SeqBlocks(s) \in Nat
  <2> DEFINE n == cached[s]
             k == Len(table[s])
  <2>1. n \in Nat \ {0} /\ SeqBlocks(s) = CeilDiv(n + 1, BlockSize)
        /\ CeilDiv(n, BlockSize) <= k /\ k \in Nat
    BY <1>1, <1>2, <1>3, <1>4 DEF SeqBlocks
  <2> HIDE DEF n, k
  <2>2. SeqBlocks(s) <= k + 1 /\ SeqBlocks(s) \in Nat
    BY <2>1, OneMoreBlock
  <2> QED BY <2>2 DEF k
<1>6. CASE Len(table[s]) >= SeqBlocks(s)
  <2>1. table' = table
    BY <1>1, <1>5, <1>6 DEF MayAppend
  <2> QED BY <1>1, <1>2, <1>5, <1>6, <2>1
<1>7. CASE Len(table[s]) < SeqBlocks(s)
  <2>1. reserved[s] # <<>>
    BY <1>1, <1>5, <1>7, DecodeHasBlocks
  <2> DEFINE x == reserved[s][Len(reserved[s])]
             t == table[s]
  <2>2. table' = [table EXCEPT ![s] = Append(t, x)]
    BY <1>1, <1>5, <1>7, <2>1 DEF MayAppend
  <2>3. x \in Blocks /\ t \in Seq(Blocks)
    BY <1>1, <2>1
  <2>4. table'[s] = Append(t, x)
    BY <1>1, <2>2
  <2> HIDE DEF x
  <2>5. Len(t) + 1 = SeqBlocks(s)
    BY <1>1, <1>5, <1>7
  <2> HIDE DEF t
  <2>6. /\ Append(t, x) \in Seq(Blocks) /\ Len(Append(t, x)) = Len(t) + 1
        /\ \A i \in 1 .. Len(t) : Append(t, x)[i] = t[i]
    BY <2>3
  <2> QED BY <1>1, <2>4, <2>5, <2>6 DEF t
<1> QED BY <1>1, <1>5, <1>6, <1>7

\* A prompt joins with its table as it is, a decode with its last block.
LEMMA BatchJoinStored == ASSUME PDInv, KVInv, NEW s \in Seqs, BatchJoin(s) PROVE KVInv'
<1>1. /\ pc = "batch" /\ budget > 0 /\ todo # <<>> /\ s = Head(todo)
      /\ scheduled' = [scheduled EXCEPT ![s] = Chunk(s)]
      /\ pc' = pc /\ status' = status /\ tokens' = tokens /\ cached' = cached
      /\ kv' = kv /\ requests' = requests /\ events' = events /\ fresh' = fresh
  BY DEF BatchJoin, NextCandidate, requestVars, workerVars
<1>2. \/ /\ IsPrefill(s) /\ prefills' = Append(prefills, s) /\ decodes' = decodes
         /\ table' = table /\ UNCHANGED <<table, reserved, blockVars>>
      \/ /\ ~IsPrefill(s) /\ decodes' = Append(decodes, s) /\ prefills' = prefills
         /\ MayAppend(s)
  BY DEF BatchJoin
<1>3. /\ TypeOK /\ OwnInv /\ BatchInv /\ QueueInv /\ prefills \in Seq(Seqs)
      /\ decodes \in Seq(Seqs) /\ BlockTypeOK /\ KVTypeOK
  BY <1>1, OpenFacts, TypeFacts
<1>4. /\ SizeInv(s) /\ status[s] = "RUNNING" /\ s \notin Elems(prefills) \cup Elems(decodes)
  BY <1>1, CandidateFacts
<1>5. StoredInv(s)
  BY <1>1 DEF KVInv, Closing
<1>6. /\ \A q \in Seqs : Alive(q)' <=> Alive(q)
      /\ scheduled'[s] = Chunk(s) /\ \A q \in Seqs \ {s} : scheduled'[q] = scheduled[q]
  BY <1>1, <1>3 DEF Alive, KVTypeOK
<1>7. \A q \in Seqs \ {s} : table'[q] = table[q]
  BY <1>1, <1>2, <1>3, <1>4, JoinBlocks
<1>8. /\ Elems(prefills') \subseteq Elems(prefills) \cup {s}
      /\ Elems(decodes') \subseteq Elems(decodes) \cup {s}
  <2>1. \A q \in Seq(Seqs) : Elems(Append(q, s)) = Elems(q) \cup {s}
    BY OneMoreFacts
  <2>2. prefills' \in {prefills, Append(prefills, s)} /\ decodes' \in {decodes, Append(decodes, s)}
    BY <1>2
  <2> QED BY <1>3, <2>1, <2>2
<1>9. /\ IsPrefill(s)' <=> IsPrefill(s)
      /\ NumTokens(s)' = NumTokens(s) /\ SeqBlocks(s)' = SeqBlocks(s)
      /\ NumPrompt(s)' = NumPrompt(s)
  BY <1>1 DEF IsPrefill, NumTokens, SeqBlocks, NumPrompt
<1>10. pc' # "post" /\ Batching /\ Batching'
  BY <1>1 DEF Batching
<1>11. CASE IsPrefill(s)
  <2>1. table' = table /\ decodes' = decodes
    BY <1>2, <1>11
  <2>2. s \notin Elems(decodes')
    BY <1>4, <2>1
  <2>3. StoredFor(s, cached[s])' <=> StoredFor(s, cached[s])
    BY <1>1, <2>1 DEF StoredFor
  <2>4. StoredInv(s)'
    BY <1>1, <1>4, <1>5, <1>9, <1>10, <1>11, <2>1, <2>2, <2>3 DEF StoredInv
  <2> QED BY <1>1, <1>6, <1>7, <1>8, <1>10, <2>4, OneStored
<1>12. CASE ~IsPrefill(s)
  <2>1. MayAppend(s) /\ prefills' = prefills
    BY <1>2, <1>12
  <2>2. /\ table'[s] \in Seq(Blocks) /\ Len(table'[s]) = SeqBlocks(s)
        /\ Len(table[s]) <= Len(table'[s])
        /\ \A i \in 1 .. Len(table[s]) : table'[s][i] = table[s][i]
    BY <1>3, <1>4, <1>5, <1>12, <2>1, DecodeBlock
  <2>3. scheduled'[s] = 1
    <3>1. Need(s) = 1 /\ budget \in Nat
      BY <1>3, <1>12, TypeFacts DEF Need
    <3>2. Chunk(s) = 1
      BY <1>1, <3>1 DEF Chunk
    <3> QED BY <1>6, <3>2
  <2>4. StoredFor(s, cached[s])'
    <3>1. /\ table[s] \in Seq(Blocks) /\ tokens[s] \in Seq(Token) /\ cached[s] \in Nat
      BY <1>3, SeqFacts DEF BlockTypeOK
    <3>2. Stored(kv, table[s], tokens[s], cached[s])
      BY <1>5 DEF StoredInv, StoredFor
    <3>3. Stored(kv, table'[s], tokens[s], cached[s])
      BY <2>2, <3>1, <3>2, StoredKept
    <3> QED BY <1>1, <3>3 DEF StoredFor
  <2>5. /\ CeilDiv(NumPrompt(s), BlockSize) <= Len(table'[s])
        /\ Len(table'[s]) <= SeqBlocks(s)
        /\ NumTokens(s) = cached[s] + 1
    <3>1. /\ CeilDiv(NumPrompt(s), BlockSize) <= Len(table[s])
          /\ NumTokens(s) = cached[s] + 1
      BY <1>4, <1>5, <1>12 DEF StoredInv
    <3>2. /\ Len(table[s]) \in Nat /\ Len(table'[s]) \in Nat
          /\ CeilDiv(NumPrompt(s), BlockSize) \in Nat
      <4>1. NumPrompt(s) \in Nat \ {0} /\ BlockSize \in Nat \ {0} /\ table[s] \in Seq(Blocks)
        BY <1>3, SeqFacts DEF BlockTypeOK
      <4>2. CeilDiv(NumPrompt(s), BlockSize) \in Nat
        BY <4>1, CeilDivFacts
      <4> QED BY <2>2, <4>1, <4>2
    <3> QED BY <2>2, <3>1, <3>2
  <2>6. s \notin Elems(prefills')
    BY <1>4, <2>1
  <2>7. StoredInv(s)'
    BY <1>1, <1>4, <1>9, <1>10, <1>12, <2>2, <2>3, <2>4, <2>5, <2>6 DEF StoredInv
  <2> QED BY <1>1, <1>6, <1>7, <1>8, <1>10, <2>7, OneStored
<1> QED BY <1>11, <1>12

\* What postprocess finds of a sequence: everything up to Computed(s) is stored, which is
\* the whole sequence unless its prompt is not finished.
LEMMA PostStored ==
    ASSUME PDInv, KVInv, NEW s \in Seqs, NextPost(s)
    PROVE  /\ StoredFor(s, Computed(s)) /\ Computed(s) \in Nat
           /\ StillPrefill(s) => IsPrefill(s)
           /\ ~StillPrefill(s) => Computed(s) = NumTokens(s)
           /\ ~StillPrefill(s) /\ IsPrefill(s) => Computed(s) = NumPrompt(s)
           /\ s \notin Elems(Tail(todo)) /\ Elems(Tail(todo)) \subseteq Elems(todo)
           /\ status[s] = "RUNNING" /\ Alive(s) /\ SizeInv(s) /\ StoredInv(s)
<1>1. pc = "post" /\ todo # <<>> /\ s = Head(todo)
  BY DEF NextPost
<1>2. /\ TypeOK /\ StoredInv(s)
      /\ NumPrompt(s) \in Nat \ {0} /\ NumTokens(s) \in Nat /\ cached[s] \in Nat
      /\ scheduled[s] \in Nat
  BY <1>1, OpenFacts, SeqFacts DEF KVInv, Closing
<1>3. /\ status[s] = "RUNNING" /\ Alive(s) /\ SizeInv(s)
      /\ Elems(todo) = {s} \cup Elems(Tail(todo)) /\ s \notin Elems(Tail(todo))
  BY <1>1, CandidateFacts
<1>4. /\ StoredFor(s, Computed(s))
      /\ IsPrefill(s) => Computed(s) <= NumPrompt(s)
      /\ ~IsPrefill(s) => scheduled[s] = 1
      /\ IsPrefill(s) => NumTokens(s) = NumPrompt(s)
      /\ ~IsPrefill(s) => NumTokens(s) = cached[s] + 1
  BY <1>1, <1>2, <1>3 DEF StoredInv
<1>5. Computed(s) = cached[s] + scheduled[s] /\ Computed(s) \in Nat
  BY <1>2 DEF Computed
<1>6. /\ StillPrefill(s) <=> Computed(s) < NumPrompt(s)
      /\ IsPrefill(s) <=> cached[s] < NumPrompt(s)
  BY DEF StillPrefill, IsPrefill
<1>7. StillPrefill(s) => IsPrefill(s)
  BY <1>2, <1>5, <1>6
<1>8. ~StillPrefill(s) /\ IsPrefill(s) => Computed(s) = NumPrompt(s)
  BY <1>2, <1>4, <1>5, <1>6
<1>9. ~StillPrefill(s) => Computed(s) = NumTokens(s)
  BY <1>2, <1>4, <1>5, <1>8
<1>10. Elems(Tail(todo)) \subseteq Elems(todo)
  BY <1>3
<1> QED BY <1>2, <1>3, <1>4, <1>5, <1>7, <1>8, <1>9, <1>10

\* postprocess counts what was stored.
LEMMA PostCounted ==
    ASSUME PDInv, KVInv, NEW s \in Seqs, NextPost(s), Counted(s),
           cached' = [cached EXCEPT ![s] = Computed(s)], table' = table, requests' = requests,
           NEW to \in {"RUNNING", "FINISHED"}, status' = [status EXCEPT ![s] = to],
           tokens' \in [Seqs -> Seq(Token)], \A q \in Seqs \ {s} : tokens'[q] = tokens[q],
           \A p \in 1 .. Computed(s) : SubSeq(tokens'[s], 1, p) = SubSeq(tokens[s], 1, p),
           to = "FINISHED" => Computed(s) = NumPrompt(s),
           to = "RUNNING" =>
              /\ NumTokens(s)' = IF Computed(s) < NumPrompt(s) THEN NumPrompt(s)
                                 ELSE Computed(s) + 1
              /\ Len(table[s]) <= SeqBlocks(s)'
    PROVE  KVInv'
<1>1. /\ pc = "post" /\ pc' = pc /\ todo' = Tail(todo)
      /\ scheduled' = [scheduled EXCEPT ![s] = 0]
      /\ kv' = kv /\ events' = events /\ fresh' = fresh
  BY DEF NextPost, Counted, workerVars
<1>2. /\ StoredFor(s, Computed(s)) /\ Computed(s) \in Nat /\ SizeInv(s) /\ StoredInv(s)
      /\ s \notin Elems(Tail(todo)) /\ Elems(Tail(todo)) \subseteq Elems(todo)
      /\ status[s] = "RUNNING"
  BY PostStored
<1>3. /\ TypeOK /\ BlockTypeOK /\ KVTypeOK /\ status \in [Seqs -> Statuses]
  BY <1>1, OpenFacts, TypeFacts
<1>4. /\ cached'[s] = Computed(s) /\ status'[s] = to
      /\ \A q \in Seqs \ {s} : /\ cached'[q] = cached[q] /\ status'[q] = status[q]
                               /\ scheduled'[q] = scheduled[q]
  BY <1>1, <1>3 DEF BlockTypeOK, KVTypeOK
<1>5. \A q \in Seqs : Alive(q)' <=> Alive(q)
  BY DEF Alive
<1>6. StoredFor(s, cached[s])'
  <2>1. table[s] \in Seq(Blocks) /\ tokens[s] \in Seq(Token) /\ Computed(s) <= Computed(s)
    BY <1>2, <1>3 DEF BlockTypeOK
  <2>2. Stored(kv, table[s], tokens[s], Computed(s))
    BY <1>2 DEF StoredFor
  <2> DEFINE t == table[s]
             u == tokens[s]
             v == tokens'[s]
             n == Computed(s)
  <2>4. /\ t \in Seq(Blocks) /\ u \in Seq(Token) /\ n \in Nat
        /\ Stored(kv, t, u, n) /\ \A p \in 1 .. n : SubSeq(v, 1, p) = SubSeq(u, 1, p)
    BY <1>2, <2>1, <2>2
  <2> HIDE DEF t, u, v, n
  <2>5. Len(t) <= Len(t) /\ n <= n
    BY <2>4
  <2>6. Stored(kv, t, v, n)
    BY <2>4, <2>5, StoredKept
  <2>3. Stored(kv, table[s], tokens'[s], Computed(s))
    BY <2>6 DEF t, v, n
  <2> QED BY <1>1, <1>4, <2>3 DEF StoredFor
<1>7. CeilDiv(NumPrompt(s), BlockSize) <= Len(table[s])
  BY <1>2 DEF StoredInv
<1>8. /\ NumPrompt(s)' = NumPrompt(s)
      /\ IsPrefill(s)' <=> Computed(s) < NumPrompt(s)
  BY <1>4 DEF NumPrompt, IsPrefill
<1>9. ~Batching /\ ~Batching' /\ s \notin Elems(todo')
  BY <1>1, <1>2 DEF Batching
<1>10. StoredInv(s)'
  <2>1. CASE to = "FINISHED"
    BY <1>4, <1>6, <1>8, <1>9, <2>1 DEF StoredInv
  <2>2. CASE to = "RUNNING"
    BY <1>4, <1>6, <1>7, <1>8, <1>9, <2>2 DEF StoredInv
  <2> QED BY <2>1, <2>2
<1> QED BY <1>1, <1>2, <1>4, <1>5, <1>9, <1>10, OneStored

\* A chunk counts as computed what the step stored ...
LEMMA PostChunkStored == ASSUME PDInv, KVInv, NEW s \in Seqs, PostChunk(s) PROVE KVInv'
<1>1. /\ NextPost(s) /\ StillPrefill(s) /\ Counted(s)
      /\ cached' = [cached EXCEPT ![s] = Computed(s)]
      /\ table' = table /\ requests' = requests /\ tokens' = tokens /\ status' = status
  BY DEF PostChunk
<1>2. IsPrefill(s) /\ status[s] = "RUNNING" /\ StoredInv(s)
  BY <1>1, PostStored
<1>3. TypeOK /\ BlockTypeOK /\ status \in [Seqs -> Statuses]
  BY <1>1, OpenFacts, TypeFacts DEF NextPost
<1>4. /\ status' = [status EXCEPT ![s] = "RUNNING"]
      /\ tokens' \in [Seqs -> Seq(Token)]
  BY <1>1, <1>2, <1>3 DEF BlockTypeOK
<1>5. /\ NumTokens(s)' = NumPrompt(s) /\ Computed(s) < NumPrompt(s)
      /\ Len(table[s]) <= SeqBlocks(s)'
  BY <1>1, <1>2 DEF StoredInv, NumTokens, SeqBlocks, StillPrefill
<1> QED BY <1>1, <1>4, <1>5, PostCounted

\* ... so does the last one on P, where the request ends with its blocks ...
LEMMA PostHandoffStored == ASSUME PDInv, KVInv, NEW s \in Seqs, PostHandoff(s) PROVE KVInv'
<1>1. /\ NextPost(s) /\ ~StillPrefill(s) /\ ~Decodes /\ Counted(s)
      /\ cached' = [cached EXCEPT ![s] = Computed(s)]
      /\ status' = [status EXCEPT ![s] = "FINISHED"]
      /\ table' = table /\ requests' = requests /\ tokens' = tokens
  BY DEF PostHandoff
<1>2. status[s] = "RUNNING" /\ SizeInv(s)
  BY <1>1, PostStored
<1>3. IsPrefill(s)
  BY <1>1, <1>2 DEF SizeInv, Unbegun
<1>4. Computed(s) = NumPrompt(s)
  BY <1>1, <1>3, PostStored
<1>5. tokens' \in [Seqs -> Seq(Token)]
  BY <1>1, OpenFacts, TypeFacts DEF BlockTypeOK, NextPost
<1> QED BY <1>1, <1>4, <1>5, PostCounted

\* ... and a sampled token, whose own KV the next step stores.
LEMMA PostTokenStored ==
    ASSUME PDInv, KVInv, NEW s \in Seqs, NEW token \in Token,
           PostToken(s, token) \/ PostFinish(s, token)
    PROVE  KVInv'
<1>1. /\ NextPost(s) /\ ~StillPrefill(s) /\ Counted(s)
      /\ tokens' = [tokens EXCEPT ![s] = Append(@, token)]
  BY DEF PostToken, PostFinish
<1>2. /\ status[s] = "RUNNING" /\ Alive(s) /\ StoredInv(s) /\ Computed(s) = NumTokens(s)
      /\ s \notin Elems(Tail(todo)) /\ Elems(Tail(todo)) \subseteq Elems(todo)
  BY <1>1, PostStored
<1>3. pc = "post" /\ pc \notin {"closing", "closed"}
  BY <1>1 DEF NextPost
<1>4. /\ TypeOK /\ BlockTypeOK /\ KVTypeOK /\ status \in [Seqs -> Statuses]
      /\ tokens \in [Seqs -> Seq(Token)]
  BY <1>3, OpenFacts, TypeFacts DEF BlockTypeOK
<1>5. /\ tokens' \in [Seqs -> Seq(Token)] /\ \A q \in Seqs \ {s} : tokens'[q] = tokens[q]
      /\ tokens'[s] = Append(tokens[s], token) /\ tokens[s] \in Seq(Token)
  BY <1>1, <1>4
<1>6. CASE PostToken(s, token)
  <2>1. /\ cached' = [cached EXCEPT ![s] = Computed(s)]
        /\ table' = table /\ requests' = requests /\ status' = status
    BY <1>6 DEF PostToken
  <2>2. status' = [status EXCEPT ![s] = "RUNNING"]
    BY <1>2, <1>4, <2>1
  <2> DEFINE t == tokens[s]
             u == Append(t, token)
  <2>3. t \in Seq(Token)
    BY <1>5
  <2> HIDE DEF t
  <2>4. /\ Len(u) = Len(t) + 1 /\ Len(t) \in Nat
        /\ \A p \in 1 .. Len(t) : SubSeq(u, 1, p) = SubSeq(t, 1, p)
    BY <2>3
  <2>5. \A p \in 1 .. Computed(s) : SubSeq(tokens'[s], 1, p) = SubSeq(tokens[s], 1, p)
    BY <1>2, <1>5, <2>4 DEF NumTokens, t
  <2>6. /\ NumTokens(s)' = NumTokens(s) + 1 /\ NumTokens(s) \in Nat
    BY <1>5, <2>4 DEF NumTokens, t
  <2>7. /\ NumPrompt(s) \in Nat \ {0} /\ ~(Computed(s) < NumPrompt(s))
        /\ Len(table[s]) \in Nat
    BY <1>1, <1>4, SeqFacts DEF StillPrefill, BlockTypeOK
  <2>8. NumTokens(s) \in Nat \ {0}
    BY <1>2, <2>6, <2>7
  <2>9. Len(table[s]) <= SeqBlocks(s)'
    <3> DEFINE n == NumTokens(s)
    <3>1. n \in Nat \ {0} /\ SeqBlocks(s) = CeilDiv(n, BlockSize)
          /\ SeqBlocks(s)' = CeilDiv(n + 1, BlockSize)
      BY <2>6, <2>8 DEF SeqBlocks
    <3> HIDE DEF n
    <3>2. SeqBlocks(s) <= SeqBlocks(s)' /\ SeqBlocks(s) \in Nat /\ SeqBlocks(s)' \in Nat
      BY <3>1, OneMoreBlock
    <3>3. Len(table[s]) <= SeqBlocks(s)
      BY <1>2 DEF StoredInv
    <3> QED BY <2>7, <3>2, <3>3
  <2>10. NumTokens(s)' = IF Computed(s) < NumPrompt(s) THEN NumPrompt(s) ELSE Computed(s) + 1
    BY <1>2, <2>6, <2>7
  <2> QED BY <1>1, <1>5, <2>1, <2>2, <2>5, <2>9, <2>10, PostCounted
<1>7. CASE PostFinish(s, token)
  <2>1. /\ Release(s) /\ cached' = [cached EXCEPT ![s] = 0]
    BY <1>7 DEF PostFinish
  <2>2. /\ pc' = pc /\ todo' = Tail(todo) /\ scheduled' = [scheduled EXCEPT ![s] = 0]
        /\ kv' = kv /\ events' = events /\ fresh' = fresh /\ hash' = hash /\ index' = index
    BY <1>1 DEF Counted, workerVars
  <2>3. \A q \in Seqs \ {s} : scheduled'[q] = scheduled[q]
    BY <1>4, <2>2 DEF KVTypeOK
  <2> QED BY <1>2, <1>3, <1>5, <2>1, <2>2, <2>3, ReleasedStored
<1> QED BY <1>6, <1>7

-----------------------------------------------------------------------------
(* What a step stores                                                      *)

\* A row and a place in it.
LEMMA RowAndPlace ==
    \A n \in Nat \ {0}, x \in Nat : \A k \in 0 .. n - 1 :
        (x * n + k) \div n = x /\ (x * n + k) % n = k
<1> SUFFICES ASSUME NEW n \in Nat \ {0}, NEW x \in Nat, NEW k \in 0 .. n - 1
             PROVE  (x * n + k) \div n = x /\ (x * n + k) % n = k
  OBVIOUS
<1> QED OBVIOUS

\* A received token goes to the slot it has in the claim ...
LEMMA ReadPlace ==
    ASSUME NEW numTokens \in Nat, NEW blocks \in Seq(Nat),
           NEW read \in TokensRead(Cache, blocks, numTokens, 0)
    PROVE  /\ read.token \in 1 .. numTokens /\ SlotIndex(read.token) \in 1 .. Len(blocks)
           /\ read.address \div BlockSize = blocks[SlotIndex(read.token)]
           /\ (read.address % BlockSize) + 1 = SlotOffset(read.token)
<1> DEFINE n == BlockSize
<1>1. /\ Cache \in Caches /\ Cache.blockSize = n /\ Cache.address = 0
      /\ Cache.capacity \in Nat /\ n \in Nat \ {0}
  BY PoolAssumption DEF Cache, Caches
<1>2. read.token \in 1 .. numTokens
  BY <1>1, TokenIsRead
<1>3. PICK i \in 1 .. Len(blocks) :
         LET d == Descriptor(Cache, blocks, numTokens, 0, i) IN
         \E a \in Extent(d) : read = [address |-> a,
                                     token   |-> (i - 1) * Cache.blockSize + a - d.address + 1]
  BY DEF TokensRead
<1> DEFINE d == Descriptor(Cache, blocks, numTokens, 0, i)
           m == (i - 1) * n
           x == blocks[i]
           y == x * n
           size == d.size
<1>4. PICK a \in Extent(d) :
         read.address = a /\ read.token = (i - 1) * Cache.blockSize + a - d.address + 1
  BY <1>3
<1>5. i \in Nat \ {0} /\ x \in Nat
  OBVIOUS
<1>6. d.address = y
  <2>1. d.address = Cache.address + (0 * Cache.capacity + blocks[i]) * Cache.blockSize
    BY DEF Descriptor
  <2>2. 0 * Cache.capacity + blocks[i] = x
    BY <1>1, <1>5
  <2> QED BY <1>1, <1>5, <2>1, <2>2
<1>7. /\ i * n = m + n /\ m \in Nat /\ y \in Nat
  <2>1. n \in Nat
    BY <1>1
  <2> QED BY <1>5, <2>1, BlocksBefore
<1>8. size = (IF m + n < numTokens THEN n ELSE numTokens - m)
  <2>1. size = (IF i * Cache.blockSize < numTokens THEN Cache.blockSize
                ELSE numTokens - (i - 1) * Cache.blockSize)
    BY DEF Descriptor
  <2> QED BY <1>1, <1>7, <2>1
<1>9. a \in y .. y + size - 1 /\ read.token = m + a - y + 1
  <2>1. a \in d.address .. d.address + size - 1
    BY <1>4 DEF Extent
  <2> QED BY <1>1, <1>4, <1>6, <2>1
<1> HIDE DEF d, m, y, size, n
<1>10. PICK k \in 0 .. n - 1 : a = y + k /\ read.token = (m + k) + 1
  <2>1. size <= n /\ size \in Int
    BY <1>1, <1>7, <1>8
  <2>2. a - y \in 0 .. n - 1 /\ a = y + (a - y) /\ m + a - y + 1 = (m + (a - y)) + 1
    BY <1>1, <1>7, <1>9, <2>1
  <2> QED BY <1>9, <2>2
<1> HIDE DEF x
<1>11. a \div n = x /\ a % n = k
  <2>1. (x * n + k) \div n = x /\ (x * n + k) % n = k
    BY <1>1, <1>5, <1>10, RowAndPlace, Zenon
  <2> QED BY <1>10, <2>1 DEF y
<1>12. SlotIndex(read.token) = i /\ SlotOffset(read.token) = k + 1
  <2> DEFINE j == i - 1
  <2>1. j \in Nat /\ m = j * n /\ j + 1 = i
    BY <1>5 DEF m
  <2> HIDE DEF j
  <2>2. (j * n + k) \div n = j /\ (j * n + k) % n = k
    BY <1>1, <1>10, <2>1, RowAndPlace, Zenon
  <2>3. read.token - 1 = m + k
    BY <1>7, <1>10
  <2> QED BY <2>1, <2>2, <2>3 DEF SlotIndex, SlotOffset, n
<1> QED BY <1>2, <1>4, <1>11, <1>12 DEF n, x

\* ... and every token of the prompt is received.
LEMMA EveryTokenRead ==
    ASSUME NEW numTokens \in Nat, NEW blocks \in Seq(Nat),
           Len(blocks) = CeilDiv(numTokens, BlockSize), NEW p \in 1 .. numTokens
    PROVE  \E read \in TokensRead(Cache, blocks, numTokens, 0) : read.token = p
<1> DEFINE n == BlockSize
           i == SlotIndex(p)
           k == SlotOffset(p)
           m == (i - 1) * n
           d == Descriptor(Cache, blocks, numTokens, 0, i)
           size == d.size
           base == d.address
<1>1. /\ Cache.blockSize = n /\ Cache.address = 0 /\ Cache.capacity \in Nat
      /\ n \in Nat \ {0}
  BY PoolAssumption DEF Cache
<1>2. /\ i \in Nat \ {0} /\ k \in 1 .. n /\ p = m + k /\ i <= Len(blocks)
  BY SlotFacts, SlotInBlocks
<1>3. blocks[i] \in Nat /\ i \in 1 .. Len(blocks)
  BY <1>2
<1>4. base \in Int
  BY <1>1, <1>3 DEF Descriptor
<1>5. i * n = m + n /\ m \in Nat
  <2>1. n \in Nat
    BY <1>1
  <2> QED BY <1>2, <2>1, BlocksBefore
<1>6. size = (IF m + n < numTokens THEN n ELSE numTokens - m)
  <2>1. size = (IF i * Cache.blockSize < numTokens THEN Cache.blockSize
                ELSE numTokens - (i - 1) * Cache.blockSize)
    BY DEF Descriptor
  <2> QED BY <1>1, <1>5, <2>1
<1> HIDE DEF n, i, k, m, size, base
<1>7. k <= size /\ size \in Int
  BY <1>1, <1>2, <1>5, <1>6
<1> DEFINE a == base + k - 1
           r == [address |-> a, token |-> m + a - base + 1]
<1>8. a \in base .. base + size - 1 /\ m + a - base + 1 = p
  BY <1>1, <1>2, <1>4, <1>5, <1>7
<1> HIDE DEF a
<1>9. r \in TokensRead(Cache, blocks, numTokens, 0)
  <2>1. a \in Extent(d) /\ m = (i - 1) * Cache.blockSize
    BY <1>1, <1>8 DEF Extent, size, base, m
  <2>2. r \in {[address |-> x, token |-> (i - 1) * Cache.blockSize + x - d.address + 1]
                 : x \in Extent(d)}
    BY <2>1 DEF base
  <2> HIDE DEF r
  <2> QED BY <1>3, <2>2 DEF TokensRead
<1>10. r.token = p
  BY <1>8
<1> QED BY <1>9, <1>10

\* The slots of s that a step with the ends of some transfers stores into.
Batched(s, p) ==
    \/ s \in Elems(prefills) /\ p \in cached[s] + 1 .. cached[s] + scheduled[s]
    \/ s \in Elems(decodes) /\ p = NumTokens(s)

Fetched(s, p, finished) ==
    status[s] = "REMOTE" /\ Attempt[s] \in finished /\ p \in 1 .. NumPrompt(s)

\* Tokens and blocks of a running request in the batch.
LEMMA BatchedFacts ==
    ASSUME PDInv, KVInv, pc = "execute", NEW s \in Seqs,
           s \in Elems(prefills) \cup Elems(decodes)
    PROVE  /\ status[s] = "RUNNING" /\ StoredInv(s)
           /\ s \in Elems(prefills) => /\ IsPrefill(s) /\ NumTokens(s) = NumPrompt(s)
                                       /\ Computed(s) <= NumPrompt(s)
           /\ s \in Elems(decodes) => /\ ~IsPrefill(s) /\ NumTokens(s) = cached[s] + 1
                                      /\ scheduled[s] = 1 /\ Len(table[s]) = SeqBlocks(s)
           /\ \A p : Batched(s, p) => p \in 1 .. NumTokens(s) /\ SlotIndex(p) <= Len(table[s])
<1>1. /\ TypeOK /\ BatchInv /\ QueueInv /\ StoredInv(s) /\ SizeInv(s)
  BY OpenFacts DEF KVInv, Closing
<1>2. /\ status[s] = "RUNNING" /\ NumTokens(s) >= NumPrompt(s)
      /\ s \in Elems(prefills) => cached[s] + scheduled[s] <= NumPrompt(s)
  BY <1>1 DEF BatchInv, QueueInv, Listed, SizeInv
<1>3. /\ NumPrompt(s) \in Nat \ {0} /\ NumTokens(s) \in Nat /\ cached[s] \in Nat
      /\ scheduled[s] \in Nat /\ Len(table[s]) \in Nat /\ BlockSize \in Nat \ {0}
  BY <1>1, SeqFacts, TypeFacts DEF BlockTypeOK
<1>4. /\ s \in Elems(prefills) => IsPrefill(s) /\ NumTokens(s) = NumPrompt(s)
      /\ s \in Elems(decodes) => /\ ~IsPrefill(s) /\ NumTokens(s) = cached[s] + 1
                                 /\ scheduled[s] = 1 /\ Len(table[s]) = SeqBlocks(s)
      /\ CeilDiv(NumPrompt(s), BlockSize) <= Len(table[s])
  BY <1>1, <1>2 DEF StoredInv, Batching
<1>5. ASSUME NEW p, Batched(s, p) PROVE p \in 1 .. NumTokens(s) /\ SlotIndex(p) <= Len(table[s])
  <2> DEFINE n == NumTokens(s)
  <2>1. p \in 1 .. n
    BY <1>2, <1>3, <1>4, <1>5 DEF Batched
  <2>2. CeilDiv(n, BlockSize) <= Len(table[s])
    BY <1>3, <1>4, <1>5 DEF Batched, SeqBlocks
  <2>3. n \in Nat /\ n \in Nat \ {0} /\ CeilDiv(n, BlockSize) \in Nat
    <3>1. n \in Nat /\ n \in Nat \ {0}
      BY <1>3, <2>1
    <3> HIDE DEF n
    <3> QED BY <3>1, OneMoreBlock
  <2> HIDE DEF n
  <2>4. SlotIndex(p) <= CeilDiv(n, BlockSize) /\ SlotIndex(p) \in Nat \ {0}
    BY <2>1, <2>3, SlotInBlocks
  <2>5. SlotIndex(p) <= Len(table[s])
    BY <1>3, <2>2, <2>3, <2>4
  <2> QED BY <2>1, <2>5 DEF n
<1> QED BY <1>1, <1>2, <1>4, <1>5 DEF Computed

\* The batch stores the right KV into the slots of its requests ...
LEMMA BatchWrites ==
    ASSUME PDInv, KVInv, pc = "execute", NEW w \in Writes(prefills, decodes)
    PROVE  \E s \in Seqs, p \in Nat \ {0} :
              /\ WritesSlot(w, s, p) /\ Batched(s, p) /\ status[s] = "RUNNING"
              /\ w.value = SubSeq(tokens[s], 1, p)
<1>1. /\ TypeOK /\ Elems(prefills) \subseteq Seqs /\ Elems(decodes) \subseteq Seqs
  BY OpenFacts, TypeFacts DEF Elems
<1>2. CASE \E s \in Elems(prefills) : w \in PrefillWrites(s)
  <2>1. PICK s \in Elems(prefills) : w \in PrefillWrites(s)
    BY <1>2
  <2>2. PICK p \in cached[s] + 1 .. cached[s] + scheduled[s] :
           /\ w.block = SlotBlock(s, p) /\ w.offset = SlotOffset(p)
           /\ w.value = KVOf(s, p, cached[s])
    BY <2>1 DEF PrefillWrites
  <2>3. s \in Seqs /\ Batched(s, p) /\ NumTokens(s) \in Nat
    BY <1>1, <2>1, <2>2, SeqFacts DEF Batched
  <2>4. /\ status[s] = "RUNNING" /\ StoredInv(s) /\ p \in 1 .. NumTokens(s)
        /\ SlotIndex(p) <= Len(table[s])
    BY <2>1, <2>3, BatchedFacts
  <2>5. w.value = SubSeq(tokens[s], 1, p)
    BY <2>2, <2>4, ReadyIsStored DEF KVOf, StoredInv
  <2>6. WritesSlot(w, s, p)
    BY <2>2, <2>4 DEF WritesSlot, SlotBlock, SlotIndex
  <2>7. p \in Nat \ {0}
    BY <2>3, <2>4
  <2> QED BY <2>3, <2>4, <2>5, <2>6, <2>7
<1>3. CASE \E s \in Elems(decodes) : w \in DecodeWrites(s)
  <2>1. PICK s \in Elems(decodes) : w \in DecodeWrites(s)
    BY <1>3
  <2> DEFINE p == NumTokens(s)
  <2>2. /\ w.block = table[s][Len(table[s])] /\ w.offset = SlotOffset(p)
        /\ w.value = KVOf(s, p, p - 1)
    BY <2>1 DEF DecodeWrites
  <2>3. s \in Seqs /\ Batched(s, p) /\ p \in Nat /\ cached[s] \in Nat
    BY <1>1, <2>1, SeqFacts DEF Batched
  <2>4. /\ status[s] = "RUNNING" /\ StoredInv(s) /\ p \in 1 .. NumTokens(s)
        /\ SlotIndex(p) <= Len(table[s]) /\ p = cached[s] + 1
        /\ Len(table[s]) = SeqBlocks(s)
    BY <2>1, <2>3, BatchedFacts
  <2>5. p - 1 = cached[s] /\ p \in Nat \ {0}
    BY <2>3, <2>4
  <2>6. w.value = SubSeq(tokens[s], 1, p)
    BY <2>2, <2>4, <2>5, ReadyIsStored DEF KVOf, StoredInv
  <2>7. Len(table[s]) = SlotIndex(p)
    BY <2>4, <2>5, SlotFacts DEF SeqBlocks
  <2>8. WritesSlot(w, s, p)
    BY <2>2, <2>4, <2>7 DEF WritesSlot
  <2> QED BY <2>3, <2>4, <2>5, <2>6, <2>8
<1> QED BY <1>2, <1>3, WriteOf

\* ... into all of them.
LEMMA AllBatched ==
    ASSUME PDInv, KVInv, pc = "execute", NEW s \in Seqs, NEW p, Batched(s, p)
    PROVE  \E w \in Writes(prefills, decodes) : WritesSlot(w, s, p)
<1>1. s \in Elems(prefills) \cup Elems(decodes)
  BY DEF Batched
<1>2. /\ p \in 1 .. NumTokens(s) /\ SlotIndex(p) <= Len(table[s])
      /\ s \in Elems(decodes) => NumTokens(s) \in Nat /\ Len(table[s]) = SeqBlocks(s)
  BY <1>1, BatchedFacts, OpenFacts, SeqFacts
<1>3. CASE s \in Elems(prefills) /\ p \in cached[s] + 1 .. cached[s] + scheduled[s]
  <2> DEFINE w == [block |-> SlotBlock(s, p), offset |-> SlotOffset(p),
                   value |-> KVOf(s, p, cached[s])]
  <2>1. w \in PrefillWrites(s)
    BY <1>3 DEF PrefillWrites
  <2>2. w \in Writes(prefills, decodes)
    BY <1>3, <2>1 DEF Writes
  <2>3. WritesSlot(w, s, p)
    BY <1>2 DEF WritesSlot, SlotBlock, SlotIndex
  <2> QED BY <2>2, <2>3
<1>4. CASE s \in Elems(decodes) /\ p = NumTokens(s)
  <2> DEFINE w == [block |-> table[s][Len(table[s])], offset |-> SlotOffset(NumTokens(s)),
                   value |-> KVOf(s, NumTokens(s), NumTokens(s) - 1)]
  <2>1. w \in DecodeWrites(s)
    BY DEF DecodeWrites
  <2>2. w \in Writes(prefills, decodes)
    BY <1>4, <2>1 DEF Writes
  <2>3. p \in Nat \ {0}
    BY <1>2, <1>4
  <2>4. Len(table[s]) = SlotIndex(p)
    BY <1>2, <1>4, <2>3, SlotFacts DEF SeqBlocks
  <2>5. w.block = table[s][SlotIndex(p)] /\ w.offset = SlotOffset(p)
    BY <1>4, <2>4
  <2> HIDE DEF w
  <2>6. WritesSlot(w, s, p)
    BY <1>2, <2>5 DEF WritesSlot
  <2> QED BY <2>2, <2>6
<1> QED BY <1>3, <1>4 DEF Batched

\* A transfer that ends on D is that of a request whose prompt has the blocks it names.
LEMMA FetchFacts ==
    ASSUME PDInv, pc = "execute", Decodes, NEW t \in active \cup loads \cup sends
    PROVE  \E s \in Seqs :
              /\ Attempt[s] = t /\ s = (CHOOSE q \in Seqs : Attempt[q] = t)
              /\ status[s] = "REMOTE" /\ claims[t] = table[s] /\ tokens[s] = Prompt[s]
              /\ table[s] \in Seq(Nat) /\ NumPrompt(s) \in Nat
              /\ Len(table[s]) = CeilDiv(NumPrompt(s), BlockSize)
<1>1. /\ TypeOK /\ LifeInv /\ EventInv /\ BlockTypeOK
      /\ \A q \in Seqs : SizeInv(q)
      /\ \A q \in Seqs : TransferInv(q)
  BY OpenFacts, TypeFacts
<1>2. Queued(t) /\ Underway(t) /\ t \in Transfers
  BY <1>1, TypeFacts DEF Queued, Underway
<1>3. PICK s \in Seqs : Attempt[s] = t
  BY <1>1, <1>2 DEF EventInv
<1>4. Transferring(s) /\ claims[t] = table[s]
  BY <1>1, <1>2, <1>3 DEF TransferInv
<1>5. status[s] = "REMOTE"
  BY <1>1, <1>4 DEF LifeInv, Transferring
<1>6. tokens[s] = Prompt[s] /\ Len(table[s]) = CeilDiv(NumPrompt(s), BlockSize)
  BY <1>1, <1>5 DEF SizeInv, Holding, Transferring
<1>7. s = (CHOOSE q \in Seqs : Attempt[q] = t)
  BY <1>3, IdAssumption
<1>8. table[s] \in Seq(Nat)
  <2>1. table[s] \in Seq(Blocks) /\ Blocks \subseteq Nat
    BY <1>1 DEF BlockTypeOK, Blocks
  <2> QED BY <2>1, SeqMonotonic
<1>9. NumPrompt(s) \in Nat
  BY <1>1, SeqFacts
<1> QED BY <1>3, <1>4, <1>5, <1>6, <1>7, <1>8, <1>9

\* The ends of transfers store the prompts that were received into their slots ...
LEMMA FetchWrites ==
    ASSUME PDInv, pc = "execute", Decodes,
           NEW finished \in SUBSET (active \cup loads \cup sends), NEW f,
           NEW w \in TransferWrites([t \in finished |-> f[t]])
    PROVE  \E s \in Seqs, p \in Nat \ {0} :
              /\ WritesSlot(w, s, p) /\ Fetched(s, p, finished)
              /\ f[Attempt[s]] = "ok" => w.value = SubSeq(tokens[s], 1, p)
<1>1. PICK t \in finished :
         LET s == CHOOSE q \in Seqs : Attempt[q] = t IN
         \E read \in TokensRead(Cache, claims[t], NumPrompt(s), 0) :
            /\ w.block = read.address \div BlockSize
            /\ w.offset = (read.address % BlockSize) + 1
            /\ f[t] = "ok" => w.value = SubSeq(Prompt[s], 1, read.token)
  BY DEF TransferWrites
<1>2. PICK s \in Seqs :
         /\ Attempt[s] = t /\ s = (CHOOSE q \in Seqs : Attempt[q] = t)
         /\ status[s] = "REMOTE" /\ claims[t] = table[s] /\ tokens[s] = Prompt[s]
         /\ table[s] \in Seq(Nat) /\ NumPrompt(s) \in Nat
  BY <1>1, FetchFacts
<1>3. PICK read \in TokensRead(Cache, table[s], NumPrompt(s), 0) :
         /\ w.block = read.address \div BlockSize
         /\ w.offset = (read.address % BlockSize) + 1
         /\ f[t] = "ok" => w.value = SubSeq(tokens[s], 1, read.token)
  BY <1>1, <1>2
<1> DEFINE p == read.token
<1>4. /\ p \in 1 .. NumPrompt(s) /\ SlotIndex(p) \in 1 .. Len(table[s])
      /\ w.block = table[s][SlotIndex(p)] /\ w.offset = SlotOffset(p)
  BY <1>2, <1>3, ReadPlace
<1> HIDE DEF p
<1>5. WritesSlot(w, s, p) /\ Fetched(s, p, finished) /\ p \in Nat \ {0}
  BY <1>1, <1>2, <1>4 DEF WritesSlot, Fetched
<1> QED BY <1>2, <1>3, <1>5 DEF p

\* ... all of them.
LEMMA AllFetched ==
    ASSUME PDInv, pc = "execute", Decodes,
           NEW finished \in SUBSET (active \cup loads \cup sends), NEW f,
           NEW s \in Seqs, NEW p, Fetched(s, p, finished)
    PROVE  \E w \in TransferWrites([t \in finished |-> f[t]]) : WritesSlot(w, s, p)
<1>1. PICK t \in finished : t = Attempt[s]
  BY DEF Fetched
<1>2. PICK q \in Seqs :
         /\ Attempt[q] = t /\ q = (CHOOSE x \in Seqs : Attempt[x] = t)
         /\ claims[t] = table[q] /\ table[q] \in Seq(Nat) /\ NumPrompt(q) \in Nat
         /\ Len(table[q]) = CeilDiv(NumPrompt(q), BlockSize)
  BY <1>1, FetchFacts
<1>3. q = s
  BY <1>1, <1>2, IdAssumption
<1>4. p \in 1 .. NumPrompt(s)
  BY DEF Fetched
<1>5. PICK read \in TokensRead(Cache, claims[t], NumPrompt(s), 0) : read.token = p
  <2>1. /\ table[s] \in Seq(Nat) /\ NumPrompt(s) \in Nat
        /\ Len(table[s]) = CeilDiv(NumPrompt(s), BlockSize)
    BY <1>2, <1>3
  <2>2. \E read \in TokensRead(Cache, table[s], NumPrompt(s), 0) : read.token = p
    BY <1>4, <2>1, EveryTokenRead
  <2> QED BY <1>2, <1>3, <2>2
<1> DEFINE x == CHOOSE y \in Seqs : Attempt[y] = t
           g == [u \in finished |-> f[u]]
           w == [block  |-> read.address \div BlockSize,
                 offset |-> (read.address % BlockSize) + 1,
                 value  |-> IF g[t] = "ok" THEN SubSeq(Prompt[x], 1, read.token) ELSE Garbage]
<1>6. x = s /\ t \in DOMAIN g
  BY <1>1, <1>2, <1>3
<1>7. read \in TokensRead(Cache, claims[t], NumPrompt(x), 0)
  BY <1>5, <1>6
<1>8. w \in TransferWrites(g)
  <2> DEFINE Part(u) ==
               LET who == CHOOSE y \in Seqs : Attempt[y] = u IN
               {[block  |-> rd.address \div BlockSize,
                 offset |-> (rd.address % BlockSize) + 1,
                 value  |-> IF g[u] = "ok" THEN SubSeq(Prompt[who], 1, rd.token) ELSE Garbage]
                  : rd \in TokensRead(Cache, claims[u], NumPrompt(who), 0)}
  <2> HIDE DEF g
  <2>1. TransferWrites(g) = UNION {Part(u) : u \in DOMAIN g}
    BY DEF TransferWrites
  <2>2. w \in Part(t)
    BY <1>7
  <2> HIDE DEF Part
  <2> QED BY <1>6, <2>1, <2>2
<1>9. WritesSlot(w, s, p)
  <2>1. /\ SlotIndex(p) \in 1 .. Len(table[s])
        /\ read.address \div BlockSize = table[s][SlotIndex(p)]
        /\ (read.address % BlockSize) + 1 = SlotOffset(p)
    BY <1>2, <1>3, <1>5, ReadPlace
  <2> QED BY <1>2, <1>3, <2>1 DEF WritesSlot
<1> QED BY <1>8, <1>9

\* A slot is that of one token of one request.
LEMMA SlotUnique ==
    ASSUME OwnInv, NEW s \in Seqs, NEW q \in Seqs, NEW p \in Nat \ {0}, NEW r \in Nat \ {0},
           NEW w, WritesSlot(w, s, p), WritesSlot(w, q, r)
    PROVE  s = q /\ p = r
<1>1. /\ PoolInv /\ BlockTypeOK
      /\ \A x, y \in Seqs : x # y => Held(x) \cap Held(y) = {}
  BY DEF OwnInv, PoolInv
<1>2. /\ SlotIndex(p) \in Nat \ {0} /\ p = (SlotIndex(p) - 1) * BlockSize + SlotOffset(p)
      /\ SlotIndex(r) \in Nat \ {0} /\ r = (SlotIndex(r) - 1) * BlockSize + SlotOffset(r)
  BY SlotFacts
<1>3. /\ table[s] \in Seq(Blocks) /\ reserved[s] \in Seq(Blocks) /\ Len(table[s]) \in Nat
      /\ table[q] \in Seq(Blocks) /\ Len(table[q]) \in Nat
  BY <1>1 DEF BlockTypeOK
<1>4. /\ SlotIndex(p) \in 1 .. Len(table[s]) /\ w.block = table[s][SlotIndex(p)]
      /\ SlotIndex(r) \in 1 .. Len(table[q]) /\ w.block = table[q][SlotIndex(r)]
      /\ SlotOffset(p) = SlotOffset(r)
  BY <1>2, <1>3 DEF WritesSlot
<1>5. w.block \in Held(s) /\ w.block \in Held(q)
  BY <1>4 DEF Held, Elems
<1>6. s = q
  BY <1>1, <1>5
<1>7. Distinct(table[s])
  <2> DEFINE u == table[s]
             v == reserved[s]
  <2>1. u \in Seq(Blocks) /\ v \in Seq(Blocks) /\ Distinct(u \o v)
    BY <1>1, <1>3 DEF PoolInv, TablesDistinct
  <2> HIDE DEF u, v
  <2>2. Distinct(u)
    BY <2>1, ConcatFacts
  <2> QED BY <2>2 DEF u
<1>8. SlotIndex(p) = SlotIndex(r)
  BY <1>4, <1>6, <1>7 DEF Distinct
<1> QED BY <1>2, <1>4, <1>6, <1>8

\* Everything a step stores, when the transfers in finished end as f says.
StepWrites(finished, f) ==
    Writes(prefills, decodes)
      \cup IF Decodes THEN TransferWrites([t \in finished |-> f[t]]) ELSE {}

\* Whatever a step stores into a slot is the KV of its token, unless the transfer failed.
LEMMA StepSlot ==
    ASSUME PDInv, KVInv, pc = "execute",
           NEW finished \in SUBSET (active \cup loads \cup sends), NEW f,
           NEW s \in Seqs, NEW p \in Nat \ {0},
           NEW w \in StepWrites(finished, f), WritesSlot(w, s, p)
    PROVE  \/ status[s] = "RUNNING" /\ w.value = SubSeq(tokens[s], 1, p)
           \/ /\ status[s] = "REMOTE"
              /\ f[Attempt[s]] = "ok" => w.value = SubSeq(tokens[s], 1, p)
<1>1. OwnInv
  BY DEF PDInv
<1>2. CASE w \in Writes(prefills, decodes)
  <2>1. PICK q \in Seqs, r \in Nat \ {0} :
           /\ WritesSlot(w, q, r) /\ status[q] = "RUNNING"
           /\ w.value = SubSeq(tokens[q], 1, r)
    BY <1>2, BatchWrites
  <2>2. q = s /\ r = p
    BY <1>1, <2>1, SlotUnique
  <2> QED BY <2>1, <2>2
<1>3. CASE Decodes /\ w \in TransferWrites([t \in finished |-> f[t]])
  <2>1. PICK q \in Seqs, r \in Nat \ {0} :
           /\ WritesSlot(w, q, r) /\ Fetched(q, r, finished)
           /\ f[Attempt[q]] = "ok" => w.value = SubSeq(tokens[q], 1, r)
    BY <1>3, FetchWrites
  <2>2. q = s /\ r = p
    BY <1>1, <2>1, SlotUnique
  <2> QED BY <2>1, <2>2 DEF Fetched
<1> QED BY <1>2, <1>3 DEF StepWrites

\* The slots a step fills, or leaves as they are, are right.
LEMMA StepStored ==
    ASSUME PDInv, KVInv, pc = "execute",
           NEW finished \in SUBSET (active \cup loads \cup sends), NEW f,
           RunStep(StepWrites(finished, f)), NEW s \in Seqs, NEW n \in Nat,
           status[s] = "REMOTE" => f[Attempt[s]] = "ok",
           \A p \in 1 .. n :
              /\ SlotIndex(p) <= Len(table[s])
              /\ \/ Batched(s, p)
                 \/ Decodes /\ Fetched(s, p, finished)
                 \/ kv[table[s][SlotIndex(p)]][SlotOffset(p)] = SubSeq(tokens[s], 1, p)
    PROVE  Stored(kv', table[s], tokens[s], n)
<1> SUFFICES ASSUME NEW p \in 1 .. n
             PROVE  kv'[table[s][SlotIndex(p)]][SlotOffset(p)] = SubSeq(tokens[s], 1, p)
  BY DEF Stored
<1> DEFINE writes == StepWrites(finished, f)
           value  == SubSeq(tokens[s], 1, p)
<1>1. p \in Nat \ {0} /\ BlockTypeOK /\ SlotIndex(p) <= Len(table[s])
  BY DEF PDInv, TypeOK
<1>2. \A w \in writes : WritesSlot(w, s, p) => w.value = value
  <2> SUFFICES ASSUME NEW w \in writes, WritesSlot(w, s, p) PROVE w.value = value
    OBVIOUS
  <2>1. w \in StepWrites(finished, f)
    OBVIOUS
  <2> HIDE DEF writes, value
  <2>2. \/ status[s] = "RUNNING" /\ w.value = SubSeq(tokens[s], 1, p)
        \/ /\ status[s] = "REMOTE"
           /\ f[Attempt[s]] = "ok" => w.value = SubSeq(tokens[s], 1, p)
    BY <1>1, <2>1, StepSlot
  <2> QED BY <2>2 DEF value
<1>3. \/ \E w \in writes : WritesSlot(w, s, p)
      \/ kv[table[s][SlotIndex(p)]][SlotOffset(p)] = value
  <2>1. CASE Batched(s, p)
    BY <2>1, AllBatched DEF StepWrites
  <2>2. CASE Decodes /\ Fetched(s, p, finished)
    BY <2>2, AllFetched DEF StepWrites
  <2> QED BY <2>1, <2>2
<1> HIDE DEF writes, value
<1>4. RunStep(writes)
  BY DEF writes
<1>5. kv'[table[s][SlotIndex(p)]][SlotOffset(p)] = value
  BY <1>1, <1>2, <1>3, <1>4, SlotAfter
<1> QED BY <1>5 DEF value

\* The model's step stores the KV of the batch and of the received prompts.
LEMMA ExecuteStored == ASSUME PDInv, KVInv, Execute PROVE KVInv'
<1>1. /\ pc = "execute" /\ pc' = "post" /\ todo' = prefills \o decodes
      /\ UNCHANGED <<tokens, cached, table, status, scheduled, requests, prefills, decodes>>
  BY DEF Execute, bmVars, queueVars, requestVars
<1>2. PICK finished \in SUBSET (active \cup loads \cup sends), again \in SUBSET ended :
         \E f \in [finished \cup again -> Outcomes] :
            /\ events' = f /\ fresh' = finished \cup again
            /\ RunStep(StepWrites(finished, f))
  BY DEF Execute, StepWrites
<1>3. PICK f \in [finished \cup again -> Outcomes] :
         /\ events' = f /\ fresh' = finished \cup again
         /\ RunStep(StepWrites(finished, f))
  BY <1>2
<1>4. /\ TypeOK /\ OwnInv /\ LifeInv /\ EventInv /\ BlockTypeOK
      /\ \A q \in Seqs : SizeInv(q)
      /\ \A q \in Seqs : TransferInv(q)
      /\ prefills \in Seq(Seqs) /\ decodes \in Seq(Seqs)
  BY <1>1, OpenFacts, TypeFacts
<1>5. Elems(todo') = Elems(prefills) \cup Elems(decodes)
  BY <1>1, <1>4, ConcatFacts
<1> SUFFICES ASSUME NEW s \in Seqs PROVE StoredInv(s)'
  BY DEF KVInv
<1>6. StoredInv(s)
  BY <1>1 DEF KVInv, Closing
<1>7. /\ NumTokens(s)' = NumTokens(s) /\ SeqBlocks(s)' = SeqBlocks(s)
      /\ NumPrompt(s)' = NumPrompt(s) /\ Computed(s)' = Computed(s)
      /\ IsPrefill(s)' <=> IsPrefill(s)
      /\ Alive(s)' <=> Alive(s)
  BY <1>1 DEF NumTokens, SeqBlocks, IsPrefill, NumPrompt, Computed, Alive
<1>8. /\ \A n : Stored(kv', table[s], tokens[s], n) <=> Stored(kv', table'[s], tokens'[s], n)
      /\ cached[s] \in Nat /\ scheduled[s] \in Nat /\ NumPrompt(s) \in Nat \ {0}
      /\ NumTokens(s) \in Nat
  BY <1>1, <1>4, SeqFacts
<1>9. \A p \in 1 .. cached[s] :
         /\ SlotIndex(p) <= Len(table[s])
         /\ kv[table[s][SlotIndex(p)]][SlotOffset(p)] = SubSeq(tokens[s], 1, p)
  BY <1>6 DEF StoredInv, StoredFor, Stored
<1>10. StoredFor(s, cached[s])'
  <2>1. CASE status[s] = "REMOTE"
    <3>1. cached[s] = 0
      BY <1>6, <2>1 DEF StoredInv
    <3> QED BY <1>1, <3>1, NothingStored DEF StoredFor
  <2>2. CASE status[s] # "REMOTE"
    <3>1. Stored(kv', table[s], tokens[s], cached[s])
      BY <1>1, <1>3, <1>8, <1>9, <2>2, StepStored
    <3> QED BY <1>1, <1>8, <3>1 DEF StoredFor
  <2> QED BY <2>1, <2>2
<1>11. ASSUME status[s] = "REMOTE", Received(Attempt[s])' PROVE StoredFor(s, NumPrompt(s))'
  <2> DEFINE t == Attempt[s]
  <2>1. t \in finished \cup again /\ f[t] = "ok"
    BY <1>3, <1>11 DEF Received
  <2>2. Underway(t) /\ fresh = {}
    BY <1>1, <1>4, <1>11 DEF TransferInv, Transferring, EventInv
  <2>3. Queued(t)
    BY <2>2 DEF Underway
  <2>4. t \in finished
    BY <1>4, <2>1, <2>3 DEF EventInv
  <2>5. Decodes /\ Len(table[s]) = CeilDiv(NumPrompt(s), BlockSize)
    BY <1>4, <1>11 DEF LifeInv, SizeInv, Holding, Transferring
  <2> DEFINE n == NumPrompt(s)
  <2>6. \A p \in 1 .. n : SlotIndex(p) <= Len(table[s]) /\ Fetched(s, p, finished)
    <3> SUFFICES ASSUME NEW p \in 1 .. n
                 PROVE  SlotIndex(p) <= Len(table[s]) /\ Fetched(s, p, finished)
      OBVIOUS
    <3>1. Fetched(s, p, finished)
      BY <1>11, <2>4 DEF Fetched
    <3>2. n \in Nat
      BY <1>8
    <3> HIDE DEF n
    <3>3. SlotIndex(p) <= CeilDiv(n, BlockSize)
      BY <3>2, SlotInBlocks
    <3> QED BY <2>5, <3>1, <3>3 DEF n
  <2>7. Stored(kv', table[s], tokens[s], n)
    BY <1>1, <1>3, <1>8, <2>1, <2>5, <2>6, StepStored
  <2> QED BY <1>1, <1>7, <1>8, <2>7 DEF StoredFor
<1>12. ASSUME s \in Elems(todo')
       PROVE  /\ StoredFor(s, Computed(s))'
              /\ IF IsPrefill(s) THEN Computed(s) <= NumPrompt(s) ELSE scheduled[s] = 1
  <2>1. s \in Elems(prefills) \cup Elems(decodes)
    BY <1>5, <1>12
  <2>2. /\ status[s] = "RUNNING"
        /\ s \in Elems(prefills) => IsPrefill(s) /\ Computed(s) <= NumPrompt(s)
        /\ s \in Elems(decodes) => /\ ~IsPrefill(s) /\ NumTokens(s) = cached[s] + 1
                                   /\ scheduled[s] = 1
        /\ \A p : Batched(s, p) => SlotIndex(p) <= Len(table[s])
    BY <1>1, <2>1, BatchedFacts
  <2> DEFINE n == Computed(s)
  <2>3. n = cached[s] + scheduled[s] /\ n \in Nat
    BY <1>8 DEF Computed
  <2>4. \A p \in 1 .. n : p \in 1 .. cached[s] \/ Batched(s, p)
    <3> SUFFICES ASSUME NEW p \in 1 .. n, p \notin 1 .. cached[s] PROVE Batched(s, p)
      OBVIOUS
    <3> HIDE DEF n
    <3>1. p \in cached[s] + 1 .. cached[s] + scheduled[s]
      BY <1>8, <2>3
    <3>2. s \in Elems(decodes) => p = NumTokens(s)
      BY <1>8, <2>2, <3>1
    <3> QED BY <2>1, <3>1, <3>2 DEF Batched
  <2>5. \A p \in 1 .. n :
           /\ SlotIndex(p) <= Len(table[s])
           /\ \/ Batched(s, p)
              \/ kv[table[s][SlotIndex(p)]][SlotOffset(p)] = SubSeq(tokens[s], 1, p)
    BY <1>9, <2>2, <2>4
  <2> HIDE DEF n
  <2>6. Stored(kv', table[s], tokens[s], n)
    BY <1>1, <1>3, <2>2, <2>3, <2>5, StepStored
  <2> QED BY <1>1, <1>7, <1>8, <2>1, <2>2, <2>6 DEF StoredFor, n
<1>13. ~Batching' /\ pc' = "post"
  BY <1>1 DEF Batching
<1> QED BY <1>1, <1>6, <1>7, <1>10, <1>11, <1>12, <1>13 DEF StoredInv

-----------------------------------------------------------------------------
(* The contents in every state                                             *)

\* At the start nothing is computed.
LEMMA InitKVInv == Init => KVInv
<1> SUFFICES ASSUME Init, NEW s \in Seqs PROVE StoredInv(s)
  BY DEF KVInv
<1>1. cached[s] = 0 /\ status[s] = "NEW" /\ pc = "idle"
  BY DEF Init, BlockInit
<1>2. StoredFor(s, cached[s])
  BY <1>1, NothingStored DEF StoredFor
<1> QED BY <1>1, <1>2 DEF StoredInv, Batching

\* Every step keeps what is stored, or stores what it counts.
LEMMA NextKVInv == PDInv /\ KVInv /\ [Next]_vars => KVInv'
<1> SUFFICES ASSUME PDInv, KVInv, [Next]_vars PROVE KVInv'
  OBVIOUS
<1>1. CASE pc' \in {"closing", "closed"}
  BY <1>1 DEF KVInv, Closing
<1>2. CASE pc \in {"closing", "closed"}
  <2>1. pc' \in {"closing", "closed"}
    BY <1>2 DEF Next, EngineStep, vars, BeginStep, EndAdmit, EndBatch, Execute, EndPost,
                EndEvents, AdmitSkip, AdmitPrompt, AdmitRemote, Admit, NextAdmit, BatchSkip,
                BatchJoin, NextCandidate, PostChunk, PostHandoff, PostToken, PostFinish,
                NextPost, EventStale, EventReceived, EventEnds, NextEvent, Add,
                CancelRequest, ReleaseAtShutdown, BeginShutdown, EndShutdown
  <2> QED BY <1>1, <2>1
<1>3. CASE pc \notin {"closing", "closed"} /\ pc' \notin {"closing", "closed"}
  <2>1. CASE \/ BeginStep \/ EndAdmit \/ EndBatch \/ EndPost
             \/ \E s \in Seqs : AdmitSkip(s) \/ BatchSkip(s)
    BY <2>1, LoopStored
  <2>2. CASE EndEvents \/ UNCHANGED vars \/ \E t \in Transfers : EventStale(t)
    BY <1>3, <2>2, QuietStored
  <2>3. CASE Execute
    BY <2>3, ExecuteStored
  <2>4. CASE \E s \in Seqs : AdmitPrompt(s) \/ AdmitRemote(s)
    BY <2>4, AdmitStored
  <2>5. CASE \E s \in Seqs : BatchJoin(s)
    BY <2>5, BatchJoinStored
  <2>6. CASE \E s \in Seqs : PostChunk(s) \/ PostHandoff(s)
    BY <2>6, PostChunkStored, PostHandoffStored
  <2>7. CASE \E s \in Seqs, token \in Token : PostToken(s, token) \/ PostFinish(s, token)
    BY <2>7, PostTokenStored
  <2>8. CASE \E t \in Transfers : EventReceived(t) \/ EventEnds(t)
    BY <2>8, EventStored
  <2>9. CASE \E s \in Seqs : Add(s)
    BY <2>9, AddStored
  <2>10. CASE \E r \in Requests : CancelRequest(r)
    BY <2>10, CancelStored
  <2>11. CASE BeginShutdown \/ EndShutdown \/ \E r \in Requests : ReleaseAtShutdown(r)
    BY <1>3, <2>11 DEF BeginShutdown, EndShutdown, ReleaseAtShutdown
  <2> QED BY <2>1, <2>2, <2>3, <2>4, <2>5, <2>6, <2>7, <2>8, <2>9, <2>10, <2>11
          DEF Next, EngineStep
<1> QED BY <1>1, <1>2, <1>3

\* In every state the cache holds the KV of what the scheduler counts as computed.
THEOREM ComputedIsStored == Spec => []KVInv
<1> QED BY InitKVInv, NextKVInv, PDInvariant, PTL DEF Spec

\* What P hands off is the KV of the whole prompt, until the transfer has ended: nobody
\* writes to the blocks of the handoff meanwhile.
THEOREM HandoffsAreComplete == Spec => []HandoffIsComplete
<1>1. PDInv /\ KVInv => HandoffIsComplete
  <2> SUFFICES ASSUME PDInv, KVInv, ~Decodes, pc # "closing", NEW t \in sends \cup active
               PROVE  ContextReady(SeqOf(t), NumPrompt(SeqOf(t)))
    BY DEF HandoffIsComplete
  <2>1. pc \notin {"closing", "closed"}
    BY DEF PDInv, Closing
  <2>2. /\ TypeOK /\ LifeInv /\ EventInv
        /\ \A s \in Seqs : TransferInv(s)
    BY <2>1, OpenFacts
  <2>3. Queued(t) /\ Underway(t) /\ t \in Transfers
    BY <2>2, TypeFacts DEF Queued, Underway
  <2>4. PICK s \in Seqs : Attempt[s] = t
    BY <2>2, <2>3 DEF EventInv
  <2>5. Transferring(s) /\ pending[t] = RequestId[s]
    BY <2>2, <2>3, <2>4 DEF TransferInv
  <2>6. status[s] = "FINISHED" /\ Alive(s)
    BY <2>2, <2>5 DEF LifeInv, Transferring
  <2>7. SeqOf(t) = s
    BY <2>5, <2>6, IdAssumption DEF SeqOf, Alive
  <2>8. StoredFor(s, NumPrompt(s))
    BY <2>1, <2>6 DEF KVInv, Closing, StoredInv
  <2> QED BY <2>7, <2>8, ReadyIsStored
<1> QED BY <1>1, ComputedIsStored, PDInvariant, PTL

\* D samples a token only when the KV of all tokens before it is in the cache.
THEOREM TokensAreFromFullContext == Spec => TokensFromFullContext
<1> DEFINE Full == \A s \in Seqs : tokens'[s] # tokens[s] =>
                      ContextReady(s, Len(tokens[s])) /\ Computed(s) = Len(tokens[s])
<1>1. ASSUME PDInv, KVInv, Next PROVE Full
  <2>1. tokens' = tokens => Full
    OBVIOUS
  <2>2. ASSUME NEW s \in Seqs, NEW token \in Token, PostToken(s, token) \/ PostFinish(s, token)
        PROVE  Full
    <3>1. /\ NextPost(s) /\ ~StillPrefill(s)
          /\ tokens' = [tokens EXCEPT ![s] = Append(@, token)]
      BY <2>2 DEF PostToken, PostFinish
    <3>2. StoredFor(s, Computed(s)) /\ Computed(s) = NumTokens(s)
      BY <1>1, <3>1, PostStored
    <3>3. ContextReady(s, Len(tokens[s])) /\ Computed(s) = Len(tokens[s])
      BY <3>2, ReadyIsStored DEF NumTokens
    <3>4. \A q \in Seqs \ {s} : tokens'[q] = tokens[q]
      BY <1>1, <3>1, TypeFacts DEF PDInv, BlockTypeOK
    <3> QED BY <3>3, <3>4
  <2>3. CASE BeginStep \/ EndAdmit \/ EndBatch \/ Execute \/ EndPost \/ EndEvents
    BY <2>1, <2>3 DEF BeginStep, EndAdmit, EndBatch, Execute, EndPost, EndEvents, bmVars
  <2>4. CASE \E s \in Seqs : \/ AdmitSkip(s) \/ AdmitPrompt(s) \/ AdmitRemote(s)
                             \/ BatchSkip(s) \/ BatchJoin(s) \/ PostChunk(s) \/ PostHandoff(s)
    BY <2>1, <2>4 DEF AdmitSkip, AdmitPrompt, AdmitRemote, Admit, BatchSkip, BatchJoin,
                      PostChunk, PostHandoff, bmVars
  <2>5. CASE \E s \in Seqs, token \in Token : PostToken(s, token) \/ PostFinish(s, token)
    BY <2>2, <2>5
  <2>6. CASE \E t \in Transfers : EventStale(t) \/ EventReceived(t) \/ EventEnds(t)
    BY <2>1, <2>6 DEF EventStale, EventReceived, EventEnds, eventUnchanged
  <2>7. CASE \E s \in Seqs : Add(s)
    BY <2>1, <2>7 DEF Add, bmVars
  <2>8. CASE \E r \in Requests : CancelRequest(r) \/ ReleaseAtShutdown(r)
    BY <2>1, <2>8 DEF CancelRequest, ReleaseAtShutdown
  <2>9. CASE BeginShutdown \/ EndShutdown
    BY <2>1, <2>9 DEF BeginShutdown, EndShutdown, bmVars
  <2> HIDE DEF Full
  <2> QED BY <1>1, <2>3, <2>4, <2>5, <2>6, <2>7, <2>8, <2>9 DEF Next, EngineStep
<1>2. PDInv /\ KVInv /\ [Next]_vars => [Full]_vars
  BY <1>1
<1> QED BY <1>2, ComputedIsStored, PDInvariant, PTL DEF Spec, TokensFromFullContext
=============================================================================
