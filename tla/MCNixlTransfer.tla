--------------------------- MODULE MCNixlTransfer ---------------------------
(***************************************************************************)
(* Instances of NixlTransfer for TLC; the configurations differ in the     *)
(* numbers of transfers and readers and in what the environment does.      *)
(***************************************************************************)
EXTENDS NixlTransfer, TLC

CONSTANTS t1, t2

With(handoffs, compatible, events) ==
    [handoffs |-> handoffs, compatible |-> compatible, events |-> events]

\* Readers that compete; engines that stop or die, with and without a reader
\* whose layout does not match.
SafetyEnvironments ==
    {With({t1}, Readers, {"lost", "late", "cancel"})}
      \cup {With({t1}, {d}, {"crash", "stop"}) : d \in Readers}

LateEnvironment == {With({t1}, Readers, {"late"})}

\* Two transfers that need the same thread; one among all that is reported to P.
LivenessEnvironments ==
    {With({t1, t2}, Readers, {"lost", "crash"}),
     With({t1}, Readers, {"lost", "crash", "cancel", "stop"})}

\* Each set of environments above is closed under permutations of the readers.
ReaderSymmetry == Permutations(Readers)
=============================================================================
