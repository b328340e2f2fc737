------------------------------- MODULE KVLease -------------------------------
(***************************************************************************)
(* What the KV transport promises about the source blocks of a handoff,    *)
(* whatever messages, threads and time-outs it is built from               *)
(* (nanovllm/distributed/kv_transfer/base.py, WorkerConnector): each       *)
(* attempt is read by at most one reader, which was granted the lease      *)
(* while the blocks were retained, and blocks being read are never freed.  *)
(***************************************************************************)
CONSTANTS Transfers, Readers, NoReader

VARIABLES
    source,     \* per transfer: "computing", "retained" or "freed"
    granted,    \* the one reader of the attempt, or NoReader
    reading     \* the <<reader, transfer>> pairs with an access under way

leaseVars == <<source, granted, reading>>

LeaseTypeOK ==
    /\ source \in [Transfers -> {"computing", "retained", "freed"}]
    /\ granted \in [Transfers -> Readers \cup {NoReader}]
    /\ reading \subseteq Readers \X Transfers

LeaseInit ==
    /\ source = [t \in Transfers |-> "computing"]
    /\ granted = [t \in Transfers |-> NoReader]
    /\ reading = {}

\* The prompt is computed; its blocks outlive the request.
Retain(t) ==
    /\ source[t] = "computing"
    /\ source' = [source EXCEPT ![t] = "retained"]
    /\ UNCHANGED <<granted, reading>>

\* The first reader to ask becomes the only one.
Grant(d, t) ==
    /\ source[t] = "retained" /\ granted[t] = NoReader
    /\ granted' = [granted EXCEPT ![t] = d]
    /\ UNCHANGED <<source, reading>>

BeginAccess(d, t) ==
    /\ source[t] = "retained" /\ granted[t] = d
    /\ reading' = reading \cup {<<d, t>>}
    /\ UNCHANGED <<source, granted>>

EndAccess(d, t) ==
    /\ reading' = reading \ {<<d, t>>}
    /\ UNCHANGED <<source, granted>>

\* Retained blocks nobody reads are given back, several transfers at a time.
Free(done) ==
    /\ \A t \in done : source[t] = "retained"
    /\ \A d \in Readers, t \in done : <<d, t>> \notin reading
    /\ source' = [t \in Transfers |-> IF t \in done THEN "freed" ELSE source[t]]
    /\ UNCHANGED <<granted, reading>>

LeaseNext ==
    \/ \E t \in Transfers : Retain(t)
    \/ \E d \in Readers, t \in Transfers :
         Grant(d, t) \/ BeginAccess(d, t) \/ EndAccess(d, t)
    \/ \E done \in SUBSET Transfers : Free(done)

LeaseSpec == LeaseInit /\ [][LeaseNext]_leaseVars
=============================================================================
