--------------------------- MODULE MCUploadQueue ---------------------------
(* UploadQueue on small sets, for TLC. *)
EXTENDS UploadQueue, FiniteSets

\* Worker ids and upload ids are interchangeable in the safety properties.
Symmetry == Permutations(Worker) \cup Permutations(Upload)

\* The bound for two uploads: when both are accepted no delete is under way; one of the first
\* may have been.
QuietDeletes == (\A u \in Upload : enqueued[u] # "no") => \A u \in Upload : forgetting[u] = "no"

\* Bounds for what follows a lapse or a resend, where a job can be listed twice: a worker
\* that lost its job to a sweep and then releases it adds an entry each time.  There is one
\* of these faults, only one upload is accepted, no video is deleted, and no worker stops
\* or crashes: a lapse is what a crash looks like to the others.
FewEntries ==
    ~NoFalseSuspicion =>
        /\ faults.lapse + faults.resend = 1
        /\ \E u \in Upload : enqueued[u] = "no"
        /\ Len(queue) <= 2
        /\ \A w \in Worker : Len(processing[w]) <= 1 /\ life[w] \in {"new", "up"}
        /\ \A u \in Upload : forgetting[u] = "no"

\* The bound for the third worker, which is there for two that sweep the list of one that
\* crashed: by then one upload is accepted, nothing failed, nobody deletes it or stops.
ThirdSweeps ==
    \/ Cardinality({w \in Worker : life[w] # "new"}) <= 2
    \/ /\ NoFalseSuspicion /\ faults.redis = 0
       /\ \E u \in Upload : enqueued[u] = "no"
       /\ \A u \in Upload : forgetting[u] = "no"
       /\ \A w \in Worker : life[w] \in {"new", "up", "gone"}
       /\ \E w \in Worker : life[w] = "gone"

\* The bound for failing calls in the run of liveness: a delete is over before one, and none
\* begins after it.
FailuresApart == faults.redis > 0 => \A u \in Upload : forgetting[u] = "no"
=============================================================================
