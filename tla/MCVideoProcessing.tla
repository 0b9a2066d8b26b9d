------------------------- MODULE MCVideoProcessing -------------------------
(* VideoProcessing on small sets, for TLC. *)
EXTENDS VideoProcessing, FiniteSets, TLC

Symmetry == Permutations(Worker)

NoPurge == \A v \in Upload : adm[v] = "no"
AllStayUp == \A w \in Worker : life[w] \in {"new", "up"}
NoStops == \A w \in Worker : life[w] \in {"new", "up", "gone"}
SingleWorker == AllStayUp /\ \E w \in Worker : life[w] = "new"

\* At most one worker is alive; the other was not started yet, or ended.
OneAlive ==
    \A w, x \in Worker : {life[w], life[x]} \subseteq {"up", "stopping"} => w = x

\* The bounds for liveness.  A delete is under way while one worker stays up, and afterwards
\* workers that crash follow each other.
DeletesApart ==
    \/ NoPurge
    \/ SingleWorker
    \/ OneAlive /\ NoStops /\ \A v \in Upload : adm[v] \in {"no", "done"}

\* The bounds for resends, which are about what happens between live workers on a first
\* attempt that can succeed: nobody deletes the video, and no worker stops or crashes.
FewEntries ==
    /\ NoPurge
    /\ AllStayUp
    /\ Len(queue) <= Cardinality(Upload) + 1
    /\ \A w \in Worker : Len(processing[w]) <= Cardinality(Upload) /\ verdict[w] # "failed"
    /\ \A v \in Upload : jobs[v].attempts <= 1

\* The bounds for faults, of which there is one at most, and for deletes.  Under a delete
\* workers stop, crash and follow each other: a second live one has nothing of the video in
\* hand.  A failing Redis call may meet an upload and its job while workers follow each other,
\* or the last part of a permanent delete while one stays up.
FaultsApart ==
    /\ faults.redis + faults.resend <= 1
    /\ NoPurge \/ OneAlive
    /\ faults.redis > 0 =>
        /\ OneAlive
        /\ NoPurge \/ SingleWorker
        /\ \A v \in Upload : adm[v] \in {"no", "commit", "aborted", "done"}
    /\ faults.resend > 0 => FewEntries
=============================================================================
