----------------------------- MODULE JobLedger -----------------------------
(***************************************************************************)
(* What the upload queue promises about the job of an upload, without      *)
(* Redis: it is in one place at a time; once a worker has it in hand no    *)
(* other worker has it, or takes it away; it is started a bounded number   *)
(* of times; and it is over only when a worker that had it in hand says    *)
(* so, after which it never comes back.  UploadQueue implements it.        *)
(***************************************************************************)
EXTENDS Naturals

CONSTANTS Worker, Upload, None, MAX_ATTEMPTS

VARIABLES
    phase,   \* new, waiting, hand (of a worker), left (by a worker that had it), over
    owner,   \* the worker that has it in hand, or left it
    starts   \* how often its processing began

vars == <<phase, owner, starts>>

Init ==
    /\ phase = [u \in Upload |-> "new"]
    /\ owner = [u \in Upload |-> None]
    /\ starts = [u \in Upload |-> 0]

\* The job changes phase; w is the worker that has it then.
Pass(u, to, w) ==
    /\ phase' = [phase EXCEPT ![u] = to]
    /\ owner' = [owner EXCEPT ![u] = w]
    /\ UNCHANGED starts

\* enqueue accepts it, or fails.
Accept(u) == phase[u] = "new" /\ (Pass(u, "waiting", None) \/ Pass(u, "over", None))

\* claim by a worker, which may never learn of it.
Claim(u, w) == phase[u] = "waiting" /\ (Pass(u, "hand", w) \/ Pass(u, "left", w))

Start(u) ==
    /\ phase[u] = "hand"
    /\ starts[u] < MAX_ATTEMPTS
    /\ starts' = [starts EXCEPT ![u] = @ + 1]
    /\ UNCHANGED <<phase, owner>>

\* Its worker gives it back, or is through with it, or ends or fails to do either.
Yield(u) ==
    /\ phase[u] = "hand"
    /\ Pass(u, "waiting", None) \/ Pass(u, "over", None) \/ Pass(u, "left", owner[u])

\* requeue_abandoned.
Reclaim(u) == phase[u] = "left" /\ Pass(u, "waiting", None)

Next ==
    \E u \in Upload :
        \/ Accept(u) \/ Start(u) \/ Yield(u) \/ Reclaim(u)
        \/ \E w \in Worker : Claim(u, w)

Spec == Init /\ [][Next]_vars
=============================================================================
