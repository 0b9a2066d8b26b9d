---------------------------- MODULE UploadQueue ----------------------------
(***************************************************************************)
(* The upload queue of the catalog service: the Redis structures of        *)
(* catalog_service/jobs.py and the two threads of every UploadWorker of     *)
(* catalog_service/processing.py that use them.                            *)
(*                                                                         *)
(* One action is one Redis command (or one MULTI/EXEC pipeline), because   *)
(* that is what Redis makes atomic.  A worker is one start of a catalog    *)
(* process: a container that restarts draws a fresh worker_id, so a        *)
(* crashed worker never comes back and another member of Worker starts.    *)
(* A video has exactly one upload, so Upload names both.                   *)
(***************************************************************************)
EXTENDS Naturals, Sequences, SequencesExt

CONSTANTS
    Worker,          \* worker ids, one per start of a catalog process
    Upload,          \* upload ids, one per video
    None,            \* no upload, no worker
    MAX_ATTEMPTS,    \* as in jobs.py
    MaxLapses,       \* bound: heartbeats that expire under a live worker
    MaxRedisFaults,  \* bound: Redis calls that raise RedisError
    MaxResends       \* bound: commands the Redis client sends twice

ASSUME NoneAssumption == None \notin Worker \cup Upload
ASSUME AttemptsAssumption == MAX_ATTEMPTS \in Nat \ {0}
ASSUME BoundsAssumption == {MaxLapses, MaxRedisFaults, MaxResends} \subseteq Nat

VARIABLES
    (* Redis *)
    queue,       \* QUEUE_KEY, left end first
    processing,  \* PROCESSING_KEY of every worker, left end first
    heartbeat,   \* the workers whose WORKER_KEY exists
    jobs,        \* STATUS_KEY of every upload
    indexed,     \* the uploads whose VIDEO_KEY exists
    (* the threads of a worker *)
    life,        \* of the process: new, up, stopping, retired, gone
    pc,          \* where the upload-worker thread is
    held,        \* the upload it has claimed
    copy,        \* its local job dict
    goal,        \* the status handle_job sets next
    watch,       \* where the upload-heartbeat thread is
    target,      \* the worker whose list it is emptying
    (* calls of the HTTP handlers *)
    enqueued,    \* enqueue of an upload: no, sent (the client will send it again), done
    forgetting,  \* forget_video: no, or what the GET of VIDEO_KEY found
    (* history and budgets *)
    taken,       \* uploads some claim has ever moved off the queue
    begun,       \* how often the processing of an upload began (saturates)
    faults       \* faults spent

redis  == <<queue, processing, heartbeat, jobs, indexed, taken>>
locals == <<held, copy, goal>>
thread == <<pc, held, copy, goal, begun>>
watcher == <<watch, target>>
calls  == <<enqueued, forgetting>>
vars == <<queue, processing, heartbeat, jobs, indexed, life, pc, held, copy, goal,
          watch, target, enqueued, forgetting, taken, begun, faults>>

Statuses == {"pending", "processing", "completed", "failed"}
Finished == {"completed", "failed"}
NoJob == [status |-> "none", attempts |-> 0]

\* Attempts and begun saturate one past MAX_ATTEMPTS: all larger counts behave alike.
Bump(n) == IF n > MAX_ATTEMPTS THEN n ELSE n + 1
Counts == 0 .. (MAX_ATTEMPTS + 1)
Job == [status : Statuses, attempts : Counts]

Alive(w) == life[w] \in {"up", "stopping", "retired"}
InQueue(u) == Contains(queue, u)
InList(w, u) == Contains(processing[w], u)
Tracked(u) == InQueue(u) \/ \E w \in Worker : InList(w, u)

Init ==
    /\ queue = <<>>
    /\ processing = [w \in Worker |-> <<>>]
    /\ heartbeat = {}
    /\ jobs = [u \in Upload |-> NoJob]
    /\ indexed = {}
    /\ life = [w \in Worker |-> "new"]
    /\ pc = [w \in Worker |-> "off"]
    /\ held = [w \in Worker |-> None]
    /\ copy = [w \in Worker |-> NoJob]
    /\ goal = [w \in Worker |-> "none"]
    /\ watch = [w \in Worker |-> "off"]
    /\ target = [w \in Worker |-> None]
    /\ enqueued = [u \in Upload |-> "no"]
    /\ forgetting = [u \in Upload |-> "no"]
    /\ taken = {}
    /\ begun = [u \in Upload |-> 0]
    /\ faults = [lapse |-> 0, redis |-> 0, resend |-> 0]

-----------------------------------------------------------------------------
(* What each command does to Redis. *)

SetHeartbeat(w) ==
    /\ heartbeat' = heartbeat \cup {w}
    /\ UNCHANGED <<queue, processing, jobs, indexed, taken>>

\* Mutant: BLPOP, and the processing list left alone.
MoveToOwnPop(w) ==
    /\ queue # <<>>
    /\ queue' = Tail(queue)
    /\ taken' = taken \cup {Head(queue)}
    /\ UNCHANGED <<processing, heartbeat, jobs, indexed>>

\* BLMOVE QUEUE_KEY PROCESSING_KEY LEFT RIGHT, with something to move.
MoveToOwn(w) ==
    /\ queue # <<>>
    /\ queue' = Tail(queue)
    /\ processing' = [processing EXCEPT ![w] = Append(@, Head(queue))]
    /\ taken' = taken \cup {Head(queue)}
    /\ UNCHANGED <<heartbeat, jobs, indexed>>

\* _save: both keys in one pipeline.
SetJob(u, job) ==
    /\ jobs' = [jobs EXCEPT ![u] = job]
    /\ indexed' = indexed \cup {u}
    /\ UNCHANGED <<queue, processing, heartbeat, taken>>

\* LREM PROCESSING_KEY 1.
RemoveOwn(w, u) ==
    /\ processing' = [processing EXCEPT ![w] = RemoveFirst(@, u)]
    /\ UNCHANGED <<queue, heartbeat, jobs, indexed, taken>>

\* Mutant: the job is pushed to the wrong end.
GiveBackLast(w, u) ==
    /\ processing' = [processing EXCEPT ![w] = RemoveFirst(@, u)]
    /\ queue' = Append(queue, u)
    /\ UNCHANGED <<heartbeat, jobs, indexed, taken>>

\* LREM and LPUSH in one pipeline: LPUSH happens whatever LREM found.
GiveBack(w, u) ==
    /\ processing' = [processing EXCEPT ![w] = RemoveFirst(@, u)]
    /\ queue' = Cons(u, queue)
    /\ UNCHANGED <<heartbeat, jobs, indexed, taken>>

\* Mutant: RPOP, and the job not pushed.
MoveBackPop(d) ==
    /\ processing[d] # <<>>
    /\ processing' = [processing EXCEPT ![d] = Front(@)]
    /\ UNCHANGED <<queue, heartbeat, jobs, indexed, taken>>

\* LMOVE PROCESSING_KEY QUEUE_KEY RIGHT LEFT, with something to move.
MoveBack(d) ==
    /\ processing[d] # <<>>
    /\ queue' = Cons(Last(processing[d]), queue)
    /\ processing' = [processing EXCEPT ![d] = Front(@)]
    /\ UNCHANGED <<heartbeat, jobs, indexed, taken>>

\* enqueue: status, index and job in one pipeline.
PushNew(u) ==
    /\ jobs' = [jobs EXCEPT ![u] = [status |-> "pending", attempts |-> 0]]
    /\ indexed' = indexed \cup {u}
    /\ queue' = Append(queue, u)
    /\ UNCHANGED <<processing, heartbeat, taken>>

\* The DEL of forget_video, of VIDEO_KEY and of STATUS_KEY when its id was found.
DropStatus(u) ==
    /\ indexed' = indexed \ {u}
    /\ jobs' = IF forgetting[u] = "found" THEN [jobs EXCEPT ![u] = NoJob] ELSE jobs
    /\ UNCHANGED <<queue, processing, heartbeat, taken>>

-----------------------------------------------------------------------------
(* The upload-worker thread: _work, claim, _run and the calls of handle_job. *)

Goto(w, l) == pc' = [pc EXCEPT ![w] = l]

\* Back to the top of the loop (or out of it), the job dict dropped.
Leave(w, l) ==
    /\ Goto(w, l)
    /\ held' = [held EXCEPT ![w] = None]
    /\ copy' = [copy EXCEPT ![w] = NoJob]
    /\ goal' = [goal EXCEPT ![w] = "none"]
    /\ UNCHANGED begun

\* Mutant: the main loop does not refresh its heartbeat before claim.
LoopTopSilent(w) ==
    /\ pc[w] = "top"
    /\ Goto(w, IF life[w] = "up" THEN "claim" ELSE "exited")
    /\ UNCHANGED <<redis, locals, begun, life, watcher, calls, faults>>

LoopTop(w) ==
    /\ pc[w] = "top"
    /\ Goto(w, IF life[w] = "up" THEN "beat" ELSE "exited")
    /\ UNCHANGED <<redis, locals, begun, life, watcher, calls, faults>>

Heartbeat(w) ==
    /\ pc[w] = "beat"
    /\ SetHeartbeat(w)
    /\ Goto(w, "claim")
    /\ UNCHANGED <<locals, begun, life, watcher, calls, faults>>

Claim(w) ==
    /\ pc[w] = "claim"
    /\ MoveToOwn(w)
    /\ Goto(w, "load")
    /\ held' = [held EXCEPT ![w] = Head(queue)]
    /\ UNCHANGED <<copy, goal, begun, life, watcher, calls, faults>>

ClaimTimeout(w) ==
    /\ pc[w] = "claim"
    /\ queue = <<>>
    /\ Goto(w, "top")
    /\ UNCHANGED <<redis, locals, begun, life, watcher, calls, faults>>

\* Mutant: claim without its test for a missing status.
LoadUnguarded(w) ==
    /\ pc[w] = "load"
    /\ Goto(w, "count")
    /\ copy' = [copy EXCEPT ![w] = [jobs[held[w]] EXCEPT !.attempts = Bump(@)]]
    /\ UNCHANGED <<redis, held, goal, begun, life, watcher, calls, faults>>

Load(w) ==
    /\ pc[w] = "load"
    /\ jobs[held[w]] # NoJob
    /\ Goto(w, "count")
    /\ copy' = [copy EXCEPT ![w] = [jobs[held[w]] EXCEPT !.attempts = Bump(@)]]
    /\ UNCHANGED <<redis, held, goal, begun, life, watcher, calls, faults>>

LoadMissing(w) ==
    /\ pc[w] = "load"
    /\ jobs[held[w]] = NoJob
    /\ Goto(w, "drop")
    /\ UNCHANGED <<redis, locals, begun, life, watcher, calls, faults>>

\* The ack inside claim.
Drop(w) ==
    /\ pc[w] = "drop"
    /\ RemoveOwn(w, held[w])
    /\ Leave(w, "top")
    /\ UNCHANGED <<life, watcher, calls, faults>>

\* Mutant: one attempt too many.
CountOffByOne(w) ==
    /\ pc[w] = "count"
    /\ SetJob(held[w], copy[w])
    /\ IF copy[w].attempts > MAX_ATTEMPTS + 1
       THEN /\ Goto(w, "handle")
            /\ goal' = [goal EXCEPT ![w] = "failed"]
            /\ UNCHANGED begun
       ELSE /\ Goto(w, "tell")
            /\ goal' = [goal EXCEPT ![w] = "processing"]
            /\ begun' = [begun EXCEPT ![held[w]] = Bump(@)]
    /\ UNCHANGED <<held, copy, life, watcher, calls, faults>>

\* claim saves the new count and returns; handle_job chooses its branch by it.
Count(w) ==
    /\ pc[w] = "count"
    /\ SetJob(held[w], copy[w])
    /\ IF copy[w].attempts > MAX_ATTEMPTS
       THEN /\ Goto(w, "handle")
            /\ goal' = [goal EXCEPT ![w] = "failed"]
            /\ UNCHANGED begun
       ELSE /\ Goto(w, "tell")
            /\ goal' = [goal EXCEPT ![w] = "processing"]
            /\ begun' = [begun EXCEPT ![held[w]] = Bump(@)]
    /\ UNCHANGED <<held, copy, life, watcher, calls, faults>>

\* Where handle_job goes on after a set_status.
AfterTell(w) == IF goal[w] = "processing" THEN "handle" ELSE "ack"

\* set_status: the get, then (Save) the _save of the dict it read.
Tell(w) ==
    /\ pc[w] = "tell"
    /\ IF jobs[held[w]] = NoJob
       THEN Goto(w, AfterTell(w)) /\ UNCHANGED copy
       ELSE /\ Goto(w, "save")
            /\ copy' = [copy EXCEPT ![w] = [jobs[held[w]] EXCEPT !.status = goal[w]]]
    /\ UNCHANGED <<redis, held, goal, begun, life, watcher, calls, faults>>

\* Mutant: set_status writes a fresh dict instead of the one it read.
SaveFresh(w) ==
    /\ pc[w] = "save"
    /\ SetJob(held[w], [status |-> goal[w], attempts |-> 0])
    /\ Goto(w, AfterTell(w))
    /\ UNCHANGED <<locals, begun, life, watcher, calls, faults>>

Save(w) ==
    /\ pc[w] = "save"
    /\ SetJob(held[w], copy[w])
    /\ Goto(w, AfterTell(w))
    /\ UNCHANGED <<locals, begun, life, watcher, calls, faults>>

\* The part of handle_job that uses the database and the storage reaches a verdict.
Conclude(w, s) ==
    /\ pc[w] = "handle"
    /\ s \in IF goal[w] = "failed" THEN {"failed"} ELSE Finished
    /\ Goto(w, "tell")
    /\ goal' = [goal EXCEPT ![w] = s]
    /\ UNCHANGED <<redis, held, copy, begun, life, watcher, calls, faults>>

\* The row was gone: handle_job removes the files and returns without a status.
ConcludeGone(w) ==
    /\ pc[w] = "handle"
    /\ goal[w] = "processing"
    /\ Goto(w, "ack")
    /\ UNCHANGED <<redis, locals, begun, life, watcher, calls, faults>>

\* The database or the storage raised, and _run gives the job back.
Raise(w) ==
    /\ pc[w] = "handle"
    /\ Goto(w, "release")
    /\ UNCHANGED <<redis, locals, begun, life, watcher, calls, faults>>

Ack(w) ==
    /\ pc[w] = "ack"
    /\ RemoveOwn(w, held[w])
    /\ Leave(w, "top")
    /\ UNCHANGED <<life, watcher, calls, faults>>

\* Mutant: a job that raised is acknowledged.
ReleaseAcks(w) ==
    /\ pc[w] = "release"
    /\ RemoveOwn(w, held[w])
    /\ Leave(w, "top")
    /\ UNCHANGED <<life, watcher, calls, faults>>

Release(w) ==
    /\ pc[w] = "release"
    /\ GiveBack(w, held[w])
    /\ Leave(w, "top")
    /\ UNCHANGED <<life, watcher, calls, faults>>

-----------------------------------------------------------------------------
(* The upload-heartbeat thread: _watch and requeue_abandoned. *)

WatchTop(w) ==
    /\ watch[w] = "top"
    /\ watch' = [watch EXCEPT ![w] = IF life[w] = "up" THEN "beat" ELSE "exited"]
    /\ UNCHANGED <<redis, thread, life, target, calls, faults>>

WatchBeat(w) ==
    /\ watch[w] = "beat"
    /\ SetHeartbeat(w)
    /\ watch' = [watch EXCEPT ![w] = "scan"]
    /\ UNCHANGED <<thread, life, target, calls, faults>>

\* Mutant: requeue_abandoned does not look for the heartbeat.
SweepBeginBlind(w, d) ==
    /\ watch[w] = "scan"
    /\ processing[d] # <<>>
    /\ watch' = [watch EXCEPT ![w] = "sweep"]
    /\ target' = [target EXCEPT ![w] = d]
    /\ UNCHANGED <<redis, thread, life, calls, faults>>

\* SCAN returned the list of d and EXISTS found no heartbeat for it.
SweepBegin(w, d) ==
    /\ watch[w] = "scan"
    /\ processing[d] # <<>>
    /\ d \notin heartbeat
    /\ watch' = [watch EXCEPT ![w] = "sweep"]
    /\ target' = [target EXCEPT ![w] = d]
    /\ UNCHANGED <<redis, thread, life, calls, faults>>

SweepMove(w) ==
    /\ watch[w] = "sweep"
    /\ MoveBack(target[w])
    /\ UNCHANGED <<thread, life, watcher, calls, faults>>

SweepEnd(w) ==
    /\ watch[w] = "sweep"
    /\ processing[target[w]] = <<>>
    /\ watch' = [watch EXCEPT ![w] = "scan"]
    /\ target' = [target EXCEPT ![w] = None]
    /\ UNCHANGED <<redis, thread, life, calls, faults>>

ScanEnd(w) ==
    /\ watch[w] = "scan"
    /\ watch' = [watch EXCEPT ![w] = "top"]
    /\ UNCHANGED <<redis, thread, life, target, calls, faults>>

-----------------------------------------------------------------------------
(* The process: start, stop, crash, and the expiry of its heartbeat. *)

Start(w) ==
    /\ life[w] = "new"
    /\ life' = [life EXCEPT ![w] = "up"]
    /\ pc' = [pc EXCEPT ![w] = "top"]
    /\ watch' = [watch EXCEPT ![w] = "top"]
    /\ UNCHANGED <<redis, locals, begun, target, calls, faults>>

\* Bound: the last worker id is not spent, as a container that ends is started again.
Replaceable(w) == \E x \in Worker \ {w} : life[x] \in {"new", "up"}

Stop(w) ==
    /\ life[w] = "up"
    /\ Replaceable(w)
    /\ life' = [life EXCEPT ![w] = "stopping"]
    /\ UNCHANGED <<redis, thread, watcher, calls, faults>>

\* stop after its joins: retire deletes the heartbeat, unless Redis does not answer.
Retire(w) ==
    /\ life[w] = "stopping"
    /\ life' = [life EXCEPT ![w] = "retired"]
    /\ \/ pc[w] = "exited" /\ watch[w] = "exited" /\ UNCHANGED faults
       \/ \* a join timed out: the thread is still busy
          /\ faults.lapse < MaxLapses
          /\ faults' = [faults EXCEPT !.lapse = @ + 1]
    /\ heartbeat' = heartbeat \ {w}
    /\ UNCHANGED <<queue, processing, jobs, indexed, taken, thread, watcher, calls>>

RetireFails(w) ==
    /\ life[w] = "stopping"
    /\ pc[w] = "exited" /\ watch[w] = "exited"
    /\ faults.redis < MaxRedisFaults
    /\ faults' = [faults EXCEPT !.redis = @ + 1]
    /\ life' = [life EXCEPT ![w] = "retired"]
    /\ UNCHANGED <<redis, thread, watcher, calls>>

\* The process ends, after stop or because it is killed; its threads end with it.
End(w) ==
    /\ life' = [life EXCEPT ![w] = "gone"]
    /\ Leave(w, "off")
    /\ watch' = [watch EXCEPT ![w] = "off"]
    /\ target' = [target EXCEPT ![w] = None]
    /\ UNCHANGED <<redis, calls, faults>>

Exit(w) == life[w] = "retired" /\ End(w)

Crash(w) == life[w] \in {"up", "stopping"} /\ Replaceable(w) /\ End(w)

\* HEARTBEAT_TTL_SECONDS after the last heartbeat of a process that is no more.
Expire(w) ==
    /\ life[w] \in {"retired", "gone"}
    /\ w \in heartbeat
    /\ heartbeat' = heartbeat \ {w}
    /\ UNCHANGED <<queue, processing, jobs, indexed, taken, life, thread, watcher, calls, faults>>

\* The same under a live worker that did not reach Redis in time.
Lapse(w) ==
    /\ life[w] \in {"up", "stopping"}
    /\ w \in heartbeat
    /\ faults.lapse < MaxLapses
    /\ faults' = [faults EXCEPT !.lapse = @ + 1]
    /\ heartbeat' = heartbeat \ {w}
    /\ UNCHANGED <<queue, processing, jobs, indexed, taken, life, thread, watcher, calls>>

-----------------------------------------------------------------------------
(* A Redis call that raises RedisError, its effect done or not, and one    *)
(* that redis-py sends again after a lost reply.                           *)

Command(w) ==
    \/ pc[w] = "beat" /\ SetHeartbeat(w)
    \/ pc[w] = "claim" /\ MoveToOwn(w)
    \/ pc[w] \in {"count", "save"} /\ SetJob(held[w], copy[w])
    \/ pc[w] \in {"drop", "ack"} /\ RemoveOwn(w, held[w])
    \/ pc[w] = "release" /\ GiveBack(w, held[w])

\* Mutant: the RedisError ends the thread.
CallFailsForGood(w) ==
    /\ pc[w] \in {"beat", "claim", "load", "drop", "count", "tell", "save", "ack", "release"}
    /\ faults.redis < MaxRedisFaults
    /\ faults' = [faults EXCEPT !.redis = @ + 1]
    /\ Command(w) \/ UNCHANGED redis
    /\ Leave(w, "exited")
    /\ UNCHANGED <<life, watcher, calls>>

\* In claim and in ack or release the loop goes on; in handle_job the job is given back.
CallFails(w) ==
    /\ pc[w] \in {"beat", "claim", "load", "drop", "count", "tell", "save", "ack", "release"}
    /\ faults.redis < MaxRedisFaults
    /\ faults' = [faults EXCEPT !.redis = @ + 1]
    /\ Command(w) \/ UNCHANGED redis
    /\ IF pc[w] \in {"tell", "save"}
       THEN Goto(w, "release") /\ UNCHANGED <<locals, begun>>
       ELSE Leave(w, "top")
    /\ UNCHANGED <<life, watcher, calls>>

Resend(w) ==
    /\ faults.resend < MaxResends
    /\ faults' = [faults EXCEPT !.resend = @ + 1]
    /\ Command(w)
    /\ UNCHANGED <<thread, life, watcher, calls>>

\* requeue_abandoned raises: the round ends.
WatchFails(w) ==
    /\ watch[w] \in {"beat", "scan", "sweep"}
    /\ faults.redis < MaxRedisFaults
    /\ faults' = [faults EXCEPT !.redis = @ + 1]
    /\ \/ watch[w] = "beat" /\ SetHeartbeat(w)
       \/ watch[w] = "sweep" /\ MoveBack(target[w])
       \/ UNCHANGED redis
    /\ watch' = [watch EXCEPT ![w] = "top"]
    /\ target' = [target EXCEPT ![w] = None]
    /\ UNCHANGED <<thread, life, calls>>

-----------------------------------------------------------------------------
(* The calls of the HTTP handlers, and the expiry of a finished status. *)

\* Mutant: an upload that is in no list is enqueued, whether it was before or not.
EnqueueAgain(u) ==
    /\ ~Tracked(u)
    /\ enqueued' = [enqueued EXCEPT ![u] = "done"]
    /\ PushNew(u)
    /\ UNCHANGED <<life, thread, watcher, forgetting, faults>>

Enqueue(u) ==
    /\ enqueued[u] \in {"no", "sent"}
    /\ enqueued' = [enqueued EXCEPT ![u] = "done"]
    /\ PushNew(u)
    /\ UNCHANGED <<life, thread, watcher, forgetting, faults>>

EnqueueFails(u) ==
    /\ enqueued[u] \in {"no", "sent"}
    /\ faults.redis < MaxRedisFaults
    /\ faults' = [faults EXCEPT !.redis = @ + 1]
    /\ enqueued' = [enqueued EXCEPT ![u] = "done"]
    /\ PushNew(u) \/ UNCHANGED redis
    /\ UNCHANGED <<life, thread, watcher, forgetting>>

EnqueueResend(u) ==
    /\ enqueued[u] = "no"
    /\ faults.resend < MaxResends
    /\ faults' = [faults EXCEPT !.resend = @ + 1]
    /\ enqueued' = [enqueued EXCEPT ![u] = "sent"]
    /\ PushNew(u)
    /\ UNCHANGED <<life, thread, watcher, forgetting>>

ForgetRead(u) ==
    /\ forgetting[u] = "no"
    /\ forgetting' = [forgetting EXCEPT ![u] = IF u \in indexed THEN "found" ELSE "missing"]
    /\ UNCHANGED <<redis, life, thread, watcher, enqueued, faults>>

ForgetDelete(u) ==
    /\ forgetting[u] # "no"
    /\ DropStatus(u)
    /\ forgetting' = [forgetting EXCEPT ![u] = "no"]
    /\ UNCHANGED <<life, thread, watcher, enqueued, faults>>

\* delete_video catches the RedisError and goes on.
ForgetFails(u) ==
    /\ faults.redis < MaxRedisFaults
    /\ faults' = [faults EXCEPT !.redis = @ + 1]
    /\ (forgetting[u] # "no" /\ DropStatus(u)) \/ UNCHANGED redis
    /\ forgetting' = [forgetting EXCEPT ![u] = "no"]
    /\ UNCHANGED <<life, thread, watcher, enqueued>>

\* The process dies, or its request fails, between the two commands.
ForgetAbandoned(u) ==
    /\ forgetting[u] # "no"
    /\ forgetting' = [forgetting EXCEPT ![u] = "no"]
    /\ UNCHANGED <<redis, life, thread, watcher, enqueued, faults>>

\* FINISHED_TTL_SECONDS after the last _save; both keys were set with the same ttl.  That
\* hour is not over between the _save of a claim and the set_status that follows it.
ExpireStatus(u) ==
    /\ jobs[u].status \in Finished
    /\ ~\E w \in Worker : held[w] = u /\ pc[w] \in {"tell", "save"}
    /\ jobs' = [jobs EXCEPT ![u] = NoJob]
    /\ indexed' = indexed \ {u}
    /\ UNCHANGED <<queue, processing, heartbeat, taken, life, thread, watcher, calls, faults>>

-----------------------------------------------------------------------------
WorkStep(w) ==
    \/ LoopTop(w) \/ Heartbeat(w) \/ Claim(w) \/ ClaimTimeout(w)
    \/ Load(w) \/ LoadMissing(w) \/ Drop(w) \/ Count(w) \/ Tell(w) \/ Save(w)
    \/ (\E s \in Finished : Conclude(w, s)) \/ ConcludeGone(w) \/ Raise(w)
    \/ Ack(w) \/ Release(w)

WatchStep(w) ==
    \/ WatchTop(w) \/ WatchBeat(w)
    \/ (\E d \in Worker : SweepBegin(w, d)) \/ SweepMove(w) \/ SweepEnd(w) \/ ScanEnd(w)

LifeStep(w) ==
    \/ Start(w) \/ Stop(w) \/ Retire(w) \/ RetireFails(w) \/ Exit(w) \/ Crash(w)
    \/ Expire(w) \/ Lapse(w)

FaultStep(w) == CallFails(w) \/ Resend(w) \/ WatchFails(w)

CallStep(u) ==
    \/ Enqueue(u) \/ EnqueueFails(u) \/ EnqueueResend(u)
    \/ ForgetRead(u) \/ ForgetDelete(u) \/ ForgetFails(u)
    \/ ForgetAbandoned(u) \/ ExpireStatus(u)

Next ==
    \/ \E w \in Worker : WorkStep(w) \/ WatchStep(w) \/ LifeStep(w) \/ FaultStep(w)
    \/ \E u \in Upload : CallStep(u)

Spec == Init /\ [][Next]_vars

\* The threads of a live process run, a container that ends is replaced, a stopping
\* process retires and exits, keys expire, and SCAN returns every list that stays.  An
\* outage of the database or the storage ends, and with it the raising.
Fairness ==
    /\ \A w \in Worker :
        /\ WF_vars(WorkStep(w))
        /\ WF_vars(WatchStep(w))
        /\ WF_vars(Start(w) \/ Retire(w) \/ Exit(w))
        /\ WF_vars(Expire(w))
        /\ \A d \in Worker \ {w} : SF_vars(SweepBegin(w, d))
    /\ <>[][\A w \in Worker : ~Raise(w)]_vars

FairSpec == Spec /\ Fairness

-----------------------------------------------------------------------------
(* Properties. *)

Handling(w) == pc[w] \in {"load", "drop", "count", "tell", "save", "handle", "ack", "release"}

RedisOK ==
    /\ queue \in Seq(Upload)
    /\ processing \in [Worker -> Seq(Upload)]
    /\ heartbeat \subseteq Worker
    /\ jobs \in [Upload -> Job \cup {NoJob}]
    /\ indexed \subseteq Upload
    /\ taken \subseteq Upload

ThreadOK ==
    /\ pc \in [Worker -> {"off", "top", "beat", "claim", "load", "drop", "count", "tell",
                          "save", "handle", "ack", "release", "exited"}]
    /\ held \in [Worker -> Upload \cup {None}]
    /\ copy \in [Worker -> Job \cup {NoJob}]
    /\ goal \in [Worker -> {"none", "processing", "completed", "failed"}]
    /\ begun \in [Upload -> Counts]
    /\ \A w \in Worker :
        /\ Handling(w) => held[w] \in Upload
        /\ pc[w] \in {"count", "save"} => copy[w] \in Job
        /\ pc[w] \in {"tell", "save", "handle"} => goal[w] # "none"

WatchOK ==
    /\ watch \in [Worker -> {"off", "top", "beat", "scan", "sweep", "exited"}]
    /\ target \in [Worker -> Worker \cup {None}]
    /\ \A w \in Worker : watch[w] = "sweep" => target[w] \in Worker

RestOK ==
    /\ life \in [Worker -> {"new", "up", "stopping", "retired", "gone"}]
    /\ enqueued \in [Upload -> {"no", "sent", "done"}]
    /\ forgetting \in [Upload -> {"no", "found", "missing"}]
    /\ faults \in [lapse : 0 .. MaxLapses, redis : 0 .. MaxRedisFaults,
                   resend : 0 .. MaxResends]

\* Types of every variable: the Redis keys, the locals of the threads, the calls.
TypeOK == RedisOK /\ ThreadOK /\ WatchOK /\ RestOK

\* Until a heartbeat lapses under a live worker or a command is sent twice.
NoFalseSuspicion == faults.lapse = 0 /\ faults.resend = 0

\* Two workers never have the same job in hand: the heartbeat thread is there so that
\* no "other instance would decide this one had died and process the same video again"
\* (UploadWorker), and LMOVE so that a job is not requeued twice (requeue_abandoned).
ExclusiveProcessing ==
    NoFalseSuspicion =>
        \A w, x \in Worker : w # x /\ Handling(w) /\ Handling(x) => held[w] # held[x]

\* A job is started at most MAX_ATTEMPTS times, whatever crashes, failed calls, releases
\* and requeues happen in between: "a video that crashes the worker can't take it down
\* over and over" (jobs.py).
BoundedProcessing == NoFalseSuspicion => \A u \in Upload : begun[u] <= MAX_ATTEMPTS

(* Why the two hold. *)

\* An upload is in one list only, and once.
ListedOnce ==
    /\ IsInjective(queue)
    /\ \A w \in Worker : IsInjective(processing[w])
    /\ \A u \in Upload, w \in Worker : ~(InQueue(u) /\ InList(w, u))
    /\ \A u \in Upload, w, x \in Worker : InList(w, u) /\ InList(x, u) => w = x

\* What was not enqueued yet left no trace.
NewIsUnknown ==
    \A u \in Upload :
        /\ enqueued[u] # "sent"
        /\ enqueued[u] = "no" => ~Tracked(u) /\ jobs[u] = NoJob /\ begun[u] = 0

HeldIsListed == \A w \in Worker : Handling(w) => InList(w, held[w])

\* A live worker that has or is about to have a job has a heartbeat.
OwnersBeat ==
    \A w \in Worker :
        /\ life[w] \in {"up", "stopping"} /\ (pc[w] = "claim" \/ \E u \in Upload : InList(w, u))
               => w \in heartbeat
        /\ life[w] = "new" => pc[w] = "off" /\ \A u \in Upload : ~InList(w, u)
        /\ life[w] = "retired" => pc[w] = "exited"
        /\ life[w] = "gone" => pc[w] = "off"

\* Only the list of a process that is no more is emptied.
SweepsDead ==
    \A w \in Worker : watch[w] = "sweep" => life[target[w]] \in {"retired", "gone"}

\* The count of starts is behind the attempts of the job and of its copies.
StartsAreCounted ==
    /\ \A u \in Upload : /\ begun[u] <= MAX_ATTEMPTS
                         /\ jobs[u] # NoJob => begun[u] <= jobs[u].attempts
    /\ \A w \in Worker :
        /\ pc[w] = "count" => begun[held[w]] < copy[w].attempts
        /\ pc[w] = "save" => begun[held[w]] <= copy[w].attempts
        /\ pc[w] \in {"count", "save"} /\ jobs[held[w]] # NoJob
               => jobs[held[w]].attempts <= copy[w].attempts

\* The inductive invariant of UploadQueueProofs, of which ExclusiveProcessing and
\* BoundedProcessing are consequences.
Ownership == ListedOnce /\ NewIsUnknown /\ HeldIsListed /\ OwnersBeat /\ SweepsDead
QueueInv == NoFalseSuspicion => Ownership /\ StartsAreCounted

\* Jobs that were claimed before and came back, by release or by requeue_abandoned, are
\* all ahead of the jobs nobody has claimed yet, lapses or not.  (A resent RPUSH puts a
\* second entry at the end.)
ReturnedJobsFirst ==
    faults.resend = 0 =>
      \A i, j \in 1 .. Len(queue) : i < j /\ queue[j] \in taken => queue[i] \in taken

\* A job leaves the lists only when the worker that claimed it has finished with it, or
\* found that its status was deleted; no crash, failed call or requeue loses one.
NoJobLost ==
    [][NoFalseSuspicion' =>
          \A u \in Upload :
              Tracked(u) /\ ~Tracked(u)' =>
                  \E w \in Worker : /\ held[w] = u
                                    /\ \/ pc[w] = "ack"
                                       \/ pc[w] = "drop" /\ jobs[u] = NoJob]_vars

\* The same without the reason, for when a live worker may be taken for dead: even then
\* only the ack of a worker that holds the job takes it off the lists.
JobsLeaveByAck ==
    [][\A u \in Upload :
          Tracked(u) /\ ~Tracked(u)' =>
              \E w \in Worker : held[w] = u /\ pc[w] \in {"ack", "drop"}]_vars

\* The attempts of a job never go down while its status exists: set_status and claim
\* write back a dict they read earlier, and must not undo a count.
AttemptsNeverUndone ==
    [][NoFalseSuspicion' =>
          \A u \in Upload : jobs[u] # NoJob /\ jobs'[u] # NoJob
                                => jobs'[u].attempts >= jobs[u].attempts]_vars

\* Every job that was accepted leaves the lists in the end: whichever workers stop or
\* crash, someone claims it, finishes it and acknowledges it.  The one exception is a job
\* that a failed Redis call left in the list of a worker that lives on and no longer works
\* on it, which waits "so it's requeued once we're gone" (_run).
Stranded(u) ==
    /\ faults.redis > 0
    /\ \E w \in Worker : life[w] = "up" /\ InList(w, u) /\ held[w] # u
JobsSettleOrStrand == \A u \in Upload : Tracked(u) ~> (~Tracked(u) \/ Stranded(u))

-----------------------------------------------------------------------------
(* The ledger the queue keeps, when no heartbeat lapses under a live worker and no        *)
(* command is sent twice.                                                                 *)

InHand(w, u) == InList(w, u) /\ Handling(w) /\ held[w] = u

Phase(u) ==
    IF enqueued[u] = "no" THEN "new"
    ELSE IF InQueue(u) THEN "waiting"
    ELSE IF ~Tracked(u) THEN "over"
    ELSE IF \E w \in Worker : InHand(w, u) THEN "hand" ELSE "left"

Owner(u) == IF \E w \in Worker : InList(w, u) THEN CHOOSE w \in Worker : InList(w, u) ELSE None

Ledger == INSTANCE JobLedger WITH
    phase <- [u \in Upload |-> Phase(u)],
    owner <- [u \in Upload |-> Owner(u)],
    starts <- begun

\* The lists, the heartbeats and the sweeps of jobs.py implement the ledger: nobody moves
\* a job that another worker has in hand, none is started too often, and none that is over
\* comes back.
KeepsLedger == Ledger!Spec
=============================================================================
