----------------------- MODULE VideoProcessingProofs -----------------------
(***************************************************************************)
(* What is proved of the whole system, for every number of workers,        *)
(* uploads and faults: it uses the queue as UploadQueue says, so that the  *)
(* queue's theorems hold of its queue (QP); its variables stay in their    *)
(* types; a video listed as ready has its files; the row, the status and   *)
(* the job of a video agree; a video at rest is left alone, and a ready    *)
(* one stays ready; a status has a job behind it; and a permanent delete   *)
(* that begins at rest leaves nothing.                                     *)
(***************************************************************************)
EXTENDS VideoProcessing, TLAPS

QP == INSTANCE UploadQueueSteps

-----------------------------------------------------------------------------
(* The queue inside the system. *)

LEMMA RowDoneIsQueueStep ==
    ASSUME NEW w \in Worker, RowDone(w)
    PROVE  UNCHANGED queueVars \/ Q!Next
<1>1. CASE Wanted(w) = "processing"
    BY <1>1 DEF RowDone, Move
<1>2. CASE Wanted(w) # "processing"
    <2>1. Q!Conclude(w, Wanted(w))
        BY <1>2 DEF RowDone
    <2>2. Wanted(w) \in Q!Finished
        BY <2>1 DEF Q!Conclude, Q!Finished
    <2>3. Q!WorkStep(w)
        BY <2>1, <2>2 DEF Q!WorkStep
    <2>4. QED
        BY <2>3 DEF Q!Next
<1>3. QED
    BY <1>1, <1>2

LEMMA StepIsQueueStep == [Next]_vars => UNCHANGED queueVars \/ Q!Next
<1>1. ASSUME NEW w \in Worker, HandlerStep(w) PROVE UNCHANGED queueVars \/ Q!Next
    <2>1. CASE \/ SelectRow(w) \/ FetchSource(w) \/ SourceUnusable(w) \/ PutThumbnail(w)
               \/ RemoveFile(w)
        BY <2>1 DEF SelectRow, FetchSource, SourceUnusable, PutThumbnail, RemoveFile, Move
    <2>2. CASE SelectMissing(w) \/ CommitRow(w)
        BY <2>2, RowDoneIsQueueStep DEF SelectMissing, CommitRow, Move
    <2>3. CASE CommitStale(w) \/ RemoveThumbnail(w) \/ Outage(w)
        BY <2>3 DEF CommitStale, RemoveThumbnail, Outage, Q!Next, Q!WorkStep
    <2>4. QED
        BY <1>1, <2>1, <2>2, <2>3 DEF HandlerStep, HandlerWork
<1>2. ASSUME NEW w \in Worker, QueueOnly(w) \/ ProcessEnds(w) PROVE Q!Next
    BY <1>2 DEF QueueOnly, QueueWork, QueueOther, ProcessEnds, Q!Next, Q!WorkStep, Q!LifeStep
<1>3. ASSUME NEW v \in Upload, UploadStep(v) PROVE UNCHANGED queueVars \/ Q!Next
    BY <1>3 DEF UploadStep, CreateRow, ReloadRow, StoreFile, StoreFails, EnqueueJob, EnqueueTwice,
                EnqueueRaises, RejectUpload, UploadDies, Q!Next, Q!CallStep
<1>4. ASSUME NEW v \in Upload, PurgeStep(v) \/ StatusExpires(v)
      PROVE  UNCHANGED queueVars \/ Q!Next
    BY <1>4 DEF PurgeStep, PurgeBegin, PurgeFile, PurgeThumbnail, PurgeAborts, PurgeForgetRead,
                PurgeForgetDelete, PurgeForgetFails, PurgeCommit, PurgeDies, StatusExpires,
                Q!Next, Q!CallStep
<1>5. QED
    BY <1>1, <1>2, <1>3, <1>4 DEF Next, vars

\* The variables of the queue change as UploadQueue says, by the way the actions are put
\* together: what is proved of UploadQueue can be used of the queue of this system.
LEMMA QueueIsImplemented == Spec => Q!Spec
<1>1. Init => Q!Init
    BY DEF Init
<1>2. [Next]_vars => [Q!Next]_Q!vars
    BY StepIsQueueStep DEF queueVars, Q!vars
<1>3. QED
    BY <1>1, <1>2, PTL DEF Spec, Q!Spec

-----------------------------------------------------------------------------
(* The theorems about UploadQueue, for the queue of this system. *)

\* The module of the theorems and the one the system runs on have the same definitions.
LEMMA SameLists ==
    /\ \A s, e : Q!RemoveFirst(s, e) = QP!RemoveFirst(s, e)
    /\ \A s, e : Q!Cons(e, s) = QP!Cons(e, s)
    /\ \A s, e : Q!Contains(s, e) <=> QP!Contains(s, e)
    /\ \A s : Q!Front(s) = QP!Front(s) /\ Q!Last(s) = QP!Last(s)
    BY DEF
        Q!RemoveFirst, QP!RemoveFirst, Q!RemoveAt, QP!RemoveAt, Q!SelectInSeq, QP!SelectInSeq,
        Q!Min, QP!Min, Q!Cons, QP!Cons, Q!Contains, QP!Contains, Q!Front, QP!Front, Q!Last,
        QP!Last

LEMMA SameTracked == \A u : Q!Tracked(u) <=> QP!Tracked(u)
    BY SameLists DEF
        Q!Tracked, QP!Tracked, Q!InQueue, QP!InQueue, Q!InList, QP!InList

LEMMA SameTypes == Q!TypeOK <=> QP!TypeOK
    BY DEF
        Q!TypeOK, QP!TypeOK, Q!RedisOK, QP!RedisOK, Q!ThreadOK, QP!ThreadOK, Q!WatchOK,
        QP!WatchOK, Q!RestOK, QP!RestOK, Q!Handling, QP!Handling, Q!Job, QP!Job, Q!NoJob,
        QP!NoJob, Q!Statuses, QP!Statuses, Q!Counts, QP!Counts

LEMMA SameInit == Q!Init <=> QP!Init
    BY DEF
        Q!Init, QP!Init, Q!NoJob, QP!NoJob

LEMMA SameWorkStep == \A w \in Worker : Q!WorkStep(w) <=> QP!WorkStep(w)
<1>1. /\ \A w \in Worker : Q!LoopTop(w) <=> QP!LoopTop(w)
      /\ \A w \in Worker : Q!Heartbeat(w) <=> QP!Heartbeat(w)
      /\ \A w \in Worker : Q!Claim(w) <=> QP!Claim(w)
      /\ \A w \in Worker : Q!ClaimTimeout(w) <=> QP!ClaimTimeout(w)
    BY SameLists DEF
        Q!LoopTop, QP!LoopTop, Q!Heartbeat, QP!Heartbeat, Q!Claim, QP!Claim, Q!ClaimTimeout,
        QP!ClaimTimeout, Q!SetHeartbeat, QP!SetHeartbeat, Q!MoveToOwn, QP!MoveToOwn, Q!redis,
        QP!redis, Q!locals, QP!locals, Q!thread, QP!thread, Q!watcher, QP!watcher, Q!calls,
        QP!calls, Q!Goto, QP!Goto, Q!Leave, QP!Leave
<1>2. /\ \A w \in Worker : Q!Load(w) <=> QP!Load(w)
      /\ \A w \in Worker : Q!LoadMissing(w) <=> QP!LoadMissing(w)
      /\ \A w \in Worker : Q!Drop(w) <=> QP!Drop(w)
    BY SameLists DEF
        Q!Load, QP!Load, Q!LoadMissing, QP!LoadMissing, Q!Drop, QP!Drop, Q!NoJob, QP!NoJob,
        Q!Bump, QP!Bump, Q!RemoveOwn, QP!RemoveOwn, Q!redis, QP!redis, Q!locals, QP!locals,
        Q!thread, QP!thread, Q!watcher, QP!watcher, Q!calls, QP!calls, Q!Goto, QP!Goto, Q!Leave,
        QP!Leave
<1>3. /\ \A w \in Worker : Q!Count(w) <=> QP!Count(w)
      /\ \A w \in Worker : Q!Tell(w) <=> QP!Tell(w)
      /\ \A w \in Worker : Q!Save(w) <=> QP!Save(w)
    BY SameLists DEF
        Q!Count, QP!Count, Q!Tell, QP!Tell, Q!Save, QP!Save, Q!AfterTell, QP!AfterTell, Q!NoJob,
        QP!NoJob, Q!Bump, QP!Bump, Q!SetJob, QP!SetJob, Q!redis, QP!redis, Q!locals, QP!locals,
        Q!thread, QP!thread, Q!watcher, QP!watcher, Q!calls, QP!calls, Q!Goto, QP!Goto, Q!Leave,
        QP!Leave
<1>4. /\ \A w \in Worker, s \in Q!Finished : Q!Conclude(w, s) <=> QP!Conclude(w, s)
      /\ \A w \in Worker : Q!ConcludeGone(w) <=> QP!ConcludeGone(w)
      /\ \A w \in Worker : Q!Raise(w) <=> QP!Raise(w)
    BY SameLists DEF
        Q!Conclude, QP!Conclude, Q!ConcludeGone, QP!ConcludeGone, Q!Raise, QP!Raise, Q!Finished,
        QP!Finished, Q!redis, QP!redis, Q!locals, QP!locals, Q!thread, QP!thread, Q!watcher,
        QP!watcher, Q!calls, QP!calls, Q!Goto, QP!Goto, Q!Leave, QP!Leave
<1>5. /\ \A w \in Worker : Q!Ack(w) <=> QP!Ack(w)
      /\ \A w \in Worker : Q!Release(w) <=> QP!Release(w)
    BY SameLists DEF
        Q!Ack, QP!Ack, Q!Release, QP!Release, Q!RemoveOwn, QP!RemoveOwn, Q!GiveBack, QP!GiveBack,
        Q!NoJob, QP!NoJob, Q!redis, QP!redis, Q!locals, QP!locals, Q!thread, QP!thread,
        Q!watcher, QP!watcher, Q!calls, QP!calls, Q!Goto, QP!Goto, Q!Leave, QP!Leave
<1>6. Q!Finished = QP!Finished
    BY DEF Q!Finished, QP!Finished
<1>7. QED
    BY <1>1, <1>2, <1>3, <1>4, <1>5, <1>6 DEF Q!WorkStep, QP!WorkStep

LEMMA SameWatchStep == \A w \in Worker : Q!WatchStep(w) <=> QP!WatchStep(w)
    BY SameLists DEF
        Q!WatchStep, QP!WatchStep, Q!WatchTop, QP!WatchTop, Q!WatchBeat, QP!WatchBeat,
        Q!SweepBegin, QP!SweepBegin, Q!SweepMove, QP!SweepMove, Q!SweepEnd, QP!SweepEnd,
        Q!ScanEnd, QP!ScanEnd, Q!redis, QP!redis, Q!locals, QP!locals, Q!thread, QP!thread,
        Q!watcher, QP!watcher, Q!calls, QP!calls, Q!NoJob, QP!NoJob, Q!Bump, QP!Bump, Q!Goto,
        QP!Goto, Q!Leave, QP!Leave, Q!SetHeartbeat, QP!SetHeartbeat, Q!MoveToOwn, QP!MoveToOwn,
        Q!SetJob, QP!SetJob, Q!RemoveOwn, QP!RemoveOwn, Q!GiveBack, QP!GiveBack, Q!MoveBack,
        QP!MoveBack, Q!PushNew, QP!PushNew, Q!DropStatus, QP!DropStatus

LEMMA SameLifeStep == \A w \in Worker : Q!LifeStep(w) <=> QP!LifeStep(w)
    BY SameLists DEF
        Q!LifeStep, QP!LifeStep, Q!Start, QP!Start, Q!Stop, QP!Stop, Q!Replaceable,
        QP!Replaceable, Q!Retire, QP!Retire, Q!RetireFails, QP!RetireFails, Q!Exit, QP!Exit,
        Q!Crash, QP!Crash, Q!End, QP!End, Q!Expire, QP!Expire, Q!Lapse, QP!Lapse, Q!redis,
        QP!redis, Q!locals, QP!locals, Q!thread, QP!thread, Q!watcher, QP!watcher, Q!calls,
        QP!calls, Q!NoJob, QP!NoJob, Q!Bump, QP!Bump, Q!Goto, QP!Goto, Q!Leave, QP!Leave,
        Q!SetHeartbeat, QP!SetHeartbeat, Q!MoveToOwn, QP!MoveToOwn, Q!SetJob, QP!SetJob,
        Q!RemoveOwn, QP!RemoveOwn, Q!GiveBack, QP!GiveBack, Q!MoveBack, QP!MoveBack, Q!PushNew,
        QP!PushNew, Q!DropStatus, QP!DropStatus

LEMMA SameFaultStep == \A w \in Worker : Q!FaultStep(w) <=> QP!FaultStep(w)
<1> USE DEF Q!redis, QP!redis, Q!locals, QP!locals, Q!thread, QP!thread, Q!watcher, QP!watcher,
            Q!calls, QP!calls
<1>1. \A w \in Worker : Q!Command(w) <=> QP!Command(w)
    BY SameLists DEF
        Q!Command, QP!Command, Q!NoJob, QP!NoJob, Q!Bump, QP!Bump, Q!SetHeartbeat,
        QP!SetHeartbeat, Q!MoveToOwn, QP!MoveToOwn, Q!SetJob, QP!SetJob, Q!RemoveOwn,
        QP!RemoveOwn, Q!GiveBack, QP!GiveBack
<1>2. \A w, s : /\ Q!Goto(w, s) <=> QP!Goto(w, s)
                /\ Q!Leave(w, s) <=> QP!Leave(w, s)
    BY DEF Q!Goto, QP!Goto, Q!Leave, QP!Leave, Q!NoJob, QP!NoJob
<1>3. \A w \in Worker : Q!CallFails(w) <=> QP!CallFails(w)
    BY <1>1, <1>2 DEF Q!CallFails, QP!CallFails
<1>4. \A w \in Worker : Q!Resend(w) <=> QP!Resend(w)
    BY <1>1 DEF Q!Resend, QP!Resend
<1>5. \A w \in Worker : Q!WatchFails(w) <=> QP!WatchFails(w)
    BY SameLists DEF
        Q!WatchFails, QP!WatchFails, Q!SetHeartbeat, QP!SetHeartbeat, Q!MoveBack, QP!MoveBack
<1>6. QED
    BY <1>3, <1>4, <1>5 DEF Q!FaultStep, QP!FaultStep

LEMMA SameCallStep == \A u \in Upload : Q!CallStep(u) <=> QP!CallStep(u)
    BY SameLists DEF
        Q!CallStep, QP!CallStep, Q!Finished, QP!Finished, Q!Enqueue, QP!Enqueue, Q!EnqueueFails,
        QP!EnqueueFails, Q!EnqueueResend, QP!EnqueueResend, Q!ForgetRead, QP!ForgetRead,
        Q!ForgetDelete, QP!ForgetDelete, Q!ForgetFails, QP!ForgetFails, Q!ForgetAbandoned,
        QP!ForgetAbandoned, Q!ExpireStatus, QP!ExpireStatus, Q!redis, QP!redis, Q!locals,
        QP!locals, Q!thread, QP!thread, Q!watcher, QP!watcher, Q!calls, QP!calls, Q!NoJob,
        QP!NoJob, Q!Bump, QP!Bump, Q!Goto, QP!Goto, Q!Leave, QP!Leave, Q!SetHeartbeat,
        QP!SetHeartbeat, Q!MoveToOwn, QP!MoveToOwn, Q!SetJob, QP!SetJob, Q!RemoveOwn,
        QP!RemoveOwn, Q!GiveBack, QP!GiveBack, Q!MoveBack, QP!MoveBack, Q!PushNew, QP!PushNew,
        Q!DropStatus, QP!DropStatus

LEMMA SameNext == [Q!Next]_Q!vars <=> [QP!Next]_QP!vars
    BY SameWorkStep, SameWatchStep, SameLifeStep, SameFaultStep, SameCallStep DEF
        Q!Next, QP!Next, Q!vars, QP!vars

QueueFacts == QP!TypeOK /\ QP!ReturnInv /\ QP!QueueInv

LEMMA QueueRuns == Spec => QP!Spec
<1>1. Q!Spec => QP!Spec
    BY SameInit, SameNext, PTL DEF Q!Spec, QP!Spec
<1>2. QED
    BY <1>1, QueueIsImplemented

LEMMA AlwaysQueue == Spec => []QueueFacts
<1> USE NoneAssumption, AttemptsAssumption, BoundsAssumption
<1>1. QP!Spec => []QP!TypeOK
    BY QP!TypeCorrect
<1>2. QP!Spec => []QP!ReturnInv
    BY QP!AlwaysReturns
<1>3. QP!Spec => []QP!QueueInv
    BY QP!QueueInvHolds
<1>4. QED
    BY QueueRuns, <1>1, <1>2, <1>3, PTL DEF QueueFacts

\* Inside this system, too, no two workers have the same job, none is started more often than
\* configured, and none is lost.
THEOREM QueueServesVideos ==
    Spec => []Q!ExclusiveProcessing /\ []Q!BoundedProcessing /\ Q!NoJobLost
<1> USE NoneAssumption, AttemptsAssumption, BoundsAssumption
<1>1. QP!Spec => []QP!ExclusiveProcessing
    BY QP!ProcessingIsExclusive
<1>2. QP!Spec => []QP!BoundedProcessing
    BY QP!StartsAreBounded
<1>3. QP!Spec => QP!NoJobLost
    BY QP!JobsAreNotLost
<1>4. QP!ExclusiveProcessing => Q!ExclusiveProcessing
    BY DEF Q!ExclusiveProcessing, QP!ExclusiveProcessing, Q!Handling, QP!Handling,
           Q!NoFalseSuspicion, QP!NoFalseSuspicion
<1>5. QP!BoundedProcessing => Q!BoundedProcessing
    BY DEF Q!BoundedProcessing, QP!BoundedProcessing, Q!NoFalseSuspicion, QP!NoFalseSuspicion
<1>6. QP!NoJobLost => Q!NoJobLost
    <2> DEFINE Kept == Q!NoFalseSuspicion' =>
                  \A u \in Upload :
                      Q!Tracked(u) /\ ~Q!Tracked(u)' =>
                          \E w \in Worker : /\ held[w] = u
                                            /\ \/ pc[w] = "ack"
                                               \/ pc[w] = "drop" /\ jobs[u] = Q!NoJob
               KeptP == QP!NoFalseSuspicion' =>
                  \A u \in Upload :
                      QP!Tracked(u) /\ ~QP!Tracked(u)' =>
                          \E w \in Worker : /\ held[w] = u
                                            /\ \/ pc[w] = "ack"
                                               \/ pc[w] = "drop" /\ jobs[u] = QP!NoJob
    <2>1. \A u : (Q!Tracked(u) <=> QP!Tracked(u)) /\ (Q!Tracked(u)' <=> QP!Tracked(u)')
        BY SameLists DEF Q!Tracked, QP!Tracked, Q!InQueue, QP!InQueue, Q!InList, QP!InList
    <2>2. KeptP => Kept
        BY <2>1 DEF Q!NoFalseSuspicion, QP!NoFalseSuspicion, Q!NoJob, QP!NoJob
    <2>3. [KeptP]_QP!vars => [Kept]_Q!vars
        BY <2>2 DEF Q!vars, QP!vars
    <2>4. QED
        BY <2>3, PTL DEF Q!NoJobLost, QP!NoJobLost
<1>7. QED
    BY QueueRuns, <1>1, <1>2, <1>3, <1>4, <1>5, <1>6, PTL

\* And the queue of this system keeps the ledger: what handle_job, the uploads and the deletes do
\* around it takes no job from the worker that has it in hand, and brings none back.
THEOREM QueueKeepsLedger == Spec /\ []Q!NoFalseSuspicion => QP!KeepsLedger
<1> USE NoneAssumption, AttemptsAssumption, BoundsAssumption
<1>1. QP!Spec /\ []QP!NoFalseSuspicion => QP!KeepsLedger
    BY QP!LedgerIsKept
<1>2. Q!NoFalseSuspicion => QP!NoFalseSuspicion
    BY DEF Q!NoFalseSuspicion, QP!NoFalseSuspicion
<1>3. QED
    BY QueueRuns, <1>1, <1>2, PTL

-----------------------------------------------------------------------------
(* Type correctness. *)

\* The variables this module adds to those of the queue.
OwnTypes ==
    /\ rows \in [Upload -> RowStates]
    /\ files \subseteq Upload
    /\ thumbs \subseteq Upload
    /\ step \in [Worker -> {"select", "commit", "fetch", "put_thumbnail",
                            "remove_file", "remove_thumbnail"}]
    /\ verdict \in [Worker -> {"none", "completed", "failed"}]
    /\ seen \in [Worker -> RowStates]
    /\ up \in [Upload -> {"no", "created", "storing", "stored", "accepted", "failing",
                          "rejected", "lost"}]
    /\ adm \in [Upload -> {"no", "file", "thumbnail", "forget", "forgetting", "commit",
                           "aborted", "done"}]

LEMMA HandlingTypes ==
    ASSUME QP!TypeOK, NEW w \in Worker, pc[w] = "handle"
    PROVE  held[w] \in Upload /\ goal[w] \in {"none", "processing", "completed", "failed"}
    BY DEF QP!TypeOK, QP!ThreadOK, QP!Handling

LEMMA OwnTypesStay ==
    ASSUME QP!TypeOK, OwnTypes, [Next]_vars
    PROVE  OwnTypes'
<1> USE DEF OwnTypes, RowStates
<1>1. ASSUME NEW w \in Worker, pc[w] = "handle"
      PROVE  Wanted(w) \in RowStates /\ held[w] \in Upload
    BY <1>1, HandlingTypes DEF Wanted
<1>2. ASSUME NEW w \in Worker, SelectRow(w) \/ SelectMissing(w) \/ CommitRow(w) \/ CommitStale(w)
      PROVE  OwnTypes'
    BY <1>1, <1>2 DEF SelectRow, SelectMissing, CommitRow, CommitStale, At, Move, ResetHandler,
                      RowDone, UpdateRow, Exists
<1>3. ASSUME NEW w \in Worker, \/ FetchSource(w) \/ SourceUnusable(w) \/ PutThumbnail(w)
                               \/ RemoveFile(w) \/ RemoveThumbnail(w)
      PROVE  OwnTypes'
    BY <1>1, <1>3 DEF FetchSource, SourceUnusable, PutThumbnail, RemoveFile, RemoveThumbnail, At,
                      Move, ResetHandler
<1>4. ASSUME NEW w \in Worker, Outage(w) PROVE OwnTypes'
    BY <1>1, <1>4 DEF Outage, At, ResetHandler, UpdateRow, Q!Raise
<1>5. ASSUME NEW w \in Worker, QueueOnly(w) \/ ProcessEnds(w) PROVE OwnTypes'
    BY <1>5 DEF QueueOnly, ProcessEnds, ResetHandler, handler
<1>6. ASSUME NEW v \in Upload, UploadStep(v) PROVE OwnTypes'
    BY <1>6 DEF UploadStep, CreateRow, ReloadRow, StoreFile, StoreFails, EnqueueJob, EnqueueTwice,
                EnqueueRaises, RejectUpload, UploadDies, UploadAt, handler
<1>7. ASSUME NEW v \in Upload, PurgeStep(v) \/ StatusExpires(v) PROVE OwnTypes'
    BY <1>7 DEF PurgeStep, PurgeBegin, PurgeFile, PurgeThumbnail, PurgeAborts, PurgeForgetRead,
                PurgeForgetDelete, PurgeForgetFails, PurgeCommit, PurgeDies, StatusExpires,
                PurgeAt, handler
<1>8. CASE UNCHANGED vars
    BY <1>8 DEF vars, handler
<1>9. QED
    BY <1>2, <1>3, <1>4, <1>5, <1>6, <1>7, <1>8 DEF Next, HandlerStep, HandlerWork

LEMMA AlwaysTyped == Spec => []OwnTypes
<1>1. Init => OwnTypes
    BY DEF Init, OwnTypes, RowStates
<1>2. QueueFacts => QP!TypeOK
    BY DEF QueueFacts
<1>3. QED
    BY <1>1, <1>2, OwnTypesStay, AlwaysQueue, PTL DEF Spec

\* The variables of the system stay in their types, for any number of workers and uploads.
THEOREM TypeCorrect == Spec => []TypeOK
<1>1. QueueFacts /\ OwnTypes => TypeOK
    BY SameTypes DEF QueueFacts, OwnTypes, TypeOK
<1>2. QED
    BY <1>1, AlwaysQueue, AlwaysTyped, PTL

-----------------------------------------------------------------------------
(* What a step changes, as far as the invariants look at it. *)

\* A step of handle_job: it has one job in hand and touches the row and the objects of that one.
HandlerEffect(w) ==
    /\ pc[w] = "handle"
    /\ \/ pc'[w] = "handle" /\ goal'[w] = goal[w]
       \/ pc'[w] # "handle" /\ step'[w] = "select" /\ verdict'[w] = "none"
    /\ \A x \in Worker \ {w} : /\ pc'[x] = pc[x] /\ goal'[x] = goal[x]
                               /\ step'[x] = step[x] /\ verdict'[x] = verdict[x]
    /\ UNCHANGED <<held, enqueued, life, up, adm>>
    /\ \/ rows' = rows
       \/ Exists(held[w]) /\ rows' = [rows EXCEPT ![held[w]] = Wanted(w)]
    /\ \/ files' = files
       \/ step[w] = "remove_file" /\ files' = files \ {held[w]}
    /\ \/ thumbs' = thumbs
       \/ thumbs' = thumbs \cup {held[w]}
       \/ step[w] = "remove_thumbnail" /\ thumbs' = thumbs \ {held[w]}
    /\ step'[w] \in {"remove_file", "remove_thumbnail"} =>
           rows' = rows /\ (step[w] = "remove_file" \/ ~Exists(held[w]))
    /\ verdict'[w] = "completed" =>
           \/ verdict[w] = "completed" /\ step[w] # "remove_thumbnail"
           \/ held[w] \in thumbs'

LEMMA HandlerSteps ==
    ASSUME QP!TypeOK, OwnTypes, NEW w \in Worker, HandlerStep(w)
    PROVE  HandlerEffect(w)
<1> USE DEF HandlerEffect, OwnTypes, At, Move, ResetHandler, queueVars, QP!TypeOK, QP!ThreadOK
<1>1. pc[w] = "handle"
    BY DEF HandlerStep, HandlerWork, SelectRow, SelectMissing, CommitRow, CommitStale, FetchSource,
           SourceUnusable, PutThumbnail, RemoveFile, RemoveThumbnail, Outage, Q!Raise
<1>2. ASSUME RowDone(w)
      PROVE  /\ UNCHANGED <<held, enqueued, life>>
             /\ \A x \in Worker \ {w} : /\ pc'[x] = pc[x] /\ goal'[x] = goal[x]
                                        /\ step'[x] = step[x] /\ verdict'[x] = verdict[x]
             /\ \/ /\ pc'[w] = "handle" /\ goal'[w] = goal[w]
                   /\ verdict'[w] = verdict[w] /\ step'[w] = "fetch"
                \/ pc'[w] = "tell" /\ step'[w] = "select" /\ verdict'[w] = "none"
    BY <1>1, <1>2 DEF RowDone, Q!Conclude, Q!Goto, Q!calls
<1>3. CASE SelectRow(w) \/ FetchSource(w) \/ SourceUnusable(w) \/ PutThumbnail(w) \/ RemoveFile(w)
    <2>1. CASE SelectRow(w) \/ FetchSource(w) \/ SourceUnusable(w)
        BY <1>1, <2>1 DEF SelectRow, FetchSource, SourceUnusable
    <2>2. CASE PutThumbnail(w) \/ RemoveFile(w)
        BY <1>1, <2>2 DEF PutThumbnail, RemoveFile
    <2>3. QED
        BY <1>3, <2>1, <2>2
<1>4. CASE SelectMissing(w)
    BY <1>1, <1>2, <1>4 DEF SelectMissing
<1>5. CASE CommitRow(w)
    BY <1>1, <1>2, <1>5 DEF CommitRow, UpdateRow
<1>6. CASE CommitStale(w) \/ RemoveThumbnail(w) \/ Outage(w)
    <2>1. /\ UNCHANGED <<held, enqueued, life, goal>> /\ pc'[w] # "handle"
          /\ \A x \in Worker \ {w} : pc'[x] = pc[x]
        BY <1>6 DEF CommitStale, RemoveThumbnail, Outage, Q!Raise, Q!ConcludeGone, Q!Goto, Q!locals,
                    Q!calls
    <2>2. QED
        BY <1>1, <1>6, <2>1 DEF CommitStale, RemoveThumbnail, Outage, UpdateRow
<1>7. QED
    BY <1>3, <1>4, <1>5, <1>6 DEF HandlerStep, HandlerWork

\* A step of the queue alone leaves the rows, the objects and the requests alone, and whoever
\* comes to handle_job, or leaves it by the end of its process, is at its beginning there.
QueueEffect ==
    /\ UNCHANGED <<rows, files, thumbs, up, adm, enqueued>>
    /\ \A x \in Worker :
        /\ \/ step'[x] = step[x] /\ verdict'[x] = verdict[x]
           \/ step'[x] = "select" /\ verdict'[x] = "none"
        /\ pc[x] = "handle" =>
               \/ pc'[x] = "handle" /\ held'[x] = held[x] /\ goal'[x] = goal[x]
               \/ pc'[x] # "handle" /\ step'[x] = "select" /\ verdict'[x] = "none"
        /\ pc[x] # "handle" /\ pc'[x] = "handle" => goal'[x] \in {"processing", "failed"}
        /\ life'[x] = "new" => life[x] = "new" /\ (pc[x] = "off" => pc'[x] = "off")

LEMMA QueueSteps ==
    ASSUME QP!TypeOK, OwnTypes, NEW w \in Worker, life[w] = "new" => pc[w] = "off",
           QueueOnly(w) \/ ProcessEnds(w)
    PROVE  QueueEffect
<1> USE DEF QueueEffect, QP!TypeOK, QP!ThreadOK, QP!RestOK, OwnTypes, Q!Goto, Q!Leave, Q!calls,
            Q!locals, Q!thread, handler
<1>1. CASE QueueWork(w) /\ UNCHANGED <<rows, files, thumbs, handler, up, adm>>
    <2>1. CASE Q!LoopTop(w) \/ Q!Heartbeat(w) \/ Q!Claim(w) \/ Q!ClaimTimeout(w)
        BY <1>1, <2>1 DEF Q!LoopTop, Q!Heartbeat, Q!Claim, Q!ClaimTimeout
    <2>2. CASE Q!Load(w) \/ Q!LoadMissing(w) \/ Q!Drop(w) \/ Q!Ack(w) \/ Q!Release(w)
        BY <1>1, <2>2 DEF Q!Load, Q!LoadMissing, Q!Drop, Q!Ack, Q!Release
    <2>3. CASE Q!Count(w)
        BY <1>1, <2>3 DEF Q!Count
    <2>4. CASE Q!Tell(w) \/ Q!Save(w)
        BY <1>1, <2>4 DEF Q!Tell, Q!Save, Q!AfterTell
    <2>5. QED
        BY <1>1, <2>1, <2>2, <2>3, <2>4 DEF QueueWork
<1>2. CASE /\ Q!WatchStep(w) \/ Q!WatchFails(w) \/ Q!Resend(w)
           /\ UNCHANGED <<rows, files, thumbs, handler, up, adm>>
    BY <1>2 DEF Q!WatchStep, Q!WatchTop, Q!WatchBeat, Q!SweepBegin, Q!SweepMove, Q!SweepEnd,
                Q!ScanEnd, Q!WatchFails, Q!Resend
<1>3. CASE Q!CallFails(w) /\ UNCHANGED <<rows, files, thumbs, handler, up, adm>>
    BY <1>3 DEF Q!CallFails
<1>4. CASE /\ \/ Q!Start(w) \/ Q!Stop(w) \/ Q!Retire(w) \/ Q!RetireFails(w)
              \/ Q!Expire(w) \/ Q!Lapse(w)
           /\ UNCHANGED <<rows, files, thumbs, handler, up, adm>>
    BY <1>4 DEF Q!Start, Q!Stop, Q!Retire, Q!RetireFails, Q!Expire, Q!Lapse
<1>5. CASE ProcessEnds(w)
    <2>1. Q!End(w) /\ ResetHandler(w) /\ UNCHANGED <<rows, files, thumbs, up, adm>>
        BY <1>5 DEF ProcessEnds, Q!Exit, Q!Crash
    <2>2. QED
        BY <2>1 DEF ResetHandler, Q!End
<1>6. QED
    BY <1>1, <1>2, <1>3, <1>4, <1>5 DEF QueueOnly, QueueOther, Q!FaultStep

-----------------------------------------------------------------------------
(* The files of a video that is ready. *)

\* A row is made before the first use of its name, and goes by a permanent delete only.
RowsInv ==
    \A v \in Upload :
        /\ up[v] = "no" <=> rows[v] = "none"
        /\ rows[v] = "none" => adm[v] = "no"
        /\ rows[v] = "gone" => adm[v] # "no"
        /\ enqueued[v] # "no" => up[v] \notin {"no", "created", "storing"}

\* handle_job leaves nothing behind, and removes files of deleted videos only.
HandlerInv ==
    \A w \in Worker :
        /\ life[w] = "new" => pc[w] = "off"
        /\ pc[w] # "handle" => step[w] = "select" /\ verdict[w] = "none"
        /\ pc[w] = "handle" => goal[w] \in {"processing", "failed"}
        /\ step[w] \in {"remove_file", "remove_thumbnail"} => rows[held[w]] = "gone"

\* Until its delete begins, a video has its file from the enqueue on, and its thumbnail from the
\* end of process_video on.
FilesInv ==
    /\ \A v \in Upload :
          adm[v] = "no" /\ (up[v] \in {"stored", "accepted"} \/ enqueued[v] # "no") => v \in files
    /\ \A w \in Worker : verdict[w] = "completed" /\ adm[held[w]] = "no" => held[w] \in thumbs

FileInv == RowsInv /\ HandlerInv /\ FilesInv /\ CompletedHasFiles

LEMMA HandlerFiles ==
    ASSUME QP!TypeOK, OwnTypes, QP!Known, FileInv, NEW w \in Worker, HandlerEffect(w)
    PROVE  FileInv'
<1> USE DEF HandlerEffect, OwnTypes
<1>1. PICK v \in Upload : v = held[w]
    BY HandlingTypes
<1>2. /\ enqueued[v] # "no" /\ up[v] # "no" /\ rows[v] # "none"
      /\ adm[v] = "no" => v \in files
    <2>1. enqueued[v] # "no"
        BY <1>1 DEF QP!Known, QP!Handling
    <2>2. QED
        BY <2>1 DEF FileInv, RowsInv, FilesInv
<1>3. rows' \in [Upload -> RowStates] /\ (rows[v] = "gone" => rows' = rows /\ adm[v] # "no")
    BY <1>1, <1>2 DEF FileInv, RowsInv, Exists, Wanted, RowStates, QP!TypeOK, QP!ThreadOK
<1>4. \A u \in Upload \ {v} : rows'[u] = rows[u]
    BY <1>1
<1>5. \/ rows[v] = "gone"
      \/ rows'[v] \notin {"none", "gone"} /\ files' = files /\ thumbs \subseteq thumbs'
    <2>1. Wanted(w) \notin {"none", "gone"}
        BY DEF Wanted, FileInv, HandlerInv
    <2>2. QED
        BY <1>1, <1>2, <2>1 DEF FileInv, HandlerInv, Exists
<1>6. RowsInv'
    BY <1>2, <1>3, <1>4, <1>5 DEF FileInv, RowsInv
<1>7. HandlerInv'
    <2>1. ASSUME NEW x \in Worker, step'[x] \in {"remove_file", "remove_thumbnail"}
          PROVE  rows'[held'[x]] = "gone"
        <3>1. CASE x = w
            BY <1>1, <1>2, <1>3, <2>1, <3>1 DEF FileInv, HandlerInv, Exists
        <3>2. CASE x # w
            <4>1. step[x] \in {"remove_file", "remove_thumbnail"} /\ held'[x] = held[x]
                BY <2>1, <3>2
            <4>2. rows[held[x]] = "gone" /\ pc[x] = "handle"
                BY <4>1 DEF FileInv, HandlerInv
            <4>3. held[x] \in Upload
                BY <4>2, HandlingTypes
            <4>4. QED
                BY <1>3, <1>4, <4>1, <4>2, <4>3
        <3>3. QED
            BY <3>1, <3>2
    <2>2. QED
        BY <2>1 DEF FileInv, HandlerInv
<1>8. \A u \in Upload : adm[u] = "no" => /\ (u \in files => u \in files')
                                         /\ (u \in thumbs => u \in thumbs')
    BY <1>1, <1>3, <1>5
<1>9. FilesInv'
    <2>1. ASSUME NEW x \in Worker, verdict'[x] = "completed", adm'[held'[x]] = "no"
          PROVE  held'[x] \in thumbs'
        <3>1. CASE x = w
            <4>1. verdict[w] = "completed" \/ v \in thumbs'
                BY <1>1, <2>1, <3>1
            <4>2. QED
                BY <1>1, <1>8, <2>1, <3>1, <4>1 DEF FileInv, FilesInv
        <3>2. CASE x # w
            <4>1. verdict[x] = "completed" /\ held'[x] = held[x]
                BY <2>1, <3>2
            <4>2. held[x] \in Upload
                BY <4>1, HandlingTypes DEF FileInv, HandlerInv
            <4>3. QED
                BY <1>8, <2>1, <4>1, <4>2 DEF FileInv, FilesInv
        <3>3. QED
            BY <3>1, <3>2
    <2>2. QED
        BY <1>8, <2>1 DEF FileInv, FilesInv
<1>10. CompletedHasFiles'
    <2>1. ASSUME NEW u \in Upload, rows'[u] = "completed", adm'[u] = "no"
          PROVE  u \in files' \cap thumbs'
        <3>1. CASE rows[u] = "completed"
            BY <1>8, <2>1, <3>1 DEF FileInv, CompletedHasFiles
        <3>2. CASE rows[u] # "completed"
            <4>1. u = v /\ Wanted(w) = "completed"
                BY <1>1, <2>1, <3>2
            <4>2. verdict[w] = "completed"
                BY <4>1 DEF Wanted, FileInv, HandlerInv
            <4>3. v \in files /\ v \in thumbs
                BY <1>1, <1>2, <2>1, <4>1, <4>2 DEF FileInv, FilesInv
            <4>4. QED
                BY <1>8, <2>1, <4>1, <4>3
        <3>3. QED
            BY <3>1, <3>2
    <2>2. QED
        BY <2>1 DEF CompletedHasFiles
<1>11. QED
    BY <1>6, <1>7, <1>9, <1>10 DEF FileInv

LEMMA QueueFiles ==
    ASSUME QP!TypeOK, OwnTypes, FileInv, QueueEffect
    PROVE  FileInv'
<1> USE DEF QueueEffect
<1>1. RowsInv' /\ CompletedHasFiles'
    BY DEF FileInv, RowsInv, CompletedHasFiles
<1>2. HandlerInv'
    <2>1. ASSUME NEW x \in Worker
          PROVE  (/\ life[x] = "new" => pc[x] = "off"
                  /\ pc[x] # "handle" => step[x] = "select" /\ verdict[x] = "none"
                  /\ pc[x] = "handle" => goal[x] \in {"processing", "failed"}
                  /\ step[x] \in {"remove_file", "remove_thumbnail"} => rows[held[x]] = "gone")'
        BY DEF FileInv, HandlerInv
    <2>2. QED
        BY <2>1 DEF HandlerInv
<1>3. FilesInv'
    BY DEF FileInv, FilesInv, HandlerInv
<1>4. QED
    BY <1>1, <1>2, <1>3 DEF FileInv

\* The calls of the handlers leave the workers alone.
LEMMA CallsLeaveWorkers ==
    ASSUME NEW v \in Upload, UploadStep(v) \/ PurgeStep(v) \/ StatusExpires(v)
    PROVE  UNCHANGED <<pc, held, goal, life, copy, step, verdict, seen>>
    BY DEF UploadStep, CreateRow, ReloadRow, StoreFile, StoreFails, EnqueueJob, EnqueueTwice,
           EnqueueRaises, RejectUpload, UploadDies, UploadAt, PurgeStep, PurgeBegin, PurgeFile,
           PurgeThumbnail, PurgeAborts, PurgeForgetRead, PurgeForgetDelete, PurgeForgetFails,
           PurgeCommit, PurgeDies, StatusExpires, PurgeAt, queueVars, handler, Q!Enqueue,
           Q!EnqueueFails, Q!EnqueueResend, Q!ForgetRead, Q!ForgetDelete, Q!ForgetFails,
           Q!ForgetAbandoned, Q!ExpireStatus, Q!thread

LEMMA UploadFiles ==
    ASSUME QP!TypeOK, OwnTypes, FileInv, NEW v \in Upload, UploadStep(v)
    PROVE  FileInv'
<1> USE DEF OwnTypes, UploadAt, queueVars
<1>1. UNCHANGED <<pc, held, goal, life, step, verdict>>
    BY CallsLeaveWorkers
<1>2. /\ adm' = adm /\ thumbs' = thumbs /\ files \subseteq files'
      /\ \A u \in Upload \ {v} : /\ up'[u] = up[u] /\ rows'[u] = rows[u]
                                 /\ enqueued'[u] = enqueued[u]
      /\ rows'[v] = rows[v] \/ rows'[v] \in {"pending", "failed"}
    BY DEF UploadStep, CreateRow, ReloadRow, StoreFile, StoreFails, EnqueueJob, EnqueueTwice,
           EnqueueRaises, RejectUpload, UploadDies, Q!Enqueue, Q!EnqueueFails, Q!EnqueueResend,
           QP!TypeOK, QP!RestOK
<1>3. /\ up'[v] # "no" /\ rows'[v] # "none"
      /\ rows[v] = "gone" <=> rows'[v] = "gone"
      /\ rows[v] # "none" \/ adm[v] = "no"
      /\ enqueued'[v] # "no" => up'[v] \notin {"no", "created", "storing"}
    BY DEF UploadStep, CreateRow, ReloadRow, StoreFile, StoreFails, EnqueueJob, EnqueueTwice,
           EnqueueRaises, RejectUpload, UploadDies, Q!Enqueue, Q!EnqueueFails, Q!EnqueueResend,
           QP!TypeOK, QP!RestOK, Exists, FileInv, RowsInv
<1>4. up'[v] \in {"stored", "accepted"} \/ enqueued'[v] # "no" =>
          \/ up[v] \in {"stored", "accepted"} \/ enqueued[v] # "no"
          \/ v \in files'
    BY DEF UploadStep, CreateRow, ReloadRow, StoreFile, StoreFails, EnqueueJob, EnqueueTwice,
           EnqueueRaises, RejectUpload, UploadDies, Q!Enqueue, Q!EnqueueFails, Q!EnqueueResend
<1>5. RowsInv'
    BY <1>2, <1>3 DEF FileInv, RowsInv
<1>6. HandlerInv'
    <2>1. ASSUME NEW x \in Worker, step[x] \in {"remove_file", "remove_thumbnail"}
          PROVE  rows'[held[x]] = "gone"
        <3>1. rows[held[x]] = "gone" /\ held[x] \in Upload
            BY <2>1, HandlingTypes DEF FileInv, HandlerInv
        <3>2. QED
            BY <1>2, <1>3, <3>1
    <2>2. QED
        BY <1>1, <2>1 DEF FileInv, HandlerInv
<1>7. FilesInv'
    BY <1>1, <1>2, <1>4 DEF FileInv, FilesInv
<1>8. CompletedHasFiles'
    BY <1>2 DEF FileInv, CompletedHasFiles
<1>9. QED
    BY <1>5, <1>6, <1>7, <1>8 DEF FileInv

LEMMA PurgeFiles ==
    ASSUME QP!TypeOK, OwnTypes, FileInv, NEW v \in Upload, PurgeStep(v) \/ StatusExpires(v)
    PROVE  FileInv'
<1> USE DEF OwnTypes, PurgeAt, queueVars, handler
<1>1. UNCHANGED <<pc, held, goal, life, step, verdict>>
    BY CallsLeaveWorkers
<1>2. /\ up' = up /\ enqueued' = enqueued
      /\ \A u \in Upload \ {v} : /\ adm'[u] = adm[u] /\ rows'[u] = rows[u]
                                 /\ (u \in files' <=> u \in files)
                                 /\ (u \in thumbs' <=> u \in thumbs)
      /\ \/ adm'[v] = adm[v] /\ UNCHANGED <<rows, files, thumbs>>
         \/ adm'[v] # "no" /\ rows'[v] \in {rows[v], "gone"} /\ rows[v] # "none"
    BY DEF PurgeStep, PurgeBegin, PurgeFile, PurgeThumbnail, PurgeAborts, PurgeForgetRead,
           PurgeForgetDelete, PurgeForgetFails, PurgeCommit, PurgeDies, StatusExpires,
           Q!ForgetRead, Q!ForgetDelete, Q!ForgetFails, Q!ForgetAbandoned, Q!ExpireStatus, Q!calls,
           Exists, FileInv, RowsInv
<1>3. RowsInv' /\ CompletedHasFiles'
    BY <1>2 DEF FileInv, RowsInv, CompletedHasFiles
<1>4. HandlerInv'
    <2>1. ASSUME NEW x \in Worker, step[x] \in {"remove_file", "remove_thumbnail"}
          PROVE  rows'[held[x]] = "gone"
        <3>1. rows[held[x]] = "gone" /\ held[x] \in Upload
            BY <2>1, HandlingTypes DEF FileInv, HandlerInv
        <3>2. QED
            BY <1>2, <3>1
    <2>2. QED
        BY <1>1, <2>1 DEF FileInv, HandlerInv
<1>5. FilesInv'
    <2>1. ASSUME NEW x \in Worker, verdict[x] = "completed", adm'[held[x]] = "no"
          PROVE  held[x] \in thumbs'
        <3>1. held[x] \in Upload
            BY <2>1, HandlingTypes DEF FileInv, HandlerInv
        <3>2. QED
            BY <1>2, <2>1, <3>1 DEF FileInv, FilesInv
    <2>2. QED
        BY <1>1, <1>2, <2>1 DEF FileInv, FilesInv
<1>6. QED
    BY <1>3, <1>4, <1>5 DEF FileInv

LEMMA StepFiles ==
    ASSUME QP!TypeOK, QP!Known, OwnTypes, FileInv, [Next]_vars
    PROVE  FileInv'
<1>1. CASE UNCHANGED vars
    BY <1>1 DEF vars, queueVars, handler, FileInv, RowsInv, HandlerInv, FilesInv, CompletedHasFiles
<1>2. ASSUME NEW w \in Worker, HandlerStep(w) PROVE FileInv'
    BY <1>2, HandlerSteps, HandlerFiles
<1>3. ASSUME NEW w \in Worker, QueueOnly(w) \/ ProcessEnds(w) PROVE FileInv'
    BY <1>3, QueueSteps, QueueFiles DEF FileInv, HandlerInv
<1>4. CASE Next
    BY <1>2, <1>3, <1>4, UploadFiles, PurgeFiles DEF Next
<1>5. QED
    BY <1>1, <1>4

LEMMA AlwaysFiles == Spec => []FileInv
<1>1. Init => FileInv
    BY DEF Init, Q!Init, FileInv, RowsInv, HandlerInv, FilesInv, CompletedHasFiles
<1>2. QueueFacts => QP!TypeOK /\ QP!Known
    BY DEF QueueFacts, QP!ReturnInv
<1>3. QED
    BY <1>1, <1>2, StepFiles, AlwaysQueue, AlwaysTyped, PTL DEF Spec

\* Whatever crashes, lapses, raises or is sent twice, and however many workers process a video
\* at once, a video that is listed as ready has its file and its thumbnail until its permanent
\* delete begins: handle_job puts the thumbnail before it commits the row, and removes objects
\* only after it found the row gone.
THEOREM CompletedIsComplete == Spec => []CompletedHasFiles
<1>1. FileInv => CompletedHasFiles
    BY DEF FileInv
<1>2. QED
    BY <1>1, AlwaysFiles, PTL

-----------------------------------------------------------------------------
(* The row, the status and the job agree, as long as no two workers have the same job. *)

Done == {"completed", "failed"}
Final(v) == adm[v] # "no" \/ rows[v] \in Done
Follows(v, s) == up[v] = "accepted" /\ Exists(v) => rows[v] = s

\* A video whose job is through is settled, whether the status says so or is no more.
JobAgrees(v) ==
    /\ up[v] \in {"accepted", "rejected"} /\ adm[v] = "no" /\ rows[v] \in {"pending", "processing"}
           => QP!Tracked(v)
    /\ jobs[v].status \in Done =>
           Final(v) /\ (jobs[v].attempts > MAX_ATTEMPTS \/ Follows(v, jobs[v].status))
    /\ jobs[v].status = "none" /\ QP!Tracked(v) => Final(v)

\* What a worker is about to tell or to forget holds of the video it has in hand.
WorkAgrees(w) ==
    LET v == held[w] IN
    /\ pc[w] \in {"drop", "ack"} => Final(v)
    /\ pc[w] = "count" /\ copy[w].status \in Done =>
           Final(v) /\ (copy[w].attempts > MAX_ATTEMPTS \/ Follows(v, copy[w].status))
    /\ pc[w] \in {"tell", "save"} /\ goal[w] # "processing" => Final(v) /\ Follows(v, goal[w])
    /\ pc[w] = "save" => copy[w].status = goal[w]
    /\ pc[w] \in {"tell", "save", "handle"} /\ goal[w] = "processing" /\ adm[v] = "no"
           => jobs[v].status # "none"
    /\ pc[w] = "handle" /\ goal[w] = "processing" => jobs[v].status \notin Done
    /\ pc[w] = "handle" /\ goal[w] = "failed"
           => jobs[v].status = "none" \/ jobs[v].attempts > MAX_ATTEMPTS
    /\ pc[w] = "handle" /\ step[w] = "commit" =>
           /\ adm[v] = "no" => rows[v] \in {seen[w], "failed"}
           /\ up[v] = "accepted" /\ Exists(v) => rows[v] = seen[w]

AgreeInv == (\A v \in Upload : JobAgrees(v)) /\ (\A w \in Worker : WorkAgrees(w))

\* The facts the steps below start from.
Ground == QP!TypeOK /\ QP!Known /\ QP!Ownership /\ OwnTypes /\ RowsInv /\ HandlerInv

LEMMA JobTypes ==
    ASSUME QP!TypeOK, NEW v \in Upload
    PROVE  /\ jobs[v] = Q!NoJob <=> jobs[v].status = "none"
           /\ jobs[v].attempts \in Nat
    BY AttemptsAssumption
    DEF QP!TypeOK, QP!RedisOK, QP!Job, QP!NoJob, Q!NoJob, QP!Statuses, QP!Counts

LEMMA HandsAlone ==
    ASSUME Ground
    PROVE  /\ \A x \in Worker : QP!Handling(x) =>
                 /\ held[x] \in Upload /\ QP!InList(x, held[x]) /\ QP!Tracked(held[x])
                 /\ enqueued[held[x]] = "done"
           /\ \A x, y \in Worker : x # y /\ QP!Handling(x) /\ QP!Handling(y) => held[x] # held[y]
           /\ \A v \in Upload : enqueued[v] \in {"no", "sent"} =>
                 /\ ~QP!Tracked(v) /\ jobs[v] = QP!NoJob
                 /\ \A x \in Worker : QP!Handling(x) => held[x] # v
<1>1. ASSUME NEW x \in Worker, QP!Handling(x)
      PROVE  /\ held[x] \in Upload /\ QP!InList(x, held[x]) /\ QP!Tracked(held[x])
             /\ enqueued[held[x]] = "done"
    BY <1>1 DEF Ground, QP!TypeOK, QP!ThreadOK, QP!RestOK, QP!Ownership, QP!HeldIsListed,
                QP!NewIsUnknown, QP!Tracked
<1>2. ASSUME NEW x \in Worker, NEW y \in Worker, x # y, QP!Handling(x), QP!Handling(y)
      PROVE  held[x] # held[y]
    BY <1>1, <1>2 DEF Ground, QP!Ownership, QP!ListedOnce
<1>3. \A v \in Upload : enqueued[v] \in {"no", "sent"} => ~QP!Tracked(v) /\ jobs[v] = QP!NoJob
    BY DEF Ground, QP!Ownership, QP!NewIsUnknown
<1>4. QED
    BY <1>1, <1>2, <1>3

\* What others do to a video: its row changes by the reject of an upload or by the commit of a
\* delete only, and its status goes only when the video is deleted or the status is finished.
Steady(v) ==
    /\ adm[v] # "no" => adm'[v] # "no"
    /\ \/ rows'[v] = rows[v]
       \/ rows'[v] = "failed" /\ up'[v] = "rejected"
       \/ rows'[v] = "gone" /\ adm'[v] # "no"
    /\ \/ up'[v] = up[v]
       \/ up'[v] = "rejected" /\ rows'[v] \notin {"pending", "processing"}
       \/ up'[v] \notin {"accepted", "rejected"}
    /\ \/ jobs'[v] = jobs[v]
       \/ jobs'[v] = QP!NoJob /\ adm'[v] # "no"
       \/ /\ jobs'[v] = QP!NoJob /\ jobs[v].status \in Done
          /\ \A x \in Worker : held[x] = v => pc[x] \notin {"tell", "save"}

LEMMA WorkStays ==
    ASSUME Ground, NEW x \in Worker, WorkAgrees(x), QP!Handling(x) => Steady(held[x]),
           pc'[x] = pc[x], held'[x] = held[x], copy'[x] = copy[x], goal'[x] = goal[x],
           step'[x] = step[x], seen'[x] = seen[x]
    PROVE  WorkAgrees(x)'
<1>1. CASE ~QP!Handling(x)
    BY <1>1 DEF QP!Handling, WorkAgrees
<1>2. CASE QP!Handling(x)
    <2>1. held[x] \in Upload /\ QP!NoJob.status = "none"
        BY <1>2, HandsAlone DEF QP!NoJob
    <2>2. PICK v \in Upload : v = held[x]
        BY <2>1
    <2>3. Steady(v)
        BY <1>2, <2>2
    <2>4. /\ Final(v) => Final(v)'
          /\ \A s : Follows(v, s) => Follows(v, s)'
          /\ adm'[v] = "no" => adm[v] = "no"
        BY <2>3 DEF Steady, Final, Follows, Exists, Done
    <2>5. pc[x] \in {"tell", "save", "handle"} /\ goal[x] = "processing" /\ adm'[v] = "no"
              => jobs'[v].status # "none"
        BY <2>1, <2>2, <2>3, <2>4 DEF Steady, WorkAgrees
    <2>6. pc[x] = "handle" => /\ goal[x] = "processing" => jobs'[v].status \notin Done
                              /\ goal[x] = "failed" => \/ jobs'[v].status = "none"
                                                       \/ jobs'[v].attempts > MAX_ATTEMPTS
        BY <2>1, <2>2, <2>3 DEF Steady, WorkAgrees, Done
    <2>7. pc[x] = "handle" /\ step[x] = "commit" =>
              /\ adm'[v] = "no" => rows'[v] \in {seen[x], "failed"}
              /\ up'[v] = "accepted" /\ Exists(v)' => rows'[v] = seen[x]
        BY <2>2, <2>3, <2>4 DEF Steady, WorkAgrees, Exists
    <2>8. QED
        BY <2>2, <2>4, <2>5, <2>6, <2>7 DEF WorkAgrees
<1>3. QED
    BY <1>1, <1>2

LEMMA JobStays ==
    ASSUME Ground, NEW v \in Upload, JobAgrees(v), Steady(v),
           QP!Tracked(v)' => QP!Tracked(v), QP!Tracked(v) => QP!Tracked(v)' \/ Final(v)
    PROVE  JobAgrees(v)'
<1>1. /\ Final(v) => Final(v)'
      /\ \A s : Follows(v, s) => Follows(v, s)'
      /\ adm'[v] = "no" => adm[v] = "no"
      /\ QP!NoJob.status = "none"
    BY DEF Steady, Final, Follows, Exists, Done, QP!NoJob
<1>2. up'[v] \in {"accepted", "rejected"} /\ adm'[v] = "no" /\ rows'[v] \in {"pending", "processing"}
          => QP!Tracked(v)'
    BY <1>1 DEF Steady, JobAgrees, Final, Done
<1>3. jobs'[v].status \in Done =>
          /\ Final(v)'
          /\ \/ jobs'[v].attempts > MAX_ATTEMPTS
             \/ up'[v] = "accepted" /\ Exists(v)' => rows'[v] = jobs'[v].status
    <2>1. CASE jobs'[v].status \in Done
        <3>1. jobs'[v] = jobs[v]
            BY <1>1, <2>1 DEF Steady, Done
        <3>2. QED
            BY <1>1, <2>1, <3>1 DEF JobAgrees, Follows
    <2>2. QED
        BY <2>1
<1>4. jobs'[v].status = "none" /\ QP!Tracked(v)' => Final(v)'
    BY <1>1 DEF Steady, JobAgrees, Final
<1>5. QED
    BY <1>2, <1>3, <1>4 DEF JobAgrees, Follows

\* The lists, whoever moves: a job goes by an ack of its holder and comes by its enqueue.
LEMMA TrackedMoves ==
    ASSUME Ground, AgreeInv, [Next]_vars, NEW v \in Upload
    PROVE  /\ QP!Tracked(v)' => QP!Tracked(v) \/ (enqueued[v] = "no" /\ enqueued'[v] # "no")
           /\ QP!Tracked(v) => QP!Tracked(v)' \/ Final(v)
<1> USE NoneAssumption, AttemptsAssumption, BoundsAssumption
<1>1. [QP!Next]_QP!vars
    BY StepIsQueueStep, SameNext DEF queueVars, Q!vars
<1>2. QP!Tracked(v)' => QP!Tracked(v) \/ (enqueued[v] = "no" /\ enqueued'[v] # "no")
    BY <1>1, QP!StepTracks DEF Ground
<1>3. QP!Tracked(v) => QP!Tracked(v)' \/ \E w \in Worker : held[w] = v /\ pc[w] \in {"ack", "drop"}
    BY <1>1, QP!StepKeeps DEF Ground
<1>4. QED
    BY <1>2, <1>3 DEF AgreeInv, WorkAgrees

\* A step of handle_job, as far as the agreement of row and status looks at it.
HandlerMove(w) ==
    /\ pc[w] = "handle"
    /\ UNCHANGED <<queue, processing, jobs, held, copy, up, adm>>
    /\ \A x \in Worker \ {w} : /\ pc'[x] = pc[x] /\ goal'[x] = goal[x]
                               /\ step'[x] = step[x] /\ seen'[x] = seen[x]
    /\ \/ rows' = rows
       \/ Exists(held[w]) /\ rows' = [rows EXCEPT ![held[w]] = Wanted(w)]
    /\ \/ /\ pc'[w] = "handle" /\ goal'[w] = goal[w]
          /\ step'[w] = "commit" => rows' = rows /\ seen'[w] = rows[held[w]]
       \/ pc'[w] = "release"
       \/ pc'[w] = "ack" /\ step[w] = "remove_thumbnail" /\ rows' = rows
       \/ /\ pc'[w] = "tell" /\ goal'[w] = Wanted(w) /\ Wanted(w) \in Done
          /\ \/ rows'[held[w]] = Wanted(w)
             \/ ~Exists(held[w]) /\ rows' = rows
             \/ step[w] = "commit" /\ seen[w] = Wanted(w) /\ rows' = rows

LEMMA HandlerMoves ==
    ASSUME QP!TypeOK, OwnTypes, NEW w \in Worker, HandlerStep(w)
    PROVE  HandlerMove(w)
<1> USE DEF HandlerMove, OwnTypes, At, Move, ResetHandler, queueVars, QP!TypeOK, QP!ThreadOK
<1>1. pc[w] = "handle"
    BY DEF HandlerStep, HandlerWork, SelectRow, SelectMissing, CommitRow, CommitStale, FetchSource,
           SourceUnusable, PutThumbnail, RemoveFile, RemoveThumbnail, Outage, Q!Raise
<1>2. held[w] \in Upload
    BY <1>1, HandlingTypes
<1>3. ASSUME RowDone(w)
      PROVE  /\ UNCHANGED <<queue, processing, jobs, held, copy>>
             /\ \A x \in Worker \ {w} : /\ pc'[x] = pc[x] /\ goal'[x] = goal[x]
                                        /\ step'[x] = step[x] /\ seen'[x] = seen[x]
             /\ \/ pc'[w] = "handle" /\ goal'[w] = goal[w] /\ step'[w] = "fetch"
                \/ pc'[w] = "tell" /\ goal'[w] = Wanted(w) /\ Wanted(w) \in Done
    BY <1>1, <1>3 DEF RowDone, Q!Conclude, Q!Goto, Q!calls, Q!redis, Q!Finished, Done
<1>4. CASE SelectRow(w) \/ FetchSource(w) \/ SourceUnusable(w) \/ PutThumbnail(w) \/ RemoveFile(w)
    BY <1>1, <1>4 DEF SelectRow, FetchSource, SourceUnusable, PutThumbnail, RemoveFile
<1>5. CASE SelectMissing(w)
    BY <1>1, <1>3, <1>5 DEF SelectMissing
<1>6. CASE CommitRow(w)
    BY <1>1, <1>2, <1>3, <1>6 DEF CommitRow, UpdateRow, Unchanged
<1>7. CASE CommitStale(w) \/ RemoveThumbnail(w) \/ Outage(w)
    <2>1. /\ UNCHANGED <<queue, processing, jobs, held, copy, goal>>
          /\ pc'[w] = "release" \/ (pc'[w] = "ack" /\ RemoveThumbnail(w))
          /\ \A x \in Worker \ {w} : pc'[x] = pc[x]
        BY <1>7
        DEF CommitStale, RemoveThumbnail, Outage, Q!Raise, Q!ConcludeGone, Q!Goto, Q!locals,
                    Q!redis, Q!calls
    <2>2. QED
        BY <1>1, <1>7, <2>1 DEF CommitStale, RemoveThumbnail, Outage, UpdateRow
<1>8. QED
    BY <1>4, <1>5, <1>6, <1>7 DEF HandlerStep, HandlerWork

LEMMA HandlerAgrees ==
    ASSUME Ground, AgreeInv, NEW w \in Worker, HandlerMove(w)
    PROVE  AgreeInv'
<1> USE DEF HandlerMove
<1>1. QP!Handling(w)
    BY DEF QP!Handling
<1>2. PICK v \in Upload : v = held[w]
    BY <1>1, HandsAlone
<1>3. /\ QP!Tracked(v) /\ WorkAgrees(w) /\ JobAgrees(v)
      /\ \A x \in Worker \ {w} : QP!Handling(x) => held[x] # v
      /\ \A u \in Upload : QP!Tracked(u)' <=> QP!Tracked(u)
    BY <1>1, <1>2, HandsAlone DEF AgreeInv, QP!Tracked, QP!InQueue, QP!InList
<1>4. rows' \in [Upload -> RowStates] /\ Wanted(w) \in {"processing", "completed", "failed"}
    BY <1>2 DEF Ground, HandlerInv, OwnTypes, Wanted, RowStates
<1>5. \A u \in Upload \ {v} : Steady(u)
    BY <1>2 DEF Steady, Ground, OwnTypes
<1>6. \A u \in Upload \ {v} : JobAgrees(u)'
    BY <1>3, <1>5, JobStays DEF AgreeInv
<1>7. \A x \in Worker \ {w} : WorkAgrees(x)'
    BY <1>2, <1>3, <1>5, WorkStays, HandsAlone DEF AgreeInv
<1>8. rows[v] # "none" /\ (~Exists(v) => adm[v] # "no")
    <2>1. rows[v] \notin {"none"}
        BY <1>1, <1>2, HandsAlone DEF Ground, RowsInv
    <2>2. QED
        BY <2>1 DEF Ground, RowsInv, Exists
<1>9. CASE rows' = rows
    <2>1. JobAgrees(v)'
        BY <1>3, <1>9, JobStays DEF Steady
    <2>2. WorkAgrees(w)'
        <3>1. CASE pc'[w] = "handle" /\ goal'[w] = goal[w]
            BY <1>2, <1>3, <1>9, <3>1 DEF WorkAgrees
        <3>2. CASE pc'[w] = "release"
            BY <3>2 DEF WorkAgrees
        <3>3. CASE pc'[w] = "ack" /\ step[w] = "remove_thumbnail"
            BY <1>2, <1>9, <3>3 DEF WorkAgrees, Final, Ground, HandlerInv, RowsInv
        <3>4. CASE /\ pc'[w] = "tell" /\ goal'[w] = Wanted(w) /\ Wanted(w) \in Done
                   /\ \/ rows'[held[w]] = Wanted(w)
                      \/ ~Exists(held[w])
                      \/ step[w] = "commit" /\ seen[w] = Wanted(w)
            <4>1. Final(v) /\ Follows(v, Wanted(w))
                BY <1>2, <1>3, <1>8, <1>9, <3>4 DEF WorkAgrees, Final, Follows, Done
            <4>2. QED
                BY <1>2, <1>9, <3>4, <4>1 DEF WorkAgrees, Final, Follows, Exists, Done
        <3>5. QED
            BY <3>1, <3>2, <3>3, <3>4
    <2>3. QED
        BY <1>6, <1>7, <2>1, <2>2 DEF AgreeInv
<1>10. CASE Exists(v) /\ rows'[v] = Wanted(w) /\ rows' # rows
    <2>1. Wanted(w) = "processing" => goal[w] = "processing"
        BY <1>2 DEF Wanted, Ground, OwnTypes
    <2>2. goal[w] \in {"processing", "failed"}
        BY DEF Ground, HandlerInv, Wanted
    <2>3. JobAgrees(v)'
        <3>1. CASE goal[w] = "processing"
            BY <1>2, <1>3, <1>4, <1>10, <3>1 DEF WorkAgrees, JobAgrees, Final, Done
        <3>2. CASE goal[w] = "failed"
            BY <1>2, <1>3, <1>4, <1>10, <2>1, <3>2 DEF WorkAgrees, JobAgrees, Final, Done
        <3>3. QED
            BY <2>2, <3>1, <3>2
    <2>4. WorkAgrees(w)'
        <3>1. CASE pc'[w] = "handle" /\ goal'[w] = goal[w] /\ step'[w] # "commit"
            BY <1>2, <1>3, <3>1 DEF WorkAgrees
        <3>2. CASE pc'[w] = "release"
            BY <3>2 DEF WorkAgrees
        <3>3. CASE pc'[w] = "tell" /\ goal'[w] = Wanted(w) /\ Wanted(w) \in Done
            BY <1>2, <1>10, <3>3 DEF WorkAgrees, Final, Follows, Exists, Done
        <3>4. QED
            BY <1>10, <3>1, <3>2, <3>3
    <2>5. QED
        BY <1>6, <1>7, <2>3, <2>4 DEF AgreeInv
<1>11. QED
    BY <1>2, <1>9, <1>10 DEF Ground, OwnTypes

\* A step of the queue alone, as far as the agreement of row and status looks at it: the thread
\* of w goes on with the job it has in hand, leaves it, or stands still.
WorkMove(w) ==
    /\ UNCHANGED <<rows, up, adm, enqueued>>
    /\ \A x \in Worker \ {w} : /\ pc'[x] = pc[x] /\ held'[x] = held[x] /\ copy'[x] = copy[x]
                               /\ goal'[x] = goal[x] /\ step'[x] = step[x] /\ seen'[x] = seen[x]
    /\ \/ jobs' = jobs
       \/ pc[w] \in {"count", "save"} /\ jobs' = [jobs EXCEPT ![held[w]] = copy[w]]
    /\ \/ UNCHANGED <<jobs, pc, held, copy, goal, step, seen>>
       \/ pc'[w] \notin {"drop", "count", "tell", "save", "handle", "ack"}
       \/ /\ held'[w] = held[w] /\ step'[w] = "select"
          /\ \/ /\ pc[w] = "load" /\ jobs' = jobs
                /\ IF jobs[held[w]] = Q!NoJob
                   THEN pc'[w] = "drop"
                   ELSE /\ pc'[w] = "count"
                        /\ copy'[w] = [jobs[held[w]] EXCEPT !.attempts = Q!Bump(@)]
             \/ /\ pc[w] = "count" /\ jobs' = [jobs EXCEPT ![held[w]] = copy[w]]
                /\ IF copy[w].attempts > MAX_ATTEMPTS
                   THEN pc'[w] = "handle" /\ goal'[w] = "failed"
                   ELSE pc'[w] = "tell" /\ goal'[w] = "processing"
             \/ /\ pc[w] = "tell" /\ goal'[w] = goal[w] /\ jobs' = jobs
                /\ IF jobs[held[w]] = Q!NoJob
                   THEN pc'[w] = Q!AfterTell(w)
                   ELSE /\ pc'[w] = "save"
                        /\ copy'[w] = [jobs[held[w]] EXCEPT !.status = goal[w]]
             \/ /\ pc[w] = "save" /\ goal'[w] = goal[w]
                /\ jobs' = [jobs EXCEPT ![held[w]] = copy[w]]
                /\ pc'[w] = Q!AfterTell(w)

LEMMA WorkMoves ==
    ASSUME Ground, NEW w \in Worker, QueueOnly(w) \/ ProcessEnds(w), Q!NoFalseSuspicion'
    PROVE  WorkMove(w)
<1> USE DEF Q!Goto, Q!Leave, Q!locals, Q!thread, Q!redis, Q!calls, handler, Ground,
            QP!TypeOK, QP!ThreadOK, QP!RestOK, OwnTypes
<1> DEFINE Others ==
              /\ UNCHANGED <<rows, up, adm, enqueued>>
              /\ \A x \in Worker \ {w} :
                    /\ pc'[x] = pc[x] /\ held'[x] = held[x] /\ copy'[x] = copy[x]
                    /\ goal'[x] = goal[x] /\ step'[x] = step[x] /\ seen'[x] = seen[x]
           Idle == pc'[w] \notin {"drop", "count", "tell", "save", "handle", "ack"}
           Still == UNCHANGED <<jobs, pc, held, copy, goal, step, seen>>
<1>1. pc[w] # "handle" => step[w] = "select"
    BY DEF HandlerInv
<1>2. Others /\ jobs' = jobs /\ (Idle \/ Still) => WorkMove(w)
    BY DEF WorkMove
<1>3. CASE QueueWork(w) /\ UNCHANGED <<rows, handler, up, adm>>
    <2>1. CASE Q!LoopTop(w) \/ Q!Heartbeat(w) \/ Q!Claim(w) \/ Q!ClaimTimeout(w)
        <3>1. Others /\ Idle
            BY <1>3, <2>1 DEF Q!LoopTop, Q!Heartbeat, Q!Claim, Q!ClaimTimeout
        <3>2. jobs' = jobs
            BY <2>1 DEF Q!LoopTop, Q!Heartbeat, Q!Claim, Q!ClaimTimeout, Q!SetHeartbeat,
                        Q!MoveToOwn
        <3>3. QED
            BY <1>2, <3>1, <3>2
    <2>2. CASE Q!Load(w) \/ Q!LoadMissing(w)
        <3>1. Others /\ jobs' = jobs /\ held'[w] = held[w] /\ step'[w] = "select" /\ pc[w] = "load"
            BY <1>1, <1>3, <2>2 DEF Q!Load, Q!LoadMissing
        <3>2. IF jobs[held[w]] = Q!NoJob
              THEN pc'[w] = "drop"
              ELSE /\ pc'[w] = "count"
                   /\ copy'[w] = [jobs[held[w]] EXCEPT !.attempts = Q!Bump(@)]
            BY <2>2 DEF Q!Load, Q!LoadMissing
        <3>3. QED
            BY <3>1, <3>2 DEF WorkMove
    <2>3. CASE Q!Tell(w)
        BY <1>1, <1>3, <2>3 DEF Q!Tell, WorkMove
    <2>4. CASE Q!Count(w)
        BY <1>1, <1>3, <2>4 DEF Q!Count, Q!SetJob, WorkMove
    <2>5. CASE Q!Save(w)
        BY <1>1, <1>3, <2>5 DEF Q!Save, Q!SetJob, WorkMove
    <2>6. CASE Q!Drop(w) \/ Q!Ack(w) \/ Q!Release(w)
        <3>1. Others /\ Idle
            BY <1>3, <2>6 DEF Q!Drop, Q!Ack, Q!Release
        <3>2. jobs' = jobs
            BY <2>6 DEF Q!Drop, Q!Ack, Q!Release, Q!RemoveOwn, Q!GiveBack
        <3>3. QED
            BY <1>2, <3>1, <3>2
    <2>7. QED
        BY <1>3, <2>1, <2>2, <2>3, <2>4, <2>5, <2>6 DEF QueueWork
<1>4. CASE (Q!WatchStep(w) \/ Q!WatchFails(w)) /\ UNCHANGED <<rows, handler, up, adm>>
    <2>1. Others /\ Still
        BY <1>4 DEF Q!WatchStep, Q!WatchTop, Q!WatchBeat, Q!SweepBegin, Q!SweepMove, Q!SweepEnd,
                    Q!ScanEnd, Q!WatchFails, Q!SetHeartbeat, Q!MoveBack
    <2>2. QED
        BY <1>2, <2>1
<1>5. CASE Q!CallFails(w) /\ UNCHANGED <<rows, handler, up, adm>>
    <2>1. \/ jobs' = jobs
          \/ pc[w] \in {"count", "save"} /\ jobs' = [jobs EXCEPT ![held[w]] = copy[w]]
        BY <1>5 DEF Q!CallFails, Q!Command, Q!SetHeartbeat, Q!MoveToOwn, Q!SetJob, Q!RemoveOwn,
                    Q!GiveBack
    <2>2. Others /\ Idle
        BY <1>5 DEF Q!CallFails
    <2>3. QED
        BY <2>1, <2>2 DEF WorkMove
<1>6. ~Q!Resend(w)
    BY DEF Q!Resend, Q!NoFalseSuspicion
<1>7. CASE /\ \/ Q!Start(w) \/ Q!Stop(w) \/ Q!Retire(w) \/ Q!RetireFails(w)
              \/ Q!Expire(w) \/ Q!Lapse(w)
           /\ UNCHANGED <<rows, handler, up, adm>>
    <2>1. Others /\ jobs' = jobs
        BY <1>7 DEF Q!Start, Q!Stop, Q!Retire, Q!RetireFails, Q!Expire, Q!Lapse
    <2>2. Idle \/ Still
        BY <1>7 DEF Q!Start, Q!Stop, Q!Retire, Q!RetireFails, Q!Expire, Q!Lapse
    <2>3. QED
        BY <1>2, <2>1, <2>2
<1>8. CASE ProcessEnds(w)
    <2>1. Q!End(w) /\ ResetHandler(w) /\ UNCHANGED <<rows, up, adm>>
        BY <1>8 DEF ProcessEnds, Q!Exit, Q!Crash
    <2>2. jobs' = jobs /\ Idle
        BY <2>1 DEF Q!End
    <2>3. Others
        BY <2>1 DEF ResetHandler, Q!End
    <2>4. QED
        BY <1>2, <2>2, <2>3
<1>9. QED
    BY <1>3, <1>4, <1>5, <1>6, <1>7, <1>8 DEF QueueOnly, QueueOther, Q!FaultStep

LEMMA WorkKeepsAgreement ==
    ASSUME Ground, AgreeInv, [Next]_vars, NEW w \in Worker, WorkMove(w)
    PROVE  AgreeInv'
<1> USE DEF WorkMove
<1>1. /\ QP!Handling(w) => held[w] \in Upload
      /\ \A x \in Worker \ {w} : QP!Handling(x) /\ QP!Handling(w) => held[x] # held[w]
    BY HandsAlone
<1>2. \A u \in Upload : /\ QP!Tracked(u)' => QP!Tracked(u)
                        /\ QP!Tracked(u) => QP!Tracked(u)' \/ Final(u)
    BY TrackedMoves
<1>3. \A u \in Upload : jobs'[u] = jobs[u] => Steady(u)
    BY DEF Steady
<1>4. \A u \in Upload : jobs'[u] = jobs[u] => JobAgrees(u)'
    BY <1>2, <1>3, JobStays DEF AgreeInv
<1>5. \A x \in Worker \ {w} : WorkAgrees(x)'
    <2>1. ASSUME NEW x \in Worker \ {w}, QP!Handling(x) PROVE Steady(held[x])
        <3>1. jobs' = jobs \/ (QP!Handling(w) /\ jobs' = [jobs EXCEPT ![held[w]] = copy[w]])
            BY DEF QP!Handling
        <3>2. held[x] \in Upload /\ jobs'[held[x]] = jobs[held[x]]
            BY <1>1, <2>1, <3>1, HandsAlone DEF Ground, QP!TypeOK, QP!RedisOK
        <3>3. QED
            BY <1>3, <3>2
    <2>2. QED
        BY <2>1, WorkStays DEF AgreeInv
<1>6. WorkAgrees(w) /\ (QP!Handling(w) => JobAgrees(held[w]) /\ QP!Tracked(held[w]))
    BY <1>1, HandsAlone DEF AgreeInv
<1>7. \A u \in Upload : JobAgrees(u)'
    <2>1. CASE jobs' = jobs
        BY <1>4, <2>1
    <2>2. CASE pc[w] \in {"count", "save"} /\ jobs' = [jobs EXCEPT ![held[w]] = copy[w]]
        <3>1. PICK v \in Upload : v = held[w]
            BY <1>1, <2>2 DEF QP!Handling
        <3>2. jobs'[v] = copy[w] /\ copy[w].status # "none" /\ \A u \in Upload \ {v} : jobs'[u] = jobs[u]
            BY <2>2, <3>1 DEF Ground, QP!TypeOK, QP!RedisOK, QP!ThreadOK, QP!Job, QP!Statuses
        <3>3. copy[w].status \in Done =>
                  Final(v) /\ (copy[w].attempts > MAX_ATTEMPTS \/ Follows(v, copy[w].status))
            BY <1>6, <2>2, <3>1 DEF WorkAgrees, Done
        <3>4. JobAgrees(v)'
            <4>1. up'[v] \in {"accepted", "rejected"} /\ adm'[v] = "no" /\ rows'[v] \in {"pending", "processing"}
                     => QP!Tracked(v)'
                BY <1>2, <1>6, <2>2, <3>1 DEF QP!Handling, Final, Done
            <4>2. QED
                BY <3>2, <3>3, <4>1 DEF JobAgrees, Final, Follows, Exists
        <3>5. QED
            BY <1>4, <3>2, <3>4
    <2>3. QED
        BY <2>1, <2>2
<1>8. WorkAgrees(w)'
    <2>1. CASE UNCHANGED <<jobs, pc, held, copy, goal, step, seen>>
        BY <1>6, <2>1 DEF WorkAgrees, Final, Follows, Exists
    <2>2. CASE pc'[w] \notin {"drop", "count", "tell", "save", "handle", "ack"}
        BY <2>2 DEF WorkAgrees
    <2>3. ASSUME held'[w] = held[w], step'[w] = "select", pc[w] \in {"load", "count", "tell", "save"}
          PROVE  /\ held[w] \in Upload /\ QP!Tracked(held[w]) /\ JobAgrees(held[w])
                 /\ goal[w] \in {"none", "processing", "completed", "failed"}
                 /\ pc[w] \in {"tell", "save"} => goal[w] # "none"
                 /\ pc[w] \in {"count", "save"} => copy[w] \in QP!Job
                 /\ jobs[held[w]] = Q!NoJob <=> jobs[held[w]].status = "none"
                 /\ jobs[held[w]] \in QP!Job \cup {QP!NoJob}
                 /\ Final(held[w])' <=> Final(held[w])
                 /\ \A s : Follows(held[w], s)' <=> Follows(held[w], s)
        BY <1>1, <1>6, <2>3, JobTypes DEF QP!Handling, Ground, QP!TypeOK, QP!ThreadOK, QP!RedisOK,
           Final, Follows, Exists
    <2>4. CASE /\ held'[w] = held[w] /\ step'[w] = "select" /\ pc[w] = "load" /\ jobs' = jobs
               /\ IF jobs[held[w]] = Q!NoJob
                  THEN pc'[w] = "drop"
                  ELSE pc'[w] = "count" /\ copy'[w] = [jobs[held[w]] EXCEPT !.attempts = Q!Bump(@)]
        BY <2>3, <2>4 DEF WorkAgrees, JobAgrees, Q!Bump, QP!Job, QP!NoJob, QP!Counts, Q!NoJob, Done
    <2>5. CASE /\ held'[w] = held[w] /\ step'[w] = "select"
               /\ pc[w] = "count" /\ jobs' = [jobs EXCEPT ![held[w]] = copy[w]]
               /\ IF copy[w].attempts > MAX_ATTEMPTS
                  THEN pc'[w] = "handle" /\ goal'[w] = "failed"
                  ELSE pc'[w] = "tell" /\ goal'[w] = "processing"
        BY <2>3, <2>5 DEF WorkAgrees, QP!Job, QP!Statuses, Ground, QP!TypeOK, QP!RedisOK
    <2>6. CASE /\ held'[w] = held[w] /\ step'[w] = "select"
               /\ pc[w] = "tell" /\ goal'[w] = goal[w] /\ jobs' = jobs
               /\ IF jobs[held[w]] = Q!NoJob
                  THEN pc'[w] = Q!AfterTell(w)
                  ELSE pc'[w] = "save" /\ copy'[w] = [jobs[held[w]] EXCEPT !.status = goal[w]]
        BY <1>6, <2>3, <2>6 DEF WorkAgrees, Q!AfterTell, QP!Job, QP!NoJob, Q!NoJob, Done
    <2>7. CASE /\ held'[w] = held[w] /\ step'[w] = "select"
               /\ pc[w] = "save" /\ goal'[w] = goal[w]
               /\ jobs' = [jobs EXCEPT ![held[w]] = copy[w]] /\ pc'[w] = Q!AfterTell(w)
        BY <1>6, <2>3, <2>7 DEF WorkAgrees, Q!AfterTell, QP!Job, QP!Statuses, Ground, QP!TypeOK,
           QP!RedisOK, Done
    <2>8. QED
        BY <2>1, <2>2, <2>4, <2>5, <2>6, <2>7
<1>9. QED
    BY <1>5, <1>7, <1>8 DEF AgreeInv

\* The enqueue of an upload request.
LEMMA RequestPushes ==
    ASSUME Ground, NEW v \in Upload, UploadStep(v), Q!NoFalseSuspicion'
    PROVE  \/ UNCHANGED <<jobs, queue, processing>>
           \/ /\ enqueued[v] = "no" /\ QP!PushNew(v)
              /\ QP!Tracked(v)' /\ jobs'[v].status = "pending"
              /\ \A u \in Upload \ {v} : jobs'[u] = jobs[u]
<1> USE NoneAssumption, AttemptsAssumption, BoundsAssumption
<1>1. ~EnqueueTwice(v)
    BY DEF EnqueueTwice, Q!EnqueueResend, Q!NoFalseSuspicion, Ground, QP!TypeOK, QP!RestOK
<1>2. UNCHANGED <<jobs, queue, processing>> \/ (enqueued[v] \in {"no", "sent"} /\ QP!PushNew(v))
    BY <1>1 DEF UploadStep, CreateRow, ReloadRow, StoreFile, StoreFails, EnqueueJob,
       EnqueueRaises, RejectUpload, UploadDies, Q!Enqueue, Q!EnqueueFails, Q!PushNew,
       QP!PushNew, Q!redis, queueVars
<1>3. CASE enqueued[v] \in {"no", "sent"} /\ QP!PushNew(v)
    <2>1. enqueued[v] = "no" /\ ~QP!Tracked(v)
        BY <1>3, HandsAlone DEF Ground, QP!Ownership, QP!NewIsUnknown
    <2>2. QP!InQueue(v)'
        BY <1>3, <2>1, QP!EnqueueMoves DEF Ground, QP!Ownership, QP!TypeOK
    <2>3. jobs'[v].status = "pending" /\ \A u \in Upload \ {v} : jobs'[u] = jobs[u]
        BY <1>3 DEF QP!PushNew, Ground, QP!TypeOK, QP!RedisOK
    <2>4. QED
        BY <1>3, <2>1, <2>2, <2>3 DEF QP!Tracked
<1>4. QED
    BY <1>2, <1>3

LEMMA UploadAgrees ==
    ASSUME Ground, AgreeInv, [Next]_vars, NEW v \in Upload, UploadStep(v), Q!NoFalseSuspicion'
    PROVE  AgreeInv'
<1> USE NoneAssumption, AttemptsAssumption, BoundsAssumption DEF UploadAt, queueVars, handler
<1>1. UNCHANGED <<pc, held, copy, goal, step, seen>>
    BY CallsLeaveWorkers
<1>2. \A u \in Upload \ {v} : Steady(u) /\ enqueued'[u] = enqueued[u]
    <2>1. adm' = adm /\ \A u \in Upload \ {v} : rows'[u] = rows[u] /\ up'[u] = up[u]
        BY DEF UploadStep, CreateRow, ReloadRow, StoreFile, StoreFails, EnqueueJob, EnqueueTwice,
               EnqueueRaises, RejectUpload, UploadDies, Ground, OwnTypes
    <2>2. \A u \in Upload \ {v} : jobs'[u] = jobs[u] /\ enqueued'[u] = enqueued[u]
        BY DEF UploadStep, CreateRow, ReloadRow, StoreFile, StoreFails, EnqueueJob, EnqueueTwice,
               EnqueueRaises, RejectUpload, UploadDies, Q!Enqueue, Q!EnqueueFails,
               Q!EnqueueResend, Q!PushNew, Q!redis, Ground, QP!TypeOK, QP!RestOK, QP!RedisOK
    <2>3. QED
        BY <2>1, <2>2 DEF Steady
<1>3. \A u \in Upload : /\ QP!Tracked(u)' => QP!Tracked(u) \/ (enqueued[u] = "no" /\ enqueued'[u] # "no")
                        /\ QP!Tracked(u) => QP!Tracked(u)' \/ Final(u)
    BY TrackedMoves
<1>4. \A u \in Upload \ {v} : JobAgrees(u)'
    BY <1>2, <1>3, JobStays DEF AgreeInv
<1>5. ~EnqueueTwice(v)
    BY DEF EnqueueTwice, Q!EnqueueResend, Q!NoFalseSuspicion, Ground, QP!TypeOK, QP!RestOK
<1>6. (Steady(v) /\ enqueued'[v] = enqueued[v]) \/ enqueued[v] = "no"
    <2>1. enqueued[v] # "sent" /\ (enqueued[v] # "no" => up[v] \notin {"no", "created", "storing"})
        BY DEF Ground, QP!Ownership, QP!NewIsUnknown, RowsInv
    <2>2. enqueued[v] # "no" => UNCHANGED <<jobs, enqueued, adm>>
        BY <1>5, <2>1 DEF UploadStep, CreateRow, ReloadRow, StoreFile, StoreFails, EnqueueJob,
               EnqueueRaises, RejectUpload, UploadDies, Q!Enqueue, Q!EnqueueFails
    <2>3. enqueued[v] # "no" =>
              /\ rows'[v] = rows[v] \/ (rows'[v] = "failed" /\ up'[v] = "rejected")
              /\ \/ up'[v] = up[v]
                 \/ up'[v] = "rejected" /\ rows'[v] \notin {"pending", "processing"}
                 \/ up'[v] \notin {"accepted", "rejected"}
        BY <1>5, <2>1 DEF UploadStep, CreateRow, ReloadRow, StoreFile, StoreFails, EnqueueJob,
               EnqueueRaises, RejectUpload, UploadDies, Q!Enqueue, Q!EnqueueFails, Ground,
               OwnTypes, Exists
    <2>4. QED
        BY <2>2, <2>3 DEF Steady
<1>7. CASE Steady(v) /\ enqueued'[v] = enqueued[v]
    <2>1. JobAgrees(v)'
        BY <1>3, <1>7, JobStays DEF AgreeInv
    <2>2. \A x \in Worker : WorkAgrees(x)'
        BY <1>1, <1>2, <1>7, WorkStays, HandsAlone DEF AgreeInv
    <2>3. QED
        BY <1>4, <2>1, <2>2 DEF AgreeInv
<1>8. CASE enqueued[v] = "no"
    <2>1. ~QP!Tracked(v) /\ jobs[v].status = "none" /\ \A x \in Worker : QP!Handling(x) => held[x] # v
        BY <1>8, HandsAlone DEF QP!NoJob
    <2>2. \A x \in Worker : WorkAgrees(x)'
        BY <1>1, <1>2, <2>1, WorkStays, HandsAlone DEF AgreeInv
    <2>3. JobAgrees(v)' => AgreeInv'
        BY <1>4, <2>2 DEF AgreeInv
    <2>4. CASE UNCHANGED <<jobs, queue, processing>>
        <3>1. ~QP!Tracked(v)'
            BY <2>1, <2>4 DEF QP!Tracked, QP!InQueue, QP!InList
        <3>2. ~EnqueueJob(v)
            BY <2>1, <2>4 DEF EnqueueJob, Q!Enqueue, Q!PushNew, Ground, QP!TypeOK, QP!RedisOK
        <3>3. ~(up'[v] \in {"accepted", "rejected"} /\ rows'[v] \in {"pending", "processing"})
            BY <1>5, <3>2 DEF UploadStep, CreateRow, ReloadRow, StoreFile, StoreFails,
               EnqueueRaises, RejectUpload, UploadDies, Exists, Ground, OwnTypes
        <3>4. QED
            BY <2>1, <2>3, <2>4, <3>1, <3>3 DEF JobAgrees, Done
    <2>5. CASE QP!Tracked(v)' /\ jobs'[v].status = "pending"
        BY <2>3, <2>5 DEF JobAgrees, Done
    <2>6. QED
        BY <2>4, <2>5, RequestPushes
<1>9. QED
    BY <1>6, <1>7, <1>8

LEMMA PurgeAgrees ==
    ASSUME Ground, AgreeInv, [Next]_vars, NEW v \in Upload, PurgeStep(v) \/ StatusExpires(v)
    PROVE  AgreeInv'
<1> USE DEF PurgeAt, queueVars, handler
<1>1. UNCHANGED <<pc, held, copy, goal, step, seen>>
    BY CallsLeaveWorkers
<1> DEFINE Only ==
      /\ UNCHANGED <<up, enqueued>>
      /\ \A u \in Upload \ {v} : adm'[u] = adm[u] /\ rows'[u] = rows[u] /\ jobs'[u] = jobs[u]
      /\ \/ rows'[v] = rows[v] /\ adm'[v] = adm[v]
         \/ rows'[v] \in {rows[v], "gone"} /\ adm'[v] # "no"
      /\ \/ jobs'[v] = jobs[v]
         \/ jobs'[v] = QP!NoJob /\ adm'[v] # "no"
         \/ /\ jobs'[v] = QP!NoJob /\ jobs[v].status \in Done
            /\ \A x \in Worker : held[x] = v => pc[x] \notin {"tell", "save"}
<1>2. Only
    <2>0. /\ rows \in [Upload -> RowStates] /\ jobs \in [Upload -> QP!Job \cup {QP!NoJob}]
          /\ adm \in [Upload -> {"no", "file", "thumbnail", "forget", "forgetting", "commit",
                                 "aborted", "done"}]
        BY DEF Ground, OwnTypes, QP!TypeOK, QP!RedisOK
    <2>1. ASSUME UNCHANGED <<rows, enqueued, up>>,
                 \E to \in {"file", "thumbnail", "forget", "forgetting", "commit", "aborted"} :
                     adm' = [adm EXCEPT ![v] = to],
                 jobs' \in {jobs, [jobs EXCEPT ![v] = QP!NoJob]}
          PROVE  Only
        BY <2>0, <2>1
    <2>2. CASE PurgeBegin(v) \/ PurgeFile(v) \/ PurgeThumbnail(v) \/ PurgeAborts(v)
        BY <2>1, <2>2 DEF PurgeBegin, PurgeFile, PurgeThumbnail, PurgeAborts
    <2>3. CASE PurgeForgetRead(v) \/ PurgeForgetDelete(v) \/ PurgeForgetFails(v)
        <3>1. jobs' \in {jobs, [jobs EXCEPT ![v] = QP!NoJob]} /\ UNCHANGED enqueued
            BY <2>3 DEF PurgeForgetRead, PurgeForgetDelete, PurgeForgetFails, Q!ForgetRead,
                        Q!ForgetDelete, Q!ForgetFails, Q!redis, Q!DropStatus, Q!NoJob, QP!NoJob
        <3>2. QED
            BY <2>1, <2>3, <3>1 DEF PurgeForgetRead, PurgeForgetDelete, PurgeForgetFails
    <2>4. CASE PurgeDies(v)
        BY <2>1, <2>4 DEF PurgeDies, Q!ForgetAbandoned, Q!redis
    <2>5. CASE PurgeCommit(v)
        BY <2>0, <2>5 DEF PurgeCommit
    <2>6. CASE StatusExpires(v)
        BY <2>0, <2>6 DEF StatusExpires, Q!ExpireStatus, Q!calls, Q!NoJob, QP!NoJob, Q!Finished,
                          Done
    <2>7. QED
        BY <2>2, <2>3, <2>4, <2>5, <2>6 DEF PurgeStep
<1>3. \A u \in Upload : Steady(u)
    BY <1>2 DEF Steady
<1>4. \A u \in Upload : /\ QP!Tracked(u)' => QP!Tracked(u)
                        /\ QP!Tracked(u) => QP!Tracked(u)' \/ Final(u)
    BY <1>2, TrackedMoves
<1>5. \A u \in Upload : JobAgrees(u)'
    BY <1>3, <1>4, JobStays DEF AgreeInv
<1>6. \A x \in Worker : WorkAgrees(x)'
    BY <1>1, <1>3, WorkStays, HandsAlone DEF AgreeInv
<1>7. QED
    BY <1>5, <1>6 DEF AgreeInv

LEMMA StepAgrees ==
    ASSUME Ground, AgreeInv, [Next]_vars, Q!NoFalseSuspicion'
    PROVE  AgreeInv'
<1>1. CASE UNCHANGED vars
    <2>1. \A v \in Upload : JobAgrees(v)'
        BY <1>1 DEF AgreeInv, JobAgrees, Final, Follows, Exists, vars, queueVars, QP!Tracked,
           QP!InQueue, QP!InList
    <2>2. \A w \in Worker : WorkAgrees(w)'
        BY <1>1 DEF AgreeInv, WorkAgrees, Final, Follows, Exists, vars, queueVars, handler
    <2>3. QED
        BY <2>1, <2>2 DEF AgreeInv
<1>2. ASSUME NEW w \in Worker, HandlerStep(w) PROVE AgreeInv'
    BY <1>2, HandlerMoves, HandlerAgrees DEF Ground
<1>3. ASSUME NEW w \in Worker, QueueOnly(w) \/ ProcessEnds(w) PROVE AgreeInv'
    BY <1>3, WorkMoves, WorkKeepsAgreement
<1>4. CASE Next
    BY <1>2, <1>3, <1>4, UploadAgrees, PurgeAgrees DEF Next
<1>5. QED
    BY <1>1, <1>4

\* Suspicion stays once it is there, so that a step without it starts from all of the above.
LEMMA Unsuspected ==
    ASSUME QueueFacts, OwnTypes, FileInv, Q!NoFalseSuspicion => AgreeInv, [Next]_vars,
           Q!NoFalseSuspicion'
    PROVE  Ground /\ AgreeInv /\ Q!NoFalseSuspicion
<1> USE NoneAssumption, AttemptsAssumption, BoundsAssumption
<1>1. [QP!Next]_QP!vars
    BY StepIsQueueStep, SameNext DEF queueVars, Q!vars
<1>2. QP!NoFalseSuspicion'
    BY DEF Q!NoFalseSuspicion, QP!NoFalseSuspicion
<1>3. QP!NoFalseSuspicion
    BY <1>1, <1>2, QP!SuspicionStays DEF QueueFacts
<1>4. QED
    BY <1>3 DEF Ground, QueueFacts, QP!ReturnInv, QP!QueueInv, FileInv, Q!NoFalseSuspicion,
                QP!NoFalseSuspicion

LEMMA AlwaysAgrees == Spec => [](Q!NoFalseSuspicion => AgreeInv)
<1> DEFINE Inv == Q!NoFalseSuspicion => AgreeInv
<1> USE NoneAssumption, AttemptsAssumption, BoundsAssumption
<1>1. Init => Inv
    <2>1. ASSUME Init PROVE QP!NoJob.status = "none" /\ \A u \in Upload : jobs[u].status = "none"
        BY <2>1 DEF Init, Q!Init, Q!NoJob, QP!NoJob
    <2>2. ASSUME Init, NEW v \in Upload PROVE JobAgrees(v)
        <3>1. ~QP!Tracked(v)
            BY <2>2 DEF Init, Q!Init, QP!Tracked, QP!InQueue, QP!InList, QP!Contains
        <3>2. QED
            BY <2>1, <2>2, <3>1 DEF Init, JobAgrees, Done
    <2>3. ASSUME Init, NEW w \in Worker PROVE WorkAgrees(w)
        BY <2>3 DEF Init, Q!Init, WorkAgrees
    <2>4. QED
        BY <2>2, <2>3 DEF AgreeInv
<1>2. QueueFacts /\ OwnTypes /\ FileInv /\ Inv /\ [Next]_vars => Inv'
    <2> SUFFICES ASSUME QueueFacts, OwnTypes, FileInv, Inv, [Next]_vars, Q!NoFalseSuspicion'
                 PROVE  AgreeInv'
        OBVIOUS
    <2>1. QED
        BY Unsuspected, StepAgrees
<1>3. QED
    BY <1>1, <1>2, AlwaysQueue, AlwaysTyped, AlwaysFiles, PTL DEF Spec

\* However many workers and uploads there are, and whatever crashes and fails, a video whose
\* row is pending or processing has its job in the queue or with a worker, until its delete: the
\* status is finished, or gone, only when the row is finished, and an ack comes after both.
THEOREM UnfinishedAreTracked == Spec => []UnfinishedIsTracked
<1>1. (Q!NoFalseSuspicion => AgreeInv) => UnfinishedIsTracked
    BY SameTracked DEF AgreeInv, JobAgrees, UnfinishedIsTracked
<1>2. QED
    BY <1>1, AlwaysAgrees, PTL

\* In the same way the finished status that polls see is that of the row.
THEOREM StatusIsOfTheRow == Spec => []StatusFollowsRow
<1>1. QueueFacts /\ (Q!NoFalseSuspicion => AgreeInv) => StatusFollowsRow
    <2> SUFFICES ASSUME QueueFacts, Q!NoFalseSuspicion, AgreeInv, NEW v \in Upload,
                        up[v] = "accepted", Exists(v), jobs[v].status \in Done,
                        jobs[v].attempts <= MAX_ATTEMPTS
                 PROVE  rows[v] = jobs[v].status
        BY DEF StatusFollowsRow, Done
    <2>1. jobs[v].attempts \in Nat
        BY JobTypes DEF QueueFacts
    <2>2. QED
        BY <2>1, AttemptsAssumption DEF AgreeInv, JobAgrees, Follows
<1>2. QED
    BY <1>1, AlwaysQueue, AlwaysAgrees, PTL

-----------------------------------------------------------------------------
(* A video at rest. *)

\* A step of the system, as far as a video that is at rest looks at it.
Rests(v) ==
    /\ up'[v] = up[v] /\ enqueued'[v] = enqueued[v]
    /\ rows'[v] \in {rows[v], "gone"}
    /\ v \in files' => v \in files
    /\ v \in thumbs' => v \in thumbs
    /\ jobs'[v] \in {jobs[v], Q!NoJob}

LEMMA RestStays ==
    ASSUME Ground, AgreeInv, [Next]_vars, NEW v \in Upload, Settled(v), Q!NoFalseSuspicion'
    PROVE  Settled(v)' /\ Rests(v)
<1>1. /\ up[v] \in {"accepted", "rejected", "lost"} /\ ~QP!Tracked(v)
      /\ \A x \in Worker : QP!Handling(x) => held[x] # v /\ held[x] \in Upload
    BY SameTracked, HandsAlone DEF Settled
<1>2. ASSUME UNCHANGED vars PROVE Rests(v)
    BY <1>2 DEF vars, queueVars, handler, Rests
<1>3. ASSUME NEW w \in Worker, HandlerStep(w) PROVE Rests(v)
    <2>1. HandlerEffect(w) /\ HandlerMove(w)
        BY <1>3, HandlerSteps, HandlerMoves DEF Ground
    <2>2. held[w] # v
        BY <1>1, <2>1 DEF HandlerMove, QP!Handling
    <2>3. QED
        BY <2>1, <2>2 DEF HandlerEffect, HandlerMove, Rests, Ground, OwnTypes
<1>4. ASSUME NEW w \in Worker, QueueOnly(w) \/ ProcessEnds(w) PROVE Rests(v)
    <2>1. WorkMove(w) /\ QueueEffect
        BY <1>4, WorkMoves, QueueSteps DEF Ground, HandlerInv
    <2>2. jobs'[v] = jobs[v]
        BY <1>1, <2>1 DEF WorkMove, QP!Handling, Ground, QP!TypeOK, QP!RedisOK
    <2>3. QED
        BY <2>1, <2>2 DEF QueueEffect, Rests
<1>5. ASSUME NEW u \in Upload, UploadStep(u) PROVE Rests(v)
    <2> USE DEF UploadAt
    <2>0. up[u] \in {"no", "created", "storing", "stored", "failing"}
        BY <1>5 DEF UploadStep, CreateRow, ReloadRow, StoreFile, StoreFails, EnqueueJob,
               EnqueueTwice, EnqueueRaises, RejectUpload, UploadDies
    <2>1. u # v
        BY <1>1, <2>0
    <2>2. jobs'[v] = jobs[v] /\ enqueued'[v] = enqueued[v]
        BY <1>5, <2>1 DEF UploadStep, CreateRow, ReloadRow, StoreFile, StoreFails, EnqueueJob,
               EnqueueTwice, EnqueueRaises, RejectUpload, UploadDies, queueVars, Q!Enqueue,
               Q!EnqueueFails, Q!EnqueueResend, Q!PushNew, Q!redis, Ground, QP!TypeOK,
               QP!RedisOK, QP!RestOK
    <2>3. /\ up'[v] = up[v] /\ rows'[v] = rows[v]
          /\ v \in files' => v \in files
          /\ v \in thumbs' => v \in thumbs
        BY <1>5, <2>1 DEF UploadStep, CreateRow, ReloadRow, StoreFile, StoreFails, EnqueueJob,
               EnqueueTwice, EnqueueRaises, RejectUpload, UploadDies, Ground, OwnTypes
    <2>4. QED
        BY <2>2, <2>3 DEF Rests
<1>6. ASSUME NEW u \in Upload, PurgeStep(u) \/ StatusExpires(u) PROVE Rests(v)
    <2> USE DEF PurgeAt
    <2>1. UNCHANGED <<up, enqueued>> /\ jobs'[v] \in {jobs[v], Q!NoJob}
        <3>1. \/ UNCHANGED <<up, enqueued, jobs>>
              \/ UNCHANGED <<up, enqueued>> /\ jobs' = [jobs EXCEPT ![u] = Q!NoJob]
            BY <1>6 DEF PurgeStep, PurgeBegin, PurgeFile, PurgeThumbnail, PurgeAborts,
               PurgeForgetRead, PurgeForgetDelete, PurgeForgetFails, PurgeCommit, PurgeDies,
               StatusExpires, queueVars, handler, Q!ForgetRead, Q!ForgetDelete, Q!ForgetFails,
               Q!ForgetAbandoned, Q!ExpireStatus, Q!DropStatus, Q!redis, Q!calls
        <3>2. QED
            BY <3>1 DEF Ground, QP!TypeOK, QP!RedisOK
    <2>2. /\ rows'[v] \in {rows[v], "gone"}
          /\ v \in files' => v \in files
          /\ v \in thumbs' => v \in thumbs
        BY <1>6 DEF PurgeStep, PurgeBegin, PurgeFile, PurgeThumbnail, PurgeAborts,
               PurgeForgetRead, PurgeForgetDelete, PurgeForgetFails, PurgeCommit, PurgeDies,
               StatusExpires, Ground, OwnTypes
    <2>3. QED
        BY <2>1, <2>2 DEF Rests
<1>7. Rests(v)
    BY <1>2, <1>3, <1>4, <1>5, <1>6 DEF Next
<1>8. ~QP!Tracked(v)'
    BY <1>1, <1>7, TrackedMoves DEF Rests
<1>9. ~Q!Tracked(v)'
    BY <1>8, SameLists DEF Q!Tracked, QP!Tracked, Q!InQueue, QP!InQueue, Q!InList, QP!InList
<1>10. QED
    BY <1>1, <1>7, <1>9 DEF Settled, Rests

\* The facts that hold of every state, to be taken together with a step.
Known == QueueFacts /\ OwnTypes /\ FileInv /\ (Q!NoFalseSuspicion => AgreeInv)

LEMMA AlwaysKnown == Spec => []Known
    BY AlwaysQueue, AlwaysTyped, AlwaysFiles, AlwaysAgrees, PTL DEF Known

\* Nobody comes back to a video whose request and whose job are through: who has a job in hand
\* has it listed, no list gains a job but by its enqueue, and a request has one outcome.
THEOREM AtRestIsLeftAlone == Spec => LeftAtRest
<1> DEFINE Step == Q!NoFalseSuspicion' => \A v \in Upload : Settled(v) =>
                       /\ Settled(v)'
                       /\ rows'[v] \in {rows[v], "gone"}
                       /\ v \in files' => v \in files
                       /\ v \in thumbs' => v \in thumbs
                       /\ jobs'[v] \in {jobs[v], Q!NoJob}
<1>1. Known /\ [Next]_vars => Step
    BY Unsuspected, RestStays DEF Known, Rests
<1>2. Known /\ [Next]_vars => [Step]_vars
    BY <1>1
<1>3. QED
    BY <1>2, AlwaysKnown, PTL DEF Spec, LeftAtRest

-----------------------------------------------------------------------------
(* A video that is ready. *)

\* A row is completed by a worker whose start was counted, and one that goes for a completed row
\* was counted after it.  Only a start leads to process_video, and only that to a verdict.
StartKnown(w) ==
    /\ pc[w] \in {"tell", "save", "handle"} /\ goal[w] = "processing" =>
           begun[held[w]] >= (IF rows[held[w]] = "completed" THEN 2 ELSE 1)
    /\ verdict[w] # "none" \/ step[w] \in {"fetch", "put_thumbnail"} => goal[w] = "processing"
ReadyInv ==
    /\ \A v \in Upload : rows[v] = "completed" => begun[v] >= 1
    /\ \A w \in Worker : StartKnown(w)

LEMMA BegunTypes == ASSUME QP!TypeOK PROVE begun \in [Upload -> Nat]
    BY AttemptsAssumption DEF QP!TypeOK, QP!ThreadOK, QP!Counts

LEMMA HandlerStarts ==
    ASSUME QP!TypeOK, OwnTypes, NEW w \in Worker, HandlerStep(w)
    PROVE  /\ begun' = begun
           /\ pc'[w] \in {"handle", "tell", "release", "ack"}
           /\ pc'[w] = "handle" => /\ goal'[w] = goal[w]
                                   /\ rows' = rows \/ Wanted(w) = "processing"
           /\ pc'[w] = "tell" => goal'[w] \in Done
           /\ verdict'[w] # "none" \/ step'[w] \in {"fetch", "put_thumbnail"} =>
                  /\ pc'[w] = "handle"
                  /\ \/ verdict[w] # "none" \/ step[w] \in {"fetch", "put_thumbnail"}
                     \/ Wanted(w) = "processing"
<1> USE DEF OwnTypes, At, Move, ResetHandler, queueVars, QP!TypeOK, QP!ThreadOK, Done
<1>1. pc[w] = "handle"
    BY HandlerMoves DEF HandlerMove
<1>2. ASSUME RowDone(w)
      PROVE  /\ begun' = begun
             /\ \/ /\ pc'[w] = "handle" /\ goal'[w] = goal[w] /\ Wanted(w) = "processing"
                   /\ verdict'[w] = verdict[w]
                \/ /\ pc'[w] = "tell" /\ goal'[w] \in Done
                   /\ verdict'[w] = "none" /\ step'[w] = "select"
    BY <1>1, <1>2 DEF RowDone, Q!Conclude, Q!Goto, Q!Finished
<1>3. CASE SelectRow(w) \/ FetchSource(w) \/ SourceUnusable(w) \/ PutThumbnail(w) \/ RemoveFile(w)
    BY <1>1, <1>3 DEF SelectRow, FetchSource, SourceUnusable, PutThumbnail, RemoveFile
<1>4. CASE SelectMissing(w)
    BY <1>1, <1>2, <1>4 DEF SelectMissing, Wanted
<1>5. CASE CommitRow(w)
    BY <1>1, <1>2, <1>5 DEF CommitRow
<1>6. CASE CommitStale(w) \/ RemoveThumbnail(w) \/ Outage(w)
    BY <1>1, <1>6 DEF CommitStale, RemoveThumbnail, Outage, Q!Raise, Q!ConcludeGone, Q!Goto
<1>7. QED
    BY <1>3, <1>4, <1>5, <1>6 DEF HandlerStep, HandlerWork

LEMMA HandlerKeepsReady ==
    ASSUME Ground, ReadyInv, NEW w \in Worker, HandlerStep(w)
    PROVE  ReadyInv'
<1>1. HandlerEffect(w) /\ begun \in [Upload -> Nat] /\ held[w] \in Upload
    BY HandlerSteps, HandlingTypes, BegunTypes DEF Ground, HandlerEffect
<1>2. Wanted(w) = "processing" => goal[w] = "processing"
    BY DEF Wanted, Ground, OwnTypes
<1>3. begun' = begun /\ held' = held
    BY <1>1, HandlerStarts DEF Ground, HandlerEffect
<1>4. ASSUME NEW v \in Upload, rows'[v] = "completed" PROVE begun[v] >= 1
    <2>1. CASE rows[v] = "completed"
        BY <2>1 DEF ReadyInv
    <2>2. CASE rows[v] # "completed"
        <3>1. v = held[w] /\ Wanted(w) = "completed"
            BY <1>1, <1>4, <2>2 DEF HandlerEffect, Ground, OwnTypes
        <3>2. verdict[w] = "completed" /\ pc[w] = "handle"
            BY <1>1, <3>1 DEF Wanted, Ground, HandlerInv, HandlerEffect
        <3>3. QED
            BY <1>1, <3>1, <3>2 DEF ReadyInv, StartKnown
    <2>3. QED
        BY <2>1, <2>2
<1>5. StartKnown(w)'
    <2>1. goal'[w] = "processing" /\ pc'[w] \in {"tell", "save", "handle"} =>
              pc'[w] = "handle" /\ goal[w] = "processing" /\ (rows' = rows \/ Wanted(w) = "processing")
        BY HandlerStarts DEF Ground, Done
    <2>2. rows'[held[w]] = "completed" => rows' = rows \/ Wanted(w) = "completed"
        BY <1>1 DEF HandlerEffect, Ground, OwnTypes
    <2>3. goal'[w] = "processing" /\ pc'[w] \in {"tell", "save", "handle"} =>
              begun[held[w]] >= (IF rows'[held[w]] = "completed" THEN 2 ELSE 1)
        BY <1>1, <2>1, <2>2 DEF HandlerEffect, ReadyInv, StartKnown
    <2>4. verdict'[w] # "none" \/ step'[w] \in {"fetch", "put_thumbnail"} => goal'[w] = "processing"
        BY <1>2, HandlerStarts DEF Ground, ReadyInv, StartKnown
    <2>5. QED
        BY <1>3, <2>3, <2>4 DEF StartKnown
<1>6. ASSUME NEW x \in Worker \ {w} PROVE StartKnown(x)'
    <2>1. /\ pc'[x] = pc[x] /\ goal'[x] = goal[x] /\ step'[x] = step[x] /\ verdict'[x] = verdict[x]
        BY <1>1 DEF HandlerEffect
    <2>2. pc[x] \in {"tell", "save", "handle"} => held[x] \in Upload /\ held[x] # held[w]
        BY <1>1, HandsAlone DEF HandlerEffect, QP!Handling
    <2>3. pc[x] \in {"tell", "save", "handle"} => rows'[held[x]] = rows[held[x]]
        BY <1>1, <2>2 DEF HandlerEffect, Ground, OwnTypes
    <2>4. QED
        BY <1>3, <2>1, <2>3 DEF ReadyInv, StartKnown
<1>7. QED
    BY <1>3, <1>4, <1>5, <1>6 DEF ReadyInv

\* A start is counted as it begins.
LEMMA WorkStarts ==
    ASSUME Ground, NEW w \in Worker, QueueOnly(w) \/ ProcessEnds(w)
    PROVE  \/ begun' = begun /\ (pc[w] = "count" => pc'[w] # "tell")
           \/ /\ pc[w] = "count" /\ held' = held
              /\ begun' = [begun EXCEPT ![held[w]] = Q!Bump(@)]
<1> USE DEF Q!Goto, Q!Leave, Q!locals, Q!thread, Ground, QP!TypeOK, QP!ThreadOK
<1>1. CASE QueueWork(w)
    BY <1>1 DEF QueueWork, Q!LoopTop, Q!Heartbeat, Q!Claim, Q!ClaimTimeout, Q!Load, Q!LoadMissing,
                Q!Drop, Q!Count, Q!Tell, Q!Save, Q!Ack, Q!Release
<1>2. CASE Q!WatchStep(w)
    BY <1>2 DEF Q!WatchStep, Q!WatchTop, Q!WatchBeat, Q!SweepBegin, Q!SweepMove, Q!SweepEnd,
                Q!ScanEnd
<1>3. CASE Q!FaultStep(w)
    BY <1>3 DEF Q!FaultStep, Q!WatchFails, Q!Resend, Q!CallFails
<1>4. CASE \/ Q!Start(w) \/ Q!Stop(w) \/ Q!Retire(w) \/ Q!RetireFails(w)
           \/ Q!Expire(w) \/ Q!Lapse(w)
    BY <1>4 DEF Q!Start, Q!Stop, Q!Retire, Q!RetireFails, Q!Expire, Q!Lapse
<1>5. CASE ProcessEnds(w)
    BY <1>5 DEF ProcessEnds, Q!Exit, Q!Crash, Q!End
<1>6. QED
    BY <1>1, <1>2, <1>3, <1>4, <1>5 DEF QueueOnly, QueueOther
LEMMA WorkKeepsReady ==
    ASSUME Ground, ReadyInv, NEW w \in Worker, QueueOnly(w) \/ ProcessEnds(w), Q!NoFalseSuspicion'
    PROVE  ReadyInv'
<1>1. WorkMove(w) /\ QueueEffect /\ begun \in [Upload -> Nat]
    BY WorkMoves, QueueSteps, BegunTypes DEF Ground, HandlerInv
<1>2. rows' = rows
    BY <1>1 DEF WorkMove
<1>3. pc[w] = "count" => held[w] \in Upload
    BY HandsAlone DEF QP!Handling
<1>4. \A n \in Nat : Q!Bump(n) \in Nat /\ Q!Bump(n) >= n /\ Q!Bump(n) >= 1 /\ (n >= 1 => Q!Bump(n) >= 2)
    BY AttemptsAssumption DEF Q!Bump
<1>5. \A v \in Upload : begun'[v] \in Nat /\ begun'[v] >= begun[v]
    BY <1>1, <1>3, <1>4, WorkStarts
<1>6. ASSUME NEW x \in Worker, pc'[x] \in {"tell", "save", "handle"}, goal'[x] = "processing"
      PROVE  begun'[held'[x]] >= (IF rows[held'[x]] = "completed" THEN 2 ELSE 1)
    <2>1. CASE /\ pc[x] \in {"tell", "save", "handle"} /\ goal[x] = "processing"
               /\ held'[x] = held[x]
        <3>1. held[x] \in Upload
            BY <2>1, HandsAlone DEF QP!Handling
        <3>2. QED
            BY <1>1, <1>5, <2>1, <3>1 DEF ReadyInv, StartKnown
    <2>2. CASE x = w /\ pc[w] = "count" /\ pc'[w] = "tell"
        <3>1. held' = held /\ begun'[held[w]] = Q!Bump(begun[held[w]]) /\ held[w] \in Upload
            BY <1>1, <1>3, <2>2, WorkStarts
        <3>2. rows[held[w]] = "completed" => begun[held[w]] >= 1
            BY <3>1 DEF ReadyInv
        <3>3. QED
            BY <1>1, <1>4, <2>2, <3>1, <3>2
    <2>3. \/ /\ pc[x] \in {"tell", "save", "handle"} /\ goal[x] = "processing"
             /\ held'[x] = held[x]
          \/ x = w /\ pc[w] = "count" /\ pc'[w] = "tell"
        <3>1. CASE x # w
            BY <1>1, <1>6, <3>1 DEF WorkMove
        <3>2. CASE x = w
            BY <1>1, <1>6, <3>2 DEF WorkMove
        <3>3. QED
            BY <3>1, <3>2
    <2>4. QED
        BY <2>1, <2>2, <2>3
<1>7. ASSUME NEW x \in Worker, verdict'[x] # "none" \/ step'[x] \in {"fetch", "put_thumbnail"}
      PROVE  goal'[x] = "processing"
    <2>1. verdict'[x] = verdict[x] /\ step'[x] = step[x]
        BY <1>1, <1>7 DEF QueueEffect
    <2>2. pc[x] = "handle" /\ goal[x] = "processing"
        BY <1>7, <2>1 DEF Ground, HandlerInv, ReadyInv, StartKnown
    <2>3. QED
        BY <1>1, <1>7, <2>2 DEF QueueEffect
<1>8. \A v \in Upload : rows'[v] = "completed" => begun'[v] >= 1
    BY <1>1, <1>2, <1>5 DEF ReadyInv
<1>9. QED
    BY <1>2, <1>6, <1>7, <1>8 DEF ReadyInv, StartKnown

LEMMA CallsKeepReady ==
    ASSUME Ground, ReadyInv, NEW v \in Upload, UploadStep(v) \/ PurgeStep(v) \/ StatusExpires(v)
    PROVE  ReadyInv'
<1>1. UNCHANGED <<pc, held, goal, step, verdict>>
    BY CallsLeaveWorkers
<1>2. begun' = begun
    BY DEF UploadStep, CreateRow, ReloadRow, StoreFile, StoreFails, EnqueueJob, EnqueueTwice,
           EnqueueRaises, RejectUpload, UploadDies, UploadAt, PurgeStep, PurgeBegin, PurgeFile,
           PurgeThumbnail, PurgeAborts, PurgeForgetRead, PurgeForgetDelete, PurgeForgetFails,
           PurgeCommit, PurgeDies, StatusExpires, PurgeAt, queueVars, handler, Q!Enqueue,
           Q!EnqueueFails, Q!EnqueueResend, Q!ForgetRead, Q!ForgetDelete, Q!ForgetFails,
           Q!ForgetAbandoned, Q!ExpireStatus, Q!thread
<1>3. \A u \in Upload : rows'[u] = "completed" => rows[u] = "completed"
    <2>1. rows \in [Upload -> RowStates]
        BY DEF Ground, OwnTypes
    <2>2. rows' = rows \/ \E s \in {"pending", "failed", "gone"} : rows' = [rows EXCEPT ![v] = s]
        BY DEF UploadStep, CreateRow, ReloadRow, StoreFile, StoreFails, EnqueueJob, EnqueueTwice,
               EnqueueRaises, RejectUpload, UploadDies, PurgeStep, PurgeBegin, PurgeFile,
               PurgeThumbnail, PurgeAborts, PurgeForgetRead, PurgeForgetDelete,
               PurgeForgetFails, PurgeCommit, PurgeDies, StatusExpires
    <2>3. QED
        BY <2>1, <2>2
<1>4. ASSUME NEW w \in Worker PROVE StartKnown(w)'
    <2>1. CASE pc[w] \in {"tell", "save", "handle"} /\ goal[w] = "processing"
        <3>1. held[w] \in Upload /\ begun[held[w]] \in Nat
            BY <2>1, HandsAlone, BegunTypes DEF QP!Handling, Ground
        <3>2. QED
            BY <1>1, <1>2, <1>3, <2>1, <3>1 DEF ReadyInv, StartKnown
    <2>2. CASE ~(pc[w] \in {"tell", "save", "handle"} /\ goal[w] = "processing")
        BY <1>1, <2>2 DEF ReadyInv, StartKnown
    <2>3. QED
        BY <2>1, <2>2
<1>5. QED
    BY <1>2, <1>3, <1>4 DEF ReadyInv

LEMMA StepKeepsReady ==
    ASSUME Ground, ReadyInv, [Next]_vars, Q!NoFalseSuspicion'
    PROVE  ReadyInv'
<1>1. CASE UNCHANGED vars
    BY <1>1 DEF ReadyInv, StartKnown, vars, queueVars, handler
<1>2. CASE Next
    BY <1>2, HandlerKeepsReady, WorkKeepsReady, CallsKeepReady DEF Next
<1>3. QED
    BY <1>1, <1>2

LEMMA AlwaysReadyInv == Spec => [](Q!NoFalseSuspicion => ReadyInv)
<1> DEFINE Inv == Q!NoFalseSuspicion => ReadyInv
<1>1. Init => Inv
    BY DEF Init, Q!Init, ReadyInv, StartKnown
<1>2. Known /\ Inv /\ [Next]_vars => Inv'
    BY Unsuspected, StepKeepsReady DEF Known
<1>3. QED
    BY <1>1, <1>2, AlwaysKnown, PTL DEF Spec

\* The worker that made a video ready has let its job go, or acknowledges it: who goes for the
\* row after that has counted another start, or gives the job up.
LEMMA ReadyMoves ==
    ASSUME Ground, ReadyInv, [Next]_vars, Q!NoFalseSuspicion', NEW v \in Upload,
           rows[v] = "completed", rows'[v] \notin {"completed", "gone"}
    PROVE  \/ up[v] = "failing"
           \/ \E w \in Worker : held[w] = v /\ (goal[w] = "failed" \/ begun[v] > 1)
<1>1. ~UNCHANGED vars
    BY DEF vars
<1>2. CASE \E w \in Worker : HandlerStep(w)
    <2>1. PICK w \in Worker : HandlerEffect(w)
        BY <1>2, HandlerSteps DEF Ground
    <2>2. held[w] = v /\ pc[w] = "handle"
        BY <2>1 DEF HandlerEffect, Ground, OwnTypes
    <2>3. goal[w] = "processing" => begun[v] >= 2
        BY <2>2 DEF ReadyInv, StartKnown
    <2>4. goal[w] \in {"processing", "failed"} /\ begun[v] \in Nat
        BY <2>2, BegunTypes DEF Ground, HandlerInv
    <2>5. QED
        BY <2>2, <2>3, <2>4
<1>3. CASE \E w \in Worker : QueueOnly(w) \/ ProcessEnds(w)
    BY <1>3, WorkMoves DEF WorkMove
<1>4. CASE \E u \in Upload : UploadStep(u)
    BY <1>4 DEF UploadStep, CreateRow, ReloadRow, StoreFile, StoreFails, EnqueueJob,
       EnqueueTwice, EnqueueRaises, RejectUpload, UploadDies, UploadAt, Ground, OwnTypes, RowsInv
<1>5. CASE \E u \in Upload : PurgeStep(u) \/ StatusExpires(u)
    BY <1>5 DEF PurgeStep, PurgeBegin, PurgeFile, PurgeThumbnail, PurgeAborts, PurgeForgetRead,
       PurgeForgetDelete, PurgeForgetFails, PurgeCommit, PurgeDies, StatusExpires, Ground,
       OwnTypes
<1>6. QED
    BY <1>1, <1>2, <1>3, <1>4, <1>5 DEF Next

\* However many attempts are configured, a ready video is unmade by its delete, by the 502 of its
\* upload, or by a worker with a later claim of its job, and by nobody else.
THEOREM ReadyIsLeftReady == Spec => ReadyStaysReady
<1> DEFINE Step == Q!NoFalseSuspicion' => \A v \in Upload :
                       rows[v] = "completed" /\ rows'[v] \notin {"completed", "gone"} =>
                           \/ up[v] = "failing"
                           \/ \E w \in Worker : held[w] = v /\ (goal[w] = "failed" \/ begun[v] > 1)
<1>1. Known /\ (Q!NoFalseSuspicion => ReadyInv) /\ [Next]_vars => [Step]_vars
    BY Unsuspected, ReadyMoves DEF Known
<1>2. QED
    BY <1>1, AlwaysKnown, AlwaysReadyInv, PTL DEF Spec, ReadyStaysReady

-----------------------------------------------------------------------------
(* The status that polls see. *)

\* A row that is gone does not come back.
LEMMA GoneStays ==
    ASSUME Ground, [Next]_vars, NEW v \in Upload, rows[v] = "gone"
    PROVE  rows'[v] = "gone"
<1>1. ASSUME NEW w \in Worker, HandlerStep(w) PROVE rows'[v] = "gone"
    BY <1>1, HandlerSteps DEF HandlerEffect, Ground, OwnTypes, Exists
<1>2. ASSUME NEW w \in Worker, QueueOnly(w) \/ ProcessEnds(w) PROVE rows'[v] = "gone"
    BY <1>2 DEF QueueOnly, ProcessEnds
<1>3. ASSUME NEW u \in Upload, UploadStep(u) PROVE rows'[v] = "gone"
    BY <1>3 DEF UploadStep, CreateRow, ReloadRow, StoreFile, StoreFails, EnqueueJob, EnqueueTwice,
       EnqueueRaises, RejectUpload, UploadDies, UploadAt, Ground, OwnTypes, RowsInv, Exists
<1>4. ASSUME NEW u \in Upload, PurgeStep(u) \/ StatusExpires(u) PROVE rows'[v] = "gone"
    BY <1>4 DEF PurgeStep, PurgeBegin, PurgeFile, PurgeThumbnail, PurgeAborts, PurgeForgetRead,
       PurgeForgetDelete, PurgeForgetFails, PurgeCommit, PurgeDies, StatusExpires, Ground, OwnTypes
<1>5. QED
    BY <1>1, <1>2, <1>3, <1>4 DEF Next, vars

\* Who is about to take a job off its list has told how it ended, or found no status, or there
\* is no row left.
Live == {"pending", "processing"}
ToldOrGone(v) == jobs[v].status \notin Live \/ rows[v] = "gone"
PollInv ==
    /\ \A v \in Upload : QP!Tracked(v) \/ ToldOrGone(v)
    /\ \A w \in Worker : pc[w] \in {"drop", "ack"} => ToldOrGone(held[w])

\* The part about the lists: only an ack takes a job off them.
LEMMA TrackedOrTold ==
    ASSUME Ground, PollInv, [Next]_vars, NEW v \in Upload,
           jobs'[v] \in {jobs[v], QP!NoJob}
    PROVE  QP!Tracked(v)' \/ ToldOrGone(v)'
<1> USE NoneAssumption, AttemptsAssumption, BoundsAssumption
<1>1. [QP!Next]_QP!vars
    BY StepIsQueueStep, SameNext DEF queueVars, Q!vars
<1>2. QP!Tracked(v)' \/ ToldOrGone(v)
    BY <1>1, QP!StepKeeps DEF Ground, PollInv
<1>3. ToldOrGone(v) => ToldOrGone(v)'
    BY GoneStays DEF ToldOrGone, Live, QP!NoJob
<1>4. QED
    BY <1>2, <1>3

LEMMA HandlerTells ==
    ASSUME Ground, PollInv, [Next]_vars, NEW w \in Worker, HandlerStep(w)
    PROVE  PollInv'
<1>1. HandlerMove(w) /\ held[w] \in Upload
    BY HandlerMoves, HandlingTypes DEF Ground, HandlerMove
<1>2. jobs' = jobs /\ held' = held
    BY <1>1 DEF HandlerMove
<1>3. ASSUME NEW x \in Worker, pc'[x] \in {"drop", "ack"} PROVE ToldOrGone(held[x])'
    <2>1. CASE x = w
        <3>1. rows[held[w]] = "gone"
            BY <1>1, <1>3, <2>1 DEF HandlerMove, Ground, HandlerInv
        <3>2. QED
            BY <1>1, <1>2, <2>1, <3>1, GoneStays DEF ToldOrGone
    <2>2. CASE x # w
        <3>1. pc[x] \in {"drop", "ack"}
            BY <1>1, <1>3, <2>2 DEF HandlerMove
        <3>2. held[x] \in Upload /\ ToldOrGone(held[x])
            BY <3>1, HandsAlone DEF QP!Handling, PollInv
        <3>3. QED
            BY <1>2, <3>2, GoneStays DEF ToldOrGone
    <2>3. QED
        BY <2>1, <2>2
<1>4. \A v \in Upload : QP!Tracked(v)' \/ ToldOrGone(v)'
    BY <1>2, TrackedOrTold
<1>5. QED
    BY <1>2, <1>3, <1>4 DEF PollInv, ToldOrGone

LEMMA WorkTells ==
    ASSUME Ground, AgreeInv, PollInv, [Next]_vars, NEW w \in Worker, QueueOnly(w) \/ ProcessEnds(w),
           Q!NoFalseSuspicion'
    PROVE  PollInv'
<1> USE NoneAssumption, AttemptsAssumption, BoundsAssumption
<1>1. WorkMove(w) /\ rows' = rows
    BY WorkMoves DEF WorkMove
<1>2. pc[w] \in {"count", "save"} => /\ held[w] \in Upload /\ QP!Handling(w)
                                      /\ QP!Tracked(held[w])
    BY HandsAlone DEF QP!Handling
<1>3. ASSUME NEW v \in Upload PROVE QP!Tracked(v)' \/ ToldOrGone(v)'
    <2>1. CASE jobs'[v] = jobs[v]
        BY <2>1, TrackedOrTold
    <2>2. CASE jobs'[v] # jobs[v]
        <3>1. pc[w] \in {"count", "save"} /\ held[w] = v
            BY <1>1, <1>2, <2>2 DEF WorkMove, Ground, QP!TypeOK, QP!RedisOK
        <3>2. ~\E x \in Worker : held[x] = v /\ pc[x] \in {"ack", "drop"}
            BY <3>1, HandsAlone DEF QP!Handling
        <3>3. [QP!Next]_QP!vars
            BY StepIsQueueStep, SameNext DEF queueVars, Q!vars
        <3>4. QED
            BY <1>2, <3>1, <3>2, <3>3, QP!StepKeeps DEF Ground
    <2>3. QED
        BY <2>1, <2>2
<1>4. ASSUME NEW x \in Worker, pc'[x] \in {"drop", "ack"} PROVE ToldOrGone(held[x])'
    <2>1. CASE x # w \/ UNCHANGED <<jobs, pc, held>>
        <3>1. pc[x] \in {"drop", "ack"} /\ held'[x] = held[x]
            BY <1>1, <1>4, <2>1 DEF WorkMove
        <3>2. held[x] \in Upload /\ ToldOrGone(held[x])
            BY <3>1, HandsAlone DEF QP!Handling, PollInv
        <3>3. x # w => pc[w] \notin {"count", "save"} \/ held[x] # held[w]
            BY <3>1, HandsAlone DEF QP!Handling
        <3>4. jobs'[held[x]] = jobs[held[x]]
            BY <1>1, <1>2, <2>1, <3>2, <3>3 DEF WorkMove, Ground, QP!TypeOK, QP!RedisOK
        <3>5. QED
            BY <1>1, <3>1, <3>2, <3>4 DEF ToldOrGone
    <2>2. CASE x = w /\ ~UNCHANGED <<jobs, pc, held>>
        <3>1. CASE pc[w] = "load" \/ pc[w] = "tell"
            <4>1. jobs' = jobs /\ held'[w] = held[w] /\ jobs[held[w]] = Q!NoJob
                BY <1>1, <1>4, <2>2, <3>1 DEF WorkMove
            <4>2. QED
                BY <2>2, <4>1 DEF ToldOrGone, Live, Q!NoJob
        <3>2. CASE pc[w] = "save"
            <4>1. /\ held'[w] = held[w] /\ goal[w] # "processing"
                  /\ jobs' = [jobs EXCEPT ![held[w]] = copy[w]]
                BY <1>1, <1>4, <2>2, <3>2 DEF WorkMove, Q!AfterTell
            <4>2. copy[w].status = goal[w] /\ goal[w] \notin Live
                BY <3>2, <4>1 DEF AgreeInv, WorkAgrees, Live, Ground, QP!TypeOK, QP!ThreadOK
            <4>3. jobs'[held[w]] = copy[w]
                BY <1>2, <3>2, <4>1 DEF Ground, QP!TypeOK, QP!RedisOK
            <4>4. QED
                BY <2>2, <4>1, <4>2, <4>3 DEF ToldOrGone
        <3>3. pc[w] \in {"load", "tell", "save"}
            BY <1>1, <1>4, <2>2 DEF WorkMove
        <3>4. QED
            BY <3>1, <3>2, <3>3
    <2>3. QED
        BY <2>1, <2>2
<1>5. QED
    BY <1>3, <1>4 DEF PollInv, ToldOrGone

LEMMA CallsTell ==
    ASSUME Ground, PollInv, [Next]_vars, NEW v \in Upload,
           UploadStep(v) \/ PurgeStep(v) \/ StatusExpires(v), Q!NoFalseSuspicion'
    PROVE  PollInv'
<1>1. UNCHANGED <<pc, held>>
    BY CallsLeaveWorkers
<1>2. ASSUME NEW u \in Upload, jobs'[u] \notin {jobs[u], QP!NoJob}
      PROVE  QP!Tracked(u)' /\ \A w \in Worker : QP!Handling(w) => held[w] # u
    <2>1. CASE UploadStep(v)
        BY <1>2, <2>1, RequestPushes, HandsAlone
    <2>2. CASE PurgeStep(v) \/ StatusExpires(v)
        <3>1. jobs' = jobs \/ jobs' = [jobs EXCEPT ![v] = QP!NoJob]
            BY <2>2 DEF PurgeStep, PurgeBegin, PurgeFile, PurgeThumbnail, PurgeAborts,
               PurgeForgetRead, PurgeForgetDelete, PurgeForgetFails, PurgeCommit, PurgeDies,
               StatusExpires, queueVars, Q!ForgetRead, Q!ForgetDelete, Q!ForgetFails,
               Q!ForgetAbandoned, Q!ExpireStatus, Q!DropStatus, Q!redis, Q!NoJob, QP!NoJob
        <3>2. QED
            BY <1>2, <3>1 DEF Ground, QP!TypeOK, QP!RedisOK
    <2>3. QED
        BY <2>1, <2>2
<1>3. \A u \in Upload : QP!Tracked(u)' \/ ToldOrGone(u)'
    BY <1>2, TrackedOrTold
<1>4. ASSUME NEW x \in Worker, pc'[x] \in {"drop", "ack"} PROVE ToldOrGone(held[x])'
    <2>1. QP!Handling(x) /\ held[x] \in Upload /\ ToldOrGone(held[x])
        BY <1>1, <1>4, HandsAlone DEF QP!Handling, PollInv
    <2>2. jobs'[held[x]] \in {jobs[held[x]], QP!NoJob}
        BY <1>2, <2>1
    <2>3. QED
        BY <1>1, <2>1, <2>2, GoneStays DEF ToldOrGone, Live, QP!NoJob
<1>5. QED
    BY <1>3, <1>4 DEF PollInv, ToldOrGone

LEMMA StepTells ==
    ASSUME Ground, AgreeInv, PollInv, [Next]_vars, Q!NoFalseSuspicion'
    PROVE  PollInv'
<1>1. CASE UNCHANGED vars
    BY <1>1 DEF PollInv, ToldOrGone, QP!Tracked, QP!InQueue, QP!InList, vars, queueVars
<1>2. CASE Next
    BY <1>2, HandlerTells, WorkTells, CallsTell DEF Next
<1>3. QED
    BY <1>1, <1>2

LEMMA AlwaysTold == Spec => [](Q!NoFalseSuspicion => PollInv)
<1> DEFINE Inv == Q!NoFalseSuspicion => PollInv
<1>1. Init => Inv
    BY DEF Init, Q!Init, Q!NoJob, PollInv, ToldOrGone, Live
<1>2. Known /\ Inv /\ [Next]_vars => Inv'
    BY Unsuspected, StepTells DEF Known
<1>3. QED
    BY <1>1, <1>2, AlwaysKnown, PTL DEF Spec

\* However many workers there are, a status that says pending or processing has a job behind it,
\* which ends with another status: a job is taken off its list after set_status, or when
\* there is no status or no row to set.
THEOREM StatusIsOfAJob == Spec => []LiveStatusIsTracked
<1>1. (Q!NoFalseSuspicion => PollInv) => LiveStatusIsTracked
    BY SameTracked DEF PollInv, ToldOrGone, Live, LiveStatusIsTracked
<1>2. QED
    BY <1>1, AlwaysTold, PTL

-----------------------------------------------------------------------------
(* A permanent delete of a video at rest. *)

\* The permanent delete, as far as it comes.
LEMMA PurgeMoves ==
    ASSUME Ground, [Next]_vars, NEW v \in Upload
    PROVE  /\ \/ adm'[v] = adm[v]
              \/ adm[v] \in {"no", "aborted"} /\ adm'[v] = "file"
              \/ adm[v] = "file" /\ adm'[v] = "thumbnail" /\ v \notin files'
              \/ adm[v] = "thumbnail" /\ adm'[v] = "forget" /\ v \notin thumbs'
              \/ adm[v] \in {"forget", "forgetting"} /\ adm'[v] \in {"forgetting", "commit"}
              \/ adm[v] = "commit" /\ adm'[v] = "done"
              \/ adm[v] # "done" /\ adm'[v] = "aborted"
           /\ rows'[v] = "gone" => rows[v] = "gone" \/ adm'[v] = "done"
<1> USE DEF Ground, OwnTypes
<1>1. ASSUME NEW w \in Worker, HandlerStep(w)
      PROVE  adm' = adm /\ (rows'[v] = "gone" => rows[v] = "gone")
    <2>1. HandlerEffect(w) /\ Wanted(w) # "gone"
        BY <1>1, HandlerSteps DEF HandlerEffect, HandlerInv, Wanted
    <2>2. QED
        BY <2>1 DEF HandlerEffect
<1>2. ASSUME NEW w \in Worker, QueueOnly(w) \/ ProcessEnds(w) PROVE adm' = adm /\ rows' = rows
    BY <1>2 DEF QueueOnly, ProcessEnds
<1>3. ASSUME NEW u \in Upload, UploadStep(u)
      PROVE  adm' = adm /\ (rows'[v] = "gone" => rows[v] = "gone")
    BY <1>3 DEF UploadStep, CreateRow, ReloadRow, StoreFile, StoreFails, EnqueueJob, EnqueueTwice,
       EnqueueRaises, RejectUpload, UploadDies, UploadAt
<1>4. ASSUME NEW u \in Upload, PurgeStep(u) \/ StatusExpires(u), u # v
      PROVE  adm'[v] = adm[v] /\ rows'[v] = rows[v]
    BY <1>4 DEF PurgeStep, PurgeBegin, PurgeFile, PurgeThumbnail, PurgeAborts, PurgeForgetRead,
       PurgeForgetDelete, PurgeForgetFails, PurgeCommit, PurgeDies, StatusExpires, PurgeAt
<1>5. CASE StatusExpires(v)
    BY <1>5 DEF StatusExpires
<1>6. CASE PurgeBegin(v) \/ PurgeFile(v) \/ PurgeThumbnail(v) \/ PurgeAborts(v)
    BY <1>6 DEF PurgeBegin, PurgeFile, PurgeThumbnail, PurgeAborts, PurgeAt
<1>7. CASE \/ PurgeForgetRead(v) \/ PurgeForgetDelete(v) \/ PurgeForgetFails(v)
           \/ PurgeCommit(v) \/ PurgeDies(v)
    BY <1>7 DEF PurgeForgetRead, PurgeForgetDelete, PurgeForgetFails, PurgeCommit, PurgeDies, PurgeAt
<1>8. QED
    BY <1>1, <1>2, <1>3, <1>4, <1>5, <1>6, <1>7 DEF Next, vars, PurgeStep

\* A delete that began when the video was at rest, at each of its steps.
Clean(v) ==
    /\ Settled(v) /\ jobs[v].status \notin Live
    /\ adm[v] \in {"thumbnail", "forget", "forgetting", "commit", "done"} => v \notin files
    /\ adm[v] \in {"forget", "forgetting", "commit", "done"} => v \notin thumbs
    /\ rows[v] = "gone" => adm[v] = "done"

LEMMA CleanStays ==
    ASSUME Ground, AgreeInv, [Next]_vars, NEW v \in Upload, Clean(v), Q!NoFalseSuspicion'
    PROVE  Clean(v)'
<1>1. Settled(v)' /\ Rests(v)
    BY RestStays DEF Clean
<1>2. jobs'[v].status \notin Live
    BY <1>1 DEF Clean, Rests, Live, Q!NoJob
<1>3. adm'[v] \in {"thumbnail", "forget", "forgetting", "commit", "done"} => v \notin files'
    BY <1>1, PurgeMoves DEF Clean, Rests
<1>4. adm'[v] \in {"forget", "forgetting", "commit", "done"} => v \notin thumbs'
    BY <1>1, PurgeMoves DEF Clean, Rests
<1>5. rows'[v] = "gone" => adm'[v] = "done"
    BY PurgeMoves DEF Clean
<1>6. QED
    BY <1>1, <1>2, <1>3, <1>4, <1>5 DEF Clean

\* "`?permanent=true` also removes the files and upload status" (README.md), whatever crashes and
\* fails, when it begins after the upload request and the job are through: at its end, and from
\* then on, no file, no thumbnail and no status of a job under way is there.  A delete that begins
\* earlier may leave them, as the run find_purge shows.
THEOREM PurgeAtRestLeavesNothing ==
    ASSUME NEW v \in Upload
    PROVE  Spec => [](Settled(v) /\ Exists(v) /\ adm[v] \in {"no", "aborted"} =>
                         [](Q!NoFalseSuspicion /\ rows[v] = "gone" =>
                               /\ v \notin files \cup thumbs
                               /\ jobs[v].status \notin {"pending", "processing"}))
<1> DEFINE Start == Settled(v) /\ Exists(v) /\ adm[v] \in {"no", "aborted"}
           Inv == Q!NoFalseSuspicion => Clean(v)
           End == Q!NoFalseSuspicion /\ rows[v] = "gone" =>
                      v \notin files \cup thumbs /\ jobs[v].status \notin {"pending", "processing"}
<1>1. LiveStatusIsTracked /\ Start => Inv
    BY DEF LiveStatusIsTracked, Settled, Exists, Clean, Live
<1>2. Known /\ Inv /\ [Next]_vars => Inv'
    BY Unsuspected, CleanStays DEF Known
<1>3. Inv => End
    BY DEF Clean, Live
<1>4. Spec => [](Start => []End)
    BY <1>1, <1>2, <1>3, StatusIsOfAJob, AlwaysKnown, PTL DEF Spec
<1>5. QED
    BY <1>4, PTL
=============================================================================
