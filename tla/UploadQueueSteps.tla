-------------------------- MODULE UploadQueueSteps --------------------------
(***************************************************************************)
(* What a step of UploadQueue never does: take a job off the lists that    *)
(* nobody has finished with, undo a count of attempts, or put a job that   *)
(* comes back behind the new ones; and that UploadQueue implements         *)
(* JobLedger.                                                              *)
(***************************************************************************)
EXTENDS UploadQueueSafety

-----------------------------------------------------------------------------
(* Jobs leave by ack. *)

\* Every other command moves a job from one list to another.
LEMMA CommandKeeps ==
    ASSUME TypeOK, NEW w \in Worker, Command(w), NEW u \in Upload, Tracked(u)
    PROVE  Tracked(u)' \/ (held[w] = u /\ pc[w] \in {"ack", "drop"})
<1>1. queue \in Seq(Upload) /\ processing \in [Worker -> Seq(Upload)]
    BY DEF TypeOK, RedisOK
<1>2. Contains(queue, u) \/ \E x \in Worker : Contains(processing[x], u)
    BY DEF Tracked, InQueue, InList
<1>3. ASSUME Contains(queue', u) \/ \E x \in Worker : Contains(processing'[x], u)
      PROVE  Tracked(u)'
    BY <1>3 DEF Tracked, InQueue, InList
<1>4. pc[w] \in {"drop", "ack", "release"} => held[w] \in Upload
    BY DEF TypeOK, ThreadOK, Handling
<1>5. CASE UNCHANGED <<queue, processing>>
    BY <1>2, <1>3, <1>5
<1>6. CASE MoveToOwn(w)
    <2>1. /\ queue # <<>> /\ queue' = Tail(queue)
          /\ processing' = [processing EXCEPT ![w] = Append(@, Head(queue))]
        BY <1>6 DEF MoveToOwn
    <2>2. Head(queue) \in Upload /\ (Contains(queue, u) => Contains(Tail(queue), u) \/ u = Head(queue))
        BY <1>1, <2>1, TailElements
    <2>3. Contains(Append(processing[w], Head(queue)), u) <=> Contains(processing[w], u) \/ u = Head(queue)
        BY <1>1, <2>2, AppendElements
    <2>4. QED
        BY <1>1, <1>2, <1>3, <2>1, <2>2, <2>3
<1>7. CASE held[w] \in Upload /\ RemoveOwn(w, held[w]) /\ pc[w] \in {"ack", "drop"}
    <2>1. queue' = queue /\ processing' = [processing EXCEPT ![w] = RemoveFirst(@, held[w])]
        BY <1>7 DEF RemoveOwn
    <2>2. Contains(processing[w], u) /\ u # held[w] => Contains(RemoveFirst(processing[w], held[w]), u)
        BY <1>1, RemoveFirstElements
    <2>3. QED
        BY <1>1, <1>2, <1>3, <1>7, <2>1, <2>2
<1>8. CASE held[w] \in Upload /\ GiveBack(w, held[w])
    <2>1. /\ queue' = Cons(held[w], queue)
          /\ processing' = [processing EXCEPT ![w] = RemoveFirst(@, held[w])]
        BY <1>8 DEF GiveBack
    <2>2. Contains(processing[w], u) /\ u # held[w] => Contains(RemoveFirst(processing[w], held[w]), u)
        BY <1>1, RemoveFirstElements
    <2>3. Contains(Cons(held[w], queue), u) <=> Contains(queue, u) \/ u = held[w]
        BY <1>1, <1>8, ConsElements
    <2>4. QED
        BY <1>1, <1>2, <1>3, <2>1, <2>2, <2>3
<1>9. QED
    BY <1>4, <1>5, <1>6, <1>7, <1>8 DEF Command, SetHeartbeat, SetJob

LEMMA SweepKeeps ==
    ASSUME TypeOK, NEW d \in Worker, MoveBack(d), NEW u \in Upload, Tracked(u)
    PROVE  Tracked(u)'
<1> DEFINE v == Last(processing[d])
<1>1. /\ queue \in Seq(Upload) /\ queue' = Cons(v, queue)
      /\ processing \in [Worker -> Seq(Upload)] /\ processing[d] # <<>>
      /\ processing' = [processing EXCEPT ![d] = Front(@)]
    BY DEF TypeOK, RedisOK, MoveBack
<1>2. v \in Upload /\ (Contains(processing[d], u) => Contains(Front(processing[d]), u) \/ u = v)
    BY <1>1, FrontElements
<1> HIDE DEF v
<1>3. Contains(Cons(v, queue), u) <=> Contains(queue, u) \/ u = v
    BY <1>1, <1>2, ConsElements
<1>4. Contains(queue, u) \/ \E x \in Worker : Contains(processing[x], u)
    BY DEF Tracked, InQueue, InList
<1>5. Contains(queue', u) \/ \E x \in Worker : Contains(processing'[x], u)
    BY <1>1, <1>2, <1>3, <1>4
<1>6. QED
    BY <1>5 DEF Tracked, InQueue, InList

LEMMA EnqueueKeeps ==
    ASSUME TypeOK, NEW v \in Upload, PushNew(v), NEW u \in Upload, Tracked(u)
    PROVE  Tracked(u)'
<1>1. queue \in Seq(Upload) /\ queue' = Append(queue, v) /\ processing' = processing
    BY DEF TypeOK, RedisOK, PushNew
<1>2. Contains(queue, u) => Contains(queue', u)
    BY <1>1, AppendElements
<1>3. QED
    BY <1>1, <1>2 DEF Tracked, InQueue, InList

LEMMA StepKeeps ==
    ASSUME TypeOK, [Next]_vars, NEW u \in Upload, Tracked(u)
    PROVE  Tracked(u)' \/ \E w \in Worker : held[w] = u /\ pc[w] \in {"ack", "drop"}
<1> USE DEF redis
<1>1. CASE UNCHANGED <<queue, processing>>
    BY <1>1 DEF Tracked, InQueue, InList
<1>2. ASSUME NEW w \in Worker, WorkStep(w)
      PROVE  UNCHANGED <<queue, processing>> \/ Command(w)
    BY <1>2 DEF WorkStep, LoopTop, Heartbeat, Claim, ClaimTimeout, Load, LoadMissing, Drop, Count,
                Tell, Save, Conclude, ConcludeGone, Raise, Ack, Release, Command
<1>3. ASSUME NEW w \in Worker, WatchStep(w) \/ WatchFails(w)
      PROVE  UNCHANGED <<queue, processing>> \/ (target[w] \in Worker /\ MoveBack(target[w]))
    BY <1>3 DEF WatchStep, WatchTop, WatchBeat, SweepBegin, SweepMove, SweepEnd, ScanEnd,
                WatchFails, SetHeartbeat, TypeOK, WatchOK
<1>4. ASSUME NEW w \in Worker, LifeStep(w) PROVE UNCHANGED <<queue, processing>>
    BY <1>4 DEF LifeStep, Start, Stop, Retire, RetireFails, Exit, Crash, End, Expire, Lapse
<1>5. ASSUME NEW w \in Worker, CallFails(w) \/ Resend(w)
      PROVE  UNCHANGED <<queue, processing>> \/ Command(w)
    BY <1>5 DEF CallFails, Resend
<1>6. ASSUME NEW v \in Upload, CallStep(v) PROVE UNCHANGED <<queue, processing>> \/ PushNew(v)
    BY <1>6 DEF CallStep, Enqueue, EnqueueFails, EnqueueResend, ForgetRead, ForgetDelete,
                ForgetFails, ForgetAbandoned, ExpireStatus, DropStatus
<1>7. CASE Next
    BY <1>1, <1>2, <1>3, <1>4, <1>5, <1>6, <1>7, CommandKeeps, SweepKeeps, EnqueueKeeps
    DEF Next, FaultStep
<1>8. CASE UNCHANGED vars
    BY <1>1, <1>8 DEF vars
<1>9. QED
    BY <1>7, <1>8

\* Whatever crashes, lapses, fails or is sent twice, and with any number of workers and
\* uploads, only the ack of a worker that holds a job takes the job off the lists.
THEOREM OnlyAcksRemove == Spec => JobsLeaveByAck
<1>1. TypeOK /\ [Next]_vars =>
          [\A u \in Upload : Tracked(u) /\ ~Tracked(u)' =>
              \E w \in Worker : held[w] = u /\ pc[w] \in {"ack", "drop"}]_vars
    BY StepKeeps
<1>2. QED
    BY <1>1, TypeCorrect, PTL DEF Spec, JobsLeaveByAck

-----------------------------------------------------------------------------
(* Who writes a status. *)

\* The status of an upload changes by its holder's save, by enqueue, or to nothing.
LEMMA StatusWriters ==
    ASSUME TypeOK, [Next]_vars, NEW u \in Upload
    PROVE  \/ jobs'[u] \in {jobs[u], NoJob}
           \/ PushNew(u) /\ enqueued[u] \in {"no", "sent"}
           \/ \E w \in Worker : /\ pc[w] \in {"count", "save"} /\ held[w] = u
                                /\ SetJob(held[w], copy[w])
<1> USE DEF redis
<1>1. ASSUME NEW w \in Worker, WorkStep(w) \/ CallFails(w) \/ Resend(w)
      PROVE  \/ jobs' = jobs
             \/ pc[w] \in {"count", "save"} /\ SetJob(held[w], copy[w])
    BY <1>1 DEF WorkStep, LoopTop, Heartbeat, Claim, ClaimTimeout, Load, LoadMissing, Drop, Count,
                Tell, Save, Conclude, ConcludeGone, Raise, Ack, Release, Command, CallFails, Resend,
                SetHeartbeat, MoveToOwn, RemoveOwn, GiveBack
<1>2. ASSUME NEW w \in Worker, pc[w] \in {"count", "save"}, SetJob(held[w], copy[w]), held[w] # u
      PROVE  jobs'[u] = jobs[u]
    BY <1>2 DEF SetJob, TypeOK, RedisOK
<1>3. ASSUME NEW w \in Worker, WatchStep(w) \/ WatchFails(w) \/ LifeStep(w) PROVE jobs' = jobs
    BY <1>3 DEF WatchStep, WatchTop, WatchBeat, SweepBegin, SweepMove, SweepEnd, ScanEnd,
                WatchFails, SetHeartbeat, MoveBack, LifeStep, Start, Stop, Retire, RetireFails,
                Exit, Crash, End, Expire, Lapse
<1>4. ASSUME NEW v \in Upload, CallStep(v)
      PROVE  \/ jobs'[u] \in {jobs[u], NoJob}
             \/ PushNew(u) /\ enqueued[u] \in {"no", "sent"}
    <2>1. CASE PushNew(v) /\ enqueued[v] \in {"no", "sent"}
        BY <2>1 DEF PushNew, TypeOK, RedisOK
    <2>2. CASE ~PushNew(v)
        BY <1>4, <2>2 DEF CallStep, Enqueue, EnqueueFails, EnqueueResend, ForgetRead,
            ForgetDelete, ForgetFails, ForgetAbandoned, ExpireStatus, DropStatus, TypeOK, RedisOK
    <2>3. PushNew(v) => enqueued[v] \in {"no", "sent"} \/ jobs'[u] \in {jobs[u], NoJob}
        BY <1>4 DEF CallStep, Enqueue, EnqueueFails, EnqueueResend, ForgetRead,
            ForgetDelete, ForgetFails, ForgetAbandoned, ExpireStatus, DropStatus, TypeOK, RedisOK
    <2>4. QED
        BY <2>1, <2>2, <2>3
<1>5. CASE Next
    BY <1>1, <1>2, <1>3, <1>4, <1>5 DEF Next, FaultStep
<1>6. CASE UNCHANGED vars
    BY <1>6 DEF vars
<1>7. QED
    BY <1>5, <1>6

\* The attempts of a job never go down while its status exists.
THEOREM AttemptsOnlyGrow == Spec => AttemptsNeverUndone
<1>1. ASSUME TypeOK, Ownership, StartsAreCounted, [Next]_vars, NEW u \in Upload,
             jobs[u] # NoJob, jobs'[u] # NoJob
      PROVE  jobs'[u].attempts >= jobs[u].attempts
    <2>1. jobs[u].attempts \in Nat
        BY <1>1, AttemptsAssumption DEF TypeOK, RedisOK, Job, Counts
    <2>2. CASE jobs'[u] = jobs[u]
        BY <2>1, <2>2
    <2>3. CASE PushNew(u) /\ enqueued[u] \in {"no", "sent"}
        BY <1>1, <2>3 DEF Ownership, NewIsUnknown
    <2>4. ASSUME NEW w \in Worker, pc[w] \in {"count", "save"}, held[w] = u,
                 SetJob(held[w], copy[w])
          PROVE  jobs'[u].attempts >= jobs[u].attempts
        <3>1. /\ jobs' = [jobs EXCEPT ![held[w]] = copy[w]] /\ copy[w].attempts \in Counts
              /\ jobs[u].attempts <= copy[w].attempts
            BY <1>1, <2>4, CountsAndSaves
        <3>2. jobs'[u] = copy[w] /\ copy[w].attempts \in Nat
            BY <1>1, <2>4, <3>1, AttemptsAssumption DEF TypeOK, RedisOK, Counts
        <3>3. QED
            BY <2>1, <3>1, <3>2
    <2>5. QED
        BY <1>1, <2>2, <2>3, <2>4, StatusWriters
<1>2. TypeOK /\ QueueInv /\ [Next]_vars =>
          [NoFalseSuspicion' =>
              \A u \in Upload : jobs[u] # NoJob /\ jobs'[u] # NoJob
                                    => jobs'[u].attempts >= jobs[u].attempts]_vars
    BY <1>1, SuspicionStays DEF QueueInv
<1>3. QED
    BY <1>2, QueueInvHolds, TypeCorrect, PTL DEF Spec, AttemptsNeverUndone

-----------------------------------------------------------------------------
(* Only finished jobs leave. *)

\* A worker drops a job only while its status does not exist.
DropsUnknown == \A w \in Worker : pc[w] = "drop" => jobs[held[w]] = NoJob

LEMMA StepDrops ==
    ASSUME NoFalseSuspicion', TypeOK, Ownership, DropsUnknown, [Next]_vars
    PROVE  DropsUnknown'
<1> SUFFICES ASSUME NEW w \in Worker, pc'[w] = "drop"
             PROVE  jobs'[held'[w]] = NoJob
    BY DEF DropsUnknown
<1>1. CASE pc[w] = "drop" /\ held'[w] = held[w]
    <2>1. Handling(w) /\ held[w] \in Upload /\ InList(w, held[w]) /\ jobs[held[w]] = NoJob
        BY <1>1 DEF Handling, TypeOK, ThreadOK, Ownership, HeldIsListed, DropsUnknown
    <2>2. ~(PushNew(held[w]) /\ enqueued[held[w]] \in {"no", "sent"})
        BY <2>1 DEF Ownership, NewIsUnknown, Tracked
    <2>3. ASSUME NEW x \in Worker, pc[x] \in {"count", "save"} PROVE held[x] # held[w]
        <3>1. x # w /\ Handling(x)
            BY <1>1, <2>3 DEF Handling
        <3>2. QED
            BY <2>1, <3>1 DEF Ownership, ListedOnce, HeldIsListed
    <2>4. jobs'[held[w]] \in {jobs[held[w]], NoJob}
        BY <2>1, <2>2, <2>3, StatusWriters
    <2>5. QED
        BY <1>1, <2>1, <2>4
<1>2. CASE LoadMissing(w)
    BY <1>2 DEF LoadMissing, redis, locals
<1>3. (pc[w] = "drop" /\ held'[w] = held[w]) \/ LoadMissing(w)
    <2> USE DEF thread, locals
    <2>1. ASSUME NEW x \in Worker, WorkStep(x)
          PROVE  (pc[w] = "drop" /\ held'[w] = held[w]) \/ LoadMissing(w)
        BY <2>1 DEF WorkStep, LoopTop, Heartbeat, Claim, ClaimTimeout, Load, LoadMissing, Drop,
            Count, Tell, Save, Conclude, ConcludeGone, Raise, Ack, Release, Goto, Leave, AfterTell,
            TypeOK, ThreadOK
    <2>2. ASSUME NEW x \in Worker, WatchStep(x) \/ LifeStep(x) \/ FaultStep(x)
          PROVE  pc[w] = "drop" /\ held'[w] = held[w]
        BY <2>2 DEF WatchStep, WatchTop, WatchBeat, SweepBegin, SweepMove, SweepEnd, ScanEnd,
            WatchFails, LifeStep, Start, Stop, Retire, RetireFails, Exit, Crash, End, Leave, Goto,
            Expire, Lapse, FaultStep, CallFails, Resend, TypeOK, ThreadOK
    <2>3. ASSUME NEW u \in Upload, CallStep(u) PROVE pc[w] = "drop" /\ held'[w] = held[w]
        BY <2>3 DEF CallStep, Enqueue, EnqueueFails, EnqueueResend, ForgetRead, ForgetDelete,
            ForgetFails, ForgetAbandoned, ExpireStatus
    <2>4. QED
        BY <2>1, <2>2, <2>3 DEF Next, vars
<1>4. QED
    BY <1>1, <1>2, <1>3

\* No job is lost: it leaves the lists when the worker that claimed it acknowledges it, at
\* the end of handle_job or because forget_video deleted its status.
THEOREM JobsAreNotLost == Spec => NoJobLost
<1> DEFINE Inv == NoFalseSuspicion => DropsUnknown
<1>1. TypeOK /\ Inv /\ [Next]_vars =>
          [NoFalseSuspicion' =>
              \A u \in Upload :
                  Tracked(u) /\ ~Tracked(u)' =>
                      \E w \in Worker : /\ held[w] = u
                                        /\ \/ pc[w] = "ack"
                                           \/ pc[w] = "drop" /\ jobs[u] = NoJob]_vars
    BY StepKeeps, SuspicionStays DEF DropsUnknown
<1>2. TypeOK /\ QueueInv /\ Inv /\ [Next]_vars => Inv'
    BY StepDrops, SuspicionStays DEF QueueInv
<1>3. Init => Inv
    BY DEF Init, DropsUnknown
<1>4. QED
    BY <1>1, <1>2, <1>3, QueueInvHolds, TypeCorrect, PTL DEF Spec, NoJobLost

-----------------------------------------------------------------------------
(* Jobs that come back go to the front. *)

\* Jobs that some claim has moved are ahead of the others, and a job nobody has claimed is in
\* the queue once.
Ordered(s, T) ==
    \A i, j \in 1 .. Len(s) : i < j =>
        /\ s[j] \in T => s[i] \in T
        /\ s[i] = s[j] => s[i] \in T

LEMMA TailOrdered ==
    ASSUME NEW S, NEW s \in Seq(S), s # <<>>, NEW T, Ordered(s, T)
    PROVE  Ordered(Tail(s), T \cup {Head(s)})
<1> DEFINE r == Tail(s)
<1>1. /\ r \in Seq(S) /\ Len(r) = Len(s) - 1 /\ Len(s) \in Nat
      /\ \A i \in 1 .. Len(s) - 1 : r[i] = s[i + 1]
      /\ Head(s) = s[1]
    BY HeadTailProperties, EmptySeq
<1> HIDE DEF r
<1>2. ASSUME NEW i \in 1 .. Len(r), NEW j \in 1 .. Len(r), i < j
      PROVE  /\ r[j] \in T \cup {s[1]} => r[i] \in T \cup {s[1]}
             /\ r[i] = r[j] => r[i] \in T \cup {s[1]}
    <2>1. /\ r[i] = s[i + 1] /\ r[j] = s[j + 1]
          /\ 1 \in 1 .. Len(s) /\ i + 1 \in 1 .. Len(s) /\ j + 1 \in 1 .. Len(s)
          /\ 1 < j + 1 /\ i + 1 < j + 1
        BY <1>1, <1>2
    <2>2. s[1] = s[j + 1] => s[1] \in T
        BY <2>1 DEF Ordered
    <2>3. /\ s[j + 1] \in T => s[i + 1] \in T
          /\ s[i + 1] = s[j + 1] => s[i + 1] \in T
        BY <2>1 DEF Ordered
    <2>4. QED
        BY <2>1, <2>2, <2>3
<1>3. QED
    BY <1>1, <1>2 DEF Ordered, r

LEMMA ConsOrdered ==
    ASSUME NEW S, NEW s \in Seq(S), NEW e \in S, NEW T, e \in T, Ordered(s, T)
    PROVE  Ordered(Cons(e, s), T)
<1> DEFINE r == Cons(e, s)
<1>1. <<e>> \in Seq(S) /\ Len(<<e>>) = 1 /\ <<e>>[1] = e /\ Len(s) \in Nat
    OBVIOUS
<1>2. /\ r \in Seq(S) /\ Len(r) = 1 + Len(s)
      /\ \A i \in 1 .. 1 + Len(s) : r[i] = IF i <= 1 THEN <<e>>[i] ELSE s[i - 1]
    BY <1>1, ConcatProperties DEF Cons
<1> HIDE DEF r
<1>3. r[1] = e /\ \A i \in 2 .. 1 + Len(s) : i - 1 \in 1 .. Len(s) /\ r[i] = s[i - 1]
    BY <1>1, <1>2
<1>4. ASSUME NEW i \in 1 .. Len(r), NEW j \in 1 .. Len(r), i < j
      PROVE  /\ r[j] \in T => r[i] \in T
             /\ r[i] = r[j] => r[i] \in T
    <2>1. CASE i = 1
        BY <1>3, <2>1
    <2>2. CASE i # 1
        <3>1. /\ i \in 2 .. 1 + Len(s) /\ j \in 2 .. 1 + Len(s) /\ i - 1 < j - 1
            BY <1>1, <1>2, <1>4, <2>2
        <3>2. QED
            BY <1>3, <3>1 DEF Ordered
    <2>3. QED
        BY <2>1, <2>2
<1>5. QED
    BY <1>4 DEF Ordered, r

LEMMA AppendOrdered ==
    ASSUME NEW S, NEW s \in Seq(S), NEW e \in S, NEW T, e \notin T, ~Contains(s, e),
           Ordered(s, T)
    PROVE  Ordered(Append(s, e), T)
<1> DEFINE r == Append(s, e)
<1>1. /\ r \in Seq(S) /\ Len(r) = Len(s) + 1 /\ Len(s) \in Nat
      /\ \A i \in 1 .. Len(s) : r[i] = s[i]
      /\ r[Len(s) + 1] = e
    BY AppendProperties
<1> HIDE DEF r
<1>2. \A i \in 1 .. Len(s) : s[i] # e
    BY DEF Contains
<1>3. ASSUME NEW i \in 1 .. Len(r), NEW j \in 1 .. Len(r), i < j
      PROVE  /\ r[j] \in T => r[i] \in T
             /\ r[i] = r[j] => r[i] \in T
    <2>1. i \in 1 .. Len(s) /\ (j = Len(s) + 1 \/ j \in 1 .. Len(s))
        BY <1>1, <1>3
    <2>2. QED
        BY <1>1, <1>2, <1>3, <2>1 DEF Ordered
<1>4. QED
    BY <1>3 DEF Ordered, r

\* Only what was enqueued is known to the queue, and what is in a list or in the hand of a
\* worker was claimed.
Known ==
    /\ \A u \in Upload : u \in taken \/ InQueue(u) => enqueued[u] # "no"
    /\ \A w \in Worker, u \in Upload : InList(w, u) => u \in taken
    /\ \A w \in Worker : Handling(w) => held[w] \in taken

NoneSentTwice == \A u \in Upload : enqueued[u] # "sent"

ReturnInv == Known /\ (faults.resend = 0 => NoneSentTwice /\ Ordered(queue, taken))

\* The ways a step changes the lists.
LEMMA ListsMove ==
    ASSUME TypeOK, [Next]_vars
    PROVE  \/ UNCHANGED <<queue, processing, taken>>
           \/ \E w \in Worker : MoveToOwn(w)
           \/ \E w \in Worker : Handling(w) /\ (RemoveOwn(w, held[w]) \/ GiveBack(w, held[w]))
           \/ \E d \in Worker : MoveBack(d)
           \/ \E u \in Upload : /\ PushNew(u) /\ enqueued[u] \in {"no", "sent"}
                                /\ enqueued'[u] # "no"
<1> USE DEF redis
<1>1. ASSUME NEW w \in Worker, Command(w)
      PROVE  \/ UNCHANGED <<queue, processing, taken>>
             \/ MoveToOwn(w)
             \/ Handling(w) /\ (RemoveOwn(w, held[w]) \/ GiveBack(w, held[w]))
    BY <1>1 DEF Command, SetHeartbeat, SetJob, Handling
<1>2. ASSUME NEW w \in Worker, WorkStep(w)
      PROVE  UNCHANGED <<queue, processing, taken>> \/ Command(w)
    BY <1>2 DEF WorkStep, LoopTop, Heartbeat, Claim, ClaimTimeout, Load, LoadMissing, Drop, Count,
                Tell, Save, Conclude, ConcludeGone, Raise, Ack, Release, Command
<1>3. ASSUME NEW w \in Worker, WatchStep(w) \/ WatchFails(w)
      PROVE  UNCHANGED <<queue, processing, taken>> \/ (target[w] \in Worker /\ MoveBack(target[w]))
    BY <1>3 DEF WatchStep, WatchTop, WatchBeat, SweepBegin, SweepMove, SweepEnd, ScanEnd,
                WatchFails, SetHeartbeat, TypeOK, WatchOK
<1>4. ASSUME NEW w \in Worker, LifeStep(w) PROVE UNCHANGED <<queue, processing, taken>>
    BY <1>4 DEF LifeStep, Start, Stop, Retire, RetireFails, Exit, Crash, End, Expire, Lapse
<1>5. ASSUME NEW w \in Worker, CallFails(w) \/ Resend(w)
      PROVE  UNCHANGED <<queue, processing, taken>> \/ Command(w)
    BY <1>5 DEF CallFails, Resend
<1>6. ASSUME NEW u \in Upload, CallStep(u)
      PROVE  \/ UNCHANGED <<queue, processing, taken>>
             \/ PushNew(u) /\ enqueued[u] \in {"no", "sent"} /\ enqueued'[u] # "no"
    BY <1>6 DEF CallStep, Enqueue, EnqueueFails, EnqueueResend, ForgetRead, ForgetDelete,
                ForgetFails, ForgetAbandoned, ExpireStatus, DropStatus, TypeOK, RestOK
<1>7. CASE Next
    BY <1>1, <1>2, <1>3, <1>4, <1>5, <1>6, <1>7 DEF Next, FaultStep
<1>8. CASE UNCHANGED vars
    BY <1>8 DEF vars
<1>9. QED
    BY <1>7, <1>8

\* A job comes to the lists by an enqueue only, which happens once.
LEMMA StepTracks ==
    ASSUME TypeOK, Ownership, [Next]_vars, NEW u \in Upload, Tracked(u)'
    PROVE  Tracked(u) \/ (PushNew(u) /\ enqueued[u] = "no" /\ enqueued'[u] # "no")
<1> USE DEF TypeOK, Ownership, Tracked
<1>1. CASE UNCHANGED <<queue, processing>>
    BY <1>1, ListsStay
<1>2. ASSUME NEW w \in Worker, MoveToOwn(w) PROVE Tracked(u)
    BY <1>2, ClaimMoves
<1>3. ASSUME NEW w \in Worker, Handling(w), RemoveOwn(w, held[w]) PROVE Tracked(u)
    BY <1>3, AckMoves DEF ThreadOK
<1>4. ASSUME NEW w \in Worker, Handling(w), GiveBack(w, held[w]) PROVE Tracked(u)
    BY <1>4, ReleaseMoves DEF ThreadOK, HeldIsListed
<1>5. ASSUME NEW d \in Worker, MoveBack(d) PROVE Tracked(u)
    BY <1>5, SweepMoves
<1>6. ASSUME NEW v \in Upload, PushNew(v), enqueued[v] \in {"no", "sent"}, enqueued'[v] # "no"
      PROVE  Tracked(u) \/ (PushNew(u) /\ enqueued[u] = "no" /\ enqueued'[u] # "no")
    BY <1>6, EnqueueMoves DEF NewIsUnknown
<1>7. QED
    BY <1>1, <1>2, <1>3, <1>4, <1>5, <1>6, ListsMove

\* A worker comes to have a job in hand by its claim only.
LEMMA HandsMove ==
    ASSUME TypeOK, [Next]_vars, NEW x \in Worker, Handling(x)'
    PROVE  \/ Handling(x) /\ held'[x] = held[x]
           \/ MoveToOwn(x) /\ held'[x] = Head(queue)
<1> USE DEF Handling, TypeOK, ThreadOK, Goto, Leave, locals, thread
<1>1. CASE UNCHANGED <<pc, held>>
    BY <1>1
<1>2. ASSUME NEW w \in Worker, WorkStep(w)
      PROVE  \/ Handling(x) /\ held'[x] = held[x]
             \/ MoveToOwn(x) /\ held'[x] = Head(queue)
    BY <1>2 DEF WorkStep, LoopTop, Heartbeat, Claim, ClaimTimeout, Load, LoadMissing, Drop, Count,
                Tell, Save, Conclude, ConcludeGone, Raise, Ack, Release, AfterTell
<1>3. ASSUME NEW w \in Worker, CallFails(w) PROVE Handling(x) /\ held'[x] = held[x]
    BY <1>3 DEF CallFails
<1>4. ASSUME NEW w \in Worker, LifeStep(w) PROVE Handling(x) /\ held'[x] = held[x]
    BY <1>4 DEF LifeStep, Start, Stop, Retire, RetireFails, Exit, Crash, End, Expire, Lapse
<1>5. ASSUME NEW w \in Worker, WatchStep(w) \/ WatchFails(w) \/ Resend(w)
      PROVE  UNCHANGED <<pc, held>>
    BY <1>5 DEF WatchStep, WatchTop, WatchBeat, SweepBegin, SweepMove, SweepEnd, ScanEnd,
                WatchFails, Resend
<1>6. ASSUME NEW u \in Upload, CallStep(u) PROVE UNCHANGED <<pc, held>>
    BY <1>6 DEF CallStep, Enqueue, EnqueueFails, EnqueueResend, ForgetRead, ForgetDelete,
                ForgetFails, ForgetAbandoned, ExpireStatus
<1>7. CASE Next
    BY <1>1, <1>2, <1>3, <1>4, <1>5, <1>6, <1>7 DEF Next, FaultStep
<1>8. CASE UNCHANGED vars
    BY <1>1, <1>8 DEF vars
<1>9. QED
    BY <1>7, <1>8

\* An enqueue is never undone, and is sent twice only when that is counted as a fault.
LEMMA CallsMove ==
    ASSUME TypeOK, [Next]_vars
    PROVE  /\ \A u \in Upload : enqueued[u] # "no" => enqueued'[u] # "no"
           /\ faults'.resend = 0 =>
                 /\ faults.resend = 0
                 /\ \A u \in Upload : enqueued'[u] = "sent" => enqueued[u] = "sent"
<1> USE DEF TypeOK, RestOK, calls
<1>1. ASSUME NEW w \in Worker, WorkStep(w) \/ WatchStep(w)
      PROVE  UNCHANGED <<enqueued, faults>>
    BY <1>1 DEF WorkStep, LoopTop, Heartbeat, Claim, ClaimTimeout, Load, LoadMissing, Drop, Count,
        Tell, Save, Conclude, ConcludeGone, Raise, Ack, Release, WatchStep, WatchTop, WatchBeat,
        SweepBegin, SweepMove, SweepEnd, ScanEnd
<1>2. ASSUME NEW w \in Worker, LifeStep(w) \/ FaultStep(w)
      PROVE  enqueued' = enqueued /\ (faults'.resend = 0 => faults.resend = 0)
    BY <1>2 DEF LifeStep, Start, Stop, Retire, RetireFails, Exit, Crash, End, Expire, Lapse,
        FaultStep, CallFails, Resend, WatchFails
<1>3. ASSUME NEW v \in Upload, CallStep(v)
      PROVE  /\ \A u \in Upload : enqueued[u] # "no" => enqueued'[u] # "no"
             /\ faults'.resend = 0 =>
                   /\ faults.resend = 0
                   /\ \A u \in Upload : enqueued'[u] = "sent" => enqueued[u] = "sent"
    BY <1>3 DEF CallStep, Enqueue, EnqueueFails, EnqueueResend, ForgetRead, ForgetDelete,
        ForgetFails, ForgetAbandoned, ExpireStatus
<1>4. QED
    BY <1>1, <1>2, <1>3 DEF Next, vars

LEMMA KnownStays ==
    ASSUME TypeOK, Known, [Next]_vars
    PROVE  Known'
<1>1. /\ queue \in Seq(Upload) /\ processing \in [Worker -> Seq(Upload)]
      /\ \A w \in Worker : Handling(w) => held[w] \in Upload
    BY DEF TypeOK, RedisOK, ThreadOK
<1> DEFINE Learns ==
        /\ taken \subseteq taken'
        /\ \A u \in Upload : u \in taken' \/ InQueue(u)' =>
               u \in taken \/ InQueue(u) \/ enqueued'[u] # "no"
        /\ \A w \in Worker, u \in Upload : InList(w, u)' => InList(w, u) \/ u \in taken'
<1>2. Learns
    <2>1. CASE UNCHANGED <<queue, processing, taken>>
        BY <2>1 DEF InQueue, InList
    <2>2. ASSUME NEW w \in Worker, MoveToOwn(w) PROVE Learns
        <3>1. /\ queue # <<>> /\ queue' = Tail(queue) /\ taken' = taken \cup {Head(queue)}
              /\ processing' = [processing EXCEPT ![w] = Append(@, Head(queue))]
            BY <2>2 DEF MoveToOwn
        <3>2. /\ Head(queue) \in Upload /\ Contains(queue, Head(queue))
              /\ \A u : Contains(Tail(queue), u) => Contains(queue, u)
            BY <1>1, <3>1, TailElements
        <3>3. \A u : Contains(Append(processing[w], Head(queue)), u) <=>
                        Contains(processing[w], u) \/ u = Head(queue)
            BY <1>1, <3>2, AppendElements
        <3>4. QED
            BY <1>1, <3>1, <3>2, <3>3 DEF InQueue, InList
    <2>3. ASSUME NEW w \in Worker, Handling(w), RemoveOwn(w, held[w]) PROVE Learns
        <3>1. /\ queue' = queue /\ taken' = taken
              /\ processing' = [processing EXCEPT ![w] = RemoveFirst(@, held[w])]
            BY <2>3 DEF RemoveOwn
        <3>2. \A u : Contains(RemoveFirst(processing[w], held[w]), u) => Contains(processing[w], u)
            BY <1>1, RemoveFirstElements
        <3>3. QED
            BY <1>1, <3>1, <3>2 DEF InQueue, InList
    <2>4. ASSUME NEW w \in Worker, Handling(w), GiveBack(w, held[w]) PROVE Learns
        <3>1. /\ queue' = Cons(held[w], queue) /\ taken' = taken
              /\ processing' = [processing EXCEPT ![w] = RemoveFirst(@, held[w])]
            BY <2>4 DEF GiveBack
        <3>2. \A u : Contains(RemoveFirst(processing[w], held[w]), u) => Contains(processing[w], u)
            BY <1>1, RemoveFirstElements
        <3>3. \A u : Contains(Cons(held[w], queue), u) <=> Contains(queue, u) \/ u = held[w]
            BY <1>1, <2>4, ConsElements
        <3>4. held[w] \in taken
            BY <2>4 DEF Known
        <3>5. QED
            BY <1>1, <3>1, <3>2, <3>3, <3>4 DEF InQueue, InList
    <2>5. ASSUME NEW d \in Worker, MoveBack(d) PROVE Learns
        <3> DEFINE v == Last(processing[d])
        <3>1. /\ queue' = Cons(v, queue) /\ processing[d] # <<>> /\ taken' = taken
              /\ processing' = [processing EXCEPT ![d] = Front(@)]
            BY <2>5 DEF MoveBack
        <3>2. /\ v \in Upload /\ Contains(processing[d], v)
              /\ \A u : Contains(Front(processing[d]), u) => Contains(processing[d], u)
            BY <1>1, <3>1, FrontElements
        <3> HIDE DEF v
        <3>3. \A u : Contains(Cons(v, queue), u) <=> Contains(queue, u) \/ u = v
            BY <1>1, <3>2, ConsElements
        <3>4. v \in taken
            BY <3>2 DEF Known, InList
        <3>5. QED
            BY <1>1, <3>1, <3>2, <3>3, <3>4 DEF InQueue, InList
    <2>6. ASSUME NEW v \in Upload, PushNew(v), enqueued'[v] # "no" PROVE Learns
        <3>1. queue' = Append(queue, v) /\ UNCHANGED <<processing, taken>>
            BY <2>6 DEF PushNew
        <3>2. \A u : Contains(Append(queue, v), u) <=> Contains(queue, u) \/ u = v
            BY <1>1, AppendElements
        <3>3. QED
            BY <2>6, <3>1, <3>2 DEF InQueue, InList
    <2>7. QED
        BY <2>1, <2>2, <2>3, <2>4, <2>5, <2>6, ListsMove
<1>3. \A u \in Upload : u \in taken' \/ InQueue(u)' => enqueued'[u] # "no"
    BY <1>2, CallsMove DEF Known
<1>4. \A w \in Worker, u \in Upload : InList(w, u)' => u \in taken'
    BY <1>2 DEF Known
<1>5. ASSUME NEW w \in Worker, Handling(w)' PROVE held'[w] \in taken'
    <2>1. CASE Handling(w) /\ held'[w] = held[w]
        BY <1>2, <2>1 DEF Known
    <2>2. CASE MoveToOwn(w) /\ held'[w] = Head(queue)
        BY <2>2 DEF MoveToOwn
    <2>3. QED
        BY <1>5, <2>1, <2>2, HandsMove
<1>6. QED
    BY <1>3, <1>4, <1>5 DEF Known

LEMMA OrderStays ==
    ASSUME TypeOK, Known, NoneSentTwice, Ordered(queue, taken), [Next]_vars
    PROVE  Ordered(queue, taken)'
<1>1. /\ queue \in Seq(Upload) /\ processing \in [Worker -> Seq(Upload)]
      /\ \A w \in Worker : Handling(w) => held[w] \in Upload
    BY DEF TypeOK, RedisOK, ThreadOK
<1>2. CASE UNCHANGED <<queue, processing, taken>>
    BY <1>2 DEF Ordered
<1>3. ASSUME NEW w \in Worker, MoveToOwn(w) PROVE Ordered(queue', taken')
    BY <1>1, <1>3, TailOrdered DEF MoveToOwn
<1>4. ASSUME NEW w \in Worker, Handling(w), RemoveOwn(w, held[w]) PROVE Ordered(queue', taken')
    BY <1>4 DEF RemoveOwn
<1>5. ASSUME NEW w \in Worker, Handling(w), GiveBack(w, held[w]) PROVE Ordered(queue', taken')
    BY <1>1, <1>5, ConsOrdered DEF GiveBack, Known
<1>6. ASSUME NEW d \in Worker, MoveBack(d) PROVE Ordered(queue', taken')
    <2>1. processing[d] # <<>> /\ queue' = Cons(Last(processing[d]), queue) /\ taken' = taken
        BY <1>6 DEF MoveBack
    <2>2. Last(processing[d]) \in Upload /\ Contains(processing[d], Last(processing[d]))
        BY <1>1, <2>1, FrontElements
    <2>3. Last(processing[d]) \in taken
        BY <2>2 DEF Known, InList
    <2>4. QED
        BY <1>1, <2>1, <2>2, <2>3, ConsOrdered
<1>7. ASSUME NEW u \in Upload, PushNew(u), enqueued[u] \in {"no", "sent"}
      PROVE  Ordered(queue', taken')
    <2>1. queue' = Append(queue, u) /\ taken' = taken
        BY <1>7 DEF PushNew
    <2>2. u \notin taken /\ ~Contains(queue, u)
        BY <1>7 DEF Known, NoneSentTwice, InQueue
    <2>3. QED
        BY <1>1, <2>1, <2>2, AppendOrdered
<1>8. Ordered(queue', taken')
    BY <1>2, <1>3, <1>4, <1>5, <1>6, <1>7, ListsMove
<1>9. QED
    BY <1>8

LEMMA AlwaysReturns == Spec => []ReturnInv
<1>1. Init => ReturnInv
    <2>1. ASSUME Init PROVE Ordered(queue, taken)
        BY <2>1 DEF Init, Ordered
    <2>2. ASSUME Init PROVE Known /\ NoneSentTwice
        BY <2>2 DEF Init, Known, NoneSentTwice, InQueue, InList, Handling, Contains
    <2>3. QED
        BY <2>1, <2>2 DEF ReturnInv
<1>2. ASSUME TypeOK, ReturnInv, [Next]_vars PROVE ReturnInv'
    <2>1. ASSUME faults'.resend = 0 PROVE NoneSentTwice' /\ Ordered(queue, taken)'
        <3>1. faults.resend = 0 /\ NoneSentTwice'
            BY <1>2, <2>1, CallsMove DEF ReturnInv, NoneSentTwice
        <3>2. QED
            BY <1>2, <3>1, OrderStays DEF ReturnInv
    <2>2. QED
        BY <1>2, <2>1, KnownStays DEF ReturnInv
<1>3. QED
    BY <1>1, <1>2, TypeCorrect, PTL DEF Spec

\* The jobs that came back, by release or by requeue_abandoned, stay ahead of those nobody has
\* claimed yet, with any number of workers and uploads, and of lapses and failing calls.
THEOREM ReturnedAreFirst == Spec => []ReturnedJobsFirst
<1>1. ReturnInv => ReturnedJobsFirst
    BY DEF ReturnInv, Ordered, ReturnedJobsFirst
<1>2. QED
    BY <1>1, AlwaysReturns, PTL

-----------------------------------------------------------------------------
(* UploadQueue implements JobLedger, as long as no heartbeat lapses under a live worker    *)
(* and no command is sent twice.                                                           *)

\* Where the job of an upload is, as the lists and the threads have it.
Placed ==
    \A u \in Upload :
        /\ enqueued[u] = "no" => Phase(u) = "new" /\ Owner(u) = None
        /\ enqueued[u] # "no" /\ InQueue(u) => Phase(u) = "waiting" /\ Owner(u) = None
        /\ enqueued[u] # "no" /\ ~Tracked(u) => Phase(u) = "over" /\ Owner(u) = None
        /\ \A w \in Worker : InList(w, u) =>
               /\ Owner(u) = w
               /\ Phase(u) = IF InHand(w, u) THEN "hand" ELSE "left"

LEMMA PlacesKnown == Ownership => Placed
<1> SUFFICES ASSUME Ownership, NEW u \in Upload
             PROVE  /\ enqueued[u] = "no" => Phase(u) = "new" /\ Owner(u) = None
                    /\ enqueued[u] # "no" /\ InQueue(u) => Phase(u) = "waiting" /\ Owner(u) = None
                    /\ enqueued[u] # "no" /\ ~Tracked(u) => Phase(u) = "over" /\ Owner(u) = None
                    /\ \A w \in Worker : InList(w, u) =>
                           /\ Owner(u) = w
                           /\ Phase(u) = IF InHand(w, u) THEN "hand" ELSE "left"
    BY DEF Placed
<1>1. /\ enqueued[u] = "no" => ~Tracked(u)
      /\ \A w \in Worker : InList(w, u) => Tracked(u) /\ ~InQueue(u)
      /\ \A w, x \in Worker : InList(w, u) /\ InList(x, u) => w = x
    BY DEF Ownership, NewIsUnknown, ListedOnce, Tracked
<1>2. ASSUME \A w \in Worker : ~InList(w, u) PROVE Owner(u) = None
    BY <1>2 DEF Owner
<1>3. ASSUME NEW w \in Worker, InList(w, u) PROVE Owner(u) = w
    <2>1. Owner(u) = CHOOSE x \in Worker : InList(x, u)
        BY <1>3 DEF Owner
    <2>2. Owner(u) \in Worker /\ InList(Owner(u), u)
        BY <1>3, <2>1
    <2>3. QED
        BY <1>1, <1>3, <2>2
<1>4. ASSUME NEW w \in Worker, InList(w, u)
      PROVE  Phase(u) = IF InHand(w, u) THEN "hand" ELSE "left"
    <2>1. enqueued[u] # "no" /\ ~InQueue(u) /\ Tracked(u)
        BY <1>1, <1>4
    <2>2. (\E x \in Worker : InHand(x, u)) <=> InHand(w, u)
        BY <1>1, <1>4 DEF InHand
    <2>3. QED
        BY <2>1, <2>2 DEF Phase
<1>5. QED
    BY <1>1, <1>2, <1>3, <1>4 DEF Phase, Tracked

LEMMA PlacesKnownNext == Ownership' => Placed'
    BY PlacesKnown, PTL

-----------------------------------------------------------------------------
(* What a step does to the ledger. *)

\* A job that a step does not touch.
Same(u) ==
    /\ enqueued'[u] = "no" <=> enqueued[u] = "no"
    /\ InQueue(u)' <=> InQueue(u)
    /\ \A x \in Worker : InList(x, u)' <=> InList(x, u)
    /\ \A x \in Worker : InHand(x, u)' <=> InHand(x, u)

LEMMA SamePlace ==
    ASSUME Placed, Placed', NEW u \in Upload, Same(u)
    PROVE  Phase(u)' = Phase(u) /\ Owner(u)' = Owner(u)
<1>1. CASE enqueued[u] = "no"
    BY <1>1 DEF Placed, Same
<1>2. CASE enqueued[u] # "no" /\ InQueue(u)
    BY <1>2 DEF Placed, Same
<1>3. ASSUME NEW w \in Worker, InList(w, u) PROVE Phase(u)' = Phase(u) /\ Owner(u)' = Owner(u)
    BY <1>3 DEF Placed, Same
<1>4. CASE enqueued[u] # "no" /\ ~Tracked(u)
    <2>1. ~Tracked(u)' /\ enqueued'[u] # "no"
        BY <1>4 DEF Tracked, Same
    <2>2. QED
        BY <1>4, <2>1 DEF Placed
<1>5. QED
    BY <1>1, <1>2, <1>3, <1>4 DEF Tracked

LEMMA Stutters ==
    ASSUME Placed, Placed', begun' = begun, \A u \in Upload : Same(u)
    PROVE  UNCHANGED Ledger!vars
    BY SamePlace DEF Ledger!vars

LEMMA Passes ==
    ASSUME Placed, Placed', begun' = begun, NEW v \in Upload, \A u \in Upload \ {v} : Same(u)
    PROVE  Ledger!Pass(v, Phase(v)', Owner(v)')
<1>1. \A u \in Upload \ {v} : Phase(u)' = Phase(u) /\ Owner(u)' = Owner(u)
    BY SamePlace
<1>2. QED
    BY <1>1 DEF Ledger!Pass

\* What a step leaves alone of the lists, for one job.
LEMMA UntouchedIsSame ==
    ASSUME NEW u \in Upload,
           enqueued'[u] = "no" <=> enqueued[u] = "no",
           InQueue(u)' <=> InQueue(u),
           \A x \in Worker : InList(x, u)' <=> InList(x, u),
           \A x \in Worker : (Handling(x) /\ held[x] = u)' <=> Handling(x) /\ held[x] = u
    PROVE  Same(u)
    BY DEF Same, InHand

\* A worker that has a job in hand owns it.
LEMMA HandlersOwn ==
    ASSUME TypeOK, Ownership, Placed, NEW w \in Worker, Handling(w)
    PROVE  /\ held[w] \in Upload /\ InList(w, held[w]) /\ enqueued[held[w]] # "no"
           /\ ~InQueue(held[w])
           /\ \A x \in Worker \ {w} : ~InList(x, held[w])
           /\ Phase(held[w]) = "hand" /\ Owner(held[w]) = w
<1>1. held[w] \in Upload /\ InList(w, held[w])
    BY DEF TypeOK, ThreadOK, Ownership, HeldIsListed
<1>2. Tracked(held[w])
    BY <1>1 DEF Tracked
<1>3. enqueued[held[w]] # "no"
    BY <1>1, <1>2 DEF Ownership, NewIsUnknown
<1>4. ~InQueue(held[w]) /\ \A x \in Worker \ {w} : ~InList(x, held[w])
    BY <1>1 DEF Ownership, ListedOnce
<1>5. InHand(w, held[w])
    BY <1>1 DEF InHand
<1>6. QED
    BY <1>1, <1>3, <1>4, <1>5 DEF Placed

LedgerStep == Ledger!Next \/ UNCHANGED Ledger!vars

LEMMA Yields ==
    ASSUME Placed, Placed', begun' = begun, NEW v \in Upload, \A u \in Upload \ {v} : Same(u),
           Phase(v) = "hand",
           \/ Phase(v)' \in {"waiting", "over"} /\ Owner(v)' = None
           \/ Phase(v)' = "left" /\ Owner(v)' = Owner(v)
    PROVE  LedgerStep
<1>1. Ledger!Pass(v, Phase(v)', Owner(v)')
    BY Passes
<1>2. Ledger!Yield(v)
    BY <1>1 DEF Ledger!Yield, Ledger!Pass
<1>3. QED
    BY <1>2 DEF LedgerStep, Ledger!Next

\* No list changes and no worker takes or drops a job.
LEMMA QuietSteps ==
    ASSUME Placed, Placed', UNCHANGED <<queue, processing, begun>>,
           \A u \in Upload : enqueued'[u] = "no" <=> enqueued[u] = "no",
           \A x \in Worker : /\ Handling(x)' <=> Handling(x)
                             /\ Handling(x) => held'[x] = held[x]
    PROVE  LedgerStep
<1>1. ASSUME NEW u \in Upload PROVE Same(u)
    <2>1. \A x \in Worker : (Handling(x) /\ held[x] = u)' <=> Handling(x) /\ held[x] = u
        OBVIOUS
    <2>2. QED
        BY <2>1, ListsStay, UntouchedIsSame
<1>2. QED
    BY <1>1, Stutters DEF LedgerStep

\* The lists stay, and a worker that may have a job in hand lets go of it.
LEMMA LettingGo ==
    ASSUME TypeOK, Ownership, Placed, Placed', NEW w \in Worker,
           UNCHANGED <<queue, processing, begun, enqueued>>,
           \A x \in Worker \ {w} : pc'[x] = pc[x] /\ held'[x] = held[x],
           ~Handling(w)'
    PROVE  LedgerStep
<1>1. \A x \in Worker \ {w} : Handling(x)' <=> Handling(x)
    BY DEF Handling
<1>2. CASE ~Handling(w)
    BY <1>1, <1>2, QuietSteps
<1>3. CASE Handling(w)
    <2>1. PICK v \in Upload :
              /\ v = held[w] /\ InList(w, v) /\ enqueued[v] # "no"
              /\ Phase(v) = "hand" /\ Owner(v) = w
        BY <1>3, HandlersOwn
    <2>2. ASSUME NEW u \in Upload \ {v} PROVE Same(u)
        <3>1. \A x \in Worker : (Handling(x) /\ held[x] = u)' <=> Handling(x) /\ held[x] = u
            BY <1>1, <2>1
        <3>2. QED
            BY <3>1, ListsStay, UntouchedIsSame
    <2>3. InList(w, v)' /\ ~InHand(w, v)'
        BY <2>1, ListsStay DEF InHand
    <2>4. Phase(v)' = "left" /\ Owner(v)' = w
        BY <2>1, <2>3 DEF Placed
    <2>5. QED
        BY <2>1, <2>2, <2>4, Yields
<1>4. QED
    BY <1>2, <1>3

-----------------------------------------------------------------------------
(* The commands that move a job. *)

\* BLMOVE: to the hand of a worker, or past it when the call raised.
LEMMA ClaimPasses ==
    ASSUME TypeOK, Ownership, Placed, Placed', NEW w \in Worker, MoveToOwn(w), ~Handling(w),
           UNCHANGED <<begun, enqueued>>,
           \A x \in Worker \ {w} : pc'[x] = pc[x] /\ held'[x] = held[x],
           Handling(w)' => held'[w] = Head(queue)
    PROVE  LedgerStep
<1>1. PICK v \in Upload :
          /\ v = Head(queue) /\ InQueue(v)
          /\ \A u \in Upload : InQueue(u)' <=> InQueue(u) /\ u # v
          /\ \A x \in Worker, u \in Upload : InList(x, u)' <=> InList(x, u) \/ (x = w /\ u = v)
    BY ClaimMoves DEF TypeOK, Ownership
<1>2. \A x \in Worker \ {w} : Handling(x)' <=> Handling(x)
    BY DEF Handling
<1>3. ASSUME NEW u \in Upload \ {v} PROVE Same(u)
    <2>1. \A x \in Worker : (Handling(x) /\ held[x] = u)' <=> Handling(x) /\ held[x] = u
        BY <1>1, <1>2
    <2>2. QED
        BY <1>1, <2>1, UntouchedIsSame
<1>4. Tracked(v)
    BY <1>1 DEF Tracked
<1>5. enqueued[v] # "no"
    BY <1>1, <1>4 DEF Ownership, NewIsUnknown
<1>6. Phase(v) = "waiting"
    BY <1>1, <1>5 DEF Placed
<1>7. InList(w, v)'
    BY <1>1
<1>8. Owner(v)' = w /\ Phase(v)' \in {"hand", "left"}
    BY <1>1, <1>7 DEF Placed
<1>9. Ledger!Pass(v, Phase(v)', Owner(v)')
    BY <1>1, <1>3, Passes
<1>10. Ledger!Claim(v, w)
    BY <1>1, <1>6, <1>8, <1>9 DEF Ledger!Claim, Ledger!Pass
<1>11. QED
    BY <1>1, <1>10 DEF LedgerStep, Ledger!Next

\* LREM: the job is over.
LEMMA AckPasses ==
    ASSUME TypeOK, Ownership, Placed, Placed', NEW w \in Worker, Handling(w),
           RemoveOwn(w, held[w]), ~Handling(w)',
           UNCHANGED <<begun, enqueued>>,
           \A x \in Worker \ {w} : pc'[x] = pc[x] /\ held'[x] = held[x]
    PROVE  LedgerStep
<1>1. PICK v \in Upload :
          /\ v = held[w] /\ InList(w, v) /\ enqueued[v] # "no" /\ ~InQueue(v)
          /\ \A x \in Worker \ {w} : ~InList(x, v)
          /\ Phase(v) = "hand"
    BY HandlersOwn
<1>2. /\ \A u \in Upload : InQueue(u)' <=> InQueue(u)
      /\ \A x \in Worker, u \in Upload : InList(x, u)' <=> InList(x, u) /\ ~(x = w /\ u = v)
    BY <1>1, AckMoves DEF TypeOK, Ownership
<1>3. \A x \in Worker \ {w} : Handling(x)' <=> Handling(x)
    BY DEF Handling
<1>4. ASSUME NEW u \in Upload \ {v} PROVE Same(u)
    <2>1. \A x \in Worker : (Handling(x) /\ held[x] = u)' <=> Handling(x) /\ held[x] = u
        BY <1>1, <1>3
    <2>2. QED
        BY <1>2, <2>1, UntouchedIsSame
<1>5. ~Tracked(v)'
    BY <1>1, <1>2 DEF Tracked
<1>6. Phase(v)' = "over" /\ Owner(v)' = None
    BY <1>1, <1>5 DEF Placed
<1>7. QED
    BY <1>1, <1>4, <1>6, Yields

\* LREM and LPUSH: the job waits again.
LEMMA ReleasePasses ==
    ASSUME TypeOK, Ownership, Placed, Placed', NEW w \in Worker, Handling(w),
           GiveBack(w, held[w]), ~Handling(w)',
           UNCHANGED <<begun, enqueued>>,
           \A x \in Worker \ {w} : pc'[x] = pc[x] /\ held'[x] = held[x]
    PROVE  LedgerStep
<1>1. PICK v \in Upload :
          v = held[w] /\ InList(w, v) /\ enqueued[v] # "no" /\ Phase(v) = "hand"
    BY HandlersOwn
<1>2. /\ \A u \in Upload : InQueue(u)' <=> InQueue(u) \/ u = v
      /\ \A x \in Worker, u \in Upload : InList(x, u)' <=> InList(x, u) /\ u # v
    BY <1>1, ReleaseMoves DEF TypeOK, Ownership
<1>3. \A x \in Worker \ {w} : Handling(x)' <=> Handling(x)
    BY DEF Handling
<1>4. ASSUME NEW u \in Upload \ {v} PROVE Same(u)
    <2>1. \A x \in Worker : (Handling(x) /\ held[x] = u)' <=> Handling(x) /\ held[x] = u
        BY <1>1, <1>3
    <2>2. QED
        BY <1>2, <2>1, UntouchedIsSame
<1>5. Phase(v)' = "waiting" /\ Owner(v)' = None
    BY <1>1, <1>2 DEF Placed
<1>6. QED
    BY <1>1, <1>4, <1>5, Yields

\* LMOVE from the list of a dead worker: nobody has the job in hand.
LEMMA SweepPasses ==
    ASSUME TypeOK, Ownership, Placed, Placed', NEW d \in Worker, life[d] \in {"retired", "gone"},
           MoveBack(d), UNCHANGED <<pc, held, begun, enqueued>>
    PROVE  LedgerStep
<1>1. PICK v \in Upload :
          /\ InList(d, v)
          /\ \A u \in Upload : InQueue(u)' <=> InQueue(u) \/ u = v
          /\ \A x \in Worker, u \in Upload : InList(x, u)' <=> InList(x, u) /\ u # v
    BY SweepMoves DEF TypeOK, Ownership
<1>2. \A x \in Worker : (Handling(x)' <=> Handling(x)) /\ held'[x] = held[x]
    BY DEF Handling
<1>3. ASSUME NEW u \in Upload \ {v} PROVE Same(u)
    BY <1>1, <1>2, UntouchedIsSame
<1>4. ~Handling(d)
    BY DEF Ownership, OwnersBeat, Handling
<1>5. Tracked(v)
    BY <1>1 DEF Tracked
<1>6. enqueued[v] # "no"
    BY <1>5 DEF Ownership, NewIsUnknown
<1>7. Phase(v) = "left"
    BY <1>1, <1>4 DEF Placed, InHand
<1>8. Phase(v)' = "waiting" /\ Owner(v)' = None
    BY <1>1, <1>6 DEF Placed
<1>9. Ledger!Pass(v, Phase(v)', Owner(v)')
    BY <1>3, Passes
<1>10. Ledger!Reclaim(v)
    BY <1>7, <1>8, <1>9 DEF Ledger!Reclaim, Ledger!Pass
<1>11. QED
    BY <1>10 DEF LedgerStep, Ledger!Next

\* enqueue: the job waits, or is over before it began when the pipeline did not reach Redis.
LEMMA EnqueuePasses ==
    ASSUME TypeOK, Ownership, Placed, Placed', NEW v \in Upload,
           enqueued[v] = "no", enqueued' = [enqueued EXCEPT ![v] = "done"],
           PushNew(v) \/ UNCHANGED redis,
           UNCHANGED <<pc, held, begun>>
    PROVE  LedgerStep
<1>1. ~Tracked(v) /\ Phase(v) = "new"
    BY DEF Ownership, NewIsUnknown, Placed
<1>2. /\ \A u \in Upload \ {v} : InQueue(u)' <=> InQueue(u)
      /\ \A x \in Worker, u \in Upload : InList(x, u)' <=> InList(x, u)
    BY <1>1, EnqueueMoves, ListsStay DEF TypeOK, Ownership, redis
<1>3. \A x \in Worker : (Handling(x)' <=> Handling(x)) /\ held'[x] = held[x]
    BY DEF Handling
<1>4. enqueued'[v] = "done" /\ \A u \in Upload \ {v} : enqueued'[u] = enqueued[u]
    BY DEF TypeOK, RestOK
<1>5. ASSUME NEW u \in Upload \ {v} PROVE Same(u)
    BY <1>2, <1>3, <1>4, UntouchedIsSame
<1>6. \A x \in Worker : ~InList(x, v)'
    BY <1>1, <1>2 DEF Tracked
<1>7. Phase(v)' \in {"waiting", "over"} /\ Owner(v)' = None
    BY <1>4, <1>6 DEF Placed, Tracked
<1>8. Ledger!Pass(v, Phase(v)', Owner(v)')
    BY <1>5, Passes
<1>9. Ledger!Accept(v)
    BY <1>1, <1>7, <1>8 DEF Ledger!Accept, Ledger!Pass
<1>10. QED
    BY <1>9 DEF LedgerStep, Ledger!Next

\* claim counts the start before handle_job begins it.
LEMMA CountStarts ==
    ASSUME TypeOK, Ownership, StartsAreCounted, Placed, Placed', NEW w \in Worker, Count(w)
    PROVE  LedgerStep
<1> USE DEF Goto, calls
<1>1. /\ UNCHANGED <<queue, processing, held, enqueued>>
      /\ pc[w] = "count" /\ pc'[w] \in {"handle", "tell"}
      /\ \A x \in Worker \ {w} : pc'[x] = pc[x]
    BY DEF Count, SetJob, TypeOK, ThreadOK
<1>2. \A x \in Worker : (Handling(x)' <=> Handling(x)) /\ held'[x] = held[x]
    BY <1>1 DEF Handling
<1>3. CASE begun' = begun
    BY <1>1, <1>2, <1>3, QuietSteps
<1>4. CASE begun' # begun
    <2>1. Handling(w)
        BY <1>1 DEF Handling
    <2>2. PICK v \in Upload : v = held[w] /\ Phase(v) = "hand"
        BY <2>1, HandlersOwn
    <2>3. ~(copy[w].attempts > MAX_ATTEMPTS) /\ begun' = [begun EXCEPT ![v] = Bump(@)]
        BY <1>4, <2>2 DEF Count
    <2>4. begun[v] < copy[w].attempts
        BY <1>1, <2>2 DEF StartsAreCounted
    <2>5. begun \in [Upload -> Counts] /\ copy[w].attempts \in Counts
        BY <1>1 DEF TypeOK, ThreadOK, Job
    <2>6. begun[v] < MAX_ATTEMPTS /\ Bump(begun[v]) = begun[v] + 1
        BY <2>3, <2>4, <2>5, AttemptsAssumption DEF Counts, Bump
    <2>7. \A u \in Upload : Phase(u)' = Phase(u) /\ Owner(u)' = Owner(u)
        <3>1. \A u \in Upload : Same(u)
            BY <1>1, <1>2, ListsStay, UntouchedIsSame
        <3>2. QED
            BY <3>1, SamePlace
    <2>8. Ledger!Start(v)
        BY <2>2, <2>3, <2>5, <2>6, <2>7 DEF Ledger!Start
    <2>9. QED
        BY <2>8 DEF LedgerStep, Ledger!Next
<1>5. QED
    BY <1>3, <1>4

-----------------------------------------------------------------------------
(* Every action. *)

LEMMA WorkKeepsLedger ==
    ASSUME TypeOK, Ownership, StartsAreCounted, Placed, Placed', NEW w \in Worker, WorkStep(w)
    PROVE  LedgerStep
<1> USE DEF Goto, Leave, locals, calls, redis, Handling
<1>1. \A x \in Worker \ {w} : pc'[x] = pc[x] /\ held'[x] = held[x]
    BY DEF WorkStep, LoopTop, Heartbeat, Claim, ClaimTimeout, Load, LoadMissing, Drop, Count, Tell,
           Save, Conclude, ConcludeGone, Raise, Ack, Release, TypeOK, ThreadOK
<1>2. CASE \/ LoopTop(w) \/ Heartbeat(w) \/ ClaimTimeout(w) \/ Load(w) \/ LoadMissing(w)
           \/ Tell(w) \/ Save(w) \/ (\E s \in Finished : Conclude(w, s))
           \/ ConcludeGone(w) \/ Raise(w)
    <2>1. UNCHANGED <<queue, processing, begun, held, enqueued>>
        BY <1>2 DEF LoopTop, Heartbeat, ClaimTimeout, Load, LoadMissing, Tell, Save, Conclude,
                    ConcludeGone, Raise, SetHeartbeat, SetJob
    <2>2. Handling(w)' <=> Handling(w)
        BY <1>2 DEF LoopTop, Heartbeat, ClaimTimeout, Load, LoadMissing, Tell, Save, Conclude,
                    ConcludeGone, Raise, AfterTell, TypeOK, ThreadOK
    <2>3. QED
        BY <1>1, <2>1, <2>2, QuietSteps
<1>3. CASE Claim(w)
    BY <1>1, <1>3, ClaimPasses DEF Claim, TypeOK, ThreadOK
<1>4. CASE Drop(w) \/ Ack(w)
    BY <1>1, <1>4, AckPasses DEF Drop, Ack, TypeOK, ThreadOK
<1>5. CASE Release(w)
    BY <1>1, <1>5, ReleasePasses DEF Release, TypeOK, ThreadOK
<1>6. CASE Count(w)
    BY <1>6, CountStarts
<1>7. QED
    BY <1>2, <1>3, <1>4, <1>5, <1>6 DEF WorkStep

\* A Redis call of the work thread that raises, its effect done or not.
LEMMA CallFailsKeepsLedger ==
    ASSUME TypeOK, Ownership, Placed, Placed', NEW w \in Worker, CallFails(w)
    PROVE  LedgerStep
<1> USE DEF Goto, Leave, locals, calls
<1>1. /\ \A x \in Worker \ {w} : pc'[x] = pc[x] /\ held'[x] = held[x]
      /\ UNCHANGED <<begun, enqueued>>
    BY DEF CallFails, TypeOK, ThreadOK
<1>2. Command(w) \/ UNCHANGED redis
    BY DEF CallFails
<1>3. CASE pc[w] \in {"tell", "save"}
    <2>1. UNCHANGED <<queue, processing>>
        BY <1>2, <1>3 DEF Command, SetJob, redis
    <2>2. held' = held /\ (Handling(w)' <=> Handling(w))
        BY <1>3 DEF CallFails, Handling, TypeOK, ThreadOK
    <2>3. \A x \in Worker : Handling(x)' <=> Handling(x)
        BY <1>1, <2>2 DEF Handling
    <2>4. QED
        BY <1>1, <2>1, <2>2, <2>3, QuietSteps
<1>4. CASE pc[w] \notin {"tell", "save"}
    <2>1. ~Handling(w)'
        BY <1>4 DEF CallFails, Handling, TypeOK, ThreadOK
    <2>2. CASE UNCHANGED <<queue, processing>>
        BY <1>1, <2>1, <2>2, LettingGo
    <2>3. CASE pc[w] = "claim" /\ MoveToOwn(w)
        BY <1>1, <2>1, <2>3, ClaimPasses DEF Handling
    <2>4. CASE pc[w] \in {"drop", "ack"} /\ RemoveOwn(w, held[w])
        BY <1>1, <2>1, <2>4, AckPasses DEF Handling
    <2>5. CASE pc[w] = "release" /\ GiveBack(w, held[w])
        BY <1>1, <2>1, <2>5, ReleasePasses DEF Handling
    <2>6. QED
        BY <1>2, <2>2, <2>3, <2>4, <2>5 DEF Command, SetHeartbeat, SetJob, redis
<1>5. QED
    BY <1>3, <1>4

LEMMA WatchKeepsLedger ==
    ASSUME TypeOK, Ownership, Placed, Placed', NEW w \in Worker, WatchStep(w) \/ WatchFails(w)
    PROVE  LedgerStep
<1>1. UNCHANGED <<pc, held, begun, enqueued>>
    BY DEF WatchStep, WatchTop, WatchBeat, SweepBegin, SweepMove, SweepEnd, ScanEnd, WatchFails,
           thread, calls
<1>2. CASE UNCHANGED <<queue, processing>>
    BY <1>1, <1>2, QuietSteps DEF Handling
<1>3. CASE watch[w] = "sweep" /\ MoveBack(target[w])
    <2>1. target[w] \in Worker /\ life[target[w]] \in {"retired", "gone"}
        BY <1>3 DEF TypeOK, WatchOK, Ownership, SweepsDead
    <2>2. QED
        BY <1>1, <1>3, <2>1, SweepPasses
<1>4. QED
    BY <1>2, <1>3 DEF WatchStep, WatchTop, WatchBeat, SweepBegin, SweepMove, SweepEnd, ScanEnd,
                      WatchFails, SetHeartbeat, redis

LEMMA LifeKeepsLedger ==
    ASSUME TypeOK, Ownership, Placed, Placed', NEW w \in Worker, LifeStep(w)
    PROVE  LedgerStep
<1> USE DEF Leave, Goto, thread, locals, calls, redis
<1>1. UNCHANGED <<queue, processing, begun, enqueued>>
    BY DEF LifeStep, Start, Stop, Retire, RetireFails, Exit, Crash, End, Expire, Lapse
<1>2. CASE Start(w) \/ Exit(w) \/ Crash(w)
    <2>1. /\ \A x \in Worker \ {w} : pc'[x] = pc[x] /\ held'[x] = held[x]
          /\ ~Handling(w)'
        BY <1>2 DEF Start, Exit, Crash, End, Handling, TypeOK, ThreadOK
    <2>2. QED
        BY <1>1, <2>1, LettingGo
<1>3. CASE UNCHANGED <<pc, held>>
    BY <1>1, <1>3, QuietSteps DEF Handling
<1>4. QED
    BY <1>2, <1>3 DEF LifeStep, Stop, Retire, RetireFails, Expire, Lapse

LEMMA CallsKeepLedger ==
    ASSUME NoFalseSuspicion', TypeOK, Ownership, Placed, Placed', NEW u \in Upload, CallStep(u)
    PROVE  LedgerStep
<1> USE DEF thread, redis
<1>1. UNCHANGED <<pc, held, begun>>
    BY DEF CallStep, Enqueue, EnqueueFails, EnqueueResend, ForgetRead, ForgetDelete, ForgetFails,
           ForgetAbandoned, ExpireStatus
<1>2. CASE Enqueue(u) \/ EnqueueFails(u)
    <2>1. enqueued[u] = "no"
        BY <1>2 DEF Enqueue, EnqueueFails, Ownership, NewIsUnknown
    <2>2. QED
        BY <1>1, <1>2, <2>1, EnqueuePasses DEF Enqueue, EnqueueFails
<1>3. ~EnqueueResend(u)
    BY DEF EnqueueResend, NoFalseSuspicion, TypeOK, RestOK
<1>4. CASE ForgetRead(u) \/ ForgetDelete(u) \/ ForgetFails(u) \/ ForgetAbandoned(u) \/ ExpireStatus(u)
    <2>1. UNCHANGED <<queue, processing, enqueued>>
        BY <1>4 DEF ForgetRead, ForgetDelete, ForgetFails, ForgetAbandoned, ExpireStatus, DropStatus, calls
    <2>2. QED
        BY <1>1, <2>1, QuietSteps DEF Handling
<1>5. QED
    BY <1>2, <1>3, <1>4 DEF CallStep

LEMMA StepKeepsLedger ==
    ASSUME TypeOK, Ownership, StartsAreCounted, Ownership', NoFalseSuspicion', [Next]_vars
    PROVE  LedgerStep
<1>1. Placed /\ Placed'
    BY PlacesKnown, PlacesKnownNext
<1>2. CASE UNCHANGED vars
    BY <1>1, <1>2, QuietSteps DEF vars, Handling
<1>3. ASSUME NEW w \in Worker, FaultStep(w) PROVE LedgerStep
    BY <1>1, <1>3, NothingResent, CallFailsKeepsLedger, WatchKeepsLedger DEF FaultStep
<1>4. CASE Next
    BY <1>1, <1>3, <1>4, WorkKeepsLedger, WatchKeepsLedger, LifeKeepsLedger, CallsKeepLedger DEF Next
<1>5. QED
    BY <1>2, <1>4

LEMMA InitKeepsLedger == Init => Ledger!Init
<1>1. ASSUME Init, NEW u \in Upload PROVE Phase(u) = "new" /\ Owner(u) = None
    BY <1>1, InitOwns, PlacesKnown DEF Init, Placed
<1>2. QED
    BY <1>1 DEF Ledger!Init, Init

\* As long as no heartbeat lapses under a live worker and no command is sent twice, the queue is
\* the ledger: a job a worker has in hand stays with it until that worker lets it go, it is
\* started at most MAX_ATTEMPTS times, and over is over, whoever crashes, stops or does not
\* reach Redis.
THEOREM LedgerIsKept == Spec /\ []NoFalseSuspicion => KeepsLedger
<1>1. Init => Ledger!Init
    BY InitKeepsLedger
<1>2. ASSUME TypeOK, QueueInv, QueueInv', NoFalseSuspicion, NoFalseSuspicion', [Next]_vars
      PROVE  Ledger!Next \/ UNCHANGED Ledger!vars
    BY <1>2, StepKeepsLedger DEF QueueInv, LedgerStep
<1>3. QED
    BY <1>1, <1>2, TypeCorrect, QueueInvHolds, PTL DEF KeepsLedger, Ledger!Spec, Spec
=============================================================================
