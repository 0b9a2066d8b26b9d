------------------------- MODULE UploadQueueSafety -------------------------
(***************************************************************************)
(* Exclusive and bounded processing of UploadQueue, for every number of    *)
(* workers, uploads and failing Redis calls, until a heartbeat lapses      *)
(* under a live worker or a command is sent twice.                         *)
(***************************************************************************)
EXTENDS UploadQueueProofs

-----------------------------------------------------------------------------
(* What each command does to the lists, as far as the invariant looks at them. *)

LEMMA ClaimMoves ==
    ASSUME RedisOK, ListedOnce, NEW w \in Worker, MoveToOwn(w)
    PROVE  /\ Head(queue) \in Upload /\ InQueue(Head(queue))
           /\ \A u \in Upload : InQueue(u)' <=> InQueue(u) /\ u # Head(queue)
           /\ \A x \in Worker, u \in Upload :
                 InList(x, u)' <=> InList(x, u) \/ (x = w /\ u = Head(queue))
           /\ ListedOnce'
<1> DEFINE h == Head(queue)
<1>1. /\ queue \in Seq(Upload) /\ queue # <<>> /\ queue' = Tail(queue)
      /\ processing \in [Worker -> Seq(Upload)]
      /\ processing' = [processing EXCEPT ![w] = Append(@, h)]
    BY DEF RedisOK, MoveToOwn
<1>2. IsInjective(queue) /\ \A x \in Worker : IsInjective(processing[x])
    BY DEF ListedOnce
<1>3. /\ h \in Upload /\ Contains(queue, h)
      /\ \A u : Contains(Tail(queue), u) <=> Contains(queue, u) /\ u # h
      /\ IsInjective(Tail(queue))
    BY <1>1, <1>2, TailElements
<1> HIDE DEF h
<1>4. ~Contains(processing[w], h)
    BY <1>3 DEF ListedOnce, InQueue, InList
<1>5. /\ \A u : Contains(Append(processing[w], h), u) <=> Contains(processing[w], u) \/ u = h
      /\ IsInjective(Append(processing[w], h))
    BY <1>1, <1>2, <1>3, <1>4, AppendElements
<1>6. \A u \in Upload : InQueue(u)' <=> InQueue(u) /\ u # h
    BY <1>1, <1>3 DEF InQueue
<1>7. \A x \in Worker, u \in Upload : InList(x, u)' <=> InList(x, u) \/ (x = w /\ u = h)
    BY <1>1, <1>5 DEF InList
<1>8. IsInjective(queue)' /\ \A x \in Worker : IsInjective(processing[x])'
    BY <1>1, <1>2, <1>3, <1>5
<1>9. ListedOnce'
    BY <1>3, <1>6, <1>7, <1>8 DEF ListedOnce, InQueue
<1>10. QED
    BY <1>3, <1>6, <1>7, <1>9 DEF h, InQueue

LEMMA AckMoves ==
    ASSUME RedisOK, ListedOnce, NEW w \in Worker, NEW v \in Upload, RemoveOwn(w, v)
    PROVE  /\ \A u \in Upload : InQueue(u)' <=> InQueue(u)
           /\ \A x \in Worker, u \in Upload : InList(x, u)' <=> InList(x, u) /\ ~(x = w /\ u = v)
           /\ ListedOnce'
<1>1. /\ queue' = queue /\ processing \in [Worker -> Seq(Upload)]
      /\ processing' = [processing EXCEPT ![w] = RemoveFirst(@, v)]
    BY DEF RedisOK, RemoveOwn
<1>2. IsInjective(queue) /\ \A x \in Worker : IsInjective(processing[x])
    BY DEF ListedOnce
<1>3. /\ \A u : Contains(RemoveFirst(processing[w], v), u) <=> Contains(processing[w], u) /\ u # v
      /\ IsInjective(RemoveFirst(processing[w], v))
    BY <1>1, <1>2, RemoveFirstElements
<1>4. \A u \in Upload : InQueue(u)' <=> InQueue(u)
    BY <1>1 DEF InQueue
<1>5. \A x \in Worker, u \in Upload : InList(x, u)' <=> InList(x, u) /\ ~(x = w /\ u = v)
    BY <1>1, <1>3 DEF InList
<1>6. IsInjective(queue)' /\ \A x \in Worker : IsInjective(processing[x])'
    BY <1>1, <1>2, <1>3
<1>7. ListedOnce'
    BY <1>4, <1>5, <1>6 DEF ListedOnce
<1>8. QED
    BY <1>4, <1>5, <1>7

LEMMA ReleaseMoves ==
    ASSUME RedisOK, ListedOnce, NEW w \in Worker, NEW v \in Upload, GiveBack(w, v), InList(w, v)
    PROVE  /\ \A u \in Upload : InQueue(u)' <=> InQueue(u) \/ u = v
           /\ \A x \in Worker, u \in Upload : InList(x, u)' <=> InList(x, u) /\ u # v
           /\ ListedOnce'
<1>1. /\ queue \in Seq(Upload) /\ queue' = Cons(v, queue)
      /\ processing \in [Worker -> Seq(Upload)]
      /\ processing' = [processing EXCEPT ![w] = RemoveFirst(@, v)]
    BY DEF RedisOK, GiveBack
<1>2. IsInjective(queue) /\ \A x \in Worker : IsInjective(processing[x])
    BY DEF ListedOnce
<1>3. ~Contains(queue, v) /\ \A x \in Worker : InList(x, v) => x = w
    BY DEF ListedOnce, InQueue
<1>4. /\ \A u : Contains(RemoveFirst(processing[w], v), u) <=> Contains(processing[w], u) /\ u # v
      /\ IsInjective(RemoveFirst(processing[w], v))
    BY <1>1, <1>2, RemoveFirstElements
<1>5. /\ \A u : Contains(Cons(v, queue), u) <=> Contains(queue, u) \/ u = v
      /\ IsInjective(Cons(v, queue))
    BY <1>1, <1>2, <1>3, ConsElements
<1>6. \A u \in Upload : InQueue(u)' <=> InQueue(u) \/ u = v
    BY <1>1, <1>5 DEF InQueue
<1>7. \A x \in Worker, u \in Upload : InList(x, u)' <=> InList(x, u) /\ u # v
    BY <1>1, <1>3, <1>4 DEF InList
<1>8. IsInjective(queue)' /\ \A x \in Worker : IsInjective(processing[x])'
    BY <1>1, <1>2, <1>4, <1>5
<1>9. ListedOnce'
    BY <1>6, <1>7, <1>8 DEF ListedOnce
<1>10. QED
    BY <1>6, <1>7, <1>9

LEMMA SweepMoves ==
    ASSUME RedisOK, ListedOnce, NEW d \in Worker, MoveBack(d)
    PROVE  \E v \in Upload :
              /\ InList(d, v)
              /\ \A u \in Upload : InQueue(u)' <=> InQueue(u) \/ u = v
              /\ \A x \in Worker, u \in Upload : InList(x, u)' <=> InList(x, u) /\ u # v
              /\ ListedOnce'
<1> DEFINE v == Last(processing[d])
<1>1. /\ queue \in Seq(Upload) /\ queue' = Cons(v, queue)
      /\ processing \in [Worker -> Seq(Upload)] /\ processing[d] # <<>>
      /\ processing' = [processing EXCEPT ![d] = Front(@)]
    BY DEF RedisOK, MoveBack
<1>2. IsInjective(queue) /\ \A x \in Worker : IsInjective(processing[x])
    BY DEF ListedOnce
<1>3. /\ v \in Upload /\ Contains(processing[d], v)
      /\ \A u : Contains(Front(processing[d]), u) <=> Contains(processing[d], u) /\ u # v
      /\ IsInjective(Front(processing[d]))
    BY <1>1, <1>2, FrontElements
<1> HIDE DEF v
<1>4. InList(d, v)
    BY <1>3 DEF InList
<1>5. ~Contains(queue, v) /\ \A x \in Worker : InList(x, v) => x = d
    BY <1>3, <1>4 DEF ListedOnce, InQueue
<1>6. /\ \A u : Contains(Cons(v, queue), u) <=> Contains(queue, u) \/ u = v
      /\ IsInjective(Cons(v, queue))
    BY <1>1, <1>2, <1>3, <1>5, ConsElements
<1>7. \A u \in Upload : InQueue(u)' <=> InQueue(u) \/ u = v
    BY <1>1, <1>6 DEF InQueue
<1>8. \A x \in Worker, u \in Upload : InList(x, u)' <=> InList(x, u) /\ u # v
    BY <1>1, <1>3, <1>5 DEF InList
<1>9. IsInjective(queue)' /\ \A x \in Worker : IsInjective(processing[x])'
    BY <1>1, <1>2, <1>3, <1>6
<1>10. ListedOnce'
    BY <1>4, <1>7, <1>8, <1>9 DEF ListedOnce
<1>11. QED
    BY <1>3, <1>4, <1>7, <1>8, <1>10

LEMMA EnqueueMoves ==
    ASSUME RedisOK, ListedOnce, NEW v \in Upload, PushNew(v), ~Tracked(v)
    PROVE  /\ \A u \in Upload : InQueue(u)' <=> InQueue(u) \/ u = v
           /\ \A x \in Worker, u \in Upload : InList(x, u)' <=> InList(x, u)
           /\ ListedOnce'
<1>1. queue \in Seq(Upload) /\ queue' = Append(queue, v) /\ processing' = processing
    BY DEF RedisOK, PushNew
<1>2. IsInjective(queue) /\ \A x \in Worker : IsInjective(processing[x])
    BY DEF ListedOnce
<1>3. ~Contains(queue, v) /\ \A x \in Worker : ~InList(x, v)
    BY DEF Tracked, InQueue
<1>4. /\ \A u : Contains(Append(queue, v), u) <=> Contains(queue, u) \/ u = v
      /\ IsInjective(Append(queue, v))
    BY <1>1, <1>2, <1>3, AppendElements
<1>5. \A u \in Upload : InQueue(u)' <=> InQueue(u) \/ u = v
    BY <1>1, <1>4 DEF InQueue
<1>6. \A x \in Worker, u \in Upload : InList(x, u)' <=> InList(x, u)
    BY <1>1 DEF InList
<1>7. IsInjective(queue)' /\ \A x \in Worker : IsInjective(processing[x])'
    BY <1>1, <1>2, <1>4
<1>8. ListedOnce'
    BY <1>3, <1>5, <1>6, <1>7 DEF ListedOnce
<1>9. QED
    BY <1>5, <1>6, <1>8

LEMMA ListsStay ==
    ASSUME UNCHANGED <<queue, processing>>
    PROVE  /\ \A u \in Upload : InQueue(u)' <=> InQueue(u)
           /\ \A x \in Worker, u \in Upload : InList(x, u)' <=> InList(x, u)
           /\ ListedOnce => ListedOnce'
<1>1. \A u \in Upload : InQueue(u)' <=> InQueue(u)
    BY DEF InQueue
<1>2. \A x \in Worker, u \in Upload : InList(x, u)' <=> InList(x, u)
    BY DEF InList
<1>3. ASSUME ListedOnce PROVE ListedOnce'
    <2>1. IsInjective(queue)' /\ \A x \in Worker : IsInjective(processing[x])'
        BY <1>3 DEF ListedOnce
    <2>2. QED
        BY <1>1, <1>2, <1>3, <2>1 DEF ListedOnce
<1>4. QED
    BY <1>1, <1>2, <1>3

-----------------------------------------------------------------------------
(* The work thread keeps the invariant as long as it moves jobs only between the queue   *)
(* and its own list, and has the job it holds in that list.                              *)

LEMMA WorkMoves ==
    ASSUME TypeOK, Ownership, NEW w \in Worker,
           pc[w] \notin {"off", "exited"},
           \A x \in Worker \ {w} : pc'[x] = pc[x] /\ held'[x] = held[x],
           UNCHANGED <<life, watch, target, enqueued>>,
           heartbeat \subseteq heartbeat',
           pc'[w] = "claim" => w \in heartbeat',
           ListedOnce',
           \A u \in Upload : Tracked(u)' => Tracked(u),
           \A x \in Worker \ {w}, u \in Upload : InList(x, u)' <=> InList(x, u),
           \A u \in Upload : InList(w, u)' => InList(w, u) \/ w \in heartbeat,
           Handling(w)' => InList(w, held[w])',
           \A u \in Upload : Tracked(u) \/ (jobs'[u] = jobs[u] /\ begun'[u] = begun[u])
    PROVE  Ownership'
<1>1. life[w] \in {"up", "stopping"}
    BY DEF TypeOK, RestOK, Ownership, OwnersBeat
<1>2. NewIsUnknown'
    BY DEF Ownership, NewIsUnknown
<1>3. HeldIsListed'
    <2>1. ASSUME NEW x \in Worker \ {w}, Handling(x)' PROVE InList(x, held[x])'
        <3>1. Handling(x) /\ held[x] \in Upload
            BY <2>1 DEF Handling, TypeOK, ThreadOK
        <3>2. InList(x, held[x])
            BY <3>1 DEF Ownership, HeldIsListed
        <3>3. held'[x] = held[x] /\ (InList(x, held[x]) => \A u \in Upload : u = held[x] => InList(x, u)')
            BY <3>1
        <3>4. QED
            BY <3>1, <3>2, <3>3
    <2>2. QED
        BY <2>1 DEF HeldIsListed
<1>4. OwnersBeat'
    BY <1>1 DEF Ownership, OwnersBeat
<1>5. SweepsDead'
    BY DEF Ownership, SweepsDead
<1>6. QED
    BY <1>2, <1>3, <1>4, <1>5 DEF Ownership

\* The uploads a command of the work thread may put in or take from the lists.
LEMMA CommandMoves ==
    ASSUME TypeOK, Ownership, NEW w \in Worker, Command(w)
    PROVE  /\ heartbeat \subseteq heartbeat'
           /\ ListedOnce'
           /\ \A u \in Upload : Tracked(u)' => Tracked(u)
           /\ \A x \in Worker \ {w}, u \in Upload : InList(x, u)' <=> InList(x, u)
           /\ \A u \in Upload : InList(w, u)' => InList(w, u) \/ w \in heartbeat
           /\ \A u \in Upload : Tracked(u) \/ jobs'[u] = jobs[u]
<1>1. RedisOK /\ ListedOnce
    BY DEF TypeOK, Ownership
<1>2. CASE pc[w] = "beat" /\ SetHeartbeat(w)
    BY <1>1, <1>2, ListsStay DEF SetHeartbeat, Tracked
<1>3. CASE pc[w] = "claim" /\ MoveToOwn(w)
    <2>1. w \in heartbeat
        BY <1>3 DEF Ownership, OwnersBeat, TypeOK, RestOK
    <2>2. /\ Head(queue) \in Upload /\ InQueue(Head(queue))
          /\ \A u \in Upload : InQueue(u)' <=> InQueue(u) /\ u # Head(queue)
          /\ \A x \in Worker, u \in Upload :
                InList(x, u)' <=> InList(x, u) \/ (x = w /\ u = Head(queue))
          /\ ListedOnce'
        BY <1>1, <1>3, ClaimMoves
    <2>3. \A u \in Upload : Tracked(u)' => Tracked(u)
        BY <2>2 DEF Tracked
    <2>4. heartbeat' = heartbeat /\ jobs' = jobs
        BY <1>3 DEF MoveToOwn
    <2>5. QED
        BY <2>1, <2>2, <2>3, <2>4
<1>4. CASE pc[w] \in {"count", "save", "drop", "ack", "release"}
    <2>1. Handling(w)
        BY <1>4 DEF Handling
    <2>2. held[w] \in Upload /\ InList(w, held[w])
        BY <2>1 DEF TypeOK, ThreadOK, Ownership, HeldIsListed
    <2>3. Tracked(held[w])
        BY <2>2 DEF Tracked
    <2>4. CASE SetJob(held[w], copy[w])
        BY <1>1, <2>2, <2>3, <2>4, ListsStay DEF SetJob, Tracked, TypeOK, RedisOK
    <2>5. CASE RemoveOwn(w, held[w])
        <3>1. /\ \A u \in Upload : InQueue(u)' <=> InQueue(u)
              /\ \A x \in Worker, u \in Upload :
                    InList(x, u)' <=> InList(x, u) /\ ~(x = w /\ u = held[w])
              /\ ListedOnce'
            BY <1>1, <2>2, <2>5, AckMoves
        <3>2. QED
            BY <2>5, <3>1 DEF RemoveOwn, Tracked
    <2>6. CASE GiveBack(w, held[w])
        <3>1. /\ \A u \in Upload : InQueue(u)' <=> InQueue(u) \/ u = held[w]
              /\ \A x \in Worker, u \in Upload : InList(x, u)' <=> InList(x, u) /\ u # held[w]
              /\ ListedOnce'
            BY <1>1, <2>2, <2>6, ReleaseMoves
        <3>2. \A x \in Worker \ {w} : ~InList(x, held[w])
            BY <1>1, <2>2 DEF ListedOnce
        <3>3. \A u \in Upload : Tracked(u)' => Tracked(u)
            BY <2>3, <3>1 DEF Tracked
        <3>4. QED
            BY <2>6, <3>1, <3>2, <3>3 DEF GiveBack
    <2>7. QED
        BY <1>4, <2>4, <2>5, <2>6 DEF Command
<1>5. QED
    BY <1>2, <1>3, <1>4 DEF Command

LEMMA WorkOwns == ASSUME TypeOK, Ownership, NEW w \in Worker, WorkStep(w) PROVE Ownership'
<1> USE DEF Goto, Leave, locals, calls, watcher
<1>1. CASE \/ LoopTop(w) \/ ClaimTimeout(w) \/ Load(w) \/ LoadMissing(w) \/ Tell(w)
           \/ (\E s \in Finished : Conclude(w, s)) \/ ConcludeGone(w) \/ Raise(w)
    <2>1. UNCHANGED <<queue, processing, heartbeat, jobs, begun, held, life, watch, target, enqueued>>
        BY <1>1 DEF LoopTop, ClaimTimeout, Load, LoadMissing, Tell, Conclude, ConcludeGone, Raise, redis
    <2>2. /\ pc[w] \notin {"off", "exited"} /\ pc'[w] # "claim"
          /\ \A x \in Worker \ {w} : pc'[x] = pc[x]
          /\ Handling(w)' => Handling(w)
        BY <1>1 DEF LoopTop, ClaimTimeout, Load, LoadMissing, Tell, Conclude, ConcludeGone, Raise,
                    AfterTell, Handling, TypeOK, ThreadOK
    <2>3. Handling(w) => held[w] \in Upload /\ InList(w, held[w])
        BY DEF TypeOK, ThreadOK, Ownership, HeldIsListed
    <2>4. Handling(w)' => InList(w, held[w])'
        BY <2>1, <2>2, <2>3, ListsStay
    <2>5. \A u \in Upload : Tracked(u)' => Tracked(u)
        BY <2>1, ListsStay DEF Tracked
    <2>6. ListedOnce'
        BY <2>1, ListsStay DEF Ownership
    <2>7. QED
        BY <2>1, <2>2, <2>4, <2>5, <2>6, ListsStay, WorkMoves
<1>2. CASE Heartbeat(w) \/ Drop(w) \/ Ack(w) \/ Release(w)
    <2>1. Command(w)
        BY <1>2 DEF Heartbeat, Drop, Ack, Release, Command
    <2>2. /\ pc[w] \notin {"off", "exited"} /\ (pc'[w] = "claim" => w \in heartbeat')
          /\ \A x \in Worker \ {w} : pc'[x] = pc[x] /\ held'[x] = held[x]
          /\ ~Handling(w)'
          /\ UNCHANGED <<begun, life, watch, target, enqueued>>
        BY <1>2 DEF Heartbeat, Drop, Ack, Release, Handling, SetHeartbeat, TypeOK, ThreadOK
    <2>3. QED
        BY <2>1, <2>2, CommandMoves, WorkMoves
<1>3. CASE Count(w) \/ Save(w)
    <2>1. Command(w) /\ Handling(w)
        BY <1>3 DEF Count, Save, Command, Handling
    <2>2. /\ pc[w] \notin {"off", "exited"} /\ pc'[w] # "claim"
          /\ \A x \in Worker \ {w} : pc'[x] = pc[x]
          /\ UNCHANGED <<queue, processing, held, life, watch, target, enqueued>>
        BY <1>3 DEF Count, Save, AfterTell, SetJob, TypeOK, ThreadOK
    <2>3. held[w] \in Upload /\ InList(w, held[w]) /\ Tracked(held[w])
        BY <2>1 DEF TypeOK, ThreadOK, Ownership, HeldIsListed, Tracked
    <2>4. InList(w, held[w])'
        BY <2>2, <2>3, ListsStay
    <2>5. \A u \in Upload : Tracked(u) \/ begun'[u] = begun[u]
        BY <1>3, <2>3 DEF Count, Save, TypeOK, ThreadOK
    <2>6. QED
        BY <2>1, <2>2, <2>4, <2>5, CommandMoves, WorkMoves
<1>4. CASE Claim(w)
    <2>1. Command(w) /\ MoveToOwn(w)
        BY <1>4 DEF Claim, Command
    <2>2. /\ pc[w] \notin {"off", "exited"} /\ pc'[w] # "claim"
          /\ \A x \in Worker \ {w} : pc'[x] = pc[x] /\ held'[x] = held[x]
          /\ UNCHANGED <<begun, life, watch, target, enqueued>>
          /\ held'[w] = Head(queue)
        BY <1>4 DEF Claim, TypeOK, ThreadOK
    <2>3. PICK u \in Upload : u = Head(queue) /\ InList(w, u)'
        BY <2>1, ClaimMoves DEF TypeOK, Ownership
    <2>4. InList(w, held[w])'
        BY <2>2, <2>3
    <2>5. QED
        BY <2>1, <2>2, <2>4, CommandMoves, WorkMoves
<1>5. QED
    BY <1>1, <1>2, <1>3, <1>4 DEF WorkStep

LEMMA CallFailsOwns == ASSUME TypeOK, Ownership, NEW w \in Worker, CallFails(w) PROVE Ownership'
<1> USE DEF Goto, Leave, locals, calls, watcher
<1>1. /\ pc[w] \notin {"off", "exited"} /\ pc'[w] \in {"top", "release"}
      /\ \A x \in Worker \ {w} : pc'[x] = pc[x] /\ held'[x] = held[x]
      /\ UNCHANGED <<begun, life, watch, target, enqueued>>
      /\ pc'[w] = "release" => pc[w] \in {"tell", "save"} /\ held' = held
    BY DEF CallFails, TypeOK, ThreadOK
<1>2. Command(w) \/ UNCHANGED redis
    BY DEF CallFails
<1>3. Handling(w)' => Handling(w) /\ pc[w] \in {"tell", "save"} /\ held' = held
    BY <1>1 DEF Handling
<1>4. Handling(w) => held[w] \in Upload /\ InList(w, held[w])
    BY DEF TypeOK, ThreadOK, Ownership, HeldIsListed
<1>5. pc[w] \in {"tell", "save"} => UNCHANGED <<queue, processing>>
    BY <1>2 DEF Command, SetJob, redis
<1>6. Handling(w)' => InList(w, held[w])'
    BY <1>3, <1>4, <1>5, ListsStay
<1>7. CASE Command(w)
    BY <1>1, <1>6, <1>7, CommandMoves, WorkMoves
<1>8. CASE UNCHANGED redis
    <2>1. UNCHANGED <<queue, processing, heartbeat, jobs>>
        BY <1>8 DEF redis
    <2>2. \A u \in Upload : Tracked(u)' => Tracked(u)
        BY <2>1, ListsStay DEF Tracked
    <2>3. ListedOnce'
        BY <2>1, ListsStay DEF Ownership
    <2>4. QED
        BY <1>1, <1>6, <2>1, <2>2, <2>3, ListsStay, WorkMoves
<1>9. QED
    BY <1>2, <1>7, <1>8

-----------------------------------------------------------------------------
(* The heartbeat thread empties only the lists of processes that are no more. *)

\* It leaves the work threads, the processes and the jobs alone.
LEMMA WatchMoves ==
    ASSUME TypeOK, Ownership, NEW w \in Worker,
           UNCHANGED <<pc, held, life, enqueued, jobs, begun>>,
           heartbeat \subseteq heartbeat',
           \A x \in Worker \ {w} : watch'[x] = watch[x] /\ target'[x] = target[x],
           watch'[w] = "sweep" => life[target'[w]] \in {"retired", "gone"},
           ListedOnce',
           \A u \in Upload : Tracked(u)' => Tracked(u),
           \A x \in Worker, u \in Upload : InList(x, u)' => InList(x, u),
           \A x \in Worker, u \in Upload :
               InList(x, u) => InList(x, u)' \/ life[x] \in {"retired", "gone"}
    PROVE  Ownership'
<1>1. NewIsUnknown'
    BY DEF Ownership, NewIsUnknown
<1>2. HeldIsListed'
    <2>1. ASSUME NEW x \in Worker, Handling(x)' PROVE InList(x, held[x])'
        <3>1. Handling(x) /\ held[x] \in Upload
            BY <2>1 DEF Handling, TypeOK, ThreadOK
        <3>2. InList(x, held[x]) /\ life[x] \notin {"retired", "gone"}
            BY <3>1 DEF Ownership, HeldIsListed, OwnersBeat, Handling
        <3>3. \A u \in Upload : u = held[x] => InList(x, u)'
            BY <3>1, <3>2
        <3>4. QED
            BY <3>1, <3>3
    <2>2. QED
        BY <2>1 DEF HeldIsListed
<1>3. OwnersBeat'
    BY DEF Ownership, OwnersBeat
<1>4. SweepsDead'
    BY DEF Ownership, SweepsDead
<1>5. QED
    BY <1>1, <1>2, <1>3, <1>4 DEF Ownership

LEMMA SweepOwns ==
    ASSUME TypeOK, Ownership, NEW w \in Worker, watch[w] = "sweep", MoveBack(target[w]),
           UNCHANGED <<pc, held, life, enqueued, begun>>,
           \A x \in Worker \ {w} : watch'[x] = watch[x] /\ target'[x] = target[x],
           watch'[w] = "sweep" => target'[w] = target[w]
    PROVE  Ownership'
<1>1. target[w] \in Worker /\ life[target[w]] \in {"retired", "gone"}
    BY DEF TypeOK, WatchOK, Ownership, SweepsDead
<1>2. PICK v \in Upload :
          /\ InList(target[w], v)
          /\ \A u \in Upload : InQueue(u)' <=> InQueue(u) \/ u = v
          /\ \A x \in Worker, u \in Upload : InList(x, u)' <=> InList(x, u) /\ u # v
          /\ ListedOnce'
    BY <1>1, SweepMoves DEF TypeOK, Ownership
<1>3. heartbeat' = heartbeat /\ jobs' = jobs
    BY DEF MoveBack
<1>4. \A u \in Upload : Tracked(u)' => Tracked(u)
    BY <1>1, <1>2 DEF Tracked
<1>5. \A x \in Worker : InList(x, v) => x = target[w]
    BY <1>1, <1>2 DEF Ownership, ListedOnce
<1>6. QED
    BY <1>1, <1>2, <1>3, <1>4, <1>5, WatchMoves

LEMMA WatchStays ==
    ASSUME TypeOK, Ownership, NEW w \in Worker,
           UNCHANGED <<queue, processing, jobs, pc, held, life, enqueued, begun>>,
           heartbeat \subseteq heartbeat',
           \A x \in Worker \ {w} : watch'[x] = watch[x] /\ target'[x] = target[x],
           watch'[w] = "sweep" => life[target'[w]] \in {"retired", "gone"}
    PROVE  Ownership'
<1>1. \A u \in Upload : Tracked(u)' => Tracked(u)
    BY ListsStay DEF Tracked
<1>2. ListedOnce'
    BY ListsStay DEF Ownership
<1>3. QED
    BY <1>1, <1>2, ListsStay, WatchMoves

LEMMA WatchOwns == ASSUME TypeOK, Ownership, NEW w \in Worker, WatchStep(w) PROVE Ownership'
<1> USE DEF thread, calls, watcher, redis
<1>1. CASE WatchTop(w) \/ SweepEnd(w) \/ ScanEnd(w)
    BY <1>1, WatchStays DEF WatchTop, SweepEnd, ScanEnd, TypeOK, WatchOK
<1>2. CASE WatchBeat(w)
    BY <1>2, WatchStays DEF WatchBeat, SetHeartbeat, TypeOK, WatchOK
<1>3. ASSUME NEW d \in Worker, SweepBegin(w, d) PROVE Ownership'
    <2>1. PICK u \in Upload : InList(d, u)
        <3>1. processing[d] \in Seq(Upload) /\ processing[d] # <<>>
            BY <1>3 DEF SweepBegin, TypeOK, RedisOK
        <3>2. Head(processing[d]) \in Upload /\ Contains(processing[d], Head(processing[d]))
            BY <3>1, TailElements
        <3>3. QED
            BY <3>2 DEF InList
    <2>2. d \notin heartbeat
        BY <1>3 DEF SweepBegin
    <2>3. life[d] \in {"retired", "gone"}
        BY <2>1, <2>2 DEF Ownership, OwnersBeat, TypeOK, RestOK
    <2>4. QED
        BY <1>3, <2>3, WatchStays DEF SweepBegin, TypeOK, WatchOK
<1>4. CASE SweepMove(w)
    BY <1>4, SweepOwns DEF SweepMove
<1>5. QED
    BY <1>1, <1>2, <1>3, <1>4 DEF WatchStep

LEMMA WatchFailsOwns == ASSUME TypeOK, Ownership, NEW w \in Worker, WatchFails(w) PROVE Ownership'
<1> USE DEF thread, calls, redis
<1>1. /\ UNCHANGED <<pc, held, life, enqueued, begun>>
      /\ \A x \in Worker \ {w} : watch'[x] = watch[x] /\ target'[x] = target[x]
      /\ watch'[w] = "top"
    BY DEF WatchFails, TypeOK, WatchOK
<1>2. CASE watch[w] = "beat" /\ SetHeartbeat(w)
    BY <1>1, <1>2, WatchStays DEF SetHeartbeat
<1>3. CASE watch[w] = "sweep" /\ MoveBack(target[w])
    BY <1>1, <1>3, SweepOwns
<1>4. CASE UNCHANGED redis
    BY <1>1, <1>4, WatchStays
<1>5. QED
    BY <1>2, <1>3, <1>4 DEF WatchFails

-----------------------------------------------------------------------------
(* Start, stop and crash. *)

LEMMA LifeOwns ==
    ASSUME NoFalseSuspicion', TypeOK, Ownership, NEW w \in Worker, LifeStep(w)
    PROVE  Ownership'
<1> USE DEF thread, calls, watcher, redis, locals, Leave, Goto
<1>1. UNCHANGED <<queue, processing, jobs, enqueued, begun>>
    BY DEF LifeStep, Start, Stop, Retire, RetireFails, Exit, Crash, End, Expire, Lapse
<1>2. ListedOnce'
    BY <1>1, ListsStay DEF Ownership
<1>3. NewIsUnknown'
    BY <1>1, ListsStay DEF Ownership, NewIsUnknown, Tracked
<1>4. ~Lapse(w) /\ (Retire(w) => pc[w] = "exited")
    <2>1. faults' # [faults EXCEPT !.lapse = @ + 1]
        BY DEF TypeOK, RestOK, NoFalseSuspicion
    <2>2. QED
        BY <2>1 DEF Lapse, Retire
<1>5. HeldIsListed'
    <2>1. ASSUME NEW x \in Worker, Handling(x)' PROVE Handling(x) /\ held'[x] = held[x]
        BY <2>1 DEF LifeStep, Start, Stop, Retire, RetireFails, Exit, Crash, End, Expire, Lapse,
                    Handling, TypeOK, ThreadOK
    <2>2. ASSUME NEW x \in Worker, Handling(x)' PROVE InList(x, held[x])'
        <3>1. Handling(x) /\ held'[x] = held[x] /\ held[x] \in Upload
            BY <2>1, <2>2 DEF TypeOK, ThreadOK
        <3>2. InList(x, held[x])
            BY <3>1 DEF Ownership, HeldIsListed
        <3>3. QED
            BY <1>1, <3>1, <3>2, ListsStay
    <2>3. QED
        BY <2>2 DEF HeldIsListed
<1>6. OwnersBeat'
    <2>1. CASE Start(w)
        BY <1>1, <2>1, ListsStay DEF Start, Ownership, OwnersBeat, TypeOK, RestOK, ThreadOK
    <2>2. CASE Stop(w)
        BY <1>1, <2>2, ListsStay DEF Stop, Ownership, OwnersBeat, TypeOK, RestOK
    <2>3. CASE Retire(w) \/ RetireFails(w)
        <3>1. /\ pc[w] = "exited" /\ pc' = pc /\ life' = [life EXCEPT ![w] = "retired"]
              /\ heartbeat' \in {heartbeat, heartbeat \ {w}}
            BY <1>4, <2>3 DEF Retire, RetireFails
        <3>2. QED
            BY <1>1, <3>1, ListsStay DEF Ownership, OwnersBeat, TypeOK, RestOK
    <2>4. CASE Exit(w) \/ Crash(w)
        BY <1>1, <2>4, ListsStay DEF Exit, Crash, End, Ownership, OwnersBeat, TypeOK, RestOK, ThreadOK
    <2>5. CASE Expire(w)
        BY <1>1, <2>5, ListsStay DEF Expire, Ownership, OwnersBeat, TypeOK, RestOK
    <2>6. QED
        BY <1>4, <2>1, <2>2, <2>3, <2>4, <2>5 DEF LifeStep
<1>7. SweepsDead'
    <2>1. \A x \in Worker : life[x] \in {"retired", "gone"} => life'[x] \in {"retired", "gone"}
        BY DEF LifeStep, Start, Stop, Retire, RetireFails, Exit, Crash, End, Expire, Lapse,
               TypeOK, RestOK
    <2>2. \A x \in Worker : watch'[x] = "sweep" => watch[x] = "sweep" /\ target'[x] = target[x]
        BY DEF LifeStep, Start, Stop, Retire, RetireFails, Exit, Crash, End, Expire, Lapse,
               TypeOK, WatchOK
    <2>3. QED
        BY <2>1, <2>2 DEF Ownership, SweepsDead, TypeOK, WatchOK
<1>8. QED
    BY <1>2, <1>3, <1>5, <1>6, <1>7 DEF Ownership

-----------------------------------------------------------------------------
(* The calls of the HTTP handlers put a job in the queue once, and else change statuses. *)

LEMMA CallsOwn ==
    ASSUME NoFalseSuspicion', TypeOK, Ownership, NEW u \in Upload, CallStep(u)
    PROVE  Ownership'
<1> USE DEF thread, watcher, redis
<1>1. UNCHANGED <<heartbeat, life, pc, held, begun, watch, target>>
    BY DEF CallStep, Enqueue, EnqueueFails, EnqueueResend, ForgetRead, ForgetDelete, ForgetFails,
           ForgetAbandoned, ExpireStatus, PushNew, DropStatus
<1>2. CASE UNCHANGED <<queue, processing>> /\ \A v \in Upload :
              /\ jobs'[v] \in {jobs[v], NoJob}
              /\ enqueued'[v] = enqueued[v] \/ enqueued'[v] = "done"
    <2>1. ListedOnce' /\ NewIsUnknown'
        BY <1>1, <1>2, ListsStay DEF Ownership, NewIsUnknown, Tracked
    <2>2. HeldIsListed'
        BY <1>1, <1>2 DEF Ownership, HeldIsListed, Handling, InList
    <2>3. OwnersBeat' /\ SweepsDead'
        BY <1>1, <1>2, ListsStay DEF Ownership, OwnersBeat, SweepsDead
    <2>4. QED
        BY <2>1, <2>2, <2>3 DEF Ownership
<1>3. CASE PushNew(u) /\ enqueued[u] = "no" /\ enqueued' = [enqueued EXCEPT ![u] = "done"]
    <2>1. ~Tracked(u)
        BY <1>3 DEF Ownership, NewIsUnknown
    <2>2. /\ \A v \in Upload : InQueue(v)' <=> InQueue(v) \/ v = u
          /\ \A x \in Worker, v \in Upload : InList(x, v)' <=> InList(x, v)
          /\ ListedOnce'
        BY <1>3, <2>1, EnqueueMoves DEF TypeOK, Ownership
    <2>3. NewIsUnknown'
        BY <1>1, <1>3, <2>2 DEF PushNew, Ownership, NewIsUnknown, Tracked, TypeOK, RestOK, RedisOK
    <2>4. HeldIsListed'
        BY <1>1, <1>3 DEF PushNew, Ownership, HeldIsListed, Handling, InList
    <2>5. OwnersBeat' /\ SweepsDead'
        BY <1>1, <2>2 DEF Ownership, OwnersBeat, SweepsDead
    <2>6. QED
        BY <2>2, <2>3, <2>4, <2>5 DEF Ownership
<1>4. CASE Enqueue(u) \/ EnqueueFails(u)
    <2>1. enqueued[u] = "no" /\ enqueued' = [enqueued EXCEPT ![u] = "done"]
        BY <1>4 DEF Enqueue, EnqueueFails, Ownership, NewIsUnknown
    <2>2. PushNew(u) \/ UNCHANGED redis
        BY <1>4 DEF Enqueue, EnqueueFails
    <2>3. QED
        BY <1>2, <1>3, <2>1, <2>2 DEF TypeOK, RestOK
<1>5. CASE EnqueueResend(u)
    <2>1. faults' # [faults EXCEPT !.resend = @ + 1]
        BY DEF TypeOK, RestOK, NoFalseSuspicion
    <2>2. QED
        BY <1>5, <2>1 DEF EnqueueResend
<1>6. CASE \/ ForgetRead(u) \/ ForgetDelete(u) \/ ForgetFails(u)
           \/ ForgetAbandoned(u) \/ ExpireStatus(u)
    <2>1. UNCHANGED <<queue, processing, enqueued>>
        BY <1>6 DEF ForgetRead, ForgetDelete, ForgetFails, ForgetAbandoned, ExpireStatus,
                    DropStatus, calls
    <2>2. \A v \in Upload : jobs'[v] \in {jobs[v], NoJob}
        BY <1>6 DEF ForgetRead, ForgetDelete, ForgetFails, ForgetAbandoned, ExpireStatus,
                    DropStatus, TypeOK, RedisOK
    <2>3. QED
        BY <1>2, <2>1, <2>2
<1>7. QED
    BY <1>4, <1>5, <1>6 DEF CallStep

-----------------------------------------------------------------------------
(* The count of starts stays behind the attempts: only the worker that holds a job, and  *)
(* has it for itself, writes its status or starts it.                                    *)

LEMMA HoldersWrite ==
    ASSUME TypeOK, Ownership, StartsAreCounted, NEW w \in Worker,
           \A x \in Worker \ {w} : pc'[x] = pc[x] /\ held'[x] = held[x] /\ copy'[x] = copy[x],
           \A u \in Upload : \/ Handling(w) /\ u = held[w]
                             \/ begun'[u] = begun[u] /\ jobs'[u] \in {jobs[u], NoJob},
           Handling(w) => LET u == held[w]
                          IN  /\ begun'[u] <= MAX_ATTEMPTS
                              /\ jobs'[u] # NoJob => begun'[u] <= jobs'[u].attempts,
           pc'[w] = "count" => begun'[held'[w]] < copy'[w].attempts,
           pc'[w] = "save" => begun'[held'[w]] <= copy'[w].attempts,
           pc'[w] \in {"count", "save"} /\ jobs'[held'[w]] # NoJob
               => jobs'[held'[w]].attempts <= copy'[w].attempts
    PROVE  StartsAreCounted'
<1>1. ASSUME NEW u \in Upload
      PROVE  begun'[u] <= MAX_ATTEMPTS /\ (jobs'[u] # NoJob => begun'[u] <= jobs'[u].attempts)
    <2>1. begun[u] <= MAX_ATTEMPTS /\ (jobs[u] # NoJob => begun[u] <= jobs[u].attempts)
        BY DEF StartsAreCounted
    <2>2. CASE Handling(w) /\ u = held[w]
        BY <2>2
    <2>3. CASE begun'[u] = begun[u] /\ jobs'[u] \in {jobs[u], NoJob}
        BY <2>1, <2>3
    <2>4. QED
        BY <2>2, <2>3
<1>2. ASSUME NEW x \in Worker \ {w}, pc[x] \in {"count", "save"}
      PROVE  /\ begun'[held[x]] = begun[held[x]]
             /\ jobs'[held[x]] \in {jobs[held[x]], NoJob}
    <2>1. Handling(x) /\ held[x] \in Upload
        BY <1>2 DEF Handling, TypeOK, ThreadOK
    <2>2. ~(Handling(w) /\ held[x] = held[w])
        BY <2>1 DEF TypeOK, ThreadOK, Ownership, ListedOnce, HeldIsListed
    <2>3. QED
        BY <2>1, <2>2
<1>3. ASSUME NEW x \in Worker
      PROVE  /\ pc'[x] = "count" => begun'[held'[x]] < copy'[x].attempts
             /\ pc'[x] = "save" => begun'[held'[x]] <= copy'[x].attempts
             /\ pc'[x] \in {"count", "save"} /\ jobs'[held'[x]] # NoJob
                    => jobs'[held'[x]].attempts <= copy'[x].attempts
    <2>1. CASE x = w
        BY <2>1
    <2>2. CASE x # w
        BY <1>2, <2>2 DEF StartsAreCounted
    <2>3. QED
        BY <2>1, <2>2
<1>4. QED
    BY <1>1, <1>3 DEF StartsAreCounted

\* What is saved does not undo a count, and a claim that is not the last but one adds one.
LEMMA CountsAndSaves ==
    ASSUME TypeOK, StartsAreCounted, NEW w \in Worker, SetJob(held[w], copy[w]),
           pc[w] \in {"count", "save"}
    PROVE  /\ held[w] \in Upload /\ Handling(w)
           /\ jobs' = [jobs EXCEPT ![held[w]] = copy[w]]
           /\ copy[w].attempts \in Counts /\ begun[held[w]] \in Counts
           /\ begun[held[w]] <= copy[w].attempts /\ begun[held[w]] <= MAX_ATTEMPTS
           /\ pc[w] = "count" => begun[held[w]] < copy[w].attempts
           /\ jobs[held[w]] # NoJob => jobs[held[w]].attempts <= copy[w].attempts
<1>1. Handling(w) /\ held[w] \in Upload /\ copy[w] \in Job /\ begun[held[w]] \in Counts
    BY DEF Handling, TypeOK, ThreadOK
<1>2. copy[w].attempts \in Counts /\ MAX_ATTEMPTS \in Nat
    BY <1>1, AttemptsAssumption DEF Job
<1>3. QED
    BY <1>1, <1>2 DEF SetJob, StartsAreCounted, Counts

LEMMA WorkCounts ==
    ASSUME TypeOK, Ownership, StartsAreCounted, NEW w \in Worker, WorkStep(w)
    PROVE  StartsAreCounted'
<1> USE DEF Goto, Leave, locals, calls, watcher
<1>1. MAX_ATTEMPTS \in Nat /\ \A u \in Upload : begun[u] \in Counts
    BY AttemptsAssumption DEF TypeOK, ThreadOK
<1>2. Handling(w) => /\ held[w] \in Upload
                     /\ begun[held[w]] <= MAX_ATTEMPTS
                     /\ jobs[held[w]] # NoJob => begun[held[w]] <= jobs[held[w]].attempts
    BY DEF TypeOK, ThreadOK, StartsAreCounted
<1>3. CASE \/ LoopTop(w) \/ Heartbeat(w) \/ Claim(w) \/ ClaimTimeout(w) \/ LoadMissing(w)
           \/ Drop(w) \/ (\E s \in Finished : Conclude(w, s)) \/ ConcludeGone(w) \/ Raise(w)
           \/ Ack(w) \/ Release(w)
    <2>1. /\ UNCHANGED <<jobs, begun>> /\ pc'[w] \notin {"count", "save"}
          /\ \A x \in Worker \ {w} : pc'[x] = pc[x] /\ held'[x] = held[x] /\ copy'[x] = copy[x]
        BY <1>3 DEF LoopTop, Heartbeat, Claim, ClaimTimeout, LoadMissing, Drop, Conclude,
                    ConcludeGone, Raise, Ack, Release, SetHeartbeat, MoveToOwn, RemoveOwn,
                    GiveBack, redis, TypeOK, ThreadOK
    <2>2. QED
        BY <1>2, <2>1, HoldersWrite
<1>4. CASE Load(w)
    <2>1. /\ UNCHANGED <<jobs, begun, held>> /\ pc' = [pc EXCEPT ![w] = "count"] /\ Handling(w)
          /\ copy' = [copy EXCEPT ![w] = [jobs[held[w]] EXCEPT !.attempts = Bump(@)]]
          /\ jobs[held[w]] # NoJob
        BY <1>4 DEF Load, redis, Handling
    <2>2. jobs[held[w]] \in Job
        BY <1>2, <2>1 DEF TypeOK, RedisOK
    <2>3. /\ jobs[held[w]].attempts \in Counts
          /\ copy'[w].attempts = Bump(jobs[held[w]].attempts)
        BY <2>1, <2>2 DEF Job, TypeOK, ThreadOK
    <2>4. begun[held[w]] < copy'[w].attempts /\ jobs[held[w]].attempts <= copy'[w].attempts
        BY <1>1, <1>2, <2>1, <2>3 DEF Bump, Counts
    <2>5. /\ pc'[w] = "count" /\ held'[w] = held[w]
          /\ \A x \in Worker \ {w} : pc'[x] = pc[x] /\ held'[x] = held[x] /\ copy'[x] = copy[x]
        BY <2>1 DEF TypeOK, ThreadOK
    <2>6. QED
        BY <1>2, <2>1, <2>4, <2>5, HoldersWrite
<1>5. CASE Tell(w)
    <2>1. /\ UNCHANGED <<jobs, begun, held>> /\ pc[w] = "tell" /\ Handling(w)
          /\ \A x \in Worker \ {w} : pc'[x] = pc[x] /\ held'[x] = held[x] /\ copy'[x] = copy[x]
        BY <1>5 DEF Tell, redis, Handling, TypeOK, ThreadOK
    <2>2. CASE jobs[held[w]] = NoJob
        <3>1. pc'[w] \notin {"count", "save"}
            BY <1>5, <2>2 DEF Tell, AfterTell, TypeOK, ThreadOK
        <3>2. QED
            BY <1>2, <2>1, <3>1, HoldersWrite
    <2>3. CASE jobs[held[w]] # NoJob
        <3>1. jobs[held[w]] \in Job
            BY <1>2, <2>1, <2>3 DEF TypeOK, RedisOK
        <3>2. /\ pc'[w] = "save" /\ held'[w] = held[w]
              /\ copy'[w].attempts = jobs[held[w]].attempts
              /\ jobs[held[w]].attempts \in Counts
            BY <1>5, <2>1, <2>3, <3>1 DEF Tell, Job, TypeOK, ThreadOK
        <3>3. jobs[held[w]].attempts <= copy'[w].attempts
            BY <1>1, <3>2 DEF Counts
        <3>4. QED
            BY <1>2, <2>1, <2>3, <3>2, <3>3, HoldersWrite
    <2>4. QED
        BY <2>2, <2>3
<1>6. CASE Count(w) \/ Save(w)
    <2>1. pc[w] \in {"count", "save"} /\ SetJob(held[w], copy[w])
        BY <1>6 DEF Count, Save
    <2>2. /\ held[w] \in Upload /\ Handling(w)
          /\ jobs' = [jobs EXCEPT ![held[w]] = copy[w]]
          /\ copy[w].attempts \in Counts /\ begun[held[w]] \in Counts
          /\ begun[held[w]] <= copy[w].attempts /\ begun[held[w]] <= MAX_ATTEMPTS
          /\ pc[w] = "count" => begun[held[w]] < copy[w].attempts
        BY <2>1, CountsAndSaves
    <2>3. /\ UNCHANGED <<held, copy>> /\ pc'[w] \notin {"count", "save"}
          /\ \A x \in Worker \ {w} : pc'[x] = pc[x]
        BY <1>6 DEF Count, Save, AfterTell, TypeOK, ThreadOK
    <2>4. \/ begun' = begun
          \/ /\ begun' = [begun EXCEPT ![held[w]] = Bump(@)]
             /\ pc[w] = "count" /\ ~(copy[w].attempts > MAX_ATTEMPTS)
        BY <1>6 DEF Count, Save
    <2>5. begun'[held[w]] <= MAX_ATTEMPTS /\ begun'[held[w]] <= copy[w].attempts
        BY <1>1, <2>2, <2>4 DEF Bump, Counts, TypeOK, ThreadOK
    <2>6. /\ jobs'[held[w]] = copy[w]
          /\ \A u \in Upload \ {held[w]} : jobs'[u] = jobs[u] /\ begun'[u] = begun[u]
        BY <2>2, <2>4 DEF TypeOK, RedisOK, ThreadOK
    <2>7. QED
        BY <2>2, <2>3, <2>5, <2>6, HoldersWrite
<1>7. QED
    BY <1>3, <1>4, <1>5, <1>6 DEF WorkStep

LEMMA FailuresCount ==
    ASSUME TypeOK, Ownership, StartsAreCounted, NEW w \in Worker, CallFails(w)
    PROVE  StartsAreCounted'
<1> USE DEF Goto, Leave, locals, calls, watcher
<1>1. /\ UNCHANGED begun /\ pc'[w] \notin {"count", "save"}
      /\ \A x \in Worker \ {w} : pc'[x] = pc[x] /\ held'[x] = held[x] /\ copy'[x] = copy[x]
    BY DEF CallFails, TypeOK, ThreadOK
<1>2. Handling(w) => /\ held[w] \in Upload
                     /\ begun[held[w]] <= MAX_ATTEMPTS
                     /\ jobs[held[w]] # NoJob => begun[held[w]] <= jobs[held[w]].attempts
    BY DEF TypeOK, ThreadOK, StartsAreCounted
<1>3. CASE jobs' = jobs
    BY <1>1, <1>2, <1>3, HoldersWrite
<1>4. CASE pc[w] \in {"count", "save"} /\ SetJob(held[w], copy[w])
    <2>1. /\ held[w] \in Upload /\ Handling(w)
          /\ jobs' = [jobs EXCEPT ![held[w]] = copy[w]]
          /\ begun[held[w]] <= copy[w].attempts /\ begun[held[w]] <= MAX_ATTEMPTS
        BY <1>4, CountsAndSaves
    <2>2. jobs'[held[w]] = copy[w] /\ \A u \in Upload \ {held[w]} : jobs'[u] = jobs[u]
        BY <2>1 DEF TypeOK, RedisOK
    <2>3. QED
        BY <1>1, <2>1, <2>2, HoldersWrite
<1>5. jobs' = jobs \/ (pc[w] \in {"count", "save"} /\ SetJob(held[w], copy[w]))
    BY DEF CallFails, Command, redis, SetHeartbeat, MoveToOwn, RemoveOwn, GiveBack
<1>6. QED
    BY <1>3, <1>4, <1>5

LEMMA OthersCount ==
    ASSUME TypeOK, Ownership, StartsAreCounted, NEW u \in Upload, CallStep(u)
    PROVE  StartsAreCounted'
<1> USE DEF thread, watcher, redis
<1>1. UNCHANGED <<pc, held, copy, begun>>
    BY DEF CallStep, Enqueue, EnqueueFails, EnqueueResend, ForgetRead, ForgetDelete, ForgetFails,
           ForgetAbandoned, ExpireStatus, PushNew, DropStatus
<1>2. CASE \A v \in Upload : jobs'[v] \in {jobs[v], NoJob}
    BY <1>1, <1>2 DEF StartsAreCounted, TypeOK, ThreadOK, Handling
<1>3. CASE PushNew(u) /\ enqueued[u] = "no"
    <2>1. ~Tracked(u) /\ begun[u] = 0
        BY <1>3 DEF Ownership, NewIsUnknown
    <2>2. \A w \in Worker : Handling(w) => held[w] \in Upload /\ held[w] # u
        BY <2>1 DEF Tracked, Ownership, HeldIsListed, TypeOK, ThreadOK
    <2>3. jobs'[u].attempts = 0 /\ \A v \in Upload \ {u} : jobs'[v] = jobs[v]
        BY <1>3 DEF PushNew, TypeOK, RedisOK
    <2>4. \A w \in Worker : pc[w] \in {"count", "save"} => Handling(w)
        BY DEF Handling
    <2>5. QED
        BY <1>1, <2>1, <2>2, <2>3, <2>4 DEF StartsAreCounted
<1>4. CASE Enqueue(u) \/ EnqueueFails(u) \/ EnqueueResend(u)
    BY <1>2, <1>3, <1>4 DEF Enqueue, EnqueueFails, EnqueueResend, Ownership, NewIsUnknown
<1>5. CASE \/ ForgetRead(u) \/ ForgetDelete(u) \/ ForgetFails(u)
           \/ ForgetAbandoned(u) \/ ExpireStatus(u)
    BY <1>2, <1>5 DEF ForgetRead, ForgetDelete, ForgetFails, ForgetAbandoned, ExpireStatus,
                      DropStatus, TypeOK, RedisOK
<1>6. QED
    BY <1>4, <1>5 DEF CallStep

LEMMA RestCounts ==
    ASSUME TypeOK, StartsAreCounted, NEW w \in Worker,
           WatchStep(w) \/ LifeStep(w) \/ WatchFails(w)
    PROVE  StartsAreCounted'
<1> USE DEF thread, redis, locals
<1>1. UNCHANGED <<jobs, begun>>
    BY DEF WatchStep, WatchTop, WatchBeat, SweepBegin, SweepMove, SweepEnd, ScanEnd, WatchFails,
           LifeStep, Start, Stop, Retire, RetireFails, Exit, Crash, End, Leave, Expire, Lapse,
           SetHeartbeat, MoveBack
<1>2. \A x \in Worker : pc'[x] \in {"count", "save"}
                            => pc'[x] = pc[x] /\ held'[x] = held[x] /\ copy'[x] = copy[x]
    BY DEF WatchStep, WatchTop, WatchBeat, SweepBegin, SweepMove, SweepEnd, ScanEnd, WatchFails,
           LifeStep, Start, Stop, Retire, RetireFails, Exit, Crash, End, Leave, Goto, Expire, Lapse,
           TypeOK, ThreadOK
<1>3. QED
    BY <1>1, <1>2 DEF StartsAreCounted

-----------------------------------------------------------------------------
(* The theorems. *)

LEMMA InitOwns == Init => Ownership
<1>1. SUFFICES ASSUME Init PROVE Ownership
    OBVIOUS
<1>2. \A u : ~Contains(<<>>, u)
    BY DEF Contains
<1>3. IsInjective(<<>>)
    BY DEF IsInjective
<1>4. QED
    BY <1>1, <1>2, <1>3
    DEF Init, Ownership, ListedOnce, NewIsUnknown, HeldIsListed, OwnersBeat, SweepsDead,
        Handling, Tracked, InQueue, InList

LEMMA NothingResent == ASSUME NoFalseSuspicion', TypeOK, NEW w \in Worker PROVE ~Resend(w)
<1>1. faults' # [faults EXCEPT !.resend = @ + 1]
    BY DEF TypeOK, RestOK, NoFalseSuspicion
<1>2. QED
    BY <1>1 DEF Resend

\* The faults of a run are never taken back.
LEMMA SuspicionStays ==
    ASSUME TypeOK, [Next]_vars, NoFalseSuspicion'
    PROVE  NoFalseSuspicion
<1> USE DEF TypeOK, RestOK, NoFalseSuspicion
<1>1. ASSUME NEW w \in Worker, WorkStep(w) \/ WatchStep(w) PROVE faults' = faults
    BY <1>1 DEF WorkStep, LoopTop, Heartbeat, Claim, ClaimTimeout, Load, LoadMissing, Drop, Count,
        Tell, Save, Conclude, ConcludeGone, Raise, Ack, Release, WatchStep, WatchTop, WatchBeat,
        SweepBegin, SweepMove, SweepEnd, ScanEnd
<1>2. ASSUME NEW w \in Worker, LifeStep(w) \/ FaultStep(w) PROVE NoFalseSuspicion
    BY <1>2 DEF LifeStep, Start, Stop, Retire, RetireFails, Exit, Crash, End, Expire, Lapse,
        FaultStep, CallFails, Resend, WatchFails
<1>3. ASSUME NEW u \in Upload, CallStep(u) PROVE NoFalseSuspicion
    BY <1>3 DEF CallStep, Enqueue, EnqueueFails, EnqueueResend, ForgetRead, ForgetDelete,
        ForgetFails, ForgetAbandoned, ExpireStatus
<1>4. QED
    BY <1>1, <1>2, <1>3 DEF Next, vars

LEMMA StepOwns ==
    ASSUME TypeOK, Ownership, [Next]_vars, NoFalseSuspicion'
    PROVE  Ownership'
<1>1. CASE UNCHANGED vars
    BY <1>1 DEF vars, Ownership, ListedOnce, NewIsUnknown, HeldIsListed, OwnersBeat, SweepsDead,
                Handling, Tracked, InQueue, InList
<1>2. ASSUME NEW w \in Worker, FaultStep(w) PROVE Ownership'
    BY <1>2, NothingResent, CallFailsOwns, WatchFailsOwns DEF FaultStep
<1>3. CASE Next
    BY <1>2, <1>3, WorkOwns, WatchOwns, LifeOwns, CallsOwn DEF Next
<1>4. QED
    BY <1>1, <1>3

LEMMA InitCounts == Init => StartsAreCounted
    BY AttemptsAssumption DEF Init, StartsAreCounted

LEMMA StepCounts ==
    ASSUME TypeOK, Ownership, StartsAreCounted, [Next]_vars, NoFalseSuspicion'
    PROVE  StartsAreCounted'
<1>1. CASE UNCHANGED vars
    BY <1>1 DEF vars, StartsAreCounted
<1>2. ASSUME NEW w \in Worker, FaultStep(w) PROVE StartsAreCounted'
    BY <1>2, NothingResent, FailuresCount, RestCounts DEF FaultStep
<1>3. CASE Next
    BY <1>2, <1>3, WorkCounts, RestCounts, OthersCount DEF Next
<1>4. QED
    BY <1>1, <1>3

\* Every upload is in one list at most, a worker in the middle of a job has it in its own, and
\* the starts of a job are behind its attempts: the move of BLMOVE and LMOVE, the heartbeat
\* before the claim, the check before the sweep and the count before the start are enough,
\* with any number of workers and crashes and of failing Redis calls.
THEOREM QueueInvHolds == Spec => []QueueInv
<1>1. Init => QueueInv
    BY InitOwns, InitCounts DEF QueueInv
<1>2. ASSUME TypeOK, QueueInv, [Next]_vars PROVE QueueInv'
    <2>1. SUFFICES ASSUME NoFalseSuspicion' PROVE (Ownership /\ StartsAreCounted)'
        BY DEF QueueInv
    <2>2. Ownership /\ StartsAreCounted
        BY <1>2, <2>1, SuspicionStays DEF QueueInv
    <2>3. QED
        BY <1>2, <2>1, <2>2, StepOwns, StepCounts
<1>3. QED
    BY <1>1, <1>2, TypeCorrect, PTL DEF Spec

\* No two workers ever process the same upload.
THEOREM ProcessingIsExclusive == Spec => []ExclusiveProcessing
<1>1. ASSUME TypeOK, QueueInv PROVE ExclusiveProcessing
    BY <1>1 DEF TypeOK, ThreadOK, QueueInv, Ownership, ListedOnce, HeldIsListed, ExclusiveProcessing
<1>2. QED
    BY <1>1, QueueInvHolds, TypeCorrect, PTL

\* Whatever crashes, raises, fails, is given back or requeued, the processing of an upload
\* begins at most MAX_ATTEMPTS times: a claim counts before it hands the job out, and no
\* later save undoes the count.
THEOREM StartsAreBounded == Spec => []BoundedProcessing
<1>1. QueueInv => BoundedProcessing
    BY DEF QueueInv, StartsAreCounted, BoundedProcessing
<1>2. QED
    BY <1>1, QueueInvHolds, PTL
=============================================================================
