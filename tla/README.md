# A model of UALFlix

TLA+ modules, TLC configurations and TLAPS proofs about the parts of UALFlix that are hard to test: the upload queue in Redis, the workers that claim, process and recover its jobs, the life of a video across PostgreSQL, MinIO and that queue, the events that keep open pages up to date, the byte ranges of the streaming service, the start of the instances, and the session of the administrator. Paths are relative to the repository root.

## The system

| Part | State | Operations | What makes it correct |
| --- | --- | --- | --- |
| Upload queue, `catalog_service/jobs.py` | in Redis: the queue list, a processing list and a heartbeat key per worker, a status per upload, an index key per video | `enqueue`, `claim`, `ack`, `release`, `heartbeat`, `retire`, `requeue_abandoned`, `get`, `set_status`, `forget_video` | no job is lost, listed twice, worked on twice at once, or started more than `MAX_ATTEMPTS` times; returned jobs go first |
| Upload worker, `catalog_service/processing.py` (`UploadWorker`) | worker id, stop flag, two daemon threads, the job in hand | `start`, `stop`, `_work`, `_run`, `_watch` | every job ends in an ack, whichever worker stops or dies |
| Processing, `catalog_service/processing.py` (`handle_job`), `storage.py`, `models.py` | row of the video, its file, its thumbnail | `handle_job`, `_update_video`, `process_video`, `remove_video_files` | row, objects and status agree; running it twice is harmless |
| Public API, `catalog_service/videos.py` | none of its own | upload, list, get, status, events | an accepted upload becomes ready or failed |
| Admin API, `catalog_service/admin.py` | none of its own | list, edit, delete (soft, permanent), restore | a permanent delete leaves nothing behind |
| Events, `catalog_service/events.py` | a Redis channel, a subscription per open page | `publish`, `subscribe` | an event never precedes what it announces |
| Public site, `web/src` | list, open video, pending requests, upload pollers | load, subscribe, navigate, poll, upload | pages end up with what the catalog has |
| Admin panel, `admin_panel/src` | table, dialog, a token shared by all tabs | load, edit, delete, restore, log in and out | the same, and a session that ends for a reason and only then |
| Streaming, `streaming_service/main.py` | none | range requests over MinIO objects | status, headers and body describe the same bytes |
| Startup, `catalog_service/main.py`, `database.py`, `migrations`, `auth.py` | schema, administrator's row, advisory lock | `_retry`, `run_migrations`, `ensure_admin_user`, `ensure_buckets` | both instances come up, the schema is migrated once |
| Authentication, `catalog_service/auth.py` | administrator's row | `ensure_admin_user`, log in, check a token | the configured password is the one that works; a token is good until it expires |
| nginx, PostgreSQL replication, containers, CI | configuration | | |

They interact as follows. An upload request inserts a row, stores the file, and pushes a job. Any worker moves the job to its own list with `BLMOVE`, counts the attempt, and runs `handle_job`, which updates the row, reads the file, writes the thumbnail, and sets the status; then it acknowledges the job, or gives it back if the database or the storage raised. The second thread of every worker refreshes the heartbeat key and moves jobs from the lists of workers without one back to the queue. A permanent delete removes files, status and row under all of this. Each change of a row is published to every open page, which loads its list again.

What is hard: two threads in each of several processes, that share lists and keys through single commands and pipelines; processes that die between any two of them and containers that start again under a new worker id; calls that raise before or after their effect, or are sent twice by the client; statuses that are read in one command and written in a later one; three stores with no common transaction; browser requests that overlap, and a stream that breaks and comes back.

## Modules

| Module | Stands for |
| --- | --- |
| `UploadQueue` | `jobs.py` and the threads of `UploadWorker`; the specification of the queue |
| `VideoProcessing` | `handle_job`, the upload request and the permanent delete, composed with an instance `Q` of `UploadQueue` |
| `JobLedger` | what the queue promises about a job, without Redis; the abstract specification that `UploadQueue` implements |
| `CatalogPage` | commits and `publish`, the event stream, and the list and video page of one browser |
| `Streaming` | `parse_range`, `stream_video` and the chunks it sends, with a player that seeks and resumes |
| `Startup` | `lifespan` up to the start of the worker: `_retry`, `run_migrations`, `ensure_admin_user`, `ensure_buckets` |
| `AtomicStart` | what a start promises to the other instances: one step; the abstract specification that `Startup` implements |
| `AdminPanel` | sign-in, the check of a stored token, sign-out and the 401 interceptor in the tabs of `admin_panel`, over `auth.py` |
| `MCUploadQueue`, `MCVideoProcessing`, `MCCatalogPage`, `MCStreaming` | symmetry, state constraints and small sets for TLC |
| `UploadQueueProofs` | lemmas about the lists; type correctness |
| `UploadQueueSafety` | the inductive invariant; exclusive and bounded processing |
| `UploadQueueSteps` | what no step does: lose a job, undo a count, put a returned job behind a new one; that `UploadQueue` implements `JobLedger` |
| `VideoProcessingProofs` | the theorems about `UploadQueue` for the queue of the system; types, files and agreement of the whole; what is ready, at rest or deleted stays so |
| `CatalogPageProofs` | types; no change that reaches the page is forgotten, and no answer goes back |
| `StreamingProofs`, `StartupProofs`, `AdminPanelProofs` | types and safety of these three; that `Startup` implements `AtomicStart` |

Some operators are marked as mutants in their comments. No specification uses them: each is a plausible bug in the definition that follows it, which shows that the property it is named after in `PROJECT.json` can fail.

### UploadQueue

A worker is one start of a catalog process, because `worker_id` is drawn anew by each; a crashed worker never comes back, and another member of `Worker` starts. A video has one upload, so `Upload` names both, and the file, row and status of a video are indexed by it.

`queue`, `processing`, `heartbeat`, `jobs` and `indexed` are the Redis keys. One action is one command, or one `MULTI`/`EXEC` pipeline, as Redis makes no more than that atomic: `claim` is `Claim`, then `Load` or `LoadMissing`, then `Count` (the `_save`) or `Drop` (the `ack` of an unknown job); `set_status` is `Tell` and `Save`. `copy[w]` is the dict that is read in one and written in the other. The program counter `pc` names the next call of the upload-worker thread:

    top -> beat -> claim -> load -> count -> tell -> save -> handle -> tell -> save -> ack -> top
                            load -> drop -> top        count -> handle (last attempt is over)
                                                       handle, tell, save -> release -> top (raised)

`watch` does the same for the upload-heartbeat thread, with `target` the worker whose list `requeue_abandoned` is emptying. The `SCAN` of that function is `SweepBegin` for any list that exists, which is what `SCAN` guarantees, ended at any time by `ScanEnd`.

`life` is the process: `Stop` sets the event, `Retire` is `retire` after both joins (or after a join that timed out, which counts as a lapse), `Exit` and `Crash` end the threads. `Expire` is the key that runs out after its process is gone.

Three faults have budgets. `CallFails` and `WatchFails`: a call raises `RedisError`, its effect done or not, and each caller does what its `except` says. `Lapse`: a heartbeat that runs out under a live worker. `Resend` and `EnqueueResend`: `redis-py` 8.1.0 retries a command when the reply is lost, so `BLMOVE`, `LREM` or `RPUSH` may run twice.

`attempts` and `begun` (a history variable: how often processing of an upload started) saturate at `MAX_ATTEMPTS + 1`, as all larger values take the same branch. A finished status expires after an hour; `ExpireStatus` does not do so between a `Tell` and its `Save`, a few milliseconds later.

### JobLedger

A job is `new`, `waiting`, in `hand` of a worker, `left` by one, or `over`. `Phase` and `Owner` at the end of `UploadQueue` compute this from the lists, the program counters and the life of the workers: a job in the list of a worker is in hand while that worker is between `Claim` and the ack or release of this job, and left otherwise. The ledger says in six actions what the commands add up to: only the worker that has a job may end it or give it back, nobody moves it meanwhile, it starts at most `MAX_ATTEMPTS` times, and what is over stays over.

### VideoProcessing

The action `handle` of a worker is opened up: `step` is the next database or storage call of `handle_job`, `verdict` the outcome of `process_video`, and `seen` the status that `db.get` of `_update_video` loaded, which decides whether SQLAlchemy sends an `UPDATE` at all. `SelectRow`, `CommitRow` and `CommitStale` are `_update_video`; a row deleted in between makes the `UPDATE` match nothing, which raises. `Outage` is any call that raises for infrastructure; `SourceUnusable` is `CalledProcessError` or `NoSuchKey`, which fail the video. `RemoveFile` and `RemoveThumbnail` are what `handle_job` does when the row is gone.

`up` is the upload request (`CreateRow`, `StoreFile`, `ReloadRow`, `EnqueueJob`, or `RejectUpload` after a failure, or `UploadDies`), `adm` the permanent delete (`PurgeBegin`, the two removals, the two commands of `forget_video`, `PurgeCommit`). Every action that touches Redis is an action of `Q` together with what its caller does, so what is proved of `UploadQueue` can be used of `Q`.

### CatalogPage

`Commit` and `Publish` are separate, as in `admin.py` and `_update_video`. `Connect` is the start of the response to `GET /events`; its generator subscribes to the channel after that (`Subscribe`), so that an event published in between reaches nobody. `OnOpen`, `OnMessage` and `OnChange` are `subscribeToCatalog` with the callback of `Shell`; `lists` are the requests of `loadVideos` under way, which may be answered and may arrive in any order; `fetches` are those of `VideoPage`, with the `cancelled` flag of its effect. `lastChange` is the state of `Shell` as far as the effect of `VideoPage` has not seen it: React renders later than the event handler runs, so a second change may replace the first. What a video looks like is the number of its changes.

### Streaming

A `Range` header is what `parse_range` can tell of it: no header, another unit, several ranges, no dash, or one range with the texts before and after the first dash, each an integer, empty, or something `int()` refuses. The integers include negative ones after the dash (`--5`). `ParseRange` is the function, `Names` the independent definition of what a header asks for, as a set of bytes and without the arithmetic. A byte is its position in the file. `StatFound` is the first half of `stream_video`, up to the answer it will give; `Open` is `get_object`, with the rule of the MinIO client that an offset of 0 and a length of 0 mean none was given; between the two the object can be removed, and an upload under way can store it at any time. `SendChunk`, `BodyEnds` and `BodyCut` are the response. The player keeps what it got as pairs of the position announced and the byte sent.

`AnswerIsRequested` ties the answer to `Names` for well-formed headers, which are those that do not end before they start and whose suffix has a length, and says that the whole file is the answer to all others that are not refused. Which of the others are refused differs from the docstring (finding 4, `find_range`). The last bytes of an empty file are answered 206 with `bytes 0--1/0`: the model has it, as an answer that announces no byte, and no sentence of the repository speaks of it.

### Startup

`pc[i]` is what an instance does: the two steps of `lifespan` that go through `_retry` are `lock`, `upgrade`, `account`, `commit`, and `check`, `make`, `policy`. `tx[i]` is what the transaction of `run_migrations` has done so far, `db` what is committed. The advisory lock ends with the transaction; an outage of PostgreSQL rolls every transaction back, and an instance whose transaction is gone can only fail. `CommitUnheard` is a COMMIT whose reply is lost. `Fails` is one round of `_retry`; after the last attempt the process ends and its container starts again, with the `ADMIN_PASSWORD` it was created with. `Recreate` gives it the password of the environment at that moment.

A container that is restarted, and not recreated, sets the account back to the password it was created with (`auth.py`, `ensure_admin_user`). `PasswordIsCurrent` therefore speaks of the moment when every container was recreated.

`AtomicStart` has no lock, no transaction and no retry: tables and account appear in one step, `Migrate`, with the password of the instance that took it. An instance that does not hear of its `COMMIT` has migrated all the same and will do so again. What is left as separate steps is what the code does without a lock: each bucket, made once, and the start to serve, when both are there.

### AdminPanel

`stored` is the token in `localStorage`, which all tabs share; `view[t]` what a tab shows: nothing, the spinner of the check of a stored token, the login page, a sign-in under way, or the table. `requests` are in flight, each with the token it was sent with (the request interceptor reads it when the request leaves). `Process` is the server, `Deliver` the answer, with the response interceptor first (`SignsOut`: a 401 removes the token and shows the login page) and the caller after it. An answer may be late, lost, or an error. The requests of a table (`Act`) are all alike: they are let in or not. Two that a tab sends with the same token at the same time are one element of the set. What the table and its dialog show is not modelled.

## What the runs check

| Run | Bounds | Properties |
| --- | --- | --- |
| `queue_safety` | 3 workers, 2 uploads, 1 attempt, 1 lapse or resend | `ExclusiveProcessing`; `ReturnedJobsFirst`: jobs that come back by `release` or `requeue_abandoned` are ahead of jobs nobody has claimed; `JobsLeaveByAck`: even when a live worker is taken for dead or a command runs twice, only an ack removes a job |
| `queue_liveness` | 2 workers, 1 upload, 1 attempt, 1 failing Redis call | `TypeOK`; `BoundedProcessing`; `QueueInv`, the inductive invariant of the proofs; `NoJobLost`; `AttemptsNeverUndone`; `KeepsLedger`, the refinement of `JobLedger`; `JobsSettleOrStrand`: every job is acknowledged in the end, or lies in the list of a live worker that a failed call made forget it |
| `video_safety` | 2 workers, 1 video, 2 attempts, 1 failing call or 1 resend | `TypeOK`; `CompletedHasFiles`, also when two workers process a video at once; `UnfinishedIsTracked`, also of rejected uploads; `StatusFollowsRow`: a finished status says what the row says; `LiveStatusIsTracked`: a status that is not final has a job behind it; `LeftAtRest`: once request and job are through, nothing of a video comes back; `ReadyStaysReady`: who may change a ready row. All but the first two have the premise `Q!NoFalseSuspicion` of the proofs below |
| `video_liveness` | 2 workers, 1 video, 2 attempts | `AcceptedSettles`: every accepted upload becomes ready or failed; `GoneJobsEnd`: the job of a video that was deleted for good comes to an end |
| `page_events` | 2 videos, 2 changes, 2 visits, 1 broken connection, lost event or failed request | `TypeOK`; `EveryChangeIsLoaded`; `PageIsCurrent`; `PageNeverGoesBack` |
| `stream` | files of 0, 1 and 4 bytes, positions -1 to 5, chunks of 2, 2 seeks, 2 failures or cuts | `TypeOK`; `AnswerIsRequested`; `BytesInPlace`; `LengthIsKept`; `FileIsPlayed`: a player that goes on where it is has the whole file in the end |
| `startup` | 2 instances, 2 passwords, 2 attempts, 1 change of the password, 3 kills or recreations, 1 outage or lost reply | `TypeOK`; `CommitsFit`; `ServingIsReady`; `PasswordIsCurrent`; `StartsAtomically`, the refinement of `AtomicStart`; `AllServe`: both serve in the end |
| `panel` | 2 tabs, 2 tokens, 3 requests in flight, 1 error | `TypeOK`; `TokenSurvives`; `NobodyWaits`: neither spinner stays |
| `find_purge`, `find_failed`, `find_page`, `find_range` | the smallest that show it | one property each, violated; see Findings |

Crashes, stops, restarts, raising jobs and the expiry of keys are in every run of the queue and need no budget. The lengths of all lists follow from the number of uploads, unless a job is listed twice.

### Why the bounds are enough

Two workers give every pair of roles the code distinguishes: the owner of a job and the one that sweeps its list, and the successor of a crashed worker. Two sweepers of one list need a third worker, which crashed with a job in it: `queue_safety` has three, and the proofs below cover any number. A job's fate depends on other jobs only by the order of the queue and by what a worker has in hand; that is the subject of `queue_safety`, and why that run has two uploads. One attempt suffices where the count is not the subject: the claims with a first start and with the give-up both happen. Two attempts are used where a second run after a crash or an outage matters. In `Streaming` the files are the empty one, one whose first byte is its last, and one of two chunks; positions reach past each, and two seeks let one answer be followed by another. In `Startup` two attempts make the last one different from the first, and three restarts can hit both instances and one of them again; two instances are what `docker-compose.yml` starts, and the proofs cover any number. In `AdminPanel` one tab holds an old token while the other gets a new one; a third token would be to the second what that is to the first. In `CatalogPage` two videos are an open one and another; two changes are what it takes to have one answer overtake, or one event replace, another.

State constraints keep faults apart where their product is large: `QuietDeletes` (once both uploads are accepted no delete is under way), `FewEntries` (one resend or one lapse, with one accepted upload, workers that stay up and no delete; a lapse is what a crash looks like to others), `ThirdSweeps` (the third worker starts when one has crashed, with one upload, no fault and no delete), `FailuresApart` (in `queue_liveness` no delete is under way once a call failed), `FaultsApart` (at most one fault; under a delete one worker is alive at a time, as a second one has nothing of the video in hand; a failing call meets crashes and stops of workers that follow each other, or the last part of a permanent delete under one worker; a resend meets live workers in a first attempt), `DeletesApart` (in `video_liveness` a delete is under way while one worker stays up, and workers that crash follow each other after it), `OneFault` (one fault per page). `Replaceable` in `UploadQueue` says that the last worker id is not spent: containers are restarted (`docker-compose.yml`, `restart: unless-stopped`), and the model runs out of ids where the system does not. `page_events`, `find_page`, `stream`, `find_range`, `startup` and `panel` switch the deadlock check off: a page where nothing happens any more, a file that was played, instances that serve and tabs that are closed are at rest, when the budgets are spent. In the runs of the queue and the videos it is on.

### Fairness

Liveness assumes, for every worker: weak fairness of each of its two threads, which are ordinary threads of a running process; of the start of a process, and of its end once it is stopping, which the container runtime does; and of the expiry of a key whose process is gone. `SweepBegin` of another worker's list has strong fairness, because a `SCAN` returns every key that exists throughout, and each round scans again; between rounds the action is disabled. Conclusions of `handle_job` need one more assumption, that an outage of the database or the storage ends: from some time on it does not raise (`<>[][~Raise]`). In `VideoProcessing` this is said of `Outage` only: an `UPDATE` that matches no row (`CommitStale`) may raise for ever, and `GoneJobsEnd` says that it does not. Without the assumption a job is released and claimed until its attempts are used up, each time with the same outcome. Nothing is assumed of crashes, stops and failures, which need not happen.

`stream` assumes that the service goes on with a request it has (`Serve`) and that the player asks for what it lacks when it has no request (`Continue`); with seeks and cuts bounded, that is a user who lets the video play. `startup` assumes that each instance takes its next step when it can, which includes that a container whose process ended is started (`restart: unless-stopped`), and that PostgreSQL and MinIO come up; taking the lock needs no strong fairness, as an instance goes through it only once per start and the restarts are bounded. `panel` assumes, for each tab and kind of request, that a request is processed and answered, or fails, as a browser sees to; nothing is assumed of the administrator.

### What does not hold

These are checked limits of the design, which is why the runs and theorems say what they assume.

- When a heartbeat lapses under a live worker, its job is requeued while it still works on it. Then two workers process the same video, `release` can list it twice, an older `Save` can undo a count, and a later start can exceed `MAX_ATTEMPTS`. The `while` loop of `requeue_abandoned` does not look at the heartbeat again, so a sweeper can chase a live worker, which claims what was moved back, without end.
- When the client sends a command twice, the same happens: `RPUSH` lists the job twice, and a second `BLMOVE` strands one in the own list.
- A failing call after `BLMOVE`, or of `ack` or `release`, leaves a job in the list of a worker that goes on. It waits "so it's requeued once we're gone" (`processing.py`, `_run`).
- An instance that dies between storing a file and queueing its job leaves a `pending` row with no job. `README.md` lists this under Known limitations; in the model such an upload is `lost`, and the properties speak of accepted uploads.
- Two overlapping `loadVideos` may finish in the other order, and the list then shows the older answer. `EveryChangeIsLoaded` speaks of the newest answer received.

## What is proved

TLAPS checks these for every set of workers and uploads, every `MAX_ATTEMPTS > 0` and every budget of faults, and of the other modules for every set of videos, file size, header, chunk size, set of instances, passwords and tabs, and every bound on changes, visits and faults. `NoFalseSuspicion` is a state predicate, `faults.lapse = 0 /\ faults.resend = 0`: so far no live worker was taken for dead, and no command was sent twice. The properties that need it have it as a premise, so that they say something of every behaviour up to the first such fault. Crashes, stops and any number of failing Redis calls remain.

| Module | Theorem | States |
| --- | --- | --- |
| `UploadQueueProofs` | `TypeCorrect` | `Spec => []TypeOK` |
| `UploadQueueSafety` | `QueueInvHolds` | `Spec => []QueueInv`, with the premise `NoFalseSuspicion` |
| | `ProcessingIsExclusive` | `Spec => []ExclusiveProcessing`, with the same premise |
| | `StartsAreBounded` | `Spec => []BoundedProcessing`, with the same premise |
| `UploadQueueSteps` | `OnlyAcksRemove` | `Spec => JobsLeaveByAck` |
| | `AttemptsOnlyGrow` | `Spec => AttemptsNeverUndone`, with the premise `NoFalseSuspicion` |
| | `JobsAreNotLost` | `Spec => NoJobLost`, with the same premise |
| | `ReturnedAreFirst` | `Spec => []ReturnedJobsFirst`, as long as no command was sent twice |
| | `LedgerIsKept` | `Spec /\ []NoFalseSuspicion => KeepsLedger` |
| `VideoProcessingProofs` | `TypeCorrect` | `Spec => []TypeOK` |
| | `CompletedIsComplete` | `Spec => []CompletedHasFiles` |
| | `UnfinishedAreTracked`, `StatusIsOfTheRow`, `StatusIsOfAJob` | `UnfinishedIsTracked`, `StatusFollowsRow`, `LiveStatusIsTracked` always, with the premise `Q!NoFalseSuspicion` |
| | `AtRestIsLeftAlone`, `ReadyIsLeftReady` | `Spec => LeftAtRest`, `Spec => ReadyStaysReady`, with the same premise |
| | `PurgeAtRestLeavesNothing` | whenever a video is at rest and not being deleted, its later permanent delete leaves nothing |
| | `QueueServesVideos` | `ExclusiveProcessing`, `BoundedProcessing` and `NoJobLost` of `Q`, in every behaviour of the whole |
| | `QueueKeepsLedger` | `Spec /\ []Q!NoFalseSuspicion => QP!KeepsLedger` |
| `CatalogPageProofs` | `TypeCorrect`, `ChangesAreLoaded`, `PageIsUpToDate` | `TypeOK`, `EveryChangeIsLoaded`, `PageIsCurrent` always |
| | `PageOnlyAdvances` | `Spec => PageNeverGoesBack` |
| `StreamingProofs` | `TypeCorrect`, `AnswersAreRequested`, `BytesStayInPlace`, `LengthsAreKept` | `TypeOK`, `AnswerIsRequested`, `BytesInPlace`, `LengthIsKept` always |
| `StartupProofs` | `TypeCorrect`, `CommitsAlwaysFit`, `ServingIsAlwaysReady`, `PasswordIsAlwaysCurrent` | `TypeOK`, `CommitsFit`, `ServingIsReady`, `PasswordIsCurrent` always |
| | `StartupIsAtomic` | `Spec => StartsAtomically` |
| `AdminPanelProofs` | `TypeCorrect`, `TokensSurvive` | `TypeOK` always, and `Spec => TokenSurvives` |

The assumptions on constants are those that the modules state: sets that are not empty where the code has one (`Instance`), numbers of attempts and chunk sizes above 0, bounds that are natural numbers, `None` and the texts that are no integers outside the sets they are told from, and positions that include those of every file.

`ExclusiveProcessing` is not inductive: that two workers hold different jobs follows from where the jobs are listed. `Ownership` has the five parts that carry it.

- `ListedOnce`: an upload is in one list at most, and once. Every command moves an entry or removes it, and `PushNew` adds one that is nowhere.
- `NewIsUnknown`: what was not enqueued is not listed, has no status, and never started; so `PushNew` adds nothing that is there.
- `HeldIsListed`: a worker between `Claim` and its ack has the job in its own list; with `ListedOnce`, no other worker has it.
- `OwnersBeat`: a live worker with a job in its list, or about to claim, has a heartbeat. This is why `_work` refreshes it before each claim, and why `stop` joins the threads before `retire`.
- `SweepsDead`: a list that is being emptied belongs to a process that is no more. The check of `requeue_abandoned` is enough although the heartbeat is looked at once, because a process that has ended does not come back under its id.

`BoundedProcessing` rests on `StartsAreCounted`: the number of starts is at most the attempts in the status and in the copies of the job, and strictly less between the claim's read and its save. It needs `Ownership`, as only the worker that has the job alone may write its status. `AttemptsNeverUndone` follows from the same invariant. `NoJobLost` adds `DropsUnknown`: the claim that found no status is still right when it removes the job, because nobody else writes that status meanwhile. `OnlyAcksRemove` needs types only, and holds with any lapses and resends.

The lemmas of `UploadQueueProofs` state what `RemoveFirst`, `Append`, `Cons`, `Tail` and `Front` of the community modules do to the elements of a list and to its being free of duplicates; `UploadQueueSafety` lifts them to each Redis command. The step of the invariant is proved by kind of step (work, heartbeat thread, life, faults, calls), and for each kind a lemma says what such steps may disturb.

`ReturnedJobsFirst` says of the queue that the jobs of `taken`, those a worker has claimed before, are a prefix of it. `Ordered` says in addition that a job listed twice is one of them, which is what makes it inductive: the head that leaves the queue enters `taken`, and its second entry must not be left behind. `Known` says that what is listed, held or about to be moved by a sweeper was enqueued, and claimed if it is in a worker's list.

`LedgerIsKept` is a refinement. `Placed` computes `Phase` and `Owner` from the invariant, and for each command there is a lemma that says which jobs it moves; all others are `Same`, and stay where the ledger has them. The premise is needed at every step, and not only at one state: a worker that was taken for dead goes on with a job that the ledger has given to another.

`VideoProcessingProofs` starts from `StepIsQueueStep`: each action of `VideoProcessing` is an action of `Q` or leaves the variables of the queue alone. So what is proved of `UploadQueue` holds of `Q` (`QP`, an instance of the proof modules, and `QueueFacts`). `CompletedHasFiles` needs `FileInv`: a row says what the request and the delete have got to (`RowsInv`), a handler past a call knows what that call left, and what it has seen of the row (`HandlerInv`), and a video has its file from the enqueue on, and its thumbnail from the end of `process_video` on, until its delete begins (`FilesInv`). It holds although two workers may process the same video, and with every fault, because `handle_job` removes files only when the row is gone. `UnfinishedIsTracked` and `StatusFollowsRow` follow from `AgreeInv`: per video, that an unfinished row has a job or a request that will give it one (`JobAgrees`), and per worker, that row and status are as far as the step of its `handle_job` (`WorkAgrees`). Here the exclusive hold on a job matters: `HandsAlone` says that no other worker is between the claim and the ack of the same job, so that a step of one worker does not disturb `WorkAgrees` of another (`WorkStays`).

The other theorems of that module say what a step may not do, or what a status promises.

- `LeftAtRest` comes from `RestStays`: a video that is `Settled` is in no list and in nobody's hand, so no worker is at one of the steps that touch its row, objects or status, and the request is over; only the delete is left.
- `ReadyStaysReady` needs `ReadyInv`: a completed row was started once, and a worker that goes on with a completed row has started it a second time or gives up. The verdicts of `process_video` come from such a start only. The exceptions in the property are finding 2 and the request that answers 502 after an `enqueue` that did happen.
- `LiveStatusIsTracked` needs `PollInv`: who is about to take a job off its list has told how it ended, or found no status, or the row is gone; it rests on `NoJobLost` and on `GoneStays`.
- `PurgeAtRestLeavesNothing` follows from `Clean`: a delete that begins at rest finds what it removes and nobody puts it back. It says how far finding 1 goes: what is left behind comes from a worker or a request that was at work during the delete, and from nothing else.
- `QueueServesVideos` and `QueueKeepsLedger` carry the theorems about `UploadQueue` over. The second is stated for `KeepsLedger` of the instance `QP`, whose definitions are those of `Q`: the prover cannot print a formula with an instance inside an instance of the module itself.

`CatalogInv` of `CatalogPageProofs` follows a change on its way. `LoadsInv`: what the newest list lacks is not published yet, in the stream, or in the answer to a request under way, which is made later (`None`) or has it already. That the newest list is well defined is `ListsInv`: each answer is the catalog of one moment, so that of any two one is older in every video, and the page cannot get one change from one and lose another. `PageInv` says the same of the open video: the change is coming, was handed to the effect, is in the answer the page waits for, or is shown. It needs `FetchInv`: the page waits for one answer at most, because `Refetch` cancels the others, and that answer is not older than what is shown, because it was asked for later; from this `PageNeverGoesBack` follows too. The exceptions in the properties are the places where the chain breaks: `missed` (nobody was subscribed), `skipped` (one `lastChange` replaced another), a failed list.

`StreamInv` of `StreamingProofs` ties the halves of an answer: the range that is announced lies in the file, its length is 0 only for an empty file, and the body MinIO was asked for starts where the range does and has its length. That the length passed to MinIO is 0 only for an empty file is what keeps the rule of the client about 0 from biting. That a suffix is what `Names` says goes through the cardinality of an interval.

`StartInv` of `StartupProofs` has the types, a part about transactions (`TxSafe`) and one about what is stored (`StoreSafe`). Besides the three properties: at most one transaction has the lock, and it is under way (`OneHolder`); a transaction has done nothing before its upgrade, and nothing to the account before `ensure_admin_user` (`TxBegins`); what is about to be committed leaves the account with the password of its instance, or as it is when the instance has none (`CommitsConf`); the buckets are made in order (`BucketsInOrder`); and a password with which every instance has got through its transaction is the account's (`PasswordIsShared`). The last one is why `PasswordIsCurrent` is true: the last of them to commit either wrote it or saw it. `StartupIsAtomic` is the refinement: a commit, heard of or not, is `Migrate`, because `CommitsFit` gives it the tables and `CommitsConf` the account; `SetPolicy` is `Serve`, because of `BucketsInOrder`; what ends a process is `Restart`, and everything else is a stutter.

`SessionInv` of `AdminPanelProofs` says that every token in use was issued, that a sign-in that succeeded carries a token, and that a token that was refused is still worth a 401 when the answer arrives, because no token becomes valid again; the last part is why a late 401 of a request with the stored token never ends a good session.

Only model-checked: the liveness properties, which are out of the prover's reach, and what the four `find_` runs show. Every invariant and action property of a passing run is also a theorem.

## Findings

1. A permanent delete can leave things behind (`find_purge`). `delete_video` removes the files first, then the status, and the row last. A worker that uploads a thumbnail in between, and commits `completed` before the row is deleted, leaves it for good. So does an upload request that stores its file after the removal. And a `set_status` that read the status before `forget_video` deleted it writes it back as `processing`, with no time to live; `handle_job` finds no row and sets no other.
2. A ready video can end up failed (`find_failed`). A worker that dies after it committed `completed`, or whose ack fails, on the last attempt has its job claimed once more; `handle_job` looks at the count alone and sets the row to `failed`.
3. An open video page can miss that its video was deleted (`find_page`). Two events that arrive before React renders leave one `lastChange`; if the second is about another video, the page neither fetches nor leaves the deleted one.
4. A malformed range can be refused (`find_range`). `bytes=--5`, whose length `int()` reads as -5, and `bytes=1000-10` of a file of 1000 bytes or less are answered 416, where the docstring of `parse_range` promises the whole file for a malformed value.

`PROJECT.json` quotes for each the sentence of the repository it contradicts.

## Not modelled

The contents of media files and the arguments of `ffmpeg`; the texts of titles, errors and notices; passwords and tokens as strings, hashing and signing; the table and the dialog of the admin panel, which put back a row or its texts as they had them, without a guard that a property could be about (`VideoTable.js`, `softDelete`; `EditVideoDialog.js`); the status polls of an upload (`App.js`), whose late answers cost a second notice at most; columns of a video, so that edit, soft delete and restore are changes of its version; Alembic from the command line; the rate limits and the failover of nginx, which are its own code, as is the replication of PostgreSQL, which nothing in the catalog reads from; layout. Time is abstracted to what runs out before what: waits of the threads are not counted, a heartbeat of a live worker runs out only by `Lapse`. `retire` by a process that later lives on (a join that timed out) counts as a lapse. `forget_video` is called by one request at a time for a video.
