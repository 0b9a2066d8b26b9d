------------------------------ MODULE Startup ------------------------------
(***************************************************************************)
(* The start of the catalog instances: lifespan and _retry of main.py,     *)
(* run_migrations of database.py with the initial schema and               *)
(* ensure_admin_user as one transaction under an advisory lock, and        *)
(* ensure_buckets of storage.py, which has no lock.  PostgreSQL and MinIO   *)
(* come and go, instances are killed, and the administrator changes the    *)
(* password in the environment and recreates the containers.               *)
(***************************************************************************)
EXTENDS Naturals

CONSTANTS
    Instance,
    Password,
    None,         \* no password, no account
    ATTEMPTS,     \* of _retry
    MaxChanges,   \* bound: changes of the password in the environment
    MaxRestarts,  \* bound: containers killed or recreated
    MaxOutages    \* bound: times PostgreSQL or MinIO goes down, and replies that are lost

ASSUME InstanceAssumption == Instance # {}
ASSUME NoneAssumption == None \notin Password
ASSUME AttemptsAssumption == ATTEMPTS \in Nat \ {0}
ASSUME BoundsAssumption == {MaxChanges, MaxRestarts, MaxOutages} \subseteq Nat

VARIABLES
    (* PostgreSQL, MinIO and the environment file *)
    db,        \* what is committed: are the tables there, the password of the account
    locked,    \* the instances whose transaction has the advisory lock
    buckets,   \* those that exist
    public,    \* the thumbnails may be read
    up,        \* which of the two services answer
    env,       \* ADMIN_PASSWORD, None when it is not set
    (* an instance *)
    pc,        \* down, lock, upgrade, account, commit, check, make, policy, serving
    conf,      \* the password its container was created with
    tx,        \* what its transaction has done
    bucket,    \* the bucket that ensure_buckets is at
    tries,     \* of the present step of lifespan
    budget

vars == <<db, locked, buckets, public, up, env, pc, conf, tx, bucket, tries, budget>>
stores == <<db, buckets, public>>
world == <<up, env, conf, budget>>

InTx == {"upgrade", "account", "commit"}
InBuckets == {"check", "make", "policy"}
NoTx == [tables |-> FALSE, account |-> None, insert |-> FALSE]

Init ==
    /\ db = [tables |-> FALSE, account |-> None]
    /\ locked = {}
    /\ buckets = {}
    /\ public = FALSE
    /\ up = {}
    /\ env \in Password \cup {None}
    /\ pc = [i \in Instance |-> "down"]
    /\ conf = [i \in Instance |-> env]
    /\ tx = [i \in Instance |-> NoTx]
    /\ bucket = [i \in Instance |-> "videos"]
    /\ tries = [i \in Instance |-> 0]
    /\ budget = [changes |-> 0, restarts |-> 0, outages |-> 0]

Goto(i, l) == pc' = [pc EXCEPT ![i] = l]
\* Mutant: the lock outlives the transaction.
UnlockNot(i) == locked' = locked

Unlock(i) == locked' = locked \ {i}
Reset(i) == tx' = [tx EXCEPT ![i] = NoTx]

-----------------------------------------------------------------------------
(* run_migrations(after=ensure_admin_user).  An instance whose transaction was rolled back *)
(* under it no longer has the lock, and all it can do is fail.                             *)

Boot(i) ==
    /\ pc[i] = "down"
    /\ Goto(i, "lock")
    /\ tries' = [tries EXCEPT ![i] = 1]
    /\ UNCHANGED <<stores, world, locked, tx, bucket>>

\* Mutant: the transaction takes no lock.
LockNot(i) ==
    /\ pc[i] = "lock"
    /\ "postgres" \in up
    /\ locked' = locked \cup {i}
    /\ Goto(i, "upgrade")
    /\ UNCHANGED <<stores, world, tx, bucket, tries>>

\* BEGIN and pg_advisory_xact_lock.
Lock(i) ==
    /\ pc[i] = "lock"
    /\ "postgres" \in up
    /\ locked = {}
    /\ locked' = {i}
    /\ Goto(i, "upgrade")
    /\ UNCHANGED <<stores, world, tx, bucket, tries>>

\* command.upgrade: with no version recorded the tables are created.
Upgrade(i) ==
    /\ pc[i] = "upgrade" /\ i \in locked
    /\ tx' = [tx EXCEPT ![i].tables = ~db.tables]
    /\ Goto(i, "account")
    /\ UNCHANGED <<stores, world, locked, bucket, tries>>

\* Mutant: an account that exists keeps its password.
EnsureAdminOnce(i) ==
    /\ pc[i] = "account" /\ i \in locked
    /\ tx' = IF conf[i] = None \/ db.account # None THEN tx
             ELSE [tx EXCEPT ![i].account = conf[i], ![i].insert = TRUE]
    /\ Goto(i, "commit")
    /\ UNCHANGED <<stores, world, locked, bucket, tries>>

\* ensure_admin_user, whose commit releases a savepoint only.
EnsureAdmin(i) ==
    /\ pc[i] = "account" /\ i \in locked
    /\ tx' = IF conf[i] \in {None, db.account} THEN tx
             ELSE [tx EXCEPT ![i].account = conf[i], ![i].insert = db.account = None]
    /\ Goto(i, "commit")
    /\ UNCHANGED <<stores, world, locked, bucket, tries>>

Committed(i) ==
    /\ pc[i] = "commit" /\ i \in locked
    /\ db' = [tables |-> db.tables \/ tx[i].tables,
              account |-> IF tx[i].account = None THEN db.account ELSE tx[i].account]
    /\ Unlock(i)
    /\ Reset(i)

Commit(i) ==
    /\ Committed(i)
    /\ Goto(i, "check")
    /\ bucket' = [bucket EXCEPT ![i] = "videos"]
    /\ tries' = [tries EXCEPT ![i] = 1]
    /\ UNCHANGED <<world, buckets, public>>

-----------------------------------------------------------------------------
(* ensure_buckets: look for each bucket, make it when it is missing, publish the second. *)

\* On to the next bucket, or to the policy.
NextBucket(i) ==
    /\ bucket' = [bucket EXCEPT ![i] = "thumbnails"]
    /\ Goto(i, IF bucket[i] = "videos" THEN "check" ELSE "policy")

BucketExists(i) ==
    /\ pc[i] = "check" /\ "minio" \in up
    /\ IF bucket[i] \in buckets THEN NextBucket(i) ELSE Goto(i, "make") /\ UNCHANGED bucket
    /\ UNCHANGED <<stores, world, locked, tx, tries>>

MakeBucket(i) ==
    /\ pc[i] = "make" /\ "minio" \in up
    /\ bucket[i] \notin buckets
    /\ buckets' = buckets \cup {bucket[i]}
    /\ NextBucket(i)
    /\ UNCHANGED <<world, db, public, locked, tx, tries>>

SetPolicy(i) ==
    /\ pc[i] = "policy" /\ "minio" \in up
    /\ public' = TRUE
    /\ Goto(i, "serving")
    /\ UNCHANGED <<world, db, buckets, locked, tx, bucket, tries>>

-----------------------------------------------------------------------------
(* _retry: the step is called again from its beginning, ATTEMPTS times in all. *)

\* A call raises: its service is down, its transaction is gone, or another instance made
\* the bucket first.
Raises(i) ==
    \/ pc[i] = "lock" /\ "postgres" \notin up
    \/ pc[i] \in InTx /\ i \notin locked
    \/ pc[i] \in InBuckets /\ "minio" \notin up
    \/ pc[i] = "make" /\ bucket[i] \in buckets

\* Mutant: after the last attempt the step is skipped.
AgainOrSkip(i) ==
    /\ IF tries[i] < ATTEMPTS
       THEN /\ tries' = [tries EXCEPT ![i] = @ + 1]
            /\ Goto(i, IF pc[i] \in InBuckets THEN "check" ELSE "lock")
       ELSE /\ tries' = [tries EXCEPT ![i] = 1]
            /\ Goto(i, IF pc[i] \in InBuckets THEN "serving" ELSE "check")
    /\ bucket' = [bucket EXCEPT ![i] = "videos"]

\* Mutant: one attempt too many is counted.
AgainOnceMore(i) ==
    /\ IF tries[i] <= ATTEMPTS
       THEN /\ tries' = [tries EXCEPT ![i] = @ + 1]
            /\ Goto(i, IF pc[i] \in InBuckets THEN "check" ELSE "lock")
       ELSE UNCHANGED tries /\ Goto(i, "down")
    /\ bucket' = [bucket EXCEPT ![i] = "videos"]

\* The step starts again; after the last attempt lifespan raises and the process ends, and
\* its container is started again.
AgainOrDown(i) ==
    /\ IF tries[i] < ATTEMPTS
       THEN /\ tries' = [tries EXCEPT ![i] = @ + 1]
            /\ Goto(i, IF pc[i] \in InBuckets THEN "check" ELSE "lock")
       ELSE UNCHANGED tries /\ Goto(i, "down")
    /\ bucket' = [bucket EXCEPT ![i] = "videos"]

Fails(i) ==
    /\ Raises(i)
    /\ AgainOrDown(i)
    /\ Unlock(i)
    /\ Reset(i)
    /\ UNCHANGED <<stores, world>>

-----------------------------------------------------------------------------
(* What happens to the instances and to the services. *)

Spend(kind, bound) == budget[kind] < bound /\ budget' = [budget EXCEPT ![kind] = @ + 1]

\* The COMMIT is done and the instance does not hear of it.
CommitUnheard(i) ==
    /\ Spend("outages", MaxOutages)
    /\ Committed(i)
    /\ AgainOrDown(i)
    /\ UNCHANGED <<up, env, conf, buckets, public>>

End(i) ==
    /\ pc[i] # "down"
    /\ Spend("restarts", MaxRestarts)
    /\ Goto(i, "down")
    /\ Unlock(i)
    /\ Reset(i)
    /\ UNCHANGED <<stores, up, env, bucket, tries>>

\* The process is killed; its container is started again as it was created.
Crash(i) == End(i) /\ UNCHANGED conf

\* The administrator recreates the container, with the environment of that moment.
Recreate(i) == End(i) /\ conf' = [conf EXCEPT ![i] = env]

ChangePassword(p) ==
    /\ p # env
    /\ Spend("changes", MaxChanges)
    /\ env' = p
    /\ UNCHANGED <<stores, locked, up, pc, conf, tx, bucket, tries>>

Outage(s) ==
    /\ s \in up
    /\ Spend("outages", MaxOutages)
    /\ up' = up \ {s}
    /\ locked' = IF s = "postgres" THEN {} ELSE locked
    /\ UNCHANGED <<stores, env, pc, conf, tx, bucket, tries>>

Recover(s) ==
    /\ s \notin up
    /\ up' = up \cup {s}
    /\ UNCHANGED <<stores, locked, env, pc, conf, tx, bucket, tries, budget>>

Step(i) ==
    \/ Boot(i) \/ Lock(i) \/ Upgrade(i) \/ EnsureAdmin(i) \/ Commit(i)
    \/ BucketExists(i) \/ MakeBucket(i) \/ SetPolicy(i) \/ Fails(i)

Next ==
    \/ \E i \in Instance : Step(i) \/ CommitUnheard(i) \/ Crash(i) \/ Recreate(i)
    \/ \E p \in Password : ChangePassword(p)
    \/ \E s \in {"postgres", "minio"} : Outage(s) \/ Recover(s)

Spec == Init /\ [][Next]_vars

\* An instance that does not wait for the lock goes on, a container whose process ended is
\* started again, and the services come up.
Fairness ==
    /\ \A i \in Instance : WF_vars(Step(i))
    /\ \A s \in {"postgres", "minio"} : WF_vars(Recover(s))
FairSpec == Spec /\ Fairness

-----------------------------------------------------------------------------
(* Properties. *)

\* Types of what the services keep and of what the instances do.
TypeOK ==
    /\ db \in [tables : BOOLEAN, account : Password \cup {None}]
    /\ locked \subseteq Instance
    /\ buckets \subseteq {"videos", "thumbnails"} /\ public \in BOOLEAN
    /\ up \subseteq {"postgres", "minio"}
    /\ env \in Password \cup {None}
    /\ pc \in [Instance -> {"down", "lock", "serving"} \cup InTx \cup InBuckets]
    /\ conf \in [Instance -> Password \cup {None}]
    /\ tx \in [Instance -> [tables : BOOLEAN, account : Password \cup {None}, insert : BOOLEAN]]
    /\ bucket \in [Instance -> {"videos", "thumbnails"}]
    /\ tries \in [Instance -> 0 .. ATTEMPTS]
    /\ budget \in [changes : 0 .. MaxChanges, restarts : 0 .. MaxRestarts, outages : 0 .. MaxOutages]

\* What a transaction is about to commit still fits: the tables it creates and the account it
\* inserts are not there yet, as "the advisory lock makes the second one wait until the first
\* has committed" (run_migrations).
CommitsFit ==
    \A i \in Instance :
        pc[i] \in InTx /\ i \in locked =>
            /\ tx[i].tables => ~db.tables
            /\ tx[i].insert => db.account = None
            /\ pc[i] # "upgrade" => db.tables \/ tx[i].tables

\* An instance that serves has its tables, its buckets, the thumbnails readable, and an
\* account when a password is configured, whatever failed while it started.
ServingIsReady ==
    \A i \in Instance :
        /\ pc[i] \in InBuckets \cup {"serving"} => db.tables /\ (conf[i] # None => db.account # None)
        /\ pc[i] = "serving" => buckets = {"videos", "thumbnails"} /\ public

\* "Changing the password there and restarting updates it" (README.md): once every container
\* was recreated with the password in the environment and serves, it is the account's, in
\* whatever order they were recreated, crashed and started in between.
PasswordIsCurrent ==
    env # None /\ (\A i \in Instance : conf[i] = env /\ pc[i] = "serving") => db.account = env

\* To the other instances the upgrade and the account are one step, which ends with the
\* password of the instance that took it: the second one waits "until the first has
\* committed, and it then finds nothing left to do" (run_migrations).
Atomic == INSTANCE AtomicStart WITH
    migrated <- {i \in Instance : pc[i] \in InBuckets \cup {"serving"}},
    serving <- {i \in Instance : pc[i] = "serving"}
StartsAtomically == Atomic!Spec

\* All instances serve in the end, though their attempts may be used up while a service is
\* down, one may be killed with the lock, and both may make a bucket at once.
AllServe == <>[](\A i \in Instance : pc[i] = "serving")
=============================================================================
