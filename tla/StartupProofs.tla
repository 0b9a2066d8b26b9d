---------------------------- MODULE StartupProofs ----------------------------
(***************************************************************************)
(* What holds while any number of instances start, with any number of      *)
(* attempts, restarts, outages and changes of the password.                *)
(***************************************************************************)
EXTENDS Startup, TLAPS

Past == InBuckets \cup {"serving"}

\* One transaction at most has the lock, and it is one that is under way.
OneHolder ==
    /\ \A i, j \in locked : i = j
    /\ \A i \in locked : pc[i] \in InTx

\* A transaction does nothing before its upgrade, and not before the lock.
TxBegins ==
    \A i \in Instance :
        /\ pc[i] \notin {"account", "commit"} => tx[i] = NoTx
        /\ pc[i] = "account" => tx[i].account = None /\ ~tx[i].insert

\* What is about to be committed leaves the account with the password of the instance, if
\* it has one.
CommitsConf ==
    \A i \in Instance :
        pc[i] = "commit" /\ i \in locked =>
            (IF tx[i].account = None THEN db.account ELSE tx[i].account)
                = (IF conf[i] = None THEN db.account ELSE conf[i])

\* The buckets are made in their order.
BucketsInOrder ==
    \A i \in Instance :
        /\ pc[i] \in {"check", "make"} /\ bucket[i] = "thumbnails" => "videos" \in buckets
        /\ pc[i] = "policy" => {"videos", "thumbnails"} \subseteq buckets

\* Why the password is current: whatever password all instances started with is the account's.
PasswordIsShared ==
    \A p \in Password :
        (\A i \in Instance : conf[i] = p /\ pc[i] \in Past) => db.account = p

TxSafe == OneHolder /\ TxBegins /\ CommitsFit /\ CommitsConf
StoreSafe == BucketsInOrder /\ ServingIsReady /\ PasswordIsShared
StartInv == TypeOK /\ TxSafe /\ StoreSafe

USE DEF InTx, InBuckets, Past, stores, world

Labels == {"down", "lock", "serving"} \cup InTx \cup InBuckets
Tx == [tables : BOOLEAN, account : Password \cup {None}, insert : BOOLEAN]
Budget == [changes : 0 .. MaxChanges, restarts : 0 .. MaxRestarts, outages : 0 .. MaxOutages]

-----------------------------------------------------------------------------
(* What the parts that actions are made of do. *)

LEMMA GotoMoves ==
    ASSUME TypeOK, NEW i \in Instance, NEW l \in Labels, Goto(i, l)
    PROVE  /\ pc' \in [Instance -> Labels] /\ pc'[i] = l
           /\ \A j \in Instance \ {i} : pc'[j] = pc[j]
  BY DEF TypeOK, Goto, Labels

LEMMA ResetTyped ==
    ASSUME TypeOK, NEW i \in Instance, Reset(i)
    PROVE  tx' \in [Instance -> Tx]
<1>1. NoTx \in Tx
  BY DEF NoTx, Tx
<1> QED
  BY <1>1 DEF TypeOK, Reset, Tx

\* A retry goes back to the beginning of its step, and to its first bucket.
LEMMA RetryMoves ==
    ASSUME TypeOK, NEW i \in Instance, AgainOrDown(i)
    PROVE  /\ pc' \in [Instance -> Labels] /\ \A j \in Instance \ {i} : pc'[j] = pc[j]
           /\ pc'[i] \in {"lock", "down"} \/ (pc'[i] = "check" /\ pc[i] \in InBuckets)
           /\ bucket' = [bucket EXCEPT ![i] = "videos"]
           /\ tries' \in [Instance -> 0 .. ATTEMPTS]
<1>1. tries \in [Instance -> 0 .. ATTEMPTS] /\ ATTEMPTS \in Nat
  BY AttemptsAssumption DEF TypeOK
<1>2. CASE tries[i] < ATTEMPTS
  <2>1. tries' = [tries EXCEPT ![i] = tries[i] + 1]
        /\ Goto(i, IF pc[i] \in InBuckets THEN "check" ELSE "lock")
    BY <1>2 DEF AgainOrDown
  <2>2. tries[i] + 1 \in 0 .. ATTEMPTS
    BY <1>1, <1>2
  <2> QED
    BY <1>1, <2>1, <2>2, GotoMoves DEF AgainOrDown, Labels
<1>3. CASE ~(tries[i] < ATTEMPTS)
  BY <1>1, <1>3, GotoMoves DEF AgainOrDown, Labels
<1> QED
  BY <1>2, <1>3

LEMMA SpendTyped ==
    ASSUME TypeOK, \/ Spend("changes", MaxChanges) \/ Spend("restarts", MaxRestarts)
                   \/ Spend("outages", MaxOutages)
    PROVE  budget' \in Budget
<1>1. budget \in Budget /\ MaxChanges \in Nat /\ MaxRestarts \in Nat /\ MaxOutages \in Nat
  BY BoundsAssumption DEF TypeOK, Budget
<1>2. CASE Spend("changes", MaxChanges)
  BY <1>1, <1>2 DEF Spend, Budget
<1>3. CASE Spend("restarts", MaxRestarts)
  BY <1>1, <1>3 DEF Spend, Budget
<1>4. CASE Spend("outages", MaxOutages)
  BY <1>1, <1>4 DEF Spend, Budget
<1> QED
  BY <1>2, <1>3, <1>4

-----------------------------------------------------------------------------
(* The types. *)

LEMMA TypesStay ==
    ASSUME TypeOK, [Next]_vars
    PROVE  TypeOK'
<1>0. /\ pc \in [Instance -> Labels] /\ tx \in [Instance -> Tx] /\ budget \in Budget
      /\ bucket \in [Instance -> {"videos", "thumbnails"}] /\ tries \in [Instance -> 0 .. ATTEMPTS]
      /\ locked \subseteq Instance /\ 1 \in 0 .. ATTEMPTS
  BY AttemptsAssumption DEF TypeOK, Labels, Tx, Budget
<1> DEFINE Rest == UNCHANGED <<world, stores>>
<1> DEFINE Runs == /\ pc' \in [Instance -> Labels] /\ tx' \in [Instance -> Tx]
                   /\ bucket' \in [Instance -> {"videos", "thumbnails"}]
                   /\ tries' \in [Instance -> 0 .. ATTEMPTS] /\ locked' \subseteq Instance
<1> DEFINE Stores == /\ db' \in [tables : BOOLEAN, account : Password \cup {None}]
                     /\ buckets' \subseteq {"videos", "thumbnails"} /\ public' \in BOOLEAN
<1>1. Runs /\ Rest => TypeOK'
  BY DEF TypeOK, Labels, Tx
<1>2. ASSUME NEW i \in Instance, Boot(i) PROVE TypeOK'
  BY <1>0, <1>1, <1>2, GotoMoves DEF Boot, Labels
<1>3. ASSUME NEW i \in Instance, Lock(i) PROVE TypeOK'
  BY <1>0, <1>1, <1>3, GotoMoves DEF Lock, Labels
<1>4. ASSUME NEW i \in Instance, Upgrade(i) PROVE TypeOK'
  <2>1. [tx[i] EXCEPT !.tables = ~db.tables] \in Tx
    BY <1>0 DEF Tx
  <2>2. tx' \in [Instance -> Tx]
    BY <1>0, <1>4, <2>1 DEF Upgrade
  <2> QED
    BY <1>0, <1>1, <1>4, <2>2, GotoMoves DEF Upgrade, Labels
<1>5. ASSUME NEW i \in Instance, EnsureAdmin(i) PROVE TypeOK'
  <2>1. conf[i] \in Password \cup {None} /\ (db.account = None) \in BOOLEAN
    BY DEF TypeOK
  <2>2. [tx[i] EXCEPT !.account = conf[i], !.insert = (db.account = None)] \in Tx
    BY <1>0, <2>1 DEF Tx
  <2>3. tx' \in [Instance -> Tx]
    BY <1>0, <1>5, <2>2 DEF EnsureAdmin
  <2> QED
    BY <1>0, <1>1, <1>5, <2>3, GotoMoves DEF EnsureAdmin, Labels
<1>6. ASSUME NEW i \in Instance, Committed(i)
      PROVE  /\ db' \in [tables : BOOLEAN, account : Password \cup {None}]
             /\ tx' \in [Instance -> Tx] /\ locked' \subseteq Instance
  BY <1>0, <1>6, ResetTyped DEF Committed, Unlock, TypeOK, Tx
<1>7. ASSUME NEW i \in Instance, Commit(i) PROVE TypeOK'
  <2>1. Runs /\ Stores
    BY <1>0, <1>6, <1>7, GotoMoves DEF Commit, Labels, TypeOK
  <2> QED
    BY <1>7, <2>1 DEF Commit, TypeOK, Labels, Tx
<1>8. ASSUME NEW i \in Instance, BucketExists(i) \/ MakeBucket(i) \/ SetPolicy(i) PROVE TypeOK'
  <2>1. pc' \in [Instance -> Labels]
    BY <1>8, GotoMoves DEF BucketExists, MakeBucket, SetPolicy, NextBucket, Labels
  <2>2. bucket' \in [Instance -> {"videos", "thumbnails"}]
    BY <1>0, <1>8 DEF BucketExists, MakeBucket, SetPolicy, NextBucket
  <2>3. buckets' \subseteq {"videos", "thumbnails"} /\ public' \in BOOLEAN
    BY <1>0, <1>8 DEF BucketExists, MakeBucket, SetPolicy, TypeOK
  <2>4. UNCHANGED <<world, db, locked, tx, tries>>
    BY <1>8 DEF BucketExists, MakeBucket, SetPolicy
  <2> QED
    BY <2>1, <2>2, <2>3, <2>4 DEF TypeOK, Labels
<1>9. ASSUME NEW i \in Instance, Fails(i) PROVE TypeOK'
  BY <1>0, <1>1, <1>9, RetryMoves, ResetTyped DEF Fails, Unlock
<1>10. ASSUME NEW i \in Instance, CommitUnheard(i) PROVE TypeOK'
  <2>1. Runs /\ Stores
    BY <1>0, <1>6, <1>10, RetryMoves DEF CommitUnheard, TypeOK
  <2>2. budget' \in Budget
    BY <1>10, SpendTyped DEF CommitUnheard
  <2> QED
    BY <1>10, <2>1, <2>2 DEF CommitUnheard, TypeOK, Labels, Tx, Budget
<1>11. ASSUME NEW i \in Instance, Crash(i) \/ Recreate(i) PROVE TypeOK'
  <2>1. End(i) /\ conf' \in [Instance -> Password \cup {None}]
    BY <1>11 DEF Crash, Recreate, TypeOK
  <2>2. Runs
    BY <1>0, <2>1, ResetTyped, GotoMoves DEF End, Unlock, Labels
  <2>3. budget' \in Budget
    BY <2>1, SpendTyped DEF End
  <2> QED
    BY <2>1, <2>2, <2>3 DEF End, TypeOK, Labels, Tx, Budget
<1>12. ASSUME NEW p \in Password, ChangePassword(p) PROVE TypeOK'
  <2>1. budget' \in Budget /\ env' \in Password \cup {None}
    BY <1>12, SpendTyped DEF ChangePassword
  <2> QED
    BY <1>12, <2>1 DEF ChangePassword, TypeOK, Budget
<1>13. ASSUME NEW s \in {"postgres", "minio"}, Outage(s) \/ Recover(s) PROVE TypeOK'
  <2>1. budget' \in Budget
    BY <1>0, <1>13, SpendTyped DEF Outage, Recover
  <2>2. up' \subseteq {"postgres", "minio"} /\ locked' \subseteq Instance
    BY <1>13 DEF Outage, Recover, TypeOK
  <2>3. UNCHANGED <<stores, env, pc, conf, tx, bucket, tries>>
    BY <1>13 DEF Outage, Recover
  <2> QED
    BY <2>1, <2>2, <2>3 DEF TypeOK, Budget
<1>14. CASE UNCHANGED vars
  BY <1>14 DEF vars, TypeOK
<1> QED
  BY <1>2, <1>3, <1>4, <1>5, <1>7, <1>8, <1>9, <1>10, <1>11, <1>12, <1>13, <1>14 DEF Next, Step

LEMMA InitStarts == Init => StartInv
<1> SUFFICES ASSUME Init
             PROVE  StartInv
  OBVIOUS
<1>1. TypeOK
  <2>1. tx \in [Instance -> Tx]
    BY DEF Init, NoTx, Tx
  <2>2. tries \in [Instance -> 0 .. ATTEMPTS]
    BY AttemptsAssumption DEF Init
  <2>3. budget \in Budget
    BY BoundsAssumption DEF Init, Budget
  <2> QED
    BY <2>1, <2>2, <2>3 DEF Init, TypeOK, Tx, Budget
<1>2. OneHolder /\ TxBegins /\ CommitsFit /\ CommitsConf /\ BucketsInOrder /\ ServingIsReady
  BY DEF Init, OneHolder, TxBegins, CommitsFit, CommitsConf, BucketsInOrder, ServingIsReady
<1>3. PasswordIsShared
  BY InstanceAssumption DEF Init, PasswordIsShared
<1> QED
  BY <1>1, <1>2, <1>3 DEF StartInv, TxSafe, StoreSafe

-----------------------------------------------------------------------------
(* The transactions. *)

\* The instance has no transaction after the step, and if the step changed the database, it
\* had the lock.
OutOfTx(i) ==
    /\ locked' = locked \ {i}
    /\ tx' = [tx EXCEPT ![i] = NoTx]
    /\ pc'[i] \notin InTx
    /\ \A j \in Instance \ {i} : pc'[j] = pc[j] /\ conf'[j] = conf[j]
    /\ i \notin locked => db' = db

LEMMA OutOfTxIsSafe ==
    ASSUME TypeOK, TxSafe, NEW i \in Instance, OutOfTx(i)
    PROVE  TxSafe'
<1>1. ASSUME NEW j \in locked'
      PROVE  /\ j \in locked /\ j # i
             /\ pc'[j] = pc[j] /\ conf'[j] = conf[j] /\ tx'[j] = tx[j] /\ db' = db
  <2>1. j \in Instance /\ j \in locked /\ j # i
    BY DEF OutOfTx, TypeOK
  <2>2. i \notin locked
    BY <2>1 DEF TxSafe, OneHolder
  <2> QED
    BY <2>1, <2>2 DEF OutOfTx, TypeOK
<1>2. OneHolder'
  BY <1>1 DEF TxSafe, OneHolder
<1>3. TxBegins'
  <2>1. ASSUME NEW j \in Instance
        PROVE  IF j = i THEN tx'[j] = NoTx ELSE tx'[j] = tx[j] /\ pc'[j] = pc[j]
    BY DEF OutOfTx, TypeOK
  <2> QED
    BY <2>1 DEF OutOfTx, TxSafe, TxBegins, NoTx
<1>4. CommitsFit'
  BY <1>1 DEF TxSafe, CommitsFit
<1>5. CommitsConf'
  BY <1>1 DEF TxSafe, CommitsConf
<1> QED
  BY <1>2, <1>3, <1>4, <1>5 DEF TxSafe

\* An instance that is not in the transaction has no lock and nothing in its transaction.
LEMMA OutsideTx ==
    ASSUME TypeOK, TxSafe, NEW i \in Instance, pc[i] \notin InTx
    PROVE  i \notin locked /\ locked = locked \ {i} /\ tx = [tx EXCEPT ![i] = NoTx]
<1>1. i \notin locked /\ tx[i] = NoTx
  BY DEF TxSafe, OneHolder, TxBegins
<1> QED
  BY <1>1 DEF TypeOK

\* A step inside the transaction changes nothing but the transaction.
LEMMA InsideTxIsSafe ==
    ASSUME TypeOK, TxSafe, NEW i \in Instance, Lock(i) \/ Upgrade(i) \/ EnsureAdmin(i)
    PROVE  TxSafe'
<1>0. /\ pc \in [Instance -> Labels] /\ locked' = {i} /\ db' = db /\ conf' = conf
      /\ \A j \in Instance \ {i} : pc'[j] = pc[j] /\ tx'[j] = tx[j]
  BY DEF Lock, Upgrade, EnsureAdmin, Goto, TypeOK, Labels, TxSafe, OneHolder
\* So that it is the only transaction to look at.
<1> DEFINE Begins == /\ pc'[i] \notin {"account", "commit"} => tx'[i] = NoTx
                     /\ pc'[i] = "account" => tx'[i].account = None /\ ~tx'[i].insert
<1> DEFINE Fits == /\ tx'[i].tables => ~db.tables
                   /\ tx'[i].insert => db.account = None
                   /\ pc'[i] # "upgrade" => db.tables \/ tx'[i].tables
<1> DEFINE Conf == pc'[i] = "commit" =>
                       (IF tx'[i].account = None THEN db.account ELSE tx'[i].account)
                           = (IF conf[i] = None THEN db.account ELSE conf[i])
<1>1. ASSUME pc'[i] \in InTx, Begins, Fits, Conf PROVE TxSafe'
  <2>1. OneHolder'
    BY <1>0, <1>1 DEF OneHolder
  <2>2. TxBegins'
    <3>1. ASSUME NEW j \in Instance \ {i}
          PROVE  /\ pc'[j] \notin {"account", "commit"} => tx'[j] = NoTx
                 /\ pc'[j] = "account" => tx'[j].account = None /\ ~tx'[j].insert
      <4>1. pc'[j] = pc[j] /\ tx'[j] = tx[j]
        BY <1>0
      <4> QED
        BY <4>1 DEF TxSafe, TxBegins
    <3>2. NoTx' = NoTx
      BY DEF NoTx
    <3> QED
      BY <1>1, <3>1, <3>2 DEF TxBegins
  <2>3. CommitsFit'
    BY <1>0, <1>1 DEF CommitsFit
  <2>4. CommitsConf'
    BY <1>0, <1>1 DEF CommitsConf
  <2> QED
    BY <2>1, <2>2, <2>3, <2>4 DEF TxSafe
<1>2. CASE Lock(i)
  <2>1. pc'[i] = "upgrade" /\ tx'[i] = NoTx
    BY <1>2, OutsideTx DEF Lock, Goto, TypeOK, TxSafe, TxBegins
  <2> QED
    BY <1>1, <2>1 DEF NoTx
<1>3. CASE Upgrade(i)
  <2>1. pc'[i] = "account" /\ tx[i] = NoTx /\ tx'[i] = [NoTx EXCEPT !.tables = ~db.tables]
    BY <1>3 DEF Upgrade, Goto, TypeOK, TxSafe, TxBegins
  <2>2. tx'[i].tables = ~db.tables /\ tx'[i].account = None /\ ~tx'[i].insert
    BY <2>1 DEF NoTx
  <2> QED
    BY <1>1, <2>1, <2>2
<1>4. CASE EnsureAdmin(i)
  <2>1. /\ pc[i] = "account" /\ pc'[i] = "commit"
        /\ tx[i].account = None /\ ~tx[i].insert
    BY <1>4 DEF EnsureAdmin, Goto, TypeOK, TxSafe, TxBegins
  <2>2. /\ tx[i].tables => ~db.tables
        /\ db.tables \/ tx[i].tables
    BY <1>4, <2>1 DEF EnsureAdmin, TxSafe, CommitsFit
  <2>3. \/ /\ conf[i] \in {None, db.account} /\ tx'[i] = tx[i]
        \/ /\ tx'[i].tables = tx[i].tables /\ tx'[i].account = conf[i]
           /\ tx'[i].insert = (db.account = None) /\ conf[i] # None
    BY <1>4 DEF EnsureAdmin, TypeOK
  <2> QED
    BY <1>1, <2>1, <2>2, <2>3
<1> QED
  BY <1>2, <1>3, <1>4

\* What a COMMIT leaves: the tables, and the password of the instance.
LEMMA CommitLeaves ==
    ASSUME TxSafe, NEW i \in Instance, Committed(i)
    PROVE  db' = [tables |-> TRUE, account |-> IF conf[i] = None THEN db.account ELSE conf[i]]
  BY DEF TxSafe, CommitsFit, CommitsConf, Committed

-----------------------------------------------------------------------------
(* What the services keep. *)

\* A step of one instance that takes nothing away from the services.
OnlyAdds(i) ==
    /\ \A j \in Instance \ {i} : pc'[j] = pc[j] /\ conf'[j] = conf[j] /\ bucket'[j] = bucket[j]
    /\ buckets \subseteq buckets' /\ buckets' \subseteq {"videos", "thumbnails"}
    /\ public => public'
    /\ db.tables => db'.tables
    /\ db.account # None => db'.account # None

\* An instance that is not through with the migration says nothing about the services.
LEMMA StartsAgain ==
    ASSUME StoreSafe, NEW i \in Instance, OnlyAdds(i), pc'[i] \notin Past
    PROVE  StoreSafe'
<1>1. BucketsInOrder'
  BY DEF StoreSafe, BucketsInOrder, OnlyAdds
<1>2. ServingIsReady'
  BY DEF StoreSafe, ServingIsReady, OnlyAdds
<1>3. PasswordIsShared'
  BY DEF PasswordIsShared
<1> QED
  BY <1>1, <1>2, <1>3 DEF StoreSafe

\* One that is through has to find what its next step supposes.
LEMMA GoesOn ==
    ASSUME StoreSafe, NEW i \in Instance, OnlyAdds(i),
           pc'[i] \in {"check", "make"} /\ bucket'[i] = "thumbnails" => "videos" \in buckets',
           pc'[i] \in {"policy", "serving"} => buckets' = {"videos", "thumbnails"},
           pc'[i] = "serving" => public',
           db'.tables,
           conf'[i] # None => db'.account # None
    PROVE  BucketsInOrder' /\ ServingIsReady'
<1>1. BucketsInOrder'
  BY DEF StoreSafe, BucketsInOrder, OnlyAdds
<1>2. ServingIsReady'
  BY DEF StoreSafe, ServingIsReady, OnlyAdds
<1> QED
  BY <1>1, <1>2

-----------------------------------------------------------------------------
(* The steps. *)

LEMMA BootStarts ==
    ASSUME StartInv, NEW i \in Instance, Boot(i)
    PROVE  TxSafe' /\ StoreSafe'
<1>1. /\ pc'[i] = "lock" /\ \A j \in Instance \ {i} : pc'[j] = pc[j]
      /\ pc[i] = "down" /\ UNCHANGED <<stores, world, locked, tx, bucket>>
  BY DEF Boot, Goto, StartInv, TypeOK
<1>2. OutOfTx(i)
  BY <1>1, OutsideTx DEF OutOfTx, StartInv
<1>3. OnlyAdds(i)
  BY <1>1 DEF OnlyAdds, StartInv, TypeOK
<1> QED
  BY <1>1, <1>2, <1>3, OutOfTxIsSafe, StartsAgain DEF StartInv

LEMMA InsideTxStarts ==
    ASSUME StartInv, NEW i \in Instance, Lock(i) \/ Upgrade(i) \/ EnsureAdmin(i)
    PROVE  TxSafe' /\ StoreSafe'
<1>1. /\ pc'[i] \in InTx /\ \A j \in Instance \ {i} : pc'[j] = pc[j]
      /\ UNCHANGED <<stores, world, bucket>>
  BY DEF Lock, Upgrade, EnsureAdmin, Goto, StartInv, TypeOK
<1>2. OnlyAdds(i)
  BY <1>1 DEF OnlyAdds, StartInv, TypeOK
<1> QED
  BY <1>1, <1>2, InsideTxIsSafe, StartsAgain DEF StartInv

LEMMA CommitStarts ==
    ASSUME StartInv, NEW i \in Instance, Commit(i)
    PROVE  TxSafe' /\ StoreSafe'
<1>1. /\ pc'[i] = "check" /\ \A j \in Instance \ {i} : pc'[j] = pc[j]
      /\ bucket'[i] = "videos" /\ \A j \in Instance \ {i} : bucket'[j] = bucket[j]
      /\ UNCHANGED <<world, buckets, public>> /\ Committed(i)
  BY DEF Commit, Goto, StartInv, TypeOK
<1>2. OutOfTx(i)
  BY <1>1 DEF OutOfTx, Committed, Unlock, Reset
<1>3. db'.tables /\ (conf[i] # None => db'.account = conf[i])
  BY <1>1, CommitLeaves DEF StartInv
<1>4. db.account # None => db'.account # None
  BY <1>1 DEF Committed
<1>5. OnlyAdds(i)
  BY <1>1, <1>3, <1>4 DEF OnlyAdds, StartInv, TypeOK
<1>6. BucketsInOrder' /\ ServingIsReady'
  BY <1>1, <1>3, <1>5, GoesOn DEF StartInv
<1>7. PasswordIsShared'
  BY <1>1, <1>3, NoneAssumption DEF PasswordIsShared
<1> QED
  BY <1>2, <1>6, <1>7, OutOfTxIsSafe DEF StartInv, StoreSafe

LEMMA BucketStarts ==
    ASSUME StartInv, NEW i \in Instance, BucketExists(i) \/ MakeBucket(i) \/ SetPolicy(i)
    PROVE  TxSafe' /\ StoreSafe'
<1>1. /\ pc[i] \in InBuckets /\ pc'[i] \in Past
      /\ \A j \in Instance \ {i} : pc'[j] = pc[j] /\ bucket'[j] = bucket[j]
      /\ UNCHANGED <<world, db, locked, tx>>
  BY DEF BucketExists, MakeBucket, SetPolicy, NextBucket, Goto, StartInv, TypeOK
<1>2. OutOfTx(i)
  BY <1>1, OutsideTx DEF OutOfTx, StartInv
<1>3. /\ buckets \subseteq buckets' /\ buckets' \subseteq {"videos", "thumbnails"}
      /\ public => public'
  BY DEF BucketExists, MakeBucket, SetPolicy, StartInv, TypeOK
<1>4. OnlyAdds(i)
  BY <1>1, <1>3 DEF OnlyAdds
<1> DEFINE Next1 ==
      /\ pc'[i] \in {"check", "make"} /\ bucket'[i] = "thumbnails" => "videos" \in buckets'
      /\ pc'[i] \in {"policy", "serving"} => buckets' = {"videos", "thumbnails"}
      /\ pc'[i] = "serving" => public'
<1>5. bucket[i] \in {"videos", "thumbnails"} /\ pc \in [Instance -> Labels]
      /\ bucket \in [Instance -> {"videos", "thumbnails"}]
  BY DEF StartInv, TypeOK, Labels
<1>6. ASSUME NextBucket(i), bucket[i] \in buckets',
             bucket[i] = "thumbnails" => "videos" \in buckets
      PROVE  Next1
  <2>1. /\ bucket'[i] = "thumbnails"
        /\ pc'[i] = IF bucket[i] = "videos" THEN "check" ELSE "policy"
    BY <1>5, <1>6 DEF NextBucket, Goto
  <2> QED
    BY <1>3, <1>5, <1>6, <2>1
<1>7. Next1
  <2>1. CASE BucketExists(i)
    <3>1. pc[i] = "check" /\ buckets' = buckets
      BY <2>1 DEF BucketExists
    <3>2. bucket[i] = "thumbnails" => "videos" \in buckets
      BY <3>1 DEF StartInv, StoreSafe, BucketsInOrder
    <3>3. CASE bucket[i] \in buckets
      BY <1>6, <2>1, <3>1, <3>2, <3>3 DEF BucketExists
    <3>4. CASE bucket[i] \notin buckets
      <4>1. pc'[i] = "make" /\ bucket' = bucket
        BY <1>5, <2>1, <3>4 DEF BucketExists, Goto
      <4> QED
        BY <3>1, <3>2, <4>1
    <3> QED
      BY <3>3, <3>4
  <2>2. CASE MakeBucket(i)
    BY <1>6, <2>2 DEF MakeBucket, StartInv, StoreSafe, BucketsInOrder
  <2>3. CASE SetPolicy(i)
    <3>1. pc[i] = "policy" /\ pc'[i] = "serving" /\ public' /\ buckets' = buckets
      BY <1>5, <2>3 DEF SetPolicy, Goto
    <3> QED
      BY <1>3, <3>1 DEF StartInv, StoreSafe, BucketsInOrder
  <2> QED
    BY <2>1, <2>2, <2>3
<1>8. db'.tables /\ (conf'[i] # None => db'.account # None)
  BY <1>1 DEF StartInv, StoreSafe, ServingIsReady
<1>9. BucketsInOrder' /\ ServingIsReady'
  BY <1>4, <1>7, <1>8, GoesOn DEF StartInv
<1>10. PasswordIsShared'
  BY <1>1 DEF StartInv, StoreSafe, PasswordIsShared
<1> QED
  BY <1>2, <1>9, <1>10, OutOfTxIsSafe DEF StartInv, StoreSafe

LEMMA FailsStarts ==
    ASSUME StartInv, NEW i \in Instance, Fails(i)
    PROVE  TxSafe' /\ StoreSafe'
<1>1. /\ pc'[i] \in {"lock", "down"} \/ (pc'[i] = "check" /\ pc[i] \in InBuckets)
      /\ bucket'[i] = "videos"
      /\ \A j \in Instance \ {i} : pc'[j] = pc[j] /\ bucket'[j] = bucket[j]
      /\ UNCHANGED <<stores, world>>
  BY RetryMoves DEF Fails, StartInv, TypeOK
<1>2. OutOfTx(i)
  BY <1>1 DEF OutOfTx, Fails, Unlock, Reset
<1>3. OnlyAdds(i)
  BY <1>1 DEF OnlyAdds, StartInv, TypeOK
<1>4. CASE pc'[i] \in {"lock", "down"}
  BY <1>2, <1>3, <1>4, OutOfTxIsSafe, StartsAgain DEF StartInv
<1>5. CASE pc'[i] = "check" /\ pc[i] \in InBuckets
  <2>1. db'.tables /\ (conf'[i] # None => db'.account # None)
    BY <1>1, <1>5 DEF StartInv, StoreSafe, ServingIsReady
  <2>2. BucketsInOrder' /\ ServingIsReady'
    BY <1>1, <1>3, <1>5, <2>1, GoesOn DEF StartInv
  <2>3. PasswordIsShared'
    BY <1>1, <1>5 DEF StartInv, StoreSafe, PasswordIsShared
  <2> QED
    BY <1>2, <2>2, <2>3, OutOfTxIsSafe DEF StartInv, StoreSafe
<1> QED
  BY <1>1, <1>4, <1>5

LEMMA CommitUnheardStarts ==
    ASSUME StartInv, NEW i \in Instance, CommitUnheard(i)
    PROVE  TxSafe' /\ StoreSafe'
<1>1. /\ Committed(i) /\ pc[i] = "commit" /\ pc'[i] \in {"lock", "down"}
      /\ \A j \in Instance \ {i} : pc'[j] = pc[j] /\ bucket'[j] = bucket[j]
      /\ UNCHANGED <<conf, buckets, public>>
  BY RetryMoves DEF CommitUnheard, Committed, StartInv, TypeOK
<1>2. OutOfTx(i)
  BY <1>1 DEF OutOfTx, Committed, Unlock, Reset
<1>3. db'.tables /\ (db.account # None => db'.account # None)
  <2>1. db'.tables
    BY <1>1, CommitLeaves DEF StartInv
  <2> QED
    BY <1>1, <2>1 DEF Committed
<1>4. OnlyAdds(i)
  BY <1>1, <1>3 DEF OnlyAdds, StartInv, TypeOK
<1> QED
  BY <1>1, <1>2, <1>4, OutOfTxIsSafe, StartsAgain DEF StartInv

LEMMA EndStarts ==
    ASSUME StartInv, NEW i \in Instance, Crash(i) \/ Recreate(i)
    PROVE  TxSafe' /\ StoreSafe'
<1>1. /\ End(i) /\ pc'[i] = "down"
      /\ \A j \in Instance \ {i} : pc'[j] = pc[j] /\ conf'[j] = conf[j]
      /\ UNCHANGED <<stores, bucket>>
  BY DEF Crash, Recreate, End, Goto, StartInv, TypeOK
<1>2. OutOfTx(i)
  BY <1>1 DEF OutOfTx, End, Unlock, Reset
<1>3. OnlyAdds(i)
  BY <1>1 DEF OnlyAdds, StartInv, TypeOK
<1> QED
  BY <1>1, <1>2, <1>3, OutOfTxIsSafe, StartsAgain DEF StartInv

\* A database that goes down takes the lock away, and nothing else.
LEMMA WorldStarts ==
    ASSUME StartInv,
           \/ \E p \in Password : ChangePassword(p)
           \/ \E s \in {"postgres", "minio"} : Outage(s) \/ Recover(s)
           \/ UNCHANGED vars
    PROVE  TxSafe' /\ StoreSafe'
<1>1. UNCHANGED <<stores, pc, conf, tx, bucket>> /\ locked' \subseteq locked
  BY DEF ChangePassword, Outage, Recover, vars
<1>2. OneHolder' /\ TxBegins' /\ CommitsFit' /\ CommitsConf'
  BY <1>1 DEF StartInv, TxSafe, OneHolder, TxBegins, CommitsFit, CommitsConf
<1>3. BucketsInOrder' /\ ServingIsReady' /\ PasswordIsShared'
  BY <1>1 DEF StartInv, StoreSafe, BucketsInOrder, ServingIsReady, PasswordIsShared
<1> QED
  BY <1>2, <1>3 DEF TxSafe, StoreSafe

LEMMA NextStarts ==
    ASSUME StartInv, [Next]_vars
    PROVE  StartInv'
<1>1. TypeOK'
  BY TypesStay DEF StartInv
<1>2. TxSafe' /\ StoreSafe'
  BY BootStarts, InsideTxStarts, CommitStarts, BucketStarts, FailsStarts, CommitUnheardStarts,
     EndStarts, WorldStarts DEF Next, Step
<1> QED
  BY <1>1, <1>2 DEF StartInv

LEMMA AlwaysStarts == Spec => []StartInv
  BY InitStarts, NextStarts, PTL DEF Spec

\* Every reachable state is well typed; no step is tried more than ATTEMPTS times (_retry).
THEOREM TypeCorrect == Spec => []TypeOK
<1>1. StartInv => TypeOK
  BY DEF StartInv
<1> QED
  BY <1>1, AlwaysStarts, PTL

\* The advisory lock of run_migrations is enough for any number of instances.
THEOREM CommitsAlwaysFit == Spec => []CommitsFit
<1>1. StartInv => CommitsFit
  BY DEF StartInv, TxSafe
<1> QED
  BY <1>1, AlwaysStarts, PTL

\* lifespan serves only with tables, buckets and an account, whatever _retry went through.
THEOREM ServingIsAlwaysReady == Spec => []ServingIsReady
<1>1. StartInv => ServingIsReady
  BY DEF StartInv, StoreSafe
<1> QED
  BY <1>1, AlwaysStarts, PTL

\* ensure_admin_user leaves the configured password when all instances were started with it.
THEOREM PasswordIsAlwaysCurrent == Spec => []PasswordIsCurrent
<1>1. StartInv => PasswordIsCurrent
  BY DEF StartInv, StoreSafe, TypeOK, PasswordIsShared, PasswordIsCurrent
<1> QED
  BY <1>1, AlwaysStarts, PTL

-----------------------------------------------------------------------------
(* The refinement of AtomicStart. *)

Migrated == {i \in Instance : pc[i] \in Past}
Serving == {i \in Instance : pc[i] = "serving"}

\* What the abstraction sees of a step of one instance.
LEMMA MigratedMoves ==
    ASSUME NEW i \in Instance, \A j \in Instance \ {i} : pc'[j] = pc[j]
    PROVE  /\ Migrated' = IF pc'[i] \in Past THEN Migrated \cup {i} ELSE Migrated \ {i}
           /\ Serving' = IF pc'[i] = "serving" THEN Serving \cup {i} ELSE Serving \ {i}
  BY DEF Migrated, Serving

LEMMA AtomicInit == Init => Atomic!Init
  BY DEF Init, Atomic!Init

\* A commit is the whole migration, heard of or not.
LEMMA CommitMigrates ==
    ASSUME StartInv, NEW i \in Instance, Commit(i) \/ CommitUnheard(i)
    PROVE  Atomic!Migrate(i)
<1>1. /\ Committed(i) /\ pc[i] = "commit" /\ UNCHANGED <<conf, buckets>>
      /\ \A j \in Instance \ {i} : pc'[j] = pc[j]
      /\ pc'[i] \in {"check", "lock", "down"}
  BY RetryMoves DEF Commit, CommitUnheard, Committed, Goto, StartInv, TypeOK
<1>2. db' = [tables |-> TRUE, account |-> IF conf[i] = None THEN db.account ELSE conf[i]]
  BY <1>1, CommitLeaves DEF StartInv
<1>3. /\ i \notin Migrated /\ i \notin Serving /\ Serving' = Serving
      /\ Migrated' \in {Migrated, Migrated \cup {i}}
  BY <1>1, MigratedMoves DEF Migrated, Serving
<1> QED
  BY <1>1, <1>2, <1>3 DEF Atomic!Migrate, Migrated, Serving

\* A step that leaves the instance on the same side of the migration is none.
LEMMA SameSideIsStutter ==
    ASSUME NEW i \in Instance, \A j \in Instance \ {i} : pc'[j] = pc[j],
           pc[i] \in Past <=> pc'[i] \in Past, pc[i] # "serving" /\ pc'[i] # "serving",
           UNCHANGED <<db, buckets, conf>>
    PROVE  UNCHANGED Atomic!vars
<1>1. Migrated' = Migrated /\ Serving' = Serving
  BY MigratedMoves DEF Migrated, Serving
<1> QED
  BY <1>1 DEF Atomic!vars, Migrated, Serving

\* One that takes it back to the beginning is a restart.
LEMMA BackIsRestart ==
    ASSUME NEW i \in Instance, \A j \in Instance \ {i} : pc'[j] = pc[j], pc'[i] \notin Past,
           UNCHANGED <<db, buckets>>,
           NEW p \in Password \cup {None}, conf' \in {conf, [conf EXCEPT ![i] = p]}
    PROVE  Atomic!Restart(i)
<1>1. Migrated' = Migrated \ {i} /\ Serving' = Serving \ {i}
  BY MigratedMoves
<1> QED
  BY <1>1 DEF Atomic!Restart, Migrated, Serving

LEMMA BucketServes ==
    ASSUME StartInv, NEW i \in Instance, BucketExists(i) \/ MakeBucket(i) \/ SetPolicy(i)
    PROVE  Atomic!Make(i) \/ Atomic!Serve(i) \/ UNCHANGED Atomic!vars
<1>1. /\ \A j \in Instance \ {i} : pc'[j] = pc[j]
      /\ UNCHANGED <<conf, db>> /\ pc[i] \in InBuckets
      /\ i \in Migrated \ Serving
      /\ bucket[i] \in {"videos", "thumbnails"}
  BY DEF BucketExists, MakeBucket, SetPolicy, NextBucket, Goto, StartInv, TypeOK, Migrated, Serving
<1>2. CASE BucketExists(i) \/ MakeBucket(i)
  <2>1. pc'[i] \in InBuckets
    BY <1>2 DEF BucketExists, MakeBucket, NextBucket, Goto, StartInv, TypeOK
  <2>2. CASE BucketExists(i)
    BY <1>1, <2>1, <2>2, SameSideIsStutter DEF BucketExists
  <2>3. CASE MakeBucket(i)
    <3>1. Migrated' = Migrated /\ Serving' = Serving
      BY <1>1, <2>1, MigratedMoves
    <3>2. \E b \in {"videos", "thumbnails"} \ buckets : buckets' = buckets \cup {b}
      BY <1>1, <2>3 DEF MakeBucket
    <3> QED
      BY <1>1, <3>1, <3>2 DEF Atomic!Make, Migrated, Serving
  <2> QED
    BY <1>2, <2>2, <2>3
<1>3. CASE SetPolicy(i)
  <2>1. pc[i] = "policy" /\ pc'[i] = "serving" /\ UNCHANGED buckets
    BY <1>3 DEF SetPolicy, Goto, StartInv, TypeOK
  <2>2. Migrated' = Migrated /\ Serving' = Serving \cup {i}
    BY <1>1, <2>1, MigratedMoves
  <2>3. buckets = {"videos", "thumbnails"}
    BY <2>1 DEF StartInv, StoreSafe, BucketsInOrder, TypeOK
  <2> QED
    BY <1>1, <2>1, <2>2, <2>3 DEF Atomic!Serve, Migrated, Serving
<1> QED
  BY <1>2, <1>3

LEMMA NextIsAtomic ==
    ASSUME StartInv, [Next]_vars
    PROVE  [Atomic!Next]_Atomic!vars
<1>1. ASSUME NEW i \in Instance, Boot(i) \/ Lock(i) \/ Upgrade(i) \/ EnsureAdmin(i)
      PROVE  UNCHANGED Atomic!vars
  <2>1. /\ \A j \in Instance \ {i} : pc'[j] = pc[j]
        /\ pc[i] \notin Past /\ pc'[i] \notin Past /\ UNCHANGED <<db, buckets, conf>>
    BY <1>1 DEF Boot, Lock, Upgrade, EnsureAdmin, Goto, StartInv, TypeOK
  <2> QED
    BY <2>1, SameSideIsStutter
<1>2. ASSUME NEW i \in Instance, Commit(i) \/ CommitUnheard(i) PROVE Atomic!Next
  BY <1>2, CommitMigrates DEF Atomic!Next
<1>3. ASSUME NEW i \in Instance, BucketExists(i) \/ MakeBucket(i) \/ SetPolicy(i)
      PROVE  [Atomic!Next]_Atomic!vars
  BY <1>3, BucketServes DEF Atomic!Next
<1>4. ASSUME NEW i \in Instance, Fails(i) PROVE [Atomic!Next]_Atomic!vars
  <2>1. /\ pc'[i] \in {"lock", "down"} \/ (pc'[i] = "check" /\ pc[i] \in InBuckets)
        /\ \A j \in Instance \ {i} : pc'[j] = pc[j]
        /\ UNCHANGED <<db, buckets, conf>>
    BY <1>4, RetryMoves DEF Fails, StartInv
  <2>2. CASE pc'[i] \in {"lock", "down"}
    BY <2>1, <2>2, BackIsRestart DEF Atomic!Next
  <2>3. CASE pc'[i] = "check" /\ pc[i] \in InBuckets
    BY <2>1, <2>3, SameSideIsStutter
  <2> QED
    BY <2>1, <2>2, <2>3
<1>5. ASSUME NEW i \in Instance, Crash(i) \/ Recreate(i) PROVE Atomic!Next
  <2>1. /\ \A j \in Instance \ {i} : pc'[j] = pc[j]
        /\ pc'[i] = "down" /\ UNCHANGED <<db, buckets>>
        /\ env \in Password \cup {None} /\ conf' \in {conf, [conf EXCEPT ![i] = env]}
    BY <1>5 DEF Crash, Recreate, End, Goto, StartInv, TypeOK
  <2> QED
    BY <2>1, BackIsRestart DEF Atomic!Next
<1>6. CASE \/ \E p \in Password : ChangePassword(p)
           \/ \E s \in {"postgres", "minio"} : Outage(s) \/ Recover(s)
           \/ UNCHANGED vars
  BY <1>6 DEF ChangePassword, Outage, Recover, vars, Atomic!vars
<1> QED
  BY <1>1, <1>2, <1>3, <1>4, <1>5, <1>6 DEF Next, Step

\* The advisory lock and the order of lifespan make a start with its retries, its crashes and
\* its lost replies look like one atomic migration, for any number of instances.
THEOREM StartupIsAtomic == Spec => StartsAtomically
  BY AtomicInit, NextIsAtomic, AlwaysStarts, PTL DEF Spec, StartsAtomically, Atomic!Spec
=============================================================================
