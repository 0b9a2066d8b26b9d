----------------------------- MODULE AtomicStart -----------------------------
(***************************************************************************)
(* What the start of an instance promises to the others: the migration and *)
(* the account are one step, that nobody sees half done, and what it leaves *)
(* is the password the instance was created with.  An instance serves only *)
(* after such a step of its own, with both buckets there.                  *)
(***************************************************************************)
CONSTANTS Instance, Password, None

VARIABLES
    db,        \* are the tables there, the password of the account
    buckets,   \* those that exist
    conf,      \* the password an instance was created with
    migrated,  \* the instances that are through with the migration
    serving    \* those that serve

vars == <<db, buckets, conf, migrated, serving>>

Init ==
    /\ db = [tables |-> FALSE, account |-> None]
    /\ buckets = {}
    /\ \E p \in Password \cup {None} : conf = [i \in Instance |-> p]
    /\ migrated = {}
    /\ serving = {}

\* Whether the instance hears of it or not: then it does it again.
Migrate(i) ==
    /\ i \notin migrated
    /\ db' = [tables |-> TRUE, account |-> IF conf[i] = None THEN db.account ELSE conf[i]]
    /\ migrated' \in {migrated, migrated \cup {i}}
    /\ UNCHANGED <<buckets, conf, serving>>

Make(i) ==
    /\ i \in migrated \ serving
    /\ \E b \in {"videos", "thumbnails"} \ buckets : buckets' = buckets \cup {b}
    /\ UNCHANGED <<db, conf, migrated, serving>>

Serve(i) ==
    /\ i \in migrated \ serving
    /\ buckets = {"videos", "thumbnails"}
    /\ serving' = serving \cup {i}
    /\ UNCHANGED <<db, buckets, conf, migrated>>

\* Its process ended, and its container starts again, as it was or with another password.
Restart(i) ==
    /\ migrated' = migrated \ {i}
    /\ serving' = serving \ {i}
    /\ \E p \in Password \cup {None} : conf' \in {conf, [conf EXCEPT ![i] = p]}
    /\ UNCHANGED <<db, buckets>>

Next == \E i \in Instance : Migrate(i) \/ Make(i) \/ Serve(i) \/ Restart(i)

Spec == Init /\ [][Next]_vars
=============================================================================
