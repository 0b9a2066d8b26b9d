------------------------- MODULE CatalogPageProofs -------------------------
(***************************************************************************)
(* An open page ends up with what the catalog has, for any number of       *)
(* videos, changes, visits and faults: no change that reaches its stream   *)
(* is forgotten, and an older answer never replaces a newer one on the     *)
(* video page.                                                             *)
(***************************************************************************)
EXTENDS CatalogPage, SequenceTheorems, TLAPS

-----------------------------------------------------------------------------
(* The elements of a sequence. *)

LEMMA ElementsOf ==
    ASSUME NEW S, NEW s \in Seq(S)
    PROVE  /\ Len(s) \in Nat /\ DOMAIN s = 1 .. Len(s)
           /\ \A i \in 1 .. Len(s) : s[i] \in S /\ s[i] \in ToSet(s)
           /\ \A e : e \in ToSet(s) <=> \E i \in 1 .. Len(s) : s[i] = e
           /\ ToSet(s) \subseteq S
<1>1. Len(s) \in Nat /\ DOMAIN s = 1 .. Len(s) /\ \A i \in 1 .. Len(s) : s[i] \in S
    OBVIOUS
<1>2. QED
    BY <1>1 DEF ToSet

LEMMA ElementsUpTo ==
    ASSUME NEW S, NEW s \in Seq(S), NEW n, Len(s) = n
    PROVE  \A e : e \in ToSet(s) <=> \E i \in 1 .. n : s[i] = e
BY ElementsOf

LEMMA AppendSet ==
    ASSUME NEW S, NEW s \in Seq(S), NEW e \in S
    PROVE  Append(s, e) \in Seq(S) /\ ToSet(Append(s, e)) = ToSet(s) \cup {e}
<1> DEFINE r == Append(s, e)
<1>1. /\ r \in Seq(S) /\ Len(r) = Len(s) + 1 /\ Len(s) \in Nat
      /\ \A i \in 1 .. Len(s) : r[i] = s[i]
      /\ r[Len(s) + 1] = e
    BY AppendProperties
<1> HIDE DEF r
<1>2. \A x : x \in ToSet(r) <=> \E i \in 1 .. Len(s) + 1 : r[i] = x
    BY <1>1, ElementsUpTo
<1>3. \A x : x \in ToSet(s) <=> \E i \in 1 .. Len(s) : s[i] = x
    BY ElementsOf
<1>4. \A i \in 1 .. Len(s) + 1 : i \in 1 .. Len(s) \/ i = Len(s) + 1
    BY <1>1
<1>5. \A x : x \in ToSet(r) <=> x \in ToSet(s) \cup {e}
    BY <1>1, <1>2, <1>3, <1>4
<1>6. QED
    BY <1>1, <1>5 DEF r

LEMMA TailSet ==
    ASSUME NEW S, NEW s \in Seq(S), s # <<>>
    PROVE  /\ Tail(s) \in Seq(S) /\ Head(s) \in S
           /\ ToSet(s) = ToSet(Tail(s)) \cup {Head(s)}
<1> DEFINE r == Tail(s)
<1>1. /\ r \in Seq(S) /\ Len(r) = Len(s) - 1 /\ Len(s) \in Nat /\ Len(s) >= 1
      /\ \A i \in 1 .. Len(s) - 1 : r[i] = s[i + 1]
      /\ Head(s) \in S /\ Head(s) = s[1]
    BY HeadTailProperties, EmptySeq
<1> HIDE DEF r
<1>2. \A x : x \in ToSet(r) <=> \E i \in 1 .. Len(s) - 1 : r[i] = x
    BY <1>1, ElementsUpTo
<1>3. \A x : x \in ToSet(s) <=> \E i \in 1 .. Len(s) : s[i] = x
    BY ElementsOf
<1>4. \A i \in 1 .. Len(s) - 1 : i + 1 \in 1 .. Len(s)
    BY <1>1
<1>5. \A i \in 1 .. Len(s) : i = 1 \/ (i - 1 \in 1 .. Len(s) - 1 /\ r[i - 1] = s[i])
    BY <1>1
<1>6. \A x : x \in ToSet(s) <=> x \in ToSet(r) \cup {Head(s)}
    BY <1>1, <1>2, <1>3, <1>4, <1>5
<1>7. QED
    BY <1>1, <1>6 DEF r

LEMMA CutSet ==
    ASSUME NEW S, NEW s \in Seq(S), NEW n \in 0 .. Len(s)
    PROVE  /\ SubSeq(s, 1, n) \in Seq(S)
           /\ ToSet(SubSeq(s, 1, n)) \subseteq ToSet(s)
           /\ \A x \in ToSet(s) :
                 x \in ToSet(SubSeq(s, 1, n)) \/ \E i \in (n + 1) .. Len(s) : s[i] = x
<1> DEFINE r == SubSeq(s, 1, n)
<1>1. Len(s) \in Nat /\ n \in Int /\ \A i \in 1 .. n : s[i] \in S
    OBVIOUS
<1>2. /\ r \in Seq(S)
      /\ Len(r) = IF 1 <= n THEN n - 1 + 1 ELSE 0
      /\ \A i \in 1 .. n - 1 + 1 : r[i] = s[1 + i - 1]
    BY <1>1, SubSeqProperties
<1> HIDE DEF r
<1>3. Len(r) = n /\ \A i \in 1 .. n : r[i] = s[i]
    <2>1. Len(r) = n
        BY <1>2
    <2>2. \A i \in 1 .. n : i \in 1 .. n - 1 + 1 /\ 1 + i - 1 = i
        OBVIOUS
    <2>3. QED
        BY <1>2, <2>1, <2>2
<1>4. \A x : x \in ToSet(r) <=> \E i \in 1 .. n : r[i] = x
    BY <1>2, <1>3, ElementsUpTo
<1>5. \A x : x \in ToSet(s) <=> \E i \in 1 .. Len(s) : s[i] = x
    BY ElementsOf
<1>6. \A i \in 1 .. Len(s) : i \in 1 .. n \/ i \in (n + 1) .. Len(s)
    BY <1>1
<1>7. \A i \in 1 .. n : i \in 1 .. Len(s)
    BY <1>1
<1>8. \A x : x \in ToSet(r) => x \in ToSet(s)
    BY <1>3, <1>4, <1>5, <1>7
<1>9. \A x : x \in ToSet(s) => x \in ToSet(r) \/ \E i \in (n + 1) .. Len(s) : s[i] = x
    BY <1>3, <1>4, <1>5, <1>6
<1>10. QED
    BY <1>2, <1>8, <1>9 DEF r

LEMMA ReplaceSet ==
    ASSUME NEW S, NEW s \in Seq(S), NEW i \in 1 .. Len(s), NEW e \in S
    PROVE  /\ [s EXCEPT ![i] = e] \in Seq(S)
           /\ ToSet([s EXCEPT ![i] = e]) \subseteq ToSet(s) \cup {e}
           /\ (ToSet(s) \ {s[i]}) \cup {e} \subseteq ToSet([s EXCEPT ![i] = e])
<1> DEFINE r == [s EXCEPT ![i] = e]
<1>1. /\ r \in Seq(S) /\ Len(r) = Len(s) /\ r[i] = e
      /\ \A j \in 1 .. Len(s) : j # i => r[j] = s[j]
    BY ExceptSeq
<1> HIDE DEF r
<1>2. \A x : x \in ToSet(r) <=> \E j \in 1 .. Len(s) : r[j] = x
    BY <1>1, ElementsUpTo
<1>3. \A x : x \in ToSet(s) <=> \E j \in 1 .. Len(s) : s[j] = x
    BY ElementsOf
<1>4. \A x : x \in ToSet(r) => x \in ToSet(s) \cup {e}
    BY <1>1, <1>2, <1>3
<1>5. \A x : x \in ToSet(s) /\ x # s[i] => x \in ToSet(r)
    BY <1>1, <1>2, <1>3
<1>6. e \in ToSet(r)
    BY <1>1, <1>2
<1>7. QED
    BY <1>1, <1>4, <1>5, <1>6 DEF r

LEMMA RemoveSet ==
    ASSUME NEW S, NEW s \in Seq(S), NEW i \in 1 .. Len(s)
    PROVE  /\ RemoveAt(s, i) \in Seq(S)
           /\ ToSet(RemoveAt(s, i)) \subseteq ToSet(s)
           /\ ToSet(s) \ {s[i]} \subseteq ToSet(RemoveAt(s, i))
<1> DEFINE a == SubSeq(s, 1, i - 1)
           b == SubSeq(s, i + 1, Len(s))
           r == a \o b
<1>1. /\ Len(s) \in Nat /\ i - 1 \in Int /\ i + 1 \in Int
      /\ \A j \in 1 .. i - 1 : s[j] \in S
      /\ \A j \in i + 1 .. Len(s) : s[j] \in S
    OBVIOUS
<1>2. a \in Seq(S) /\ Len(a) = i - 1 /\ \A j \in 1 .. i - 1 : a[j] = s[j]
    BY <1>1, SubSeqProperties
<1>3. b \in Seq(S) /\ Len(b) = Len(s) - i /\ \A j \in 1 .. Len(s) - i : b[j] = s[i + j]
    <2>1. /\ b \in Seq(S)
          /\ Len(b) = IF i + 1 <= Len(s) THEN Len(s) - (i + 1) + 1 ELSE 0
          /\ \A j \in 1 .. Len(s) - (i + 1) + 1 : b[j] = s[(i + 1) + j - 1]
        BY <1>1, SubSeqProperties
    <2>2. QED
        BY <1>1, <2>1
<1> HIDE DEF a, b
<1>4. /\ r \in Seq(S) /\ Len(r) = Len(s) - 1
      /\ \A j \in 1 .. Len(s) - 1 : r[j] = IF j <= i - 1 THEN a[j] ELSE b[j - (i - 1)]
    <2>1. /\ r \in Seq(S)
          /\ Len(r) = Len(a) + Len(b)
          /\ \A j \in 1 .. Len(a) + Len(b) : r[j] = IF j <= Len(a) THEN a[j] ELSE b[j - Len(a)]
        BY <1>2, <1>3, ConcatProperties
    <2>2. Len(a) + Len(b) = Len(s) - 1 /\ Len(a) = i - 1
        BY <1>1, <1>2, <1>3
    <2> HIDE DEF r
    <2>3. QED
        BY <2>1, <2>2
<1> HIDE DEF r
<1>5. \A j \in 1 .. i - 1 : j \in 1 .. Len(s) - 1 /\ r[j] = s[j]
    BY <1>1, <1>2, <1>4
<1>6. \A j \in i + 1 .. Len(s) : j - 1 \in 1 .. Len(s) - 1 /\ r[j - 1] = s[j]
    <2> SUFFICES ASSUME NEW j \in i + 1 .. Len(s)
                 PROVE  j - 1 \in 1 .. Len(s) - 1 /\ r[j - 1] = s[j]
        OBVIOUS
    <2>1. /\ j - 1 \in 1 .. Len(s) - 1 /\ ~(j - 1 <= i - 1)
          /\ (j - 1) - (i - 1) = j - i /\ j - i \in 1 .. Len(s) - i /\ i + (j - i) = j
        BY <1>1
    <2>2. r[j - 1] = b[j - i]
        BY <1>4, <2>1
    <2>3. QED
        BY <1>3, <2>1, <2>2
<1>7. \A j \in 1 .. Len(s) - 1 : j \in 1 .. i - 1 \/ (j + 1 \in i + 1 .. Len(s) /\ (j + 1) - 1 = j)
    BY <1>1
<1>8. \A j \in 1 .. Len(s) : j \in 1 .. i - 1 \/ j = i \/ j \in i + 1 .. Len(s)
    BY <1>1
<1>9. \A x : x \in ToSet(r) <=> \E j \in 1 .. Len(s) - 1 : r[j] = x
    BY <1>4, ElementsUpTo
<1>10. \A x : x \in ToSet(s) <=> \E j \in 1 .. Len(s) : s[j] = x
    BY ElementsOf
<1>11. ASSUME NEW x \in ToSet(r) PROVE x \in ToSet(s)
    <2>1. PICK j \in 1 .. Len(s) - 1 : r[j] = x
        BY <1>9
    <2>2. CASE j \in 1 .. i - 1
        BY <1>1, <1>5, <1>10, <2>1, <2>2
    <2>3. CASE j + 1 \in i + 1 .. Len(s) /\ (j + 1) - 1 = j
        <3>1. s[j + 1] = x /\ j + 1 \in 1 .. Len(s)
            BY <1>1, <1>6, <2>1, <2>3
        <3>2. QED
            BY <1>10, <3>1
    <2>4. QED
        BY <1>7, <2>2, <2>3
<1>12. ASSUME NEW x \in ToSet(s), x # s[i] PROVE x \in ToSet(r)
    <2>1. PICK j \in 1 .. Len(s) : s[j] = x
        BY <1>10
    <2>2. QED
        BY <1>5, <1>6, <1>8, <1>9, <1>12, <2>1
<1>13. RemoveAt(s, i) = r
    BY DEF RemoveAt, r, a, b
<1>14. QED
    BY <1>4, <1>11, <1>12, <1>13

-----------------------------------------------------------------------------
(* Type correctness. *)

Budget == [changes : 0 .. MaxChanges, visits : 0 .. MaxVisits, drops : 0 .. MaxDrops,
           lost : 0 .. MaxLost, failures : 0 .. MaxFailures]
Fetch == [video : Video, answer : Versions \cup {None}, cancelled : BOOLEAN]
Wanted == {f \in fetches : ~f.cancelled}

TypeInv ==
    /\ TypeOK
    /\ \A v \in Video : version[v] <= spent.changes /\ unannounced[v] <= version[v]
    /\ lastChange # None => page # None

LEMMA Numbers ==
    /\ MaxChanges \in Nat /\ Versions \subseteq Nat /\ Lists \subseteq [Video -> Nat]
    /\ None \notin Video /\ Open \notin Video /\ Resync \notin Video
    /\ None \notin Versions /\ Failed \notin Versions
<1>1. MaxChanges \in Nat /\ Versions \subseteq Nat
    BY LimitsAssumption DEF Versions
<1>2. Lists \subseteq [Video -> Nat]
    BY <1>1 DEF Lists
<1>3. QED
    BY <1>1, <1>2, NamesAssumption

LEMMA Spending ==
    ASSUME TypeOK
    PROVE  /\ Spend("changes", MaxChanges) =>
                 spent' \in Budget /\ spent'.changes = spent.changes + 1
                     /\ spent'.failures = spent.failures
           /\ Spend("visits", MaxVisits) =>
                 spent' \in Budget /\ spent'.changes = spent.changes
                     /\ spent'.failures = spent.failures
           /\ Spend("drops", MaxDrops) =>
                 spent' \in Budget /\ spent'.changes = spent.changes
                     /\ spent'.failures = spent.failures
           /\ Spend("lost", MaxLost) =>
                 spent' \in Budget /\ spent'.changes = spent.changes
                     /\ spent'.failures = spent.failures
           /\ Spend("failures", MaxFailures) =>
                 spent' \in Budget /\ spent'.changes = spent.changes /\ spent'.failures > 0
<1>1. /\ MaxChanges \in Nat /\ MaxVisits \in Nat /\ MaxDrops \in Nat /\ MaxLost \in Nat
      /\ MaxFailures \in Nat
    BY LimitsAssumption
<1>2. spent \in Budget
    BY DEF TypeOK, Budget
<1>3. QED
    BY <1>1, <1>2 DEF Spend, Budget

LEMMA InitTypes == Init => TypeInv
<1>1. 0 \in Versions /\ Versions \subseteq Nat /\ MaxChanges \in Nat
    BY LimitsAssumption DEF Versions
<1>2. [v \in Video |-> 0] \in Lists
    BY <1>1 DEF Lists
<1>3. SUFFICES ASSUME Init PROVE TypeInv
    OBVIOUS
<1>4. spent \in Budget /\ spent.changes = 0
    BY <1>3, LimitsAssumption DEF Init, Budget
<1>5. lists \in Seq(Lists \cup {None})
    BY <1>3 DEF Init
<1>6. stream \in Seq(Video \cup {Open})
    BY <1>3 DEF Init
<1>7. TypeOK
    BY <1>1, <1>2, <1>3, <1>4, <1>5, <1>6 DEF Init, TypeOK, Budget
<1>8. \A v \in Video : version[v] = 0 /\ unannounced[v] = 0
    BY <1>3 DEF Init
<1>9. QED
    BY <1>3, <1>4, <1>7, <1>8 DEF Init, TypeInv

LEMMA OnChangeTypes ==
    ASSUME TypeOK, NEW c \in Video \cup {Resync}, OnChange(c)
    PROVE  /\ lists' \in Seq(Lists \cup {None}) /\ ToSet(lists') = ToSet(lists) \cup {None}
           /\ lastChange' \in Video \cup {Resync, None} /\ skipped' \in BOOLEAN
           /\ videos' = videos /\ newest' = newest
           /\ page = None => lastChange' = lastChange
<1>1. lists \in Seq(Lists \cup {None})
    BY DEF TypeOK
<1>2. lists' \in Seq(Lists \cup {None}) /\ ToSet(lists') = ToSet(lists) \cup {None}
    BY <1>1, AppendSet DEF OnChange
<1>3. lastChange' \in Video \cup {Resync, None} /\ (page = None => lastChange' = lastChange)
    BY DEF OnChange, TypeOK
<1>4. skipped' \in BOOLEAN
    BY DEF OnChange, TypeOK
<1>5. QED
    BY <1>2, <1>3, <1>4 DEF OnChange

LEMMA ServiceTypes ==
    ASSUME TypeInv,
           \/ \E v \in Video : Commit(v) \/ Publish(v) \/ PublishFails(v)
           \/ Connect \/ Subscribe \/ Drop
    PROVE  TypeInv'
<1>1. /\ MaxChanges \in Nat /\ TypeOK /\ spent \in Budget /\ spent.changes \in 0 .. MaxChanges
      /\ version \in [Video -> Nat] /\ unannounced \in [Video -> Nat]
      /\ \A v \in Video : version[v] <= spent.changes /\ unannounced[v] <= version[v]
      /\ stream \in Seq(Video \cup {Open})
    BY Numbers DEF TypeInv, TypeOK, Budget
<1> DEFINE Counts ==
      /\ spent' \in Budget /\ version' \in [Video -> Nat] /\ unannounced' \in [Video -> Nat]
      /\ \A v \in Video : version'[v] <= spent'.changes /\ unannounced'[v] <= version'[v]
<1>2. Counts
    <2>1. ASSUME NEW v \in Video, Commit(v) PROVE Counts
        <3>1. spent' \in Budget /\ spent'.changes = spent.changes + 1
            BY <1>1, <2>1, Spending DEF Commit
        <3>2. /\ version' = [version EXCEPT ![v] = version[v] + 1]
              /\ unannounced' = [unannounced EXCEPT ![v] = unannounced[v] + 1]
            BY <2>1 DEF Commit
        <3>3. QED
            BY <1>1, <3>1, <3>2
    <2>2. ASSUME NEW v \in Video, Announced(v), spent' \in Budget, spent'.changes = spent.changes
          PROVE  Counts
        BY <1>1, <2>2 DEF Announced
    <2>3. ASSUME NEW v \in Video, Publish(v) PROVE Counts
        BY <1>1, <2>2, <2>3 DEF Publish
    <2>4. ASSUME NEW v \in Video, PublishFails(v) PROVE Counts
        BY <1>1, <2>2, <2>4, Spending DEF PublishFails
    <2>5. ASSUME Connect \/ Subscribe PROVE Counts
        BY <1>1, <2>5 DEF Connect, Subscribe, server
    <2>6. ASSUME Drop PROVE Counts
        BY <1>1, <2>6, Spending DEF Drop, server
    <2>7. QED
        BY <2>1, <2>3, <2>4, <2>5, <2>6
<1>3. version' \in Lists /\ unannounced' \in Lists
    <2>1. spent'.changes \in 0 .. MaxChanges
        BY <1>2 DEF Budget
    <2>2. ASSUME NEW v \in Video
          PROVE  version'[v] \in 0 .. MaxChanges /\ unannounced'[v] \in 0 .. MaxChanges
        <3>1. version'[v] \in Nat /\ unannounced'[v] \in Nat
            BY <1>2
        <3>2. version'[v] <= spent'.changes /\ unannounced'[v] <= version'[v]
            BY <1>2
        <3> HIDE DEF Counts
        <3>3. QED
            BY <1>1, <2>1, <3>1, <3>2
    <2>3. QED
        BY <1>2, <2>2 DEF Lists, Versions
<1> DEFINE Sent ==
      /\ stream' \in Seq(Video \cup {Open}) /\ missed' \subseteq Video
      /\ subscribed' \in BOOLEAN /\ link' \in {"down", "up"} /\ connectedBefore' \in BOOLEAN
<1>4. Sent
    <2>1. ASSUME NEW v \in Video, Publish(v) PROVE Sent
        <3>1. stream' = stream \/ stream' = Append(stream, v)
            BY <2>1 DEF Publish
        <3>2. missed' = missed \/ missed' = missed \cup {v}
            BY <2>1 DEF Publish
        <3>3. stream' \in Seq(Video \cup {Open})
            <4>1. v \in Video \cup {Open}
                OBVIOUS
            <4>2. stream \in Seq(Video \cup {Open})
                BY <1>1
            <4>3. Append(stream, v) \in Seq(Video \cup {Open})
                BY <4>1, <4>2, AppendSet
            <4>4. QED
                BY <3>1, <4>2, <4>3
        <3>4. UNCHANGED <<subscribed, link, connectedBefore>>
            BY <2>1 DEF Publish
        <3>5. QED
            BY <1>1, <3>2, <3>3, <3>4 DEF TypeOK
    <2>2. ASSUME NEW v \in Video, Commit(v) \/ PublishFails(v) PROVE Sent
        BY <1>1, <2>2 DEF Commit, PublishFails, connection, TypeOK
    <2>3. ASSUME Connect PROVE Sent
        BY <1>1, <2>3, AppendSet DEF Connect, TypeOK
    <2>4. ASSUME Subscribe PROVE Sent
        BY <1>1, <2>4 DEF Subscribe, TypeOK
    <2>5. ASSUME Drop PROVE Sent
        <3>1. PICK n \in 0 .. Len(stream) :
                 /\ stream' = SubSeq(stream, 1, n)
                 /\ missed' = missed \cup {v \in Video : \E i \in (n + 1) .. Len(stream) :
                                                              stream[i] = v}
            BY <2>5 DEF Drop
        <3>2. stream' \in Seq(Video \cup {Open})
            BY <1>1, <3>1, CutSet
        <3>3. missed' \subseteq Video
            BY <1>1, <3>1 DEF TypeOK
        <3>4. QED
            BY <1>1, <2>5, <3>2, <3>3 DEF Drop, TypeOK
    <2>6. QED
        BY <2>1, <2>2, <2>3, <2>4, <2>5
<1>5. UNCHANGED <<lists, videos, newest, page, fetches, shown, lastChange, skipped>>
    BY DEF Commit, Publish, PublishFails, Connect, Subscribe, Drop, grid, player
<1>6. QED
    BY <1>1, <1>2, <1>3, <1>4, <1>5 DEF TypeInv, TypeOK, Budget

LEMMA SubscriptionTypes ==
    ASSUME TypeInv, OnOpen \/ OnMessage
    PROVE  TypeInv'
<1>1. /\ TypeOK /\ stream \in Seq(Video \cup {Open}) /\ spent' = spent
      /\ stream # <<>> /\ stream' = Tail(stream)
      /\ UNCHANGED <<version, unannounced, subscribed, link, page, fetches, shown>>
    BY DEF TypeInv, TypeOK, OnOpen, OnMessage, server, player
<1>2. stream' \in Seq(Video \cup {Open})
    BY <1>1, TailSet
<1>3. /\ lists' \in Seq(Lists \cup {None}) /\ lastChange' \in Video \cup {Resync, None}
      /\ skipped' \in BOOLEAN /\ UNCHANGED <<videos, newest>>
      /\ page = None => lastChange' = lastChange
    <2>1. CASE \E c \in Video \cup {Resync} : OnChange(c)
        BY <1>1, <2>1, OnChangeTypes
    <2>2. CASE UNCHANGED <<grid, lastChange, skipped>>
        BY <1>1, <2>2 DEF grid, TypeOK
    <2>3. QED
        BY <2>1, <2>2 DEF OnOpen, OnMessage
<1>4. missed' \subseteq Video /\ connectedBefore' \in BOOLEAN
    BY <1>1 DEF OnOpen, OnMessage, TypeOK
<1>5. QED
    BY <1>1, <1>2, <1>3, <1>4 DEF TypeInv, TypeOK

LEMMA ListTypes ==
    ASSUME TypeInv, NEW i \in 1 .. Len(lists), AnswerList(i) \/ ReceiveList(i) \/ ListFails(i)
    PROVE  TypeInv'
<1>1. /\ TypeOK /\ lists \in Seq(Lists \cup {None}) /\ lists[i] \in Lists \cup {None}
      /\ version \in Lists /\ spent \in Budget
    BY ElementsOf DEF TypeInv, TypeOK, Budget
<1>2. /\ lists' \in Seq(Lists \cup {None}) /\ videos' \in Lists /\ newest' \in Lists
    <2>1. CASE AnswerList(i)
        BY <1>1, <2>1, ReplaceSet DEF AnswerList, TypeOK
    <2>2. CASE ReceiveList(i)
        BY <1>1, <2>2, RemoveSet DEF ReceiveList, TypeOK
    <2>3. CASE ListFails(i)
        BY <1>1, <2>3, RemoveSet DEF ListFails, TypeOK
    <2>4. QED
        BY <2>1, <2>2, <2>3
<1>3. spent' \in Budget /\ spent'.changes = spent.changes
    BY <1>1, Spending DEF AnswerList, ReceiveList, ListFails
<1>4. UNCHANGED <<version, unannounced, subscribed, link, stream, connectedBefore, page, fetches,
                  shown, lastChange, missed, skipped>>
    BY DEF AnswerList, ReceiveList, ListFails, server, connection, player
<1>5. QED
    BY <1>1, <1>2, <1>3, <1>4 DEF TypeInv, TypeOK, Budget

LEMMA RefetchTypes ==
    ASSUME fetches \subseteq Fetch, NEW v \in Video, Refetch(v)
    PROVE  /\ fetches' \subseteq Fetch
           /\ \A f \in fetches' : ~f.cancelled => f.video = v /\ f.answer = None
           /\ \A f \in fetches' : f.answer = None \/
                 \E g \in fetches : f.answer = g.answer /\ f.video = g.video
           /\ [video |-> v, answer |-> None, cancelled |-> FALSE] \in Wanted'
           /\ \A f, g \in Wanted' : f = g
           /\ skipped' = FALSE
<1> DEFINE new == [video |-> v, answer |-> None, cancelled |-> FALSE]
           Off(f) == [f EXCEPT !.cancelled = TRUE]
<1>1. \A f \in fetches : /\ Off(f) \in Fetch /\ Off(f).cancelled
                         /\ Off(f).answer = f.answer /\ Off(f).video = f.video
    BY DEF Fetch
<1>2. new.video = v /\ new.answer = None /\ ~new.cancelled /\ new \in Fetch
    BY DEF Fetch
<1>3. fetches' = {Off(f) : f \in fetches} \cup {new} /\ skipped' = FALSE
    BY DEF Refetch
<1> HIDE DEF new, Off
<1>4. \A f \in fetches' : f = new \/ (/\ f \in Fetch /\ f.cancelled
                                      /\ \E g \in fetches : f.answer = g.answer
                                                             /\ f.video = g.video)
    BY <1>1, <1>3
<1>5. Wanted' = {new}
    BY <1>2, <1>3, <1>4 DEF Wanted
<1>6. QED
    BY <1>2, <1>3, <1>4, <1>5 DEF new

LEMMA PlayerTypes ==
    ASSUME TypeInv,
           \/ \E v \in Video : Visit(v)
           \/ SeeChange \/ Leave
           \/ \E f \in fetches : AnswerFetch(f) \/ ReceiveFetch(f) \/ FetchFails(f)
    PROVE  TypeInv'
<1>1. /\ TypeOK /\ fetches \subseteq Fetch /\ spent \in Budget /\ version \in [Video -> Versions]
    BY DEF TypeInv, TypeOK, Budget, Fetch, Lists
<1> DEFINE Typed ==
      /\ fetches' \subseteq Fetch /\ skipped' \in BOOLEAN /\ page' \in Video \cup {None}
      /\ lastChange' \in Video \cup {Resync, None} /\ shown' \in Versions \cup {None, Failed}
      /\ lastChange' # None => page' # None
      /\ spent' \in Budget /\ spent'.changes = spent.changes
<1>2. Typed
    <2>1. ASSUME NEW v \in Video, Visit(v) PROVE Typed
        <3>1. v # None
            BY NamesAssumption
        <3>2. QED
            BY <1>1, <2>1, <3>1, Spending, RefetchTypes DEF Visit, TypeInv, TypeOK
    <2>2. CASE SeeChange
        <3>1. page \in Video
            BY <2>2 DEF SeeChange, TypeInv, TypeOK
        <3>2. fetches' \subseteq Fetch /\ skipped' \in BOOLEAN
            BY <1>1, <2>2, <3>1, RefetchTypes DEF SeeChange, TypeOK
        <3>3. QED
            BY <1>1, <2>2, <3>2 DEF SeeChange, TypeOK
    <2>3. CASE Leave
        <3>1. \A f \in Fetch : [f EXCEPT !.cancelled = TRUE] \in Fetch
            BY DEF Fetch
        <3>2. QED
            BY <1>1, <2>3, <3>1 DEF Leave, TypeOK
    <2>4. ASSUME NEW f \in fetches, AnswerFetch(f) PROVE Typed
        <3>1. [f EXCEPT !.answer = version[f.video]] \in Fetch
            BY <1>1 DEF Fetch
        <3>2. QED
            BY <1>1, <2>4, <3>1 DEF AnswerFetch, TypeInv, TypeOK
    <2>5. ASSUME NEW f \in fetches, ReceiveFetch(f) PROVE Typed
        <3>1. f.answer \in Versions
            BY <1>1, <2>5 DEF Fetch, ReceiveFetch
        <3>2. QED
            BY <1>1, <2>5, <3>1 DEF ReceiveFetch, TypeInv, TypeOK
    <2>6. ASSUME NEW f \in fetches, FetchFails(f) PROVE Typed
        BY <1>1, <2>6, Spending DEF FetchFails, TypeInv, TypeOK
    <2>7. QED
        BY <2>1, <2>2, <2>3, <2>4, <2>5, <2>6
<1>3. UNCHANGED <<version, unannounced, subscribed, link, stream, connectedBefore, lists, videos,
                  newest, missed>>
    BY DEF Visit, SeeChange, Leave, AnswerFetch, ReceiveFetch, FetchFails, server, connection, grid
<1>4. QED
    BY <1>1, <1>2, <1>3 DEF TypeInv, TypeOK, Budget, Fetch

LEMMA StepTypes == TypeInv /\ [Next]_vars => TypeInv'
<1> SUFFICES ASSUME TypeInv, [Next]_vars PROVE TypeInv'
    OBVIOUS
<1>1. CASE UNCHANGED vars
    BY <1>1 DEF vars, TypeInv, TypeOK
<1>2. CASE Next
    BY <1>2, ServiceTypes, SubscriptionTypes, ListTypes, PlayerTypes DEF Next
<1>3. QED
    BY <1>1, <1>2

\* The variables stay in their types.
THEOREM TypeCorrect == Spec => []TypeOK
<1>1. Spec => []TypeInv
    BY InitTypes, StepTypes, PTL DEF Spec
<1>2. TypeInv => TypeOK
    BY DEF TypeInv
<1>3. QED
    BY <1>1, <1>2, PTL

-----------------------------------------------------------------------------
(* The inductive invariant. *)

AtMost(x, y) == \A v \in Video : x[v] <= y[v]
Answers == {newest} \cup (ToSet(lists) \ {None})

\* Every list is of one moment, so that of any two one is the older, though they arrive in
\* any order.
ListsInv ==
    /\ \A x \in Answers : AtMost(x, version)
    /\ \A x, y \in Answers : AtMost(x, y) \/ AtMost(y, x)

\* A change that is not published, or not handled by the page.
Coming(v) == unannounced[v] > 0 \/ v \in ToSet(stream)

\* A change that the newest list lacks is coming, or a request will bring it.
LoadsInv ==
    spent.failures = 0 => \A v \in Video \ missed :
        \/ newest[v] = version[v]
        \/ Coming(v)
        \/ None \in ToSet(lists)
        \/ \E x \in ToSet(lists) : x[v] = version[v]

\* The page waits for one answer, which is not older than what it shows.
FetchInv ==
    /\ \A f, g \in Wanted : f = g
    /\ \A f \in Wanted : f.video = page
    /\ \A f \in fetches : f.answer # None => f.answer <= version[f.video]
    /\ shown \in Versions => page \in Video /\ shown <= version[page]
    /\ \A f \in Wanted : f.answer # None /\ shown \in Versions => shown <= f.answer

\* A change that the open page does not show is coming, was handed to its effect, or is in
\* the answer it waits for.
PageInv ==
    page \notin missed \cup {None} /\ ~skipped =>
        \/ Coming(page)
        \/ Concerns(lastChange)
        \/ \E f \in Wanted : f.answer \in {None, version[page]}
        \/ Wanted = {} /\ shown \in {version[page], Failed}

CatalogInv == TypeInv /\ ListsInv /\ LoadsInv /\ FetchInv /\ PageInv

LEMMA InitCatalog == Init => CatalogInv
<1> SUFFICES ASSUME Init PROVE CatalogInv
    OBVIOUS
<1>1. TypeInv /\ TypeOK
    BY InitTypes DEF TypeInv
<1>2. lists \in Seq({None}) /\ ToSet(lists) = {None}
    BY DEF Init, ToSet
<1>3. Answers = {newest}
    BY <1>2 DEF Answers
<1>4. \A v \in Video : version[v] = 0 /\ newest[v] = 0
    BY DEF Init
<1>5. ListsInv
    BY <1>3, <1>4 DEF ListsInv, AtMost
<1>6. LoadsInv
    BY <1>2 DEF LoadsInv
<1>7. Wanted = {} /\ fetches = {} /\ page = None /\ shown = None
    BY DEF Init, Wanted
<1>8. FetchInv
    BY <1>7, NamesAssumption DEF FetchInv, Versions
<1>9. PageInv
    BY <1>7 DEF PageInv
<1>10. QED
    BY <1>1, <1>5, <1>6, <1>8, <1>9 DEF CatalogInv

-----------------------------------------------------------------------------
(* What the steps do to the parts of the invariant. *)

\* A step of the lists: what becomes of the answers.
LEMMA ListMoves ==
    ASSUME TypeInv, [Next]_vars
    PROVE  \/ UNCHANGED <<lists, newest>>
           \/ /\ ToSet(lists') = ToSet(lists) \cup {None}
              /\ newest' = newest /\ version' = version
           \/ /\ version \in ToSet(lists')
              /\ ToSet(lists') \subseteq ToSet(lists) \cup {version}
              /\ ToSet(lists) \ {None} \subseteq ToSet(lists')
              /\ newest' = newest /\ version' = version
           \/ /\ version' = version
              /\ \E x \in ToSet(lists) \ {None} :
                    /\ ToSet(lists') \subseteq ToSet(lists)
                    /\ ToSet(lists) \ {x} \subseteq ToSet(lists')
                    /\ newest' = IF \E v \in Video : x[v] > newest[v] THEN x ELSE newest
           \/ /\ version' = version /\ newest' = newest /\ spent'.failures > 0
              /\ ToSet(lists') \subseteq ToSet(lists)
<1>1. TypeOK /\ lists \in Seq(Lists \cup {None}) /\ version \in Lists
    BY DEF TypeInv, TypeOK
<1> DEFINE Moves ==
      \/ UNCHANGED <<lists, newest>>
      \/ /\ ToSet(lists') = ToSet(lists) \cup {None}
         /\ newest' = newest /\ version' = version
      \/ /\ version \in ToSet(lists')
         /\ ToSet(lists') \subseteq ToSet(lists) \cup {version}
         /\ ToSet(lists) \ {None} \subseteq ToSet(lists')
         /\ newest' = newest /\ version' = version
      \/ /\ version' = version
         /\ \E x \in ToSet(lists) \ {None} :
               /\ ToSet(lists') \subseteq ToSet(lists)
               /\ ToSet(lists) \ {x} \subseteq ToSet(lists')
               /\ newest' = IF \E v \in Video : x[v] > newest[v] THEN x ELSE newest
      \/ /\ version' = version /\ newest' = newest /\ spent'.failures > 0
         /\ ToSet(lists') \subseteq ToSet(lists)
<1>2. ASSUME OnOpen \/ OnMessage PROVE Moves
    <2>1. CASE \E c \in Video \cup {Resync} : OnChange(c)
        BY <1>1, <1>2, <2>1, OnChangeTypes DEF OnOpen, OnMessage, server
    <2>2. CASE UNCHANGED grid
        BY <2>2 DEF grid
    <2>3. QED
        BY <1>2, <2>1, <2>2 DEF OnOpen, OnMessage
<1>3. ASSUME NEW i \in 1 .. Len(lists), AnswerList(i) PROVE Moves
    <2>1. /\ ToSet(lists') \subseteq ToSet(lists) \cup {version}
          /\ (ToSet(lists) \ {None}) \cup {version} \subseteq ToSet(lists')
        <3>1. lists' = [lists EXCEPT ![i] = version] /\ lists[i] = None
            BY <1>3 DEF AnswerList
        <3>2. version \in Lists \cup {None}
            BY <1>1
        <3>3. QED
            BY <1>1, <3>1, <3>2, ReplaceSet
    <2>2. QED
        BY <1>3, <2>1 DEF AnswerList, server
<1>4. ASSUME NEW i \in 1 .. Len(lists), ReceiveList(i) PROVE Moves
    <2>1. lists[i] \in ToSet(lists) \ {None}
        BY <1>1, <1>4, ElementsOf DEF ReceiveList
    <2>2. /\ ToSet(lists') \subseteq ToSet(lists)
          /\ ToSet(lists) \ {lists[i]} \subseteq ToSet(lists')
        BY <1>1, <1>4, RemoveSet DEF ReceiveList
    <2>3. QED
        BY <1>4, <2>1, <2>2 DEF ReceiveList, server
<1>5. ASSUME NEW i \in 1 .. Len(lists), ListFails(i) PROVE Moves
    <2>1. ToSet(lists') \subseteq ToSet(lists)
        BY <1>1, <1>5, RemoveSet DEF ListFails
    <2>2. QED
        BY <1>1, <1>5, <2>1, Spending DEF ListFails, server
<1>6. ASSUME ~(OnOpen \/ OnMessage),
             \A i \in 1 .. Len(lists) : ~(AnswerList(i) \/ ReceiveList(i) \/ ListFails(i))
      PROVE  Moves
    BY <1>6 DEF Next, vars, Commit, Publish, PublishFails, Connect, Subscribe, Drop, SeeChange,
           Leave, Visit, AnswerFetch, ReceiveFetch, FetchFails, grid
<1>7. QED
    BY <1>2, <1>3, <1>4, <1>5, <1>6

\* A step of the catalog and the stream: what becomes of the changes.
LEMMA ChangesMove ==
    ASSUME TypeInv, [Next]_vars, NEW v \in Video
    PROVE  /\ version'[v] >= version[v]
           /\ version'[v] # version[v] => Coming(v)'
           /\ Coming(v) /\ v \notin missed' =>
                 Coming(v)' \/ (OnMessage /\ v = Head(stream))
           /\ v \in missed /\ v \notin missed' => OnOpen /\ connectedBefore
           /\ spent.failures > 0 => spent'.failures > 0
           /\ spent.failures \in Nat /\ spent'.failures \in Nat
<1>1. /\ TypeOK /\ version \in [Video -> Nat] /\ unannounced \in [Video -> Nat]
      /\ stream \in Seq(Video \cup {Open}) /\ Open \notin Video /\ v \in Video
    BY Numbers DEF TypeInv, TypeOK
<1>2. /\ spent.failures > 0 => spent'.failures > 0
      /\ spent.failures \in Nat /\ spent'.failures \in Nat
    <2>1. spent' = spent \/ spent'.failures = spent.failures \/ spent'.failures > 0
        BY <1>1, Spending DEF Next, vars, Commit, Publish, PublishFails, Connect, Subscribe, Drop,
               OnOpen, OnMessage, SeeChange, Leave, Visit, AnswerList, ReceiveList, ListFails,
               AnswerFetch, ReceiveFetch, FetchFails
    <2>2. TypeOK'
        BY StepTypes DEF TypeInv
    <2>3. spent.failures \in 0 .. MaxFailures /\ spent'.failures \in 0 .. MaxFailures
        BY <1>1, <2>2 DEF TypeOK
    <2>4. QED
        BY <2>1, <2>3
<1> DEFINE Moves ==
      /\ version'[v] >= version[v]
      /\ version'[v] # version[v] => Coming(v)'
      /\ Coming(v) /\ v \notin missed' => Coming(v)' \/ (OnMessage /\ v = Head(stream))
      /\ v \in missed /\ v \notin missed' => OnOpen /\ connectedBefore
<1>3. ASSUME NEW u \in Video, Commit(u) PROVE Moves
    <2>1. /\ version' = [version EXCEPT ![u] = version[u] + 1]
          /\ unannounced' = [unannounced EXCEPT ![u] = unannounced[u] + 1]
          /\ stream' = stream /\ missed' = missed
        BY <1>3 DEF Commit, connection
    <2>2. QED
        BY <1>1, <2>1 DEF Coming
<1>4. ASSUME NEW u \in Video, Publish(u) PROVE Moves
    <2>1. /\ version' = version
          /\ unannounced' = [unannounced EXCEPT ![u] = unannounced[u] - 1]
        BY <1>4 DEF Publish, Announced
    <2>2. /\ ToSet(stream) \subseteq ToSet(stream') /\ missed \subseteq missed'
          /\ u \in ToSet(stream') \/ u \in missed'
        <3>1. u \in Video \cup {Open}
            OBVIOUS
        <3>2. CASE stream' = Append(stream, u) /\ missed' = missed
            <4>1. stream \in Seq(Video \cup {Open})
                BY <1>1
            <4>2. ToSet(Append(stream, u)) = ToSet(stream) \cup {u}
                BY <3>1, <4>1, AppendSet
            <4>3. ToSet(stream') = ToSet(stream) \cup {u}
                BY <3>2, <4>2
            <4>4. QED
                BY <3>2, <4>3
        <3>3. CASE missed' = missed \cup {u} /\ stream' = stream
            BY <3>3
        <3>4. QED
            BY <1>4, <3>2, <3>3 DEF Publish
    <2>3. QED
        BY <1>1, <2>1, <2>2 DEF Coming
<1>5. ASSUME NEW u \in Video, PublishFails(u) PROVE Moves
    <2>1. /\ version' = version
          /\ unannounced' = [unannounced EXCEPT ![u] = unannounced[u] - 1]
          /\ stream' = stream /\ missed' = missed \cup {u}
        BY <1>5 DEF PublishFails, Announced, connection
    <2>2. QED
        BY <1>1, <2>1 DEF Coming
<1>6. ASSUME Connect PROVE Moves
    <2>1. ToSet(stream) \subseteq ToSet(stream')
        BY <1>1, <1>6, AppendSet DEF Connect
    <2>2. UNCHANGED <<version, unannounced, missed>>
        BY <1>6 DEF Connect, server
    <2>3. QED
        BY <1>1, <2>1, <2>2 DEF Coming
<1>7. ASSUME Drop PROVE Moves
    <2>1. \A x \in ToSet(stream) \cap Video : x \in ToSet(stream') \/ x \in missed'
        <3>1. PICK n \in 0 .. Len(stream) :
                 /\ stream' = SubSeq(stream, 1, n)
                 /\ missed' = missed \cup {x \in Video : \E i \in (n + 1) .. Len(stream) :
                                                              stream[i] = x}
            BY <1>7 DEF Drop
        <3>2. \A x \in ToSet(stream) :
                 x \in ToSet(stream') \/ \E i \in (n + 1) .. Len(stream) : stream[i] = x
            BY <1>1, <3>1, CutSet
        <3>3. QED
            BY <3>1, <3>2
    <2>2. UNCHANGED <<version, unannounced>> /\ missed \subseteq missed'
        BY <1>7 DEF Drop, server
    <2>3. QED
        BY <1>1, <2>1, <2>2 DEF Coming
<1>8. ASSUME OnOpen \/ OnMessage PROVE Moves
    <2>1. /\ UNCHANGED <<version, unannounced>>
          /\ ToSet(stream) = ToSet(stream') \cup {Head(stream)}
        BY <1>1, <1>8, TailSet DEF OnOpen, OnMessage, server
    <2>2. OnOpen => Head(stream) \notin Video /\ (connectedBefore \/ missed' = missed)
        BY <1>1 DEF OnOpen
    <2>3. OnMessage => missed' = missed
        BY DEF OnMessage
    <2>4. QED
        BY <1>1, <1>8, <2>1, <2>2, <2>3 DEF Coming
<1>9. ASSUME UNCHANGED <<version, unannounced, stream, missed>> PROVE Moves
    BY <1>1, <1>9 DEF Coming
<1>10. \/ \E u \in Video : Commit(u) \/ Publish(u) \/ PublishFails(u)
       \/ Connect \/ Drop \/ OnOpen \/ OnMessage
       \/ UNCHANGED <<version, unannounced, stream, missed>>
    BY DEF Next, vars, Subscribe, SeeChange, Leave, Visit, AnswerList, ReceiveList, ListFails,
           AnswerFetch, ReceiveFetch, FetchFails, server, connection
<1>11. QED
    BY <1>2, <1>3, <1>4, <1>5, <1>6, <1>7, <1>8, <1>9, <1>10

-----------------------------------------------------------------------------
(* The lists. *)

LEMMA ListsStay ==
    ASSUME TypeInv, ListsInv, [Next]_vars
    PROVE  ListsInv' /\ \A v \in Video : newest'[v] >= newest[v]
<1>1. /\ version \in [Video -> Nat] /\ version' \in [Video -> Nat] /\ newest \in [Video -> Nat]
      /\ ToSet(lists) \subseteq [Video -> Nat] \cup {None}
    <2>1. Lists \subseteq [Video -> Nat]
        BY LimitsAssumption DEF Lists, Versions
    <2>2. TypeOK /\ TypeOK'
        BY StepTypes DEF TypeInv
    <2>3. ToSet(lists) \subseteq Lists \cup {None}
        BY <2>2, ElementsOf DEF TypeOK
    <2>4. QED
        BY <2>1, <2>2, <2>3 DEF TypeOK
<1>2. Answers \subseteq [Video -> Nat]
    BY <1>1 DEF Answers
<1>3. AtMost(version, version') /\ \A v \in Video : version'[v] >= version[v]
    BY <1>1, ChangesMove DEF AtMost
<1>4. /\ Answers' \subseteq Answers \cup {version}
      /\ version \in Answers' => version \in Answers \/ version' = version
      /\ \A v \in Video : newest'[v] >= newest[v]
    <2>1. ASSUME NEW x \in ToSet(lists) \ {None},
                 newest' = IF \E v \in Video : x[v] > newest[v] THEN x ELSE newest
          PROVE  newest' \in Answers /\ \A v \in Video : newest'[v] >= newest[v]
        <3>1. x \in Answers /\ newest \in Answers
            BY DEF Answers
        <3>2. AtMost(x, newest) \/ AtMost(newest, x)
            BY <3>1 DEF ListsInv
        <3>3. x \in [Video -> Nat] /\ newest \in [Video -> Nat]
            BY <1>2, <3>1
        <3>4. QED
            BY <2>1, <3>1, <3>2, <3>3 DEF AtMost
    <2>2. (\A v \in Video : newest[v] >= newest[v]) /\ newest \in Answers
        BY <1>1 DEF Answers
    <2>3. QED
        BY <2>1, <2>2, ListMoves DEF Answers
<1>5. \A x \in Answers' : x \in [Video -> Nat] /\ AtMost(x, version)
    BY <1>1, <1>2, <1>4 DEF ListsInv, AtMost
<1>6. \A x \in Answers' : AtMost(x, version')
    BY <1>1, <1>3, <1>5 DEF AtMost
<1>7. \A x, y \in Answers' : AtMost(x, y) \/ AtMost(y, x)
    BY <1>4, <1>5 DEF ListsInv
<1>8. QED
    BY <1>4, <1>6, <1>7 DEF ListsInv, AtMost

LEMMA LoadsStay ==
    ASSUME TypeInv, ListsInv, LoadsInv, [Next]_vars
    PROVE  LoadsInv'
<1> SUFFICES ASSUME spent'.failures = 0, NEW v \in Video \ missed', ~Coming(v)',
                    None \notin ToSet(lists')
             PROVE  newest'[v] = version'[v] \/ \E x \in ToSet(lists') : x[v] = version'[v]
    BY DEF LoadsInv
<1>1. version'[v] = version[v] /\ spent.failures = 0
    BY ChangesMove
<1>2. ListsInv' /\ newest'[v] >= newest[v]
    BY ListsStay
<1>3. newest[v] \in Nat /\ newest'[v] \in Nat /\ version[v] \in Nat /\ newest'[v] <= version'[v]
    <2>1. TypeOK /\ TypeOK'
        BY StepTypes DEF TypeInv
    <2>2. QED
        BY <1>2, <2>1, LimitsAssumption DEF TypeOK, Lists, Versions, ListsInv, Answers, AtMost
<1>4. ~OnMessage /\ ~(OnOpen /\ connectedBefore)
    <2>1. ASSUME NEW c \in Video \cup {Resync}, OnChange(c) PROVE FALSE
        BY <2>1, OnChangeTypes DEF TypeInv
    <2>2. QED
        BY <2>1 DEF OnMessage, OnOpen
<1>5. v \notin missed /\ ~Coming(v)
    BY <1>4, ChangesMove
<1>6. CASE newest[v] = version[v]
    BY <1>1, <1>2, <1>3, <1>6
<1>7. CASE None \in ToSet(lists)
    BY <1>1, <1>7, ListMoves
<1>8. ASSUME NEW x \in ToSet(lists), x[v] = version[v], None \notin ToSet(lists)
      PROVE  newest'[v] = version'[v] \/ \E y \in ToSet(lists') : y[v] = version'[v]
    <2>1. CASE x \in ToSet(lists')
        BY <1>1, <1>8, <2>1
    <2>2. CASE newest' = IF \E u \in Video : x[u] > newest[u] THEN x ELSE newest
        <3>1. x \in Answers /\ x[v] \in Nat
            BY <1>3, <1>8 DEF Answers
        <3>2. CASE newest' = x
            BY <1>1, <1>8, <3>2
        <3>3. CASE newest' = newest /\ ~(x[v] > newest[v])
            BY <1>1, <1>3, <1>8, <3>1, <3>3
        <3>4. QED
            BY <2>2, <3>2, <3>3
    <2>3. QED
        BY <1>1, <1>8, <2>1, <2>2, ListMoves
<1>9. QED
    BY <1>1, <1>5, <1>6, <1>7, <1>8 DEF LoadsInv

-----------------------------------------------------------------------------
(* The video page. *)

LEMMA FetchesStay ==
    ASSUME TypeInv, FetchInv, [Next]_vars
    PROVE  FetchInv'
<1>1. /\ TypeOK /\ TypeOK' /\ fetches \subseteq Fetch /\ fetches' \subseteq Fetch
      /\ version \in [Video -> Nat] /\ version' \in [Video -> Nat] /\ Versions \subseteq Nat
      /\ None \notin Video /\ None \notin Versions /\ Failed \notin Versions
    BY StepTypes, Numbers DEF TypeInv, TypeOK, Fetch
<1>2. CASE UNCHANGED <<fetches, page, shown>>
    <2>1. \A v \in Video : version[v] <= version'[v]
        BY ChangesMove, <1>1
    <2>2. \A f \in fetches : f.answer # None => f.answer <= version'[f.video]
        <3> SUFFICES ASSUME NEW f \in fetches, f.answer # None PROVE f.answer <= version'[f.video]
            OBVIOUS
        <3>1. f.video \in Video /\ f.answer \in Nat /\ f.answer <= version[f.video]
            BY <1>1 DEF FetchInv, Fetch
        <3>2. QED
            BY <1>1, <2>1, <3>1
    <2>3. shown \in Versions => page \in Video /\ shown <= version'[page]
        BY <1>1, <2>1 DEF FetchInv
    <2>4. QED
        BY <1>2, <2>2, <2>3 DEF FetchInv, Wanted, Versions
<1>3. ASSUME NEW v \in Video, Refetch(v), page' = v, version' = version,
             shown' = None \/ (shown' = shown /\ page' = page)
      PROVE  FetchInv'
    <2>1. \A f \in fetches' : f.answer # None => f.answer <= version'[f.video]
        BY <1>1, <1>3, RefetchTypes DEF FetchInv
    <2>2. \A f, g \in Wanted' : f = g
        BY <1>1, <1>3, RefetchTypes
    <2>3. \A f \in Wanted' : f.video = page' /\ f.answer = None
        BY <1>1, <1>3, RefetchTypes DEF Wanted
    <2>4. shown' \in Versions => page' \in Video /\ shown' <= version'[page']
        BY <1>1, <1>3 DEF FetchInv
    <2>5. QED
        BY <2>1, <2>2, <2>3, <2>4 DEF FetchInv, Versions
<1>4. ASSUME NEW v \in Video, Visit(v) PROVE FetchInv'
    BY <1>3, <1>4 DEF Visit, server
<1>5. CASE SeeChange
    <2>1. page \in Video
        BY <1>1, <1>5 DEF SeeChange, TypeInv, TypeOK
    <2>2. version' = version /\ page' = page /\ shown' = shown
        BY <1>5 DEF SeeChange, server
    <2>3. QED
        BY <1>2, <1>3, <1>5, <2>1, <2>2 DEF SeeChange
<1>6. CASE Leave
    <2> DEFINE Off(g) == [g EXCEPT !.cancelled = TRUE]
    <2>1. \A g \in fetches :
             Off(g).cancelled /\ Off(g).answer = g.answer /\ Off(g).video = g.video
        BY <1>1 DEF Fetch
    <2>2. \A f \in fetches' : f.cancelled
                /\ \E g \in fetches : f.answer = g.answer /\ f.video = g.video
        <3>1. \A f \in fetches' : \E g \in fetches : f = Off(g)
            BY <1>6 DEF Leave
        <3> HIDE DEF Off
        <3>2. QED
            BY <2>1, <3>1
    <2>3. version' = version /\ shown' = None
        BY <1>6 DEF Leave, server
    <2>4. QED
        BY <1>1, <2>2, <2>3 DEF FetchInv, Wanted, Versions
<1>7. ASSUME NEW f \in fetches, AnswerFetch(f) PROVE FetchInv'
    <2> DEFINE g == [f EXCEPT !.answer = version[f.video]]
    <2>1. /\ g.video = f.video /\ g.cancelled = f.cancelled /\ g.answer = version[f.video]
          /\ f.video \in Video /\ version[f.video] \in Nat
        BY <1>1 DEF Fetch
    <2> HIDE DEF g
    <2>2. /\ fetches' = (fetches \ {f}) \cup {g}
          /\ UNCHANGED <<version, page, shown>>
        BY <1>7 DEF AnswerFetch, server, g
    <2>3. \A h \in Wanted' : IF h = g THEN f \in Wanted ELSE h \in Wanted /\ h # f
        BY <2>1, <2>2 DEF Wanted
    <2>4. \A h, k \in Wanted' : h = k
        BY <2>3 DEF FetchInv
    <2>5. \A h \in Wanted' : h.video = page'
        BY <2>1, <2>2, <2>3 DEF FetchInv
    <2>6. \A h \in fetches' : h.answer # None => h.answer <= version'[h.video]
        BY <2>1, <2>2 DEF FetchInv
    <2>7. \A h \in Wanted' : h.answer # None /\ shown' \in Versions => shown' <= h.answer
        BY <2>1, <2>2, <2>3 DEF FetchInv
    <2>8. QED
        BY <2>2, <2>4, <2>5, <2>6, <2>7 DEF FetchInv, Versions
<1>8. ASSUME NEW f \in fetches, ReceiveFetch(f) \/ FetchFails(f) PROVE FetchInv'
    <2>1. fetches' = fetches \ {f} /\ UNCHANGED <<version, page>>
        BY <1>8 DEF ReceiveFetch, FetchFails, server
    <2>2. Wanted' = Wanted \ {f}
        BY <2>1 DEF Wanted
    <2>3. shown' # shown => f \in Wanted /\ shown' \in {f.answer, Failed}
        BY <1>8 DEF ReceiveFetch, FetchFails, Wanted
    <2>4. shown' # shown => Wanted' = {}
        BY <2>2, <2>3 DEF FetchInv
    <2>5. shown' \in Versions => page' \in Video /\ shown' <= version'[page']
        <3>1. CASE shown' = shown
            BY <2>1, <3>1 DEF FetchInv
        <3>2. CASE shown' # shown /\ shown' \in Versions
            <4>1. shown' = f.answer /\ f.answer # None /\ f.video = page /\ f.video \in Video
                BY <1>1, <2>3, <3>2 DEF FetchInv, Fetch
            <4>2. QED
                BY <2>1, <4>1 DEF FetchInv
        <3>3. QED
            BY <3>1, <3>2
    <2>6. QED
        BY <2>1, <2>2, <2>4, <2>5 DEF FetchInv, Versions
<1>9. QED
    BY <1>2, <1>4, <1>5, <1>6, <1>7, <1>8 DEF Next, vars, Commit, Publish, PublishFails, Connect,
       Subscribe, Drop, OnOpen, OnMessage, AnswerList, ReceiveList, ListFails, player

LEMMA PageStays ==
    ASSUME TypeInv, FetchInv, PageInv, [Next]_vars
    PROVE  PageInv'
<1> SUFFICES ASSUME page' \notin missed' \cup {None}, ~skipped', ~Coming(page)',
                    ~Concerns(lastChange)'
             PROVE  \/ \E f \in Wanted' : f.answer \in {None, version'[page']}
                    \/ Wanted' = {} /\ shown' \in {version'[page'], Failed}
    BY DEF PageInv
<1> DEFINE Current == \/ \E f \in Wanted' : f.answer \in {None, version'[page']}
                      \/ Wanted' = {} /\ shown' \in {version'[page'], Failed}
<1>1. TypeOK /\ fetches \subseteq Fetch /\ page' \in Video /\ version \in Lists
    BY StepTypes DEF TypeInv, TypeOK, Fetch
<1>2. ASSUME NEW v \in Video, Refetch(v) PROVE Current
    <2>1. [video |-> v, answer |-> None, cancelled |-> FALSE] \in Wanted'
        BY <1>1, <1>2, RefetchTypes
    <2>2. QED
        BY <2>1
<1>3. ASSUME page' = page, UNCHANGED <<fetches, shown>>, \A v \in Video : ~Refetch(v)
      PROVE  Current
    <2>1. Wanted' = Wanted
        BY <1>3 DEF Wanted
    <2>2. version'[page] = version[page]
        BY <1>1, <1>3, ChangesMove DEF Coming
    <2>3. page \in Video /\ page # None
        BY <1>1, <1>3
    <2>4. ASSUME NEW c, OnChange(c) PROVE /\ ~Concerns(c) /\ ~skipped /\ ~Concerns(lastChange)
        BY <1>3, <2>3, <2>4 DEF OnChange, Concerns
    <2>5. page \notin missed
        <3>1. page \in missed => OnOpen /\ connectedBefore
            BY <1>3, <2>3, ChangesMove
        <3>2. OnOpen /\ connectedBefore => OnChange(Resync)
            BY DEF OnOpen
        <3>3. QED
            BY <2>4, <3>1, <3>2 DEF Concerns
    <2>6. ~Coming(page)
        <3>1. ~(OnMessage /\ page = Head(stream))
            BY <2>4 DEF OnMessage, Concerns
        <3>2. QED
            BY <1>3, <2>3, <3>1, ChangesMove DEF Coming
    <2>7. ~skipped /\ ~Concerns(lastChange)
        <3>1. CASE \E c \in Video \cup {Resync} : OnChange(c)
            BY <2>4, <3>1
        <3>2. CASE UNCHANGED <<lastChange, skipped>>
            BY <1>3, <3>2 DEF Concerns
        <3>3. CASE SeeChange /\ ~Concerns(lastChange)
            BY <3>3 DEF SeeChange
        <3>4. ~(SeeChange /\ Concerns(lastChange))
            BY <1>3, <2>3 DEF SeeChange
        <3>5. QED
            BY <1>3, <2>3, <3>1, <3>2, <3>3, <3>4 DEF Next, vars, Commit, Publish, PublishFails,
               Connect, Subscribe, Drop, OnOpen, OnMessage, Leave, Visit, AnswerList, ReceiveList,
               ListFails, AnswerFetch, ReceiveFetch, FetchFails
    <2>8. QED
        BY <1>3, <2>1, <2>2, <2>3, <2>5, <2>6, <2>7 DEF PageInv
<1>4. ASSUME NEW f \in fetches, AnswerFetch(f) PROVE Current
    <2> DEFINE g == [f EXCEPT !.answer = version[f.video]]
    <2>1. g.video = f.video /\ g.cancelled = f.cancelled /\ g.answer = version[f.video]
        BY <1>1 DEF Fetch
    <2> HIDE DEF g
    <2>2. /\ fetches' = (fetches \ {f}) \cup {g} /\ f.answer = None
          /\ UNCHANGED <<version, unannounced, stream, page, shown, lastChange, missed, skipped>>
        BY <1>4 DEF AnswerFetch, server, connection, g
    <2>3. CASE f \in Wanted
        <3>1. g \in Wanted' /\ f.video = page
            BY <2>1, <2>2, <2>3 DEF Wanted, FetchInv
        <3>2. QED
            BY <2>1, <2>2, <3>1
    <2>4. CASE f \notin Wanted
        <3>1. Wanted' = Wanted
            BY <2>1, <2>2, <2>4 DEF Wanted
        <3>2. QED
            BY <2>2, <3>1 DEF PageInv, Coming, Concerns
    <2>5. QED
        BY <2>3, <2>4
<1>5. ASSUME NEW f \in fetches, ReceiveFetch(f) \/ FetchFails(f) PROVE Current
    <2>1. /\ fetches' = fetches \ {f}
          /\ UNCHANGED <<version, unannounced, stream, page, lastChange, missed, skipped>>
        BY <1>5 DEF ReceiveFetch, FetchFails, server, connection
    <2>2. Wanted' = Wanted \ {f}
        BY <2>1 DEF Wanted
    <2>3. \/ \E h \in Wanted : h.answer \in {None, version[page]}
          \/ Wanted = {} /\ shown \in {version[page], Failed}
        BY <2>1 DEF PageInv, Coming, Concerns
    <2>4. CASE f \in Wanted
        <3>1. Wanted = {f} /\ f.answer \in {None, version[page]}
            BY <2>3, <2>4 DEF FetchInv
        <3>2. shown' \in {version[page], Failed}
            BY <1>5, <2>4, <3>1 DEF ReceiveFetch, FetchFails, Wanted
        <3>3. QED
            BY <2>1, <2>2, <3>1, <3>2
    <2>5. CASE f \notin Wanted
        <3>1. Wanted' = Wanted /\ shown' = shown
            BY <1>5, <2>2, <2>5 DEF ReceiveFetch, FetchFails, Wanted
        <3>2. QED
            BY <2>1, <2>3, <3>1
    <2>6. QED
        BY <2>4, <2>5
<1>6. \/ \E v \in Video : Refetch(v)
      \/ page' = page /\ UNCHANGED <<fetches, shown>>
      \/ \E f \in fetches : AnswerFetch(f) \/ ReceiveFetch(f) \/ FetchFails(f)
    <2>1. CASE \E v \in Video : Visit(v)
        BY <2>1 DEF Visit
    <2>2. CASE SeeChange
        BY <1>1, <2>2 DEF SeeChange
    <2>3. ~Leave
        BY DEF Leave
    <2>4. QED
        BY <2>1, <2>2, <2>3 DEF Next, vars, Commit, Publish, PublishFails, Connect, Subscribe,
           Drop, OnOpen, OnMessage, AnswerList, ReceiveList, ListFails, player
<1>7. QED
    BY <1>2, <1>3, <1>4, <1>5, <1>6

-----------------------------------------------------------------------------
(* The theorems. *)

LEMMA AlwaysCatalog == Spec => []CatalogInv
<1>1. CatalogInv /\ [Next]_vars => CatalogInv'
    BY StepTypes, ListsStay, LoadsStay, FetchesStay, PageStays DEF CatalogInv
<1>2. QED
    BY <1>1, InitCatalog, PTL DEF Spec

\* At rest, and if no request failed, the page was sent a list with every change, but for
\* those that did not reach its stream.
THEOREM ChangesAreLoaded == Spec => []EveryChangeIsLoaded
<1>1. CatalogInv => EveryChangeIsLoaded
    <2> SUFFICES ASSUME CatalogInv, AtRest, spent.failures = 0, NEW v \in Video \ missed
                 PROVE  newest[v] = version[v]
        BY DEF EveryChangeIsLoaded
    <2>1. ToSet(lists) = {} /\ ToSet(stream) = {}
        BY DEF AtRest, ToSet
    <2>2. unannounced[v] = 0
        BY DEF AtRest
    <2>3. QED
        BY <2>1, <2>2 DEF CatalogInv, LoadsInv, Coming
<1>2. QED
    BY <1>1, AlwaysCatalog, PTL

\* At rest the open video page shows its video as it is, or an error, but for changes that
\* did not reach it and one that another replaced.
THEOREM PageIsUpToDate == Spec => []PageIsCurrent
<1>1. CatalogInv => PageIsCurrent
    <2> SUFFICES ASSUME CatalogInv, AtRest, page \notin missed \cup {None}, ~skipped
                 PROVE  shown \in {version[page], Failed}
        BY DEF PageIsCurrent
    <2>1. ToSet(stream) = {} /\ Wanted = {}
        BY DEF AtRest, ToSet, Wanted
    <2>2. page \in Video /\ unannounced[page] = 0
        BY DEF AtRest, CatalogInv, TypeInv, TypeOK
    <2>3. ~Concerns(lastChange)
        BY NamesAssumption DEF AtRest, Concerns
    <2>4. QED
        BY <2>1, <2>2, <2>3 DEF CatalogInv, PageInv, Coming
<1>2. QED
    BY <1>1, AlwaysCatalog, PTL

\* An older answer never replaces a newer one on the page of a video.
THEOREM PageOnlyAdvances == Spec => PageNeverGoesBack
<1> DEFINE Advances == page' = page /\ {shown, shown'} \subseteq Versions => shown' >= shown
<1>1. CatalogInv /\ [Next]_vars => [Advances]_vars
    <2> SUFFICES ASSUME CatalogInv, [Next]_vars, page' = page, shown \in Versions,
                        shown' \in Versions
                 PROVE  shown' >= shown
        BY DEF Versions
    <2>1. Versions \subseteq Nat /\ None \notin Versions /\ Failed \notin Versions
        BY LimitsAssumption, NamesAssumption DEF Versions
    <2>2. CASE shown' = shown
        BY <2>1, <2>2
    <2>3. ASSUME NEW f \in fetches, ReceiveFetch(f), shown' # shown PROVE shown' >= shown
        <3>1. f \in Wanted /\ f.answer # None /\ shown' = f.answer
            BY <2>3 DEF ReceiveFetch, Wanted
        <3>2. shown <= f.answer
            BY <3>1 DEF CatalogInv, FetchInv
        <3>3. QED
            BY <2>1, <3>1, <3>2
    <2>4. ~(\E v \in Video : Visit(v)) /\ ~Leave
        BY <2>1 DEF Visit, Leave
    <2>5. \A f \in fetches : FetchFails(f) => shown' = shown
        BY <2>1 DEF FetchFails
    <2>6. QED
        BY <2>2, <2>3, <2>4, <2>5 DEF Next, vars, Commit, Publish, PublishFails, Connect,
           Subscribe, Drop, OnOpen, OnMessage, SeeChange, AnswerList, ReceiveList, ListFails,
           AnswerFetch, player
<1>2. QED
    BY <1>1, AlwaysCatalog, PTL DEF Spec, PageNeverGoesBack
=============================================================================
