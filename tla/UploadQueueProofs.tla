------------------------- MODULE UploadQueueProofs -------------------------
(***************************************************************************)
(* Theorems about UploadQueue, for every number of workers, uploads and    *)
(* faults, and their proofs.                                               *)
(***************************************************************************)
EXTENDS UploadQueue, SequenceTheorems, WellFoundedInduction, TLAPS

-----------------------------------------------------------------------------
(* What the Redis list commands do to the elements of a list. *)

LEMMA MinOfNaturals ==
    ASSUME NEW I \in SUBSET Nat, I # {}
    PROVE  Min(I) \in I
<1>1. PICK m \in I : \A k \in I : ~(<<k, m>> \in OpToRel(<, Nat))
    BY NatLessThanWellFounded, WFMin
<1>2. \A k \in I : m <= k
    <2>1. ASSUME NEW k \in I PROVE ~(k < m)
        BY <1>1, <2>1 DEF OpToRel
    <2>2. QED
        BY <2>1
<1>3. QED
    BY <1>2 DEF Min

LEMMA RemoveFirstIndex ==
    ASSUME NEW S, NEW s \in Seq(S), NEW e, Contains(s, e)
    PROVE  \E i \in 1 .. Len(s) : s[i] = e /\ RemoveFirst(s, e) = RemoveAt(s, i)
<1> DEFINE I == {i \in 1 .. Len(s) : s[i] = e}
<1>1. Min(I) \in I
    <2>1. I \in SUBSET Nat /\ I # {}
        BY DEF Contains
    <2>2. QED
        BY <2>1, MinOfNaturals
<1>2. SelectInSeq(s, LAMBDA v : v = e) = Min(I)
    BY <1>1 DEF SelectInSeq
<1>3. RemoveFirst(s, e) = RemoveAt(s, Min(I))
    BY <1>2 DEF RemoveFirst, Contains
<1>4. QED
    BY <1>1, <1>3

LEMMA RemoveAtElements ==
    ASSUME NEW S, NEW s \in Seq(S), NEW i \in 1 .. Len(s)
    PROVE  /\ RemoveAt(s, i) \in Seq(S)
           /\ Len(RemoveAt(s, i)) = Len(s) - 1
           /\ \A j \in 1 .. Len(s) - 1 :
                 RemoveAt(s, i)[j] = IF j < i THEN s[j] ELSE s[j + 1]
<1> DEFINE a == SubSeq(s, 1, i - 1)
           b == SubSeq(s, i + 1, Len(s))
<1>1. Len(s) \in Nat /\ i - 1 \in Int /\ i + 1 \in Int /\ \A j \in 1 .. Len(s) : s[j] \in S
    OBVIOUS
<1>2. a \in Seq(S) /\ Len(a) = i - 1 /\ \A j \in 1 .. i - 1 : a[j] = s[j]
    BY <1>1, SubSeqProperties
<1>3. b \in Seq(S) /\ Len(b) = Len(s) - i /\ \A j \in 1 .. Len(s) - i : b[j] = s[i + j]
    <2>1. \A j \in i + 1 .. Len(s) : s[j] \in S
        BY <1>1
    <2>2. /\ b \in Seq(S)
          /\ Len(b) = IF i + 1 <= Len(s) THEN Len(s) - (i + 1) + 1 ELSE 0
          /\ \A j \in 1 .. Len(s) - (i + 1) + 1 : b[j] = s[(i + 1) + j - 1]
        BY <1>1, <2>1, SubSeqProperties
    <2>3. QED
        BY <2>2, <1>1
<1>4. RemoveAt(s, i) = a \o b
    BY DEF RemoveAt
<1>5. /\ a \o b \in Seq(S)
      /\ Len(a \o b) = Len(a) + Len(b)
      /\ \A j \in 1 .. Len(a) + Len(b) :
            (a \o b)[j] = IF j <= Len(a) THEN a[j] ELSE b[j - Len(a)]
    BY <1>2, <1>3, ConcatProperties
<1>6. ASSUME NEW j \in 1 .. Len(s) - 1
      PROVE  (a \o b)[j] = IF j < i THEN s[j] ELSE s[j + 1]
    <2> HIDE DEF a, b
    <2>1. CASE j < i
        BY <1>1, <1>2, <1>3, <1>5, <2>1
    <2>2. CASE ~(j < i)
        <3>1. (a \o b)[j] = b[j - (i - 1)]
            BY <1>1, <1>2, <1>3, <1>5, <2>2
        <3>2. b[j - (i - 1)] = s[i + (j - (i - 1))]
            BY <1>1, <1>3, <2>2
        <3>3. QED
            BY <1>1, <2>2, <3>1, <3>2
    <2>3. QED
        BY <2>1, <2>2
<1> HIDE DEF a, b
<1>7. QED
    BY <1>1, <1>2, <1>3, <1>4, <1>5, <1>6

LEMMA RemoveFirstElements ==
    ASSUME NEW S, NEW s \in Seq(S), NEW e
    PROVE  /\ RemoveFirst(s, e) \in Seq(S)
           /\ \A x : Contains(RemoveFirst(s, e), x) => Contains(s, x)
           /\ \A x : Contains(s, x) /\ x # e => Contains(RemoveFirst(s, e), x)
           /\ IsInjective(s) => /\ IsInjective(RemoveFirst(s, e))
                               /\ ~Contains(RemoveFirst(s, e), e)
<1>1. CASE ~Contains(s, e)
    <2>1. RemoveFirst(s, e) = s
        BY <1>1 DEF RemoveFirst, Contains
    <2>2. QED
        BY <1>1, <2>1
<1>2. CASE Contains(s, e)
    <2>1. PICK i \in 1 .. Len(s) : s[i] = e /\ RemoveFirst(s, e) = RemoveAt(s, i)
        BY <1>2, RemoveFirstIndex
    <2> DEFINE r == RemoveFirst(s, e)
    <2>2. /\ r \in Seq(S)
          /\ Len(r) = Len(s) - 1
          /\ \A j \in 1 .. Len(s) - 1 : r[j] = IF j < i THEN s[j] ELSE s[j + 1]
        BY <2>1, RemoveAtElements
    <2>3. Len(s) \in Nat /\ DOMAIN s = 1 .. Len(s) /\ DOMAIN r = 1 .. Len(s) - 1
        BY <2>2
    <2> HIDE DEF r
    <2>4. ASSUME NEW x, Contains(r, x) PROVE Contains(s, x)
        <3>1. PICK j \in 1 .. Len(s) - 1 : r[j] = x
            BY <2>2, <2>4 DEF Contains
        <3>2. j \in 1 .. Len(s) /\ j + 1 \in 1 .. Len(s)
            BY <2>3
        <3>3. s[j] = x \/ s[j + 1] = x
            BY <2>2, <3>1
        <3>4. QED
            BY <3>2, <3>3 DEF Contains
    <2>5. ASSUME NEW x, Contains(s, x), x # e PROVE Contains(r, x)
        <3>1. PICK j \in 1 .. Len(s) : s[j] = x
            BY <2>5 DEF Contains
        <3>2. j # i
            BY <2>1, <2>5, <3>1
        <3>3. CASE j < i
            <4>1. j \in 1 .. Len(s) - 1 /\ r[j] = x
                BY <2>2, <2>3, <3>1, <3>3
            <4>2. QED
                BY <2>2, <4>1 DEF Contains
        <3>4. CASE i < j
            <4>1. j - 1 \in 1 .. Len(s) - 1 /\ ~(j - 1 < i) /\ (j - 1) + 1 = j
                BY <2>3, <3>4
            <4>2. r[j - 1] = x
                BY <2>2, <3>1, <4>1
            <4>3. QED
                BY <2>2, <4>1, <4>2 DEF Contains
        <3>5. QED
            BY <2>3, <3>2, <3>3, <3>4
    <2>6. ASSUME IsInjective(s) PROVE IsInjective(r) /\ ~Contains(r, e)
        <3> DEFINE at(j) == IF j < i THEN j ELSE j + 1
        <3>1. \A j \in 1 .. Len(s) - 1 : at(j) \in 1 .. Len(s) /\ at(j) # i /\ r[j] = s[at(j)]
            BY <2>2, <2>3
        <3>2. \A j, k \in 1 .. Len(s) - 1 : at(j) = at(k) => j = k
            BY <2>3
        <3> HIDE DEF at
        <3>3. \A j, k \in 1 .. Len(s) : s[j] = s[k] => j = k
            BY <2>3, <2>6 DEF IsInjective
        <3>4. IsInjective(r)
            BY <2>3, <3>1, <3>2, <3>3 DEF IsInjective
        <3>5. ~Contains(r, e)
            BY <2>1, <2>2, <3>1, <3>3 DEF Contains
        <3>6. QED
            BY <3>4, <3>5
    <2>7. QED
        BY <2>2, <2>4, <2>5, <2>6 DEF r
<1>3. QED
    BY <1>1, <1>2

LEMMA AppendElements ==
    ASSUME NEW S, NEW s \in Seq(S), NEW e \in S
    PROVE  /\ Append(s, e) \in Seq(S)
           /\ \A x : Contains(Append(s, e), x) <=> Contains(s, x) \/ x = e
           /\ IsInjective(s) /\ ~Contains(s, e) => IsInjective(Append(s, e))
<1> DEFINE r == Append(s, e)
<1>1. /\ r \in Seq(S) /\ Len(r) = Len(s) + 1 /\ Len(s) \in Nat
      /\ \A i \in 1 .. Len(s) : r[i] = s[i]
      /\ r[Len(s) + 1] = e
      /\ DOMAIN s = 1 .. Len(s) /\ DOMAIN r = 1 .. Len(s) + 1
    BY AppendProperties
<1>2. \A i \in 1 .. Len(s) + 1 : i \in 1 .. Len(s) \/ i = Len(s) + 1
    BY <1>1
<1> HIDE DEF r
<1>3. \A x : Contains(r, x) <=> Contains(s, x) \/ x = e
    BY <1>1, <1>2 DEF Contains
<1>4. IsInjective(s) /\ ~Contains(s, e) => IsInjective(r)
    BY <1>1, <1>2 DEF Contains, IsInjective
<1>5. QED
    BY <1>1, <1>3, <1>4 DEF r

LEMMA ConsElements ==
    ASSUME NEW S, NEW s \in Seq(S), NEW e \in S
    PROVE  /\ Cons(e, s) \in Seq(S)
           /\ \A x : Contains(Cons(e, s), x) <=> Contains(s, x) \/ x = e
           /\ IsInjective(s) /\ ~Contains(s, e) => IsInjective(Cons(e, s))
<1> DEFINE r == Cons(e, s)
<1>1. <<e>> \in Seq(S) /\ Len(<<e>>) = 1 /\ <<e>>[1] = e /\ Len(s) \in Nat
    OBVIOUS
<1>2. /\ r \in Seq(S) /\ Len(r) = 1 + Len(s)
      /\ \A i \in 1 .. 1 + Len(s) : r[i] = IF i <= 1 THEN <<e>>[i] ELSE s[i - 1]
    BY <1>1, ConcatProperties DEF Cons
<1>3. DOMAIN s = 1 .. Len(s) /\ DOMAIN r = 1 .. 1 + Len(s)
    BY <1>2
<1> HIDE DEF r
<1>4. r[1] = e /\ \A i \in 1 .. Len(s) : i + 1 \in 1 .. 1 + Len(s) /\ r[i + 1] = s[i]
    BY <1>1, <1>2
<1>5. \A i \in 1 .. 1 + Len(s) : i = 1 \/ (i - 1 \in 1 .. Len(s) /\ r[i] = s[i - 1])
    BY <1>1, <1>2
<1>6. \A x : Contains(r, x) <=> Contains(s, x) \/ x = e
    <2>1. ASSUME NEW x, Contains(r, x) PROVE Contains(s, x) \/ x = e
        <3>1. PICK i \in 1 .. 1 + Len(s) : r[i] = x
            BY <1>2, <2>1 DEF Contains
        <3>2. CASE i = 1
            BY <1>4, <3>1, <3>2
        <3>3. CASE i # 1
            <4>1. i - 1 \in 1 .. Len(s) /\ s[i - 1] = x
                BY <1>5, <3>1, <3>3
            <4>2. QED
                BY <4>1 DEF Contains
        <3>4. QED
            BY <3>2, <3>3
    <2>2. ASSUME NEW x, Contains(s, x) PROVE Contains(r, x)
        <3>1. PICK i \in 1 .. Len(s) : s[i] = x
            BY <2>2 DEF Contains
        <3>2. i + 1 \in 1 .. Len(r) /\ r[i + 1] = x
            BY <1>2, <1>4, <3>1
        <3>3. QED
            BY <3>2 DEF Contains
    <2>3. Contains(r, e)
        <3>1. 1 \in 1 .. Len(r) /\ r[1] = e
            BY <1>1, <1>2, <1>4
        <3>2. QED
            BY <3>1 DEF Contains
    <2>4. QED
        BY <2>1, <2>2, <2>3
<1>7. ASSUME IsInjective(s), ~Contains(s, e) PROVE IsInjective(r)
    <2>1. ASSUME NEW i \in DOMAIN r, NEW j \in DOMAIN r, r[i] = r[j] PROVE i = j
        <3>1. CASE i = 1 /\ j = 1
            BY <3>1
        <3>2. CASE i # 1 /\ j # 1
            <4>1. i - 1 = j - 1
                BY <1>3, <1>5, <1>7, <2>1, <3>2 DEF IsInjective
            <4>2. QED
                BY <1>1, <1>3, <4>1
        <3>3. CASE i = 1 /\ j # 1
            BY <1>3, <1>4, <1>5, <1>7, <2>1, <3>3 DEF Contains
        <3>4. CASE i # 1 /\ j = 1
            BY <1>3, <1>4, <1>5, <1>7, <2>1, <3>4 DEF Contains
        <3>5. QED
            BY <3>1, <3>2, <3>3, <3>4
    <2>2. QED
        BY <2>1 DEF IsInjective
<1>8. QED
    BY <1>2, <1>6, <1>7 DEF r

LEMMA TailElements ==
    ASSUME NEW S, NEW s \in Seq(S), s # <<>>
    PROVE  /\ Tail(s) \in Seq(S) /\ Head(s) \in S /\ Contains(s, Head(s))
           /\ \A x : Contains(Tail(s), x) => Contains(s, x)
           /\ \A x : Contains(s, x) => Contains(Tail(s), x) \/ x = Head(s)
           /\ IsInjective(s) => IsInjective(Tail(s)) /\ ~Contains(Tail(s), Head(s))
<1> DEFINE r == Tail(s)
<1>1. /\ r \in Seq(S) /\ Len(r) = Len(s) - 1 /\ Len(s) \in Nat /\ Len(s) >= 1
      /\ \A i \in 1 .. Len(s) - 1 : r[i] = s[i + 1]
      /\ Head(s) \in S /\ Head(s) = s[1]
      /\ DOMAIN s = 1 .. Len(s) /\ DOMAIN r = 1 .. Len(s) - 1
    BY HeadTailProperties, EmptySeq
<1>2. \A i \in 1 .. Len(s) - 1 : i + 1 \in 1 .. Len(s) /\ i + 1 # 1
    BY <1>1
<1>3. \A i \in 1 .. Len(s) : i = 1 \/ (i - 1 \in 1 .. Len(s) - 1 /\ r[i - 1] = s[i])
    BY <1>1
<1> HIDE DEF r
<1>4. Contains(s, Head(s))
    BY <1>1 DEF Contains
<1>5. \A x : Contains(r, x) => Contains(s, x)
    BY <1>1, <1>2 DEF Contains
<1>6. \A x : Contains(s, x) => Contains(r, x) \/ x = Head(s)
    BY <1>1, <1>3 DEF Contains
<1>7. ASSUME IsInjective(s) PROVE IsInjective(r) /\ ~Contains(r, Head(s))
    <2>1. \A i, j \in 1 .. Len(s) : s[i] = s[j] => i = j
        BY <1>1, <1>7 DEF IsInjective
    <2>2. \A i, j \in 1 .. Len(s) - 1 : i + 1 = j + 1 => i = j
        BY <1>1
    <2>3. IsInjective(r)
        BY <1>1, <1>2, <2>1, <2>2 DEF IsInjective
    <2>4. ~Contains(r, Head(s))
        BY <1>1, <1>2, <2>1 DEF Contains
    <2>5. QED
        BY <2>3, <2>4
<1>8. QED
    BY <1>1, <1>4, <1>5, <1>6, <1>7 DEF r

LEMMA FrontElements ==
    ASSUME NEW S, NEW s \in Seq(S), s # <<>>
    PROVE  /\ Front(s) \in Seq(S) /\ Last(s) \in S /\ Contains(s, Last(s))
           /\ \A x : Contains(Front(s), x) => Contains(s, x)
           /\ \A x : Contains(s, x) => Contains(Front(s), x) \/ x = Last(s)
           /\ IsInjective(s) => IsInjective(Front(s)) /\ ~Contains(Front(s), Last(s))
<1> DEFINE r == Front(s)
<1>1. /\ Len(s) \in Nat /\ Len(s) >= 1 /\ Len(s) - 1 \in Int
      /\ \A i \in 1 .. Len(s) - 1 : s[i] \in S /\ i \in 1 .. Len(s) /\ i # Len(s)
      /\ Last(s) \in S /\ Last(s) = s[Len(s)]
    BY EmptySeq DEF Last
<1>2. /\ r \in Seq(S) /\ Len(r) = IF 1 <= Len(s) - 1 THEN Len(s) - 1 - 1 + 1 ELSE 0
      /\ \A i \in 1 .. Len(s) - 1 - 1 + 1 : r[i] = s[1 + i - 1]
    BY <1>1, SubSeqProperties DEF Front
<1> HIDE DEF r
<1>3. /\ Len(r) = Len(s) - 1
      /\ \A i \in 1 .. Len(s) - 1 : r[i] = s[i]
      /\ DOMAIN s = 1 .. Len(s) /\ DOMAIN r = 1 .. Len(s) - 1
    <2>1. Len(r) = Len(s) - 1
        <3>1. CASE Len(s) = 1
            BY <1>2, <3>1
        <3>2. CASE 1 <= Len(s) - 1
            <4>1. Len(s) - 1 - 1 + 1 = Len(s) - 1
                BY <1>1
            <4>2. QED
                BY <1>2, <3>2, <4>1
        <3>3. \A n \in Nat : n >= 1 => n = 1 \/ 1 <= n - 1
            OBVIOUS
        <3>4. Len(s) = 1 \/ 1 <= Len(s) - 1
            BY <1>1, <3>3
        <3>5. QED
            BY <3>1, <3>2, <3>4
    <2>2. \A i \in 1 .. Len(s) - 1 : i \in 1 .. Len(s) - 1 - 1 + 1 /\ 1 + i - 1 = i
        BY <1>1
    <2>3. \A i \in 1 .. Len(s) - 1 : r[i] = s[i]
        BY <1>2, <2>2
    <2>4. DOMAIN s = 1 .. Len(s) /\ DOMAIN r = 1 .. Len(s) - 1
        BY <1>2, <2>1
    <2>5. QED
        BY <2>1, <2>3, <2>4
<1>4. \A i \in 1 .. Len(s) : i = Len(s) \/ i \in 1 .. Len(s) - 1
    BY <1>1
<1>5. Contains(s, Last(s))
    BY <1>1 DEF Contains
<1>6. \A x : Contains(r, x) => Contains(s, x)
    BY <1>1, <1>3 DEF Contains
<1>7. \A x : Contains(s, x) => Contains(r, x) \/ x = Last(s)
    BY <1>1, <1>3, <1>4 DEF Contains
<1>8. ASSUME IsInjective(s) PROVE IsInjective(r) /\ ~Contains(r, Last(s))
    <2>1. \A i, j \in 1 .. Len(s) : s[i] = s[j] => i = j
        BY <1>3, <1>8 DEF IsInjective
    <2>2. IsInjective(r)
        BY <1>1, <1>3, <2>1 DEF IsInjective
    <2>3. ~Contains(r, Last(s))
        BY <1>1, <1>3, <2>1 DEF Contains
    <2>4. QED
        BY <2>2, <2>3
<1>9. QED
    BY <1>1, <1>2, <1>5, <1>6, <1>7, <1>8 DEF r

-----------------------------------------------------------------------------
(* Type correctness. *)

LEMMA JobTypes ==
    /\ \A job \in Job : job.status \in Statuses /\ job.attempts \in Counts
    /\ \A n \in Counts : Bump(n) \in Counts
    /\ \A job \in Job, st \in Statuses : [job EXCEPT !.status = st] \in Job
    /\ \A job \in Job : [job EXCEPT !.attempts = Bump(@)] \in Job
    /\ [status |-> "pending", attempts |-> 0] \in Job
    /\ NoJob \notin Job
<1>1. MAX_ATTEMPTS \in Nat /\ 0 \in Counts
    BY AttemptsAssumption DEF Counts
<1>2. \A n \in Counts : Bump(n) \in Counts
    BY <1>1 DEF Bump, Counts
<1>3. QED
    BY <1>1, <1>2 DEF Job, Statuses, NoJob

LEMMA CommandTypes ==
    ASSUME RedisOK
    PROVE  /\ \A w \in Worker : SetHeartbeat(w) => RedisOK'
           /\ \A w \in Worker : MoveToOwn(w) => RedisOK' /\ Head(queue) \in Upload
           /\ \A u \in Upload, job \in Job : SetJob(u, job) => RedisOK'
           /\ \A w \in Worker, u \in Upload : RemoveOwn(w, u) => RedisOK'
           /\ \A w \in Worker, u \in Upload : GiveBack(w, u) => RedisOK'
           /\ \A d \in Worker : MoveBack(d) => RedisOK'
           /\ \A u \in Upload : PushNew(u) => RedisOK'
           /\ \A u \in Upload : DropStatus(u) => RedisOK'
<1> USE DEF RedisOK
<1>1. ASSUME NEW w \in Worker, SetHeartbeat(w) PROVE RedisOK'
    BY <1>1 DEF SetHeartbeat
<1>2. ASSUME NEW w \in Worker, MoveToOwn(w) PROVE RedisOK' /\ Head(queue) \in Upload
    <2>1. Head(queue) \in Upload /\ Tail(queue) \in Seq(Upload)
        BY <1>2, TailElements DEF MoveToOwn
    <2>2. Append(processing[w], Head(queue)) \in Seq(Upload)
        BY <2>1, AppendElements
    <2>3. QED
        BY <1>2, <2>1, <2>2 DEF MoveToOwn
<1>3. ASSUME NEW u \in Upload, NEW job \in Job, SetJob(u, job) PROVE RedisOK'
    BY <1>3 DEF SetJob
<1>4. ASSUME NEW w \in Worker, NEW u \in Upload, RemoveOwn(w, u) PROVE RedisOK'
    <2>1. RemoveFirst(processing[w], u) \in Seq(Upload)
        BY RemoveFirstElements
    <2>2. QED
        BY <1>4, <2>1 DEF RemoveOwn
<1>5. ASSUME NEW w \in Worker, NEW u \in Upload, GiveBack(w, u) PROVE RedisOK'
    <2>1. RemoveFirst(processing[w], u) \in Seq(Upload) /\ Cons(u, queue) \in Seq(Upload)
        BY RemoveFirstElements, ConsElements
    <2>2. QED
        BY <1>5, <2>1 DEF GiveBack
<1>6. ASSUME NEW d \in Worker, MoveBack(d) PROVE RedisOK'
    <2>1. processing[d] \in Seq(Upload) /\ processing[d] # <<>>
        BY <1>6 DEF MoveBack
    <2>2. Front(processing[d]) \in Seq(Upload) /\ Last(processing[d]) \in Upload
        BY <2>1, FrontElements
    <2>3. Cons(Last(processing[d]), queue) \in Seq(Upload)
        BY <2>2, ConsElements
    <2>4. QED
        BY <1>6, <2>2, <2>3 DEF MoveBack
<1>7. ASSUME NEW u \in Upload, PushNew(u) PROVE RedisOK'
    <2>1. Append(queue, u) \in Seq(Upload)
        BY AppendElements
    <2>2. QED
        BY <1>7, <2>1, JobTypes DEF PushNew
<1>8. ASSUME NEW u \in Upload, DropStatus(u) PROVE RedisOK'
    BY <1>8 DEF DropStatus
<1>9. QED
    BY <1>1, <1>2, <1>3, <1>4, <1>5, <1>6, <1>7, <1>8

LEMMA InitTypes == Init => TypeOK
<1>1. 0 \in Counts
    BY AttemptsAssumption DEF Counts
<1>2. ASSUME Init PROVE RedisOK
    <2>1. <<>> \in Seq(Upload)
        BY EmptySeq
    <2>2. QED
        BY <1>2, <2>1 DEF Init, RedisOK
<1>3. QED
    BY <1>1, <1>2, BoundsAssumption
    DEF Init, TypeOK, ThreadOK, WatchOK, RestOK, Handling

LEMMA WorkTypes == ASSUME TypeOK, NEW w \in Worker, WorkStep(w) PROVE TypeOK'
<1> USE DEF TypeOK, ThreadOK, WatchOK, RestOK, Handling, Goto, Leave, redis, locals, watcher, calls
<1>1. CASE LoopTop(w)
    BY <1>1 DEF RedisOK, LoopTop
<1>2. CASE ClaimTimeout(w)
    BY <1>2 DEF RedisOK, ClaimTimeout
<1>3. CASE LoadMissing(w)
    BY <1>3 DEF RedisOK, LoadMissing
<1>4. CASE ConcludeGone(w)
    BY <1>4 DEF RedisOK, ConcludeGone
<1>5. CASE Raise(w)
    BY <1>5 DEF RedisOK, Raise
<1>6. CASE Heartbeat(w)
    <2>1. RedisOK'
        BY <1>6, CommandTypes DEF Heartbeat
    <2>2. QED
        BY <1>6, <2>1 DEF Heartbeat, SetHeartbeat
<1>7. CASE Claim(w)
    <2>1. RedisOK' /\ Head(queue) \in Upload
        BY <1>7, CommandTypes DEF Claim
    <2>2. QED
        BY <1>7, <2>1 DEF Claim
<1>8. CASE Load(w)
    <2>1. jobs[held[w]] \in Job
        BY <1>8 DEF Load, RedisOK
    <2>2. QED
        BY <1>8, <2>1, JobTypes DEF Load, RedisOK
<1>9. CASE Drop(w)
    <2>1. RedisOK'
        BY <1>9, CommandTypes DEF Drop
    <2>2. QED
        BY <1>9, <2>1 DEF Drop, NoJob
<1>10. CASE Ack(w)
    <2>1. RedisOK'
        BY <1>10, CommandTypes DEF Ack
    <2>2. QED
        BY <1>10, <2>1 DEF Ack, NoJob
<1>11. CASE Release(w)
    <2>1. RedisOK'
        BY <1>11, CommandTypes DEF Release
    <2>2. QED
        BY <1>11, <2>1 DEF Release
<1>12. CASE Count(w)
    <2>1. RedisOK'
        BY <1>12, CommandTypes DEF Count
    <2>2. Bump(begun[held[w]]) \in Counts
        BY <1>12, JobTypes DEF Count
    <2>3. QED
        BY <1>12, <2>1, <2>2 DEF Count
<1>13. CASE Tell(w)
    <2>1. CASE jobs[held[w]] = NoJob
        <3>1. /\ pc' = [pc EXCEPT ![w] = AfterTell(w)] /\ UNCHANGED copy
              /\ UNCHANGED <<redis, held, goal, begun, life, watcher, calls, faults>>
            BY <1>13, <2>1 DEF Tell
        <3>2. pc[w] = "tell" /\ AfterTell(w) \in {"handle", "ack"}
            BY <1>13 DEF Tell, AfterTell
        <3>3. QED
            BY <3>1, <3>2 DEF RedisOK
    <2>2. CASE jobs[held[w]] # NoJob
        <3>1. jobs[held[w]] \in Job /\ goal[w] \in Statuses
            BY <1>13, <2>2 DEF Tell, RedisOK, Statuses
        <3> DEFINE told == [jobs[held[w]] EXCEPT !.status = goal[w]]
        <3>2. told \in Job
            BY <3>1, JobTypes
        <3>3. /\ pc' = [pc EXCEPT ![w] = "save"]
              /\ copy' = [copy EXCEPT ![w] = told]
              /\ UNCHANGED <<redis, held, goal, begun, life, watcher, calls, faults>>
            BY <1>13, <2>2 DEF Tell
        <3> HIDE DEF told
        <3>4. pc[w] = "tell"
            BY <1>13 DEF Tell
        <3>5. QED
            BY <3>2, <3>3, <3>4 DEF RedisOK
    <2>3. QED
        BY <2>1, <2>2
<1>14. CASE Save(w)
    <2>1. RedisOK'
        BY <1>14, CommandTypes DEF Save
    <2>2. QED
        BY <1>14, <2>1 DEF Save, AfterTell
<1>15. CASE (\E s \in Finished : Conclude(w, s))
    BY <1>15 DEF RedisOK, Conclude, Finished
<1>16. QED
    BY <1>1, <1>2, <1>3, <1>4, <1>5, <1>6, <1>7, <1>8, <1>9, <1>10, <1>11, <1>12, <1>13, <1>14, <1>15 DEF WorkStep

LEMMA WatchTypes == ASSUME TypeOK, NEW w \in Worker, WatchStep(w) PROVE TypeOK'
<1> USE DEF TypeOK, ThreadOK, WatchOK, RestOK, Handling, Goto, Leave, redis, locals, thread, watcher, calls
<1>1. CASE WatchTop(w)
    BY <1>1 DEF RedisOK, WatchTop
<1>2. CASE ScanEnd(w)
    BY <1>2 DEF RedisOK, ScanEnd
<1>3. CASE SweepEnd(w)
    BY <1>3 DEF RedisOK, SweepEnd
<1>4. CASE WatchBeat(w)
    <2>1. RedisOK'
        BY <1>4, CommandTypes DEF WatchBeat
    <2>2. QED
        BY <1>4, <2>1 DEF WatchBeat, SetHeartbeat
<1>5. CASE (\E d \in Worker : SweepBegin(w, d))
    BY <1>5 DEF RedisOK, SweepBegin
<1>6. CASE SweepMove(w)
    <2>1. RedisOK'
        BY <1>6, CommandTypes DEF SweepMove
    <2>2. QED
        BY <1>6, <2>1 DEF SweepMove
<1>7. QED
    BY <1>1, <1>2, <1>3, <1>4, <1>5, <1>6 DEF WatchStep

LEMMA LifeTypes == ASSUME TypeOK, NEW w \in Worker, LifeStep(w) PROVE TypeOK'
<1> USE DEF TypeOK, ThreadOK, WatchOK, RestOK, Handling, Goto, Leave, redis, locals, thread, watcher, calls
<1>1. CASE Start(w)
    BY <1>1 DEF RedisOK, Start
<1>2. CASE Stop(w)
    BY <1>2 DEF RedisOK, Stop
<1>3. CASE Retire(w)
    <2>1. faults' \in [lapse : 0 .. MaxLapses, redis : 0 .. MaxRedisFaults, resend : 0 .. MaxResends]
        BY <1>3, BoundsAssumption DEF Retire
    <2>2. QED
        BY <1>3, <2>1 DEF RedisOK, Retire
<1>4. CASE RetireFails(w)
    <2>1. faults' \in [lapse : 0 .. MaxLapses, redis : 0 .. MaxRedisFaults, resend : 0 .. MaxResends]
        BY <1>4, BoundsAssumption DEF RetireFails
    <2>2. QED
        BY <1>4, <2>1 DEF RedisOK, RetireFails
<1>5. CASE Exit(w) \/ Crash(w)
    <2>1. End(w)
        BY <1>5 DEF Exit, Crash
    <2>2. ThreadOK'
        BY <2>1 DEF End, NoJob
    <2>3. QED
        BY <2>1, <2>2 DEF End, RedisOK
<1>6. CASE Expire(w)
    BY <1>6 DEF RedisOK, Expire
<1>7. CASE Lapse(w)
    <2>1. faults' \in [lapse : 0 .. MaxLapses, redis : 0 .. MaxRedisFaults, resend : 0 .. MaxResends]
        BY <1>7, BoundsAssumption DEF Lapse
    <2>2. QED
        BY <1>7, <2>1 DEF RedisOK, Lapse
<1>8. QED
    BY <1>1, <1>2, <1>3, <1>4, <1>5, <1>6, <1>7 DEF LifeStep

LEMMA CommandTyped == ASSUME TypeOK, NEW w \in Worker, Command(w) PROVE RedisOK'
    BY CommandTypes DEF TypeOK, ThreadOK, Handling, Command

LEMMA FaultTypes == ASSUME TypeOK, NEW w \in Worker, FaultStep(w) PROVE TypeOK'
<1> USE DEF TypeOK, ThreadOK, WatchOK, RestOK, Handling, Goto, Leave, redis, locals, thread, watcher, calls
<1>1. CASE CallFails(w)
    <2>1. RedisOK'
        BY <1>1, CommandTyped DEF CallFails, RedisOK
    <2>2. faults' \in [lapse : 0 .. MaxLapses, redis : 0 .. MaxRedisFaults, resend : 0 .. MaxResends]
        BY <1>1, BoundsAssumption DEF CallFails
    <2>3. ThreadOK'
        <3>1. CASE pc[w] \in {"tell", "save"}
            BY <1>1, <3>1 DEF CallFails
        <3>2. CASE pc[w] \notin {"tell", "save"}
            BY <1>1, <3>2 DEF CallFails
        <3>3. QED
            BY <3>1, <3>2
    <2>4. QED
        BY <1>1, <2>1, <2>2, <2>3 DEF CallFails
<1>2. CASE Resend(w)
    <2>1. RedisOK'
        BY <1>2, CommandTyped DEF Resend
    <2>2. faults' \in [lapse : 0 .. MaxLapses, redis : 0 .. MaxRedisFaults, resend : 0 .. MaxResends]
        BY <1>2, BoundsAssumption DEF Resend
    <2>3. QED
        BY <1>2, <2>1, <2>2 DEF Resend
<1>3. CASE WatchFails(w)
    <2>1. RedisOK'
        BY <1>3, CommandTypes DEF WatchFails, RedisOK
    <2>2. faults' \in [lapse : 0 .. MaxLapses, redis : 0 .. MaxRedisFaults, resend : 0 .. MaxResends]
        BY <1>3, BoundsAssumption DEF WatchFails
    <2>3. QED
        BY <1>3, <2>1, <2>2 DEF WatchFails
<1>4. QED
    BY <1>1, <1>2, <1>3 DEF FaultStep

LEMMA CallTypes == ASSUME TypeOK, NEW u \in Upload, CallStep(u) PROVE TypeOK'
<1> USE DEF TypeOK, ThreadOK, WatchOK, RestOK, Handling, Goto, Leave, redis, locals, thread, watcher, calls
<1>1. CASE Enqueue(u)
    <2>1. RedisOK'
        BY <1>1, CommandTypes DEF Enqueue
    <2>2. QED
        BY <1>1, <2>1 DEF Enqueue
<1>2. CASE EnqueueFails(u)
    <2>1. RedisOK'
        BY <1>2, CommandTypes DEF EnqueueFails, RedisOK
    <2>2. faults' \in [lapse : 0 .. MaxLapses, redis : 0 .. MaxRedisFaults, resend : 0 .. MaxResends]
        BY <1>2, BoundsAssumption DEF EnqueueFails
    <2>3. QED
        BY <1>2, <2>1, <2>2 DEF EnqueueFails
<1>3. CASE EnqueueResend(u)
    <2>1. RedisOK'
        BY <1>3, CommandTypes DEF EnqueueResend
    <2>2. faults' \in [lapse : 0 .. MaxLapses, redis : 0 .. MaxRedisFaults, resend : 0 .. MaxResends]
        BY <1>3, BoundsAssumption DEF EnqueueResend
    <2>3. QED
        BY <1>3, <2>1, <2>2 DEF EnqueueResend
<1>4. CASE ForgetFails(u)
    <2>1. RedisOK'
        BY <1>4, CommandTypes DEF ForgetFails, RedisOK
    <2>2. faults' \in [lapse : 0 .. MaxLapses, redis : 0 .. MaxRedisFaults, resend : 0 .. MaxResends]
        BY <1>4, BoundsAssumption DEF ForgetFails
    <2>3. QED
        BY <1>4, <2>1, <2>2 DEF ForgetFails
<1>5. CASE ForgetRead(u)
    BY <1>5 DEF RedisOK, ForgetRead
<1>6. CASE ForgetDelete(u)
    <2>1. RedisOK'
        BY <1>6, CommandTypes DEF ForgetDelete
    <2>2. QED
        BY <1>6, <2>1 DEF ForgetDelete
<1>7. CASE ForgetAbandoned(u)
    BY <1>7 DEF RedisOK, ForgetAbandoned
<1>8. CASE ExpireStatus(u)
    BY <1>8 DEF RedisOK, ExpireStatus
<1>9. QED
    BY <1>1, <1>2, <1>3, <1>4, <1>5, <1>6, <1>7, <1>8 DEF CallStep

LEMMA StepTypes == TypeOK /\ [Next]_vars => TypeOK'
<1> SUFFICES ASSUME TypeOK, [Next]_vars PROVE TypeOK'
    OBVIOUS
<1>1. CASE UNCHANGED vars
    BY <1>1 DEF TypeOK, RedisOK, ThreadOK, WatchOK, RestOK, Handling, vars
<1>2. CASE Next
    BY <1>2, WorkTypes, WatchTypes, LifeTypes, FaultTypes, CallTypes DEF Next
<1>3. QED
    BY <1>1, <1>2

\* Every reachable state is well typed: the lists of UploadQueue hold uploads only, and a
\* worker in the middle of a job has the id and the job dict that claim returned.
THEOREM TypeCorrect == Spec => []TypeOK
<1>1. QED
    BY InitTypes, StepTypes, PTL DEF Spec

=============================================================================
