--------------------------- MODULE StreamingProofs ---------------------------
(***************************************************************************)
(* What holds of the streaming service for files of every size, headers of *)
(* every kind, and any number of requests and faults: the range is inside  *)
(* the file, the answer is what the header names, and what is sent is what *)
(* was announced.                                                          *)
(***************************************************************************)
EXTENDS Streaming, FiniteSetTheorems, TLAPS

-----------------------------------------------------------------------------
(* parse_range. *)

\* The texts of a header, as int() sees them.
LEMMA HeaderTexts ==
    ASSUME NEW h \in Header
    PROVE  /\ h.first \in {Empty, Word} \cup Nat
           /\ h.last \in {Empty, Word} \cup Int
           /\ h.first # Empty => h.form = "range"
<1>1. CASE h \in {Plain(f) : f \in {"absent", "unit", "several", "dashless"}}
  <2>1. PICK f \in {"absent", "unit", "several", "dashless"} : h = Plain(f)
    BY <1>1
  <2> QED
    BY <2>1 DEF Plain
<1>2. CASE h \in [form : {"range"}, first : {Empty, Word} \cup (Positions \cap Nat),
                  last : {Empty, Word} \cup Positions]
  BY <1>2, TextsAssumption
<1> QED
  BY <1>1, <1>2 DEF Header

\* The ranges that parse_range makes of a header it can read.
Read(h) == h.form = "range" /\ Word \notin {h.first, h.last}

LEMMA ReadRange ==
    ASSUME NEW h \in Header, NEW n \in Nat, Read(h), h.first # Empty,
           NEW end \in Int, end = IF h.last = Empty THEN n - 1 ELSE h.last
    PROVE  /\ h.first \in Nat
           /\ ParseRange(h, n) = FromTo(h.first, end, n)
  BY HeaderTexts, TextsAssumption, SMT DEF ParseRange, Read

LEMMA ReadSuffix ==
    ASSUME NEW h \in Header, NEW n \in Nat, Read(h), h.first = Empty, h.last # Empty
    PROVE  /\ h.last \in Int
           /\ ParseRange(h, n) = Suffix(h.last, n)
  BY HeaderTexts, TextsAssumption, SMT DEF ParseRange, Read

LEMMA NotUnderstood ==
    ASSUME NEW h \in Header, NEW n \in Nat, ~Understood(h)
    PROVE  ParseRange(h, n) = Whole(n)
  BY HeaderTexts, TextsAssumption, SMT DEF ParseRange, Understood

\* A range lies in the file, and is empty for an empty file only.
Fits(r, n) ==
    /\ r.kind \in {"whole", "span"} /\ r.start \in Nat /\ r.end \in Int
    /\ r.end - r.start + 1 \in Nat
    /\ r.end < n
    /\ r.end - r.start + 1 = 0 => n = 0 /\ r.start = 0

LEMMA RangeFits ==
    ASSUME NEW h \in Header, NEW n \in Nat
    PROVE  ParseRange(h, n) = Refused \/ Fits(ParseRange(h, n), n)
<1> DEFINE r == ParseRange(h, n)
<1>0. Fits(Whole(n), n)
  BY SMT DEF Fits, Whole
<1>1. CASE ~Understood(h)
  BY <1>0, <1>1, NotUnderstood
<1>2. CASE Understood(h) /\ h.first = Empty
  <2>1. h.last \in Int /\ r = Suffix(h.last, n)
    BY <1>2, ReadSuffix DEF Understood, Read
  <2> QED
    BY <2>1, SMT DEF Suffix, Fits, Span, Larger, Refused
<1>3. CASE Understood(h) /\ h.first # Empty
  <2> DEFINE end == IF h.last = Empty THEN n - 1 ELSE h.last
  <2>1. end \in Int
    BY <1>3, HeaderTexts DEF Understood
  <2>2. h.first \in Nat /\ r = FromTo(h.first, end, n)
    BY <1>3, <2>1, ReadRange DEF Understood, Read
  <2> HIDE DEF end
  <2> QED
    BY <1>0, <2>1, <2>2, SMT DEF FromTo, Fits, Span, Smaller, Refused
<1> QED
  BY <1>1, <1>2, <1>3

\* The last n bytes of a file, counted.
LEMMA LastBytes ==
    ASSUME NEW n \in Nat, NEW p \in 0 .. n - 1
    PROVE  Cardinality({q \in 0 .. n - 1 : p <= q}) = n - p
<1>1. {q \in 0 .. n - 1 : p <= q} = p .. n - 1
  BY SMT
<1>2. Cardinality(p .. n - 1) = n - p
  BY FS_Interval, SMT
<1> QED
  BY <1>1, <1>2

\* What is sent for a header is what the header names.
Named(r) ==
    /\ r.kind = "span" => /\ WellFormed(header)
                          /\ r.start .. r.end = Names(header)
                          /\ r.start <= r.end \/ size = 0
    /\ r.kind = "whole" => r.start = 0 /\ r.end = size - 1 /\ ~WellFormed(header)
    /\ r.kind = "refused" /\ WellFormed(header) => Names(header) = {}

LEMMA RangeIsNamed ==
    ASSUME header \in Header, size \in Nat
    PROVE  Named(ParseRange(header, size))
<1> DEFINE r == ParseRange(header, size)
<1>1. CASE ~Understood(header)
  <2>1. r = Whole(size)
    BY <1>1, NotUnderstood
  <2> QED
    BY <1>1, <2>1 DEF Named, Whole, WellFormed
<1>2. CASE Understood(header) /\ header.first = Empty
  <2>1. header.last \in Int /\ r = Suffix(header.last, size)
    BY <1>2, ReadSuffix DEF Understood, Read
  <2>2. Names(header) = {p \in File : size - p <= header.last}
    BY <1>2, LastBytes DEF Names, File
  <2>3. header.last <= 0 => Names(header) = {}
    BY <2>1, <2>2, SMT DEF File
  <2>4. header.last > 0 => Larger(size - header.last, 0) .. size - 1 = Names(header)
    BY <2>1, <2>2, SMT DEF File, Larger
  <2> QED
    BY <1>2, <2>1, <2>3, <2>4, SMT DEF Named, WellFormed, Suffix, Span, Refused, Larger
<1>3. CASE Understood(header) /\ header.first # Empty
  <2> DEFINE end == IF header.last = Empty THEN size - 1 ELSE header.last
  <2>1. end \in Int
    BY <1>3, HeaderTexts DEF Understood
  <2>2. header.first \in Nat /\ r = FromTo(header.first, end, size)
    BY <1>3, <2>1, ReadRange DEF Understood, Read
  <2>3. Names(header) = {p \in File : header.first <= p /\ p <= end}
    BY <1>3, SMT DEF Names, File
  <2>4. header.first < size => (WellFormed(header) <=> header.first <= end)
    BY <1>3, <2>1, <2>2, SMT DEF WellFormed
  <2> HIDE DEF end
  <2>6. header.first >= size => Names(header) = {}
    BY <2>1, <2>2, <2>3, SMT DEF File
  <2>5. header.first < size => header.first .. Smaller(end, size - 1) = Names(header)
    BY <2>1, <2>2, <2>3, SMT DEF File, Smaller
  <2> QED
    BY <1>3, <2>1, <2>2, <2>4, <2>5, <2>6, SMT DEF Named, FromTo, Span, Smaller, Refused, Whole
<1> QED
  BY <1>1, <1>2, <1>3

-----------------------------------------------------------------------------
(* The service. *)

\* The inductive invariant: an answer with a body lies in the file, and the body that was
\* opened for it is the announced one.
StreamInv ==
    /\ TypeOK
    /\ pc \in {"stat", "get"} => sent = 0
    /\ pc \in {"get", "body"} => /\ answer.start + answer.length <= size
                                 /\ answer.length = 0 => size = 0
    /\ pc = "body" => body = [first |-> answer.start, length |-> answer.length]
    /\ BytesInPlace
    /\ AnswerIsRequested

LEMMA InitStreams == Init => StreamInv
  BY SizesAssumption, BoundsAssumption, SMT
  DEF Init, StreamInv, TypeOK, Plain, Header, NoAnswer, NoBody, Status, BytesInPlace,
      AnswerIsRequested

\* An answer other than 200, 206 and 416 promises nothing, and neither does a new request.
LEMMA FailureIsRequested ==
    ASSUME answer'.status \notin {200, 206, 416}
    PROVE  AnswerIsRequested'
  BY DEF AnswerIsRequested

LEMMA SameAnswer ==
    ASSUME AnswerIsRequested, UNCHANGED <<size, header, answer>>
    PROVE  AnswerIsRequested'
  BY DEF AnswerIsRequested, Announced, Names, File, Understood, WellFormed

LEMMA RequestStreams ==
    ASSUME StreamInv, NEW h \in Header, Request(h), asks' \in 0 .. MaxAsks
    PROVE  StreamInv'
<1>1. AnswerIsRequested'
  BY FailureIsRequested DEF Request, NoAnswer
<1> QED
  BY <1>1, SMT DEF StreamInv, Request, TypeOK, NoAnswer, NoBody, Status, BytesInPlace

LEMMA AskStreams ==
    ASSUME StreamInv, NEW h \in Header, Ask(h)
    PROVE  StreamInv'
  BY RequestStreams, BoundsAssumption, SMT DEF Ask, StreamInv, TypeOK

LEMMA ContinueStreams ==
    ASSUME StreamInv, Continue
    PROVE  StreamInv'
<1>1. PICK p \in Lacking : Request([form |-> "range", first |-> p, last |-> Empty])
  BY DEF Continue
<1>2. [form |-> "range", first |-> p, last |-> Empty] \in Header
  BY PlayerAssumption, SizesAssumption, SMT DEF StreamInv, TypeOK, Lacking, Header
<1>3. asks' \in 0 .. MaxAsks
  BY DEF Continue, StreamInv, TypeOK
<1> QED
  BY <1>1, <1>2, <1>3, RequestStreams

\* The failures: 404, and 500 with or without a fault of MinIO.
LEMMA FailureStreams ==
    ASSUME StreamInv, NEW code \in {404, 500}, Answer(Failure(code)), UNCHANGED <<Rest, body>>,
           faults' \in 0 .. MaxFaults
    PROVE  StreamInv'
<1>1. AnswerIsRequested'
  BY FailureIsRequested DEF Answer, Failure
<1> QED
  BY <1>1, SMT DEF StreamInv, Answer, Failure, Rest, TypeOK, Status, BytesInPlace

LEMMA StatFoundStreams ==
    ASSUME StreamInv, StatFound
    PROVE  StreamInv'
<1> DEFINE r == ParseRange(header, size)
<1> USE DEF Rest
<1>0. header \in Header /\ size \in Nat /\ pc = "stat"
  BY SizesAssumption DEF StreamInv, TypeOK, StatFound
<1>1. r = Refused \/ Fits(r, size)
  BY <1>0, RangeFits
<1>2. Named(r)
  BY <1>0, RangeIsNamed
<1>3. Names(header)' = Names(header) /\ WellFormed(header)' = WellFormed(header) /\ File' = File
  BY DEF StatFound, Names, Understood, WellFormed, File
<1> HIDE DEF r
<1>4. CASE r.kind = "refused"
  <2>1. answer' = Failure(416) /\ pc' = "idle" /\ UNCHANGED <<Rest, body, faults>>
    BY <1>4 DEF StatFound, Answer, r
  <2>2. AnswerIsRequested'
    BY <2>1, <1>2, <1>3, <1>4 DEF AnswerIsRequested, Failure, Named
  <2> QED
    BY <2>1, <2>2, SMT DEF StreamInv, Failure, TypeOK, Status, BytesInPlace
<1>5. CASE r.kind # "refused"
  <2>1. /\ answer' = [status |-> IF r.kind = "span" THEN 206 ELSE 200,
                      start |-> r.start, length |-> r.end - r.start + 1]
        /\ pc' = "get" /\ UNCHANGED <<Rest, body, faults>>
    BY <1>5 DEF StatFound, r
  <2>2. Fits(r, size)
    BY <1>1, <1>5 DEF Refused
  <2>3. Announced' = r.start .. r.end
    BY <2>1, <2>2, SMT DEF Announced, Fits
  <2>4. AnswerIsRequested'
    <3>1. CASE r.kind = "span"
      BY <3>1, <1>0, <1>2, <1>3, <2>1, <2>2, <2>3, SMT DEF AnswerIsRequested, Named, Fits
    <3>2. CASE r.kind = "whole"
      BY <3>2, <1>0, <1>2, <1>3, <2>1, <2>2, <2>3, SMT DEF AnswerIsRequested, Named, Fits, File
    <3> QED
      BY <3>1, <3>2, <2>2 DEF Fits
  <2>5. answer'.start + answer'.length <= size' /\ (answer'.length = 0 => size' = 0)
    BY <1>0, <2>1, <2>2, SMT DEF Fits
  <2>6. TypeOK'
    BY <2>1, <2>2, SMT DEF StreamInv, TypeOK, Fits, Status
  <2> QED
    BY <1>0, <2>1, <2>4, <2>5, <2>6, SMT DEF StreamInv, BytesInPlace
<1> QED
  BY <1>4, <1>5

LEMMA OpenStreams ==
    ASSUME StreamInv, Open
    PROVE  StreamInv'
<1> USE DEF Rest
<1>1. body' = [first |-> answer.start, length |-> answer.length]
  BY SizesAssumption, SMT DEF Open, GetObject, Smaller, StreamInv, TypeOK
<1>2. AnswerIsRequested'
  BY SameAnswer DEF Open, StreamInv
<1> QED
  BY <1>1, <1>2, SMT DEF Open, StreamInv, TypeOK, BytesInPlace

LEMMA SendChunkStreams ==
    ASSUME StreamInv, SendChunk
    PROVE  StreamInv'
<1> DEFINE n == Smaller(CHUNK_SIZE, body.length - sent)
           new == {<<answer.start + i, body.first + i>> : i \in sent .. sent + n - 1}
<1>0. size \in Nat /\ answer.start \in Nat /\ answer.length \in Nat /\ sent \in Nat
  BY SizesAssumption DEF StreamInv, TypeOK
<1>1. body = [first |-> answer.start, length |-> answer.length] /\ pc = "body"
      /\ answer.start + answer.length <= size
  BY DEF StreamInv, SendChunk
<1>2. n \in Nat /\ sent + n <= answer.length
  BY <1>0, <1>1, ChunkAssumption, SMT DEF SendChunk, Smaller
<1>3. sent' = sent + n /\ received' = received \cup new
  BY DEF SendChunk
<1> HIDE DEF n
<1>4. \A r \in new : r[1] = r[2] /\ r \in (0 .. size - 1) \X (0 .. size - 1)
  BY <1>0, <1>1, <1>2, SMT
<1> HIDE DEF new
<1>5. AnswerIsRequested'
  BY SameAnswer DEF SendChunk, StreamInv
<1>6. BytesInPlace'
  BY <1>3, <1>4 DEF BytesInPlace, StreamInv
<1>7. received' \subseteq (0 .. size - 1) \X (0 .. size - 1)
  BY <1>3, <1>4 DEF StreamInv, TypeOK
<1>8. sent' \in Nat /\ sent' <= body.length
  BY <1>0, <1>1, <1>2, <1>3, SMT
<1> QED
  BY <1>1, <1>5, <1>6, <1>7, <1>8, SMT DEF SendChunk, StreamInv, TypeOK

LEMMA QuietStreams ==
    ASSUME StreamInv, UNCHANGED <<size, header, answer, body, sent, received, asks>>,
           pc' \in {pc, "idle"}, object' \in {"none", "stored", "removed"},
           faults' \in 0 .. MaxFaults
    PROVE  StreamInv'
<1>1. AnswerIsRequested'
  BY SameAnswer DEF StreamInv
<1> QED
  BY <1>1, SMT DEF StreamInv, TypeOK, BytesInPlace

LEMMA NextStreams ==
    ASSUME StreamInv, [Next]_vars
    PROVE  StreamInv'
<1>0. faults \in 0 .. MaxFaults /\ (Fault => faults' \in 0 .. MaxFaults)
      /\ object \in {"none", "stored", "removed"} /\ asks \in 0 .. MaxAsks
  BY BoundsAssumption, SMT DEF Fault, StreamInv, TypeOK
<1>1. CASE \E h \in Header : Ask(h)
  BY <1>1, AskStreams
<1>2. CASE Continue
  BY <1>2, ContinueStreams
<1>3. CASE StatMissing \/ OpenMissing \/ MinioFails
  BY <1>3, <1>0, FailureStreams DEF StatMissing, OpenMissing, MinioFails
<1>4. CASE StatFound
  BY <1>4, StatFoundStreams
<1>5. CASE Open
  BY <1>5, OpenStreams
<1>6. CASE SendChunk
  BY <1>6, SendChunkStreams
<1>7. CASE BodyEnds
  BY <1>7, <1>0, QuietStreams DEF BodyEnds, Rest
<1>8. CASE BodyCut
  BY <1>8, <1>0, QuietStreams DEF BodyCut, Rest
<1>9. CASE Bucket
  BY <1>9, <1>0, QuietStreams DEF Bucket, Store, Remove
<1>10. CASE UNCHANGED vars
  BY <1>10, <1>0, QuietStreams DEF vars
<1> QED
  BY <1>1, <1>2, <1>3, <1>4, <1>5, <1>6, <1>7, <1>8, <1>9, <1>10 DEF Next, Serve

LEMMA AlwaysStreams == Spec => []StreamInv
  BY InitStreams, NextStreams, PTL DEF Spec

\* Every reachable state is well typed; in particular the player never has a byte for a
\* position outside the file (_iter_object), whatever the header and the faults.
THEOREM TypeCorrect == Spec => []TypeOK
<1>1. StreamInv => TypeOK
  BY DEF StreamInv
<1> QED
  BY <1>1, AlwaysStreams, PTL

\* parse_range and stream_video answer with what the header names, for files of any size,
\* the empty one included, and headers of any kind.
THEOREM AnswersAreRequested == Spec => []AnswerIsRequested
<1>1. StreamInv => AnswerIsRequested
  BY DEF StreamInv
<1> QED
  BY <1>1, AlwaysStreams, PTL

\* What stream_video passes on for a position of the file is the byte at that position.
THEOREM BytesStayInPlace == Spec => []BytesInPlace
<1>1. StreamInv => BytesInPlace
  BY DEF StreamInv
<1> QED
  BY <1>1, AlwaysStreams, PTL

\* get_object is asked for as much as the Content-Length of stream_video announces.
THEOREM LengthsAreKept == Spec => []LengthIsKept
<1>1. StreamInv => LengthIsKept
  BY DEF StreamInv, LengthIsKept
<1> QED
  BY <1>1, AlwaysStreams, PTL
=============================================================================
