----------------------------- MODULE Streaming -----------------------------
(***************************************************************************)
(* The streaming service (streaming_service/main.py): the ranges of a      *)
(* player that seeks in the file of one video, while the file is stored,   *)
(* removed, or cannot be read.                                             *)
(*                                                                         *)
(* A Range header is what parse_range can tell of it: its form, and the    *)
(* text before and after the first dash, each an integer, empty, or a text *)
(* that int() refuses.  A byte of the file is its position in it.          *)
(***************************************************************************)
EXTENDS Integers, FiniteSets

CONSTANTS
    Sizes,      \* sizes a file may have
    Positions,  \* integers a header may hold
    Empty,      \* the empty text
    Word,       \* a text that is no integer
    CHUNK_SIZE,
    MaxAsks,    \* bound: requests that do not just continue where the player is
    MaxFaults   \* bound: requests that fail, and answers that are cut

ASSUME SizesAssumption == Sizes \subseteq Nat
ASSUME TextsAssumption ==
    Positions \subseteq Int /\ {Empty, Word} \cap Int = {} /\ Empty # Word
ASSUME PlayerAssumption == \A n \in Sizes : 0 .. n - 1 \subseteq Positions
ASSUME ChunkAssumption == CHUNK_SIZE \in Nat \ {0}
ASSUME BoundsAssumption == MaxAsks \in Nat /\ MaxFaults \in Nat

VARIABLES
    size,      \* of the file
    object,    \* in the bucket: none yet, stored, removed
    pc,        \* of the request: idle, stat, get, body
    header,    \* its Range header
    answer,    \* status, first byte and Content-Length of its answer
    body,      \* what MinIO sends for it: first byte and length
    sent,      \* bytes of it passed on
    received,  \* by the player: <<position it was announced for, byte>>
    asks, faults

vars == <<size, object, pc, header, answer, body, sent, received, asks, faults>>

-----------------------------------------------------------------------------
(* Range headers. *)

\* absent or empty; another unit than bytes; several ranges; no dash; one range.
Plain(form) == [form |-> form, first |-> Empty, last |-> Empty]
Header ==
    {Plain(f) : f \in {"absent", "unit", "several", "dashless"}}
        \cup [form : {"range"}, first : {Empty, Word} \cup (Positions \cap Nat),
              last : {Empty, Word} \cup Positions]

Whole(n) == [kind |-> "whole", start |-> 0, end |-> n - 1]
Refused == [kind |-> "refused", start |-> 0, end |-> 0]
Span(start, end) == [kind |-> "span", start |-> start, end |-> end]
Smaller(a, b) == IF a < b THEN a ELSE b
Larger(a, b) == IF a < b THEN b ELSE a

\* Mutant: a suffix longer than the file starts before it.
SuffixLong(last, n) == IF last <= 0 THEN Refused ELSE Span(n - last, n - 1)

\* The last so many bytes.
Suffix(last, n) == IF last <= 0 THEN Refused ELSE Span(Larger(n - last, 0), n - 1)

\* Mutant: an end beyond the file is not cut back.
FromToLong(first, end, n) ==
    IF first >= n THEN Refused
    ELSE IF end < first THEN Whole(n)
    ELSE Span(first, end)

\* Mutant: the last byte alone cannot be had.
FromToShort(first, end, n) ==
    IF first >= n - 1 THEN Refused
    ELSE IF end < first THEN Whole(n)
    ELSE Span(first, Smaller(end, n - 1))

FromTo(first, end, n) ==
    IF first >= n THEN Refused
    ELSE IF end < first THEN Whole(n)
    ELSE Span(first, Smaller(end, n - 1))

\* parse_range of a header and the size of the file, with the default of stream_video.
ParseRange(h, n) ==
    IF h.form # "range" \/ Word \in {h.first, h.last} THEN Whole(n)
    ELSE IF h.first = Empty THEN IF h.last = Empty THEN Whole(n) ELSE Suffix(h.last, n)
    ELSE FromTo(h.first, IF h.last = Empty THEN n - 1 ELSE h.last, n)

\* get_object of the minio client: with neither offset nor length it asks for everything,
\* with an offset only for the rest; MinIO sends no more than there is.
GetObject(offset, length, n) ==
    [first |-> offset, length |-> IF length = 0 THEN n - offset ELSE Smaller(length, n - offset)]

-----------------------------------------------------------------------------
NoAnswer == [status |-> 0, start |-> 0, length |-> 0]
Failure(code) == [status |-> code, start |-> 0, length |-> 0]
NoBody == [first |-> 0, length |-> 0]

Init ==
    /\ size \in Sizes
    /\ object = "none"
    /\ pc = "idle"
    /\ header = Plain("absent")
    /\ answer = NoAnswer
    /\ body = NoBody
    /\ sent = 0
    /\ received = {}
    /\ asks = 0
    /\ faults = 0

Request(h) ==
    /\ pc = "idle"
    /\ pc' = "stat"
    /\ header' = h
    /\ answer' = NoAnswer
    /\ body' = NoBody
    /\ sent' = 0
    /\ UNCHANGED <<size, object, received, faults>>

\* Any client, for any part of the file.
Ask(h) == Request(h) /\ asks < MaxAsks /\ asks' = asks + 1

\* The player goes on at the first byte it lacks.
Lacking == {p \in 0 .. size - 1 : \A r \in received : r[1] # p}
Continue ==
    /\ \E p \in Lacking :
        /\ \A q \in Lacking : p <= q
        /\ Request([form |-> "range", first |-> p, last |-> Empty])
    /\ UNCHANGED asks

Answer(a) == answer' = a /\ pc' = "idle"
Rest == <<size, object, header, sent, received, asks>>
Fault == faults < MaxFaults /\ faults' = faults + 1

\* stat_object says that there is no such object, or fails.
StatMissing ==
    /\ pc = "stat"
    /\ object # "stored"
    /\ Answer(Failure(404))
    /\ UNCHANGED <<Rest, body, faults>>

\* The size is known: the range is refused, or the headers of the answer are made.
StatFound ==
    /\ pc = "stat"
    /\ object = "stored"
    /\ LET r == ParseRange(header, size) IN
        IF r.kind = "refused" THEN Answer(Failure(416))
        ELSE /\ pc' = "get"
             /\ answer' = [status |-> IF r.kind = "span" THEN 206 ELSE 200,
                           start |-> r.start, length |-> r.end - r.start + 1]
    /\ UNCHANGED <<Rest, body, faults>>

\* Mutant: the length is off by one.
OpenShort ==
    /\ pc = "get"
    /\ object = "stored"
    /\ pc' = "body"
    /\ body' = GetObject(answer.start, answer.length - 1, size)
    /\ UNCHANGED <<Rest, answer, faults>>

\* Mutant: the object is opened at its beginning.
OpenAtZero ==
    /\ pc = "get"
    /\ object = "stored"
    /\ pc' = "body"
    /\ body' = GetObject(0, answer.length, size)
    /\ UNCHANGED <<Rest, answer, faults>>

Open ==
    /\ pc = "get"
    /\ object = "stored"
    /\ pc' = "body"
    /\ body' = GetObject(answer.start, answer.length, size)
    /\ UNCHANGED <<Rest, answer, faults>>

\* The object went between stat_object and get_object.
OpenMissing ==
    /\ pc = "get"
    /\ object # "stored"
    /\ Answer(Failure(500))
    /\ UNCHANGED <<Rest, body, faults>>

\* MinIO cannot be reached.
MinioFails ==
    /\ pc \in {"stat", "get"}
    /\ Fault
    /\ Answer(Failure(500))
    /\ UNCHANGED <<Rest, body>>

\* _iter_object passes on what stream() read.
SendChunk ==
    /\ pc = "body"
    /\ sent < body.length
    /\ LET n == Smaller(CHUNK_SIZE, body.length - sent) IN
        /\ sent' = sent + n
        /\ received' = received \cup
              {<<answer.start + i, body.first + i>> : i \in sent .. sent + n - 1}
    /\ UNCHANGED <<size, object, pc, header, answer, body, asks, faults>>

BodyEnds ==
    /\ pc = "body"
    /\ sent = body.length
    /\ pc' = "idle"
    /\ UNCHANGED <<Rest, answer, body, faults>>

\* The player leaves, the service dies, or MinIO stops half way.
BodyCut ==
    /\ pc = "body"
    /\ Fault
    /\ pc' = "idle"
    /\ UNCHANGED <<Rest, answer, body>>

\* The upload request stores the file; a permanent delete removes it.
Store == object = "none" /\ object' = "stored"
Remove == object = "stored" /\ object' = "removed"
Bucket ==
    /\ Store \/ Remove
    /\ UNCHANGED <<size, pc, header, answer, body, sent, received, asks, faults>>

Serve == StatMissing \/ StatFound \/ Open \/ OpenMissing \/ SendChunk \/ BodyEnds
Next == (\E h \in Header : Ask(h)) \/ Continue \/ Serve \/ MinioFails \/ BodyCut \/ Bucket

Spec == Init /\ [][Next]_vars

\* The service answers, and a player that lacks a part of the file asks for it.
Fairness == WF_vars(Serve) /\ WF_vars(Continue)
FairSpec == Spec /\ Fairness

-----------------------------------------------------------------------------
(* Properties. *)

Status == {0, 200, 206, 404, 416, 500}

\* Types of the request, of the answer and of what the player has.
TypeOK ==
    /\ size \in Sizes
    /\ object \in {"none", "stored", "removed"}
    /\ pc \in {"idle", "stat", "get", "body"}
    /\ header \in Header
    /\ answer \in [status : Status, start : Nat, length : Nat]
    /\ body \in [first : Nat, length : Nat]
    /\ sent \in Nat /\ sent <= body.length
    /\ received \subseteq (0 .. size - 1) \X (0 .. size - 1)
    /\ asks \in 0 .. MaxAsks /\ faults \in 0 .. MaxFaults

File == 0 .. size - 1
Announced == answer.start .. answer.start + answer.length - 1

\* What a header names, without the arithmetic of parse_range: the bytes between two
\* positions, from one on, or the last so many.
Names(h) ==
    IF h.first = Empty THEN {p \in File : Cardinality({q \in File : p <= q}) <= h.last}
    ELSE {p \in File : h.first <= p /\ (h.last # Empty => p <= h.last)}

Understood(h) ==
    /\ h.form = "range"
    /\ Word \notin {h.first, h.last}
    /\ h.first = Empty => h.last # Empty

\* A range that is one by the grammar of the header: it does not end before it starts, and a
\* suffix has a length.
WellFormed(h) ==
    /\ Understood(h)
    /\ h.first = Empty => h.last \in Nat
    /\ h.first # Empty /\ h.last # Empty => h.first <= h.last

\* A partial answer has the bytes a well-formed header names, all of them and no others, and
\* is empty for an empty file only; the whole file is sent for every other header that is not
\* refused; and a well-formed one is refused only when it names nothing.
AnswerIsRequested ==
    /\ answer.status = 206 => /\ WellFormed(header)
                              /\ Announced = Names(header)
                              /\ Announced = {} => size = 0
    /\ answer.status = 200 => ~WellFormed(header) /\ Announced = File
    /\ answer.status = 416 /\ WellFormed(header) => Names(header) = {}

\* "Returns None when the whole file should be sent: [...] a malformed value" (parse_range):
\* nothing but a well-formed range is refused.
MalformedIsWhole == answer.status = 416 => WellFormed(header)

\* What the player gets for a position is the byte at that position, over all its requests:
\* the Content-Range and the bytes read from MinIO agree.
BytesInPlace == \A r \in received : r[1] = r[2]

\* The body that MinIO was asked for has the announced length, so that the answer is neither
\* cut off nor followed by bytes nobody expects.
LengthIsKept == pc = "body" => body.length = answer.length

\* A player that goes on where it is has the whole file in the end, whatever it asked for in
\* between, and however often its requests failed or were cut, unless the file is removed.
FileIsPlayed == object = "stored" ~> (Lacking = {} \/ object = "removed")
=============================================================================
