------------------------------ MODULE LogFile ------------------------------
(***************************************************************************)
(* The bytes of the write-ahead log: how a record is encoded (record.go),  *)
(* how it is framed with its length and checksum (encodeFrame in wal.go),  *)
(* what writes and crashes leave in the file, and what Replay reads back.  *)
(*                                                                         *)
(* A file is a sequence of tokens.  A byte is a token of its own where its *)
(* value matters: operation tags, payload bytes, and the digits of a       *)
(* uint32, here Width digits to the base Base, most significant first.  A  *)
(* UUID, a time stamp and a CRC are one token each.  A write may be torn   *)
(* between any two tokens.  The checksum is a perfect one: it tells any    *)
(* two records apart, and that of no bytes is 0, like CRC-32.              *)
(***************************************************************************)
EXTENDS Integers, Sequences, SequencesExt

CONSTANTS
  Base, Width,  \* a uint32 is Width digits to this base
  Inputs,       \* the records that may be appended
  MaxFrames     \* bound: frames written, whole or in part

ASSUME SizeAssumption ==
  Base \in Nat \ {0, 1} /\ Width \in Nat \ {0} /\ MaxFrames \in Nat

VARIABLES
  file,   \* the tokens of the file
  frames  \* history: what was written, and whether all of it

vars == <<file, frames>>

----------------------------------------------------------------------------
\* A byte is a tuple of its value; in every other token a negative number
\* says what it is.  So is a decoded number a tuple of its value.

Byte(d) == <<d>>

UUID(n) == <<-1, n>>

UnixNano(n) == <<-2, n>>

Zero == Byte(0)

IsByte(token) == Len(token) = 1

\* Broken: the checksum covers the operation tag only.
ChecksumOfTag(body) == IF body = <<>> THEN Zero ELSE <<-3, <<body[1]>>>>

ChecksumIEEE(body) == IF body = <<>> THEN Zero ELSE <<-3, body>>

\* The first number that is not a uint32.
Limit ==
  LET power[k \in 0..Width] == IF k = 0 THEN 1 ELSE power[k - 1] * Base
  IN  power[Width]

\* binary.BigEndian.PutUint32(scratch, uint32(n)): high digits are dropped.
PutUint32(n) ==
  LET shifted[k \in 0..Width] == IF k = 0 THEN n ELSE shifted[k - 1] \div Base
  IN  [i \in 1..Width |-> Byte(shifted[Width - i] % Base)]

\* Bytes of a UUID, a time or a CRC read as a number: more than any record has.
Uint32(tokens) ==
  LET value[k \in 0..Len(tokens)] ==
        IF k = 0 THEN 0 ELSE value[k - 1] * Base + tokens[k][1]
  IN  IF \A i \in 1..Len(tokens) : IsByte(tokens[i]) THEN value[Len(tokens)] ELSE Limit

----------------------------------------------------------------------------
\* Records.  OperationDequeue has a codec and a case in applyRecord; nothing in
\* the queue appends it yet.

OperationType ==
  <<"enqueue", "dequeue", "ack", "retry", "dead", "requeue", "purge">>

\* The fields of each payload, in the order in which its encoder writes them
\* and its decoder reads them.
AckPayload == <<"id">>
RetryPayload == <<"id">>
RequeuePayload == <<"id">>
PurgePayload == <<"id">>

EncodeEnqueuePayload == <<"id", "bytes", "bytes", "time", "uint32">>
DecodeEnqueuePayload == <<"id", "bytes", "bytes", "time", "uint32">>

EncodeDequeuePayload == <<"id", "time", "bytes">>
DecodeDequeuePayload == <<"id", "time", "bytes">>

\* Broken: a DEAD record is read with its last two fields swapped.
DecodeDeadPayloadSwapped == <<"id", "time", "uint32">>

EncodeDeadPayload == <<"id", "uint32", "time">>
DecodeDeadPayload == <<"id", "uint32", "time">>

IDPayload(op) ==
  CASE op = "ack"     -> AckPayload
    [] op = "retry"   -> RetryPayload
    [] op = "requeue" -> RequeuePayload
    [] op = "purge"   -> PurgePayload

EncodePayload(op) ==
  CASE op = "enqueue" -> EncodeEnqueuePayload
    [] op = "dequeue" -> EncodeDequeuePayload
    [] op = "dead"    -> EncodeDeadPayload
    [] OTHER          -> IDPayload(op)

DecodePayload(op) ==
  CASE op = "enqueue" -> DecodeEnqueuePayload
    [] op = "dequeue" -> DecodeDequeuePayload
    [] op = "dead"    -> DecodeDeadPayload
    [] OTHER          -> IDPayload(op)

\* Fixed-size fields have no prefix; the others have their length before them.
EncodeField(kind, value) ==
  CASE kind = "uint32" -> PutUint32(value[1])
    [] kind = "bytes"  -> PutUint32(Len(value)) \o value
    [] OTHER           -> <<value>>

EncodeFields(kinds, values) ==
  LET encoded[k \in 0..Len(kinds)] ==
        IF k = 0 THEN <<>> ELSE encoded[k - 1] \o EncodeField(kinds[k], values[k])
  IN  encoded[Len(kinds)]

EncodeRecord(r) ==
  LET tag == CHOOSE i \in DOMAIN OperationType : OperationType[i] = r.op
  IN  <<Byte(tag)>> \o EncodeFields(EncodePayload(r.op), r.fields)

\* The encoders do not check that lengths, priorities and counts fit in a
\* uint32; records here are those for which they do.
IsField(kind, value) ==
  CASE kind = "id"     -> value = UUID(value[2]) /\ value[2] \in Nat
    [] kind = "time"   -> value = UnixNano(value[2]) /\ value[2] \in Nat
    [] kind = "uint32" -> value = <<value[1]>> /\ value[1] \in 0..(Limit - 1)
    [] kind = "bytes"  -> value \in Seq({Byte(d) : d \in 0..(Base - 1)}) /\ Len(value) < Limit

IsRecord(r) ==
  /\ r = [op |-> r.op, fields |-> r.fields]
  /\ \E i \in DOMAIN OperationType : OperationType[i] = r.op
  /\ r.fields = [k \in DOMAIN EncodePayload(r.op) |-> r.fields[k]]
  /\ \A k \in DOMAIN r.fields : IsField(EncodePayload(r.op)[k], r.fields[k])
  /\ Len(EncodeRecord(r)) < Limit

ASSUME InputsAssumption == \A r \in Inputs : IsRecord(r)

\* Broken: a read past the end returns what there is.
ReadNClamped(b, pos, n) ==
  [ok |-> TRUE, pos |-> pos + n,
   tokens |-> SubSeq(b, pos + 1, IF pos + n > Len(b) THEN Len(b) ELSE pos + n)]

\* readN: n tokens at pos, or an error when the body is too short.
ReadN(b, pos, n) ==
  IF pos + n > Len(b) THEN [ok |-> FALSE, pos |-> pos, tokens |-> <<>>]
  ELSE [ok |-> TRUE, pos |-> pos + n, tokens |-> SubSeq(b, pos + 1, pos + n)]

\* A length-prefixed field, once its prefix has been read.
ReadPrefixed(b, prefix) ==
  IF prefix.ok THEN ReadN(b, prefix.pos, Uint32(prefix.tokens)) ELSE prefix

ReadField(b, kind, pos) ==
  CASE kind = "uint32" -> ReadN(b, pos, Width)
    [] kind = "bytes"  -> ReadPrefixed(b, ReadN(b, pos, Width))
    [] OTHER           -> ReadN(b, pos, 1)

DecodeField(kind, tokens) ==
  CASE kind = "uint32" -> <<Uint32(tokens)>>
    [] kind = "bytes"  -> tokens
    [] OTHER           -> IF tokens = <<>> THEN <<>> ELSE tokens[1]

\* One more field of the payload, or the error with which the decoder ends.
AddField(acc, kind, field) ==
  IF ~field.ok THEN [acc EXCEPT !.ok = FALSE]
  ELSE [acc EXCEPT !.pos = field.pos,
                   !.fields = Append(@, DecodeField(kind, field.tokens))]

NextField(b, kind, acc) ==
  IF acc.ok THEN AddField(acc, kind, ReadField(b, kind, acc.pos)) ELSE acc

DecodeFields(b, op) ==
  LET kinds == DecodePayload(op)
      decoded[k \in 0..Len(kinds)] ==
        IF k = 0 THEN [ok |-> TRUE, op |-> op, pos |-> 0, fields |-> <<>>]
        ELSE NextField(b, kinds[k], decoded[k - 1])
  IN  decoded[Len(kinds)]

\* decodeRecord: the tag chooses the decoder; the first field that does not
\* fit ends it.  Bytes behind the last field are not looked at.
DecodeRecord(body) ==
  IF body = <<>> \/ ~IsByte(body[1]) \/ body[1][1] \notin DOMAIN OperationType
  THEN [ok |-> FALSE, op |-> "none", pos |-> 0, fields |-> <<>>]
  ELSE DecodeFields(Tail(body), OperationType[body[1][1]])

----------------------------------------------------------------------------
\* Frames.

Header == Width + 1

EncodeFrame(body) ==
  PutUint32(Len(body)) \o <<ChecksumIEEE(body)>> \o body

Error == [ok |-> FALSE, body |-> <<>>]

\* Broken: the checksum is not compared.
CheckFrameUnchecked(storedCRC, body, length) ==
  IF Len(body) < length THEN Error ELSE [ok |-> TRUE, body |-> body]

\* The body must be complete and have the checksum in the header.
CheckFrame(storedCRC, body, length) ==
  IF Len(body) < length \/ storedCRC # ChecksumIEEE(body) THEN Error
  ELSE [ok |-> TRUE, body |-> body]

\* io.ReadFull of length tokens at pos, as far as the file goes.
ReadBody(b, pos, length) ==
  SubSeq(b, pos + 1, IF pos + length > Len(b) THEN Len(b) ELSE pos + length)

\* decodeFrame with the reader at pos: the body, or one of the three errors
\* with which the log ends: nothing left, cut short, checksum mismatch.
DecodeFrame(b, pos) ==
  IF pos + Header > Len(b) THEN Error
  ELSE LET length == Uint32(SubSeq(b, pos + 1, pos + Width))
       IN  CheckFrame(b[pos + Header], ReadBody(b, pos + Header, length), length)

\* What the loop does with a frame, given what decodeRecord says of its body.
Applied(st, frame, record) ==
  IF ~frame.ok THEN [st EXCEPT !.over = TRUE]
  ELSE IF ~record.ok THEN [st EXCEPT !.over = TRUE, !.failed = TRUE]
  ELSE [st EXCEPT !.at = @ + Header + Len(frame.body),
                  !.read = Append(@, [op |-> record.op, fields |-> record.fields])]

Turn(b, st) ==
  LET frame == DecodeFrame(b, st.at)
  IN  IF st.over THEN st ELSE Applied(st, frame, DecodeRecord(frame.body))

\* Replay: the records handed to applyRecord, whether decodeRecord refused
\* one, which makes NewQueue fail, and where in the file the reading ended.
\* Every turn but the last reads a header, so no file takes more turns than
\* it has tokens.
Replay(b) ==
  LET after[k \in 0..Len(b)] ==
        IF k = 0 THEN [read |-> <<>>, failed |-> FALSE, over |-> FALSE, at |-> 0]
        ELSE Turn(b, after[k - 1])
  IN  after[Len(b)]

----------------------------------------------------------------------------
\* What happens to the file.

Init == file = <<>> /\ frames = <<>>

Writes(tokens, frame) ==
  /\ Len(frames) < MaxFrames
  /\ file' = file \o tokens
  /\ frames' = Append(frames, frame)

WriteFrame(r) ==
  Writes(EncodeFrame(EncodeRecord(r)), [rec |-> r, whole |-> TRUE])

\* A short Write, or a crash before the fsync.  The file is later opened for
\* appending as it is.
TearFrame(r) ==
  LET tokens == EncodeFrame(EncodeRecord(r))
  IN  \E n \in 1..(Len(tokens) - 1) :
        Writes(SubSeq(tokens, 1, n), [rec |-> r, whole |-> FALSE])

NoRecord == [op |-> "none", fields |-> <<>>]

\* A crash after which the file is longer than what reached the disk: some
\* file systems fill the gap with zeros.
ZeroFill ==
  \E n \in 1..(Header + 1) :
    Writes([i \in 1..n |-> Zero], [rec |-> NoRecord, whole |-> FALSE])

Next == (\E r \in Inputs : WriteFrame(r) \/ TearFrame(r)) \/ ZeroFill

Spec == Init /\ [][Next]_vars

----------------------------------------------------------------------------
\* What recovery reads.

\* How many frames come before the first damaged one.
GoodFrames ==
  CHOOSE n \in 0..Len(frames) :
    /\ \A i \in 1..n : frames[i].whole
    /\ n < Len(frames) => ~frames[n + 1].whole

GoodPrefix == [i \in 1..GoodFrames |-> frames[i].rec]

\* "We stop cleanly and keep the good prefix" (wal.go): every record before
\* the first damaged frame is read back as it was written, whatever lies
\* behind it.
ReadsGoodPrefix == IsPrefix(GoodPrefix, Replay(file).read)

\* Recovery invents nothing: the bytes in and behind a damaged frame are never
\* taken for a record that was not written.  What it reads are records that
\* were written, in order, and it passes over none but damaged ones.  A torn
\* record may be among them, whole again because what it lacked is what the
\* bytes behind it begin with.
InventsNothing ==
  LET read == Replay(file).read
  IN  \E which \in [DOMAIN read -> DOMAIN frames] :
        /\ \A k \in DOMAIN read : read[k] = frames[which[k]].rec
        /\ \A k, l \in DOMAIN read : k < l => which[k] < which[l]
        /\ \A k \in DOMAIN read : \A i \in 1..which[k] :
             frames[i].whole => \E l \in DOMAIN read : which[l] = i

\* NewQueue refuses a log for one reason only: a header of zeros, which frames
\* an empty body with a valid checksum.  Any other damage ends the replay
\* without an error.
RefusesOnlyZeros ==
  LET result == Replay(file)
  IN  result.failed =>
        \A i \in 1..Header : result.at + i <= Len(file) /\ file[result.at + i] = Zero

\* The decoders reject a body that is cut short without the checksum's help,
\* as record_fault_test.go wants, so no field is ever read from less than it
\* needs.
CutBodyRejected ==
  \A i \in {j \in DOMAIN frames : frames[j].rec # NoRecord} :
    LET body == EncodeRecord(frames[i].rec)
    IN  \A n \in 0..(Len(body) - 1) : ~DecodeRecord(SubSeq(body, 1, n)).ok
============================================================================
