------------------------------- MODULE Codec -------------------------------
(***************************************************************************)
(* The messages between the event thread and the workers, byte by byte:    *)
(* the codecs generated from schema.xml (Request.hpp, Reply.hpp,           *)
(* MessageHeader.hpp, Flags.hpp) as hitsuji_t and worker_t call them.      *)
(*                                                                         *)
(* A message is a function from the offsets of its memory to bytes.  The   *)
(* memory zmq_msg_init_size gives is not cleared: `garbage` is what it     *)
(* held.  A codec has a cursor, `position`, behind the fixed block; only   *)
(* reading and writing text moves it.                                      *)
(***************************************************************************)
EXTENDS Integers, Sequences, FiniteSets

Byte == 256

zmq_msg_init_size(size, garbage) == [i \in 0..size - 1 |-> garbage]

(* Little endian, whatever the machine.                                    *)
ByteOf(value, k) ==
    LET rest[i \in 0..k] == IF i = 0 THEN value ELSE rest[i - 1] \div Byte
    IN  rest[k] % Byte

Put(msg, at, width, value) ==
    [i \in DOMAIN msg |-> IF i \in at..at + width - 1 THEN ByteOf(value, i - at) ELSE msg[i]]

Get(msg, at, width) ==
    LET top[k \in 0..width] == IF k = 0 THEN 0 ELSE top[k - 1] * Byte + msg[at + width - k]
    IN  top[width]

-----------------------------------------------------------------------------
(* MessageHeader: four numbers of two bytes.                               *)

HeaderSize == 8
SchemaId == 1
SchemaVersion == 0

WriteHeader(msg, blockLength, templateId) ==
    Put(Put(Put(Put(msg, 0, 2, blockLength), 2, 2, templateId), 4, 2, SchemaId),
        6, 2, SchemaVersion)

BlockLength(msg) == Get(msg, 0, 2)

(* Where the cursor is behind the block the header names.                 *)
wrapForDecode(msg) == HeaderSize + BlockLength(msg)

-----------------------------------------------------------------------------
(* Text: a byte of length, then the bytes.  The cursor may not pass the    *)
(* end of the memory; that is an exception nobody catches.                 *)

LengthSize == 1

PutText(msg, position, text) ==
    [i \in DOMAIN msg |->
        IF i = position THEN Len(text) % Byte
        ELSE IF i \in position + LengthSize..position + Len(text)
             THEN text[i - position] ELSE msg[i]]

Throws(msg, position) == position > Cardinality(DOMAIN msg)

(* Mutant of TakeText: the two arguments are evaluated from the left, and  *)
(* the length is read where the text ends.                                 *)
TakeTextFromLeft(msg, position) ==
    LET end == position + LengthSize + msg[position]
        length == IF end \in DOMAIN msg THEN msg[end] ELSE 0
    IN  [text |-> [i \in 1..length |-> msg[position + i]], end |-> end]

(* itemName() moves the cursor and itemNameLength() reads at it, two       *)
(* arguments of one call: the compiler evaluates the last one first.       *)
TakeText(msg, position) ==
    LET length == msg[position]
    IN  [text |-> [i \in 1..length |-> msg[position + i]],
         end |-> position + LengthSize + length]

-----------------------------------------------------------------------------
(* Request: the fields of the block with offset and width.                 *)

RequestBlock == 17
RequestTemplate == 1

RequestField ==
    [handle |-> <<0, 8>>, rwfVersion |-> <<8, 2>>, token |-> <<10, 4>>, serviceId |-> <<14, 2>>]
FlagsOffset == 16
AbortBit == 1
AttribBit == 2

GetField(msg, field) == Get(msg, HeaderSize + field[1], field[2])
PutField(msg, field, value) == Put(msg, HeaderSize + field[1], field[2], value)

FlagsOf(msg) == msg[HeaderSize + FlagsOffset]
HasFlag(msg, bit) == (FlagsOf(msg) \div bit) % 2 = 1
ClearFlags(msg) == Put(msg, HeaderSize + FlagsOffset, 1, 0)
SetFlag(msg, bit, value) ==
    IF HasFlag(msg, bit) = value THEN msg
    ELSE Put(msg, HeaderSize + FlagsOffset, 1, FlagsOf(msg) + (IF value THEN bit ELSE -bit))

PutBlock(msg, r) ==
    LET handled == PutField(PutField(msg, RequestField.handle, r.handle),
                            RequestField.rwfVersion, r.rwfVersion)
    IN  PutField(PutField(handled, RequestField.token, r.token),
                 RequestField.serviceId, r.serviceId)

(* hitsuji_t::OnRequest.                                                   *)
EncodeRequest(r, garbage) ==
    LET memory == zmq_msg_init_size(
                      HeaderSize + RequestBlock + LengthSize + Len(r.itemName), garbage)
        block == PutBlock(WriteHeader(memory, RequestBlock, RequestTemplate), r)
        flags == SetFlag(SetFlag(ClearFlags(block), AbortBit, FALSE), AttribBit, r.attrib)
    IN  PutText(flags, HeaderSize + RequestBlock, r.itemName)

(* hitsuji_t::AbortOneWorker: no more than the flags of the block is       *)
(* written.                                                                *)
EncodeAbort(garbage) ==
    LET memory == zmq_msg_init_size(HeaderSize + RequestBlock, garbage)
    IN  SetFlag(ClearFlags(WriteHeader(memory, RequestBlock, RequestTemplate)), AbortBit, TRUE)

(* worker_t::OnTask: the flag first, which is all an abort has.            *)
TakeTask(msg) ==
    LET item == TakeText(msg, wrapForDecode(msg)) IN
    IF HasFlag(msg, AbortBit) THEN [kind |-> "abort"]
    ELSE IF Throws(msg, item.end) THEN [kind |-> "thrown"]
    ELSE [kind |-> "request",
          handle |-> GetField(msg, RequestField.handle),
          rwfVersion |-> GetField(msg, RequestField.rwfVersion),
          token |-> GetField(msg, RequestField.token),
          serviceId |-> GetField(msg, RequestField.serviceId),
          attrib |-> HasFlag(msg, AttribBit),
          itemName |-> item.text]

-----------------------------------------------------------------------------
(* Reply.                                                                  *)

ReplyBlock == 12
ReplyTemplate == 2
ReplyField == [handle |-> <<0, 8>>, token |-> <<8, 4>>]

(* worker_t::SendReply.                                                    *)
EncodeReply(r, garbage) ==
    LET memory == zmq_msg_init_size(
                      HeaderSize + ReplyBlock + LengthSize + Len(r.rsslBuffer), garbage)
        block == PutField(PutField(WriteHeader(memory, ReplyBlock, ReplyTemplate),
                                   ReplyField.handle, r.handle),
                          ReplyField.token, r.token)
    IN  PutText(block, HeaderSize + ReplyBlock, r.rsslBuffer)

(* hitsuji_t::OnReply.                                                     *)
TakeReply(msg) ==
    LET buffer == TakeText(msg, wrapForDecode(msg)) IN
    IF Throws(msg, buffer.end) THEN [kind |-> "thrown"]
    ELSE [kind |-> "reply",
          handle |-> GetField(msg, ReplyField.handle),
          token |-> GetField(msg, ReplyField.token),
          rsslBuffer |-> buffer.text]
=============================================================================
