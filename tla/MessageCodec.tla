----------------------------- MODULE MessageCodec -----------------------------
(***************************************************************************)
(* The message of a command and its two ways over a Buffer: a client       *)
(* builds a Message with its setters and encodes it, the server decodes    *)
(* it, makes the reply of WorkTask::cmd_process and encodes that, and the  *)
(* client decodes the reply.  Integers are what memcpy moves, their bytes, *)
(* lowest first.                                                           *)
(*                                                                         *)
(* encode, decode, get_Message_string and the replies return references    *)
(* to objects that end with the call.  A caller that uses one crashes, so  *)
(* this module models what the bodies compute and not a server that runs:  *)
(* process() leaves this path out (#if 0).                                 *)
(***************************************************************************)
EXTENDS Md5

CONSTANTS Words, Halves,  \* values the client gives to fields of 4, 2 bytes
          Bytes,          \* what the client puts into payloads
          MaxPayload      \* bound on the payload of a request

ASSUME CodecAssumption ==
    /\ Words \subseteq [1..4 -> 0..255]
    /\ Halves \subseteq [1..2 -> 0..255]
    /\ Bytes \subseteq 0..255
    /\ MaxPayload \in Nat

BEGIN == 1
TX_DATA == 2
START_CAL == 3
GET_DATA == 4
PL_STATUS == 5
CONFIG == 6
TEST_REG == 7
Commands == BEGIN..TEST_REG

NONE == 0
NORM == 1

HeadSize == 20
ChecksumSize == 32
EndSize == 1

U32(n) == [i \in 1..4 |-> (n \div Power[8 * (i - 1)]) % 256]
Zeros(n) == [i \in 1..n |-> 0]

-----------------------------------------------------------------------------
(* Message.                                                                *)

NewMessage ==
    [preamble |-> <<90, 165, 0, 190>>, len |-> U32(0), version |-> U32(1),
     total_package_len |-> U32(0), seq |-> <<255, 255>>, flag |-> <<0, 0>>,
     payload |-> <<>>, checksum |-> Zeros(ChecksumSize), end_sym |-> 153]

(* The other constructor: of seq the low half, of checksum nothing stays.  *)
MessageOf(len, seq, payload) ==
    [NewMessage EXCEPT !.len = len, !.seq = SubSeq(seq, 1, 2), !.payload = payload]

set_payload(m, string) == [m EXCEPT !.payload = string \o @]
set_payload_char(m, char) == [m EXCEPT !.payload = Append(@, char)]
set_checksum(m, string) == [m EXCEPT !.checksum = string \o @]

get_cmd(m) == IF m.payload = <<>> THEN 0 ELSE Head(m.payload)

set_cmd(m, cmd) == [m EXCEPT !.payload = <<cmd>>]

(* Written from the second byte on, over what was there.                   *)
set_real_payload(m, string) ==
    [m EXCEPT !.payload =
        [i \in 1..Len(@) + Len(string) |->
            IF i \in 2..1 + Len(string) THEN string[i - 1]
            ELSE IF i <= Len(@) THEN @[i] ELSE 0]]

(* The bytes s put at position p of b, which grows when they do not fit.   *)
Put(b, p, s) ==
    [i \in 1..(IF Len(b) < p + Len(s) THEN p + Len(s) ELSE Len(b)) |->
        IF i \in p + 1..p + Len(s) THEN s[i - p] ELSE b[i]]

(* One field after the other, each at the end of the one before.           *)
PutHead(b, m) ==
    Put(b, 0, m.preamble \o m.len \o m.version \o m.total_package_len \o m.seq \o m.flag)

get_Message_size(m) == HeadSize + Len(m.payload)
get_full_package_size(m) == get_Message_size(m) + ChecksumSize + EndSize

(* What is digested: the payload is inserted into a string that already    *)
(* has room for it.                                                        *)
get_Message_string(m) ==
    LET tempStr == PutHead(Zeros(get_Message_size(m)), m)
    IN SubSeq(tempStr, 1, HeadSize) \o m.payload \o SubSeq(tempStr, HeadSize + 1, Len(tempStr))

-----------------------------------------------------------------------------
(* Buffer, made for the size of the message.                               *)

encode(m) ==
    LET buff == PutHead(Zeros(get_full_package_size(m)), m)
        position == HeadSize + Len(m.payload)
        withPayload == Put(buff, HeadSize, m.payload)
        withChecksum == Put(withPayload, position, SubSeq(m.checksum, 1, ChecksumSize))
    IN Put(withChecksum, position + ChecksumSize, <<m.end_sym>>)

(* string(s, position, count).                                             *)
Substring(s, position, count) ==
    SubSeq(s, position + 1, IF position + count < Len(s) THEN position + count ELSE Len(s))

\* mutation: total_package_len, which came later, is not skipped
decodeOld(s) ==
    LET sum == Len(s) - ChecksumSize - EndSize
        head == [NewMessage EXCEPT
            !.preamble = SubSeq(s, 1, 4), !.len = SubSeq(s, 5, 8),
            !.version = SubSeq(s, 9, 12), !.seq = SubSeq(s, 13, 14),
            !.flag = SubSeq(s, 15, 16), !.end_sym = s[Len(s)]]
    IN set_checksum(set_payload(head, Substring(s, HeadSize - 4, Len(s) - EndSize - 8)),
                    Substring(s, sum, sum + ChecksumSize))

(* get_checksum().size() is a size_t, and its sizeof is 8: the payload is  *)
(* taken to the end of the string.  A string shorter than checksum and end *)
(* symbol throws.                                                          *)
decode(s) ==
    LET sum == Len(s) - ChecksumSize - EndSize
        head == [NewMessage EXCEPT
            !.preamble = SubSeq(s, 1, 4), !.len = SubSeq(s, 5, 8),
            !.version = SubSeq(s, 9, 12), !.total_package_len = SubSeq(s, 13, 16),
            !.seq = SubSeq(s, 17, 18), !.flag = SubSeq(s, 19, 20),
            !.end_sym = s[Len(s)]]
    IN set_checksum(set_payload(head, Substring(s, HeadSize, Len(s) - EndSize - 8)),
                    Substring(s, sum, sum + ChecksumSize))

-----------------------------------------------------------------------------
(* WorkTask.                                                               *)

simple_cmd_reply_data(lhs, cmd, rtcode, databuf) ==
    LET empty == [NewMessage EXCEPT
            !.len = U32(HeadSize + 1 + 1 + Len(databuf) + ChecksumSize + EndSize),
            !.total_package_len = lhs.total_package_len,
            !.seq = lhs.seq]
        m == set_payload(set_payload_char(set_payload_char(empty, cmd), rtcode), databuf)
    IN set_checksum(m, toStr(MD5(get_Message_string(m))))

\* mutation: the codes are not counted in len
simple_cmd_reply_uncounted(lhs, cmd, rtcode) ==
    LET empty == [NewMessage EXCEPT
            !.len = U32(HeadSize + ChecksumSize + EndSize),
            !.total_package_len = lhs.total_package_len,
            !.seq = lhs.seq]
        m == set_payload_char(set_payload_char(empty, cmd), rtcode)
    IN set_checksum(m, toStr(MD5(get_Message_string(m))))

\* mutation: the digest is taken before the codes are set
simple_cmd_reply_early(lhs, cmd, rtcode) ==
    LET empty == [NewMessage EXCEPT
            !.len = U32(HeadSize + 1 + 1 + ChecksumSize + EndSize),
            !.total_package_len = lhs.total_package_len,
            !.seq = lhs.seq]
        m == set_payload_char(set_payload_char(empty, cmd), rtcode)
    IN set_checksum(m, toStr(MD5(get_Message_string(empty))))

\* mutation: the codes are set the other way round
simple_cmd_reply_swapped(lhs, cmd, rtcode) == simple_cmd_reply_data(lhs, rtcode, cmd, <<>>)

(* The same without data.                                                  *)
simple_cmd_reply(lhs, cmd, rtcode) == simple_cmd_reply_data(lhs, cmd, rtcode, <<>>)

(* The replies that each command may get.  input_data_check() is always    *)
(* true, a decoded payload is longer than init_info_t.                     *)
cmd_begin_reply(lhs) == {simple_cmd_reply(lhs, BEGIN, NONE)}

cmd_tx_data_reply(lhs) == {simple_cmd_reply(lhs, TX_DATA, NONE)}

(* ps_idle_check() is always true, and the register test is left out.      *)
cmd_calc_reply(lhs) == {simple_cmd_reply(lhs, START_CAL, NONE)}

(* databuf has room for the status, but no elements.                       *)
cmd_status_reply(lhs) == {simple_cmd_reply_data(lhs, PL_STATUS, NONE, <<>>)}

(* /run/myconfig.txt may not open.                                         *)
cmd_config_reply(lhs) == {simple_cmd_reply(lhs, CONFIG, rtcode) : rtcode \in {NONE, NORM}}

cmd_test_reg_reply(lhs) == {simple_cmd_reply(lhs, TEST_REG, NONE)}

cmd_process(lhs) ==
    CASE get_cmd(lhs) = BEGIN -> cmd_begin_reply(lhs)
      [] get_cmd(lhs) = TX_DATA -> cmd_tx_data_reply(lhs)
      [] get_cmd(lhs) = START_CAL -> cmd_calc_reply(lhs)
      [] get_cmd(lhs) = GET_DATA -> {}
      [] get_cmd(lhs) = PL_STATUS -> cmd_status_reply(lhs)
      [] get_cmd(lhs) = CONFIG -> cmd_config_reply(lhs)
      [] get_cmd(lhs) = TEST_REG -> cmd_test_reg_reply(lhs)
      [] OTHER -> {NewMessage}

-----------------------------------------------------------------------------
VARIABLES stage,    \* where the exchange is
          message,  \* the Message at hand
          wire,     \* what the last encode returned
          request   \* history: what the client encoded

vars == <<stage, message, wire, request>>

Init ==
    /\ stage = "build"
    /\ message \in {NewMessage} \cup
           {MessageOf(w, w, p) : w \in Words, p \in {<<>>} \cup {<<b>> : b \in Bytes}}
    /\ wire = <<>>
    /\ request = NewMessage

(* The client's setters, in any order.                                     *)
SetField ==
    /\ stage = "build"
    /\ \/ \E w \in Words, f \in {"preamble", "len", "version", "total_package_len"} :
            message' = [message EXCEPT ![f] = w]
       \/ \E h \in Halves, f \in {"seq", "flag"} : message' = [message EXCEPT ![f] = h]
       \/ \E h \in Halves : message' = [message EXCEPT !.end_sym = h[1]]
    /\ UNCHANGED <<stage, wire, request>>

(* set_real_payload needs a command before it: its memcpy is one byte too  *)
(* long for a payload that is empty.                                       *)
SetPayload ==
    /\ stage = "build"
    /\ \E b \in Bytes :
        message' \in {set_payload(message, <<b>>), set_payload_char(message, b),
                      set_cmd(message, b)}
            \cup (IF message.payload = <<>> THEN {} ELSE {set_real_payload(message, <<b>>)})
    /\ Len(message'.payload) <= MaxPayload
    /\ UNCHANGED <<stage, wire, request>>

(* The client encodes its message, with its digest or without.             *)
EncodeRequest ==
    /\ stage = "build"
    /\ message' \in {message, set_checksum(message, toStr(MD5(get_Message_string(message))))}
    /\ wire' = encode(message')
    /\ request' = message'
    /\ stage' = "request"

DecodeRequest ==
    /\ stage = "request"
    /\ message' = decode(wire)
    /\ stage' = "decoded"
    /\ UNCHANGED <<wire, request>>

Process ==
    /\ stage = "decoded"
    /\ message' \in cmd_process(message)
    /\ stage' = "process"
    /\ UNCHANGED <<wire, request>>

(* The reply to GET_DATA has no return statement; TX_DATA copies to the    *)
(* address that the client gives, with no memory mapped there.             *)
Crash ==
    /\ stage = "decoded"
    /\ get_cmd(message) \in {TX_DATA, GET_DATA}
    /\ stage' = "crashed"
    /\ UNCHANGED <<message, wire, request>>

EncodeReply ==
    /\ stage = "process"
    /\ wire' = encode(message)
    /\ stage' = "reply"
    /\ UNCHANGED <<message, request>>

DecodeReply ==
    /\ stage = "reply"
    /\ message' = decode(wire)
    /\ stage' = "done"
    /\ UNCHANGED <<wire, request>>

Next ==
    \/ SetField \/ SetPayload \/ EncodeRequest \/ DecodeRequest
    \/ Process \/ Crash \/ EncodeReply \/ DecodeReply

Spec == Init /\ [][Next]_vars

-----------------------------------------------------------------------------
(* decode finds the head, the end symbol, the digest and, at its place,    *)
(* the payload that were encoded (it does not find where that ends).       *)
DecodesWhatWasEncoded ==
    stage = "decoded" =>
        /\ \A f \in {"preamble", "len", "version", "total_package_len",
                      "seq", "flag", "end_sym"} : message[f] = request[f]
        /\ SubSeq(message.payload, 1, Len(request.payload)) = request.payload
        /\ SubSeq(message.checksum, 1, ChecksumSize)
             = SubSeq(request.checksum, 1, ChecksumSize)

(* The length in a reply, added up by simple_cmd_reply, is the number of   *)
(* bytes that encode makes of it.                                          *)
ReplyCountsItsBytes ==
    stage = "reply" /\ message.payload # <<>> => message.len = U32(Len(wire))

(* Nothing that the digest of a reply covers is set after it was taken.    *)
ReplyDigestCovers ==
    stage = "process" /\ message.payload # <<>> =>
        SubSeq(message.checksum, 1, ChecksumSize) = toStr(MD5(get_Message_string(message)))

(* The digest that process() takes of what it was sent is of the whole     *)
(* string, padded to whole blocks: also where the padding needs a block of *)
(* its own.                                                                *)
DigestIsReference ==
    stage = "request" => getDigest(MD5(wire)).digest = ReferenceDigest(wire)

(* What the client decodes answers what it encoded: it has its sequence    *)
(* number, its command and then a return code.                             *)
AnswersItsRequest ==
    stage = "done" /\ get_cmd(request) \in Commands =>
        /\ message.seq = request.seq
        /\ message.total_package_len = request.total_package_len
        /\ get_cmd(message) = get_cmd(request)
        /\ message.payload[2] \in {NONE, NORM}
=============================================================================
