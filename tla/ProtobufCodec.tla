---------------------------- MODULE ProtobufCodec ----------------------------
(***************************************************************************)
(* codec.h: a protobuf message in its transport format, the length, the    *)
(* length of its type's name, the name and a 0, the serialised message and *)
(* the adler32 of all this but the first length.  The sender, a client,    *)
(* makes its message with the operations of its class, which take it from  *)
(* one object to another; the receiver is the one in WorkTask::process     *)
(* that is under #if 0.                                                    *)
(*                                                                         *)
(* Integers on the wire are of 32 bits, their bytes highest first.         *)
(***************************************************************************)
EXTENDS HpcMessages

CONSTANTS TypeName,    \* the names of the types, which are sequences of bytes
          Numbers,     \* numbers the sender sets fields to
          Strings,     \* strings it sets fields to
          Filled,      \* number and string that fill an object
          MaxSets,     \* bound on the calls of setters
          MaxDamaged,  \* bound on the length of what is damaged
          NewBytes     \* what a damaged byte may become

ASSUME ProtobufAssumption ==
    /\ TypeName \in [Types -> Seq(1..255) \ {<<>>}]
    /\ \A s, t \in Types : TypeName[s] = TypeName[t] => s = t
    /\ \A digits \in Numbers \cup {Filled.number} : digits \in Seq(0..127)
    /\ Strings \cup {Filled.string} \subseteq Seq(0..255)
    /\ MaxSets \in Nat /\ MaxDamaged \in Nat
    /\ NewBytes \subseteq 0..255

VARIABLES
    message,    \* what the sender sends
    other,      \* another object of its class, NULL when it has sent
    held,       \* history: what message holds as its user sees it
    otherHeld,  \* history: what other holds
    sets,       \* how many setters were called
    wire,       \* what encode returned, on its way
    damaged,    \* the way has changed it
    newMsg,     \* what the receiver has decoded, NULL when nothing
    received,   \* the receiver has it
    died        \* an assertion of the receiver has failed

objects == <<message, other, held, otherHeld, sets>>
vars == <<objects, wire, damaged, newMsg, received, died>>

-----------------------------------------------------------------------------
kHeaderLen == 4

(* htonl, of a number that is not negative, and ntohl.                     *)
htonl(n) == [i \in 1..4 |-> (n \div 256^(4 - i)) % 256]

Signed(byte) == IF byte < 128 THEN byte ELSE byte - 256
asInt32(b) == ((Signed(b[1]) * 256 + b[2]) * 256 + b[3]) * 256 + b[4]

(* adler32(1, s, s.size()) as htonl leaves it, 16 bits each: the sum of    *)
(* what the other sum was after each byte, and that sum, 1 and the bytes.  *)
adler32(s) ==
    LET n == Len(s)
        Sums[first, last \in 1..n] ==
            IF first = last THEN <<s[first], (n - first + 1) * s[first]>>
            ELSE LET middle == (first + last) \div 2
                     left == Sums[first, middle]
                     right == Sums[middle + 1, last]
                 IN <<left[1] + right[1], left[2] + right[2]>>
        low == (1 + Sums[1, n][1]) % 65521
        high == (n + Sums[1, n][2]) % 65521
    IN <<high \div 256, high % 256, low \div 256, low % 256>>

(* The part that the checksum is of.  AppendToString does not fail.        *)
Begin(m) ==
    htonl(Len(TypeName[m.type]) + 1) \o TypeName[m.type] \o <<0>> \o AppendToString(m)

encode(m) ==
    LET begin == Begin(m) IN htonl(Len(begin) + kHeaderLen) \o begin \o adler32(begin)

NameLen(buf) == asInt32(SubSeq(buf, 1, kHeaderLen))

(* A message of the type with the name, NULL when there is no such type.   *)
createMessage(typeName) ==
    IF \E t \in Types : TypeName[t] = typeName
    THEN New(CHOOSE t \in Types : TypeName[t] = typeName) ELSE NULL

Decoded(buf) ==
    LET result == createMessage(SubSeq(buf, kHeaderLen + 1, kHeaderLen + NameLen(buf) - 1))
    IN IF result = NULL THEN NULL
       ELSE ParseFromArray(result, SubSeq(buf, kHeaderLen + NameLen(buf) + 1,
                                                Len(buf) - kHeaderLen))

\* mutation: nobody looks at the checksum
decodeUnchecked(buf) ==
    IF /\ Len(buf) >= 10
       /\ NameLen(buf) >= 2 /\ NameLen(buf) <= Len(buf) - 2 * kHeaderLen
    THEN Decoded(buf) ELSE NULL

decode(buf) ==
    IF /\ Len(buf) >= 10
       /\ adler32(SubSeq(buf, 1, Len(buf) - kHeaderLen))
            = SubSeq(buf, Len(buf) - kHeaderLen + 1, Len(buf))
       /\ NameLen(buf) >= 2 /\ NameLen(buf) <= Len(buf) - 2 * kHeaderLen
    THEN Decoded(buf) ELSE NULL

-----------------------------------------------------------------------------
Kind(name) == Class[message.type].accessors[name]
Names == DOMAIN held
Defaults == [n \in Names |-> <<>>]

Values(kind) ==
    CASE kind = "uint32" -> {digits \in Numbers : Low32(digits) = digits}
      [] kind = "uint64" -> Numbers
      [] kind = "string" -> Strings

(* The sender has two objects of a class, empty, with one field set or     *)
(* with all.                                                               *)
FilledFields(type, names) ==
    [n \in DOMAIN Class[type].accessors |->
        IF n \notin names THEN <<>>
        ELSE IF Class[type].accessors[n] = "string" THEN Filled.string ELSE Filled.number]

Init ==
    /\ \E t \in Types :
        LET filled == {FilledFields(t, names) : names \in {{}, {"seq"}, DOMAIN Class[t].accessors}}
        IN /\ held \in filled /\ otherHeld \in filled
           /\ message = [New(t) EXCEPT !.field = held]
           /\ other = [New(t) EXCEPT !.field = otherHeld]
    /\ sets = 0
    /\ wire = <<>>
    /\ damaged = FALSE
    /\ newMsg = NULL
    /\ received = FALSE
    /\ died = FALSE

Building == wire = <<>> /\ UNCHANGED <<wire, damaged, newMsg, received, died>>

(* set_ of a field, also of a const char*, and clear_.                     *)
SetField ==
    /\ Building
    /\ sets < MaxSets /\ sets' = sets + 1
    /\ \E n \in Names : \E value \in Values(Kind(n)) :
        \/ message' = Set(message, n, value) /\ held' = [held EXCEPT ![n] = value]
        \/ /\ Kind(n) = "string"
           /\ message' = Set(message, n, CString(value))
           /\ held' = [held EXCEPT ![n] = CString(value)]
        \/ message' = ClearField(message, n) /\ held' = [held EXCEPT ![n] = <<>>]
    /\ UNCHANGED <<other, otherHeld>>

ClearMessage ==
    /\ Building
    /\ message' = Clear(message) /\ held' = Defaults
    /\ UNCHANGED <<other, otherHeld, sets>>

(* other.CopyFrom(message), and other made anew as a copy.                 *)
CopyMessage ==
    /\ Building
    /\ other' \in {CopyFrom(other, message), CopyOf(message)}
    /\ otherHeld' = held
    /\ UNCHANGED <<message, held, sets>>

MergeOther ==
    /\ Building
    /\ message' = MergeFrom(message, other)
    /\ held' = [n \in Names |-> IF otherHeld[n] = <<>> THEN held[n] ELSE otherHeld[n]]
    /\ UNCHANGED <<other, otherHeld, sets>>

(* Swap, which is also what assigning from an object moved does.           *)
Swap ==
    /\ Building
    /\ message' = SwappedWith(message, other) /\ held' = otherHeld
    /\ other' = SwappedWith(other, message) /\ otherHeld' = held
    /\ UNCHANGED sets

Encode ==
    /\ wire = <<>>
    /\ wire' = encode(message)
    /\ other' = NULL /\ otherHeld' = Defaults
    /\ UNCHANGED <<message, held, sets, damaged, newMsg, received, died>>

(* One byte changes, two neighbours change places, or the end is cut off.  *)
Damage ==
    /\ wire # <<>> /\ ~damaged /\ ~received
    /\ Len(wire) <= MaxDamaged
    /\ \/ \E i \in 1..Len(wire), byte \in NewBytes : wire' = [wire EXCEPT ![i] = byte]
       \/ \E i \in 1..Len(wire) - 1 :
            wire' = [wire EXCEPT ![i] = wire[i + 1], ![i + 1] = wire[i]]
       \/ \E n \in kHeaderLen..Len(wire) - 1 : wire' = SubSeq(wire, 1, n)
    /\ wire' # wire
    /\ damaged' = TRUE
    /\ UNCHANGED <<objects, newMsg, received, died>>

(* The receiver asserts that the length is the right one, and that decode  *)
(* has found a message of the one class that it casts to, and dies when it *)
(* is not so.                                                              *)
Receive ==
    /\ wire # <<>> /\ ~received
    /\ received' = TRUE
    /\ newMsg' = IF asInt32(wire) = Len(wire) - kHeaderLen
                    THEN decode(SubSeq(wire, kHeaderLen + 1, Len(wire)))
                    ELSE NULL
    /\ died' = (IF newMsg' = NULL THEN TRUE ELSE newMsg'.type # "cmd_begin_reply")
    /\ UNCHANGED <<objects, wire, damaged>>

Next ==
    \/ SetField \/ ClearMessage \/ CopyMessage \/ MergeOther \/ Swap
    \/ Encode \/ Damage \/ Receive

Spec == Init /\ [][Next]_vars

-----------------------------------------------------------------------------
(* The strings of a message are UTF-8, which nothing asks of its sender.   *)
AllUtf8(m) ==
    \A n \in DOMAIN m.field :
        Class[m.type].accessors[n] = "string" => IsUtf8(m.field[n])

(* Whatever an object was used for before, and whichever way its content   *)
(* came to it, it holds for its accessors, and for the library that prints *)
(* it, what was put into it since and nothing else.                        *)
ObjectsHoldWhatWasSet ==
    /\ message.field = held
    /\ DebugString(message) = {<<n, held[n]>> : n \in {k \in Names : held[k] # <<>>}}
    /\ other # NULL => other.field = otherHeld

(* The bytes of two messages one after the other read as the two merged,   *)
(* as hpc.msg.pb.cc's readers and MergeFrom both have it.                  *)
ConcatenationMerges ==
    other # NULL /\ AllUtf8(message) /\ AllUtf8(other) =>
        ParseFromArray(New(message.type), InternalSerialize(message) \o InternalSerialize(other))
            = MergeFrom(message, other)

(* A message that is read as another class and written again, by a peer    *)
(* with another hpc.msg, keeps what that class does not know.  Only a      *)
(* number of 64 bits that the class knows with 32 is cut.                  *)
Narrows(m, type) ==
    \E f \in Class[m.type].InternalParse, g \in Class[type].InternalParse :
        /\ Tag(f) = Tag(g) /\ f.kind = "uint64" /\ g.kind = "uint32"
        /\ m.field[f.name] # Low32(m.field[f.name])

UnknownFieldsKept ==
    other # NULL /\ AllUtf8(message) =>
        \A type \in Types : Narrows(message, type) \/
            LET passedOn == ParseFromArray(New(type), InternalSerialize(message))
            IN ParseFromArray(New(message.type), InternalSerialize(passedOn)) = message

(* codec.h:20-27, WorkTask.cc:75-84: a message that comes as it was sent,  *)
(* from the shortest on, is the one that the receiver decodes, and it dies *)
(* of none that is of its class and has strings in UTF-8; of one that has  *)
(* not it does, though it was encoded.                                     *)
Delivered ==
    received /\ ~damaged =>
        /\ newMsg = (IF AllUtf8(message) THEN message ELSE NULL)
        /\ died <=> (message.type # "cmd_begin_reply" \/ ~AllUtf8(message))

(* codec.h:26: a message that was damaged is not taken for any message.    *)
DamageNoticed == damaged => newMsg = NULL
=============================================================================
