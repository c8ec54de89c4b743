---------------------------- MODULE HpcMessages ----------------------------
(***************************************************************************)
(* The messages of hpc.msg as protoc compiled them: seven classes, each    *)
(* with a member per field, and the operations of a class.  What differs   *)
(* from class to class is below as tables, a definition for each function; *)
(* what they have in common follows as operators over the tables.          *)
(*                                                                         *)
(* A number is the sequence of its digits to the base 128, lowest first    *)
(* and without zeros at its end, so that 0 is <<>> as the empty string is: *)
(* the default of every field.  A string is the sequence of its bytes, of  *)
(* which there are fewer than 128^2.  Arenas are left out, no message is   *)
(* made on one, and so is the cached size, which nothing reads again.      *)
(***************************************************************************)
EXTENDS Integers, Sequences, SequencesExt, FiniteSets, TLC

CONSTANT NULL  \* no message

(* A field as it is read and written: its number, its name and its kind.   *)
UInt32(number, name) == [number |-> number, name |-> name, kind |-> "uint32"]
UInt64(number, name) == [number |-> number, name |-> name, kind |-> "uint64"]
String(number, name) == [number |-> number, name |-> name, kind |-> "string"]

(* The fields that all the messages have.                                  *)
Common == <<"preamble", "len", "version", "total_package_len", "seq", "flag", "cmd">>
CommonFields == [i \in 1..7 |-> UInt32(i, Common[i])]
CommonNames == ToSet(Common)
CommonAccessors == [name \in CommonNames |-> "uint32"]

(* The members that lie from preamble_ to last, which memset, memcpy and   *)
(* memswap take as one block.                                              *)
Block(members, last) ==
    LET At(name) == CHOOSE i \in DOMAIN members : members[i] = name
    IN {members[i] : i \in At("preamble")..At(last)}

-----------------------------------------------------------------------------
(* Of each class: its members as they lie in memory; the kind of each      *)
(* field's accessors; the members that a new object sets to the default,   *)
(* that a copy copies, that Clear sets to the default; the fields it       *)
(* reads, those it writes, in order, those whose size it counts; the       *)
(* fields it merges, and the members it swaps.                             *)

simple_cmd_reply_members == Common \o <<"rtcode">>
simple_cmd_reply_accessors == CommonAccessors @@ [rtcode |-> "uint32"]
simple_cmd_reply_SharedCtor == Block(simple_cmd_reply_members, "rtcode")
simple_cmd_reply_copy == Block(simple_cmd_reply_members, "rtcode")
simple_cmd_reply_Clear == Block(simple_cmd_reply_members, "rtcode")
simple_cmd_reply_InternalParse == ToSet(CommonFields) \cup {UInt32(8, "rtcode")}
simple_cmd_reply_InternalSerialize == CommonFields \o <<UInt32(8, "rtcode")>>
simple_cmd_reply_ByteSizeLong == ToSet(CommonFields) \cup {UInt32(8, "rtcode")}
simple_cmd_reply_MergeFrom == CommonNames \cup {"rtcode"}
simple_cmd_reply_InternalSwap == Block(simple_cmd_reply_members, "rtcode")

simple_cmd_reply_data_members == <<"databuf">> \o Common \o <<"rtcode">>
simple_cmd_reply_data_accessors ==
    CommonAccessors @@ [rtcode |-> "uint32", databuf |-> "string"]
simple_cmd_reply_data_SharedCtor ==
    {"databuf"} \cup Block(simple_cmd_reply_data_members, "rtcode")
simple_cmd_reply_data_copy ==
    {"databuf"} \cup Block(simple_cmd_reply_data_members, "rtcode")
simple_cmd_reply_data_Clear ==
    {"databuf"} \cup Block(simple_cmd_reply_data_members, "rtcode")
simple_cmd_reply_data_InternalParse ==
    ToSet(CommonFields) \cup {UInt32(8, "rtcode"), String(9, "databuf")}
simple_cmd_reply_data_InternalSerialize ==
    CommonFields \o <<UInt32(8, "rtcode"), String(9, "databuf")>>
simple_cmd_reply_data_ByteSizeLong ==
    ToSet(CommonFields) \cup {UInt32(8, "rtcode"), String(9, "databuf")}
simple_cmd_reply_data_MergeFrom == CommonNames \cup {"databuf", "rtcode"}
simple_cmd_reply_data_InternalSwap ==
    {"databuf"} \cup Block(simple_cmd_reply_data_members, "rtcode")

cmd_begin_reply_members ==
    <<"interrupt_path">> \o Front(Common) \o <<"base_address", "cmd">>
cmd_begin_reply_accessors ==
    CommonAccessors @@ [base_address |-> "uint64", interrupt_path |-> "string"]
cmd_begin_reply_SharedCtor ==
    {"interrupt_path"} \cup Block(cmd_begin_reply_members, "cmd")
cmd_begin_reply_copy ==
    {"interrupt_path"} \cup Block(cmd_begin_reply_members, "cmd")

\* mutation: what is set to 0 ends before cmd
cmd_begin_reply_ClearToAddress ==
    {"interrupt_path"} \cup Block(cmd_begin_reply_members, "base_address")

cmd_begin_reply_Clear ==
    {"interrupt_path"} \cup Block(cmd_begin_reply_members, "cmd")
cmd_begin_reply_InternalParse ==
    ToSet(CommonFields) \cup {UInt64(8, "base_address"), String(9, "interrupt_path")}
cmd_begin_reply_InternalSerialize ==
    CommonFields \o <<UInt64(8, "base_address"), String(9, "interrupt_path")>>
cmd_begin_reply_ByteSizeLong ==
    ToSet(CommonFields) \cup {UInt64(8, "base_address"), String(9, "interrupt_path")}

\* mutation: the address is not merged
cmd_begin_reply_MergeSome == CommonNames \cup {"interrupt_path"}

cmd_begin_reply_MergeFrom == CommonNames \cup {"interrupt_path", "base_address"}
cmd_begin_reply_InternalSwap ==
    {"interrupt_path"} \cup Block(cmd_begin_reply_members, "cmd")

cmd_tx_data_reply_members == Front(Common) \o <<"input_address", "cmd">>
cmd_tx_data_reply_accessors == CommonAccessors @@ [input_address |-> "uint64"]
cmd_tx_data_reply_SharedCtor == Block(cmd_tx_data_reply_members, "cmd")
cmd_tx_data_reply_copy == Block(cmd_tx_data_reply_members, "cmd")
cmd_tx_data_reply_Clear == Block(cmd_tx_data_reply_members, "cmd")
cmd_tx_data_reply_InternalParse ==
    ToSet(CommonFields) \cup {UInt64(8, "input_address")}
cmd_tx_data_reply_InternalSerialize ==
    CommonFields \o <<UInt64(8, "input_address")>>

\* mutation: the size of the address is not counted
cmd_tx_data_reply_ByteSizeSome == ToSet(CommonFields)

cmd_tx_data_reply_ByteSizeLong ==
    ToSet(CommonFields) \cup {UInt64(8, "input_address")}
cmd_tx_data_reply_MergeFrom == CommonNames \cup {"input_address"}
cmd_tx_data_reply_InternalSwap == Block(cmd_tx_data_reply_members, "cmd")

cmd_get_data_reply_members == <<"data">> \o Common
cmd_get_data_reply_accessors == CommonAccessors @@ [data |-> "string"]
cmd_get_data_reply_SharedCtor ==
    {"data"} \cup Block(cmd_get_data_reply_members, "cmd")
cmd_get_data_reply_copy ==
    {"data"} \cup Block(cmd_get_data_reply_members, "cmd")
cmd_get_data_reply_Clear ==
    {"data"} \cup Block(cmd_get_data_reply_members, "cmd")
cmd_get_data_reply_InternalParse == ToSet(CommonFields) \cup {String(8, "data")}
cmd_get_data_reply_InternalSerialize == CommonFields \o <<String(8, "data")>>
cmd_get_data_reply_ByteSizeLong == ToSet(CommonFields) \cup {String(8, "data")}
cmd_get_data_reply_MergeFrom == CommonNames \cup {"data"}
cmd_get_data_reply_InternalSwap ==
    {"data"} \cup Block(cmd_get_data_reply_members, "cmd")

cmd_config_reply_members == <<"config">> \o Common
cmd_config_reply_accessors == CommonAccessors @@ [config |-> "string"]
cmd_config_reply_SharedCtor ==
    {"config"} \cup Block(cmd_config_reply_members, "cmd")
cmd_config_reply_copy == {"config"} \cup Block(cmd_config_reply_members, "cmd")
cmd_config_reply_Clear == {"config"} \cup Block(cmd_config_reply_members, "cmd")
cmd_config_reply_InternalParse == ToSet(CommonFields) \cup {String(8, "config")}
cmd_config_reply_InternalSerialize == CommonFields \o <<String(8, "config")>>
cmd_config_reply_ByteSizeLong == ToSet(CommonFields) \cup {String(8, "config")}
cmd_config_reply_MergeFrom == CommonNames \cup {"config"}
cmd_config_reply_InternalSwap ==
    {"config"} \cup Block(cmd_config_reply_members, "cmd")

cmd_test_reg_reply_members == <<"reg">> \o Common
cmd_test_reg_reply_accessors == CommonAccessors @@ [reg |-> "string"]
cmd_test_reg_reply_SharedCtor ==
    {"reg"} \cup Block(cmd_test_reg_reply_members, "cmd")
cmd_test_reg_reply_copy == {"reg"} \cup Block(cmd_test_reg_reply_members, "cmd")
cmd_test_reg_reply_Clear ==
    {"reg"} \cup Block(cmd_test_reg_reply_members, "cmd")
cmd_test_reg_reply_InternalParse == ToSet(CommonFields) \cup {String(8, "reg")}
cmd_test_reg_reply_InternalSerialize == CommonFields \o <<String(8, "reg")>>
cmd_test_reg_reply_ByteSizeLong == ToSet(CommonFields) \cup {String(8, "reg")}
cmd_test_reg_reply_MergeFrom == CommonNames \cup {"reg"}
cmd_test_reg_reply_InternalSwap ==
    {"reg"} \cup Block(cmd_test_reg_reply_members, "cmd")

Class == [
    simple_cmd_reply |-> [
        members |-> simple_cmd_reply_members, accessors |-> simple_cmd_reply_accessors,
        SharedCtor |-> simple_cmd_reply_SharedCtor, copy |-> simple_cmd_reply_copy,
        Clear |-> simple_cmd_reply_Clear, InternalParse |-> simple_cmd_reply_InternalParse,
        InternalSerialize |-> simple_cmd_reply_InternalSerialize, ByteSizeLong |-> simple_cmd_reply_ByteSizeLong,
        MergeFrom |-> simple_cmd_reply_MergeFrom, InternalSwap |-> simple_cmd_reply_InternalSwap],
    simple_cmd_reply_data |-> [
        members |-> simple_cmd_reply_data_members, accessors |-> simple_cmd_reply_data_accessors,
        SharedCtor |-> simple_cmd_reply_data_SharedCtor, copy |-> simple_cmd_reply_data_copy,
        Clear |-> simple_cmd_reply_data_Clear, InternalParse |-> simple_cmd_reply_data_InternalParse,
        InternalSerialize |-> simple_cmd_reply_data_InternalSerialize, ByteSizeLong |-> simple_cmd_reply_data_ByteSizeLong,
        MergeFrom |-> simple_cmd_reply_data_MergeFrom, InternalSwap |-> simple_cmd_reply_data_InternalSwap],
    cmd_begin_reply |-> [
        members |-> cmd_begin_reply_members, accessors |-> cmd_begin_reply_accessors,
        SharedCtor |-> cmd_begin_reply_SharedCtor, copy |-> cmd_begin_reply_copy,
        Clear |-> cmd_begin_reply_Clear, InternalParse |-> cmd_begin_reply_InternalParse,
        InternalSerialize |-> cmd_begin_reply_InternalSerialize, ByteSizeLong |-> cmd_begin_reply_ByteSizeLong,
        MergeFrom |-> cmd_begin_reply_MergeFrom, InternalSwap |-> cmd_begin_reply_InternalSwap],
    cmd_tx_data_reply |-> [
        members |-> cmd_tx_data_reply_members, accessors |-> cmd_tx_data_reply_accessors,
        SharedCtor |-> cmd_tx_data_reply_SharedCtor, copy |-> cmd_tx_data_reply_copy,
        Clear |-> cmd_tx_data_reply_Clear, InternalParse |-> cmd_tx_data_reply_InternalParse,
        InternalSerialize |-> cmd_tx_data_reply_InternalSerialize, ByteSizeLong |-> cmd_tx_data_reply_ByteSizeLong,
        MergeFrom |-> cmd_tx_data_reply_MergeFrom, InternalSwap |-> cmd_tx_data_reply_InternalSwap],
    cmd_get_data_reply |-> [
        members |-> cmd_get_data_reply_members, accessors |-> cmd_get_data_reply_accessors,
        SharedCtor |-> cmd_get_data_reply_SharedCtor, copy |-> cmd_get_data_reply_copy,
        Clear |-> cmd_get_data_reply_Clear, InternalParse |-> cmd_get_data_reply_InternalParse,
        InternalSerialize |-> cmd_get_data_reply_InternalSerialize, ByteSizeLong |-> cmd_get_data_reply_ByteSizeLong,
        MergeFrom |-> cmd_get_data_reply_MergeFrom, InternalSwap |-> cmd_get_data_reply_InternalSwap],
    cmd_config_reply |-> [
        members |-> cmd_config_reply_members, accessors |-> cmd_config_reply_accessors,
        SharedCtor |-> cmd_config_reply_SharedCtor, copy |-> cmd_config_reply_copy,
        Clear |-> cmd_config_reply_Clear, InternalParse |-> cmd_config_reply_InternalParse,
        InternalSerialize |-> cmd_config_reply_InternalSerialize, ByteSizeLong |-> cmd_config_reply_ByteSizeLong,
        MergeFrom |-> cmd_config_reply_MergeFrom, InternalSwap |-> cmd_config_reply_InternalSwap],
    cmd_test_reg_reply |-> [
        members |-> cmd_test_reg_reply_members, accessors |-> cmd_test_reg_reply_accessors,
        SharedCtor |-> cmd_test_reg_reply_SharedCtor, copy |-> cmd_test_reg_reply_copy,
        Clear |-> cmd_test_reg_reply_Clear, InternalParse |-> cmd_test_reg_reply_InternalParse,
        InternalSerialize |-> cmd_test_reg_reply_InternalSerialize, ByteSizeLong |-> cmd_test_reg_reply_ByteSizeLong,
        MergeFrom |-> cmd_test_reg_reply_MergeFrom, InternalSwap |-> cmd_test_reg_reply_InternalSwap]]

-----------------------------------------------------------------------------
(* What the library, which prints a message or merges one of another       *)
(* class, knows of the classes: where the members are, five entries that   *)
(* are none and then one for each field in the order of the descriptor;    *)
(* where the entries of a class begin; and the descriptor.                 *)
NoFields == <<"", "", "", "", "">>

TableStruct_offsets ==
    NoFields \o Common \o <<"rtcode">> \o
    NoFields \o Common \o <<"rtcode", "databuf">> \o
    NoFields \o Common \o <<"base_address", "interrupt_path">> \o
    NoFields \o Common \o <<"input_address">> \o
    NoFields \o Common \o <<"data">> \o
    NoFields \o Common \o <<"config">> \o
    NoFields \o Common \o <<"reg">>

schemas == [
    simple_cmd_reply |-> 0, simple_cmd_reply_data |-> 13, cmd_begin_reply |-> 27,
    cmd_tx_data_reply |-> 41, cmd_get_data_reply |-> 54, cmd_config_reply |-> 67,
    cmd_test_reg_reply |-> 80]

descriptor == [
    simple_cmd_reply |-> Common \o <<"rtcode">>,
    simple_cmd_reply_data |-> Common \o <<"rtcode", "databuf">>,
    cmd_begin_reply |-> Common \o <<"base_address", "interrupt_path">>,
    cmd_tx_data_reply |-> Common \o <<"input_address">>,
    cmd_get_data_reply |-> Common \o <<"data">>,
    cmd_config_reply |-> Common \o <<"config">>,
    cmd_test_reg_reply |-> Common \o <<"reg">>]

Types == DOMAIN Class

(* What PrintDebugString makes of a message, but for the layout.           *)
DebugString(m) ==
    LET Value(i) == m.field[TableStruct_offsets[schemas[m.type] + Len(NoFields) + i]]
    IN {<<descriptor[m.type][i], Value(i)>> :
            i \in {j \in DOMAIN descriptor[m.type] : Value(j) # <<>>}}

-----------------------------------------------------------------------------
(* Objects.                                                                *)

New(type) ==
    [type |-> type, unknown |-> <<>>, field |-> [n \in Class[type].SharedCtor |-> <<>>]]

CopyOf(from) == [from EXCEPT !.field = [n \in Class[from.type].copy |-> from.field[n]]]

(* set_ and clear_ of a field, and set_ of a const char*, which ends       *)
(* before the first 0.                                                     *)
Set(m, name, value) == [m EXCEPT !.field[name] = value]
ClearField(m, name) == Set(m, name, <<>>)

CString(value) ==
    LET zeros == {i \in DOMAIN value : value[i] = 0}
    IN IF zeros = {} THEN value
       ELSE SubSeq(value, 1, (CHOOSE i \in zeros : \A j \in zeros : i <= j) - 1)

Clear(m) ==
    [m EXCEPT !.unknown = <<>>,
              !.field = [n \in DOMAIN @ |-> IF n \in Class[m.type].Clear THEN <<>> ELSE @[n]]]

MergeFrom(m, from) ==
    LET Merged(n) == n \in Class[m.type].MergeFrom /\ from.field[n] # <<>>
    IN [m EXCEPT !.unknown = @ \o from.unknown,
                 !.field = [n \in DOMAIN @ |-> IF Merged(n) THEN from.field[n] ELSE @[n]]]

CopyFrom(m, from) == MergeFrom(Clear(m), from)

(* What m is after m.Swap(&other).                                         *)
SwappedWith(m, other) ==
    [m EXCEPT !.unknown = other.unknown,
              !.field = [n \in DOMAIN @ |->
                            IF n \in Class[m.type].InternalSwap THEN other.field[n] ELSE @[n]]]

-----------------------------------------------------------------------------
(* Fields on the wire: a byte with the number and the wire type, and then  *)
(* a varint, the digits with 128 added to all but the last, or a length    *)
(* and the bytes.                                                          *)

Normal(digits) ==
    SubSeq(digits, 1, CHOOSE n \in 0..Len(digits) :
        /\ n = 0 \/ digits[n] # 0
        /\ \A i \in n + 1..Len(digits) : digits[i] = 0)

Base128(n) == Normal(<<n % 128, n \div 128>>)

WireType(kind) == IF kind = "string" THEN 2 ELSE 0
Tag(f) == 8 * f.number + WireType(f.kind)

Varint(digits) ==
    IF digits = <<>> THEN <<0>>
    ELSE [i \in DOMAIN digits |-> IF i < Len(digits) THEN digits[i] + 128 ELSE digits[i]]

OnWire(tag, value) ==
    <<tag>> \o (IF tag % 8 = 0 THEN Varint(value) ELSE Varint(Base128(Len(value))) \o value)

(* UInt32Size, UInt64Size and StringSize.                                  *)
VarintSize(digits) == IF digits = <<>> THEN 1 ELSE Len(digits)
Size(kind, value) ==
    IF kind = "string" THEN VarintSize(Base128(Len(value))) + Len(value)
    ELSE VarintSize(value)

(* ReadVarint32: 32 bits, whatever the varint has.                         *)
Low32(digits) ==
    IF Len(digits) < 5 THEN digits ELSE Normal(Append(SubSeq(digits, 1, 4), digits[5] % 16))

(* VerifyUTF8, of strings without characters of several bytes.             *)
IsUtf8(value) == \A i \in DOMAIN value : value[i] < 128

Malformed == [tag |-> 0, value |-> <<>>]

(* ReadTag and what follows it, for bytes that begin at a tag, up to the   *)
(* end or to the first that is no field, which ends the reading.           *)
Items(bytes) ==
    LET Digits(i, n) == Normal([k \in 1..n |-> bytes[i + k - 1] % 128])
        Ends(i) == {n \in 1..10 : i + n - 1 <= Len(bytes) /\ bytes[i + n - 1] < 128}
        Value(i) == Digits(i, CHOOSE n \in Ends(i) : \A k \in Ends(i) : n <= k)
        After(i) == i + (CHOOSE n \in Ends(i) : \A k \in Ends(i) : n <= k)
        Number(d) == FoldRight(LAMBDA digit, n : digit + 128 * n, d, 0)
        From[i \in 1..Len(bytes) + 1] ==
            IF i = Len(bytes) + 1 THEN <<>>
            ELSE IF bytes[i] % 8 \notin {0, 2} \/ bytes[i] \notin 8..127 \/ Ends(i + 1) = {}
            THEN <<Malformed>>
            ELSE IF bytes[i] % 8 = 0
            THEN <<[tag |-> bytes[i], value |-> Value(i + 1)]>> \o From[After(i + 1)]
            ELSE LET begin == After(i + 1)
                     end == begin + Number(Value(i + 1))
                 IN IF end > Len(bytes) + 1 THEN <<Malformed>>
                    ELSE <<[tag |-> bytes[i], value |-> SubSeq(bytes, begin, end - 1)]>>
                             \o From[end]
    IN From[1]

-----------------------------------------------------------------------------
(* Reading and writing.                                                    *)

FieldsOf(m, item) == {f \in Class[m.type].InternalParse : Tag(f) = item.tag}

\* mutation: what the class does not know is lost
ParseItemKnown(m, item) ==
    IF FieldsOf(m, item) = {} THEN m
    ELSE LET f == CHOOSE f \in FieldsOf(m, item) : TRUE
         IN Set(m, f.name, IF f.kind = "uint32" THEN Low32(item.value) ELSE item.value)

(* What the class does not know is kept to be written again.               *)
ParseItem(m, item) ==
    IF FieldsOf(m, item) = {} THEN [m EXCEPT !.unknown = @ \o OnWire(item.tag, item.value)]
    ELSE LET f == CHOOSE f \in FieldsOf(m, item) : TRUE
         IN Set(m, f.name, IF f.kind = "uint32" THEN Low32(item.value) ELSE item.value)

InternalParse(m, bytes) ==
    LET items == Items(bytes)
        Fails(item) ==
            \/ item = Malformed
            \/ ~IsUtf8(item.value) /\ \E f \in FieldsOf(m, item) : f.kind = "string"
    IN IF \E i \in DOMAIN items : Fails(items[i]) THEN NULL
       ELSE FoldLeft(ParseItem, m, items)

ParseFromArray(m, bytes) == InternalParse(Clear(m), bytes)

(* A string that is no UTF-8 is written all the same.                      *)
InternalSerialize(m) ==
    LET Write(bytes, f) ==
            IF m.field[f.name] = <<>> THEN bytes
            ELSE bytes \o OnWire(Tag(f), m.field[f.name])
    IN FoldLeft(Write, <<>>, Class[m.type].InternalSerialize) \o m.unknown

ByteSizeLong(m) ==
    LET counted == {f \in Class[m.type].ByteSizeLong : m.field[f.name] # <<>>}
        Sizes == [f \in counted |-> 1 + Size(f.kind, m.field[f.name])]
    IN FoldFunction(+, Len(m.unknown), Sizes)

(* The bytes that ByteSizeLong has counted, of what InternalSerialize has  *)
(* written.                                                                *)
AppendToString(m) ==
    LET bytes == InternalSerialize(m)
    IN [i \in 1..ByteSizeLong(m) |-> IF i \in DOMAIN bytes THEN bytes[i] ELSE 0]
=============================================================================
