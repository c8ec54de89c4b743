--------------------------- MODULE MCProtobufCodec ---------------------------
(* Names one of which is the beginning of another; the least number and    *)
(* the greatest of 32 and of 64 bits; strings that are no UTF-8, that have *)
(* a 0, and whose length has two digits; and an empty message of ten       *)
(* bytes, the shortest there is.                                           *)
EXTENDS ProtobufCodec

MCTypeName == [
    simple_cmd_reply |-> <<104>>, simple_cmd_reply_data |-> <<104, 100>>,
    cmd_begin_reply |-> <<98>>, cmd_tx_data_reply |-> <<116>>,
    cmd_get_data_reply |-> <<103>>, cmd_config_reply |-> <<99>>,
    cmd_test_reg_reply |-> <<101>>]
MCNumbers == {<<1>>, <<127, 127, 127, 127, 15>>,
              <<127, 127, 127, 127, 127, 127, 127, 127, 127, 1>>}
MCStrings == {<<200>>, <<65, 0, 66>>, [i \in 1..128 |-> 65]}
MCFilled == [number |-> <<0, 1>>, string |-> <<104>>]
MCNewBytes == {0, 1, 2, 3, 104, 127, 128, 255}
=============================================================================
