\* ProtobufCodec.tla: messages that come as they were sent or damaged.
SPECIFICATION Spec
CONSTANTS
    TypeName <- MCTypeName
    Numbers <- MCNumbers
    Strings <- MCStrings
    Filled <- MCFilled
    NULL = NULL
    MaxSets = 1
    MaxDamaged = 20
    NewBytes <- MCNewBytes
INVARIANTS
    ObjectsHoldWhatWasSet
    ConcatenationMerges
    UnknownFieldsKept
    Delivered
    DamageNoticed
\* A message that was damaged is not received.
CHECK_DEADLOCK FALSE
