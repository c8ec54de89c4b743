SPECIFICATION Spec
CONSTANTS
    Words <- MCWords
    Halves <- MCHalves
    Bytes <- MCBytes
    MaxPayload = 2
    BlockSize = 8
    WordBits = 8
INVARIANTS
    DecodesWhatWasEncoded
    ReplyCountsItsBytes
    ReplyDigestCovers
    DigestIsReference
    AnswersItsRequest
\* An exchange ends.
CHECK_DEADLOCK FALSE
