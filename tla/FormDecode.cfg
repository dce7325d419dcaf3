CONSTANTS
    Alphabet = {0, 32, 37, 38, 43, 48, 61}
    MaxLen = 5
SPECIFICATION Spec
INVARIANTS
    DecodeExact
    FieldsExact
    BodyExact
    KnownReadPast
