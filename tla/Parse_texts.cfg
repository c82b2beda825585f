SPECIFICATION TextSpec
CONSTANTS
    Alphabet <- TaskAlphabet
    MaxLen <- TaskLen
    Table <- SmallTable
    Half = 32
    Divisors = {2, 4, 8, 16}
CHECK_DEADLOCK FALSE
INVARIANTS
    FoundIsWord
    NumberAsWritten
    AutoAsWritten
