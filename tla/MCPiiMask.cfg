SPECIFICATION Spec
CONSTANTS
    Priority <- MCPriority
    Enabled = {"email", "card"}
    Letters = {a, b}
    Lengths <- MCLengths
INVARIANTS
    TypeOK
    MaskedExactly
    Coreference
    EveryCandidateTouched
SYMMETRY LetterSymmetry
CHECK_DEADLOCK FALSE
