SPECIFICATION Spec
CONSTANTS
    Priority <- MCPriority
    Enabled = {"email", "card"}
    Letters = {a, b}
    Lengths <- MCLengths
INVARIANT NothingDetectedLeft
SYMMETRY LetterSymmetry
CHECK_DEADLOCK FALSE
