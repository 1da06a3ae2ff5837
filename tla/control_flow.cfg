SPECIFICATION Spec
CONSTANTS
    Names <- MCNames
    Program <- MCProgram
    MaxFinallyCopies = 1024
INVARIANTS RunsAsWritten DepthsExact
CHECK_DEADLOCK FALSE
