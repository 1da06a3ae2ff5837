SPECIFICATION Spec
CONSTANTS
    MaxLen = 3
    Width = 2
    MaxLinks = 3
    Roots = {r1, r2}
    r1 = r1
    r2 = r2
    Kinds = {"container", "exception"}
    Names = {}
    GcInterval = 1
    MaxReaders = 0
    Nil = Nil
INVARIANT NothingSurvives
CHECK_DEADLOCK FALSE
