SPECIFICATION Spec
CONSTANTS
    MaxLen = 3
    Width = 2
    MaxLinks = 3
    Roots = {r1, r2}
    r1 = r1
    r2 = r2
    Kinds = {"container"}
    Names = {"f"}
    GcInterval = 1
    MaxReaders = 1
    Nil = Nil
SYMMETRY RootSymmetry
INVARIANT CountsExact
INVARIANT NoDangling
INVARIANT GarbageFindable
INVARIANT NothingSurvives
INVARIANT WeakIndexExact
PROPERTY ImplementsGraph
CHECK_DEADLOCK FALSE
