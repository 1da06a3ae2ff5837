SPECIFICATION Spec
CONSTANTS
    Coros = {c1, c2}
    Exts = {e1}
    NGathers = 1
    MaxItems = 2
    RecursionLimit = 1
    Main = Main
    None = None
    ItemChoices <- AllItems
SYMMETRY Symmetry
CHECK_DEADLOCK FALSE
INVARIANT DispatchNeverParked
