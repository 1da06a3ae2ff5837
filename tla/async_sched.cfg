SPECIFICATION Spec
CONSTANTS
    Coros = {c1, c2}
    Exts = {e1, e2}
    NGathers = 2
    MaxItems = 2
    RecursionLimit = 1
    Main = Main
    None = None
    ItemChoices <- AllItems
SYMMETRY Symmetry
INVARIANTS OneWakeSource ChildrenTracked SlotsAccounted ReadyQueueSound NoStall AwaitValue RunsOnce
PROPERTY GatherSettlesOnce
CHECK_DEADLOCK FALSE
