CONSTANTS
    PageW = 11
    PageH = 10
    Typable = {0, 1, 5}
    MaxDrag = 4
SPECIFICATION GeomSpec
INVARIANT MarginsFollowTheView
CHECK_DEADLOCK FALSE
