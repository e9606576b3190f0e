SPECIFICATION LayoutSpec
CONSTANTS
    Elements = {1, 2}
    Pages = {e1}
    Puts = {h1}
    MaxEdits = 2
    MaxSaves = 2
CHECK_DEADLOCK FALSE
INVARIANT
    ShownIsWhatWasDrawn
