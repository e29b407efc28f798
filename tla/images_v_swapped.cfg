SPECIFICATION ImageSpec
CONSTANTS
    Avatars = {}
    Logos = {}
    Photos = {p1}
    Keys = {k1, k2}
    NoKey = NoKey
    Editors = {e1}
    Swaps = TRUE
SYMMETRY ImageSymmetry
INVARIANT NoBrokenImage
