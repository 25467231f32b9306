SPECIFICATION ResetSpec
CONSTANTS
    Link = {l1, l2, l3}
    Resetter = {p1, p2}
    MaxChange = 3
    NoLink = NoLink
PROPERTIES
    LinkIsSingleUse
SYMMETRY Symmetry
