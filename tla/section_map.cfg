SPECIFICATION Spec
CONSTANTS
    Cells = {1, 2, 3, 4, 5}
    AIR = AIR
    Ids = {AIR, b1, b2, b3, b4}
    MaxWidth = 2
INVARIANTS
    CountsExact
    ShortcutsAgree
    ClientDecodes
PROPERTIES
    WritesOneCell
