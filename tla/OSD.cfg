SPECIFICATION Spec
CONSTANTS
    h1 = h1
    h2 = h2
    a = a
    aBreak = aBreak
    break = break
    Absent = Absent
    Blank = Blank
    Torn = Torn
    Handlers <- TwoHandlers
    Texts <- AllTexts
    Trimmed <- AllTrim
    Files <- AnyFile
    MaxFaults = 3
SYMMETRY Symmetry
INVARIANTS
    AckedIsStored
    OneOSD
    RenderedWhole
