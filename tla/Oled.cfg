SPECIFICATION Spec
CONSTANTS
    p = p
    q = q
    Pages <- MCPages
    Percent = Percent
    Blank = Blank
    Mess = Mess
INVARIANTS TypeOK UndisturbedShown
PROPERTIES PercentHeals
