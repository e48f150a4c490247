SPECIFICATION Spec
CONSTANTS
    t1 = t1
    t2 = t2
    Thread = {t1, t2}
    PortMod = 8
    First = 4
    Tries = 4
    Chosen = {5}
    Mortal = {6}
INVARIANTS TypeOK  GivesUpOnlyWhenFull
