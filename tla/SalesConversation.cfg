\* Every interleaving of two turns of two conversations; one turn may die.
CONSTANTS
    Convs = {c1, c2}
    NoConv = none
    Turns = {t1, t2}
    Phones = {p1}
    NoPhone = nophone
    Required = 1
    MaxFaults = 1
SPECIFICATION Spec
SYMMETRY Symmetry
INVARIANTS AlertedOnce NoLeadForgotten MarkedWhileApart
PROPERTIES FunnelMoves AnswersKept
