SPECIFICATION Spec
CONSTANTS
    fs = fs
    a = a
    b = b
    c = c
    ra = ra
    rb = rb
    Star = Star
    NULL = NULL
    Names <- Names1
    Regexes <- Regexes1
    Matches <- Matches1
    Trees = {fs}
    Patterns <- Patterns1
    Objects = {a, b, c}
    Queries <- Queries1
    MaxStatements = 4
    MaxWalk = 2
INVARIANTS
    EveryHandlerOnce
    AlternativesAgree
    LedRight
PROPERTIES
    ExpansionEnds
    SearchEnds
