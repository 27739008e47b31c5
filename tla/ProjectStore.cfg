\* Two requests at once on two projects, and a daemon that may die.
CONSTANTS
    Handlers = {h1, h2}
    Projects = {p1, p2}
    Documents = {d1, d2}
    Missing = Missing
    Empty = Empty
    Torn = Torn
    NoProject = NoProject
SPECIFICATION Spec
SYMMETRY Symmetry
INVARIANTS
    TypeOK
    AnswersStand
    ContentsStand
CHECK_DEADLOCK FALSE
