SPECIFICATION Spec
CONSTANTS
    f1 = f1  f2 = f2  f3 = f3
    s1 = s1  s2 = s2
    c1 = c1  c2 = c2
    Sessions = {s1, s2}
    Writers = {c1, c2}
    Fields = {f1, f2, f3}
    FannedOut = {f1, f2}
    Required = {f1}
    Unknown = {f3}
    FromModel <- SomeAnswers
    Alike = {f1}
    Environments <- WithAndWithout
    MaxProposals = 1
    MaxVersion = 2
    MaxWork = 2
SYMMETRY Symmetry
INVARIANTS
    ApprovedMeansReviewed
    NewestEventLast
PROPERTIES
    NoSpuriousPause
CHECK_DEADLOCK FALSE
