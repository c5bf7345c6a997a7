SPECIFICATION Spec
CONSTANTS
    Requests = {r1, r2}
    Names = {root, ann}
    Typed = {root}
    Admins = {root}
    Sources = {s1}
    Sessions = {t1}
    Bootstrap = root
    MaxFailures = 2
    CaptchaAfter = 1
    MaxVersion = 2
    None = None
INVARIANTS
    TypeOK
    TriesAreBounded
PROPERTIES
    SessionIsCurrent
SYMMETRY Symmetry
