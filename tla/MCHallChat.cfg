SPECIFICATION Spec
CONSTANTS
    Letters <- TheLetters
    Digits <- TheDigits
    OtherLetters <- TheOtherLetters
    Numerals = {"yi"}
    Folds <- TheFolds
    Invisible = {"zw"}
    Separators = {" ", "."}
    Hints = {"qq"}
    TLDs = {"com"}
    Scheme = "://"
    Dot = "."
    DotWord = "dian"
    Space = " "
    At = "@"
    Slash = "/"
    Mask = "**"
    Builtin <- TheBuiltin
    DefaultDomains <- TheDomains
    MaxWordRunes = 4
    MaxWords = 3
    MaxDomains = 2
    LongRun = 3
    HintRun = 2
    AccountRun = 2
    HandleRun = 2
    Inputs <- TheInputs
    Texts <- TheTexts
    v1 = v1
    a1 = a1
    c1 = c1
    c2 = c2
    c3 = c3
    n1 = n1
    n2 = n2
    m1 = m1
    m2 = m2
    Visitors = {v1}
    Agents = {a1}
    Nodes = {n1, n2}
    Conns = {c1, c2, c3}
    Who <- TheWho
    Home <- TwoNodes
    Ids = {m1}
    Words <- TheWords
    FilterChoices <- TheChoices
    FirstFilter <- Strict
    FrameSlots = 1
    AlertBatch = 1
    AlertMaxAttempts = 2
    MaxEvents = 3
    NoFilter = NoFilter
    NoId = NoId
    Nobody = Nobody
INVARIANTS
    TypeOK
    FilterIsExact
    SilencedStaysPrivate
    BroadcastOnce
    AckTellsWhatIsShown
    MailedOnce
PROPERTIES
    MailSettles
CHECK_DEADLOCK FALSE
