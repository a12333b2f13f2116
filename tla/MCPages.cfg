SPECIFICATION PagesSpec
CONSTANTS
    MaxStart = 3  MaxRecord = 2
    EndpointCount = 2
    Control = {k1, k2}  Gpo = {g1, g2}  MaxHistory = 2  MaxTime = 2
    Account = {w1, w2}  Subject = {x1, x2}  NoOne = nobody
    Endpoint = {p1, p2, p3}  DomainControllers = {p3}
    Ou = {o1, o2}  DomainRoot = root  NoScope = none
INVARIANTS
    NoForeignSession
    GreenIsMeasured
    MismatchIsShown
    ScriptAgreesWithPlan
    EveryScopeReachable
    JournalAgrees
    AnswerForSelection
    ChangeHasBackup
    FormMatchesService
    PageReleased
PROPERTIES
    AssessedAsShown
CHECK_DEADLOCK FALSE
