SPECIFICATION MCSpec
CONSTANTS
    Request = {r1}
    AppId = {1, 2}
    Key = {k1, k2}
    Share = {sh1, sh2}
    Nil = Nil
    Writer = {w1, w2}
    SubjectId = {1, 2, 3}
    Name = {n1, n2}
    None = None
    Student = {s1, s2}
    Topic = {t1, t2}
    Chatbot = {a1, a2}
    NoApp = NoApp
    Entry = {1, 2, 3, 4}
    created <- MCCreated
    DefaultSize = 2
    MaxLimit = 2
    MaxAsked = 3
INVARIANTS
    KeyOfAskedApp
    OkMeansDoneOnce
    LinksAreExact
    PagesAreSound
PROPERTIES
    RequestsEnd
    WritersKeepTheRules
CHECK_DEADLOCK FALSE
