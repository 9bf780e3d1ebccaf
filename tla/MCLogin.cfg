SPECIFICATION Spec
CONSTANTS
    a1 = a1
    a2 = a2
    s1 = s1
    s2 = s2
    Request = {r1, r2}
    Mark = {m1, m2}
    Account = {a1, a2, a3}
    Staff = {s1, s2}
    UserId = {u1, u2}
    staffOf <- StaffOfAccount
    Sheet = {s1, s2}
    MarkSeconds = 1
    CommitFails = FALSE
    Empty = Empty
    None = None
SYMMETRY Interchangeable
INVARIANTS
    TokenMatchesUser
    BindMatchesStaff
    LoginUserHasOneBind
    ConsumedMarkRefused
