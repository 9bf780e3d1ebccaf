SPECIFICATION Spec
CONSTANTS
    s1 = s1
    s2 = s2
    c1 = c1
    Request = {r1}
    Upload = {u1, u2}
    Staff = {s1, s2}
    Subject = {c1, c2}
    Row = {i1, i2, i3}
    Sheet <- Sheets
    Import <- Imports
    None = None
SYMMETRY Interchangeable
INVARIANT RowsNameTheirUser
PROPERTIES
    UploadNeverEmpties
    RevivedOnlyByStaleSave
