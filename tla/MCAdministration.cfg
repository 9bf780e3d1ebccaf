SPECIFICATION Spec
CONSTANTS
    Request = {r1, r2}
    Staff = {s1, s2}
    AppId = {i1, i2}
    AppName = {n1, n2}
    MaxRows = 2
    None = None
SYMMETRY Interchangeable
PROPERTIES
    LastManagerLostToDemoted
    DeletedAppsStayDeleted
