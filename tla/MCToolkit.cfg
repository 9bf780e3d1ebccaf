SPECIFICATION MCSpec
CONSTANTS
    User = {u1, u2, u3}
    Key = {k1}
    Resource = {x1, x2}
    Nobody = Nobody
    Nothing = Nothing
    Node = {"a", "b", "c"}
    Adder = {p1, p2}
    replicas = 2
    Points = 3
    hashFunc <- MCHashFunc
    MaxCopies = 2
    MaxRaced = 1
    Rune = {"a", "b"}
    MaxWord = 3
    MaxWords = 3
    MaxText = 4
    Types <- MCTypes
    Inputs <- MCInputs
    Unset = Unset
    Fields <- MCFields
    Maps <- MCMaps
INVARIANTS
    SharedAndClosed
    RingIsSound
    TagsAreHonoured
PROPERTIES
    WaitersComeBack
    OthersStay
    SearchIsRight
CHECK_DEADLOCK FALSE
