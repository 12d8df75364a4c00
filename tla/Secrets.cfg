\* Two repositories, one of them with a record key that is its name.
SPECIFICATION Spec
CONSTANTS
    Did = {"did:plc:a"}
    Owner = "did:plc:o"
    Us = "did:web:us"
    Curve = {"ES256", "ES256K"}
    Leeway = 30
    Seconds = 1000
    Now = 100
    Directory <- MCDirectory
    Name = {"site", "tool"}
    RkeyOf <- MCRkeyOf
    PlaceOf <- MCPlaceOf
    SecretName = {"KEY", "PASS", "deep/KEY"}
    Value = {"v1", "v2"}
    Nested = {"deep/KEY"}
    Caller = {c1, c2}
    Registered <- MCRegistered
    Deployments <- MCDeployments
    Word = 65536
    Orders <- MCOrders
    MaxMoves = 4
INVARIANTS PutIsSeen ReadIsCurrent
SYMMETRY Symmetric
CHECK_DEADLOCK FALSE
