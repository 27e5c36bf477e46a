SPECIFICATION Spec
CONSTANTS
    ann = ann
    bob = bob
    right = right
    c1 = c1
    c2 = c2
    c3 = c3
    User = {ann, bob}
    Password = {right, wrong}
    Client = {c1, c2, c3}
    Worker = {w1, w2}
    Account <- AccountOf
    Secret <- SecretOf
    NoUser = NoUser
    NoToken = NoToken
    NoClient = NoClient
    LoginsApart = TRUE
    MaxTime = 3
CHECK_DEADLOCK FALSE
SYMMETRY Symmetric
INVARIANTS
    TypeOK
    ServedAsOneself
    StaysLoggedIn
PROPERTIES
    RefusedForGood
