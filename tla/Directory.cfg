SPECIFICATION Spec
CONSTANTS
    Users = {u1, u2}
    Orgs = {administrator, acme}
    Services = {s1}
    Tokens = {t1}
    Requests = {q1, q2}
    MaxRequests = 4
    DefaultOrg = administrator
    NoOrg = none
INVARIANTS
    BootstrapStays
    ScopeWasGranted
PROPERTY OnlyTheEntitled
SYMMETRY Symmetry
CHECK_DEADLOCK FALSE
