CONSTANTS
    u1 = u1
    u2 = u2
    canvas = canvas
    asset = asset
    Users <- MCUsers
    Nobody = Nobody
    Items <- MCItems
    Owner <- MCOwner
    Assets = {asset}
    FirstCopies = {{canvas}}
    MaxClock = 3
    MaxSessions = 2
    MaxFailures = 1
    MaxReloads = 0
    MaxElsewhere = 1
SPECIFICATION Spec
INVARIANT BackendFallback
CHECK_DEADLOCK FALSE
