CONSTANTS
    u1 = u1
    u2 = u2
    canvas = canvas
    asset = asset
    Users <- MCUsers
    Nobody = Nobody
    Items <- MCItems
    Owner <- MCOwner
    Assets = {asset}
    FirstCopies = {{asset}}
    MaxClock = 3
    MaxSessions = 2
    MaxFailures = 1
    MaxReloads = 1
    MaxElsewhere = 1
SPECIFICATION Spec
INVARIANTS TypeOK NothingLost OnlyDeletedIsRemoved OwnData QuietIsSynced
CHECK_DEADLOCK FALSE
