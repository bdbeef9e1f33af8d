SPECIFICATION Spec
CONSTANTS
    NoRow = NoRow
    admin = admin
    viewer = viewer
    p1 = p1
    p2 = p2
    Users <- MCUsers
    Claims <- MCClaims
    Members <- MCMembers
    RoleSets <- MCRoleSets
    Scopes <- MCScopes
    Catalogs <- MCCatalogs
    Servers <- MCServers
    PageSize = 2
    MaxChanges = 2
INVARIANTS
    PathsAgree
    FiguresAgree
    RunReadsOneScope
    AuditTellsWhatHappened
CHECK_DEADLOCK FALSE
