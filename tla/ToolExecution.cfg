CONSTANTS
    Action <- MCAction
    Permission <- MCPermission
    Wildcard <- MCWildcard
    Covers <- MCCovers
    Schemas <- MCSchemas
    Arguments <- MCArguments
    MayCancel = TRUE
SPECIFICATION ToolSpec
INVARIANTS
    OnlyPermitted
    DowngradedToBoth
    RetriedOnlyOnNetworkErrors
    RecordedAsReturned
CHECK_DEADLOCK FALSE
