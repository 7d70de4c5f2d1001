CONSTANTS
    Requests = {r1, r2}
    Profiles <- MCProfiles
    Owners = {"t1"}
    Resident <- MCResident
    CustomProviders = {"custom"}
    Normal <- MCNormal
    Forbidden <- MCForbidden
    MaxScopes = 2
    MaxPurges = 2
    Gateways <- MCGateways
    Credentials <- MCCredentials
    Tables <- MCTables
    Displays <- MCDisplays
    Regions <- MCRegions
    Models <- MCModels
    RouterConfig <- MCRouterConfig
    SpecLists <- MCSpecLists
    HealthViews <- MCHealthViews
    Picks <- MCPicks
    Configs <- MCConfigs
    RoutedRequests <- MCRoutedRequests
    Metadata <- MCMetadata
    Worlds <- MCWorlds
    Asks <- MCAsks
    Uploads <- MCUploads
SPECIFICATION GatewaySpec
INVARIANTS ShapingNeverCollides
CHECK_DEADLOCK FALSE
