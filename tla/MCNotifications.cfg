SPECIFICATION FairSpec
CONSTANTS
    discord = discord
    telegram = telegram
    Channels = {discord, telegram}
    Configs <- EveryConfig
INVARIANTS
    TypeOK
    WaitsAreTimed
    ReportsAreTrue
PROPERTIES
    NotificationsEnd
\* A notification ends.
CHECK_DEADLOCK FALSE
