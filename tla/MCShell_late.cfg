\* A late echo reply to an earlier ping is reported as the reply of the current one.
CONSTANTS
    Lines <- MCLines
    AddrText <- MCAddrText
    LevelText <- MCLevelText
    Modules <- MCModules
    MaxPings = 2
    BootLevels <- MCBootLevels
    UIP_CONF_IPV6_RPL = TRUE
    ROUTING_CONF_RPL_LITE = TRUE
    MAC_CONF_WITH_TSCH = TRUE
    TSCH_WITH_SIXTOP = TRUE
    LLSEC802154_ENABLED = FALSE
    AddrSlots = 2
    AddrInitState = "tentative"
    DagPrefixes <- MCDagPrefixes
    MaxReboots = 1
SPECIFICATION Spec
INVARIANT ReplyAnswersPing
