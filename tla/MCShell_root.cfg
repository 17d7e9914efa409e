\* rpl-set-root prints one prefix and makes the node root with another.
CONSTANTS
    Lines <- MCLines
    AddrText <- MCAddrText
    LevelText <- MCLevelText
    Modules <- MCModules
    MaxPings = 2
    BootLevels <- MCBootLevels
    UIP_CONF_IPV6_RPL = TRUE
    ROUTING_CONF_RPL_LITE = TRUE
    MAC_CONF_WITH_TSCH = TRUE
    TSCH_WITH_SIXTOP = TRUE
    LLSEC802154_ENABLED = FALSE
    AddrSlots = 2
    AddrInitState = "tentative"
    DagPrefixes <- MCDagPrefixes
    MaxReboots = 1
SPECIFICATION Spec
INVARIANT ShellRootAsPrinted
