\* The shell's commands over a lossy network, with RPL root, TSCH and reboots.
CONSTANTS
    Lines <- MCLines
    AddrText <- MCAddrText
    LevelText <- MCLevelText
    Modules <- MCModules
    MaxPings = 3
    BootLevels <- MCBootLevels
    UIP_CONF_IPV6_RPL = TRUE
    ROUTING_CONF_RPL_LITE = TRUE
    MAC_CONF_WITH_TSCH = TRUE
    TSCH_WITH_SIXTOP = TRUE
    LLSEC802154_ENABLED = FALSE
    AddrSlots = 2
    AddrInitState = "tentative"
    DagPrefixes <- MCDagPrefixes
    MaxReboots = 1
SPECIFICATION Spec
CONSTRAINT PingOrRoot
INVARIANT OutputFuncOnlyWhileWaiting
INVARIANT PrintedAddressValid
INVARIANT RootDagOwnAddress
PROPERTY PingEnds
