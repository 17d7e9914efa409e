\* A non-root node: Trickle, DIS and DAO retransmission under timer fairness.
CONSTANTS
    IsRoot = FALSE
    DioIntMin = 3
    DioIntDoubl = 2
    DioRedundancy = 1
    RPL_DAO_MAX_RETRANSMISSIONS = 2
    LifetimeInfinite = FALSE
    MaxSeqno = 2
    MaxDioCounter = 1
SPECIFICATION Spec
INVARIANT TrickleIntervalBounded
PROPERTY DaoRetransmissionEnds
PROPERTY DisWhileDetached
