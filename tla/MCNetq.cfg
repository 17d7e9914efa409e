\* The tinyDTLS packet queue against its abstract specification.
CONSTANTS
    Nodes <- MCNodes
    Times <- MCTimes
    NULL = NULL
SPECIFICATION Spec
INVARIANT WellFormed
PROPERTY Implements
