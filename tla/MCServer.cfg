SPECIFICATION Spec
CONSTANTS
    MaxUsers = 2
    MaxThreads = 2
CHECK_DEADLOCK FALSE
INVARIANTS TypeOK  OneThreadEach MisledByOthers
PROPERTIES CloseEnds
