SPECIFICATION Spec
CONSTANTS
    NULL = NULL
    Typable <- FewRequests
    MaxTyped = 2
CHECK_DEADLOCK FALSE
INVARIANTS TypeOK FirstMisreadIsDismissal MessagesStayApart
PROPERTIES RequestsAreTaken HangUpFreesReader
