\* Three requests: a response can be left from the first or from the second.
CONSTANT MaxRequests = 3
SPECIFICATION Spec
INVARIANTS AnswersFit NothingAfterClose
\* The connection ends.
CHECK_DEADLOCK FALSE
