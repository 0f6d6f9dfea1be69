SPECIFICATION Spec
CONSTANT NULL = NULL
INVARIANTS AnsweredOnce AnswersCarryRequestId RoutedErrorsAreProblems AccessLogAgrees
CHECK_DEADLOCK FALSE
