SPECIFICATION FairSpec
CONSTANTS
  Operators <- MCOperators
  Streams <- MCStreams
  Answers <- MCAnswers
  NoStream = "none"
INVARIANTS
  TypeOK
  OutcomeReported
PROPERTY
  EventuallyAnswered
