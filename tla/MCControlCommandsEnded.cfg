SPECIFICATION Spec
CONSTANTS
  Operators <- MCOperators
  Streams <- MCStreams
  Answers <- MCAnswers
  NoStream = "none"
INVARIANT
  EndedStaysEnded
