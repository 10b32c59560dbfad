CONSTANTS
  NoText = NoText
  Letter <- MCLetter
  MaxString = 2
SPECIFICATION FlowSpec
INVARIANTS
  RequestArrives
  FrameIsRead
  SecretsSurvive
