SPECIFICATION Spec
CONSTANTS
  Lists <- MCLists
  Requests <- MCRequests
  DemoAsked = {"invalid", "vanilla", "r1q2", "q2repro"}
  MaxMessages = 2
INVARIANTS
  FormatsAgree
  MulticastsHeard
  AsAsked
  AnswersParse
  BestChoice
  ConnectInv
