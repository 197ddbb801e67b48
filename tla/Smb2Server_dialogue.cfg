SPECIFICATION Spec
CONSTANTS
  Clients = {"a", "b"}
  Commands <- MCCommands
  Returns <- MCReturns
  Negotiations <- MCNegotiations
  MaxMessages <- MCMaxMessages
  Window = 2
  MaxTrees = 3
  Mischief <- MCMischief
CHECK_DEADLOCK FALSE
INVARIANTS EachHasItsReply InItsTurn
PROPERTIES OnItsTree RequestsAnswered
