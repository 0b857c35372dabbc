\* Two kinds of documents, a function and a method of an object that may die.
SPECIFICATION DispatcherSpec
CONSTANTS
  f = f  g = g
  None = None
  NumSigs = 2
  Funcs = {f, g}
  Weak = {g}
  MaxTokens = 3
  MaxDocs = 2
INVARIANTS EveryoneServed OnlySubscribersOnce
\* No more documents and subscriptions within the bounds.
CHECK_DEADLOCK FALSE
