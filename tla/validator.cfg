\* Two data keys of various structures, validated repeatedly, here or by the server.
SPECIFICATION Spec
CONSTANTS
  Keys <- MCKeys
  Cases <- MCCases
  Ignores <- MCIgnores
  MaxCalls = 2
  MaxFaults = 1
INVARIANTS TrueIsValidOrNoted RepeatChangesNothing RepairsAreNoted
\* No more calls within the bounds.
CHECK_DEADLOCK FALSE
