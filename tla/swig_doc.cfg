SPECIFICATION Spec
CONSTANTS
  Bad = "x"
  Directories <- Written
INVARIANTS GivesUpOnlyFor EveryFunctionOnce WordsInOrder
