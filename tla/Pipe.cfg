\* Two ends that may each be both, two names, two pipes of two bytes, writes of three; one process asked to stop.
SPECIFICATION FairSpec
INVARIANT PipesHaveEnds
PROPERTIES ImplementsChannel EndsAreHeard
CONSTANTS
  a = a
  b = b
  Ends = {e1, e2}
  e1 = e1
  e2 = e2
  e3 = e3
  Names = {a, b}
  NPipes = 2
  Capacity = 2
  Lengths = {3}
  MaxBytes = 3
  NoName = NoName
  NoPipe = NoPipe
  Blank = Blank
  OpenModes <- AnyMode
  Cancellable = {e1}
