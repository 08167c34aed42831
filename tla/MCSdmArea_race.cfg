CONSTANTS
  Procs = {one, two}
  Creators = {one, two}
  Killers = {}
  Markers = {}
  IsEcho = FALSE
  Failures = FALSE
  Garbage = {0}
  MaxId = 3
  MaxFile = 3
SPECIFICATION Spec
INVARIANTS MessagesKept
