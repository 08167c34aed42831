CONSTANTS
  Procs = {reader, tosser}
  Creators = {tosser}
  Killers = {reader}
  Markers = {reader}
  IsEcho = TRUE
  Failures = TRUE
  Garbage = {0}
  MaxId = 4
  MaxFile = 3
SPECIFICATION Spec
INVARIANTS TypeOK MessagesKept TableTrue MarkKept
