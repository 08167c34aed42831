CONSTANTS
  Procs = {reader, tosser}
  Creators = {tosser}
  Killers = {reader}
  Markers = {reader}
  IsEcho = TRUE
  Failures = FALSE
  Garbage = {0}
  MaxId = 3
  MaxFile = 4
SPECIFICATION Spec
INVARIANTS MarkNeverSkipsAhead
