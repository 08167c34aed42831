CONSTANTS
  Procs = {editor, tosser}
  Nobody = Nobody
  MaxIdx = 3
  MaxHdr = 3
  MaxTxt = 3
  Failures = TRUE
  Rewriters = {editor}
  Killers = {editor}
  Polite = TRUE
SPECIFICATION Spec
INVARIANTS TypeOK IndexMatchesMessages HeadersNamed TableSound SearchFinds
PROPERTY OnlyKillGoesWild
