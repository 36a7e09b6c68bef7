SPECIFICATION FairSpec
CONSTANTS
  Reg = {r1, r2}
  Other = {none}
  Lane = {lo, hi}
  Byte = {0, 1}
  ZeroByte = 0
  WLeads = FALSE
INVARIANTS TypeOK SlaveTracksAccess
PROPERTIES ImplementsRegFile AccessCompletes
