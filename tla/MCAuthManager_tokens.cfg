SPECIFICATION FairSpec
CONSTANTS
  Callers = {c1, c2}
  Tokens = {t1, t2}
  StaticTokens = {t1, none}
  NoToken = none
  TTLs <- TtlValues
PROPERTY RevocationHolds
PROPERTY RefusedInTheEnd
PROPERTY AdmittedInTheEnd
