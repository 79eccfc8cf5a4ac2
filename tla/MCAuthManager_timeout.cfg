SPECIFICATION FairSpec
CONSTANTS
  Callers = {c1}
  Tokens = {t1}
  StaticTokens = {none}
  NoToken = none
  TTLs <- TtlValues
PROPERTY RequestTimesOut
