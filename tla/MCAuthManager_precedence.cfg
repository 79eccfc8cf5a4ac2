SPECIFICATION Spec
CONSTANTS
  Callers = {c1}
  Tokens = {t1, t2}
  StaticTokens = {t1, none}
  NoToken = none
  TTLs <- TtlValues
PROPERTY ApiTakesPrecedence
