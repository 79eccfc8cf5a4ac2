SPECIFICATION Spec
CONSTANTS
  CodecDelays = {0}
  Faults = {"read"}
  Fields <- MCFields
  MaxFields = 2
  ContentTypes = {"no boundary", "quoted", "unquoted, more follows"}
  MaxUpload = 28
  MaxDuration = 2
INVARIANT FailureThrows
