SPECIFICATION Spec
CONSTANTS
  CodecDelays = {0, 1}
  Faults = {"read", "packet", "resample", "memory"}
  Fields <- MCFields
  MaxFields = 3
  ContentTypes = {"no boundary", "quoted", "unquoted, more follows"}
  MaxUpload = 28
  MaxDuration = 2
INVARIANT PartsExact
INVARIANT DecoderReleases
INVARIANT UploadIntact
