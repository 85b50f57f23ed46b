SPECIFICATION Spec
CONSTANTS
  ByteModulus = 2
  startAddr = 0
  MEMORY_SIZE = 6
  Address <- MCAddress
  Value <- MCValue
  Files <- MCFiles
  Ranges <- MCRanges
  EntriesPerRow = 2
  MaxCalls = 3
INVARIANTS
  TypeOK
  ErrorsAreReported
  ImageIsLoaded
PROPERTIES
  ReadsWhatWasStored
  PrintsWhatIsStored
