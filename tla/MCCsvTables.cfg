SPECIFICATION Tools
CONSTANTS
  Absent = Absent
  NaN = NaN
  t1 = t1
  t2 = t2
  Paths = {"old", "new"}
  Bytes = {0, 1, 2, 3, 4, 5, 6, 7}
  Window = 6
  Longest = 5
  Modes = {"hash", "field", "key"}
  Algorithms = {"rle", "lz77", "hybrid"}
  Tables <- DeltaTables
  Payloads <- EveryPayload
  MaxUses = 3
  Names = {"s"}
  Schemas <- SomeSchemas
  Versions <- SomeVersions
  Files <- SchemaFiles
  Trim <- TrimmedText
  Empty = {"", "NULL"}
  Length <- Lengths
  Number <- NumberOfText
  Formats <- SomeFormats
  MaxErrors = 2
  MaxCalls = 3
  InputPaths = {"f", "g"}
  Output = "out"
  Contents <- SomeContents
  Sources <- SomeSources
  Configs <- SomeConfigs
  NoFile = NoFile
  MaxSources = 2
  MaxMerges = 1
SYMMETRY Alike
INVARIANT MergeExact
 
 
INVARIANT VerdictExact
CHECK_DEADLOCK FALSE
