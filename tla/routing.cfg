CONSTANTS
  MAX_SHARDS = 3
  MAX_TABLES = 4
  U64 = 256
  Files <- MCFiles
  Options <- MCOptions
  Words <- MCWords
  Chars <- MCChars
  Schema <- MCSchema
  Queries <- MCQueries
  Hash <- Djb2
  parse_extract_insert_shard_key <- InsertKey

SPECIFICATION RoutingSpec

INVARIANTS TypeOK ConfiguredAsWritten StoredIsFound ScannerExact MapSound 
CHECK_DEADLOCK FALSE
