SPECIFICATION Spec
CONSTANTS
  AES128_BLOCK_SIZE = 2
  CBC4K_BLOCK_SIZE = 4
  Starts = {"fresh"}
  InitialTexts <- MCTexts
  Readable = TRUE
  Writable = TRUE
  Calls = {"Read", "Write", "Seek", "SeekBack", "Flush"}
  Payloads <- MCPayloads
  Lengths <- MCLengths
  MaxSize = 6
  U64Max = 1000
INVARIANT ReadsNeverFail
