SPECIFICATION FairSpec
CONSTANTS
  AES128_BLOCK_SIZE = 2
  CBC4K_BLOCK_SIZE = 4
  Starts = {"opened"}
  InitialTexts <- MCTexts
  Readable = TRUE
  Writable = FALSE
  Calls = {"Read", "ReadAsync", "Seek", "SeekBack", "Write", "Size", "Flush", "Retry"}
  Payloads <- MCPayloads
  Lengths <- MCLengths
  MaxSize = 11
  U64Max = 1000
INVARIANTS ReadsReturnContent ReadsNeverFail
PROPERTIES CallsReturn ImplementsByteStream
