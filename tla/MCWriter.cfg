SPECIFICATION FairSpec
CONSTANTS
  AES128_BLOCK_SIZE = 2
  CBC4K_BLOCK_SIZE = 4
  Starts = {"fresh"}
  InitialTexts <- MCTexts
  Readable = TRUE
  Writable = TRUE
  Calls = {"Read", "Write", "Seek", "Flush"}
  Payloads <- MCPayloads
  Lengths <- MCLengths
  MaxSize = 9
  U64Max = 1000
INVARIANTS SizeIsContentLength FlushPersists NoException
PROPERTIES CallsReturn ImplementsByteStream
