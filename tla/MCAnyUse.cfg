SPECIFICATION FairSpec
CONSTANTS
  AES128_BLOCK_SIZE = 2
  CBC4K_BLOCK_SIZE = 2
  Starts = {"fresh", "opened"}
  InitialTexts <- OneTexts
  Readable = TRUE
  Writable = TRUE
  Calls = {"Read", "ReadAsync", "PastEnd", "Write", "WriteAsync", "Seek", "SeekBack", "Size", "Flush", "Retry"}
  Payloads <- OnePayloads
  Lengths = {2}
  MaxSize = 3
  U64Max = 100
CHECK_DEADLOCK FALSE
INVARIANTS TypeOK WriteBackNeverFails FillNeverNests BackingHasNoHole SizeHangsOnlyDirty
PROPERTIES LoopsEnd
