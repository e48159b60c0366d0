CONSTANTS
  BucketCount = 3
  Word = 65536
  ByteCount = 2
  MaxPairLen = 4
  MaxPortable = 8
  Rooms = {0, 3}
  LongChunk = 8
  ShortChunk = 4
  TextLength = 5
  Corpora <- MCCorpora
  Texts <- MCTexts
  None = None
  TrainWindows = {1, 2, 3, 5}
  Strides = {0, 1, 2, 7}
  CorpusSizes = {0, 1, 2, 5, 9}
  FlushThreshold = 4
  a = a
  b = b
  Prompts <- MCPrompts
  StopLists <- MCStopLists
  Pad = Pad
  Bos = Bos
  Eos = Eos
  Tokens = {a, b, Pad, Bos, Eos}
  Capacities = {1, 2, 4}
  SizeMax = 5
  Garbage = Garbage
  Minimums = {0, 2}
  Requests = {0, 4}
  SequenceCapacities = {3, 7}
  Idle = Idle
SPECIFICATION TextSpec
INVARIANTS
  DecodeInvertsEncode
  EncodingFollowsTraining
  ReloadKeepsTokens
  ChunkingIsInvisible
  TailIsSupervised
  StreamIsContent
  HoldsOnlyStopPrefix
  ResultIsConsistent
  SampleSeesWholeSequence
PROPERTIES
  ReplyEnds
CHECK_DEADLOCK FALSE
