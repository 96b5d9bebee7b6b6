SPECIFICATION MCSpec
CONSTANTS
  FrameSize = 2
  Win = 6
  Hops = {4, 6}
  MinOff = 2
  MinOn = 3
  Usize = 1024
  MaxAudio = 14
  ChunkSizes = {3, 4}
  Failures = {"vad", "mismatch", "embed"}
  MaxFlushes = 1
  MaxFailures = 1
  SpeakerCap = 2
  Threshold = 2
  MinHitsToStable = 2
  Margin = 1
  Similarities = {1, 2}
  MaxSteps = 100
  NoSpeaker = NoSpeaker
  CacheCap = 3
  CacheSimilarities = {0, 1, 2, 3}
  CacheSteps = 6
  ProbsPerFrame = {1}
  MaxFrames = 7
INVARIANTS StreamTurnsAreRight NoAudioIsCarriedOver LatencyIsBounded StreamLabelsSettle SpeakersFollowHysteresis BatchRegionsAreKept
PROPERTY SpeakersNeverRenumbered
CHECK_DEADLOCK FALSE
