SPECIFICATION FairSpec
CONSTANTS
  Session = {s1}
  MaxOutput = 4
INVARIANTS
  TranscriptInOrder NoPromptAfterEnd OneCompletion TimeoutStops
PROPERTY
  EndIsReported
