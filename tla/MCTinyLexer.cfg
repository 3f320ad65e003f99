\* Short buffers of every kind of character, and longer ones of each loop.
CONSTANTS
  Buffers <- MCBuffers
  Keywords <- MCKeywords
SPECIFICATION FairSpec
INVARIANTS TypeOK TokensAdjoin OnlyStringsOverrun SkippedTextReported
PROPERTIES StopsAdvancing
CHECK_DEADLOCK FALSE
