CONSTANTS
  SeqMod = 3
  NoSeq = NoSeq
  Methods <- AllMethods
  Hooks <- AllHooks
  Segmenting <- method_segments_first_client_hello
  SegNodelay = TRUE
SPECIFICATION FairSpec
INVARIANTS
  FakeImpliesHandshake AckedMeansStagesDone OneRewritePerStage
PROPERTIES
  NoRewriteAfterDecision TaskSettles EventuallyReported ImplementsVerdict
