SPECIFICATION FairSpec
CONSTANTS
  Trees <- TreesOfShape
  Shape = "all"
  Visitors = {0, 1, 2}
  PerLevel = {1}
  MaxDepth = 3
  NoNode = NoNode
  SizeTypeSize = 256
INVARIANTS
  DfsTypeOK
  GenerationsAgree
  TracesInStep
  CandidateIsRecorded
  GeneratorsPassedDown
  SetsAreOrbits
  CanonicalLeafFound
  StabilizersFull
  ChainsCounted
  ChainsLead
  ChainsHaveStabilizers
PROPERTIES
  KeepsPromise
  RecordImproves
  Terminates
