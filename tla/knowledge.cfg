\* Two uploads of two texts, deletions and searches.
CONSTANTS
  u1 = u1
  u2 = u2
  Uploads = {u1, u2}
  Texts <- MCTexts
  NoText = NoText
  ChunkSize = 10
  Overlap = 2
  TitlePrefix = 2
  BatchSize = 2
  FullTextLimit = 2
  VectorLimit = 2
  Limit = 2
SPECIFICATION FairSpec
INVARIANTS
  TypeOK
  DocumentsAreWhole
  SearchRespectsBothRankings
PROPERTY
  ImplementsStore
  UploadsEnd
CHECK_DEADLOCK FALSE
