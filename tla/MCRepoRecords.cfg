SPECIFICATION RecordsSpec
CONSTANTS
  p1 = p1
  p2 = p2
  x = x
  y = y
  b1 = b1
  u1 = u1
  u2 = u2
  v1 = v1
  v2 = v2
  Paths = {p1, p2}
  Records = {x, y}
  Blobs = {b1}
  Mentions <- MCMentions
  Scopes <- MCScopes
  Uploads = {u1, u2}
  Reservations = {v1, v2}
  Life = 2
  MaxBatch = 2
  MaxRev = 3
  MaxKeys = 2
  MaxTime = 2
  NoRecord = NoRecord
  NoBlob = NoBlob
  RecordKeys = {1, 2, 3, 4}
  Collection = {1, 2, 3}
  Cids = {1, 2}
  Dids = {1, 2, 3}
  MaxLimit = 2
  MaxHead = 3
SYMMETRY Symmetry
INVARIANTS
  ReferencesExact
  UploadUsable
  CacheIsHead
  ListingComplete
PROPERTIES
  EventIsDifference
CHECK_DEADLOCK FALSE
