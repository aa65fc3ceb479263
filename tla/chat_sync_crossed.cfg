SPECIFICATION Spec
CONSTANTS
  A = A  B = B  C = C
  ab = ab  ba = ba  bc = bc  ac = ac  abc = abc
  c1 = c1  c2 = c2
  m1 = m1  m2 = m2  m3 = m3
  h1 = h1  h2 = h2
  Node = {A, B}
  Conv = {c1}
  Message = {m1, m2}
  Hash = {h1}
  ConvOf <- OneConv
  AttachmentsOf <- NoAttachments
  Engine = {ab, ba}
  NodeOf <- MCNodeOf
  PeersOf <- MCPeersOf
  LongLived = {}
  Origin = {"local", "self"}
  OriginOf <- LocalOrigin
  SelfOrigin <- SelfPeerId
  HostVectors <- EmptyVector
  MissingReports = {FALSE}
  Modes = {"syncOnce"}
  ListLimit = 500
  WritersOf <- AnyWriter
  MaxFailures = 1
  MaxBumps = 0
INVARIANTS TypeOK Provenance SyncDelivers
PROPERTY RefinesReplicated
