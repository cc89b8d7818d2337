SPECIFICATION Spec
CONSTANTS
  p1 = p1
  p2 = p2
  q1 = q1
  q2 = q2
  q3 = q3
  mail = mail
  mail2 = mail2
  drive = drive
  Pods <- TwoPods
  Requests <- ThreeRequests
  PodOf <- ThreePodOf
  Actions <- TwoActions
  KeyOf <- OneKeyOf
  NameOf <- TwoNameOf
  Uploaded <- UploadedKeys
  Listings <- FullListing
  MaxConcurrent = 2
SYMMETRY SharedPodAndKey
INVARIANTS
  CacheIsCurrent
  SyncedToolsAreFound
PROPERTIES
  ProxyNamesStay
