SPECIFICATION Spec
CONSTANTS
  p1 = p1
  p2 = p2
  q1 = q1
  q2 = q2
  q3 = q3
  mail = mail
  mail2 = mail2
  drive = drive
  Pods <- OnePod
  Requests <- TwoRequests
  PodOf <- TwoPodOf
  Actions <- ThreeActions
  KeyOf <- ThreeKeyOf
  NameOf <- ThreeNameOf
  Uploaded <- UploadedKeys
  Listings <- SomeListings
  MaxConcurrent = 2
SYMMETRY SharedPod
INVARIANTS
  ImportedActionsAreDiscoverable
