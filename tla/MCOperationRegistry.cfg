SPECIFICATION Spec
CONSTANTS
  a = a
  b = b
  Signatures = {a, b}
  Malformed = Malformed
  Manifests <- MCManifests
  NoManifest <- None
  MaxChanges = 3
  MaxRequests = 1
INVARIANTS StoreFollowsManifest RegisteredAreServed
PROPERTIES ManifestArrives
CHECK_DEADLOCK FALSE
