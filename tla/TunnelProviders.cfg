CONSTANTS
  a1 = a1
  a2 = a2
  i1 = i1
  i2 = i2
  Addresses = {a1, a2}
  Identities = {i1, i2}
  Peers = {a1, a2}
  AllowedIps = {a1}
  Lists <- MCLists
  HasConf = TRUE
  None = None
SPECIFICATION Spec
INVARIANTS OneProviderUp RouteToRequestedPeer StoppedLeavesNoProxy
PROPERTY WireGuardImplements
