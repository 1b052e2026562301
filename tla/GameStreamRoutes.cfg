CONSTANTS
  homePc = homePc
  byAddress = byAddress
  office = office
  lan = lan
  homeTunnel = homeTunnel
  officeTunnel = officeTunnel
  home = home
  work = work
  None = None
  MaxReleasing = 2
  HostKeys = {homePc, byAddress}
  Addresses = {lan, homeTunnel, officeTunnel}
  Peers = {home, work}
  Jobs = {j1, j2}
  ConnectionAddresses <- MCConnectionAddresses
  PeerOf <- MCPeerOf
  MacKey <- MCMacKey
SPECIFICATION RoutesSpec
INVARIANTS NoLeakedRoute OwnRouteMatchesAddress
SYMMETRY JobSymmetry
