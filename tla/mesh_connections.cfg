SPECIFICATION FairSpec
CONSTANTS
  peer1 = peer1
  peer2 = peer2
  k1 = k1
  k2 = k2
  None = None
  Peers = {peer1}
  Conns = {k1, k2}
  PeerOf <- OnePeer
  MaxPeers = 1
INVARIANTS NoOrphanSocket EntryHasReader NeverStranded
PROPERTIES LostPeersLeave
CHECK_DEADLOCK FALSE
