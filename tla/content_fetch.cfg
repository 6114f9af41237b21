SPECIFICATION FairCanvasSpec
CONSTANTS
  p1 = p1
  p2 = p2
  film = film
  list = list
  f1 = f1
  f2 = f2
  c1 = c1
  PeerCard = PeerCard
  News = News
  NotFound = NotFound
  Failed = Failed
  None = None
  PeerAsks = PeerAsks
  OurBlock = OurBlock
  Sending = Sending
  Calls = {f1, f2}
  Peers = {p1, p2}
  HeldBy <- Holdings
  Wanted <- Asking
  Large = {film}
  Bulky = {list, OurBlock}
  EmptyBlocks = {}
  Manifests = {list}
  Clients = {c1}
  MaxFaults = 1
INVARIANTS CanvasTypeOK FetchedIsOwn OpenIsRegistered
PROPERTIES NobodyHadIt CallsEnd
CHECK_DEADLOCK FALSE
