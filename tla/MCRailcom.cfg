SPECIFICATION FairSpec
CONSTANTS
  Addresses = {3}
  BufferDepth = 2
  MaxReads = 3
INVARIANTS TypeOK BridgeFollowsState RepliesTagged RepliesAnnounced RingIsQueue
PROPERTIES BridgeComesBack
