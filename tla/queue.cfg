SPECIFICATION FairSpec
CONSTANTS
  p1 = p1
  p2 = p2
  p3 = p3
  Producers = {p1, p2}
  BufferSize = 2
  MaxSent = 3
  Requests = {1, 2}
  NoMessage = NoMessage
INVARIANTS
  TypeOK
  ClaimsDense
  SlotReleased
  PerProducerOrder
PROPERTIES
  ImplementsFifo
  EverySendReceived
