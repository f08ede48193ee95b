SPECIFICATION HubSpec
CONSTANTS
  s1 = s1
  s2 = s2
  s3 = s3
  r1 = r1
  r2 = r2
  ch1 = ch1
  ch2 = ch2
  ch3 = ch3
  NoSlot = NoSlot
  NoRoom = NoRoom
  NoChan = NoChan
  Slot <- ThreeSlots
  Room <- TwoRooms
  Chan <- ThreeChans
  Msg = {m}
  Capacity = 1
INVARIANT DeadRoomsEvicted
PROPERTY ImplementsFanout
CHECK_DEADLOCK FALSE
