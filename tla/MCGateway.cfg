CONSTANTS
 a = a
 b = b
 none = none
 Rooms = {a, b}
 Events <- MCEvents
 Droppable <- MCDroppable
 MAX_QUEUE_SIZE = 1
 MaxOther = 1
 MaxFrames = 3
 MaxFaults = 1
SPECIFICATION FairSpec
INVARIANT ViewCurrent
PROPERTY EveryDropIsMadeUpFor
CHECK_DEADLOCK FALSE
