\* Rings of one, two, three and (by default) four cells.
CONSTANTS
  Event = {"CHANNEL_DATA", "CHANNEL_EOF"}
  Blank = "NONE"
  QueueSizes = {0, 1, 2, 3}
  DefaultSize = 4
SPECIFICATION Spec
INVARIANT TypeOK
PROPERTY ImplementsQueue
