SPECIFICATION Spec
CONSTANTS
  MaxQueue = 3
  Limits = {1, 2, 3}
  MaxMsgs = 6
INVARIANT RepliesInOrder
PROPERTY ImplementsMailbox
