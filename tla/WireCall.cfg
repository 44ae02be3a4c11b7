CONSTANTS
  a = a b = b c1 = c1 c2 = c2 c3 = c3 g = g
  Node = {a, b}
  Call = {c1, c2, c3, g}
  Free = Free
  Admin = Admin
  From <- MCFrom
  To <- MCTo
  Body = 2
  Buffer = 2
  MaxReply = 1
  App = {c1}
  Other = {g}
  MaxRequests = 3
  Stoppable = {b}
SPECIFICATION FairSpec
CHECK_DEADLOCK FALSE
INVARIANTS TypeOK ContentTrue ReceiveAlone
PROPERTY CallsEnd ImplementsCall
