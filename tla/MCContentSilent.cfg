\* A connection that ends without a report while its user is logged in.
CONSTANTS
  Sessions = {s1}
  UserIds = {u1}
  Rooms = {r1}
  NoId = NoId
  NoSession = NoSession
  NoRoom = NoRoom
  kROOM_MAX_USER_CNT = 1
  MaxChunk = 1
  MaxRequests = 1
  MaxConnects = 2
  Liberties = {"silent"}
SPECIFICATION Spec
INVARIANT MapMatchesUsers
