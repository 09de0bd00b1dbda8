\* Two sessions that ask for one id at once, orderly otherwise.
CONSTANTS
  Sessions = {s1, s2}
  UserIds = {u1}
  Rooms = {r1}
  NoId = NoId
  NoSession = NoSession
  NoRoom = NoRoom
  kROOM_MAX_USER_CNT = 2
  MaxChunk = 1
  MaxRequests = 2
  MaxConnects = 2
  Liberties = {"race"}
SPECIFICATION Spec
INVARIANT OneSessionPerId
