\* One session that hangs up with a request under way.
CONSTANTS
  Sessions = {s1}
  UserIds = {u1}
  Rooms = {r1}
  NoId = NoId
  NoSession = NoSession
  NoRoom = NoRoom
  kROOM_MAX_USER_CNT = 1
  MaxChunk = 1
  MaxRequests = 2
  MaxConnects = 1
  Liberties = {"hangup"}
SPECIFICATION Spec
INVARIANT NoMemberAfterDisconnect
