\* One slot used twice, a place in the room for one, and every liberty that one session can take.
CONSTANTS
  Sessions = {s1}
  UserIds = {u1}
  Rooms = {r1}
  NoId = NoId
  NoSession = NoSession
  NoRoom = NoRoom
  kROOM_MAX_USER_CNT = 1
  MaxChunk = 1
  MaxRequests = 4
  MaxConnects = 2
  Liberties = {"early", "pipeline", "relogin", "hangup", "double", "silent", "backlog"}
SPECIFICATION Spec
INVARIANTS TypeOK RoomNotOverfull
