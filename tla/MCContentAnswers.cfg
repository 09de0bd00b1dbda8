\* Clients that pipeline, log in again and hang up; slots are reused late.
CONSTANTS
  Sessions = {s1, s2}
  UserIds = {u1}
  Rooms = {r1}
  NoId = NoId
  NoSession = NoSession
  NoRoom = NoRoom
  kROOM_MAX_USER_CNT = 1
  MaxChunk = 2
  MaxRequests = 2
  MaxConnects = 2
  Liberties = {"pipeline", "relogin", "race", "hangup", "double", "silent", "unknown"}
SPECIFICATION Spec
INVARIANTS NoStrandedPacket AnswersOwed
PROPERTY EveryRequestAnswered
