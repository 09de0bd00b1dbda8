\* Orderly clients: two users, two rooms that hold both, one slot used twice.
CONSTANTS
  Sessions = {s1, s2}
  UserIds = {u1, u2}
  Rooms = {r1, r2}
  NoId = NoId
  NoSession = NoSession
  NoRoom = NoRoom
  kROOM_MAX_USER_CNT = 2
  MaxChunk = 1
  MaxRequests = 5
  MaxConnects = 3
  Liberties = {}
SPECIFICATION Spec
SYMMETRY Symmetry
INVARIANTS RoomsMatchUsers MapMatchesUsers RostersAgree
PROPERTY ImplementsService
