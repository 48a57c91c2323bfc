CONSTANTS
  Boards <- MCBoards
  Users = {u1, u2}
  NoUser = NoUser
  Blocks = {b1}
  Ports = {p1, p2}
SPECIFICATION Spec
INVARIANTS
  UsedIsHeld
  IdleIsClean
  MdioAnswersOwn
  CallbackWhileBound
