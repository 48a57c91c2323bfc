CONSTANTS
  Gen = "v1"
  Entries = {e1, e2, e3}
  Cookies = {c1, c2}
  V4Keys = {k1, k2}
  V6Keys = {}
  OtherKeys = {kx}
  Slots = {s1, s2}
  NoEntry = NoEntry
  NoCookie = NoCookie
  NoKey = NoKey
  NoSlot = NoSlot
SPECIFICATION Spec
SYMMETRY Symmetry
INVARIANTS
  IInv
  NoOrphanBind
  OneBindPerFlow
  PromotionStaysAuthorised
  LinkedIsLive
PROPERTIES
  ActivityIsGenuine
  RefinesFlowAuth
