CONSTANTS
  Gen = "v2"
  Entries = {e1, e2}
  Cookies = {c1, c2}
  V4Keys = {k1}
  V6Keys = {k6}
  OtherKeys = {}
  Slots = {s1, s2}
  NoEntry = NoEntry
  NoCookie = NoCookie
  NoKey = NoKey
  NoSlot = NoSlot
SPECIFICATION FairSpec
PROPERTIES
  RefinesFlowAuth
  DeadIsFreed
