CONSTANTS
  c1 = c1
  c2 = c2
  o1 = o1
  o2 = o2
  None = None
  Desk = Desk
  Stale = Stale
  Main = o1
  Clients <- TwoClients
  Outputs <- TwoOutputs
SPECIFICATION SeatSpec
INVARIANTS
  KeysStayOffTheDesktop
  PointerStaysOffTheDesktop
PROPERTIES
  LockScreenKeepsTheKeys
