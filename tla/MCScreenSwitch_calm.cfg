CONSTANTS
  c1 = c1  c2 = c2  left = left  right = right
  Conn <- TwoConns
  NameOf <- TwoNames
  Primary = Primary
  NoScreen = NoScreen
  NoDirection = NoDirection
  Dir = {left}
  HotKeys = TRUE
  WaitDelay = FALSE
  TwoTap = FALSE
  Saver = TRUE
  SaverInput = FALSE
  ShapeLost = FALSE
  MaxLink = 2
  Guest <- TwoConns
  MaxVisits = 2
  MaxOrders = 3
SPECIFICATION CalmSpec

INVARIANTS ActiveIsServed OneScreenHasTheCursor EntersAndLeavesAlternate
INVARIANTS ServerFollowsPower
PROPERTIES ImplementsFocus LeavingEnds ClosesEnd
