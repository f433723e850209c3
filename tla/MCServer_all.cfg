CONSTANTS
  c1 = c1  c2 = c2  left = left
  Conn <- TwoConns
  Client <- TwoConns
  Primary = Primary
  Home = Home
  NoScreen = NoScreen
  NoDirection = NoDirection
  NameOf <- OneName
  Dir <- JustLeft
  HotKeys = TRUE
  WaitDelay = TRUE
  TwoTap = TRUE
  Saver = TRUE
  SaverInput = TRUE
  ShapeLost = TRUE
  MaxLink = 1
  Settings <- CalmBackgroundAndDrops
  MaxCopies = 2
  MaxSwitches = 4
  MaxConnects = 2
SPECIFICATION ServerSpec
SYMMETRY Swaps
INVARIANTS ProxiesAccountedFor
INVARIANTS CleanScreensHaveTheData CopiesAreShared
