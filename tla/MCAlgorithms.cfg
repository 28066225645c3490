SPECIFICATION AlgorithmsSpec
CONSTANTS
  Prices = {1, 2, 3}
  Levels = {0, 1, 2}
  MaxRows = 4
  MaxFlatRows = 2
  NaN = NaN
  Tenkan = 1
  Kijun = 2
  SenkouB = 3
  Narrow = 2
  Fast = 1
  Slow = 2
  Exit = 1
  Threshold = 1
  Oversold = 1
  ExitLevel = 1
  Overbought = 1
  Coins = {p, q}
  EntryPrices = {1, 2, 3}
  Confidences = {50, 90}
  MinSignals = 3
  Window = 5
  MaxSeeded = 5
  MaxLive = 7
CHECK_DEADLOCK FALSE
INVARIANT AlgorithmsTypeOK
 
INVARIANT EntryStands
INVARIANT SeedsMatchRealtime
INVARIANT TradesPaired
INVARIANT FiguresAgree
 
