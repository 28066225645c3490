SPECIFICATION RecordsSpec
CONSTANTS
  NPairs = 2
  Batches = {b1}
  Lives = {l1}
  Fields = {sharpe_ratio}
  MaxClock = 2
  MaxFaults = 1
  MaxEdits = 1
  Missing = Missing
  Hand = Hand
  NoRow = NoRow
  Emails = {e1}
  Signups = {s1, s2}
  Clients = {c1}
  Tiers = {"free", "vip1"}
  AccessTTL = 1
  RefreshTTL = 2
  MaxHour = 3
  MaxChanges = 1
  NoAccount = NoAccount
  NoToken = NoToken
  Updates = {u1, u2}
  Readers = {r1}
  First = First
  Ids = {i1, i2, i3}
  PageSize = 2
  MaxKey = 4
  MaxShifts = 2
CHECK_DEADLOCK FALSE
INVARIANT RecordsTypeOK
INVARIANT BatchIsWhole
INVARIANT RegisteredOwns
INVARIANT SessionsEnd
 
INVARIANT NoOrphanCoins
INVARIANT ListsReplaced
INVARIANT NoneSkipped
PROPERTY StampsAdvance
PROPERTY FiguresKept
PROPERTY NoGapRead
PROPERTY WritersEnd
PROPERTY UpdatesEnd
