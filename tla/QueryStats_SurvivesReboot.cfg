\* One query is blocked, the device restarts, and the count is read.
SPECIFICATION Spec
CONSTANTS
  Entries = {e1}
  LogSize = 1
  MaxEntries = 1
  HistoryHours = 2
  MaxLogged = 1
  MaxBlocks = 1
  MaxHour = 1
INVARIANT SurvivesReboot
