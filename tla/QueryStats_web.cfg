\* A log of two entries, which wraps while a page is being made, a history of
\* two hours, whose buckets change hands while they are summed, and restarts.
SPECIFICATION Spec
CONSTANTS
  Entries = {a, b}
  LogSize = 2
  MaxEntries = 2
  HistoryHours = 2
  MaxLogged = 3
  MaxBlocks = 2
  MaxHour = 3
SYMMETRY AnyEntry
INVARIANTS TypeOK HistoryExact
PROPERTY LogSpec
