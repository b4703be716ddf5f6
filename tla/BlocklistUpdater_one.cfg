\* One update task, two versions.
SPECIFICATION Spec
CONSTANTS
  Updaters = {periodic}
  Versions = {v1, v2}
INVARIANTS TypeOK EraseIsSafe ListWriteIsSafe
PROPERTIES FilterServed ListServed
