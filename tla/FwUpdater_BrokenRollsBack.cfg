\* One update task, a bad release, and a static address among the settings.
SPECIFICATION Spec
CONSTANTS
  Images = {v1, bad}
  Working = {v1}
  Tasks = {t1}
  NetModes = {"dhcp", "static"}
INVARIANT BrokenRollsBack
