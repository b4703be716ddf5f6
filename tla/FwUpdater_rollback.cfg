\* Two update tasks, two good releases and a bad one, both kinds of address.
SPECIFICATION Spec
CONSTANTS
  Images = {v1, v2, bad}
  Working = {v1, v2}
  Tasks = {t1, t2}
  NetModes = {"dhcp", "static"}
SYMMETRY Alike
INVARIANTS TypeOK CanRestart
PROPERTIES ImplementsTrial ConfirmedOnline
