\* Requests of four kinds against fail-overs, two descriptors shared with
\* the other sockets of the system, restarts at any step.
SPECIFICATION Spec
CONSTANTS
  r1 = r1  r2 = r2  a1 = a1  a2 = a2
  Values <- MCValues
  Bodies <- MCBodies
  Default <- MCDefault
  Fds = {0, 1}
INVARIANTS TypeOK ConnectedAsConfigured DescriptorsKept
PROPERTY NetworkWasAsked
SYMMETRY Symmetry
