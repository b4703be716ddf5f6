\* The periodic task and one request to update now, at the same time.
SPECIFICATION Spec
CONSTANTS
  Updaters = {periodic, request}
  Versions = {v1, v2}
INVARIANT WorkingFilter
