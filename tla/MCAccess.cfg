SPECIFICATION Spec
CONSTANTS
  Phone = {d1, d2}
  Terminal = {t}
  Nickname = {ana, rui}
  MaxPeople = 2
  BATCH_SIZE = 1
  Staff = {s}
  Role <- MCRole
  Nobody = Nobody
  Key = {k}
  Body = {1}
  MaxRequests = 2
INVARIANT
  OncePerKey
PROPERTY
  EveryoneForgotten
CHECK_DEADLOCK FALSE
