\* Two requests of one application, for two users.
CONSTANTS
  r1 = r1  r2 = r2  r3 = r3  c1 = c1  c2 = c2  a = a  b = b  u = u  v = v
  Requests = {r1, r2}
  Codes = {c1}
  Apps = {a}
  Users = {u, v}
  StateLife = 1
  MaxTime = 1
SPECIFICATION Spec
INVARIANTS OwnRecord
CHECK_DEADLOCK FALSE
