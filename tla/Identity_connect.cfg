\* Three requests of any kind, two applications with two users each, two codes; a state token
\* is good for the tick it was made in.
CONSTANTS
  r1 = r1  r2 = r2  r3 = r3  c1 = c1  c2 = c2  a = a  b = b  u = u  v = v
  Requests = {r1, r2, r3}
  Codes = {c1, c2}
  Apps = {a, b}
  Users = {u, v}
  StateLife = 0
  MaxTime = 1
SPECIFICATION Spec
SYMMETRY Symmetry
INVARIANTS TypeOK RowOfApplication AccountsOfNamed OneAccountPerConsent DeletedByOwner
CHECK_DEADLOCK FALSE
