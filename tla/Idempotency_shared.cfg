\* Requests that overlap or follow each other, operations with and without a
\* body, crashes and failing inserts.
CONSTANTS
  k1 = k1  k2 = k2  r1 = r1  r2 = r2  r3 = r3  r4 = r4
  Keys = {k1, k2}
  Requests = {r1, r2, r3, r4}
  NoBody = {k2}
  MaxCrashes = 2
  MaxDbErrors = 1
SPECIFICATION Spec
SYMMETRY RequestSymmetry
INVARIANTS TypeOK ExecutionsAccounted AnswersAgree
CHECK_DEADLOCK FALSE
