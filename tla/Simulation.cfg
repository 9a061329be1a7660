SPECIFICATION Spec
CONSTANTS
  p1 = p1
  p2 = p2
  p3 = p3
  t1 = t1
  f1 = f1
  Pole = {p1, p2, p3}
  Device = {p1, p2}
  DefaultPole = p1
  Target = {t1}
  PolesOf <- TwoBelow
  Fault = {f1}
  AffectedBy <- OneFault
  Unspecified = Unspecified
  Request = {r1, r2}
  MaxBoot = 1
  MaxSeq <- SeqBound
  MaxCount = 1
  MaxDisturbed = 1
SYMMETRY Symmetry
INVARIANTS TypeOK ClaimsAreExact PlansAreFresh RefusalNeedsAnother
CHECK_DEADLOCK FALSE
