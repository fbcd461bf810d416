CONSTANTS
  c1 = c1
  c2 = c2
  l1 = l1
  l2 = l2
  PlanLease = plan
  Changes = {c1, c2}
  LeaseIds = {l1, l2}
  MaxId = 4
  Faults = {"late squash"}
SYMMETRY LeaseSymmetry
SPECIFICATION Spec
INVARIANT
  FailedSquashKeepsManifestValid
