SPECIFICATION Spec
CONSTANTS
  Runs = {r1, r2}
  CVs = {cv1}
  PastIngestion = PastIngestion
  Nobody = Nobody
  BucketConfigured = TRUE
SYMMETRY RunSymmetry
INVARIANTS
  EveryRunResolves
