SPECIFICATION Spec
CONSTANTS
  Runs = {r1, r2, r3}
  CVs = {cv1}
  PastIngestion = PastIngestion
  Nobody = Nobody
  BucketConfigured = TRUE
SYMMETRY RunSymmetry
INVARIANTS
  TypeOK
  LoggedIngestionsAreStored
  ExtractionsResolve
  MatchingUsesFreshRedaction
  ServingCVIsPinned
