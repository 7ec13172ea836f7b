SPECIFICATION Spec
CONSTANTS
  m1 = m1
  m2 = m2
  p1 = p1
  None = None
  Case = {c1, c2, c3}
  Message = {m1, m2, p1}
  Raw <- MCRaw
  Contact <- MCContact
  Source <- MCSource
  Imports <- MCImports
  SharedDomains = {"acme"}
  Controlled = {"posture"}
  Alphabet <- MCAlphabet
  Within <- MCWithin
  Near <- MCNear
  DomainOf <- MCDomainOf
  LabelsOf <- MCLabels
  MaxClaimed = 2
  Window = 1
  Retention = 1
  Skew = 1
  SignalLimit = 3
  TrustLimit = 1
  MaxNow = 2
INVARIANT TypeOK
INVARIANT CaseMatchesEvidence
INVARIANT SpanBounded
INVARIANT RuleCodesAreStable
PROPERTY ScoreOnlyGrows
PROPERTY FirstContactIsEarliest
PROPERTY KeepsCaseFiles
CHECK_DEADLOCK FALSE
SYMMETRY CaseSymmetry
PROPERTY EditDistanceExact
