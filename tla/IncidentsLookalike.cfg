SPECIFICATION Spec
CONSTANTS
  m1 = m1
  m2 = m2
  p1 = p1
  None = None
  Case = {c1}
  Message = {m1}
  Raw <- LookRaw
  Contact <- LookContact
  Source <- MCSource
  Imports = {}
  SharedDomains = {}
  Controlled = {"posture"}
  Alphabet <- LookAlphabet
  Within <- LookWithin
  Near <- LookNear
  DomainOf <- LookDomainOf
  LabelsOf <- MCLabels
  MaxClaimed = 2
  Window = 1
  Retention = 1
  Skew = 1
  SignalLimit = 3
  TrustLimit = 1
  MaxNow = 2
INVARIANT LookalikesOfTrustedFlagged
