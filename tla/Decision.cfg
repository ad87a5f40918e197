SPECIFICATION Spec
CONSTANTS
  Refused = Refused
  NoToken = NoToken
  NoFlag = NoFlag
  NoKey = NoKey
  Absent = Absent
  MaxEvidence = 3
  MaxFiles = 2
INVARIANT AcceptedMeansProved
INVARIANT PoliciesNeverWeaken
INVARIANT AssuranceIsWeakestLink
INVARIANT VerifiedMeansSigned
PROPERTY MoreEvidenceNeverUnaccepts
PROPERTY AddedPolicyNeverRelaxes
CHECK_DEADLOCK FALSE
