CONSTANTS
  Drives = {d1, d2}
  Aliases = {a}
  None = none
  Fingerprints = {1, 2}
  MaxPhrase = 2
  MaxElsewhere = 1
SPECIFICATION FairSpec
CHECK_DEADLOCK FALSE
INVARIANTS
  ResultAttributed
  TrustWasConfirmed
  NewPhraseShown
PROPERTIES
  Answered
