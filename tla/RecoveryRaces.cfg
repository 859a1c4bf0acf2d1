\* Two workers, two accounts that may be deleted: the interleavings, without crashes.
SPECIFICATION FairSpec
CONSTANTS
  None = None
  Users = {u1, u2}
  Workers = {w1, w2}
  Expire = 1
  MaxTime = 1
  MaxTokens = 2
  MailFails = FALSE
  Deletions = TRUE
  Crashes = FALSE
INVARIANTS
  SpentTokenRetired
PROPERTIES
  SpentTokenLeaves
