\* A profile update that overlaps a confirmation.
SPECIFICATION ServiceSpec
CONSTANTS
  None = None
  Users = {a, m}
  Staff = {a}
  NameInputs = {TRUE}
  Workers = {w1, w2}
  Crashes = FALSE
  Expire = 0
  MaxTime = 0
  MaxTokens = 1
  MailFails = FALSE
  Deletions = FALSE
  ByEmail = TRUE
PROPERTIES
  OnlyConfirmSetsPassword
