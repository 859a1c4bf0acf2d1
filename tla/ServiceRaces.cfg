\* Both viewsets, two workers, an admin and a member.
SPECIFICATION ServiceSpec
CONSTANTS
  None = None
  Users = {a, m}
  Staff = {a}
  NameInputs = {FALSE}
  Workers = {w1, w2}
  Crashes = FALSE
  Expire = 0
  MaxTime = 0
  MaxTokens = 1
  MailFails = FALSE
  Deletions = FALSE
  ByEmail = FALSE
SYMMETRY WorkerSymmetry
INVARIANTS
  ServiceTypeOK
  ProfileOrSignal
PROPERTIES
  GoneStaysGone
  CompletionSettles
  BlockSettles
  PasswordSettles
