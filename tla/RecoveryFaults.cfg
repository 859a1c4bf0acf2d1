\* Two workers, mails that fail, workers that are killed, an account that is deleted.
SPECIFICATION Spec
CONSTANTS
  None = None
  Users = {u1}
  Workers = {w1, w2}
  Expire = 1
  MaxTime = 2
  MaxTokens = 3
  MailFails = TRUE
  Deletions = TRUE
  Crashes = TRUE
SYMMETRY WorkerSymmetry
INVARIANTS
  TypeOK
  OneTokenPerMaker
PROPERTIES
  WedgeIsPermanent
