\* One worker, two admins: requests are served one after the other, and cut by the worker's death.
SPECIFICATION FairServiceSpec
CONSTANTS
  None = None
  Users = {a, b}
  Staff = {a, b}
  NameInputs = {TRUE}
  Workers = {w1}
  Crashes = TRUE
  Expire = 1
  MaxTime = 2
  MaxTokens = 2
  MailFails = FALSE
  Deletions = FALSE
  ByEmail = TRUE
INVARIANTS
  SomeAdminActive
PROPERTIES
  ResetsInOrder
  MailArrives
  KeepsPromise
  CompletionArrives
