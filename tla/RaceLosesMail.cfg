\* Two concurrent requests, a mail server that never fails.
SPECIFICATION FairSpec
CONSTANTS
  None = None
  Users = {u1}
  Workers = {w1, w2}
  Expire = 1
  MaxTime = 1
  MaxTokens = 2
  MailFails = FALSE
  Deletions = FALSE
  Crashes = FALSE
PROPERTIES
  MailArrives
