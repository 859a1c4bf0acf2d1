\* A viewset inherits the permissions of another and adds to them.
SPECIFICATION Spec
CONSTANTS
  Views <- MCViews
  Actions <- MCActions
  Lists <- MCLists
  Declared <- MCDeclared
  Extra <- MCExtra
  ListOf <- MCListOf
  None = None
  MaxLength = 6
INVARIANTS
  RequiredAsDeclared
