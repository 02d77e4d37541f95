CONSTANTS
  r1 = r1
  r2 = r2
  Requests <- TwoRequests
  NumEmails = 1
  NumPasswords = 2
  MaxIds = 1
  MaxVersion = 3
  MaxSecrets = 2
  MaxStep = 2

SPECIFICATION Spec
SYMMETRY Interchangeable

INVARIANTS
  TypeOK
  SecondFactorHolds
  PasswordHolds
  CodeOnce

PROPERTIES
  NeverRevived
  ChangeRevokes
