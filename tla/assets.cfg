SPECIFICATION Spec
CONSTANTS
  c1 = c1
  c2 = c2
  Name <- MCName
  BadName = "../logo"
  Client <- Clients
  Content <- MCContent
SYMMETRY ClientSymmetry
INVARIANTS
  TypeOK
  GetSound
  GetFinds
  ListSound
CHECK_DEADLOCK TRUE
