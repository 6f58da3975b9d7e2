CONSTANTS
  a = a
  b = b
  na = na
  nb = nb
  free = free
  Users <- MCUsers
  Phones <- MCPhones
  Emails = {seedmail, mail}
  Codes = {seedcode, code}
  SeedPhone <- MCSeedPhone
  SeedEmail = seedmail
  SeedCode = seedcode
  Requests = {r1, r2, r3}
  MaxKills = 2
  None = None
SYMMETRY Symmetry
SPECIFICATION Spec
INVARIANTS TypeOK ServedSchemaIsWhole TextsHaveOneAuthor ChoicesStand
CHECK_DEADLOCK FALSE
