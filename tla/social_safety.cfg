SPECIFICATION Spec
CONSTANTS
  google = google
  github = github
  e1 = e1
  e2 = e2
  n1 = n1
  n2 = n2
  Login = {l1, l2, l3}
  Identity = {google, github}
  Email = {e1, e2}
  Name = {n1, n2}
  User = {u1, u2}
  NULL = NULL
  Profiles <- SharedAddress
  Faults = TRUE
SYMMETRY Symmetry
INVARIANTS Consistent AnswerIsOwner ProfileIsOwn
PROPERTIES ImplementsAccounts
