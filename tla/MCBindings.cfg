CONSTANTS
  b1 = b1
  w1 = w1
  w2 = w2
  p1 = p1
  p2 = p2
  p3 = p3
  BindingIDs = {b1}
  Workers = {w1, w2}
  Services = {"mariadb-k8s-database"}
  Passwords = {p1, p2, p3}
  NoPassword = NoPassword
  NoBinding = NoBinding
  Absent = Absent
  Calls = {"Bind", "Unbind", "GetBinding"}
  Overlap = TRUE
  Rebind = FALSE
SYMMETRY MCSymmetry
SPECIFICATION Spec
INVARIANTS TypeOK HandedPasswordIsStored BoundIsFound
PROPERTIES CredentialsStay
