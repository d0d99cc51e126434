CONSTANTS
  b1 = b1
  w1 = w1
  w2 = w2
  p1 = p1
  p2 = p2
  p3 = p3
  BindingIDs = {b1}
  Workers = {w1, w2}
  Services = {"redis-k8s", "mariadb-k8s", "mariadb-k8s-database"}
  Passwords = {p1, p2, p3}
  NoPassword = NoPassword
  NoBinding = NoBinding
  Absent = Absent
  Calls = {"Bind", "Unbind", "GetBinding", "LastBindingOperation"}
  Overlap = FALSE
  Rebind = FALSE
SPECIFICATION FairSpec
INVARIANTS LiveBindingHasSecret GoneOrUserMissing
PROPERTIES UnbindCleansUp
