SPECIFICATION Spec
CONSTANTS
  ann = ann
  s1 = s1
  light = light
  dark = dark
  r1 = r1
  r2 = r2
  Emails = {ann}
  Requests = {r1, r2}
  States = {s1}
  Values = {light, dark}
  Light = light
  MaxUsers = 2
  Faults = {"database", "google", "tokens"}
INVARIANTS TypeOK OneUserPerEmail ProfileStands OneLinkPerState
