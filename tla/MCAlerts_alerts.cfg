SPECIFICATION Spec
CONSTANTS
  w1 = w1
  c1 = c1
  c2 = c2
  t1 = t1
  t2 = t2
  Syncs = {w1}
  Clients = {c1, c2}
  Tokens = {t1, t2}
  Choices <- TheChoices
  Words = {"", "invoice", "boss@"}
  Messages <- TheMessages
  Instants = {419, 420, 1319, 1320}
  NoRow = NoRow
  Faults = {"database", "fcm", "payload"}
SYMMETRY Alike
INVARIANTS
  TypeOK
  QuietIsKept
  SaveStands
  RegisteredStaysListed
