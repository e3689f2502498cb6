CONSTANTS
  Pdus = {p1, bad}
  BadPdus = {bad}
  Slots = {s1}
  MaxRows = 1
  MaxSms = 2
  MaxSqlErrors = 1
  MaxAtErrors = 1
  MaxLinkDowns = 0
  MaxCrashes = 1
  MaxOverlaps = 0
  OutboxCap = 1
  WireCap = 1
  MaxPendingACKs = 1
  UrcCap = 1
  WarnPct = 50
  PurgePct = 100
  MaxChecks = 1
  NoPdu = NoPdu
  p1 = p1
  p2 = p2
  bad = bad
SPECIFICATION Spec
INVARIANTS
  NoLoss
PROPERTIES
  StoresAndForwards
