CONSTANTS
  Pdus = {p1}
  BadPdus = {}
  Slots = {s1, s2}
  MaxRows = 1
  MaxSms = 1
  MaxSqlErrors = 1
  MaxAtErrors = 1
  MaxLinkDowns = 1
  MaxCrashes = 0
  MaxOverlaps = 0
  OutboxCap = 1
  WireCap = 1
  MaxPendingACKs = 1
  UrcCap = 1
  WarnPct = 50
  PurgePct = 100
  MaxChecks = 1
  NoPdu = NoPdu
  p1 = p1
  p2 = p2
  bad = bad
SPECIFICATION FairSpec
PROPERTIES
  EventuallyDelivered
  SimEventuallyRead
