CONSTANTS
  Pdus = {p1}
  BadPdus = {}
  Slots = {s1}
  MaxRows = 1
  MaxSms = 1
  MaxSqlErrors = 0
  MaxAtErrors = 0
  MaxLinkDowns = 1
  MaxCrashes = 0
  MaxOverlaps = 1
  OutboxCap = 1
  WireCap = 1
  MaxPendingACKs = 1
  UrcCap = 1
  WarnPct = 50
  PurgePct = 100
  MaxChecks = 0
  NoPdu = NoPdu
  p1 = p1
  p2 = p2
  bad = bad
SPECIFICATION FairSpec
PROPERTIES
  EventuallyDelivered
