\* r1 and r2 have one key, r3 is an NS record of the domain; requests overlap at
\* will.
CONSTANTS
  r1 = r1
  r2 = r2
  r3 = r3
  k1 = k1
  k2 = k2
  ZoneRequest = {z1}
  RecordRequest = {r1, r2, r3}
  Key = {k1, k2}
  KeyOf <- MCKeyOf
  Apex = k2
  Nameservers = Nameservers
  MaxUnread = 1
SPECIFICATION Spec
INVARIANTS TypeOK SerialCoversRecords ServedIsRecorded SuccessPublishesAll
SYMMETRY Symmetry
CHECK_DEADLOCK FALSE
