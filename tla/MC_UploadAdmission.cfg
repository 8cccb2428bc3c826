SPECIFICATION FairSpec
CONSTANTS
  r1 = r1
  r2 = r2
  c1 = c1
  i1 = i1
  k1 = k1
  manual = manual
  draft = draft
  note = note
  url = url
  none = none
  Requests = {r1, r2, c1, i1}
  Keys = {k1}
  KeyOf <- MCKeyOf
  NoKey = NoKey
  RouteOf <- MCRouteOf
  NameOf <- MCNameOf
  UrlOf <- MCUrlOf
  RowIds = {1, 2}
  NoRow = NoRow
  Limit = 1
  MaxFaults = 1
INVARIANTS TypeOK OneUploadPerKey QuotaExact
 
CHECK_DEADLOCK FALSE
