SPECIFICATION TokenFairSpec
CONSTANTS
  Retrying = {c1}
  Plain = {}
  Testing = {t1}
  Admin = {ad1}
  AdminStops = TRUE
  RowsExpire = TRUE
  PartnerAccount = {a1, a2}
  FirstAccount = a1
  NoToken = NoToken
  MaxToken = 4
  MaxUpdate = 2
INVARIANT RetryUsesNewToken
PROPERTY NewAccountSettles
