SPECIFICATION FairSpec
CONSTANTS
  a = a
  b = b
  Request = {t1, t2}
  Account = {a, b}
  Group <- MCGroup
  OwnerOf <- MCOwner
  TTL = 1
  MaxChanges = 3
PROPERTY ListingIsExact
PROPERTY StampNotOlder
PROPERTY Converges
