SPECIFICATION FairSpec
CONSTANTS
  Contacts = {alice}
  Texts = {hello}
  None = None
  MaxSends = 2
  MaxCached = 3
INVARIANTS OutTypeOK OneWayOut
PROPERTIES CacheKept SecureMeansSecret Drains
