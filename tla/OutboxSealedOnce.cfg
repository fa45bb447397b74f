SPECIFICATION Spec
CONSTANTS
  Contacts = {alice}
  Texts = {hello}
  None = None
  MaxSends = 2
  MaxCached = 3
INVARIANT SealedOnce
