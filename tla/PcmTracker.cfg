SPECIFICATION Spec
CONSTANTS
  PoolSize = 3
  TrackerContacts = {t1, t2, t3}
  AcceptContacts = {}
  NoSlot = NoSlot
  NoContact = NoContact
  Quota = 2
  MaxInbound = 2
  MaxOutbound = 1
  MaxRetries = 2
  CacheSize = 1
  ContactsSize = 1
  UpdatesSize = 2
  SizeMax = 9
  AssertsOn = FALSE
  MaxArrivals = 3
INVARIANTS InboundAccounting ConnectionCredit NoOrphan
PROPERTIES NoUpdateLost
CHECK_DEADLOCK FALSE
SYMMETRY Contacts
