SPECIFICATION FairSpec
CONSTANTS
  PoolSize = 2
  TrackerContacts = {t1}
  AcceptContacts = {t1}
  NoSlot = NoSlot
  NoContact = NoContact
  Quota = 1
  MaxInbound = 1
  MaxOutbound = 1
  MaxRetries = 2
  CacheSize = 1
  ContactsSize = 1
  UpdatesSize = 1
  SizeMax = 9
  AssertsOn = FALSE
  MaxArrivals = 3
PROPERTIES InFlightResolved CallbacksReturn
CHECK_DEADLOCK FALSE
