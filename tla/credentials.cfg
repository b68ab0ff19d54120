\* Two sessions store keys of one provider while two tools are seeded,
\* published, removed and listed.
CONSTANTS
  resend = resend
  api_key = api_key
  from_email = from_email
  x = x
  y = y
  email = email
  sms = sms
  s1 = s1
  s2 = s2
  r1 = r1
  Blank = Blank
  Providers <- MCProviders
  Keys <- MCKeys
  Values <- MCValues
  Tools <- MCTools
  Required <- MCRequired
  ProviderOf <- MCProviderOf
  BornLive <- MCBornLive
  SeedTools <- MCSeedTools
  Retired <- MCRetired
  Sessions <- MCSessions
  Readers <- MCReaders
  MaxStores = 3
  MaxWrites = 2
SPECIFICATION Spec
SYMMETRY Symmetric
CONSTRAINT FourInAll
INVARIANTS LiveHasKeys ListedLiveIsConfigured KeysStoredOnce
PROPERTY SerialStoreActivates
CHECK_DEADLOCK FALSE
