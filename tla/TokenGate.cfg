SPECIFICATION Spec
CONSTANTS
  alice = alice
  bob = bob
  o1 = o1
  o2 = o2
  own = own
  leaked = leaked
  Tasks = {t1}
  Urls = {u1}
  MaxAges = {NoMaxAge}
  MaxStaleness = 1
  Keys = {own, leaked}
  Compromised = {leaked}
  Objects = {o1, o2}
  Actors = {alice, bob}
  Anyone = Anyone
  Nobody = Nobody
  EmptyName = EmptyName
  NoTime = NoTime
  Overflow = Overflow
  NoKey = NoKey
  Garbled = Garbled
  Unspecified = Unspecified
  Grants <- SomeGrants
  Asked <- SomeRequests
  Documents <- SomeDocuments
  NoWindow = NoWindow
  MaxTime = 2
  MaxPublications = 2
  MaxMinted = 1
CHECK_DEADLOCK FALSE
INVARIANTS
  TypeOK
  GrantsAreMinted
  StrangersReadTopologyOnly
  GrantedInTime
  KeysWereLive
