SPECIFICATION FairSpec
CONSTANTS
  Senders <- MCSenders
  AdminUsers <- MCAdmins
  t1 = t1
  h1 = h1
  h2 = h2
  h3 = h3
  Tokens = {t1}
  Handlers = {h1, h2, h3}
  TTL = 2
INVARIANTS TypeOK AtMostOnce OnlyOwnerInTime CancelIsFinal PendingHasReaper
PROPERTIES ImplementsApproval EveryRequestDecided
