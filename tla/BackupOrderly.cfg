CONSTANTS
  Sessions = {s1, s2}
  NumParents = 2
  MaxDate = 3
  Lease = 2
  MaxAge = 1
  MaxFaults = 2
  None = None
SPECIFICATION OrderlySpec
INVARIANTS TypeOK OneArchivePerDate SubmittedReachedAll OneOwner MailboxVerifiesFromGenesis TamperingShows
PROPERTIES SettledIsFinal OwedIsSettled
