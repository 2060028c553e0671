CONSTANTS
  c1 = c1
  c2 = c2
  c3 = c3
  Clients <- MCClients
SPECIFICATION FairSpec
INVARIANTS HoldsCounted NoChildLeft
PROPERTIES SleepsAgain
