SPECIFICATION FairSpec
CONSTANTS
  e1 = e1  e2 = e2
  order = order  again = again  cited = cited  change = change  forged = forged  stray = stray
  NoConnections = NoConnections
  Messages = {order, again}
  Editions = {e1, e2}
  Version <- MCVersion
  ConnectionSets <- MCConnectionSets
  Cites <- MCCites
  Offers <- MCOffers
  Complete = {order, again}
  Unsigned = {}
  Tampered = {}
  Broken = {}
  Failing = {}
  BackDated = {}
  DecideUnderLock = FALSE
  MaxCrashes = 0
INVARIANT ApprovedIsProcessed
