SPECIFICATION FairSpec
CONSTANTS
  e1 = e1  e2 = e2
  order = order  again = again  cited = cited  change = change  forged = forged  stray = stray
  NoConnections = NoConnections
  Messages = {order, again, cited, change, forged, stray}
  Editions = {e1, e2}
  Version <- MCVersion
  ConnectionSets <- MCConnectionSets
  Cites <- MCCites
  Offers <- MCOffers
  Complete = {order, again, change, forged}
  Unsigned = {stray}
  Tampered = {forged}
  Broken <- BreaksItsRules
  Failing <- FailsItsKey
  BackDated = {}
  DecideUnderLock = TRUE
  MaxCrashes = 1
  good = good  wrong = wrong  odd = odd  quantity = quantity  batch = batch  NoKey = NoKey
  RuleIDs = {quantity, batch}
  Contents = {good, wrong, odd}
  DocTypes = {"order", "despatch_advice"}
  Rulebook <- MCRulebook
  AnswerKey <- MCAnswerKey
  Content <- MCContent
  DocType <- MCDocType
INVARIANTS TypeOK OnlyApprovedIsLive HeldIsOnTheDesk NothingIsLost AcceptedIsProven GreenKeepsTheRules
PROPERTIES DecisionsAreFinal ApprovalKeepsTheOld ApprovedWholeOrNotAtAll
