SPECIFICATION Spec
CONSTANTS
  Orders = {order}
  Sender <- MCSender
  Partners = {"buyer", "other"}
  Types = {"order_response", "despatch_advice", "invoice"}
  Allows <- MCAllows
  Fields <- MCFields
  Lines = {"unit"}
  Loose <- MCLoose
  Echoed <- MCEchoed
  Holes <- MCHoles
  Original <- MCOriginal
  Codes <- MCCodes
  OnlyWhen <- MCOnlyWhen
  Always = Always
  Values = {"accept", "change", number}
  Texts = {"accept", "change"}
  number = number  million = million
  Prints <- MCPrints
  Shown <- MCShown
  Reread <- MCReread
  Fill = Fill
  Absent = Absent
  WithRulebook = {order}
  Forbidden <- MCForbidden
  Procs = {"serve"}
  Tries <- MCTries
  HoleLists <- MCHoleLists
  MaxEdits = 1
  MaxStarts = 2
  MaxSent = 3
  MaxCrashes = 1
INVARIANTS TypeOK AnswersHonourTheOriginal MarkedIsAnswered OneAnswerPerDraft
PROPERTY ReportedIsDone
