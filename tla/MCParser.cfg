SPECIFICATION Spec
CONSTANTS
  NoDate = NoDate
  TooBig = TooBig
  Numbers <- MCNumbers
  Days <- MCDays
  Century = 2000
  MaxTokens = 10
INVARIANTS TypeOK InsideInput ParsesAsMeant SentencesAccepted
