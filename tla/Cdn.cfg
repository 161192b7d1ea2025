SPECIFICATION FairSpec
CONSTANTS
  None = None
  x = x
  y = y
  CertIds = {1, 2}
  Idents <- MCIdents
  Trusted <- MCTrusted
  Given <- MCGiven
  LE <- MCLE
  Settings = {x, y}
  Fresh = x
  Specs <- MCSpecs
  MaxIssueAttempts = 2
  MaxFaults = 1
  MaxEdits = 1
  MaxMoves = 1
INVARIANTS BudgetKept
PROPERTIES ForeignKept SettingsConverge Secured RotatesOut PurgeServed
