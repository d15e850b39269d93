SPECIFICATION Spec
CONSTANTS
  Tasks = {"t1", "t2"}
  Events = {"e1", "e2", "e3", "e4"}
  Reports <- MCReports
  Reporters = {anonymous, local, other}
  Anonymous = anonymous
  Local = local
  Claims <- MCClaims
  Outcomes = {o1}
  None = None
INVARIANTS AnsweredStays NewestWins
PROPERTIES MirrorsReports
