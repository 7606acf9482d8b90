SPECIFICATION Spec
CONSTANTS
  n1 = n1
  n2 = n2
  nBad = nBad
  t1 = t1
  t2 = t2
  server = server
  full = full
  legacy = legacy
  Commands = {c1, c2}
  Nodes = {n1, n2, nBad}
  Templates = {t1, t2}
  NoTemplate = NoTemplate
  Files = {server, full, legacy}
  TemplateFiles = {full, legacy}
  ServerFile = server
  FullFile = full
  NamesOf <- MCNamesOf
  Rejected <- MCRejected
  Customised = FALSE
  Absent = Absent
  Down = Down
  Free = Free
  MaxSecret = 1
  Prompters = {c1}
  Asked <- MCAsked
  Budgets <- MCBudgets
INVARIANTS FailureRestores QuiescentWhole PublicationHeals NoSecretResurrection
PROPERTIES AtomicSpec
