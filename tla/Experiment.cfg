CONSTANTS
  Domains <- MCDomains
  DomainKind <- MCKind
  Minimum <- MCMinimum
  Maximum <- MCMaximum
  Limit <- MCLimit
  MaxActs = 5
  None = None
SPECIFICATION Spec
INVARIANTS LabelsAreTrue DoneIsComplete LeavesOwnProjects
CHECK_DEADLOCK FALSE
