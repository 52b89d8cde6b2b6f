CONSTANTS
  Pollers = {p1, p2}
  Handler = h
  Kinds = {"AddFirewallRule", "DeleteFirewallRule"}
  Entries = {e1, e2, e3, e4}
  None = None
  TTL = 1
  MaxChanges = 1
SPECIFICATION FairSpec
CHECK_DEADLOCK FALSE
INVARIANT FreshAfterInvalidate
PROPERTY UndoneForCause
PROPERTY AnswersTruthfully
PROPERTY ReadsEnd
