SPECIFICATION Spec
CONSTANTS
  Message = {m1}
  Rules <- MCRules
  NULL = NULL
CHECK_DEADLOCK FALSE
INVARIANTS TypeOK CopiesAreTheRulesOwn ForwardsAddUp
PROPERTY ForwardingEnds
