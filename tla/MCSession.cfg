SPECIFICATION Spec
CONSTANT Scripts <- MCScripts
CHECK_DEADLOCK FALSE
INVARIANTS
  TypeOK
  LockStepKeepsMessagesApart
  ConversationInStep
PROPERTY ClientFinishes
