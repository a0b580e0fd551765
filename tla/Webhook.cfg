\* One merge request and up to four webhooks, delivered in any order.
CONSTANTS
  None = None
  MaxPayloads = 4
  MaxLookupFailures = 1
SPECIFICATION Spec
INVARIANTS
  HeadIsRequested
  TriggersAsDocumented
  BotDoesNotTalkToItself
CHECK_DEADLOCK FALSE
