SPECIFICATION Spec
CONSTANTS
  once = once
  llm = llm
  overlay = overlay
  Policy = {once, llm, overlay}
  NoPolicy = NoPolicy
  IdRank <- Ranks
  MaxPriority = 0
  LLMFallback = "ask"
  MemberCount = 2
  Books <- SomeBooks
  Unlimited = Unlimited
  MaxTries = 2
  MaxOthers = 1
CHECK_DEADLOCK FALSE
INVARIANTS
  UndisturbedCommitsAreEligible
  SharedLimitsHold
  AllStoredBeforeAnySent
  KeyedDraftIsSentOnce
  MissingVerdictsFailClosed
