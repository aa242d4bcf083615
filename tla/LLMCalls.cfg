CONSTANTS
  ann = ann
  bob = bob
  local = local
  hosted = hosted
  hi = hi
  hello = hello
  bye = bye
  seed = seed
  plain = plain
  tag = tag
  Callers <- MCCallers
  Calls <- MCCalls
  Texts <- MCTexts
  Distance <- MCDistance
  Threshold = 1
  Backends = {"exact", "semantic"}
  Files <- MCFiles
  OnMismatch = {"reset", "error"}
  Extras <- MCExtras
  Chain <- MCChain
  Fallback = Fallback
  Priced = {local, hosted}
  RetryOn = {"transient", "all_failed"}
  Attempts = 2
  Repairs = 1
  Steps = 2
  Ttl = 1
  Tags = {tag}
  NoTag = NoTag
  MaxTime = 2
SPECIFICATION FairSpec
INVARIANTS NoSplice CostsAreKept
PROPERTIES LookupsAreHonest EveryCallEnds
CHECK_DEADLOCK FALSE
