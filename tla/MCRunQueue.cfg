SPECIFICATION FairSpec
CONSTANTS
  r1 = r1 r2 = r2 c1 = c1 w1 = w1 w2 = w2 s1 = s1 s2 = s2
  Runs = {r1}
  Conversations = {c1}
  ConvOf <- OneConversation
  Workers = {w1, w2}
  Slots = {s1, s2}
  WorkerOf <- OneSlotEach
  Mortal = {w1}
  Clarifying = {r1}
  Nodes = 2
  MaxAttempts = 2
  NoWorker = NoWorker
  NoRun = NoRun
INVARIANTS TypeOK OutcomeTold StreamFollowsStatus OwnerRunsNewestAttempt
PROPERTIES NoAttemptAfterCancel ImplementsLifecycle EveryRunSettles
CHECK_DEADLOCK FALSE
