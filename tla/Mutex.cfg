SPECIFICATION FairSpec
CONSTANT Futures = {f1, f2, f3, f4}
INVARIANTS GuardIsExclusive EntriesAreLive FreeLockHasHeir
PROPERTY FreeLockIsTaken
