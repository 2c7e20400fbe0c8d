\* Two sources, one of which may be added while a consumer follows the feed.
SPECIFICATION FairSpec
CONSTANTS
  s1 = s1
  s2 = s2
  Order <- TwoSources
  Ids = {i1}
  None = None
  Urls = {u1, u2}
  Contents = {a, b}
  Complete = {a}
  MaxLimit = 2
  MaxChanges = 3
  MaxPage = 1
  MaxPages = 3
INVARIANTS TypeOK IdentityUnique LogTellsNews AppliedInOrder FairTurns
PROPERTIES ChangesArrive
