\* A goal and a chat turn in one conversation, which a second session appends
\* to and deletes; every failure.
SPECIFICATION FairSpec
CONSTANTS
  g1 = g1
  t1 = t1
  t2 = t2
  c1 = c1
  m1 = m1
  home = home
  other = other
  Conversations = {c1}
  MessageIds = {m1}
  NoId = NoId
  Stores = {home, other}
  HistoryLimit = 1
  StoreFaults = {"refuse", "statement"}
  Mortal = {home}
  Goals = {g1}
  Turns = {t1}
  TalksOf <- InOneTalk
  NoTalk = NoTalk
  MaxSteps = {3}
  MaxIterations = 2
  Home = home
  Visits <- TheVisits
  Shutdowns = TRUE
INVARIANTS
  TypeOK
  NoOrphans
  HistoryIsWhole
  SeesItsOwn
  NoCallIsLost
PROPERTIES
  StoredStays
  
CHECK_DEADLOCK FALSE
