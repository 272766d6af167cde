\* Two turns of one conversation and a store that never fails: what the
\* second turn stores conflicts with the empty id of the first.
SPECIFICATION Spec
CONSTANTS
  g1 = g1
  t1 = t1
  t2 = t2
  c1 = c1
  m1 = m1
  home = home
  other = other
  Conversations = {c1}
  MessageIds = {m1}
  NoId = NoId
  Stores = {home}
  HistoryLimit = 1
  StoreFaults = {}
  Mortal = {}
  Goals = {}
  Turns = {t1, t2}
  TalksOf <- TwoTurns
  NoTalk = NoTalk
  MaxSteps = {3}
  MaxIterations = 2
  Home = home
  Visits <- NoVisits
  Shutdowns = FALSE
INVARIANTS
  TurnsAreRemembered
CHECK_DEADLOCK FALSE
