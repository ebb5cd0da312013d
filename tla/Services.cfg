SPECIFICATION Spec

CONSTANTS
  Services = {"pool", "counted", "hub", "query", "props", "cron", "saving", "sequence", "blink", "history", "line",
              "lossy"}
  Pools <- ThreePools
  Requests = {8, 24}
  sub1 = sub1
  sub2 = sub2
  ev1 = ev1
  evErr = evErr
  mark1 = mark1
  mark2 = mark2
  load1 = load1
  query1 = query1
  prop1 = prop1
  prop2 = prop2
  propSeed = propSeed
  str1 = str1
  str2 = str2
  strLit = strLit
  writer1 = writer1
  client1 = client1
  client2 = client2
  seq1 = seq1
  seq2 = seq2
  blink1 = blink1
  blink2 = blink2
  Nil = Nil

INVARIANTS PoolsAreSound HubIsSound HubReachesAll PropsAreSound
INVARIANTS ScheduleIsKept SequencesAreSound LedsAreSound HistoryIsSound LineIsSound
PROPERTIES AllocIsTightest TasksReturn PairsAreInTime ImplementsAbstract

\* A run may end at its bounds.
CHECK_DEADLOCK FALSE
