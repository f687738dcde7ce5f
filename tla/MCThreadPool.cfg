CONSTANTS
  Threads = {t1, t2, t3}
  Main = main
  Tasks = {a, b}
  NoTask = NoTask
SPECIFICATION PoolSpec
INVARIANTS
  PoolTypeOK
  SlotsAccounted
  AllGivenBack
  NeverQueued
CHECK_DEADLOCK FALSE
