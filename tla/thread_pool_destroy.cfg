SPECIFICATION FairSpec
CONSTANTS
  w1 = w1
  w2 = w2
  t1 = t1
  t2 = t2
  t3 = t3
  nobody = nobody
  Workers <- MCOneWorker
  Tasks <- MCOneTask
PROPERTY DestructorJoins
CHECK_DEADLOCK FALSE
