CONSTANTS
  Workers = {w1, w2}
  Tasks = {x1, x2, x3}
  NoTask = NoTask
  Stoppers = {s1, s2}
SPECIFICATION Spec
INVARIANTS TypeOK TasksKept ThreadsJoined
PROPERTIES TasksRun StopsReturn
