CONSTANTS
  t1 = t1
  t2 = t2
  c1 = c1
  c2 = c2
  c3 = c3
  name1 = name1
  name2 = name2
  Nobody = Nobody
  Tasks <- MCTasks
  Calls <- MCCalls
  Names <- MCNames
  MaxRecordings = 3
SPECIFICATION Spec
INVARIANTS
  TypeOK
  RecordingsCanBeStopped
  ConvertsWhatItStopped
PROPERTIES
  TasksAreAnswered
CHECK_DEADLOCK FALSE
