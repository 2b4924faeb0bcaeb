SPECIFICATION Spec
CONSTANTS
  Absent = Absent
  Empty = Empty
  Garbled = Garbled
  Unused = Unused
  Cold = Cold
  Jobs <- MCJobs
  Processes = {server, tool}
  Daemons = {server}
  MaxRuns = 1
  MaxChanges = 1
  MaxCrashes = 1
INVARIANTS
  TypeOK
  TableIsSerial
  SchedulerFollowsFiles
