SPECIFICATION AllFair
CONSTANTS
  Versions = {v1, v2, v3}
  NoVersion = NoVersion
  Percents = {50, 101}
  BatchSizes = {0, 5}
  Totals = {4}
  Requests = {49, 5050, 9999}
  Operators = {o1, o2}
  Tasks = {r1}
  Ids = {a, b}
  FirstId = a
  NoModel = NoModel
  Percentages = {50, 100, 101}
  MaxLoads = 2
  MaxSwaps = 2
  MaxBatch = 2
  MinBatch = 2
  MaxSeqLen = 2
  EnablePriority = TRUE
  Priorities = {1, 2}
  PlainSubmit = TRUE
  MaxRequests = 3
  MaxModels = 2
  MaxFailures = 1
INVARIANTS
  SwapInv
  SchedulerInv
  StatesOwn
  RegistryInv
PROPERTIES
  NoModelLost
  OperatorReturns
  SwitchContract
  AllComplete
  TrafficShifts
