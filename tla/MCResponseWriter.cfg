\* Any four calls of an application, then a return or a panic, in each chain.
CONSTANTS
  Files <- TwoFiles
  Statuses <- MCStatuses
  AppHeaders <- MCHeaders
  Chains <- MCChains
  Requests <- MCRequests
  MinBodyBytes = 2
  MaxCalls = 4
SPECIFICATION Spec
INVARIANTS OneBody PanicIs500 LoggedIsSent ReplayFaithful CorsOnEveryAnswer RefusalStands
