\* Is every opened file closed in the chain of cmd/wbsv?
CONSTANTS
  Files <- OneFile
  Statuses <- MCStatuses
  AppHeaders <- MCHeaders
  Chains <- Shipped
  Requests <- PlainRequest
  MinBodyBytes = 1
  MaxCalls = 2
SPECIFICATION Spec
INVARIANT FilesClosed
