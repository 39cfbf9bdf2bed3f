\* Is the order among overlapping patterns the one that docs/router.md gives?
CONSTANTS
  Registrations <- MCRegistrations
  Requests <- MCRequests
  MaxRoutes = 3
SPECIFICATION Spec
INVARIANT DocumentedOrder
