\* Any three registrations, in any order, and every request after each of them.
CONSTANTS
  Registrations <- MCRegistrations
  Requests <- MCRequests
  MaxRoutes = 3
SPECIFICATION Spec
INVARIANTS RouteFound HandlerRight SpecificFirst
