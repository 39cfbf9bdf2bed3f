\* Three versions of a file in two seconds, every range, every revalidation.
CONSTANTS
  MaxInt = 4
  Second = 2
  MaxTime = 3
  MaxVersion = 3
  Sizes <- MCSizes
  Ranges <- MCRanges
  TagKinds <- MCTagKinds
SPECIFICATION Spec
INVARIANTS RangeExact NotModifiedIsCurrent RevalidationWorks
