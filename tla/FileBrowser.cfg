SPECIFICATION FairSpec
CONSTANTS
  Listing <- DeepCard
  CardMayLeave = TRUE
INVARIANTS TypeOK MarkedShown
PROPERTY BackToRootIfSeen
