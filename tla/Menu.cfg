SPECIFICATION FairSpec
CONSTANTS
  MaxMenu = 6
  SubMenuSize <- DeviceSizes
  VisibleRows = 3
INVARIANTS TypeOK SelectionVisible NoEmptyRows SelectionOwnsKeys ScreenTruth
PROPERTY HomeByD
