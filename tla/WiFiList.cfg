SPECIFICATION Spec
CONSTANTS
  n1 = n1
  n2 = n2
  Networks = {n1, n2}
  Findings <- FewFindings
  MaxWifiList = 3
  Sessions <- Mixed
  NoName = NoName
  Blank = Blank
  Outside = Outside
INVARIANTS TypeOK MarkInRows ListIsLastScan ChosenMarkedAlone
