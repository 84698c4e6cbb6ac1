----------------------------- MODULE MCWiFiList -----------------------------
(***************************************************************************)
(* The list with few networks and an array of MaxWifiList of them.         *)
(***************************************************************************)
EXTENDS WiFiList

CONSTANTS n1, n2

\* One network, and two heard from two stations each: one more than there are
\* rows, and than the array holds.
FewFindings == {<<n2>>, <<n1, n2, n2, n1>>}

\* The keys and the reconnecting task, the keys and the web, both with refused
\* scans; the keys alone, without.
Mixed ==
  { [scanners |-> {"loop", "auto"}, mayFail |-> TRUE],
    [scanners |-> Copiers, mayFail |-> TRUE],
    [scanners |-> {"loop"}, mayFail |-> FALSE] }
WithAuto == { [scanners |-> {"loop", "auto"}, mayFail |-> FALSE] }
=============================================================================
