--------------------------- MODULE MCBeaconListener ---------------------------
EXTENDS BeaconListener

MCListeners == <<"explorer", "defender", "cm">>

\* What CreateForArisExplorerAndVoyager makes, with two explorers, a defender,
\* which its filter excludes, and a command module, which no filter is asked about.
MCKind == [d \in Devices |-> CASE d <= 2 -> "explorer" [] d = 3 -> "defender" [] d = 4 -> "cm"]
=============================================================================
