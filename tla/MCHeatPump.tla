---- MODULE MCHeatPump ----
\* HeatPump on small pumps: the system band first, one band with the writable
\* rows, one band read after it, as on the controller.
EXTENDS HeatPump, TLC

CONSTANTS low, high   \* rows

CallerSymmetry == Permutations(Callers)

\* One setpoint with an off state and its switch.
OneBandOf == [r \in Rows |-> 2]
OneDynMin == [r \in Rows |-> None]
OneDynMax == [r \in Rows |-> None]
OneMin == [r \in Rows |-> 0]
OneMax == [r \in Rows |-> 1]
OneKept == [r \in Rows |-> 1]
OneFirst == [r \in Rows |-> {0} \cup (IF r \in OffRows THEN {Off} ELSE {})]

\* Two setpoints, each the bound of the other, on a grid of 2 with odd ends.
PairDynMin == [r \in Rows |-> IF r = high THEN low ELSE None]
PairDynMax == [r \in Rows |-> IF r = low THEN high ELSE None]
PairMin == [r \in Rows |-> IF r = low THEN 0 ELSE 1]
PairMax == [r \in Rows |-> 3]
PairKept == [r \in Rows |-> None]
PairFirst == [r \in Rows |-> IF r = low THEN {1} ELSE {2}]
====
