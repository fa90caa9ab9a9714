---- MODULE MCPumpEntry ----
\* PumpEntry with few writes, reloads and restarts.
EXTENDS PumpEntry, TLC

CallerSymmetry == Permutations(Callers)
====
