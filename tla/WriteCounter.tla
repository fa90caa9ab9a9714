---- MODULE WriteCounter ----
\* What a pump's entry promises of the count of its EEPROM writes, whatever its
\* entry goes through: it only grows, but for a crash, which takes back at most
\* what was not on disk yet, and for the removal of the entry.
EXTENDS Naturals

VARIABLES
    shown,    \* the total a user would read
    durable   \* the total a crash would leave

Init == shown = 0 /\ durable = 0

Count == shown' = shown + 1 /\ UNCHANGED durable
Save == durable' \in durable..shown /\ UNCHANGED shown
Crash == durable' \in durable..shown /\ shown' = durable'
Remove == shown' = 0 /\ durable' = 0

Next == Count \/ Save \/ Crash \/ Remove

Spec == Init /\ [][Next]_<<shown, durable>>
====
