---- MODULE MCWebifCoordinator ----
\* WebifCoordinator with one to three pages, two rounds and a few writes.
EXTENDS WebifCoordinator

CONSTANTS heatPump, statistics, heating, timer, hand, low, high

OnePage == <<heating>>
TwoPages == <<heatPump, heating>>
ThreePages == <<heatPump, statistics, heating>>
OneInterval == [p \in {heating} |-> 1]
TwoIntervals == [p \in {heatPump, heating} |-> IF p = heating THEN 2 ELSE 1]
ThreeIntervals ==
    [p \in {heatPump, statistics, heating} |-> IF p = heatPump THEN 1 ELSE 2]
====
