---- MODULE WriteRequests ----
\* What set_power_limit promises, whatever rounds, dialogs, timers and unloads
\* come in between: the requests of a burst share one answer, given once. Of
\* bursts one at a time has its turn; from then on it takes no more requests, and
\* it sends its last target to the controller once at most. Only what was held in
\* the end is called written, nothing was sent for a burst that is refused or
\* closed, and a save that was cut off is neither.
EXTENDS Naturals

CONSTANTS
    Asks,      \* the bursts
    Targets, NoTarget

VARIABLES
    wanted,    \* the last target asked for, of a burst that waits for its answer
    told,      \* a burst's answer: "none" before its first request, "pending"
    turn,      \* the burst whose turn it is, if any
    sent,      \* its save is out
    held       \* the power limit the controller holds

Init ==
    /\ wanted = [b \in Asks |-> NoTarget] /\ told = [b \in Asks |-> "none"]
    /\ turn = {} /\ sent = FALSE /\ held \in Targets

Waits(b) == told[b] = "pending" /\ b \notin turn

Request(b, t) ==
    /\ told[b] = "none" \/ Waits(b)
    /\ wanted' = [wanted EXCEPT ![b] = t]
    /\ told' = [told EXCEPT ![b] = "pending"]
    /\ UNCHANGED <<turn, sent, held>>

TurnComes(b) == turn = {} /\ Waits(b) /\ turn' = {b} /\ UNCHANGED <<wanted, told, sent, held>>
Send == turn # {} /\ ~sent /\ sent' = TRUE /\ UNCHANGED <<wanted, told, turn, held>>

\* What the controller may hold in the end.
MayHold == {held} \cup (IF sent THEN {wanted[b] : b \in turn} ELSE {})

Arrives == sent /\ held' \in MayHold /\ UNCHANGED <<wanted, told, turn, sent>>

Answered(b, answer) ==
    /\ told[b] = "pending"
    /\ told' = [told EXCEPT ![b] = answer]
    /\ wanted' = [wanted EXCEPT ![b] = NoTarget]

CalledOff(b) ==
    /\ Waits(b) /\ \E answer \in {"refused", "closed"} : Answered(b, answer)
    /\ UNCHANGED <<turn, sent, held>>

\* A failure may come before the save, or after it was stored.
TurnEnds(b) ==
    /\ b \in turn /\ turn' = {} /\ sent' = FALSE /\ held' \in MayHold
    /\ \E answer \in {"written", "failed", "maybe"} :
        /\ Answered(b, answer)
        /\ answer = "written" => held' = wanted[b]
        /\ answer = "maybe" => sent

\* The unload cuts off the one whose turn it is, and those that waited for one.
CutOff(bursts) ==
    /\ \A b \in bursts : told[b] = "pending"
    /\ turn \subseteq bursts /\ turn' = {} /\ sent' = FALSE /\ held' \in MayHold
    /\ told' = [b \in Asks |-> IF b \notin bursts THEN told[b]
                               ELSE IF b \in turn /\ sent THEN "maybe" ELSE "closed"]
    /\ wanted' = [b \in Asks |-> IF b \in bursts THEN NoTarget ELSE wanted[b]]

PanelChange == held' \in Targets /\ UNCHANGED <<wanted, told, turn, sent>>

Next ==
    \/ \E b \in Asks : \/ \E t \in Targets : Request(b, t)
                       \/ TurnComes(b) \/ CalledOff(b) \/ TurnEnds(b)
    \/ \E bursts \in SUBSET Asks : CutOff(bursts)
    \/ Send \/ Arrives \/ PanelChange

Spec == Init /\ [][Next]_<<wanted, told, turn, sent, held>>
====
