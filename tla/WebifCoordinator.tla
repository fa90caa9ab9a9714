---- MODULE WebifCoordinator ----
\* The web interface's coordinator (webif_coordinator.py): rounds that keep the
\* pages fresh, the brake that stops them on a struggling controller, and the
\* one setting it writes, in bursts of requests. The client is what its calls
\* can end in. One tick stands for minutes in the rounds and for seconds in a
\* burst; due slack and shortest wait (5 s and 1 s) are below it.
EXTENDS Integers, Sequences, FiniteSets, WriteBudget

CONSTANTS
    PageOrder,   \* the polled pages, in the order they are listed
    Heating,     \* the page a write reads
    Interval,    \* each page's interval, in ticks
    FirstRetry, LongestRetry, \* waits while polling is stopped
    Debounce,    \* DEBOUNCE_SECONDS
    Rounds,      \* rounds that may run at once: the timer's, one asked by hand
    Targets,     \* values of the power limit
    Limit,       \* writes a day
    MaxAsks, MaxVisits, MaxDay, \* bounds: writes asked for, visits, days
    MaxPanel,    \* bound: changes of the power limit at the panel
    NoPage, Free

Pages == {PageOrder[i] : i \in 1..Len(PageOrder)}
Asks == 1..MaxAsks
Never == -1
NoTarget == CHOOSE t \in Targets : TRUE
FailuresKept == 1
FailuresToStop == 3

ASSUME CoordinatorAssumption ==
    /\ PageOrder # <<>> /\ Heating \in Pages /\ NoPage \notin Pages
    /\ Interval \in [Pages -> Nat \ {0}]
    /\ {FirstRetry, LongestRetry, Debounce, Limit, MaxAsks, MaxVisits, MaxDay,
        MaxPanel} \subseteq Nat
    /\ Free \notin Rounds \cup Asks /\ Rounds \cap Asks = {}

ASSUME OrderAssumption == PageOrder \in Seq(Pages)

ShortestInterval == CHOOSE s \in {Interval[p] : p \in Pages} :
                        \A p \in Pages : s <= Interval[p]
Least(a, b) == IF a < b THEN a ELSE b
Greatest(a, b) == IF a < b THEN b ELSE a

\* The pages.
VARIABLES
    hasValues,   \* the page's last whole values are kept
    failures,    \* failures in a row, at most FailuresToStop
    dueIn,       \* ticks until the page is due
    order,       \* the pages, the one with the oldest reading first
    stopped,     \* the page that stopped polling, or NoPage
    retryIn, retryWait,
    restLeft,    \* ticks until a round may ask again
    refused,     \* _refused: the login was refused
    notice,      \* the repair notice of the stop is shown
    nextIn       \* ticks until the next planned round, or Never
\* The rounds, and what holds them.
VARIABLES
    at,          \* where a round is: "idle", "dialog", "turn", "page", or "late"
                 \* at a page it asked after the client closed
    todo,        \* the pages it still has to ask
    asking,      \* the holder of the lock _asking: a round, a write or Free
    visits       \* dialogs of this entry on a visit
\* The writes. A burst and a write are numbered in the order they come.
VARIABLES
    burst,       \* _burst: requests not written yet; 0 for none
    quiet, quietFor, \* the debounce timer, or Never, and the burst it is for
    target,      \* a burst's last target
    outcome,     \* a burst's outcome: "none" before its first request
    write,       \* where a write is: "none", "turn", "reads", "save", "posted",
                 \* "readback" or "over"
    writes,      \* the burst a write was started for
    goal,        \* the target a write was given
    budget, today
\* The world, the entry's life and history.
VARIABLES
    held,        \* the power limit the controller holds
    life,        \* "on", "closing" (unloading, the client closed) or "gone"
    asks, panels,
    sinceTimeout, \* ticks since a request ran into a timeout
    sinceAsk     \* ticks since the last request for a write

pageVars == <<hasValues, failures, order>>
stopVars == <<stopped, retryIn, retryWait, notice>>
planVars == <<dueIn, restLeft, refused, nextIn>>
roundVars == <<at, todo>>
burstVars == <<burst, quiet, quietFor, target>>
writeVars == <<write, writes, goal>>
worldVars == <<held, life, asks, panels, visits, today>>
sinceVars == <<sinceTimeout, sinceAsk>>
vars == <<pageVars, stopVars, planVars, roundVars, asking, burstVars, outcome,
          writeVars, budget, worldVars, sinceVars>>

Init ==
    /\ hasValues = [p \in Pages |-> FALSE]
    /\ failures = [p \in Pages |-> 0]
    /\ dueIn = [p \in Pages |-> 0]
    /\ order = PageOrder
    /\ stopped = NoPage /\ retryIn = 0 /\ retryWait = 0
    /\ restLeft = 0
    /\ refused = FALSE
    /\ notice = FALSE
    /\ nextIn = 0
    /\ at = [r \in Rounds |-> "idle"]
    /\ todo = [r \in Rounds |-> <<>>]
    /\ asking = Free
    /\ visits = 0
    /\ burst = 0 /\ quiet = Never /\ quietFor = 0
    /\ target = [b \in Asks |-> NoTarget]
    /\ outcome = [b \in Asks |-> "none"]
    /\ write = [w \in Asks |-> "none"]
    /\ writes = [w \in Asks |-> 0]
    /\ goal = [w \in Asks |-> NoTarget]
    /\ budget = NewBudget(0)
    /\ today = 0
    /\ held \in Targets
    /\ life = "on"
    /\ asks = 0 /\ panels = 0
    /\ sinceTimeout = ShortestInterval
    /\ sinceAsk = Debounce

----
\* What is due, and when the next round is planned.

\* _retry_due: while stopped, the stopping page once its wait is over.
RetryDue == retryIn = 0

Due(p) ==
    /\ restLeft = 0
    /\ IF stopped = NoPage THEN dueIn[p] = 0 ELSE p = stopped /\ RetryDue

\* _due, oldest reading first: what is due of the first `n` pages, of them all.
DuePages ==
    LET dueOf[n \in 0..Len(order)] ==
            IF n = 0 THEN <<>>
            ELSE IF Due(order[n]) THEN Append(dueOf[n - 1], order[n])
            ELSE dueOf[n - 1]
    IN dueOf[Len(order)]

\* _plan_next_round.
Plan ==
    LET nextDue == CHOOSE d \in {dueIn[p] : p \in Pages} :
                       \A p \in Pages : d <= dueIn[p]
    IN Greatest(IF stopped = NoPage THEN nextDue ELSE retryIn, restLeft)

\* Home Assistant plans a round from the end of every refresh while it is on.
PlansNextRound == nextIn' = IF life = "on" THEN Plan' ELSE Never

\* The order once the page's reading is the newest.
WithNewest(p) ==
    LET i == CHOOSE k \in DOMAIN order : order[k] = p
    IN [k \in DOMAIN order |->
            IF k < i THEN order[k] ELSE IF k < Len(order) THEN order[k + 1] ELSE p]

\* _store: whole values, the newest reading.
Stores(p) ==
    /\ hasValues' = [hasValues EXCEPT ![p] = TRUE]
    /\ failures' = [failures EXCEPT ![p] = 0]
    /\ order' = WithNewest(p)

\* _published: what the sensors of a page show; one failure is ridden out.
ShowsValues(p) == hasValues[p] /\ failures[p] <= FailuresKept

\* The shared end of a request that ran into a timeout.
Rests == restLeft' = ShortestInterval

\* Mutant of NextWait: each failed retry doubles the wait, for ever.
NextWaitUncapped ==
    IF stopped = NoPage THEN Greatest(FirstRetry, ShortestInterval)
    ELSE 2 * retryWait

\* The wait of a stop: the first, then doubled up to the longest.
NextWait ==
    IF stopped = NoPage THEN Greatest(FirstRetry, ShortestInterval)
    ELSE Least(2 * retryWait, LongestRetry)

\* _stop: every page's values go, unless they are gone already.
Stops(p) ==
    /\ stopped' = p
    /\ retryWait' = NextWait
    /\ retryIn' = NextWait
    /\ notice' = TRUE
    /\ IF stopped = NoPage
       THEN /\ hasValues' = [q \in Pages |-> FALSE]
            /\ dueIn' = [q \in Pages |-> 0]
       ELSE UNCHANGED <<hasValues, dueIn>>

----
\* Rounds: _async_update_data, _round and _fetch.

\* The round's last step: the plan for the next one. A round that ended early
\* rests first.
RoundEnds(r) ==
    /\ at' = [at EXCEPT ![r] = "idle"]
    /\ todo' = [todo EXCEPT ![r] = <<>>]
    /\ PlansNextRound

RoundEndsEarly(r) == Rests /\ RoundEnds(r)

\* The next page of the round, or its end.
RoundGoesOn(r) ==
    /\ UNCHANGED restLeft
    /\ IF Len(todo[r]) > 1
       THEN /\ at' = [at EXCEPT ![r] = "dialog"]
            /\ todo' = [todo EXCEPT ![r] = Tail(@)]
            /\ UNCHANGED nextIn
       ELSE RoundEnds(r)

\* A refresh takes the planned one's place; after a refused login it asks
\* nothing and plans nothing.
StartRound(r) ==
    /\ life = "on"
    /\ at[r] = "idle"
    /\ UNCHANGED <<pageVars, stopVars, dueIn, restLeft, refused, asking,
                   burstVars, outcome, writeVars, budget, worldVars, sinceVars>>
    /\ IF refused
       THEN nextIn' = Never /\ UNCHANGED <<at, todo>>
       ELSE IF DuePages = <<>>
       THEN RoundEnds(r)
       ELSE /\ nextIn' = Never
            /\ at' = [at EXCEPT ![r] = "dialog"]
            /\ todo' = [todo EXCEPT ![r] = DuePages]

\* Planned, or requested by hand at any time.
PlannedRound(r) == nextIn = 0 /\ StartRound(r)
RoundByHand(r) == nextIn # 0 /\ StartRound(r)

\* No dialog visits: on to the turn.
SeesNoDialog(r) ==
    /\ at[r] = "dialog"
    /\ visits = 0
    /\ at' = [at EXCEPT ![r] = "turn"]
    /\ UNCHANGED <<pageVars, stopVars, planVars, todo, asking, burstVars,
                   outcome, writeVars, budget, worldVars, sinceVars>>

\* Mutant of NobodyAsks: rounds and writes do not wait for each other.
NobodyWaits == TRUE

\* The lock _asking is free.
NobodyAsks == asking = Free

\* A write or another round may have read the page, or run into a timeout.
StillDue(p) == Due(p)

\* Mutant of DialogCameBetween: a dialog is only waited for before the turn.
NoDialogNoticed == FALSE

\* A dialog began while the round waited for its turn.
DialogCameBetween == visits > 0

\* The turn: the next page is asked, skipped, or left for the next round.
TakesTurn(r) ==
    /\ at[r] = "turn"
    /\ NobodyAsks
    /\ UNCHANGED <<pageVars, stopVars, refused, burstVars, outcome, writeVars,
                   budget, worldVars, sinceVars>>
    /\ LET p == Head(todo[r])
       IN \/ /\ DialogCameBetween
             /\ UNCHANGED <<dueIn, restLeft, asking>>
             /\ RoundEnds(r)
          \/ /\ ~DialogCameBetween /\ ~StillDue(p)
             /\ UNCHANGED <<dueIn, asking>>
             /\ RoundGoesOn(r)
          \/ /\ ~DialogCameBetween /\ StillDue(p)
             /\ asking' = r
             /\ dueIn' = [dueIn EXCEPT ![p] = Interval[p]]
             /\ at' = [at EXCEPT ![r] = IF life = "on" THEN "page" ELSE "late"]
             /\ UNCHANGED <<todo, restLeft, nextIn>>

\* The page a round asks is over: whoever waits may ask.
PageOver(r) ==
    /\ asking' = Free
    /\ UNCHANGED <<burstVars, outcome, writeVars, budget, worldVars, sinceAsk>>

\* A whole page; it ends a stop.
PageComes(r) ==
    /\ at[r] = "page"
    /\ PageOver(r)
    /\ Stores(Head(todo[r]))
    /\ stopped' = NoPage /\ retryIn' = 0 /\ retryWait' = 0
    /\ notice' = (notice /\ stopped = NoPage)
    /\ UNCHANGED <<dueIn, refused, sinceTimeout>>
    /\ RoundGoesOn(r)

\* Unreachable (a timeout, an error status) or another fault of the page: the
\* third in a row stops polling, and a timeout ends the round.
PageFails(r) ==
    /\ at[r] = "page"
    /\ PageOver(r)
    /\ UNCHANGED <<order, refused>>
    /\ LET p == Head(todo[r])
       IN \E unreachable \in BOOLEAN :
          /\ failures' = [failures EXCEPT ![p] = Least(@ + 1, FailuresToStop)]
          /\ sinceTimeout' = IF unreachable THEN 0 ELSE sinceTimeout
          /\ IF failures[p] + 1 >= FailuresToStop
             THEN Stops(p)
             ELSE UNCHANGED <<hasValues, dueIn, stopVars>>
          /\ IF unreachable \/ failures[p] + 1 >= FailuresToStop
             THEN RoundEndsEarly(r)
             ELSE RoundGoesOn(r)

\* LoginRefused: polling ends until the reauth reloads the entry.
PageLoginRefused(r) ==
    /\ at[r] = "page"
    /\ PageOver(r)
    /\ refused' = TRUE
    /\ at' = [at EXCEPT ![r] = "idle"]
    /\ todo' = [todo EXCEPT ![r] = <<>>]
    /\ UNCHANGED <<pageVars, stopVars, dueIn, restLeft, nextIn, sinceTimeout>>

\* Closed: the entry unloads.
PageClosed(r) ==
    /\ life # "on"
    /\ at[r] \in {"page", "late"}
    /\ PageOver(r)
    /\ UNCHANGED <<pageVars, stopVars, dueIn, refused, sinceTimeout>>
    /\ RoundEndsEarly(r)

----
\* Requests for a write, and the debounce timer.

\* _refuse_write.
MayWrite ==
    /\ stopped = NoPage
    /\ ~refused
    /\ AllowsWrite(budget, Limit, today)

\* set_power_limit: the request joins the burst that waits, or begins one.
Ask(t) ==
    /\ life = "on"
    /\ asks < MaxAsks
    /\ MayWrite
    /\ asks' = asks + 1
    /\ LET b == IF burst = 0 THEN asks + 1 ELSE burst
       IN /\ burst' = b
          /\ target' = [target EXCEPT ![b] = t]
          /\ outcome' = [outcome EXCEPT ![b] = IF burst = 0 THEN "pending" ELSE @]
          /\ quietFor' = b
    /\ quiet' = Debounce
    /\ sinceAsk' = 0
    /\ budget' = RollDay(budget, today)
    /\ UNCHANGED <<pageVars, stopVars, planVars, roundVars, asking, writeVars,
                   held, life, panels, visits, today, sinceTimeout>>

\* _start_write: the requests have settled.
QuietOver ==
    /\ quiet = 0
    /\ quiet' = Never
    /\ quietFor' = 0
    /\ \E w \in Asks :
        /\ write[w] = "none"
        /\ \A v \in Asks : v < w => write[v] # "none"
        /\ write' = [write EXCEPT ![w] = "turn"]
        /\ writes' = [writes EXCEPT ![w] = quietFor]
    /\ UNCHANGED <<pageVars, stopVars, planVars, roundVars, asking, burst,
                   target, outcome, goal, budget, worldVars, sinceVars>>

----
\* A write (_write, webif/setting.py), from its turn to its outcome. One that
\* runs while the entry unloads may end as any other: the client lets only the
\* request that is out end so, the model also the ones after it.

\* What nobody refers to any more does not tell states apart.
Forgotten(w) ==
    /\ writes' = [writes EXCEPT ![w] = 0]
    /\ goal' = [goal EXCEPT ![w] = NoTarget]

WriteEnds(w, end) ==
    /\ write' = [write EXCEPT ![w] = "over"]
    /\ outcome' = [outcome EXCEPT ![writes[w]] = end]
    /\ Forgotten(w)
    /\ target' = [target EXCEPT ![writes[w]] = NoTarget]
    /\ UNCHANGED <<quiet, quietFor>>

\* The write ends without a word on its burst's outcome.
WriteIsNeedless(w) ==
    /\ write' = [write EXCEPT ![w] = "over"]
    /\ Forgotten(w)
    /\ UNCHANGED <<outcome, asking, budget>>

\* Mutant of HandedOn: the write does not look at the timer.
NotHandedOn(w) == FALSE

\* A request restarted the quiet time after this write was started for it.
HandedOn(w) == burst = writes[w] /\ quiet # Never

\* Mutant of BurstLeft: requests made while the write runs still join it.
BurstStays(w) == burst

\* From its turn on, new requests wait for a write of their own.
BurstLeft(w) == IF burst = writes[w] THEN 0 ELSE burst

\* Written by an earlier write started for the burst, or called off.
Settled(w) == outcome[writes[w]] # "pending"

\* Mutant of MayStillWrite: refused only where it is asked for.
MayWriteAsAsked == TRUE

\* What forbids a write is asked again once it has its turn.
MayStillWrite == MayWrite

WriteTakesTurn(w) ==
    /\ write[w] = "turn"
    /\ NobodyAsks
    /\ \/ /\ HandedOn(w)
          /\ WriteIsNeedless(w)
          /\ UNCHANGED burstVars
       \/ /\ ~HandedOn(w) /\ Settled(w)
          /\ burst' = BurstLeft(w)
          /\ WriteIsNeedless(w)
          /\ UNCHANGED <<target, quiet, quietFor>>
       \/ /\ ~HandedOn(w) /\ ~Settled(w) /\ ~MayStillWrite
          /\ burst' = BurstLeft(w)
          /\ WriteEnds(w, "refused")
          /\ budget' = RollDay(budget, today)
          /\ UNCHANGED asking
       \/ /\ ~HandedOn(w) /\ ~Settled(w) /\ MayStillWrite
          /\ burst' = BurstLeft(w)
          /\ asking' = w
          /\ write' = [write EXCEPT ![w] = "reads"]
          /\ goal' = [goal EXCEPT ![w] = target[writes[w]]]
          /\ budget' = RollDay(budget, today)
          /\ UNCHANGED <<writes, target, quiet, quietFor, outcome>>
    /\ UNCHANGED <<pageVars, stopVars, planVars, roundVars, worldVars, sinceVars>>

\* The write's lock is handed back as it ends.
WriteOver(w, end) ==
    /\ asking' = Free
    /\ WriteEnds(w, end)
    /\ UNCHANGED <<burst, stopVars, roundVars, life, asks, panels, visits,
                   today, sinceAsk>>

\* _publish: the heating page as the write read it, and a new plan.
Publishes ==
    /\ Stores(Heating)
    /\ dueIn' = [dueIn EXCEPT ![Heating] = Interval[Heating]]
    /\ UNCHANGED <<restLeft, refused, sinceTimeout>>

\* The controller shows the target before anything is saved.
ShownAlready(w) ==
    /\ write[w] = "reads"
    /\ held = goal[w]
    /\ WriteOver(w, "written")
    /\ Publishes
    /\ PlansNextRound
    /\ UNCHANGED <<held, budget>>

\* The heating page shows another value, and the form fits it.
FormRead(w) ==
    /\ write[w] = "reads"
    /\ held # goal[w]
    /\ write' = [write EXCEPT ![w] = "save"]
    /\ UNCHANGED <<pageVars, stopVars, planVars, roundVars, asking, burstVars,
                   outcome, writes, goal, budget, worldVars, sinceVars>>

\* _after_failed_write by what the failure was caused by: a timeout makes the
\* rounds rest, a refused login ends them.
Causes == {"timeout", "login", "other"}
AfterFailure(cause) ==
    /\ IF cause = "timeout"
       THEN Rests /\ sinceTimeout' = 0
       ELSE UNCHANGED <<restLeft, sinceTimeout>>
    /\ refused' = (refused \/ cause = "login")
    /\ UNCHANGED <<pageVars, nextIn>>

\* Nothing was sent: a page or the form did not come or does not fit, the
\* login was refused, or the client closed.
WriteNotSent(w) ==
    /\ write[w] \in {"reads", "save"}
    /\ \E cause \in Causes :
        /\ write[w] = "save" => cause = "other"
        /\ AfterFailure(cause)
    /\ WriteOver(w, "failed")
    /\ UNCHANGED <<dueIn, held, budget>>

\* Client.save: the POST goes out and is counted.
SaveGoesOut(w) ==
    /\ write[w] = "save"
    /\ life = "on"
    /\ write' = [write EXCEPT ![w] = "posted"]
    /\ budget' = Recorded(budget, today)
    /\ UNCHANGED <<pageVars, stopVars, planVars, roundVars, asking, burstVars,
                   outcome, writes, goal, worldVars, sinceVars>>

SaveAnswered(w) ==
    /\ write[w] = "posted"
    /\ held' = goal[w]
    /\ write' = [write EXCEPT ![w] = "readback"]
    /\ UNCHANGED <<pageVars, stopVars, planVars, roundVars, asking, burstVars,
                   outcome, writes, goal, budget, life, asks, panels, visits,
                   today, sinceVars>>

\* NotSaved: the session was gone. Nothing was stored, and nothing is asked.
SaveRejected(w) ==
    /\ write[w] = "posted"
    /\ AfterFailure("other")
    /\ WriteOver(w, "failed")
    /\ UNCHANGED <<dueIn, held, budget>>

\* MaybeSaved: the next round asks what the controller holds.
SaveUnclear(w) ==
    /\ write[w] = "posted"
    /\ held' \in {held, goal[w]}
    /\ \E cause \in {"timeout", "other"} : AfterFailure(cause)
    /\ dueIn' = [dueIn EXCEPT ![Heating] = 0]
    /\ WriteOver(w, "maybe")
    /\ UNCHANGED budget

\* Read back: the target, or another value (OtherValueShown).
ReadBack(w) ==
    /\ write[w] = "readback"
    /\ WriteOver(w, IF held = goal[w] THEN "written" ELSE "failed")
    /\ Publishes
    /\ PlansNextRound
    /\ UNCHANGED <<held, budget>>

\* NotReadBack, whatever the reason: the next round asks.
NotReadBack(w) ==
    /\ write[w] = "readback"
    /\ \E cause \in Causes : AfterFailure(cause)
    /\ dueIn' = [dueIn EXCEPT ![Heating] = 0]
    /\ WriteOver(w, "maybe")
    /\ UNCHANGED <<held, budget>>

\* A fault of this code or of a library once the save is counted: told as a
\* failure, and the next round asks what the controller holds. Before the save
\* a fault ends the write as WriteNotSent does.
CountedWriteFaults(w) ==
    /\ write[w] \in {"posted", "readback"}
    /\ held' \in IF write[w] = "posted" THEN {held, goal[w]} ELSE {held}
    /\ dueIn' = [dueIn EXCEPT ![Heating] = 0]
    /\ WriteOver(w, "failed")
    /\ UNCHANGED <<pageVars, restLeft, refused, nextIn, sinceTimeout, budget>>

----
\* Dialogs, the unload, and the world.

VisitBegins ==
    /\ visits < MaxVisits
    /\ visits' = visits + 1
    /\ UNCHANGED <<pageVars, stopVars, planVars, roundVars, asking, burstVars,
                   outcome, writeVars, budget, held, life, asks, panels, today,
                   sinceVars>>

VisitEnds ==
    /\ visits > 0
    /\ visits' = visits - 1
    /\ UNCHANGED <<pageVars, stopVars, planVars, roundVars, asking, burstVars,
                   outcome, writeVars, budget, held, life, asks, panels, today,
                   sinceVars>>

\* Mutant of CallOff: the burst that waits is forgotten with its timer.
ForgetBurst == UNCHANGED outcome

\* The burst that waits is called off.
CallOff ==
    outcome' = IF burst = 0 THEN outcome ELSE [outcome EXCEPT ![burst] = "closed"]

\* async_unload_entry: the timers go, the stop's notice goes, and the client is
\* closed; a request that is out ends first.
Unload ==
    /\ life = "on"
    /\ life' = "closing"
    /\ nextIn' = Never
    /\ quiet' = Never /\ quietFor' = 0
    /\ CallOff
    /\ burst' = 0
    /\ notice' = FALSE
    /\ UNCHANGED <<pageVars, stopped, retryIn, retryWait, dueIn, restLeft,
                   refused, roundVars, asking, target, writeVars,
                   budget, held, asks, panels, visits, today, sinceVars>>

\* _cut_off: a save that may have gone out is not called off.
CutOff(b) ==
    IF \E w \in Asks : writes[w] = b /\ write[w] \in {"posted", "readback"}
    THEN "maybe" ELSE "closed"

\* The client is closed; Home Assistant cancels the entry's tasks that still
\* run, wherever they wait.
Unloaded ==
    /\ life = "closing"
    /\ life' = "gone"
    /\ at' = [r \in Rounds |-> "idle"]
    /\ todo' = [r \in Rounds |-> <<>>]
    /\ asking' = Free
    /\ outcome' = [b \in Asks |->
         IF outcome[b] = "pending" /\ \E w \in Asks : writes[w] = b
         THEN CutOff(b) ELSE outcome[b]]
    /\ write' = [w \in Asks |-> IF write[w] = "none" THEN "none" ELSE "over"]
    /\ held' \in {held} \cup {goal[w] : w \in {v \in Asks : write[v] = "posted"}}
    /\ UNCHANGED <<pageVars, stopVars, planVars, burstVars, writes, goal, budget,
                   asks, panels, visits, today, sinceVars>>

PanelChange(t) ==
    /\ panels < MaxPanel /\ t # held
    /\ panels' = panels + 1
    /\ held' = t
    /\ UNCHANGED <<pageVars, stopVars, planVars, roundVars, asking, burstVars,
                   outcome, writeVars, budget, life, asks, visits, today, sinceVars>>

Midnight ==
    /\ today < MaxDay
    /\ today' = today + 1
    /\ UNCHANGED <<pageVars, stopVars, planVars, roundVars, asking, burstVars,
                   outcome, writeVars, budget, held, life, asks, panels, visits,
                   sinceVars>>

Down(ticks) == IF ticks > 0 THEN ticks - 1 ELSE ticks

Tick ==
    /\ life = "on"
    /\ dueIn' = [p \in Pages |-> Down(dueIn[p])]
    /\ restLeft' = Down(restLeft)
    /\ retryIn' = Down(retryIn)
    /\ nextIn' = Down(nextIn)
    /\ quiet' = Down(quiet)
    /\ sinceTimeout' = Least(sinceTimeout + 1, ShortestInterval)
    /\ sinceAsk' = Least(sinceAsk + 1, Debounce)
    /\ UNCHANGED <<pageVars, stopped, retryWait, notice, refused, roundVars,
                   asking, burst, quietFor, target, outcome, writeVars, budget,
                   worldVars>>

Round(r) ==
    \/ PlannedRound(r) \/ RoundByHand(r) \/ SeesNoDialog(r) \/ TakesTurn(r)
    \/ PageComes(r) \/ PageFails(r) \/ PageLoginRefused(r) \/ PageClosed(r)

Write(w) ==
    \/ WriteTakesTurn(w) \/ ShownAlready(w) \/ FormRead(w) \/ WriteNotSent(w)
    \/ SaveGoesOut(w) \/ SaveAnswered(w) \/ SaveRejected(w) \/ SaveUnclear(w)
    \/ ReadBack(w) \/ NotReadBack(w) \/ CountedWriteFaults(w)

Next ==
    \/ \E r \in Rounds : Round(r)
    \/ \E w \in Asks : Write(w)
    \/ \E t \in Targets : Ask(t) \/ PanelChange(t)
    \/ QuietOver
    \/ VisitBegins \/ VisitEnds \/ Unload \/ Unloaded \/ Midnight \/ Tick

Spec == Init /\ [][Next]_vars

\* The timers run, a page and a write end within the client's time limits, the
\* lock is handed on in the order of arrival, and dialogs end.
Fairness ==
    /\ WF_vars(Tick) /\ WF_vars(QuietOver) /\ WF_vars(VisitEnds)
    /\ WF_vars(Unloaded)
    /\ \A r \in Rounds :
        /\ WF_vars(PlannedRound(r)) /\ SF_vars(SeesNoDialog(r))
        /\ SF_vars(TakesTurn(r))
        /\ WF_vars(PageComes(r) \/ PageFails(r) \/ PageLoginRefused(r) \/ PageClosed(r))
    /\ \A w \in Asks :
        /\ SF_vars(WriteTakesTurn(w))
        /\ WF_vars(ShownAlready(w) \/ FormRead(w) \/ WriteNotSent(w)
                   \/ SaveGoesOut(w) \/ SaveAnswered(w) \/ SaveRejected(w)
                   \/ SaveUnclear(w) \/ ReadBack(w) \/ NotReadBack(w)
                   \/ CountedWriteFaults(w))

FairSpec == Spec /\ Fairness

----
\* Properties.

Outcomes == {"none", "pending", "written", "failed", "maybe", "refused", "closed"}
LongestWait == Greatest(Greatest(FirstRetry, ShortestInterval), LongestRetry)

\* Every variable has its type.
TypeOK ==
    /\ hasValues \in [Pages -> BOOLEAN]
    /\ failures \in [Pages -> 0..FailuresToStop]
    /\ \A p \in Pages : dueIn[p] \in 0..Interval[p]
    /\ order \in Seq(Pages) /\ Len(order) = Len(PageOrder)
    /\ \A p \in Pages : \E n \in DOMAIN order : order[n] = p
    /\ stopped \in Pages \cup {NoPage}
    /\ {retryIn, retryWait} \subseteq 0..LongestWait
    /\ restLeft \in 0..ShortestInterval /\ sinceTimeout \in 0..ShortestInterval
    /\ {refused, notice} \subseteq BOOLEAN
    /\ nextIn \in Nat \cup {Never}
    /\ at \in [Rounds -> {"idle", "dialog", "turn", "page", "late"}]
    /\ todo \in [Rounds -> Seq(Pages)]
    /\ asking \in Rounds \cup Asks \cup {Free}
    /\ visits \in 0..MaxVisits
    /\ burst \in 0..MaxAsks /\ quietFor \in 0..MaxAsks
    /\ quiet \in 0..Debounce \cup {Never} /\ sinceAsk \in 0..Debounce
    /\ target \in [Asks -> Targets] /\ goal \in [Asks -> Targets]
    /\ outcome \in [Asks -> Outcomes]
    /\ write \in [Asks -> {"none", "turn", "reads", "save", "posted", "readback",
                           "over"}]
    /\ writes \in [Asks -> 0..MaxAsks]
    /\ budget \in Budgets
    /\ today \in 0..MaxDay
    /\ held \in Targets
    /\ life \in {"on", "closing", "gone"}
    /\ asks \in 0..MaxAsks /\ panels \in 0..MaxPanel

\* While polling is stopped no page shows values from before the stop, whatever
\* rounds and writes were under way when it came (_stop, _refuse_write).
StoppedShowsNothing ==
    stopped # NoPage => \A p \in Pages : ~ShowsValues(p)

\* A round asks no page before the shortest interval is over since a request
\* ran into a timeout, in a round or in a write, and none while a dialog of the
\* entry is on a visit - also when either came while the round waited for its
\* turn (_rest, dialog_visiting, _round).
RoundsKeepOff ==
    [][\A r \in Rounds : at[r] # "page" /\ at'[r] = "page" =>
         sinceTimeout = ShortestInterval /\ visits = 0]_vars

\* Never two rounds, two writes, or a round and a write ask at once (_asking).
OneAsksAtATime ==
    Cardinality({r \in Rounds : at[r] \in {"page", "late"}}
                \cup {w \in Asks : write[w] \in {"reads", "save", "posted", "readback"}}) <= 1

\* A write begins only after the quiet time since the last request, whichever
\* write was started before it came (set_power_limit, _write).
QuietIsKept ==
    [][\A w \in Asks : write[w] = "turn" /\ write'[w] = "reads" =>
         sinceAsk = Debounce]_vars

\* What callers see of the bursts and the writes: the last target of a burst that
\* waits for its outcome, whose write has its turn, and whether its save is out.
Wanted == [b \in Asks |-> IF outcome[b] = "pending" THEN target[b] ELSE NoTarget]
HasTurn ==
    {writes[w] : w \in {v \in Asks : write[v] \in {"reads", "save", "posted", "readback"}}}
SaveOut == \E w \in Asks : write[w] \in {"posted", "readback"}

Requests == INSTANCE WriteRequests
    WITH wanted <- Wanted, told <- outcome, turn <- HasTurn, sent <- SaveOut

\* Bursts and writes implement what set_power_limit promises its callers: one
\* answer for all who joined, one turn and one save at most, of the last target,
\* also when several writes were started for one burst, and neither a refusal nor
\* an unload after something was sent (_Burst, _write, async_shutdown).
BurstsKeepTheirWord == Requests!Spec

\* However requests, writes and midnight fall, no more saves than the limit
\* reach the EEPROM in a day (allows_write asked again in turn).
DailyLimitHolds ==
    Limit > 0 /\ budget.day = today => budget.today <= Limit

\* Nothing is forgotten: every burst is told its outcome, also when the entry
\* unloads, and every page is asked again and again unless polling is stopped by
\* another, the login is refused or the entry unloads (_plan_next_round, _due).
NothingIsForgotten ==
    /\ \A b \in Asks : outcome[b] = "pending" ~> outcome[b] # "pending"
    /\ \A p \in Pages : []<>(\/ \E r \in Rounds : at[r] = "page" /\ Head(todo[r]) = p
                             \/ stopped \notin {NoPage, p} \/ refused \/ life # "on")

\* async_shutdown takes the stop's notice along: none names an entry that is
\* unloaded (webif_coordinator.py:418).
NoNoticeOfAnUnloadedEntry == life = "gone" => ~notice
====
