---- MODULE WebifCoordinator_proofs ----
\* Proofs about the web interface's coordinator, for any pages, rounds, waits,
\* targets and limit: who asks, the stop, the rest, the quiet time, outcomes,
\* the daily limit and types.
EXTENDS WebifCoordinator, WriteBudget_proofs, WellFoundedInduction, FiniteSetTheorems,
        SequenceTheorems

----
\* The least of some numbers, and the shortest interval.

LEMMA LeastOf ==
  ASSUME NEW S, S \subseteq Nat, S # {}
  PROVE  \E s \in S : \A t \in S : s <= t
  <1>1. PICK s \in S : \A t \in S : <<t, s>> \notin OpToRel(<, Nat)
    BY WFMin, NatLessThanWellFounded, Zenon
  <1>2. ASSUME NEW t \in S PROVE s <= t
    <2>1. t \in Nat /\ s \in Nat
      OBVIOUS
    <2>2. ~(t < s)
      BY <1>1, <2>1, Zenon DEF OpToRel
    <2> QED
      BY <2>1, <2>2
  <1> QED
    BY <1>2

LEMMA ShortestType == ShortestInterval \in Nat /\ ShortestInterval > 0
  <1> DEFINE S == {Interval[p] : p \in Pages}
  <1>1. S \subseteq Nat \ {0} /\ S # {}
    BY CoordinatorAssumption
  <1>2. PICK s \in S : \A t \in S : s <= t
    <2>1. S \subseteq Nat
      BY <1>1
    <2> HIDE DEF S
    <2> QED
      BY <1>1, <2>1, LeastOf
  <1>3. s \in S /\ \A p \in Pages : s <= Interval[p]
    BY <1>2
  <1>4. ShortestInterval \in S
    BY <1>3 DEF ShortestInterval
  <1> QED
    BY <1>1, <1>4

----
\* Types, as far as the proofs need them.

Places == {"idle", "dialog", "turn", "page", "late"}
Steps == {"none", "turn", "reads", "save", "posted", "readback", "over"}
AtPage == {"page", "late"}
InTurn == {"reads", "save", "posted", "readback"}

Types ==
    /\ hasValues \in [Pages -> BOOLEAN]
    /\ restLeft \in Nat /\ sinceTimeout \in 0..ShortestInterval
    /\ at \in [Rounds -> Places]
    /\ asking \in Rounds \cup Asks \cup {Free}
    /\ visits \in Nat
    /\ asks \in 0..MaxAsks
    /\ burst \in 0..asks
    /\ quiet \in Nat \cup {Never} /\ sinceAsk \in 0..Debounce
    /\ target \in [Asks -> Targets] /\ goal \in [Asks -> Targets]
    /\ outcome \in [Asks -> Outcomes]
    /\ write \in [Asks -> Steps]
    /\ writes \in [Asks -> 0..MaxAsks]
    /\ budget \in Budgets /\ today \in Nat
    /\ held \in Targets

----
\* What a step of a round does.

KeepsWrites ==
    UNCHANGED <<burstVars, outcome, writeVars, budget, life, asks, today, sinceAsk>>

\* The round that steps: before and after its turn, into it, or out of it.
RoundMoves(r) ==
    \/ /\ at[r] \notin AtPage /\ at'[r] \notin AtPage
       /\ asking' = asking
    \/ /\ at[r] \notin AtPage /\ at'[r] \in AtPage
       /\ asking = Free /\ asking' = r
       /\ restLeft = 0 /\ visits = 0
    \/ /\ at[r] \in AtPage /\ at'[r] \notin AtPage
       /\ asking' = Free

\* What it does to the values and the stop.
RoundShows(r) ==
    \/ UNCHANGED <<hasValues, stopped>>
    \/ at[r] = "page" /\ stopped' = NoPage
    \/ at[r] = "page" /\ stopped = NoPage /\ hasValues' = [p \in Pages |-> FALSE]
    \/ at[r] = "page" /\ stopped # NoPage /\ hasValues' = hasValues

\* What it does to the rest after a timeout.
RestMoves ==
    \/ UNCHANGED <<restLeft, sinceTimeout>>
    \/ restLeft' = ShortestInterval /\ sinceTimeout' \in {0, sinceTimeout}

RoundFrame(r) ==
    /\ KeepsWrites
    /\ UNCHANGED <<visits, held>>
    /\ at' \in [Rounds -> Places]
    /\ \A q \in Rounds \ {r} : at'[q] = at[q]
    /\ hasValues' \in [Pages -> BOOLEAN]
    /\ RoundMoves(r) /\ RoundShows(r) /\ RestMoves

LEMMA EndsFacts ==
  ASSUME Types, NEW r \in Rounds, RoundEnds(r)
  PROVE  /\ at' \in [Rounds -> Places] /\ at'[r] = "idle"
         /\ \A q \in Rounds \ {r} : at'[q] = at[q]
  BY DEF Types, RoundEnds, Places

LEMMA GoesOnFacts ==
  ASSUME Types, NEW r \in Rounds, RoundGoesOn(r)
  PROVE  /\ at' \in [Rounds -> Places] /\ at'[r] \in {"idle", "dialog"}
         /\ \A q \in Rounds \ {r} : at'[q] = at[q]
         /\ restLeft' = restLeft
  <1>1. CASE Len(todo[r]) > 1
    BY <1>1 DEF Types, RoundGoesOn, Places
  <1>2. CASE ~(Len(todo[r]) > 1)
    BY <1>2, EndsFacts DEF RoundGoesOn
  <1> QED
    BY <1>1, <1>2

LEMMA StartFacts ==
  ASSUME Types, NEW r \in Rounds, StartRound(r)
  PROVE  RoundFrame(r)
  <1>1. /\ KeepsWrites /\ UNCHANGED <<visits, held, hasValues, stopped, asking>>
        /\ UNCHANGED <<restLeft, sinceTimeout>> /\ at[r] = "idle"
    BY DEF StartRound, KeepsWrites, pageVars, stopVars, burstVars, writeVars,
           worldVars, sinceVars
  <1>2. /\ at' \in [Rounds -> Places] /\ at'[r] \in {"idle", "dialog"}
        /\ \A q \in Rounds \ {r} : at'[q] = at[q]
    <2>1. CASE refused
      BY <1>1, <2>1 DEF StartRound, Types
    <2>2. CASE ~refused /\ DuePages = <<>>
      BY <2>2, EndsFacts DEF StartRound
    <2>3. CASE ~refused /\ DuePages # <<>>
      BY <2>3 DEF StartRound, Types, Places
    <2> QED
      BY <2>1, <2>2, <2>3
  <1> QED
    BY <1>1, <1>2 DEF RoundFrame, RoundMoves, RoundShows, RestMoves, AtPage, Types

LEMMA SeesFacts ==
  ASSUME Types, NEW r \in Rounds, SeesNoDialog(r)
  PROVE  RoundFrame(r)
  <1>1. /\ KeepsWrites /\ UNCHANGED <<visits, held, hasValues, stopped, asking>>
        /\ UNCHANGED <<restLeft, sinceTimeout>> /\ at[r] = "dialog"
    BY DEF SeesNoDialog, KeepsWrites, pageVars, stopVars, planVars, burstVars,
           writeVars, worldVars, sinceVars
  <1>2. /\ at' \in [Rounds -> Places] /\ at'[r] = "turn"
        /\ \A q \in Rounds \ {r} : at'[q] = at[q]
    BY DEF SeesNoDialog, Types, Places
  <1> QED
    BY <1>1, <1>2 DEF RoundFrame, RoundMoves, RoundShows, RestMoves, AtPage, Types

LEMMA TurnFacts ==
  ASSUME Types, NEW r \in Rounds, TakesTurn(r)
  PROVE  RoundFrame(r)
  <1> DEFINE p == Head(todo[r])
  <1>1. /\ KeepsWrites /\ UNCHANGED <<visits, held, hasValues, stopped>>
        /\ UNCHANGED sinceTimeout /\ at[r] = "turn" /\ asking = Free
    BY DEF TakesTurn, NobodyAsks, KeepsWrites, pageVars, stopVars, burstVars,
           writeVars, worldVars, sinceVars
  <1>2. CASE DialogCameBetween /\ UNCHANGED <<dueIn, restLeft, asking>> /\ RoundEnds(r)
    BY <1>1, <1>2, EndsFacts
       DEF RoundFrame, RoundMoves, RoundShows, RestMoves, AtPage, Types
  <1>3. CASE ~DialogCameBetween /\ UNCHANGED <<dueIn, asking>> /\ RoundGoesOn(r)
    BY <1>1, <1>3, GoesOnFacts
       DEF RoundFrame, RoundMoves, RoundShows, RestMoves, AtPage, Types
  <1>4. CASE /\ ~DialogCameBetween /\ StillDue(p)
             /\ asking' = r
             /\ at' = [at EXCEPT ![r] = IF life = "on" THEN "page" ELSE "late"]
             /\ UNCHANGED <<todo, restLeft, nextIn>>
    <2>1. /\ at' \in [Rounds -> Places] /\ at'[r] \in AtPage
          /\ \A q \in Rounds \ {r} : at'[q] = at[q]
      BY <1>4 DEF Types, Places, AtPage
    <2>2. restLeft = 0 /\ visits = 0
      BY <1>4 DEF StillDue, Due, DialogCameBetween, Types
    <2> QED
      BY <1>1, <1>4, <2>1, <2>2
         DEF RoundFrame, RoundMoves, RoundShows, RestMoves, AtPage, Types
  <1> QED
    BY <1>2, <1>3, <1>4 DEF TakesTurn

LEMMA PageEndFacts ==
  ASSUME Types, NEW r \in Rounds,
         PageComes(r) \/ PageFails(r) \/ PageLoginRefused(r) \/ PageClosed(r)
  PROVE  RoundFrame(r)
  <1>1. /\ KeepsWrites /\ UNCHANGED <<visits, held>>
        /\ at[r] \in AtPage /\ asking' = Free
    BY DEF PageComes, PageFails, PageLoginRefused, PageClosed, PageOver,
           KeepsWrites, burstVars, writeVars, worldVars, AtPage
  <1>2. CASE PageComes(r)
    <2>1. hasValues' \in [Pages -> BOOLEAN] /\ stopped' = NoPage /\ at[r] = "page"
      BY <1>2 DEF PageComes, Stores, Types
    <2>2. /\ at' \in [Rounds -> Places] /\ at'[r] \in {"idle", "dialog"}
          /\ \A q \in Rounds \ {r} : at'[q] = at[q]
          /\ UNCHANGED <<restLeft, sinceTimeout>>
      BY <1>2, GoesOnFacts DEF PageComes
    <2> QED
      BY <1>1, <2>1, <2>2 DEF RoundFrame, RoundMoves, RoundShows, RestMoves, AtPage
  <1>3. CASE PageFails(r)
    <2> DEFINE p == Head(todo[r])
    <2>1. at[r] = "page"
      BY <1>3 DEF PageFails
    <2>2. PICK unreachable \in BOOLEAN :
            /\ sinceTimeout' = IF unreachable THEN 0 ELSE sinceTimeout
            /\ IF failures[p] + 1 >= FailuresToStop
               THEN Stops(p)
               ELSE UNCHANGED <<hasValues, dueIn, stopVars>>
            /\ IF unreachable \/ failures[p] + 1 >= FailuresToStop
               THEN RoundEndsEarly(r)
               ELSE RoundGoesOn(r)
      BY <1>3 DEF PageFails
    <2>3. hasValues' \in [Pages -> BOOLEAN] /\ RoundShows(r)
      <3>1. CASE Stops(p)
        BY <2>1, <3>1 DEF Stops, RoundShows, Types
      <3>2. CASE UNCHANGED <<hasValues, dueIn, stopVars>>
        BY <3>2 DEF RoundShows, Types, stopVars
      <3> QED
        BY <2>2, <3>1, <3>2
    <2>4. /\ at' \in [Rounds -> Places] /\ at'[r] \in {"idle", "dialog"}
          /\ \A q \in Rounds \ {r} : at'[q] = at[q]
          /\ RestMoves
      <3>1. CASE unreachable \/ failures[p] + 1 >= FailuresToStop
        <4>1. RoundEnds(r) /\ restLeft' = ShortestInterval
          BY <2>2, <3>1 DEF RoundEndsEarly, Rests
        <4> QED
          BY <2>2, <4>1, EndsFacts DEF RestMoves
      <3>2. CASE ~(unreachable \/ failures[p] + 1 >= FailuresToStop)
        BY <2>2, <3>2, GoesOnFacts DEF RestMoves
      <3> QED
        BY <3>1, <3>2
    <2> QED
      BY <1>1, <2>3, <2>4 DEF RoundFrame, RoundMoves, AtPage
  <1>4. CASE PageLoginRefused(r)
    <2>1. /\ at' \in [Rounds -> Places] /\ at'[r] = "idle"
          /\ \A q \in Rounds \ {r} : at'[q] = at[q]
          /\ UNCHANGED <<restLeft, sinceTimeout, hasValues, stopped>>
      BY <1>4 DEF PageLoginRefused, Types, Places, pageVars, stopVars
    <2> QED
      BY <1>1, <2>1 DEF RoundFrame, RoundMoves, RoundShows, RestMoves, AtPage, Types
  <1>5. CASE PageClosed(r)
    <2>1. /\ RoundEnds(r) /\ restLeft' = ShortestInterval
          /\ UNCHANGED <<sinceTimeout, hasValues, stopped>>
      BY <1>5 DEF PageClosed, RoundEndsEarly, Rests, pageVars, stopVars
    <2> QED
      BY <1>1, <2>1, EndsFacts
         DEF RoundFrame, RoundMoves, RoundShows, RestMoves, AtPage, Types
  <1> QED
    BY <1>2, <1>3, <1>4, <1>5

LEMMA RoundFacts ==
  ASSUME Types, NEW r \in Rounds, Round(r) PROVE RoundFrame(r)
  BY StartFacts, SeesFacts, TurnFacts, PageEndFacts
     DEF Round, PlannedRound, RoundByHand

----
\* What a step of a write does: it is needless in its turn, it is refused
\* there, it takes its turn, it goes on, or it ends.

Finals == {"written", "failed", "maybe", "refused", "closed"}

Needless(w) ==
    /\ write[w] = "turn" /\ asking = Free
    /\ write' = [write EXCEPT ![w] = "over"]
    /\ Forgotten(w)
    /\ UNCHANGED <<outcome, asking, budget, target>>
    /\ \/ burst' = burst
       \/ Settled(w) /\ burst' = BurstLeft(w)

RefusedThere(w) ==
    /\ write[w] = "turn" /\ asking = Free
    /\ ~HandedOn(w) /\ ~Settled(w)
    /\ burst' = BurstLeft(w)
    /\ WriteEnds(w, "refused")
    /\ budget' = RollDay(budget, today)
    /\ UNCHANGED asking

TakesIt(w) ==
    /\ write[w] = "turn" /\ asking = Free
    /\ ~HandedOn(w) /\ ~Settled(w) /\ MayWrite
    /\ burst' = BurstLeft(w)
    /\ asking' = w
    /\ write' = [write EXCEPT ![w] = "reads"]
    /\ goal' = [goal EXCEPT ![w] = target[writes[w]]]
    /\ budget' = RollDay(budget, today)
    /\ UNCHANGED <<writes, target, outcome>>

WriteMoves(w) ==
    /\ write[w] \in InTurn /\ write'[w] \in InTurn
    /\ \E s \in InTurn : write' = [write EXCEPT ![w] = s]
    /\ UNCHANGED <<asking, burst, target, outcome, writes, goal>>
    /\ \/ budget' = budget /\ (write'[w] \in {"reads", "save"} => write[w] = "reads")
       \/ write[w] = "save" /\ write'[w] = "posted" /\ budget' = Recorded(budget, today)

Ends(w) ==
    /\ write[w] \in InTurn
    /\ asking' = Free
    /\ \E end \in Finals :
        /\ WriteEnds(w, end)
        /\ end = "written" => held' = goal[w]
    /\ UNCHANGED <<burst, budget>>

\* What a write does to the values and the rest.
WriteShows(w) ==
    \/ UNCHANGED hasValues
    \/ write[w] \in InTurn /\ hasValues' \in [Pages -> BOOLEAN]

WriteFrame(w) ==
    /\ UNCHANGED <<stopped, at, visits, life, asks, today, quiet, quietFor, sinceAsk>>
    /\ held' \in Targets
    /\ WriteShows(w) /\ RestMoves
    /\ Needless(w) \/ RefusedThere(w) \/ TakesIt(w) \/ WriteMoves(w) \/ Ends(w)

LEMMA WriteTurnFacts ==
  ASSUME Types, NEW w \in Asks, WriteTakesTurn(w)
  PROVE  WriteFrame(w)
  <1>1. /\ UNCHANGED <<stopped, at, visits, life, asks, today, sinceAsk, held, hasValues,
                       restLeft, sinceTimeout>>
        /\ write[w] = "turn" /\ asking = Free
    BY DEF WriteTakesTurn, NobodyAsks, pageVars, stopVars, planVars, roundVars,
           worldVars, sinceVars
  <1>2. /\ UNCHANGED <<quiet, quietFor>>
        /\ Needless(w) \/ RefusedThere(w) \/ TakesIt(w)
    <2>1. CASE HandedOn(w) /\ WriteIsNeedless(w) /\ UNCHANGED burstVars
      BY <1>1, <2>1 DEF Needless, WriteIsNeedless, burstVars
    <2>2. CASE /\ ~HandedOn(w) /\ Settled(w)
               /\ burst' = BurstLeft(w)
               /\ WriteIsNeedless(w)
               /\ UNCHANGED <<target, quiet, quietFor>>
      BY <1>1, <2>2 DEF Needless, WriteIsNeedless
    <2>3. CASE /\ ~HandedOn(w) /\ ~Settled(w) /\ ~MayStillWrite
               /\ burst' = BurstLeft(w)
               /\ WriteEnds(w, "refused")
               /\ budget' = RollDay(budget, today)
               /\ UNCHANGED asking
      BY <1>1, <2>3 DEF RefusedThere, WriteEnds
    <2>4. CASE /\ ~HandedOn(w) /\ ~Settled(w) /\ MayStillWrite
               /\ burst' = BurstLeft(w)
               /\ asking' = w
               /\ write' = [write EXCEPT ![w] = "reads"]
               /\ goal' = [goal EXCEPT ![w] = target[writes[w]]]
               /\ budget' = RollDay(budget, today)
               /\ UNCHANGED <<writes, target, quiet, quietFor, outcome>>
      BY <1>1, <2>4 DEF TakesIt, MayStillWrite
    <2> QED
      BY <2>1, <2>2, <2>3, <2>4 DEF WriteTakesTurn
  <1> QED
    BY <1>1, <1>2 DEF WriteFrame, WriteShows, RestMoves, Types

LEMMA WriteMovesFacts ==
  ASSUME Types, NEW w \in Asks,
         FormRead(w) \/ SaveGoesOut(w) \/ SaveAnswered(w)
  PROVE  WriteFrame(w)
  <1>1. /\ UNCHANGED <<stopped, at, visits, life, asks, today, sinceAsk, hasValues,
                       restLeft, sinceTimeout, quiet, quietFor>>
        /\ UNCHANGED <<asking, burst, target, outcome, writes, goal>>
    BY DEF FormRead, SaveGoesOut, SaveAnswered, pageVars, stopVars, planVars,
           roundVars, burstVars, worldVars, sinceVars
  <1>2. held' \in Targets
    BY DEF FormRead, SaveGoesOut, SaveAnswered, worldVars, Types
  <1>3. WriteMoves(w)
    <2>1. CASE FormRead(w)
      BY <1>1, <2>1 DEF FormRead, WriteMoves, InTurn, Types
    <2>2. CASE SaveGoesOut(w)
      BY <1>1, <2>2 DEF SaveGoesOut, WriteMoves, InTurn, Types
    <2>3. CASE SaveAnswered(w)
      BY <1>1, <2>3 DEF SaveAnswered, WriteMoves, InTurn, Types
    <2> QED
      BY <2>1, <2>2, <2>3
  <1> QED
    BY <1>1, <1>2, <1>3 DEF WriteFrame, WriteShows, RestMoves

LEMMA WriteEndFacts ==
  ASSUME Types, NEW w \in Asks,
         \/ ShownAlready(w) \/ WriteNotSent(w) \/ SaveRejected(w) \/ SaveUnclear(w)
         \/ ReadBack(w) \/ NotReadBack(w) \/ CountedWriteFaults(w)
  PROVE  WriteFrame(w)
  <1>1. PICK end \in Finals : WriteOver(w, end) /\ (end = "written" => held' = goal[w])
    BY DEF ShownAlready, WriteNotSent, SaveRejected, SaveUnclear, ReadBack,
           NotReadBack, CountedWriteFaults, Finals
  <1>2. /\ UNCHANGED <<stopped, at, visits, life, asks, today, sinceAsk, quiet, quietFor>>
        /\ UNCHANGED burst /\ asking' = Free
    BY <1>1 DEF WriteOver, WriteEnds, stopVars, roundVars
  <1>3. UNCHANGED budget /\ write[w] \in InTurn /\ held' \in Targets
    BY DEF ShownAlready, WriteNotSent, SaveRejected, SaveUnclear, ReadBack,
           NotReadBack, CountedWriteFaults, InTurn, Types
  <1>4. WriteShows(w)
    <2>1. CASE Publishes
      BY <1>3, <2>1 DEF Publishes, Stores, WriteShows, Types
    <2>2. CASE ~Publishes
      BY <2>2 DEF ShownAlready, WriteNotSent, SaveRejected, SaveUnclear, ReadBack,
         NotReadBack, CountedWriteFaults, AfterFailure, pageVars, WriteShows
    <2> QED
      BY <2>1, <2>2
  <1>5. RestMoves
    BY DEF ShownAlready, WriteNotSent, SaveRejected, SaveUnclear, ReadBack, Rests,
           NotReadBack, CountedWriteFaults, Publishes, AfterFailure, RestMoves
  <1> QED
    BY <1>1, <1>2, <1>3, <1>4, <1>5 DEF WriteFrame, Ends, WriteOver

LEMMA WriteFacts ==
  ASSUME Types, NEW w \in Asks, Write(w) PROVE WriteFrame(w)
  BY WriteTurnFacts, WriteMovesFacts, WriteEndFacts DEF Write

----
\* The inductive invariant. Whoever is at a page or writes from its turn on
\* holds the lock; polling stops under no write; the rest outlasts the time
\* since a timeout; the allowance a write has read is still there; a burst that
\* waits is pending while the entry is on, and quiet once its timer has run out;
\* and a write that holds the lock writes the last target of a burst nobody joins
\* any more.

OneHolder ==
    /\ \A r \in Rounds : at[r] \in AtPage => asking = r
    /\ \A w \in Asks : write[w] \in InTurn => asking = w

StopHolds ==
    /\ stopped # NoPage => \A p \in Pages : ~hasValues[p]
    /\ \A w \in Asks : write[w] \in InTurn => stopped = NoPage

RestHolds == restLeft + sinceTimeout >= ShortestInterval

LimitKept ==
    /\ budget.day <= today
    /\ Limit > 0 => RollDay(budget, today).today <= Limit
    /\ \A w \in Asks :
         write[w] \in {"reads", "save"} => AllowsWrite(budget, Limit, today)

Bursts ==
    /\ quiet # Never => burst # 0 /\ quietFor = burst /\ sinceAsk + quiet >= Debounce
    /\ quiet = Never /\ burst # 0 => sinceAsk = Debounce
    /\ burst # 0 => outcome[burst] = "pending" /\ life = "on"
    /\ \A b \in Asks : b > asks => outcome[b] = "none"

WriteOK(w) ==
    /\ write[w] \in InTurn \cup {"turn"} => writes[w] \in 1..asks
    /\ write[w] \in InTurn =>
         /\ outcome[writes[w]] = "pending"
         /\ goal[w] = target[writes[w]]
         /\ burst # writes[w]
    /\ write[w] = "turn" /\ outcome[writes[w]] = "pending" =>
         \/ writes[w] = burst
         \/ \E v \in Asks : write[v] \in InTurn /\ writes[v] = writes[w]

CoordInv ==
    /\ Types /\ OneHolder /\ StopHolds /\ RestHolds /\ LimitKept /\ Bursts
    /\ \A w \in Asks : WriteOK(w)

LEMMA CoordInit == Init => CoordInv
  <1> SUFFICES ASSUME Init PROVE CoordInv
    OBVIOUS
  <1>1. NoTarget \in Targets
    BY DEF Init, NoTarget
  <1>2. budget \in Budgets /\ budget.day = 0 /\ budget.today = 0
    BY DEF Init, NewBudget, Budgets
  <1>3. RollDay(budget, today) = budget
    BY <1>2 DEF Init, RollDay
  <1>4. Types
    <2>1. restLeft \in Nat /\ sinceTimeout \in 0..ShortestInterval
      BY ShortestType DEF Init
    <2>2. /\ asks \in 0..MaxAsks /\ burst \in 0..asks
          /\ quiet \in Nat \cup {Never} /\ sinceAsk \in 0..Debounce
      BY CoordinatorAssumption DEF Init, Never
    <2>3. /\ target \in [Asks -> Targets] /\ goal \in [Asks -> Targets]
          /\ outcome \in [Asks -> Outcomes] /\ write \in [Asks -> Steps]
          /\ writes \in [Asks -> 0..MaxAsks]
      BY <1>1, CoordinatorAssumption DEF Init, Outcomes, Steps
    <2> QED
      BY <1>2, <2>1, <2>2, <2>3 DEF Init, Types, Places
  <1>5. OneHolder /\ StopHolds /\ RestHolds
    BY ShortestType DEF Init, OneHolder, StopHolds, RestHolds, AtPage, InTurn
  <1>6. LimitKept
    BY <1>2, <1>3, CoordinatorAssumption DEF Init, LimitKept
  <1>7. Bursts /\ \A w \in Asks : WriteOK(w)
    BY DEF Init, Bursts, WriteOK, InTurn, Never
  <1> QED
    BY <1>4, <1>5, <1>6, <1>7 DEF CoordInv

\* A step that moves no write and no burst keeps what is said of them.
LEMMA StillKeeps ==
  ASSUME CoordInv, KeepsWrites
  PROVE  /\ LimitKept' /\ Bursts' /\ \A w \in Asks : WriteOK(w)'
         /\ \A w \in Asks : write'[w] = write[w]
         /\ asks' \in 0..MaxAsks /\ burst' \in 0..asks'
         /\ quiet' \in Nat \cup {Never} /\ sinceAsk' \in 0..Debounce
         /\ target' \in [Asks -> Targets] /\ goal' \in [Asks -> Targets]
         /\ outcome' \in [Asks -> Outcomes]
         /\ write' \in [Asks -> Steps] /\ writes' \in [Asks -> 0..MaxAsks]
         /\ budget' \in Budgets /\ today' \in Nat
  <1>1. UNCHANGED <<burst, quiet, quietFor, target, outcome, write, writes, goal,
                    budget, life, asks, today, sinceAsk>>
    BY DEF KeepsWrites, burstVars, writeVars
  <1>2. LimitKept' /\ Bursts'
    BY <1>1 DEF CoordInv, LimitKept, Bursts
  <1>3. \A w \in Asks : WriteOK(w)'
    BY <1>1 DEF CoordInv, WriteOK
  <1> QED
    BY <1>1, <1>2, <1>3 DEF CoordInv, Types

LEMMA RestStep ==
  ASSUME CoordInv, RestMoves
  PROVE  RestHolds' /\ restLeft' \in Nat /\ sinceTimeout' \in 0..ShortestInterval
  <1>1. /\ restLeft \in Nat /\ sinceTimeout \in Nat /\ sinceTimeout <= ShortestInterval
        /\ ShortestInterval \in Nat /\ restLeft + sinceTimeout >= ShortestInterval
    BY ShortestType DEF CoordInv, Types, RestHolds
  <1>2. CASE UNCHANGED <<restLeft, sinceTimeout>>
    BY <1>1, <1>2 DEF RestHolds
  <1>3. CASE restLeft' = ShortestInterval /\ sinceTimeout' \in {0, sinceTimeout}
    <2>1. /\ sinceTimeout' \in Nat /\ sinceTimeout' <= ShortestInterval
          /\ restLeft' = ShortestInterval
      BY <1>1, <1>3
    <2>2. restLeft' \in Nat /\ sinceTimeout' \in 0..ShortestInterval
      BY <1>1, <2>1
    <2>3. \A n \in Nat : ShortestInterval + n >= ShortestInterval
      BY <1>1
    <2>4. restLeft' + sinceTimeout' >= ShortestInterval
      BY <2>1, <2>3
    <2> QED
      BY <2>2, <2>4 DEF RestHolds
  <1> QED
    BY <1>2, <1>3 DEF RestMoves

LEMMA RoundStep ==
  ASSUME CoordInv, NEW r \in Rounds, Round(r)
  PROVE  CoordInv'
  <1>1. RoundFrame(r)
    BY RoundFacts DEF CoordInv
  <1>2. KeepsWrites /\ RestMoves
    BY <1>1 DEF RoundFrame
  <1>3. asking' \in Rounds \cup Asks \cup {Free}
    BY <1>1 DEF RoundFrame, RoundMoves, CoordInv, Types
  <1>4. Types'
    BY <1>1, <1>2, <1>3, StillKeeps, RestStep DEF CoordInv, Types, RoundFrame
  <1>5. OneHolder'
    <2>1. \A w \in Asks : write'[w] = write[w] /\ w # r /\ w # Free
      BY <1>2, StillKeeps, CoordinatorAssumption
    <2>2. /\ \A q \in Rounds : q # Free
          /\ \A q \in Rounds \ {r} : at'[q] = at[q]
      BY <1>1, CoordinatorAssumption DEF RoundFrame
    <2>3. CASE at[r] \notin AtPage /\ at'[r] \notin AtPage /\ asking' = asking
      BY <2>1, <2>2, <2>3 DEF CoordInv, OneHolder
    <2>4. CASE at'[r] \in AtPage /\ asking = Free /\ asking' = r
      BY <2>1, <2>2, <2>4 DEF CoordInv, OneHolder
    <2>5. CASE at[r] \in AtPage /\ at'[r] \notin AtPage /\ asking' = Free
      BY <2>1, <2>2, <2>5 DEF CoordInv, OneHolder
    <2> QED
      BY <1>1, <2>3, <2>4, <2>5 DEF RoundFrame, RoundMoves
  <1>6. StopHolds'
    <2>1. at[r] = "page" => \A w \in Asks : write[w] \notin InTurn
      BY CoordinatorAssumption DEF CoordInv, OneHolder, AtPage
    <2>2. \A w \in Asks : write'[w] = write[w]
      BY <1>2, StillKeeps
    <2> QED
      BY <1>1, <2>1, <2>2 DEF RoundFrame, RoundShows, CoordInv, StopHolds
  <1> QED
    BY <1>2, <1>4, <1>5, <1>6, StillKeeps, RestStep DEF CoordInv

----
\* The invariant through the steps of a write.

LEMMA WriteTypes ==
  ASSUME CoordInv, NEW w \in Asks, Write(w)
  PROVE  Types'
  <1>1. WriteFrame(w) /\ Types
    BY WriteFacts DEF CoordInv
  <1>2. /\ UNCHANGED <<at, visits, asks, today, quiet, sinceAsk>>
        /\ held' \in Targets /\ hasValues' \in [Pages -> BOOLEAN]
        /\ restLeft' \in Nat /\ sinceTimeout' \in 0..ShortestInterval
    BY <1>1, RestStep DEF WriteFrame, WriteShows, Types
  <1>3. /\ RollDay(budget, today) \in Budgets /\ Recorded(budget, today) \in Budgets
        /\ 0 \in 0..MaxAsks /\ 0 \in 0..asks /\ NoTarget \in Targets
        /\ target[writes[w]] \in Targets \/ ~TakesIt(w)
    <2>1. NoTarget \in Targets
      BY <1>1 DEF Types, NoTarget
    <2>2. ASSUME TakesIt(w) PROVE writes[w] \in Asks
      <3>1. write[w] = "turn" /\ WriteOK(w) /\ asks \in 0..MaxAsks /\ MaxAsks \in Nat
        BY <2>2, CoordinatorAssumption DEF TakesIt, CoordInv, Types
      <3>2. writes[w] \in 1..asks
        BY <3>1 DEF WriteOK
      <3> QED
        BY <3>1, <3>2 DEF Asks
    <2>3. 0 \in 0..MaxAsks /\ 0 \in 0..asks
      BY <1>1, CoordinatorAssumption DEF Types
    <2> QED
      BY <1>1, <2>1, <2>2, <2>3, BudgetType, CountedFacts DEF Types
  <1>4. BurstLeft(w) \in 0..asks
    BY <1>1, <1>3 DEF BurstLeft, Types
  <1>5. CASE Needless(w) \/ RefusedThere(w) \/ Ends(w)
    <2>1. /\ asking' \in {Free, asking}
          /\ burst' \in 0..asks
          /\ write' \in [Asks -> Steps] /\ writes' \in [Asks -> 0..MaxAsks]
          /\ goal' \in [Asks -> Targets]
      BY <1>1, <1>3, <1>4, <1>5
         DEF Needless, RefusedThere, Ends, WriteEnds, Forgotten, Types, Steps
    <2>2. target' \in [Asks -> Targets] /\ outcome' \in [Asks -> Outcomes]
      BY <1>1, <1>3, <1>5
         DEF Needless, RefusedThere, Ends, WriteEnds, Types, Outcomes, Finals
    <2>3. budget' \in Budgets
      BY <1>1, <1>3, <1>5 DEF Needless, RefusedThere, Ends, Types
    <2> QED
      BY <1>1, <1>2, <2>1, <2>2, <2>3 DEF Types
  <1>6. CASE TakesIt(w)
    BY <1>1, <1>2, <1>3, <1>4, <1>6 DEF TakesIt, Types, Steps
  <1>7. CASE WriteMoves(w)
    BY <1>1, <1>2, <1>3, <1>7 DEF WriteMoves, Types, Steps, InTurn
  <1> QED
    BY <1>1, <1>5, <1>6, <1>7 DEF WriteFrame

\* Who holds the lock, the stop and the rest.
LEMMA WriteHolds ==
  ASSUME CoordInv, NEW w \in Asks, Write(w)
  PROVE  OneHolder' /\ StopHolds' /\ RestHolds'
  <1>1. WriteFrame(w) /\ Types /\ OneHolder /\ StopHolds
    BY WriteFacts DEF CoordInv
  <1>2. /\ UNCHANGED <<at, stopped>>
        /\ \A r \in Rounds : r # Free /\ r # w
        /\ w # Free /\ \A v \in Asks : v # Free
    BY <1>1, CoordinatorAssumption DEF WriteFrame
  <1>3. \A v \in Asks \ {w} : write'[v] = write[v]
    BY <1>1 DEF WriteFrame, Needless, RefusedThere, TakesIt, WriteMoves, Ends,
                WriteEnds, Types
  <1>4. CASE Needless(w) \/ RefusedThere(w)
    <2>1. write'[w] = "over" /\ asking = Free /\ asking' = Free /\ write[w] = "turn"
      BY <1>1, <1>4 DEF Needless, RefusedThere, WriteEnds, Types
    <2>2. UNCHANGED hasValues
      BY <1>1, <2>1 DEF WriteFrame, WriteShows, InTurn
    <2> QED
      BY <1>1, <1>2, <1>3, <2>1, <2>2, RestStep
         DEF OneHolder, StopHolds, InTurn, WriteFrame
  <1>5. CASE TakesIt(w)
    <2>1. asking = Free /\ asking' = w /\ write[w] = "turn" /\ stopped = NoPage
      BY <1>5 DEF TakesIt, MayWrite
    <2>2. UNCHANGED hasValues
      BY <1>1, <2>1 DEF WriteFrame, WriteShows, InTurn
    <2> QED
      BY <1>1, <1>2, <1>3, <2>1, <2>2, RestStep
         DEF OneHolder, StopHolds, WriteFrame
  <1>6. CASE WriteMoves(w)
    <2>1. asking' = asking /\ asking = w /\ write[w] \in InTurn /\ stopped = NoPage
      BY <1>1, <1>6 DEF WriteMoves, OneHolder, StopHolds
    <2> QED
      BY <1>1, <1>2, <1>3, <2>1, RestStep DEF OneHolder, StopHolds, WriteFrame
  <1>7. CASE Ends(w)
    <2>1. /\ asking' = Free /\ asking = w /\ write[w] \in InTurn /\ stopped = NoPage
          /\ write'[w] = "over"
      BY <1>1, <1>7 DEF Ends, WriteEnds, OneHolder, StopHolds, Types
    <2> QED
      BY <1>1, <1>2, <1>3, <2>1, RestStep DEF OneHolder, StopHolds, InTurn, WriteFrame
  <1> QED
    BY <1>1, <1>4, <1>5, <1>6, <1>7 DEF WriteFrame

\* The allowance.
LEMMA WriteLimit ==
  ASSUME CoordInv, NEW w \in Asks, Write(w)
  PROVE  LimitKept'
  <1>1. WriteFrame(w) /\ Types /\ OneHolder /\ LimitKept
    BY WriteFacts DEF CoordInv
  <1>2. today' = today /\ today \in Nat /\ budget \in Budgets /\ Limit \in Nat
    BY <1>1, CoordinatorAssumption DEF WriteFrame, Types
  <1>3. /\ RollDay(budget, today).day = today /\ RollDay(budget, today).today \in Nat
        /\ RollDay(RollDay(budget, today), today) = RollDay(budget, today)
        /\ Recorded(budget, today).day = today
        /\ RollDay(Recorded(budget, today), today).today = RollDay(budget, today).today + 1
    BY <1>2, BudgetType, CountedFacts
  <1>4. \A v \in Asks \ {w} : write'[v] = write[v]
    BY <1>1 DEF WriteFrame, Needless, RefusedThere, TakesIt, WriteMoves, Ends,
                WriteEnds, Types
  <1>5. CASE budget' = budget \/ budget' = RollDay(budget, today)
    <2>1. budget'.day <= today' /\ RollDay(budget', today') = RollDay(budget, today)
      BY <1>1, <1>2, <1>3, <1>5 DEF LimitKept
    <2>2. write'[w] \in {"reads", "save"} => AllowsWrite(budget, Limit, today)
      BY <1>1 DEF WriteFrame, Needless, RefusedThere, TakesIt, WriteMoves, Ends,
                  WriteEnds, Types, MayWrite, LimitKept
    <2>3. \A v \in Asks : write'[v] \in {"reads", "save"} =>
            AllowsWrite(budget, Limit, today)
      BY <1>1, <1>4, <2>2 DEF LimitKept
    <2>4. AllowsWrite(budget, Limit, today) => AllowsWrite(budget', Limit, today')
      BY <2>1 DEF AllowsWrite
    <2> QED
      BY <1>1, <2>1, <2>3, <2>4 DEF LimitKept
  <1>6. CASE write[w] = "save" /\ write'[w] = "posted" /\ budget' = Recorded(budget, today)
    <2>1. AllowsWrite(budget, Limit, today)
      BY <1>1, <1>6 DEF LimitKept
    <2>2. Limit > 0 => RollDay(budget, today).today + 1 <= Limit
      BY <1>2, <1>3, <2>1 DEF AllowsWrite
    <2>3. \A v \in Asks \ {w} : write[v] \notin InTurn
      BY <1>1, <1>6 DEF OneHolder, InTurn
    <2>4. \A v \in Asks : write'[v] \notin {"reads", "save"}
      BY <1>4, <1>6, <2>3 DEF InTurn
    <2>5. budget'.day <= today' /\ RollDay(budget', today').today = RollDay(budget, today).today + 1
      BY <1>2, <1>3, <1>6
    <2> QED
      BY <2>2, <2>4, <2>5 DEF LimitKept
  <1> QED
    BY <1>1, <1>5, <1>6
       DEF WriteFrame, Needless, RefusedThere, TakesIt, WriteMoves, Ends

\* The bursts and what the writes know of them.

LEMMA InTurnFacts ==
  ASSUME CoordInv, NEW w \in Asks, write[w] \in InTurn \cup {"turn"}
  PROVE  writes[w] \in Asks /\ writes[w] # 0 /\ writes[w] <= asks
  <1>1. WriteOK(w) /\ asks \in 0..MaxAsks /\ MaxAsks \in Nat
    BY CoordinatorAssumption DEF CoordInv, Types
  <1>2. writes[w] \in 1..asks
    BY <1>1 DEF WriteOK
  <1> QED
    BY <1>1, <1>2 DEF Asks

\* A write that holds no lock and leaves its burst's outcome alone.
LEMMA NeedlessStep ==
  ASSUME CoordInv, NEW w \in Asks, WriteFrame(w), Needless(w)
  PROVE  Bursts' /\ \A v \in Asks : WriteOK(v)'
  <1>1. /\ write[w] = "turn" /\ write' = [write EXCEPT ![w] = "over"]
        /\ writes' = [writes EXCEPT ![w] = 0]
        /\ goal' = [goal EXCEPT ![w] = NoTarget]
        /\ UNCHANGED <<outcome, target, life, asks, quiet, quietFor, sinceAsk>>
    BY DEF Needless, Forgotten, WriteFrame
  <1>2. writes[w] \in Asks /\ writes[w] # 0
    BY <1>1, InTurnFacts
  <1>3. burst' = burst
    <2>1. CASE Settled(w) /\ burst' = BurstLeft(w)
      <3>1. burst # writes[w]
        BY <1>2, <2>1 DEF Settled, CoordInv, Bursts
      <3> QED
        BY <2>1, <3>1 DEF BurstLeft
    <2> QED
      BY <2>1 DEF Needless
  <1>4. Bursts'
    BY <1>1, <1>3 DEF CoordInv, Bursts
  <1>5. \A v \in Asks \ {w} : write'[v] = write[v] /\ writes'[v] = writes[v] /\ goal'[v] = goal[v]
    BY <1>1 DEF CoordInv, Types
  <1>6. write'[w] = "over"
    BY <1>1 DEF CoordInv, Types
  <1>7. SUFFICES ASSUME NEW v \in Asks \ {w} PROVE WriteOK(v)'
    BY <1>4, <1>6 DEF WriteOK, InTurn
  <1>8. WriteOK(v)
    BY DEF CoordInv
  <1>9. ASSUME NEW u \in Asks, write[u] \in InTurn, writes[u] = writes[v]
        PROVE  write'[u] \in InTurn /\ writes'[u] = writes'[v]
    BY <1>1, <1>5, <1>9 DEF InTurn
  <1> QED
    BY <1>1, <1>3, <1>5, <1>8, <1>9 DEF WriteOK

\* A write that is told its burst's outcome, in its turn or at its end.
LEMMA ToldStep ==
  ASSUME CoordInv, NEW w \in Asks, write[w] \in InTurn \cup {"turn"},
         NEW end \in Finals, WriteEnds(w, end),
         UNCHANGED <<life, asks, sinceAsk>>,
         burst' = BurstLeft(w),
         burst = writes[w] => quiet = Never,
         \A v \in Asks \ {w} : write[v] \notin InTurn
  PROVE  Bursts' /\ \A v \in Asks : WriteOK(v)'
  <1>1. /\ write' = [write EXCEPT ![w] = "over"]
        /\ writes' = [writes EXCEPT ![w] = 0]
        /\ goal' = [goal EXCEPT ![w] = NoTarget]
        /\ outcome' = [outcome EXCEPT ![writes[w]] = end]
        /\ target' = [target EXCEPT ![writes[w]] = NoTarget]
        /\ UNCHANGED <<life, asks, quiet, quietFor, sinceAsk>>
    BY DEF WriteEnds, Forgotten
  <1>2. writes[w] \in Asks /\ writes[w] # 0 /\ writes[w] <= asks
    BY InTurnFacts
  <1>3. /\ outcome'[writes[w]] = end /\ end # "pending"
        /\ \A b \in Asks \ {writes[w]} : outcome'[b] = outcome[b]
    BY <1>1, <1>2 DEF CoordInv, Types, Finals
  <1>4. burst \in 0..asks /\ asks \in 0..MaxAsks /\ MaxAsks \in Nat /\ Bursts
    BY CoordinatorAssumption DEF CoordInv, Types
  <1>5. burst' # 0 => burst' = burst /\ burst # writes[w] /\ burst \in Asks
    BY <1>4 DEF BurstLeft, Asks
  <1>6. Bursts'
    <2>1. quiet' # Never => burst' = burst
      BY <1>1 DEF BurstLeft
    <2>2. \A b \in Asks : b > asks => outcome'[b] = "none"
      BY <1>2, <1>3, <1>4 DEF Bursts, Asks
    <2>3. burst' # 0 => outcome'[burst'] = "pending"
      BY <1>3, <1>4, <1>5 DEF Bursts
    <2> QED
      BY <1>1, <1>4, <1>5, <2>1, <2>2, <2>3 DEF Bursts
  <1>7. \A v \in Asks \ {w} : write'[v] = write[v] /\ writes'[v] = writes[v]
    BY <1>1 DEF CoordInv, Types
  <1>8. write'[w] = "over"
    BY <1>1 DEF CoordInv, Types
  <1>9. SUFFICES ASSUME NEW v \in Asks \ {w} PROVE WriteOK(v)'
    BY <1>6, <1>8 DEF WriteOK, InTurn
  <1>10. WriteOK(v) /\ write'[v] \notin InTurn
    BY <1>7 DEF CoordInv
  <1>11. ASSUME write'[v] = "turn" PROVE writes'[v] \in 1..asks'
    BY <1>1, <1>7, <1>10, <1>11 DEF WriteOK
  <1>12. ASSUME write'[v] = "turn", outcome'[writes'[v]] = "pending"
         PROVE  writes'[v] = burst'
    <2>1. write[v] = "turn" /\ writes'[v] = writes[v] /\ writes[v] \in Asks
      BY <1>7, <1>12, InTurnFacts
    <2>2. writes[v] # writes[w] /\ outcome[writes[v]] = "pending"
      BY <1>3, <1>12, <2>1
    <2>3. writes[v] = burst
      BY <1>10, <2>1, <2>2 DEF WriteOK
    <2> QED
      BY <2>1, <2>2, <2>3 DEF BurstLeft
  <1> QED
    BY <1>10, <1>11, <1>12 DEF WriteOK, InTurn

LEMMA TakesStep ==
  ASSUME CoordInv, NEW w \in Asks, WriteFrame(w), TakesIt(w)
  PROVE  Bursts' /\ \A v \in Asks : WriteOK(v)'
  <1>1. /\ write[w] = "turn" /\ write' = [write EXCEPT ![w] = "reads"]
        /\ goal' = [goal EXCEPT ![w] = target[writes[w]]]
        /\ UNCHANGED <<writes, outcome, target, life, asks, quiet, quietFor, sinceAsk>>
        /\ outcome[writes[w]] = "pending"
        /\ burst = writes[w] => quiet = Never
        /\ burst' = BurstLeft(w)
    BY DEF TakesIt, WriteFrame, HandedOn, Settled
  <1>2. writes[w] \in 1..asks /\ writes[w] # 0
    BY <1>1, InTurnFacts DEF CoordInv, WriteOK
  <1>3. Bursts' /\ burst' # writes[w]
    BY <1>1, <1>2 DEF CoordInv, Bursts, BurstLeft
  <1>4. /\ write'[w] = "reads" /\ goal'[w] = target[writes[w]]
        /\ \A v \in Asks \ {w} : write'[v] = write[v] /\ goal'[v] = goal[v]
    BY <1>1 DEF CoordInv, Types
  <1>5. WriteOK(w)'
    BY <1>1, <1>2, <1>3, <1>4 DEF WriteOK, InTurn
  <1>6. SUFFICES ASSUME NEW v \in Asks \ {w} PROVE WriteOK(v)'
    BY <1>3, <1>5
  <1>7. WriteOK(v) /\ write[v] \notin InTurn
    BY CoordinatorAssumption DEF CoordInv, OneHolder, TakesIt
  <1>8. \A u \in Asks : write[u] \notin InTurn
    BY CoordinatorAssumption DEF CoordInv, OneHolder, TakesIt
  <1>9. ASSUME write[v] = "turn", outcome[writes[v]] = "pending"
        PROVE  writes[v] = burst' \/ writes[v] = writes[w]
    BY <1>1, <1>7, <1>8, <1>9 DEF WriteOK, BurstLeft
  <1>10. write'[w] \in InTurn
    BY <1>4 DEF InTurn
  <1> QED
    BY <1>1, <1>4, <1>7, <1>9, <1>10 DEF WriteOK

LEMMA MovesStep ==
  ASSUME CoordInv, NEW w \in Asks, WriteFrame(w), WriteMoves(w)
  PROVE  Bursts' /\ \A v \in Asks : WriteOK(v)'
  <1>1. /\ UNCHANGED <<burst, writes, goal, outcome, target, life, asks, quiet, quietFor,
                       sinceAsk>>
        /\ write[w] \in InTurn /\ write'[w] \in InTurn
        /\ \A v \in Asks \ {w} : write'[v] = write[v]
    BY DEF WriteMoves, WriteFrame, CoordInv, Types
  <1>2. Bursts'
    BY <1>1 DEF CoordInv, Bursts
  <1>3. \A v \in Asks : WriteOK(v) /\ (write'[v] \in InTurn <=> write[v] \in InTurn)
                        /\ (write'[v] = "turn" <=> write[v] = "turn")
    BY <1>1 DEF CoordInv, InTurn
  <1>4. \A v \in Asks : WriteOK(v)'
    BY <1>1, <1>3 DEF WriteOK
  <1> QED
    BY <1>2, <1>4

LEMMA WriteStep ==
  ASSUME CoordInv, NEW w \in Asks, Write(w)
  PROVE  CoordInv'
  <1>1. WriteFrame(w)
    BY WriteFacts DEF CoordInv
  <1>2. Bursts' /\ \A v \in Asks : WriteOK(v)'
    <2>1. CASE RefusedThere(w)
      <3>1. /\ write[w] = "turn" /\ WriteEnds(w, "refused") /\ "refused" \in Finals
            /\ burst' = BurstLeft(w)
            /\ burst = writes[w] => quiet = Never
        BY <2>1 DEF RefusedThere, HandedOn, Finals
      <3>2. \A v \in Asks \ {w} : write[v] \notin InTurn
        BY <2>1, CoordinatorAssumption DEF RefusedThere, CoordInv, OneHolder
      <3> QED
        BY <1>1, <3>1, <3>2, ToldStep DEF WriteFrame
    <2>2. CASE Ends(w)
      <3>1. PICK end \in Finals : WriteEnds(w, end)
        BY <2>2 DEF Ends
      <3>2. write[w] \in InTurn /\ burst # writes[w] /\ burst' = BurstLeft(w)
        BY <2>2 DEF Ends, CoordInv, WriteOK, BurstLeft
      <3>3. \A v \in Asks \ {w} : write[v] \notin InTurn
        BY <3>2 DEF CoordInv, OneHolder
      <3> QED
        BY <1>1, <3>1, <3>2, <3>3, ToldStep DEF WriteFrame
    <2> QED
      BY <1>1, <2>1, <2>2, NeedlessStep, TakesStep, MovesStep DEF WriteFrame
  <1> QED
    BY <1>2, WriteTypes, WriteHolds, WriteLimit DEF CoordInv

----
\* The invariant through the other steps.

LEMMA AskStep ==
  ASSUME CoordInv, NEW t \in Targets, Ask(t)
  PROVE  CoordInv'
  <1> DEFINE b == IF burst = 0 THEN asks + 1 ELSE burst
  <1>1. /\ UNCHANGED <<hasValues, stopped, restLeft, sinceTimeout, at, asking, visits,
                       write, writes, goal, today, held, life>>
        /\ life = "on" /\ asks' = asks + 1 /\ asks < MaxAsks /\ quiet' = Debounce /\ sinceAsk' = 0
        /\ budget' = RollDay(budget, today)
        /\ burst' = b /\ quietFor' = b
        /\ target' = [target EXCEPT ![b] = t]
        /\ outcome' = [outcome EXCEPT ![b] = IF burst = 0 THEN "pending" ELSE @]
    BY DEF Ask, pageVars, stopVars, planVars, roundVars, writeVars
  <1>2. /\ asks \in 0..MaxAsks /\ burst \in 0..asks /\ MaxAsks \in Nat /\ Debounce \in Nat
        /\ Types /\ Bursts /\ LimitKept
    BY CoordinatorAssumption DEF CoordInv, Types
  <1>3. b \in 1..asks + 1 /\ b \in Asks /\ b # 0
    BY <1>1, <1>2 DEF Asks
  <1>4. /\ outcome'[b] = "pending" /\ outcome' \in [Asks -> Outcomes]
        /\ \A o \in Asks \ {b} : outcome'[o] = outcome[o]
    BY <1>1, <1>2, <1>3 DEF Types, Bursts, Outcomes
  <1>5. /\ RollDay(budget, today) \in Budgets
        /\ RollDay(budget, today).day = today
        /\ RollDay(RollDay(budget, today), today) = RollDay(budget, today)
    BY <1>2, BudgetType, CountedFacts DEF Types
  <1>6. Types'
    <2>1. asks' \in 0..MaxAsks /\ burst' \in 0..asks' /\ sinceAsk' \in 0..Debounce
          /\ quiet' \in Nat \cup {Never}
      BY <1>1, <1>2, <1>3
    <2>2. target' \in [Asks -> Targets]
      BY <1>1, <1>2 DEF Types
    <2> QED
      BY <1>1, <1>2, <1>4, <1>5, <2>1, <2>2 DEF Types
  <1>7. OneHolder' /\ StopHolds' /\ RestHolds'
    BY <1>1 DEF CoordInv, OneHolder, StopHolds, RestHolds
  <1>8. LimitKept'
    BY <1>1, <1>2, <1>5 DEF LimitKept, AllowsWrite, Types
  <1>9. Bursts'
    <2>1. \A o \in Asks : o > asks' => outcome'[o] = "none"
      BY <1>1, <1>2, <1>3, <1>4 DEF Bursts, Asks
    <2>2. Debounce # Never
      BY <1>2 DEF Never
    <2> QED
      BY <1>1, <1>2, <1>3, <1>4, <2>1, <2>2 DEF Bursts
  <1>10. SUFFICES ASSUME NEW w \in Asks PROVE WriteOK(w)'
    BY <1>6, <1>7, <1>8, <1>9 DEF CoordInv
  <1>11. WriteOK(w)
    BY DEF CoordInv
  <1>12. CASE write[w] \in InTurn
    <2>1. writes[w] \in 1..asks /\ burst # writes[w] /\ writes[w] \in Asks
      BY <1>11, <1>12, InTurnFacts DEF WriteOK
    <2>2. writes[w] # b
      BY <1>2, <2>1
    <2>3. outcome'[writes[w]] = outcome[writes[w]] /\ target'[writes[w]] = target[writes[w]]
      BY <1>1, <1>2, <1>4, <2>1, <2>2 DEF Types
    <2>4. writes[w] \in 1..asks'
      BY <1>1, <1>2, <2>1
    <2> QED
      BY <1>1, <1>11, <1>12, <2>2, <2>3, <2>4 DEF WriteOK, InTurn
  <1>13. CASE write[w] = "turn"
    <2>1. writes[w] \in 1..asks /\ writes[w] \in Asks
      BY <1>11, <1>13, InTurnFacts DEF WriteOK
    <2>2. writes[w] \in 1..asks'
      BY <1>1, <1>2, <2>1
    <2>3. CASE writes[w] = burst'
      BY <1>1, <1>13, <2>2, <2>3 DEF WriteOK, InTurn
    <2>4. CASE writes[w] # burst'
      <3>1. outcome'[writes[w]] = outcome[writes[w]] /\ writes[w] # burst
        BY <1>1, <1>2, <1>4, <2>1, <2>4
      <3> QED
        BY <1>1, <1>11, <1>13, <2>2, <3>1 DEF WriteOK, InTurn
    <2> QED
      BY <2>3, <2>4
  <1> QED
    BY <1>1, <1>12, <1>13 DEF WriteOK

LEMMA QuietOverStep == ASSUME CoordInv, QuietOver PROVE CoordInv'
  <1>1. PICK w \in Asks : /\ write[w] = "none"
                          /\ write' = [write EXCEPT ![w] = "turn"]
                          /\ writes' = [writes EXCEPT ![w] = quietFor]
    BY DEF QuietOver
  <1>2. /\ UNCHANGED <<hasValues, stopped, restLeft, sinceTimeout, at, asking, visits,
                       goal, today, held, life, asks, burst, target, outcome, budget,
                       sinceAsk>>
        /\ quiet = 0 /\ quiet' = Never
    BY DEF QuietOver, pageVars, stopVars, planVars, roundVars, worldVars, sinceVars
  <1>3. /\ Types /\ Bursts /\ LimitKept /\ Debounce \in Nat /\ MaxAsks \in Nat
        /\ quietFor = burst /\ burst # 0 /\ burst \in 0..asks /\ asks \in 0..MaxAsks
    BY <1>2, CoordinatorAssumption DEF CoordInv, Types, Bursts, Never
  <1>4. /\ write'[w] = "turn" /\ writes'[w] = burst
        /\ \A v \in Asks \ {w} : write'[v] = write[v] /\ writes'[v] = writes[v]
    BY <1>1, <1>3 DEF Types
  <1>5. Types'
    <2>1. write' \in [Asks -> Steps] /\ writes' \in [Asks -> 0..MaxAsks]
      BY <1>1, <1>3 DEF Types, Steps
    <2> QED
      BY <1>2, <1>3, <2>1 DEF Types
  <1>6. OneHolder' /\ StopHolds' /\ RestHolds' /\ LimitKept'
    BY <1>2, <1>4 DEF CoordInv, OneHolder, StopHolds, RestHolds, LimitKept, InTurn
  <1>7. Bursts'
    <2>1. sinceAsk = Debounce
      BY <1>2, <1>3 DEF Bursts, Never, Types
    <2> QED
      BY <1>2, <1>3, <2>1 DEF Bursts
  <1>8. WriteOK(w)'
    BY <1>2, <1>3, <1>4 DEF WriteOK, InTurn
  <1>9. SUFFICES ASSUME NEW v \in Asks \ {w} PROVE WriteOK(v)'
    BY <1>5, <1>6, <1>7, <1>8 DEF CoordInv
  <1>10. WriteOK(v)
    BY DEF CoordInv
  <1>11. ASSUME NEW u \in Asks, write[u] \in InTurn
         PROVE  write'[u] \in InTurn /\ writes'[u] = writes[u]
    BY <1>1, <1>4, <1>11 DEF InTurn
  <1> QED
    BY <1>2, <1>4, <1>10, <1>11 DEF WriteOK

\* The unload calls the waiting burst off, which no write in its turn writes.
LEMMA UnloadStep == ASSUME CoordInv, Unload PROVE CoordInv'
  <1>1. /\ UNCHANGED <<hasValues, stopped, restLeft, sinceTimeout, at, asking, visits,
                       write, writes, goal, today, held, asks, target, budget, sinceAsk>>
        /\ quiet' = Never /\ quietFor' = 0 /\ burst' = 0 /\ CallOff
    BY DEF Unload, pageVars, roundVars, writeVars, sinceVars
  <1>2. Types /\ Bursts /\ burst \in 0..asks /\ asks \in 0..MaxAsks /\ MaxAsks \in Nat
    BY CoordinatorAssumption DEF CoordInv, Types
  <1>3. /\ outcome' \in [Asks -> Outcomes]
        /\ \A o \in Asks : o # burst => outcome'[o] = outcome[o]
        /\ \A o \in Asks : o = burst => outcome'[o] = "closed"
    <2>1. CASE burst = 0
      <3>1. outcome' = outcome /\ 0 \notin Asks
        BY <1>1, <1>2, <2>1 DEF CallOff, Asks
      <3> QED
        BY <1>2, <2>1, <3>1 DEF Types
    <2>2. CASE burst # 0
      <3>1. outcome' = [outcome EXCEPT ![burst] = "closed"]
        BY <1>1, <2>2 DEF CallOff
      <3> QED
        BY <1>2, <3>1 DEF Types, Outcomes
    <2> QED
      BY <2>1, <2>2
  <1>4. Types'
    BY <1>1, <1>2, <1>3 DEF Types
  <1>5. OneHolder' /\ StopHolds' /\ RestHolds' /\ LimitKept'
    BY <1>1 DEF CoordInv, OneHolder, StopHolds, RestHolds, LimitKept
  <1>6. Bursts'
    BY <1>1, <1>2, <1>3 DEF Bursts
  <1>7. SUFFICES ASSUME NEW w \in Asks PROVE WriteOK(w)'
    BY <1>4, <1>5, <1>6 DEF CoordInv
  <1>8. CASE write[w] \notin InTurn \cup {"turn"}
    BY <1>1, <1>8 DEF WriteOK, InTurn
  <1>9. CASE write[w] \in InTurn \cup {"turn"}
    <2>1. WriteOK(w) /\ writes[w] \in Asks /\ writes[w] # 0
      BY <1>9, InTurnFacts DEF CoordInv
    <2> QED
      BY <1>1, <1>3, <2>1 DEF WriteOK, InTurn
  <1> QED
    BY <1>8, <1>9

\* The tasks are cancelled; nobody is left in a turn.
LEMMA UnloadedStep == ASSUME CoordInv, Unloaded PROVE CoordInv'
  <1>1. /\ UNCHANGED <<hasValues, stopped, restLeft, sinceTimeout, visits, burst, quiet,
                       quietFor, target, writes, goal, today, asks, budget, sinceAsk>>
        /\ life = "closing" /\ asking' = Free
        /\ at' = [r \in Rounds |-> "idle"]
        /\ outcome' = [b \in Asks |->
             IF outcome[b] = "pending" /\ \E w \in Asks : writes[w] = b
             THEN CutOff(b) ELSE outcome[b]]
        /\ write' = [w \in Asks |-> IF write[w] = "none" THEN "none" ELSE "over"]
        /\ held' \in {held} \cup {goal[w] : w \in {v \in Asks : write[v] = "posted"}}
    BY DEF Unloaded, pageVars, stopVars, planVars, burstVars, sinceVars
  <1>2. Types /\ Bursts /\ LimitKept
    BY DEF CoordInv
  <1>3. /\ \A w \in Asks : write'[w] \in {"none", "over"}
        /\ at' \in [Rounds -> Places] /\ \A r \in Rounds : at'[r] \notin AtPage
        /\ write' \in [Asks -> Steps]
    BY <1>1 DEF Places, Steps, AtPage
  <1>4. /\ outcome' \in [Asks -> Outcomes]
        /\ \A b \in Asks : outcome[b] # "pending" => outcome'[b] = outcome[b]
    BY <1>1, <1>2 DEF Types, Outcomes, CutOff
  <1>5. held' \in Targets
    BY <1>1, <1>2 DEF Types
  <1>6. Types'
    BY <1>1, <1>2, <1>3, <1>4, <1>5 DEF Types
  <1>7. OneHolder' /\ StopHolds' /\ RestHolds' /\ LimitKept'
    BY <1>1, <1>3 DEF CoordInv, OneHolder, StopHolds, RestHolds, LimitKept, InTurn
  <1>8. Bursts'
    BY <1>1, <1>2, <1>4 DEF Bursts
  <1>9. \A w \in Asks : WriteOK(w)'
    BY <1>3 DEF WriteOK, InTurn
  <1> QED
    BY <1>6, <1>7, <1>8, <1>9 DEF CoordInv

\* Dialogs and the panel move nothing of it.
LEMMA WorldStep ==
  ASSUME CoordInv,
         VisitBegins \/ VisitEnds \/ \E t \in Targets : PanelChange(t)
  PROVE  CoordInv'
  <1>1. /\ KeepsWrites
        /\ UNCHANGED <<hasValues, stopped, restLeft, sinceTimeout, at, asking>>
        /\ visits' \in Nat /\ held' \in Targets
    <2>1. CASE VisitBegins \/ VisitEnds
      <3>1. visits' \in Nat
        BY <2>1, CoordinatorAssumption DEF VisitBegins, VisitEnds, CoordInv, Types
      <3> QED
        BY <2>1, <3>1 DEF VisitBegins, VisitEnds, KeepsWrites, pageVars, stopVars,
           planVars, roundVars, sinceVars, CoordInv, Types
    <2>2. ASSUME NEW t \in Targets, PanelChange(t)
          PROVE  /\ KeepsWrites /\ visits' = visits /\ held' \in Targets
                 /\ UNCHANGED <<hasValues, stopped, restLeft, sinceTimeout, at, asking>>
      BY <2>2 DEF PanelChange, KeepsWrites, pageVars, stopVars, planVars, roundVars,
         sinceVars
    <2> QED
      BY <2>1, <2>2 DEF CoordInv, Types
  <1>2. \A w \in Asks : write'[w] = write[w]
    BY <1>1, StillKeeps
  <1>3. Types'
    BY <1>1, StillKeeps DEF CoordInv, Types
  <1>4. OneHolder' /\ StopHolds' /\ RestHolds'
    BY <1>1, <1>2 DEF CoordInv, OneHolder, StopHolds, RestHolds
  <1> QED
    BY <1>1, <1>3, <1>4, StillKeeps DEF CoordInv

LEMMA MidnightStep == ASSUME CoordInv, Midnight PROVE CoordInv'
  <1>1. /\ UNCHANGED <<hasValues, stopped, restLeft, sinceTimeout, at, asking, visits,
                       burst, quiet, quietFor, target, outcome, write, writes, goal,
                       budget, held, life, asks, sinceAsk>>
        /\ today' = today + 1
    BY DEF Midnight, pageVars, stopVars, planVars, roundVars, burstVars, writeVars,
           sinceVars
  <1>2. Types /\ Bursts /\ LimitKept /\ Limit \in Nat
    BY CoordinatorAssumption DEF CoordInv
  <1>3. Types'
    BY <1>1, <1>2 DEF Types
  <1>4. /\ OneHolder' /\ StopHolds' /\ RestHolds' /\ Bursts'
        /\ \A w \in Asks : WriteOK(w)'
    BY <1>1 DEF CoordInv, OneHolder, StopHolds, RestHolds, Bursts, WriteOK
  <1>5. /\ RollDay(budget, today + 1).today = 0
        /\ budget.day <= today + 1
    BY <1>2, BudgetType, CountedFacts DEF LimitKept, Types, Budgets
  <1>6. LimitKept'
    BY <1>1, <1>2, <1>5 DEF LimitKept, AllowsWrite
  <1> QED
    BY <1>3, <1>4, <1>6 DEF CoordInv

LEMMA TickStep == ASSUME CoordInv, Tick PROVE CoordInv'
  <1>1. /\ UNCHANGED <<hasValues, stopped, at, asking, visits, burst, quietFor, target,
                       outcome, write, writes, goal, budget, today, held, life, asks>>
        /\ restLeft' = Down(restLeft) /\ quiet' = Down(quiet)
        /\ sinceTimeout' = Least(sinceTimeout + 1, ShortestInterval)
        /\ sinceAsk' = Least(sinceAsk + 1, Debounce)
    BY DEF Tick, pageVars, roundVars, writeVars, worldVars
  <1>2. /\ Types /\ Bursts /\ RestHolds /\ Debounce \in Nat
        /\ ShortestInterval \in Nat
    BY CoordinatorAssumption, ShortestType DEF CoordInv
  <1>3. restLeft' \in Nat /\ sinceTimeout' \in 0..ShortestInterval
    BY <1>1, <1>2 DEF Types, Down, Least
  <1>4. quiet' \in Nat \cup {Never} /\ sinceAsk' \in 0..Debounce
    BY <1>1, <1>2 DEF Types, Down, Least, Never
  <1>5. Types'
    BY <1>1, <1>2, <1>3, <1>4 DEF Types
  <1>6. RestHolds'
    <2>1. /\ restLeft \in Nat /\ sinceTimeout \in Nat
          /\ sinceTimeout <= ShortestInterval
          /\ restLeft + sinceTimeout >= ShortestInterval
      BY <1>2 DEF Types, RestHolds
    <2>2. restLeft' + sinceTimeout' >= ShortestInterval
      BY <1>1, <1>2, <2>1 DEF Down, Least
    <2> QED
      BY <2>2 DEF RestHolds
  <1>7. Bursts'
    <2>1. (quiet' = Never) <=> (quiet = Never)
      BY <1>1, <1>2 DEF Types, Down, Never
    <2>2. ASSUME quiet # Never PROVE sinceAsk' + quiet' >= Debounce
      <3>1. /\ quiet \in Nat /\ sinceAsk \in Nat /\ sinceAsk <= Debounce
            /\ sinceAsk + quiet >= Debounce
        BY <1>2, <2>2 DEF Types, Bursts
      <3> QED
        BY <1>1, <1>2, <3>1 DEF Down, Least
    <2>3. sinceAsk = Debounce => sinceAsk' = Debounce
      BY <1>1, <1>2 DEF Least
    <2> QED
      BY <1>1, <1>2, <2>1, <2>2, <2>3 DEF Bursts
  <1>8. /\ OneHolder' /\ StopHolds' /\ LimitKept'
        /\ \A w \in Asks : WriteOK(w)'
    BY <1>1 DEF CoordInv, OneHolder, StopHolds, LimitKept, WriteOK
  <1> QED
    BY <1>5, <1>6, <1>7, <1>8 DEF CoordInv

LEMMA CoordStep == CoordInv /\ [Next]_vars => CoordInv'
  <1> SUFFICES ASSUME CoordInv, [Next]_vars PROVE CoordInv'
    OBVIOUS
  <1>1. CASE UNCHANGED vars
    <2>1. /\ UNCHANGED <<hasValues, stopped, restLeft, sinceTimeout, at, asking, visits,
                         burst, quiet, quietFor, target, outcome, write, writes, goal,
                         budget, today, held, life, asks, sinceAsk>>
      BY <1>1 DEF vars, pageVars, stopVars, planVars, roundVars, burstVars, writeVars,
                  worldVars, sinceVars
    <2>2. Types' /\ OneHolder' /\ StopHolds' /\ RestHolds' /\ LimitKept' /\ Bursts'
      BY <2>1 DEF CoordInv, Types, OneHolder, StopHolds, RestHolds, LimitKept, Bursts
    <2>3. \A w \in Asks : WriteOK(w)'
      BY <2>1 DEF CoordInv, WriteOK
    <2> QED
      BY <2>2, <2>3 DEF CoordInv
  <1>2. CASE Next
    BY <1>2, RoundStep, WriteStep, AskStep, QuietOverStep, UnloadStep, UnloadedStep,
       WorldStep, MidnightStep, TickStep DEF Next
  <1> QED
    BY <1>1, <1>2

LEMMA CoordAlways == Spec => []CoordInv
  BY CoordInit, CoordStep, PTL DEF Spec

----
\* What follows from it.

\* Nobody asks beside another: of all rounds at a page and all writes that had
\* their turn there is at most one (_asking).
THEOREM AskingIsExclusive == Spec => []OneAsksAtATime
  <1>1. CoordInv => OneAsksAtATime
    <2> SUFFICES ASSUME CoordInv PROVE OneAsksAtATime
      OBVIOUS
    <2> DEFINE Busy == {r \in Rounds : at[r] \in {"page", "late"}}
                       \cup {w \in Asks : write[w] \in {"reads", "save", "posted", "readback"}}
    <2>1. Busy \subseteq {asking}
      BY DEF CoordInv, OneHolder, AtPage, InTurn
    <2>2. Busy = {} \/ Busy = {asking}
      BY <2>1
    <2>3. Cardinality({}) = 0 /\ Cardinality({asking}) = 1
      BY FS_EmptySet, FS_Singleton
    <2>4. Cardinality(Busy) <= 1
      <3> HIDE DEF Busy
      <3> QED
        BY <2>2, <2>3
    <2> QED
      BY <2>4 DEF OneAsksAtATime
  <1> QED
    BY <1>1, CoordAlways, PTL

\* A stop leaves no values from before it, whatever was under way when it came:
\* only what holds the lock brings values, and none of it outlives the stop
\* (_stop, _refuse_write).
THEOREM StopShowsNothing == Spec => []StoppedShowsNothing
  <1>1. CoordInv => StoppedShowsNothing
    BY DEF CoordInv, StopHolds, StoppedShowsNothing, ShowsValues
  <1> QED
    BY <1>1, CoordAlways, PTL

\* No more saves in a day than the limit, as whoever holds the lock still has
\* the allowance it read (allows_write asked again in turn).
THEOREM SavesStayWithinLimit == Spec => []DailyLimitHolds
  <1>1. CoordInv => DailyLimitHolds
    BY DEF CoordInv, LimitKept, DailyLimitHolds, RollDay
  <1> QED
    BY <1>1, CoordAlways, PTL

\* A round that takes its turn asks only after the rest that follows a timeout
\* and beside no dialog (_rest, dialog_visiting).
THEOREM RoundsAlwaysKeepOff == Spec => RoundsKeepOff
  <1>1. CoordInv /\ [Next]_vars =>
          [\A r \in Rounds : at[r] # "page" /\ at'[r] = "page" =>
             sinceTimeout = ShortestInterval /\ visits = 0]_vars
    <2> SUFFICES ASSUME CoordInv, Next, NEW r \in Rounds, at[r] # "page", at'[r] = "page"
                 PROVE  sinceTimeout = ShortestInterval /\ visits = 0
      BY DEF vars
    <2>1. PICK q \in Rounds : Round(q)
      <3>1. ASSUME NEW w \in Asks, Write(w) PROVE FALSE
        BY <3>1, WriteFacts DEF CoordInv, WriteFrame
      <3>2. ~Unloaded
        BY DEF Unloaded
      <3> QED
        BY <3>1, <3>2 DEF Next, Ask, PanelChange, QuietOver, VisitBegins, VisitEnds,
           Unload, Midnight, Tick, roundVars
    <2>2. RoundFrame(q)
      BY <2>1, RoundFacts DEF CoordInv
    <2>3. q = r
      BY <2>2 DEF RoundFrame
    <2>4. restLeft = 0 /\ visits = 0
      <3>1. at[r] = "late" => at'[r] # "page"
        BY <2>1, <2>3 DEF Round, PlannedRound, RoundByHand, StartRound, SeesNoDialog,
           TakesTurn, PageComes, PageFails, PageLoginRefused, PageClosed,
           RoundEndsEarly, RoundEnds, CoordInv, Types
      <3> QED
        BY <2>2, <2>3, <3>1 DEF RoundFrame, RoundMoves, AtPage
    <2>5. sinceTimeout = ShortestInterval
      BY <2>4, ShortestType DEF CoordInv, Types, RestHolds
    <2> QED
      BY <2>4, <2>5
  <1> QED
    BY <1>1, CoordAlways, PTL DEF Spec, RoundsKeepOff

\* A write that takes its turn does so when the quiet time is over since the
\* last request for any write: a burst that was asked for again is handed on to
\* the write its own timer starts (set_power_limit, _write).
THEOREM QuietAlwaysKept == Spec => QuietIsKept
  <1>1. CoordInv /\ [Next]_vars =>
          [\A w \in Asks : write[w] = "turn" /\ write'[w] = "reads" =>
             sinceAsk = Debounce]_vars
    <2> SUFFICES ASSUME CoordInv, Next, NEW w \in Asks,
                        write[w] = "turn", write'[w] = "reads"
                 PROVE  sinceAsk = Debounce
      BY DEF vars
    <2>1. PICK v \in Asks : Write(v)
      <3>1. ASSUME NEW r \in Rounds, Round(r) PROVE FALSE
        <4>1. KeepsWrites
          BY <3>1, RoundFacts DEF CoordInv, RoundFrame
        <4> QED
          BY <4>1, StillKeeps
      <3>2. ~Unloaded
        BY DEF Unloaded
      <3>3. ~QuietOver
        BY DEF QuietOver, CoordInv, Types
      <3> QED
        BY <3>1, <3>2, <3>3 DEF Next, Ask, PanelChange, VisitBegins, VisitEnds,
           Unload, Midnight, Tick, writeVars
    <2>2. WriteFrame(v)
      BY <2>1, WriteFacts DEF CoordInv
    <2>3. TakesIt(w)
      BY <2>2 DEF WriteFrame, Needless, RefusedThere, TakesIt, WriteMoves, Ends,
                  WriteEnds, CoordInv, Types, InTurn
    <2>4. /\ WriteOK(w) /\ Bursts /\ writes[w] # 0
          /\ outcome[writes[w]] = "pending" /\ ~HandedOn(w)
          /\ \A u \in Asks : write[u] \notin InTurn
      BY <2>3, InTurnFacts, CoordinatorAssumption
         DEF CoordInv, TakesIt, Settled, OneHolder
    <2>5. writes[w] = burst
      BY <2>4 DEF WriteOK
    <2> QED
      BY <2>4, <2>5 DEF HandedOn, Bursts
  <1> QED
    BY <1>1, CoordAlways, PTL DEF Spec, QuietIsKept

\* Callers told that their write worked asked, last of all, for what the
\* controller then held, and a caller who joined late is no exception; what a
\* burst was told stands, even when several writes were started for it or the
\* entry unloads (_Burst, _write, async_shutdown).
WrittenMeansHeld ==
    [][\A b \in Asks :
         /\ outcome[b] # "written" /\ outcome'[b] = "written" => held' = target[b]
         /\ outcome[b] \notin {"none", "pending"} => outcome'[b] = outcome[b]]_vars

\* It holds for any bursts and writes, and whatever comes between them: a burst is
\* told that it was written only when the controller holds its last target, and
\* what it was told stays so.
THEOREM WrittenIsHeld == Spec => WrittenMeansHeld
  <1>1. CoordInv /\ [Next]_vars =>
          [\A b \in Asks :
             /\ outcome[b] # "written" /\ outcome'[b] = "written" => held' = target[b]
             /\ outcome[b] \notin {"none", "pending"} => outcome'[b] = outcome[b]]_vars
    <2> SUFFICES ASSUME CoordInv, Next, NEW b \in Asks
                 PROVE  /\ outcome[b] # "written" /\ outcome'[b] = "written" =>
                             held' = target[b]
                        /\ outcome[b] \notin {"none", "pending"} => outcome'[b] = outcome[b]
      BY DEF vars
    <2>1. ASSUME NEW r \in Rounds, Round(r) PROVE outcome' = outcome
      BY <2>1, RoundFacts DEF CoordInv, RoundFrame, KeepsWrites
    <2>2. CASE UNCHANGED outcome
      BY <2>2
    <2>3. ASSUME NEW w \in Asks, Write(w)
          PROVE  /\ outcome[b] # "written" /\ outcome'[b] = "written" => held' = target[b]
                 /\ outcome[b] \notin {"none", "pending"} => outcome'[b] = outcome[b]
      <3>1. WriteFrame(w) /\ Types /\ WriteOK(w)
        BY <2>3, WriteFacts DEF CoordInv
      <3>2. CASE Needless(w) \/ TakesIt(w) \/ WriteMoves(w)
        BY <3>2 DEF Needless, TakesIt, WriteMoves
      <3>3. CASE RefusedThere(w)
        <4>1. /\ outcome' = [outcome EXCEPT ![writes[w]] = "refused"]
              /\ outcome[writes[w]] = "pending"
          BY <3>3 DEF RefusedThere, WriteEnds, Settled
        <4> QED
          BY <3>1, <4>1 DEF Types
      <3>4. CASE Ends(w)
        <4>1. PICK end \in Finals : /\ outcome' = [outcome EXCEPT ![writes[w]] = end]
                                    /\ end = "written" => held' = goal[w]
          BY <3>4 DEF Ends, WriteEnds
        <4>2. outcome[writes[w]] = "pending" /\ goal[w] = target[writes[w]]
          BY <3>1, <3>4 DEF Ends, WriteOK
        <4> QED
          BY <3>1, <4>1, <4>2 DEF Types
      <3> QED
        BY <3>1, <3>2, <3>3, <3>4 DEF WriteFrame
    <2>4. ASSUME NEW t \in Targets, Ask(t)
          PROVE  /\ outcome'[b] = "written" => outcome[b] = "written"
                 /\ outcome[b] \notin {"none", "pending"} => outcome'[b] = outcome[b]
      <3>1. CASE burst = 0
        <4>1. outcome' = [outcome EXCEPT ![asks + 1] = "pending"] /\ asks < MaxAsks
          BY <2>4, <3>1 DEF Ask
        <4>2. asks + 1 \in Asks /\ asks + 1 > asks
          BY <4>1, CoordinatorAssumption DEF CoordInv, Types, Asks
        <4>3. outcome[asks + 1] = "none"
          BY <4>2 DEF CoordInv, Bursts
        <4> QED
          BY <4>1, <4>3 DEF CoordInv, Types
      <3>2. CASE burst # 0
        BY <2>4, <3>2 DEF Ask, CoordInv, Types
      <3> QED
        BY <3>1, <3>2
    <2>5. ASSUME Unload
          PROVE  /\ outcome'[b] = "written" => outcome[b] = "written"
                 /\ outcome[b] \notin {"none", "pending"} => outcome'[b] = outcome[b]
      <3>1. CASE burst = 0
        BY <2>5, <3>1 DEF Unload, CallOff
      <3>2. CASE burst # 0
        BY <2>5, <3>2 DEF Unload, CallOff, CoordInv, Types, Bursts
      <3> QED
        BY <3>1, <3>2
    <2>6. ASSUME Unloaded
          PROVE  /\ outcome'[b] = "written" => outcome[b] = "written"
                 /\ outcome[b] \notin {"none", "pending"} => outcome'[b] = outcome[b]
      BY <2>6 DEF Unloaded, CutOff
    <2> QED
      BY <2>1, <2>2, <2>3, <2>4, <2>5, <2>6 DEF Next, PanelChange, QuietOver, VisitBegins,
         VisitEnds, Midnight, Tick
  <1> QED
    BY <1>1, CoordAlways, PTL DEF Spec, WrittenMeansHeld
----
\* Bursts and writes implement WriteRequests.

View ==
    /\ Wanted \in [Asks -> Targets] /\ SaveOut \in BOOLEAN
    /\ \A w \in Asks : write[w] \in InTurn =>
         /\ HasTurn = {writes[w]} /\ writes[w] \in Asks
         /\ (SaveOut <=> write[w] \in {"posted", "readback"})
         /\ outcome[writes[w]] = "pending" /\ goal[w] = Wanted[writes[w]]
    /\ (\A w \in Asks : write[w] \notin InTurn) => HasTurn = {} /\ ~SaveOut
    /\ burst \notin HasTurn

LEMMA ViewHolds == CoordInv => View
  <1> SUFFICES ASSUME CoordInv PROVE View
    OBVIOUS
  <1>1. NoTarget \in Targets
    BY DEF CoordInv, Types, NoTarget
  <1>2. Wanted \in [Asks -> Targets] /\ SaveOut \in BOOLEAN
    BY <1>1 DEF CoordInv, Types, Wanted, SaveOut
  <1>3. ASSUME NEW w \in Asks, write[w] \in InTurn
        PROVE  /\ HasTurn = {writes[w]} /\ writes[w] \in Asks
               /\ (SaveOut <=> write[w] \in {"posted", "readback"})
               /\ outcome[writes[w]] = "pending" /\ goal[w] = Wanted[writes[w]]
    <2>1. \A v \in Asks : write[v] \in InTurn <=> v = w
      BY <1>3 DEF CoordInv, OneHolder
    <2>2. HasTurn = {writes[w]}
      BY <2>1 DEF HasTurn, InTurn
    <2>3. (SaveOut <=> write[w] \in {"posted", "readback"})
      BY <2>1 DEF SaveOut, InTurn
    <2>4. writes[w] \in Asks /\ WriteOK(w)
      BY <1>3, InTurnFacts DEF CoordInv
    <2> QED
      BY <1>3, <2>2, <2>3, <2>4 DEF WriteOK, Wanted
  <1>4. (\A w \in Asks : write[w] \notin InTurn) => HasTurn = {} /\ ~SaveOut
    BY DEF HasTurn, SaveOut, InTurn
  <1>5. burst \notin HasTurn
    BY DEF HasTurn, CoordInv, WriteOK, InTurn
  <1> QED
    BY <1>2, <1>3, <1>4, <1>5 DEF View

LEMMA ViewHoldsNext == CoordInv' => View'
  BY ViewHolds, PTL

\* Steps that callers see nothing of.
LEMMA Unseen ==
  ASSUME UNCHANGED <<outcome, target>>,
         \A w \in Asks :
           \/ write'[w] = write[w] /\ writes'[w] = writes[w]
           \/ write[w] \notin InTurn /\ write'[w] \notin InTurn
           \/ write[w] = "reads" /\ write'[w] = "save" /\ writes'[w] = writes[w]
  PROVE  UNCHANGED <<Wanted, outcome, HasTurn, SaveOut>>
  <1>1. Wanted' = Wanted
    BY DEF Wanted
  <1>2. SaveOut' = SaveOut
    BY DEF SaveOut, InTurn
  <1>3. \A w \in Asks : /\ write'[w] \in InTurn <=> write[w] \in InTurn
                        /\ write[w] \in InTurn => writes'[w] = writes[w]
    BY DEF InTurn
  <1>4. HasTurn' = HasTurn
    BY <1>3 DEF HasTurn, InTurn
  <1> QED
    BY <1>1, <1>2, <1>4

LEMMA RequestsInit == Init => Requests!Init
  <1> SUFFICES ASSUME Init PROVE Requests!Init
    OBVIOUS
  <1>1. \A w \in Asks : write[w] = "none"
    BY DEF Init
  <1>2. HasTurn = {} /\ SaveOut = FALSE
    BY <1>1 DEF HasTurn, SaveOut
  <1>3. Wanted = [b \in Asks |-> NoTarget]
    BY DEF Init, Wanted
  <1> QED
    BY <1>2, <1>3 DEF Init, Requests!Init

RequestsKept == UNCHANGED <<Wanted, outcome, HasTurn, SaveOut, held>>

LEMMA AskRequests ==
  ASSUME CoordInv, NEW t \in Targets, Ask(t)
  PROVE  \E b \in Asks : Requests!Request(b, t)
  <1> DEFINE b == IF burst = 0 THEN asks + 1 ELSE burst
  <1>1. /\ target' = [target EXCEPT ![b] = t]
        /\ outcome' = [outcome EXCEPT ![b] = IF burst = 0 THEN "pending" ELSE @]
        /\ UNCHANGED <<write, writes, held>> /\ asks < MaxAsks
    BY DEF Ask, writeVars
  <1>2. Types /\ Bursts /\ View /\ MaxAsks \in Nat
    BY ViewHolds, CoordinatorAssumption DEF CoordInv
  <1>3. b \in Asks
    BY <1>1, <1>2 DEF Types, Asks
  <1>4. outcome[b] = "none" \/ (outcome[b] = "pending" /\ b \notin HasTurn)
    <2>1. CASE burst = 0
      <3>1. asks + 1 \in Asks /\ asks + 1 > asks
        BY <1>2, <1>3, <2>1 DEF Types
      <3> QED
        BY <1>2, <2>1, <3>1 DEF Bursts
    <2>2. CASE burst # 0
      BY <1>2, <2>2 DEF Bursts, View
    <2> QED
      BY <2>1, <2>2
  <1> HIDE DEF b
  <1>5. outcome' = [outcome EXCEPT ![b] = "pending"]
    <2>1. burst # 0 => outcome[b] = "pending"
      BY <1>2 DEF b, Bursts
    <2> QED
      BY <1>1, <1>2, <1>3, <2>1 DEF Types
  <1>6. Wanted' = [Wanted EXCEPT ![b] = t]
    BY <1>1, <1>2, <1>3, <1>5 DEF Wanted, Types
  <1>7. HasTurn' = HasTurn /\ SaveOut' = SaveOut
    BY <1>1 DEF HasTurn, SaveOut
  <1> QED
    BY <1>1, <1>3, <1>4, <1>5, <1>6, <1>7 DEF Requests!Request, Requests!Waits

LEMMA AnsweredHere ==
  ASSUME CoordInv, NEW b \in Asks, NEW answer \in Finals,
         outcome[b] = "pending", outcome' = [outcome EXCEPT ![b] = answer],
         target' = [target EXCEPT ![b] = NoTarget] \/ target' = target
  PROVE  Requests!Answered(b, answer)
  <1>1. Wanted' = [Wanted EXCEPT ![b] = NoTarget]
    BY DEF Wanted, CoordInv, Types, Finals
  <1> QED
    BY <1>1 DEF Requests!Answered

LEMMA TurnRequests ==
  ASSUME CoordInv, CoordInv', NEW w \in Asks, WriteTakesTurn(w)
  PROVE  RequestsKept \/ \E b \in Asks : Requests!TurnComes(b) \/ Requests!CalledOff(b)
  <1>1. WriteFrame(w) /\ View /\ View' /\ held' = held /\ write[w] = "turn"
    BY WriteTurnFacts, ViewHolds, ViewHoldsNext DEF CoordInv, WriteTakesTurn, worldVars
  <1>2. Needless(w) \/ RefusedThere(w) \/ TakesIt(w)
    BY <1>1 DEF WriteFrame, WriteMoves, Ends, InTurn
  <1>3. /\ writes[w] \in Asks /\ \A v \in Asks : write[v] \notin InTurn
        /\ HasTurn = {} /\ ~SaveOut
    <2>1. asking = Free /\ \A v \in Asks : v # Free
      BY <1>2, CoordinatorAssumption DEF Needless, RefusedThere, TakesIt
    <2> QED
      BY <1>1, <2>1, InTurnFacts DEF CoordInv, OneHolder, View
  <1>4. CASE Needless(w)
    <2>1. /\ write' = [write EXCEPT ![w] = "over"] /\ writes' = [writes EXCEPT ![w] = 0]
          /\ UNCHANGED <<outcome, target>>
      BY <1>4 DEF Needless, Forgotten
    <2>2. /\ \A v \in Asks \ {w} : write'[v] = write[v] /\ writes'[v] = writes[v]
          /\ write'[w] = "over"
      BY <2>1 DEF CoordInv, Types
    <2>3. \A v \in Asks :
            \/ write'[v] = write[v] /\ writes'[v] = writes[v]
            \/ write[v] \notin InTurn /\ write'[v] \notin InTurn
      BY <1>1, <2>2 DEF InTurn
    <2> QED
      BY <1>1, <2>1, <2>3, Unseen DEF RequestsKept
  <1>5. CASE RefusedThere(w)
    <2>1. /\ outcome' = [outcome EXCEPT ![writes[w]] = "refused"]
          /\ target' = [target EXCEPT ![writes[w]] = NoTarget]
          /\ write' = [write EXCEPT ![w] = "over"]
          /\ outcome[writes[w]] = "pending"
      BY <1>5 DEF RefusedThere, WriteEnds, Settled
    <2>2. Requests!Answered(writes[w], "refused")
      BY <1>3, <2>1, AnsweredHere DEF Finals
    <2>3. \A v \in Asks : write'[v] \notin InTurn
      BY <1>3, <2>1 DEF CoordInv, Types, InTurn
    <2>4. HasTurn' = HasTurn /\ SaveOut' = SaveOut
      BY <1>1, <1>3, <2>3 DEF View
    <2> QED
      BY <1>1, <1>3, <2>1, <2>2, <2>4 DEF Requests!CalledOff, Requests!Waits
  <1>6. CASE TakesIt(w)
    <2>1. /\ UNCHANGED <<outcome, target, writes>> /\ outcome[writes[w]] = "pending"
          /\ write'[w] = "reads"
      BY <1>6 DEF TakesIt, Settled, CoordInv, Types
    <2>2. HasTurn' = {writes[w]} /\ ~SaveOut'
      BY <1>1, <2>1 DEF View, InTurn
    <2>3. Wanted' = Wanted /\ SaveOut' = SaveOut
      BY <1>1, <1>3, <2>1, <2>2 DEF Wanted, View
    <2> QED
      BY <1>1, <1>3, <2>1, <2>2, <2>3 DEF Requests!TurnComes, Requests!Waits
  <1> QED
    BY <1>2, <1>4, <1>5, <1>6

LEMMA MovesRequests ==
  ASSUME CoordInv, CoordInv', NEW w \in Asks,
         FormRead(w) \/ SaveGoesOut(w) \/ SaveAnswered(w)
  PROVE  RequestsKept \/ Requests!Send \/ Requests!Arrives
  <1>1. View /\ View' /\ UNCHANGED <<outcome, target, writes>>
    BY ViewHolds, ViewHoldsNext DEF FormRead, SaveGoesOut, SaveAnswered, burstVars
  <1>2. Wanted' = Wanted
    BY <1>1 DEF Wanted
  <1>3. CASE FormRead(w)
    <2>1. write' = [write EXCEPT ![w] = "save"] /\ held' = held /\ write[w] = "reads"
      BY <1>3 DEF FormRead, worldVars
    <2>2. \A v \in Asks :
            \/ write'[v] = write[v] /\ writes'[v] = writes[v]
            \/ write[v] = "reads" /\ write'[v] = "save" /\ writes'[v] = writes[v]
      BY <1>1, <2>1 DEF CoordInv, Types
    <2> QED
      BY <1>1, <2>1, <2>2, Unseen DEF RequestsKept
  <1>4. CASE SaveGoesOut(w)
    <2>1. write[w] = "save" /\ write'[w] = "posted" /\ held' = held
      BY <1>4 DEF SaveGoesOut, worldVars, CoordInv, Types
    <2>2. HasTurn = {writes[w]} /\ HasTurn' = {writes[w]} /\ ~SaveOut /\ SaveOut'
      BY <1>1, <2>1 DEF View, InTurn
    <2>3. SaveOut' = TRUE
      BY <1>1, <2>2 DEF View
    <2> QED
      BY <1>1, <1>2, <2>1, <2>2, <2>3 DEF Requests!Send
  <1>5. CASE SaveAnswered(w)
    <2>1. write[w] = "posted" /\ write'[w] = "readback" /\ held' = goal[w]
      BY <1>5 DEF SaveAnswered, CoordInv, Types
    <2>2. /\ HasTurn = {writes[w]} /\ HasTurn' = {writes[w]} /\ SaveOut /\ SaveOut'
          /\ goal[w] = Wanted[writes[w]]
      BY <1>1, <2>1 DEF View, InTurn
    <2>3. SaveOut' = SaveOut /\ HasTurn' = HasTurn
      BY <1>1, <2>2 DEF View
    <2>4. held' \in Requests!MayHold
      BY <2>1, <2>2 DEF Requests!MayHold
    <2> QED
      BY <1>1, <1>2, <2>2, <2>3, <2>4 DEF Requests!Arrives
  <1> QED
    BY <1>3, <1>4, <1>5

LEMMA EndRequests ==
  ASSUME CoordInv, CoordInv', NEW w \in Asks,
         \/ ShownAlready(w) \/ WriteNotSent(w) \/ SaveRejected(w) \/ SaveUnclear(w)
         \/ ReadBack(w) \/ NotReadBack(w) \/ CountedWriteFaults(w)
  PROVE  \E b \in Asks : Requests!TurnEnds(b)
  <1>1. PICK end \in {"written", "failed", "maybe"} :
          /\ WriteOver(w, end)
          /\ end = "written" => held' = goal[w]
          /\ end = "maybe" => write[w] \in {"posted", "readback"}
    BY DEF ShownAlready, WriteNotSent, SaveRejected, SaveUnclear, ReadBack,
           NotReadBack, CountedWriteFaults
  <1>2. /\ write[w] \in InTurn
        /\ held' = held \/ (held' = goal[w] /\ write[w] = "posted")
    BY DEF ShownAlready, WriteNotSent, SaveRejected, SaveUnclear, ReadBack,
           NotReadBack, CountedWriteFaults, InTurn
  <1>3. View /\ View'
    BY ViewHolds, ViewHoldsNext
  <1>4. /\ outcome' = [outcome EXCEPT ![writes[w]] = end]
        /\ target' = [target EXCEPT ![writes[w]] = NoTarget]
        /\ write' = [write EXCEPT ![w] = "over"]
    BY <1>1 DEF WriteOver, WriteEnds
  <1>5. /\ HasTurn = {writes[w]} /\ writes[w] \in Asks
        /\ outcome[writes[w]] = "pending" /\ goal[w] = Wanted[writes[w]]
        /\ SaveOut <=> write[w] \in {"posted", "readback"}
    BY <1>2, <1>3 DEF View
  <1>6. Requests!Answered(writes[w], end)
    BY <1>4, <1>5, AnsweredHere DEF Finals
  <1>7. HasTurn' = {} /\ SaveOut' = FALSE
    <2>1. \A v \in Asks : write'[v] \notin InTurn
      BY <1>2, <1>4 DEF CoordInv, Types, OneHolder, InTurn
    <2> QED
      BY <1>3, <2>1 DEF View
  <1>8. held' \in Requests!MayHold
    BY <1>2, <1>5 DEF Requests!MayHold
  <1> QED
    BY <1>1, <1>5, <1>6, <1>7, <1>8 DEF Requests!TurnEnds

LEMMA UnloadRequests ==
  ASSUME CoordInv, Unload
  PROVE  RequestsKept \/ \E b \in Asks : Requests!CalledOff(b)
  <1>1. UNCHANGED <<target, write, writes, held>> /\ CallOff
    BY DEF Unload, writeVars
  <1>2. HasTurn' = HasTurn /\ SaveOut' = SaveOut
    BY <1>1 DEF HasTurn, SaveOut
  <1>3. CASE burst = 0
    BY <1>1, <1>2, <1>3 DEF CallOff, RequestsKept, Wanted
  <1>4. CASE burst # 0
    <2>1. /\ outcome' = [outcome EXCEPT ![burst] = "closed"]
          /\ outcome[burst] = "pending" /\ burst \notin HasTurn
      BY <1>1, <1>4, ViewHolds DEF CallOff, CoordInv, Bursts, View
    <2>2. burst \in Asks
      BY <1>4, CoordinatorAssumption DEF CoordInv, Types, Asks
    <2>3. Requests!Answered(burst, "closed")
      BY <1>1, <2>1, <2>2, AnsweredHere DEF Finals
    <2> QED
      BY <1>1, <1>2, <2>1, <2>2, <2>3 DEF Requests!CalledOff, Requests!Waits
  <1> QED
    BY <1>3, <1>4

LEMMA UnloadedRequests ==
  ASSUME CoordInv, CoordInv', Unloaded
  PROVE  \E bursts \in SUBSET Asks : Requests!CutOff(bursts)
  <1> DEFINE bursts == {b \in Asks : outcome[b] = "pending" /\ \E w \in Asks : writes[w] = b}
  <1>1. /\ target' = target
        /\ outcome' = [b \in Asks |->
             IF outcome[b] = "pending" /\ \E w \in Asks : writes[w] = b
             THEN CutOff(b) ELSE outcome[b]]
        /\ write' = [w \in Asks |-> IF write[w] = "none" THEN "none" ELSE "over"]
        /\ held' \in {held} \cup {goal[w] : w \in {v \in Asks : write[v] = "posted"}}
    BY DEF Unloaded, burstVars
  <1>2. View /\ View'
    BY ViewHolds, ViewHoldsNext
  <1>3. HasTurn \subseteq bursts
    BY <1>2 DEF HasTurn, View, InTurn
  <1>4. HasTurn' = {} /\ SaveOut' = FALSE
    <2>1. \A w \in Asks : write'[w] \notin InTurn
      BY <1>1 DEF InTurn
    <2> QED
      BY <1>2, <2>1 DEF View
  <1>5. held' \in Requests!MayHold
    <2>1. CASE held' = held
      BY <2>1 DEF Requests!MayHold
    <2>2. ASSUME NEW w \in Asks, write[w] = "posted", held' = goal[w]
          PROVE  held' \in Requests!MayHold
      <3>1. /\ HasTurn = {writes[w]} /\ SaveOut /\ goal[w] = Wanted[writes[w]]
        BY <1>2, <2>2 DEF View, InTurn
      <3> QED
        BY <2>2, <3>1 DEF Requests!MayHold
    <2> QED
      BY <1>1, <2>1, <2>2
  <1>6. ASSUME NEW b \in Asks
        PROVE  (b \in HasTurn /\ SaveOut) <=>
                 \E w \in Asks : writes[w] = b /\ write[w] \in {"posted", "readback"}
    <2>1. ASSUME b \in HasTurn, SaveOut
          PROVE  \E w \in Asks : writes[w] = b /\ write[w] \in {"posted", "readback"}
      <3>1. PICK w \in Asks : write[w] \in InTurn /\ writes[w] = b
        BY <2>1 DEF HasTurn, InTurn
      <3> QED
        BY <1>2, <2>1, <3>1 DEF View
    <2>2. ASSUME NEW w \in Asks, writes[w] = b, write[w] \in {"posted", "readback"}
          PROVE  b \in HasTurn /\ SaveOut
      BY <2>2 DEF HasTurn, SaveOut
    <2> QED
      BY <2>1, <2>2
  <1>7. outcome' = [b \in Asks |-> IF b \notin bursts THEN outcome[b]
                                  ELSE IF b \in HasTurn /\ SaveOut THEN "maybe" ELSE "closed"]
    BY <1>1, <1>6 DEF CutOff
  <1>8. Wanted' = [b \in Asks |-> IF b \in bursts THEN NoTarget ELSE Wanted[b]]
    <2>1. \A b \in Asks :
            /\ b \in bursts => outcome'[b] # "pending"
            /\ b \notin bursts => outcome'[b] = outcome[b]
      BY <1>7
    <2> HIDE DEF bursts
    <2> QED
      BY <1>1, <2>1 DEF Wanted
  <1>9. \A b \in bursts : outcome[b] = "pending"
    OBVIOUS
  <1> HIDE DEF bursts
  <1>10. Requests!CutOff(bursts)
    BY <1>3, <1>4, <1>5, <1>7, <1>8, <1>9 DEF Requests!CutOff
  <1> QED
    BY <1>10 DEF bursts

\* Whatever rounds, dialogs, timers, unloads and writes interleave, each step is
\* one that a request's caller was promised, or none it sees: one answer for all
\* who joined a burst, one turn and one save at most, of its last target
\* (_Burst, set_power_limit, _write, async_shutdown).
THEOREM BurstsImplementRequests == Spec => BurstsKeepTheirWord
  <1>1. CoordInv /\ CoordInv' /\ [Next]_vars =>
          [Requests!Next]_<<Wanted, outcome, HasTurn, SaveOut, held>>
    <2> SUFFICES ASSUME CoordInv, CoordInv', [Next]_vars
                 PROVE  Requests!Next \/ RequestsKept
      BY DEF RequestsKept
    <2>1. ASSUME UNCHANGED <<outcome, target, write, writes, held>> PROVE RequestsKept
      BY <2>1 DEF RequestsKept, Wanted, HasTurn, SaveOut
    <2>2. CASE UNCHANGED vars \/ VisitBegins \/ VisitEnds \/ Midnight \/ Tick
      <3>1. UNCHANGED <<outcome, target, write, writes, held>>
        BY <2>2 DEF vars, VisitBegins, VisitEnds, Midnight, Tick, burstVars, writeVars,
                    worldVars
      <3> QED
        BY <2>1, <3>1
    <2>3. ASSUME NEW r \in Rounds, Round(r) PROVE RequestsKept
      BY <2>1, <2>3, RoundFacts
         DEF CoordInv, RoundFrame, KeepsWrites, burstVars, writeVars
    <2>4. ASSUME NEW w \in Asks, Write(w) PROVE Requests!Next \/ RequestsKept
      <3>1. CASE WriteTakesTurn(w)
        BY <3>1, TurnRequests DEF Requests!Next
      <3>2. CASE FormRead(w) \/ SaveGoesOut(w) \/ SaveAnswered(w)
        BY <3>2, MovesRequests DEF Requests!Next
      <3>3. CASE \/ ShownAlready(w) \/ WriteNotSent(w) \/ SaveRejected(w)
                 \/ SaveUnclear(w) \/ ReadBack(w) \/ NotReadBack(w)
                 \/ CountedWriteFaults(w)
        BY <3>3, EndRequests DEF Requests!Next
      <3> QED
        BY <2>4, <3>1, <3>2, <3>3 DEF Write
    <2>5. ASSUME NEW t \in Targets, Ask(t) PROVE Requests!Next
      BY <2>5, AskRequests DEF Requests!Next
    <2>6. ASSUME NEW t \in Targets, PanelChange(t) PROVE Requests!Next
      <3>1. held' \in Targets /\ UNCHANGED <<outcome, target, write, writes>>
        BY <2>6 DEF PanelChange, burstVars, writeVars
      <3>2. UNCHANGED <<Wanted, outcome, HasTurn, SaveOut>>
        BY <3>1 DEF Wanted, HasTurn, SaveOut
      <3> QED
        BY <3>1, <3>2 DEF Requests!Next, Requests!PanelChange
    <2>7. CASE QuietOver
      <3>1. PICK w \in Asks : /\ write[w] = "none"
                              /\ write' = [write EXCEPT ![w] = "turn"]
                              /\ writes' = [writes EXCEPT ![w] = quietFor]
        BY <2>7 DEF QuietOver
      <3>2. /\ \A v \in Asks \ {w} : write'[v] = write[v] /\ writes'[v] = writes[v]
            /\ write'[w] = "turn" /\ UNCHANGED <<outcome, target, held>>
        BY <2>7, <3>1 DEF QuietOver, worldVars, CoordInv, Types
      <3>3. \A v \in Asks :
              \/ write'[v] = write[v] /\ writes'[v] = writes[v]
              \/ write[v] \notin InTurn /\ write'[v] \notin InTurn
        BY <3>1, <3>2 DEF InTurn
      <3> QED
        BY <3>2, <3>3, Unseen DEF RequestsKept
    <2>8. CASE Unload
      BY <2>8, UnloadRequests DEF Requests!Next
    <2>9. CASE Unloaded
      BY <2>9, UnloadedRequests DEF Requests!Next
    <2> QED
      BY <2>2, <2>3, <2>4, <2>5, <2>6, <2>7, <2>8, <2>9 DEF Next
  <1> QED
    BY <1>1, RequestsInit, CoordAlways, PTL DEF Spec, BurstsKeepTheirWord, Requests!Spec
----
\* Types of the pages, the plan and the rounds' lists. What a recursive definition
\* makes is reached by the least number it could fail at.

LEMMA StepByStep ==
  ASSUME NEW n \in Nat, NEW G, 0 \in G, \A k \in 0..(n - 1) : k \in G => k + 1 \in G
  PROVE  n \in G
  <1> SUFFICES ASSUME (0..n) \ G # {} PROVE FALSE
    <2>1. n \in 0..n
      OBVIOUS
    <2> QED
      BY <2>1
  <1>1. PICK m \in (0..n) \ G : \A t \in (0..n) \ G : m <= t
    <2> DEFINE S == (0..n) \ G
    <2>1. S \subseteq Nat /\ S # {}
      OBVIOUS
    <2> HIDE DEF S
    <2>2. \E s \in S : \A t \in S : s <= t
      BY <2>1, LeastOf
    <2> QED
      BY <2>2 DEF S
  <1>2. m \in 1..n
    BY <1>1
  <1>3. m - 1 \in G
    BY <1>1, <1>2
  <1> QED
    BY <1>1, <1>2, <1>3

LEMMA DueType == order \in Seq(Pages) => DuePages \in Seq(Pages)
  <1> SUFFICES ASSUME order \in Seq(Pages) PROVE DuePages \in Seq(Pages)
    OBVIOUS
  <1> DEFINE IsDueOf(f, m) ==
               f = [n \in 0..m |-> IF n = 0 THEN <<>>
                                   ELSE IF Due(order[n]) THEN Append(f[n - 1], order[n])
                                   ELSE f[n - 1]]
             Defined == {m \in 0..Len(order) : \E f : IsDueOf(f, m)}
  <1>1. Len(order) \in Nat /\ \A n \in 1..Len(order) : order[n] \in Pages
    BY LenProperties, ElementOfSeq
  <1>2. Len(order) \in Defined
    <2>1. 0 \in Defined
      <3>1. IsDueOf([n \in 0..0 |-> <<>>], 0)
        OBVIOUS
      <3> HIDE DEF IsDueOf
      <3> QED
        BY <1>1, <3>1
    <2>2. ASSUME NEW m \in 0..(Len(order) - 1), m \in Defined PROVE m + 1 \in Defined
      <3>1. PICK f : IsDueOf(f, m)
        BY <2>2
      <3> DEFINE next == IF Due(order[m + 1]) THEN Append(f[m], order[m + 1]) ELSE f[m]
                 g == [n \in 0..(m + 1) |-> IF n = m + 1 THEN next ELSE f[n]]
      <3>2. m \in Nat /\ 0..(m + 1) = (0..m) \cup {m + 1} /\ m + 1 \notin 0..m
        BY <1>1
      <3>3. \A n \in 0..m : g[n] = f[n]
        BY <3>2
      <3>4. \A n \in 0..(m + 1) :
              g[n] = IF n = 0 THEN <<>>
                     ELSE IF Due(order[n]) THEN Append(g[n - 1], order[n]) ELSE g[n - 1]
        <4>1. ASSUME NEW n \in 0..m
              PROVE  g[n] = IF n = 0 THEN <<>>
                            ELSE IF Due(order[n]) THEN Append(g[n - 1], order[n])
                            ELSE g[n - 1]
          <5>1. f[n] = IF n = 0 THEN <<>>
                       ELSE IF Due(order[n]) THEN Append(f[n - 1], order[n])
                       ELSE f[n - 1]
            BY <3>1
          <5>2. g[n] = f[n] /\ (n # 0 => g[n - 1] = f[n - 1])
            BY <3>2, <3>3
          <5> HIDE DEF g
          <5> QED
            BY <5>1, <5>2
        <4>2. g[m + 1] = next /\ g[(m + 1) - 1] = f[m] /\ m + 1 # 0
          BY <3>2, <3>3
        <4> HIDE DEF g
        <4> QED
          BY <3>2, <4>1, <4>2
      <3>5. IsDueOf(g, m + 1)
        <4>1. g = [n \in 0..(m + 1) |-> g[n]]
          OBVIOUS
        <4> HIDE DEF g
        <4> QED
          BY <3>4, <4>1
      <3> HIDE DEF g, IsDueOf
      <3> QED
        BY <1>1, <3>5
    <2> HIDE DEF Defined
    <2> QED
      BY ONLY <1>1, <2>1, <2>2, StepByStep
  <1>3. PICK f : IsDueOf(f, Len(order)) /\ DuePages = f[Len(order)]
    <2>1. DuePages = (CHOOSE f : IsDueOf(f, Len(order)))[Len(order)]
      BY DEF DuePages
    <2>2. \E f : IsDueOf(f, Len(order))
      BY <1>2
    <2> HIDE DEF IsDueOf
    <2>3. IsDueOf(CHOOSE f : IsDueOf(f, Len(order)), Len(order))
      BY ONLY <2>2, Zenon
    <2> QED
      BY ONLY <2>1, <2>3, Zenon
  <1>4. /\ f[0] = <<>>
        /\ \A n \in 1..Len(order) :
             f[n] = IF Due(order[n]) THEN Append(f[n - 1], order[n]) ELSE f[n - 1]
    <2>1. ASSUME NEW n \in 0..Len(order)
          PROVE  f[n] = IF n = 0 THEN <<>>
                        ELSE IF Due(order[n]) THEN Append(f[n - 1], order[n]) ELSE f[n - 1]
      BY <1>3
    <2> QED
      BY <1>1, <2>1
  <1> DEFINE Typed == {n \in 0..Len(order) : f[n] \in Seq(Pages)}
  <1>5. Len(order) \in Typed
    <2>1. 0 \in Typed
      <3>1. f[0] = <<>> /\ <<>> \in Seq(Pages) /\ 0 \in 0..Len(order)
        BY <1>1, <1>4
      <3> QED
        BY <3>1
    <2>2. ASSUME NEW n \in 0..(Len(order) - 1), n \in Typed PROVE n + 1 \in Typed
      <3>1. n + 1 \in 1..Len(order) /\ (n + 1) - 1 = n /\ n + 1 \in 0..Len(order)
        BY <1>1
      <3>2. f[n + 1] = IF Due(order[n + 1]) THEN Append(f[n], order[n + 1]) ELSE f[n]
        BY <1>4, <3>1
      <3>3. order[n + 1] \in Pages /\ f[n] \in Seq(Pages)
        BY <1>1, <2>2, <3>1
      <3>4. f[n + 1] \in Seq(Pages)
        BY <3>2, <3>3, AppendProperties
      <3> QED
        BY <3>1, <3>4
    <2> HIDE DEF Typed
    <2> QED
      BY ONLY <1>1, <2>1, <2>2, StepByStep
  <1> QED
    BY <1>3, <1>5

LEMMA NewestType ==
  ASSUME order \in Seq(Pages), \A q \in Pages : \E n \in DOMAIN order : order[n] = q,
         NEW p \in Pages, NEW s, s = WithNewest(p)
  PROVE  /\ s \in Seq(Pages) /\ Len(s) = Len(order)
         /\ \A q \in Pages : \E n \in DOMAIN s : s[n] = q
  <1> DEFINE l == Len(order)
  <1>1. l \in Nat /\ DOMAIN order = 1..l /\ \A n \in 1..l : order[n] \in Pages
    BY LenProperties, ElementOfSeq
  <1>2. PICK i \in 1..l :
          /\ order[i] = p
          /\ s = [k \in 1..l |-> IF k < i THEN order[k] ELSE IF k < l THEN order[k + 1] ELSE p]
    <2>1. (CHOOSE k \in DOMAIN order : order[k] = p) \in DOMAIN order
          /\ order[CHOOSE k \in DOMAIN order : order[k] = p] = p
      OBVIOUS
    <2> QED
      BY <1>1, <2>1 DEF WithNewest
  <1>3. DOMAIN s = 1..l /\ \A k \in 1..l : s[k] \in Pages
    <2>1. \A k \in 1..l : k < l => k + 1 \in 1..l
      BY <1>1
    <2> QED
      BY <1>1, <1>2, <2>1
  <1>4. s \in Seq(Pages)
    <2>1. s \in [1..l -> Pages]
      BY <1>2, <1>3
    <2> QED
      BY <1>1, <2>1, SeqDef
  <1>5. Len(s) = l
    BY <1>1, <1>3, <1>4, LenProperties
  <1>6. ASSUME NEW q \in Pages PROVE \E n \in 1..l : s[n] = q
    <2>1. PICK n \in 1..l : order[n] = q
      BY <1>1
    <2>2. CASE n < i
      BY <1>2, <2>1, <2>2
    <2>3. CASE n = i
      <3>1. l \in 1..l /\ ~(l < i)
        BY <1>1, <1>2
      <3> QED
        BY <1>1, <1>2, <2>1, <2>3, <3>1
    <2>4. CASE n > i
      <3>1. n - 1 \in 1..l /\ ~(n - 1 < i) /\ n - 1 < l /\ (n - 1) + 1 = n
        BY <1>1, <1>2, <2>1, <2>4
      <3> QED
        BY <1>2, <2>1, <3>1
    <2> QED
      BY <1>1, <1>2, <2>1, <2>2, <2>3, <2>4
  <1> QED
    BY <1>3, <1>4, <1>5, <1>6
PagesOK ==
    /\ failures \in [Pages -> 0..FailuresToStop]
    /\ dueIn \in [Pages -> Nat] /\ \A p \in Pages : dueIn[p] <= Interval[p]
    /\ order \in Seq(Pages) /\ Len(order) = Len(PageOrder)
    /\ \A p \in Pages : \E n \in DOMAIN order : order[n] = p

StopOK ==
    /\ stopped \in Pages \cup {NoPage}
    /\ retryIn \in 0..LongestWait /\ retryWait \in 0..LongestWait
    /\ notice \in BOOLEAN /\ refused \in BOOLEAN

PlanOK == restLeft \in 0..ShortestInterval /\ nextIn \in Nat \cup {Never}

\* A round that is under way has a page to ask.
RoundsOK ==
    /\ todo \in [Rounds -> Seq(Pages)]
    /\ \A r \in Rounds : at[r] # "idle" => todo[r] # <<>>

CountsOK ==
    /\ visits \in 0..MaxVisits /\ today \in 0..MaxDay /\ panels \in 0..MaxPanel
    /\ quietFor \in 0..MaxAsks /\ quiet \in 0..Debounce \cup {Never}
    /\ life \in {"on", "closing", "gone"}

TypeInv == PagesOK /\ StopOK /\ PlanOK /\ RoundsOK /\ CountsOK

LEMMA WaitType ==
  /\ LongestWait \in Nat /\ FirstRetry <= LongestWait /\ LongestRetry <= LongestWait
  /\ ShortestInterval <= LongestWait
  BY ShortestType, CoordinatorAssumption DEF LongestWait, Greatest

LEMMA PlanType ==
  dueIn \in [Pages -> Nat] /\ retryIn \in Nat /\ restLeft \in Nat => Plan \in Nat
  <1> SUFFICES ASSUME dueIn \in [Pages -> Nat], retryIn \in Nat, restLeft \in Nat
               PROVE  Plan \in Nat
    OBVIOUS
  <1> DEFINE S == {dueIn[p] : p \in Pages}
             first == CHOOSE d \in S : \A p \in Pages : d <= dueIn[p]
  <1>1. S \subseteq Nat /\ S # {}
    BY CoordinatorAssumption
  <1>2. \E d \in S : \A p \in Pages : d <= dueIn[p]
    <2>1. \A p \in Pages : dueIn[p] \in S
      OBVIOUS
    <2> HIDE DEF S
    <2>2. PICK d \in S : \A t \in S : d <= t
      BY <1>1, LeastOf
    <2> QED
      BY <2>1, <2>2
  <1>3. first \in Nat
    <2>1. first \in S
      BY <1>2
    <2> HIDE DEF S, first
    <2> QED
      BY <1>1, <2>1
  <1>4. Plan = Greatest(IF stopped = NoPage THEN first ELSE retryIn, restLeft)
    BY DEF Plan
  <1> HIDE DEF first
  <1> QED
    BY <1>3, <1>4 DEF Greatest

LEMMA PlanTypeNext ==
  (dueIn \in [Pages -> Nat] /\ retryIn \in Nat /\ restLeft \in Nat => Plan \in Nat)'
  BY PlanType, PTL

\* A plan made from types that hold after the step.
LEMMA PlansTypes ==
  ASSUME PagesOK', StopOK', restLeft' \in 0..ShortestInterval, PlansNextRound
  PROVE  PlanOK'
  <1>1. dueIn' \in [Pages -> Nat] /\ retryIn' \in Nat /\ restLeft' \in Nat
    BY WaitType, ShortestType DEF PagesOK, StopOK
  <1> QED
    BY <1>1, PlanTypeNext DEF PlansNextRound, PlanOK

LEMMA EndsTypes ==
  ASSUME Types, TypeInv, NEW r \in Rounds, RoundEnds(r),
         PagesOK', StopOK', restLeft' \in 0..ShortestInterval
  PROVE  PlanOK' /\ RoundsOK'
  <1>1. PlanOK'
    BY PlansTypes DEF RoundEnds
  <1>2. RoundsOK'
    <2>1. /\ todo' \in [Rounds -> Seq(Pages)] /\ at'[r] = "idle"
          /\ \A q \in Rounds \ {r} : at'[q] = at[q] /\ todo'[q] = todo[q]
      BY DEF RoundEnds, TypeInv, RoundsOK, Types
    <2> QED
      BY <2>1 DEF TypeInv, RoundsOK
  <1> QED
    BY <1>1, <1>2

LEMMA GoesOnTypes ==
  ASSUME Types, TypeInv, NEW r \in Rounds, RoundGoesOn(r), PagesOK', StopOK'
  PROVE  PlanOK' /\ RoundsOK'
  <1>1. restLeft' = restLeft /\ restLeft \in 0..ShortestInterval
    BY DEF RoundGoesOn, TypeInv, PlanOK
  <1>2. CASE ~(Len(todo[r]) > 1)
    BY <1>1, <1>2, EndsTypes DEF RoundGoesOn
  <1>3. CASE Len(todo[r]) > 1
    <2>1. /\ at' = [at EXCEPT ![r] = "dialog"] /\ UNCHANGED nextIn
          /\ todo' = [todo EXCEPT ![r] = Tail(todo[r])]
      BY <1>3 DEF RoundGoesOn
    <2>2. todo[r] \in Seq(Pages)
      BY DEF TypeInv, RoundsOK
    <2>3. Tail(todo[r]) \in Seq(Pages) /\ Tail(todo[r]) # <<>>
      <3>1. todo[r] # <<>>
        BY <1>3, <2>2, EmptySeq
      <3>2. Tail(todo[r]) \in Seq(Pages) /\ Len(Tail(todo[r])) = Len(todo[r]) - 1
        BY <2>2, <3>1, HeadTailProperties
      <3>3. Len(todo[r]) \in Nat
        BY <2>2, LenProperties
      <3>4. \A l \in Nat : l > 1 => l - 1 # 0
        OBVIOUS
      <3>5. Len(Tail(todo[r])) # 0
        BY ONLY <1>3, <3>2, <3>3, <3>4, Zenon
      <3>6. Len(<<>>) = 0
        BY EmptySeq
      <3> QED
        BY ONLY <3>2, <3>5, <3>6, Zenon
    <2>4. RoundsOK'
      <3>1. /\ todo' \in [Rounds -> Seq(Pages)] /\ todo'[r] # <<>>
            /\ \A q \in Rounds \ {r} : at'[q] = at[q] /\ todo'[q] = todo[q]
        BY <2>1, <2>3 DEF TypeInv, RoundsOK, Types
      <3> QED
        BY <3>1 DEF TypeInv, RoundsOK
    <2> QED
      BY <1>1, <2>1, <2>4 DEF TypeInv, PlanOK
  <1> QED
    BY <1>2, <1>3

LEMMA StoresTypes ==
  ASSUME Types, TypeInv, NEW p \in Pages, Stores(p)
  PROVE  /\ failures' \in [Pages -> 0..FailuresToStop]
         /\ order' \in Seq(Pages) /\ Len(order') = Len(PageOrder)
         /\ \A q \in Pages : \E n \in DOMAIN order' : order'[n] = q
  <1>1. failures' \in [Pages -> 0..FailuresToStop]
    BY DEF Stores, TypeInv, PagesOK, FailuresToStop
  <1>2. order' = WithNewest(p)
    BY DEF Stores
  <1>3. PICK s : s = order'
    OBVIOUS
  <1>4. /\ s \in Seq(Pages) /\ Len(s) = Len(order)
        /\ \A q \in Pages : \E n \in DOMAIN s : s[n] = q
    <2>1. /\ order \in Seq(Pages) /\ s = WithNewest(p)
          /\ \A q \in Pages : \E n \in DOMAIN order : order[n] = q
      BY <1>2, <1>3 DEF TypeInv, PagesOK
    <2> QED
      BY ONLY <2>1, NewestType
  <1> QED
    BY <1>1, <1>3, <1>4 DEF TypeInv, PagesOK

\* A page due at once, or within its interval.
LEMMA DueTypes ==
  ASSUME TypeInv, NEW p \in Pages, NEW n \in 0..Interval[p],
         dueIn' = [dueIn EXCEPT ![p] = n]
  PROVE  dueIn' \in [Pages -> Nat] /\ \A q \in Pages : dueIn'[q] <= Interval[q]
  <1>1. n \in Nat /\ n <= Interval[p]
    BY CoordinatorAssumption
  <1>2. dueIn' \in [Pages -> Nat]
    BY <1>1 DEF TypeInv, PagesOK
  <1>3. ASSUME NEW q \in Pages PROVE dueIn'[q] <= Interval[q]
    <2>1. dueIn[q] <= Interval[q] /\ dueIn'[q] = IF q = p THEN n ELSE dueIn[q]
      BY DEF TypeInv, PagesOK
    <2> QED
      BY <1>1, <2>1
  <1> QED
    BY <1>2, <1>3

LEMMA NoneDueTypes ==
  ASSUME dueIn' = [q \in Pages |-> 0]
  PROVE  dueIn' \in [Pages -> Nat] /\ \A q \in Pages : dueIn'[q] <= Interval[q]
  <1>1. \A q \in Pages : 0 <= Interval[q] /\ dueIn'[q] = 0
    BY CoordinatorAssumption
  <1> QED
    BY <1>1

LEMMA IntervalType == \A p \in Pages : 0 \in 0..Interval[p] /\ Interval[p] \in 0..Interval[p]
  BY CoordinatorAssumption

LEMMA WaitsTypes ==
  ASSUME TypeInv PROVE NextWait \in 0..LongestWait
  <1>1. retryWait \in Nat /\ LongestRetry \in Nat /\ FirstRetry \in Nat
    BY WaitType, CoordinatorAssumption DEF TypeInv, StopOK
  <1>2. Greatest(FirstRetry, ShortestInterval) \in 0..LongestWait
    BY <1>1, WaitType, ShortestType DEF Greatest
  <1>3. Least(2 * retryWait, LongestRetry) \in 0..LongestWait
    BY <1>1, WaitType DEF Least
  <1> QED
    BY <1>2, <1>3 DEF NextWait

LEMMA TypesInit == Init => TypeInv
  <1> SUFFICES ASSUME Init PROVE TypeInv
    OBVIOUS
  <1>1. PagesOK
    <2>1. Len(PageOrder) \in Nat
      BY OrderAssumption, LenProperties
    <2>2. \A p \in Pages : \E n \in DOMAIN PageOrder : PageOrder[n] = p
      BY OrderAssumption, LenProperties DEF Pages
    <2> QED
      BY <2>1, <2>2, OrderAssumption, CoordinatorAssumption DEF Init, PagesOK, FailuresToStop
  <1>2. StopOK /\ PlanOK
    <2>1. 0 \in 0..LongestWait /\ 0 \in 0..ShortestInterval
      BY WaitType, ShortestType
    <2> QED
      BY <2>1 DEF Init, StopOK, PlanOK
  <1>3. RoundsOK
    BY EmptySeq DEF Init, RoundsOK
  <1>4. CountsOK
    BY CoordinatorAssumption DEF Init, CountsOK
  <1> QED
    BY <1>1, <1>2, <1>3, <1>4 DEF TypeInv

\* The page a round is at.
LEMMA HeadType ==
  ASSUME TypeInv, NEW r \in Rounds, at[r] # "idle" PROVE Head(todo[r]) \in Pages
  <1>1. todo[r] \in Seq(Pages) /\ todo[r] # <<>>
    BY DEF TypeInv, RoundsOK
  <1> QED
    BY ONLY <1>1, HeadTailProperties

LEMMA StartTypes ==
  ASSUME Types, TypeInv, NEW r \in Rounds, StartRound(r)
  PROVE  TypeInv'
  <1>1. /\ UNCHANGED <<pageVars, stopVars, dueIn, restLeft, refused, quiet, quietFor>>
        /\ UNCHANGED worldVars
    BY DEF StartRound, burstVars
  <1>2. PagesOK' /\ StopOK' /\ CountsOK' /\ restLeft' \in 0..ShortestInterval
    BY <1>1 DEF TypeInv, PagesOK, StopOK, CountsOK, PlanOK, pageVars, stopVars, worldVars
  <1>3. PlanOK' /\ RoundsOK'
    <2>1. CASE refused
      BY <1>1, <2>1 DEF StartRound, TypeInv, PlanOK, RoundsOK
    <2>2. CASE ~refused /\ DuePages = <<>>
      BY <1>2, <2>2, EndsTypes DEF StartRound
    <2>3. CASE ~refused /\ DuePages # <<>>
      <3>1. DuePages \in Seq(Pages)
        BY DueType DEF TypeInv, PagesOK
      <3>2. /\ nextIn' = Never /\ at' = [at EXCEPT ![r] = "dialog"]
            /\ todo' = [todo EXCEPT ![r] = DuePages]
        BY <2>3 DEF StartRound
      <3>3. /\ todo' \in [Rounds -> Seq(Pages)] /\ todo'[r] # <<>>
            /\ \A q \in Rounds \ {r} : at'[q] = at[q] /\ todo'[q] = todo[q]
        BY <2>3, <3>1, <3>2 DEF TypeInv, RoundsOK, Types
      <3> QED
        BY <1>2, <3>2, <3>3 DEF TypeInv, RoundsOK, PlanOK
    <2> QED
      BY <2>1, <2>2, <2>3
  <1> QED
    BY <1>2, <1>3 DEF TypeInv

LEMMA SeesTypes ==
  ASSUME Types, TypeInv, NEW r \in Rounds, SeesNoDialog(r)
  PROVE  TypeInv'
  <1>1. UNCHANGED <<pageVars, stopVars, planVars, todo, quiet, quietFor, worldVars>>
    BY DEF SeesNoDialog, burstVars
  <1>2. PagesOK' /\ StopOK' /\ CountsOK' /\ PlanOK'
    BY <1>1 DEF TypeInv, PagesOK, StopOK, CountsOK, PlanOK, pageVars, stopVars,
                planVars, worldVars
  <1>3. \A q \in Rounds : at'[q] # "idle" => at[q] # "idle"
    BY DEF SeesNoDialog, Types
  <1>4. RoundsOK'
    BY <1>1, <1>3 DEF TypeInv, RoundsOK
  <1> QED
    BY <1>2, <1>4 DEF TypeInv

LEMMA TurnTypes ==
  ASSUME Types, TypeInv, NEW r \in Rounds, TakesTurn(r)
  PROVE  TypeInv'
  <1> DEFINE p == Head(todo[r])
  <1>1. /\ UNCHANGED <<pageVars, stopVars, refused, quiet, quietFor, worldVars>>
        /\ at[r] = "turn"
    BY DEF TakesTurn, burstVars
  <1>2. p \in Pages
    BY <1>1, HeadType
  <1>3. StopOK' /\ CountsOK'
    BY <1>1 DEF TypeInv, StopOK, CountsOK, stopVars, worldVars
  <1>4. ASSUME UNCHANGED dueIn PROVE PagesOK'
    BY <1>1, <1>4 DEF TypeInv, PagesOK, pageVars
  <1>5. CASE DialogCameBetween /\ UNCHANGED <<dueIn, restLeft, asking>> /\ RoundEnds(r)
    <2>1. restLeft' \in 0..ShortestInterval
      BY <1>5 DEF TypeInv, PlanOK
    <2> QED
      BY <1>3, <1>4, <1>5, <2>1, EndsTypes DEF TypeInv
  <1>6. CASE ~DialogCameBetween /\ UNCHANGED <<dueIn, asking>> /\ RoundGoesOn(r)
    BY <1>3, <1>4, <1>6, GoesOnTypes DEF TypeInv
  <1>7. CASE /\ dueIn' = [dueIn EXCEPT ![p] = Interval[p]]
             /\ at' = [at EXCEPT ![r] = IF life = "on" THEN "page" ELSE "late"]
             /\ UNCHANGED <<todo, restLeft, nextIn>>
    <2>1. PagesOK'
      <3>1. dueIn' \in [Pages -> Nat] /\ \A q \in Pages : dueIn'[q] <= Interval[q]
        BY <1>2, <1>7, IntervalType, DueTypes
      <3> QED
        BY <1>1, <3>1 DEF TypeInv, PagesOK, pageVars
    <2>2. \A q \in Rounds : at'[q] # "idle" => at[q] # "idle"
      BY <1>1, <1>7 DEF Types
    <2>3. PlanOK' /\ RoundsOK'
      BY <1>7, <2>2 DEF TypeInv, PlanOK, RoundsOK
    <2> QED
      BY <1>3, <2>1, <2>3 DEF TypeInv
  <1> QED
    BY <1>5, <1>6, <1>7 DEF TakesTurn

LEMMA PageTypes ==
  ASSUME Types, TypeInv, NEW r \in Rounds,
         PageComes(r) \/ PageFails(r) \/ PageLoginRefused(r) \/ PageClosed(r)
  PROVE  TypeInv'
  <1> DEFINE p == Head(todo[r])
  <1>1. /\ UNCHANGED <<quiet, quietFor, worldVars>> /\ at[r] \in AtPage
    BY DEF PageComes, PageFails, PageLoginRefused, PageClosed, PageOver, burstVars, AtPage
  <1>2. p \in Pages
    BY <1>1, HeadType DEF AtPage
  <1>3. CountsOK'
    BY <1>1 DEF TypeInv, CountsOK, worldVars
  <1>4. ShortestInterval \in 0..ShortestInterval
    BY ShortestType
  <1>5. CASE PageComes(r)
    <2>1. /\ Stores(p) /\ stopped' = NoPage /\ retryIn' = 0 /\ retryWait' = 0
          /\ notice' = (notice /\ stopped = NoPage)
          /\ UNCHANGED <<dueIn, refused>> /\ RoundGoesOn(r)
      BY <1>5 DEF PageComes
    <2>2. PagesOK'
      BY <1>2, <2>1, StoresTypes DEF TypeInv, PagesOK
    <2>3. StopOK'
      BY <2>1, WaitType DEF TypeInv, StopOK
    <2> QED
      BY <1>3, <2>1, <2>2, <2>3, GoesOnTypes DEF TypeInv
  <1>6. CASE PageFails(r)
    <2>1. PICK unreachable \in BOOLEAN :
            /\ failures' = [failures EXCEPT ![p] = Least(@ + 1, FailuresToStop)]
            /\ IF failures[p] + 1 >= FailuresToStop
               THEN Stops(p)
               ELSE UNCHANGED <<hasValues, dueIn, stopVars>>
            /\ IF unreachable \/ failures[p] + 1 >= FailuresToStop
               THEN RoundEndsEarly(r)
               ELSE RoundGoesOn(r)
      BY <1>6 DEF PageFails
    <2>2. UNCHANGED <<order, refused>>
      BY <1>6 DEF PageFails
    <2>3. failures' \in [Pages -> 0..FailuresToStop]
      <3>1. failures[p] \in 0..FailuresToStop
        BY <1>2 DEF TypeInv, PagesOK
      <3>2. Least(failures[p] + 1, FailuresToStop) \in 0..FailuresToStop
        BY <3>1 DEF Least, FailuresToStop
      <3> HIDE DEF p
      <3> QED
        BY <2>1, <3>2 DEF TypeInv, PagesOK
    <2>4. PagesOK' /\ StopOK'
      <3>1. CASE Stops(p)
        <4>1. /\ stopped' = p /\ retryWait' = NextWait /\ retryIn' = NextWait
              /\ notice' = TRUE
              /\ dueIn' = dueIn \/ dueIn' = [q \in Pages |-> 0]
          BY <3>1 DEF Stops
        <4>2. dueIn' \in [Pages -> Nat] /\ \A q \in Pages : dueIn'[q] <= Interval[q]
          BY <4>1, NoneDueTypes DEF TypeInv, PagesOK
        <4> QED
          BY <1>2, <2>2, <2>3, <4>1, <4>2, WaitsTypes DEF TypeInv, PagesOK, StopOK
      <3>2. CASE UNCHANGED <<hasValues, dueIn, stopVars>>
        BY <2>2, <2>3, <3>2 DEF TypeInv, PagesOK, StopOK, stopVars
      <3> QED
        BY <2>1, <3>1, <3>2
    <2>5. CASE RoundEndsEarly(r)
      <3>1. RoundEnds(r) /\ restLeft' \in 0..ShortestInterval
        BY <1>4, <2>5 DEF RoundEndsEarly, Rests
      <3> QED
        BY <1>3, <2>4, <3>1, EndsTypes DEF TypeInv
    <2>6. CASE RoundGoesOn(r)
      BY <1>3, <2>4, <2>6, GoesOnTypes DEF TypeInv
    <2> QED
      BY <2>1, <2>5, <2>6
  <1>7. CASE PageLoginRefused(r)
    <2>1. /\ refused' = TRUE /\ at' = [at EXCEPT ![r] = "idle"]
          /\ todo' = [todo EXCEPT ![r] = <<>>]
          /\ UNCHANGED <<pageVars, stopVars, dueIn, restLeft, nextIn>>
      BY <1>7 DEF PageLoginRefused
    <2>2. PagesOK' /\ StopOK' /\ PlanOK'
      BY <2>1 DEF TypeInv, PagesOK, StopOK, PlanOK, pageVars, stopVars
    <2>3. RoundsOK'
      <3>1. /\ todo' \in [Rounds -> Seq(Pages)] /\ at'[r] = "idle"
            /\ \A q \in Rounds \ {r} : at'[q] = at[q] /\ todo'[q] = todo[q]
        BY <2>1, EmptySeq DEF TypeInv, RoundsOK, Types
      <3> QED
        BY <3>1 DEF TypeInv, RoundsOK
    <2> QED
      BY <1>3, <2>2, <2>3 DEF TypeInv
  <1>8. CASE PageClosed(r)
    <2>1. /\ RoundEnds(r) /\ restLeft' \in 0..ShortestInterval
          /\ UNCHANGED <<pageVars, stopVars, dueIn, refused>>
      BY <1>4, <1>8 DEF PageClosed, RoundEndsEarly, Rests
    <2>2. PagesOK' /\ StopOK'
      BY <2>1 DEF TypeInv, PagesOK, StopOK, pageVars, stopVars
    <2> QED
      BY <1>3, <2>1, <2>2, EndsTypes DEF TypeInv
  <1> QED
    BY <1>5, <1>6, <1>7, <1>8

LEMMA RoundTypes ==
  ASSUME Types, TypeInv, NEW r \in Rounds, Round(r) PROVE TypeInv'
  BY StartTypes, SeesTypes, TurnTypes, PageTypes DEF Round, PlannedRound, RoundByHand

LEMMA WriteKeepsTypes ==
  ASSUME Types, Types', TypeInv, NEW w \in Asks, Write(w) PROVE TypeInv'
  <1>1. /\ WriteFrame(w) /\ UNCHANGED <<stopVars, todo, panels>>
    <2>1. WriteFrame(w)
      BY WriteFacts
    <2>2. UNCHANGED <<stopVars, todo, panels>>
      <3>1. ASSUME NEW end, WriteOver(w, end) PROVE UNCHANGED <<stopVars, todo, panels>>
        BY <3>1 DEF WriteOver, roundVars
      <3>2. CASE \/ WriteTakesTurn(w) \/ FormRead(w) \/ SaveGoesOut(w) \/ SaveAnswered(w)
        BY <3>2 DEF WriteTakesTurn, FormRead, SaveGoesOut, SaveAnswered, roundVars, worldVars
      <3>3. CASE \/ ShownAlready(w) \/ WriteNotSent(w) \/ SaveRejected(w)
                 \/ SaveUnclear(w) \/ ReadBack(w) \/ NotReadBack(w)
                 \/ CountedWriteFaults(w)
        BY <3>1, <3>3 DEF ShownAlready, WriteNotSent, SaveRejected, SaveUnclear, ReadBack,
           NotReadBack, CountedWriteFaults
      <3> QED
        BY <3>2, <3>3 DEF Write
    <2> QED
      BY <2>1, <2>2
  <1>2. CountsOK' /\ RoundsOK'
    BY <1>1 DEF WriteFrame, TypeInv, CountsOK, RoundsOK
  <1>3. restLeft' \in 0..ShortestInterval
    BY <1>1, ShortestType DEF WriteFrame, RestMoves, TypeInv, PlanOK
  <1>4. refused' \in BOOLEAN
    BY DEF Write, WriteTakesTurn, ShownAlready, FormRead, WriteNotSent, SaveGoesOut,
       SaveAnswered, SaveRejected, SaveUnclear, ReadBack, NotReadBack,
       CountedWriteFaults, AfterFailure, Publishes, planVars, TypeInv, StopOK
  <1>5. StopOK'
    BY <1>1, <1>4 DEF TypeInv, StopOK, stopVars
  <1>6. CASE ShownAlready(w) \/ ReadBack(w)
    <2>1. Publishes /\ PlansNextRound
      BY <1>6 DEF ShownAlready, ReadBack
    <2>2. PagesOK'
      <3>1. Heating \in Pages /\ Interval \in [Pages -> Nat]
        BY CoordinatorAssumption
      <3>2. dueIn' = [dueIn EXCEPT ![Heating] = Interval[Heating]] /\ Stores(Heating)
        BY <2>1 DEF Publishes
      <3>3. dueIn' \in [Pages -> Nat] /\ \A q \in Pages : dueIn'[q] <= Interval[q]
        BY <3>1, <3>2, IntervalType, DueTypes
      <3> QED
        BY <3>1, <3>2, <3>3, StoresTypes DEF PagesOK
    <2>3. PlanOK'
      BY <1>3, <1>5, <2>1, <2>2, PlansTypes
    <2> QED
      BY <1>2, <1>5, <2>2, <2>3 DEF TypeInv
  <1>7. CASE ~(ShownAlready(w) \/ ReadBack(w))
    <2>1. /\ UNCHANGED <<failures, order, nextIn>>
          /\ dueIn' = dueIn \/ dueIn' = [dueIn EXCEPT ![Heating] = 0]
      BY <1>7 DEF Write, WriteTakesTurn, FormRead, WriteNotSent, SaveGoesOut,
         SaveAnswered, SaveRejected, SaveUnclear, NotReadBack, CountedWriteFaults,
         AfterFailure, pageVars, planVars
    <2>2. dueIn' \in [Pages -> Nat] /\ \A q \in Pages : dueIn'[q] <= Interval[q]
      <3>1. CASE dueIn' = dueIn
        BY <3>1 DEF TypeInv, PagesOK
      <3>2. CASE dueIn' = [dueIn EXCEPT ![Heating] = 0]
        BY <3>2, CoordinatorAssumption, IntervalType, DueTypes
      <3> QED
        BY <2>1, <3>1, <3>2
    <2>3. PagesOK' /\ PlanOK'
      BY <1>3, <2>1, <2>2 DEF TypeInv, PagesOK, PlanOK
    <2> QED
      BY <1>2, <1>5, <2>3 DEF TypeInv
  <1> QED
    BY <1>6, <1>7

LEMMA AskTypes ==
  ASSUME Types, TypeInv, NEW t \in Targets, Ask(t) PROVE TypeInv'
  <1>1. UNCHANGED <<pageVars, stopVars, planVars, roundVars, held, life, panels, visits, today>>
    BY DEF Ask
  <1>2. quietFor' \in 0..MaxAsks /\ quiet' \in 0..Debounce
    BY CoordinatorAssumption DEF Ask, Types, Asks
  <1>3. PagesOK' /\ StopOK' /\ PlanOK' /\ RoundsOK' /\ CountsOK'
    BY <1>1, <1>2 DEF TypeInv, PagesOK, StopOK, CountsOK, PlanOK, RoundsOK, pageVars,
                      stopVars, planVars, roundVars
  <1> QED
    BY <1>3 DEF TypeInv

LEMMA WorldTypes ==
  ASSUME Types, TypeInv,
         \/ \E t \in Targets : PanelChange(t)
         \/ QuietOver \/ VisitBegins \/ VisitEnds \/ Midnight
  PROVE  TypeInv'
  <1>1. UNCHANGED <<pageVars, stopVars, planVars, roundVars, life>>
    BY DEF PanelChange, QuietOver, VisitBegins, VisitEnds, Midnight, worldVars
  <1>2. /\ visits \in 0..MaxVisits /\ today \in 0..MaxDay /\ panels \in 0..MaxPanel
        /\ quietFor \in 0..MaxAsks /\ quiet \in 0..Debounce \cup {Never}
        /\ {MaxVisits, MaxDay, MaxPanel, MaxAsks} \subseteq Nat
    BY CoordinatorAssumption DEF TypeInv, CountsOK
  <1>3. /\ visits' \in 0..MaxVisits /\ today' \in 0..MaxDay /\ panels' \in 0..MaxPanel
        /\ quietFor' \in 0..MaxAsks /\ quiet' \in 0..Debounce \cup {Never}
    <2>1. CASE \E t \in Targets : PanelChange(t)
      BY <1>2, <2>1 DEF PanelChange, burstVars
    <2>2. CASE QuietOver
      BY <1>2, <2>2 DEF QuietOver, worldVars
    <2>3. CASE VisitBegins
      BY <1>2, <2>3 DEF VisitBegins, burstVars
    <2>4. CASE VisitEnds
      BY <1>2, <2>4 DEF VisitEnds, burstVars
    <2>5. CASE Midnight
      BY <1>2, <2>5 DEF Midnight, burstVars
    <2> QED
      BY <2>1, <2>2, <2>3, <2>4, <2>5
  <1>4. PagesOK' /\ StopOK' /\ PlanOK' /\ RoundsOK' /\ CountsOK'
    BY <1>1, <1>3 DEF TypeInv, PagesOK, StopOK, CountsOK, PlanOK, RoundsOK, pageVars,
                      stopVars, planVars, roundVars
  <1> QED
    BY <1>4 DEF TypeInv

LEMMA UnloadTypes ==
  ASSUME Types, TypeInv, Unload \/ Unloaded PROVE TypeInv'
  <1>1. CASE Unload
    <2>1. /\ UNCHANGED <<pageVars, stopped, retryIn, retryWait, dueIn, restLeft, refused,
                         roundVars, panels, visits, today>>
          /\ life' = "closing" /\ nextIn' = Never /\ quiet' = Never /\ quietFor' = 0
          /\ notice' = FALSE
      BY <1>1 DEF Unload
    <2>2. PagesOK' /\ StopOK' /\ PlanOK' /\ RoundsOK'
      BY <2>1 DEF TypeInv, PagesOK, StopOK, PlanOK, RoundsOK, pageVars, roundVars
    <2>3. CountsOK'
      BY <2>1, CoordinatorAssumption DEF TypeInv, CountsOK
    <2> QED
      BY <2>2, <2>3 DEF TypeInv
  <1>2. CASE Unloaded
    <2>1. PagesOK' /\ StopOK' /\ PlanOK' /\ CountsOK'
      BY <1>2
         DEF Unloaded, TypeInv, PagesOK, StopOK, CountsOK, PlanOK, pageVars, stopVars,
             planVars, burstVars
    <2>2. RoundsOK'
      BY <1>2, EmptySeq DEF Unloaded, RoundsOK
    <2> QED
      BY <2>1, <2>2 DEF TypeInv
  <1> QED
    BY <1>1, <1>2

LEMMA DownType ==
  /\ \A m \in Nat : \A n \in 0..m : Down(n) \in 0..m
  /\ \A n \in Nat \cup {Never} : Down(n) \in Nat \cup {Never}
  /\ \A m \in Nat : \A n \in 0..m \cup {Never} : Down(n) \in 0..m \cup {Never}
  BY DEF Down, Never

LEMMA TickTypes ==
  ASSUME Types, TypeInv, Tick PROVE TypeInv'
  <1>1. PagesOK'
    <2>1. /\ dueIn' = [q \in Pages |-> Down(dueIn[q])] /\ UNCHANGED pageVars
          /\ Interval \in [Pages -> Nat]
      BY CoordinatorAssumption DEF Tick
    <2>2. ASSUME NEW q \in Pages PROVE Down(dueIn[q]) \in Nat /\ Down(dueIn[q]) <= Interval[q]
      <3>1. dueIn[q] \in 0..Interval[q] /\ Interval[q] \in Nat
        BY <2>1 DEF TypeInv, PagesOK
      <3> QED
        BY <3>1, DownType
    <2> QED
      BY <2>1, <2>2 DEF TypeInv, PagesOK, pageVars
  <1>2. StopOK'
    <2>1. /\ retryIn' = Down(retryIn) /\ UNCHANGED <<stopped, retryWait, notice, refused>>
          /\ retryIn \in 0..LongestWait
      BY DEF Tick, TypeInv, StopOK
    <2>2. retryIn' \in 0..LongestWait
      BY <2>1, WaitType, DownType
    <2> QED
      BY <2>1, <2>2 DEF TypeInv, StopOK
  <1>3. PlanOK'
    BY ShortestType, DownType DEF Tick, TypeInv, PlanOK
  <1>4. RoundsOK'
    BY DEF Tick, TypeInv, RoundsOK, roundVars
  <1>5. CountsOK'
    <2>1. quiet' = Down(quiet) /\ UNCHANGED <<quietFor, visits, today, panels, life>>
      BY DEF Tick, worldVars
    <2> QED
      BY <2>1, CoordinatorAssumption, DownType DEF TypeInv, CountsOK
  <1> QED
    BY <1>1, <1>2, <1>3, <1>4, <1>5 DEF TypeInv

LEMMA TypesStep == Types /\ Types' /\ TypeInv /\ [Next]_vars => TypeInv'
  <1> SUFFICES ASSUME Types, Types', TypeInv, [Next]_vars PROVE TypeInv'
    OBVIOUS
  <1>1. CASE UNCHANGED vars
    BY <1>1 DEF vars, TypeInv, PagesOK, StopOK, CountsOK, PlanOK, RoundsOK, pageVars,
                stopVars, planVars, roundVars, burstVars, worldVars
  <1>2. CASE \E r \in Rounds : Round(r)
    BY <1>2, RoundTypes
  <1>3. CASE \E w \in Asks : Write(w)
    BY <1>3, WriteKeepsTypes
  <1>4. CASE \E t \in Targets : Ask(t)
    BY <1>4, AskTypes
  <1>5. CASE \/ \E t \in Targets : PanelChange(t)
             \/ QuietOver \/ VisitBegins \/ VisitEnds \/ Midnight
    BY <1>5, WorldTypes
  <1>6. CASE Unload \/ Unloaded
    BY <1>6, UnloadTypes
  <1>7. CASE Tick
    BY <1>7, TickTypes
  <1> QED
    BY <1>1, <1>2, <1>3, <1>4, <1>5, <1>6, <1>7 DEF Next

LEMMA TypesSuffice == Types /\ TypeInv => TypeOK
  <1> SUFFICES ASSUME Types, TypeInv PROVE TypeOK
    OBVIOUS
  <1>1. asks \in Nat /\ asks <= MaxAsks /\ MaxAsks \in Nat /\ burst \in 0..MaxAsks
    BY CoordinatorAssumption DEF Types
  <1>2. \A p \in Pages : dueIn[p] \in 0..Interval[p]
    BY CoordinatorAssumption DEF TypeInv, PagesOK
  <1> QED
    BY <1>1, <1>2
       DEF TypeOK, Types, TypeInv, PagesOK, StopOK, PlanOK, RoundsOK, CountsOK, Places, Steps

\* No wait outgrows the longest, no page's count of failures the stop's, and a
\* round under way always has a page left to ask, whichever steps interleave
\* (_stop, _plan_next_round, _oldest_first, _round).
THEOREM TypeCorrect == Spec => []TypeOK
  <1>1. CoordInv => Types
    BY DEF CoordInv
  <1>2. CoordInv' => Types'
    BY DEF CoordInv
  <1> QED
    BY <1>1, <1>2, TypesInit, TypesStep, TypesSuffice, CoordAlways, PTL DEF Spec
====
