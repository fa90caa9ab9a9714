---- MODULE Visit_proofs ----
\* Proofs about a visit, for any number of damaged answers: from what one answer
\* tells of a controller (JudgementAssumption) to what a visit of any length ends in.
EXTENDS Visit, TLAPS

----
\* Types.

Failures == {"none", "Broken", "UnclearValues", "DoubledMenuEntries", "MissingTitles",
             "MissingMenuEntries"}
Ends == {"visited", "Unreachable", "UnknownUnits"}
VisitRecords ==
    [controller : Controllers, at : 1..6, asked : {0, 1}, search : {1, 2},
     family : Models \cup {NoFamily}, hiccups : Nat, result : Failures \cup Ends]

LEMMA StepFacts ==
  /\ DOMAIN Steps = 1..6 /\ Len(Steps) = 6
  /\ \A at \in 1..6 : /\ Steps[at] \in Menus <=> at <= 3
                      /\ Steps[at] \in {"statistics", "heating"} <=> at > 4
  BY DEF Steps, Menus

\* An answer of any kind is judged to fail in a known way.
LEMMA JudgementFacts ==
  ASSUME NEW c \in Controllers, NEW at \in 1..6, NEW m \in Models \cup {NoFamily},
         NEW j \in RightJudgements[c][at][m] \cup DamagedJudgements[c][at][m]
  PROVE  j.failure \in Failures
  <1>1. \A step, answer : MenuFailure(step, answer) \in Failures
    BY DEF MenuFailure, Failures
  <1>2. \A model, page, answer : PageFailure(model, page, answer) \in Failures
    BY DEF PageFailure, Failures
  <1>3. \A step, answer, told : Judged(step, answer, told).failure \in Failures
    BY <1>1, <1>2 DEF Judged
  <1>4. \E answer : j = Judged(Steps[at], answer, m)
    <2>1. at \in DOMAIN Steps
      BY StepFacts
    <2>2. CASE j \in RightJudgements[c][at][m]
      BY <2>1, <2>2 DEF RightJudgements
    <2>3. CASE j \in DamagedJudgements[c][at][m]
      BY <2>1, <2>3 DEF DamagedJudgements
    <2> QED
      BY <2>2, <2>3
  <1> QED
    BY <1>3, <1>4

\* JudgementAssumption of one controller, page by page.
LEMMA AnswersTell ==
  ASSUME NEW c \in Controllers, NEW at \in 1..6, NEW j \in RightAt(c, at) \cup DamagedAt(c, at)
  PROVE  /\ Passes(j) => j.family = IF at <= 3 THEN NoFamily ELSE c.model
         /\ Catalogued(c) /\ j \in RightAt(c, at) => Passes(j)
         /\ Catalogued(c) /\ j.failure = "none" => Passes(j)
         /\ ~Catalogued(c) /\ j \in RightAt(c, at) =>
              j.failure \notin {"Broken", "UnclearValues", "DoubledMenuEntries"}
  <1>1. at \in DOMAIN Steps
    BY StepFacts
  <1>2. Steps[at] \in Menus <=> at <= 3
    BY StepFacts
  <1>3. Passes(j) => j.family = IF Steps[at] \in Menus THEN NoFamily ELSE c.model
    BY ONLY <1>1, JudgementAssumption, Zenon
  <1>4. Catalogued(c) =>
          /\ \A r \in RightAt(c, at) : Passes(r)
          /\ \A d \in DamagedAt(c, at) : d.failure = "none" => ~d.unknown
    BY ONLY <1>1, JudgementAssumption, Zenon
  <1>5. ~Catalogued(c) => \A r \in RightAt(c, at) :
          r.failure \notin {"Broken", "UnclearValues", "DoubledMenuEntries"}
    BY ONLY <1>1, JudgementAssumption, Zenon
  <1> QED
    BY <1>2, <1>3, <1>4, <1>5 DEF Passes

LEMMA OthersAreBlocked ==
  ASSUME NEW c \in Controllers, \A at \in 1..6 : ~Blocks(c, at)
  PROVE  Catalogued([c EXCEPT !.strange = ""])
  <1>1. \A at \in DOMAIN Steps : ~Blocks(c, at)
    BY StepFacts
  <1> QED
    BY ONLY <1>1, c \in Controllers, JudgementAssumption, Zenon

----
\* What an answer makes of the visit: the page is asked again, or searched for once
\* more, or the visit ends without it; the page was the last, or the next is asked.

AsksAgain(v, j) ==
    /\ j.failure # "none" /\ visit.asked = 0
    /\ v.at = visit.at /\ v.asked = 1 /\ v.search = visit.search
    /\ v.family = visit.family /\ v.result = "none"
SearchesAgain(v, j) ==
    /\ j.failure # "none" /\ visit.asked = 1
    /\ SearchedAgain(j.failure) /\ visit.search = 1
    /\ v.at = 1 /\ v.asked = 0 /\ v.search = 2 /\ v.family = NoFamily /\ v.result = "none"
GivesUp(v, j) ==
    /\ \/ /\ j.failure # "none" /\ visit.asked = 1 /\ v.result = j.failure
          /\ SearchedAgain(j.failure) => visit.search = 2
       \/ j.failure = "none" /\ j.unknown /\ v.result = "UnknownUnits"
    /\ v.at = visit.at /\ v.asked = visit.asked /\ v.search = visit.search
    /\ v.family = visit.family
IsDone(v, j) ==
    /\ Passes(j) /\ visit.at = 6 /\ v.result = "visited"
    /\ v.at = visit.at /\ v.asked = visit.asked /\ v.search = visit.search
    /\ v.family = visit.family
GoesOn(v, j) ==
    /\ Passes(j) /\ visit.at < 6 /\ v.result = "none"
    /\ v.at = visit.at + 1 /\ v.asked = 0 /\ v.search = visit.search
    /\ v.family = IF j.family = NoFamily THEN visit.family ELSE j.family

LEMMA GivenUpFacts ==
  ASSUME visit \in VisitRecords, UnderWay, NEW failure \in Failures \cup Ends,
         NEW v, v = GivenUp(failure)
  PROVE  /\ v \in VisitRecords /\ v.controller = visit.controller
         /\ v.hiccups = visit.hiccups
         /\ \/ /\ SearchedAgain(failure) /\ visit.search = 1
               /\ v.at = 1 /\ v.asked = 0 /\ v.search = 2 /\ v.family = NoFamily
               /\ v.result = "none"
            \/ /\ SearchedAgain(failure) => visit.search = 2
               /\ v.at = visit.at /\ v.asked = visit.asked /\ v.search = visit.search
               /\ v.family = visit.family /\ v.result = failure
  <1>1. CASE SearchedAgain(failure) /\ visit.search = 1
    <2>1. v = [visit EXCEPT !.at = 1, !.asked = 0, !.search = 2, !.family = NoFamily]
      BY <1>1 DEF GivenUp
    <2>2. v \in VisitRecords /\ v.controller = visit.controller /\ v.hiccups = visit.hiccups
      <3>1. visit \in VisitRecords /\ 1 \in 1..6
        OBVIOUS
      <3>2. v.controller = visit.controller /\ v.hiccups = visit.hiccups
        BY <2>1, <3>1 DEF VisitRecords
      <3>3. v \in VisitRecords
        BY ONLY <2>1, <3>1 DEF VisitRecords
      <3> QED
        BY <3>2, <3>3
    <2>3. /\ v.at = 1 /\ v.asked = 0 /\ v.search = 2 /\ v.family = NoFamily
          /\ v.result = "none"
      BY <2>1 DEF VisitRecords, UnderWay
    <2> QED
      BY <1>1, <2>2, <2>3
  <1>2. CASE ~(SearchedAgain(failure) /\ visit.search = 1)
    <2>1. v = [visit EXCEPT !.result = failure]
      BY <1>2 DEF GivenUp
    <2> QED
      BY <1>2, <2>1 DEF VisitRecords
  <1> QED
    BY <1>1, <1>2

LEMMA AfterFacts ==
  ASSUME visit \in VisitRecords, UnderWay, NEW j, j.failure \in Failures,
         Passes(j) => j.family \in Models \cup {NoFamily},
         NEW v, v = After(j)
  PROVE  /\ v \in VisitRecords /\ v.controller = visit.controller
         /\ v.hiccups = visit.hiccups
         /\ \/ AsksAgain(v, j) \/ SearchesAgain(v, j) \/ GivesUp(v, j)
            \/ IsDone(v, j) \/ GoesOn(v, j)
  <1>1. CASE j.failure # "none" /\ visit.asked = 0
    <2>1. v = [visit EXCEPT !.asked = 1]
      BY <1>1 DEF After
    <2> QED
      BY <1>1, <2>1 DEF VisitRecords, UnderWay, AsksAgain
  <1>2. CASE j.failure # "none" /\ visit.asked # 0
    <2>1. v = GivenUp(j.failure) /\ visit.asked = 1
      BY <1>2 DEF After, VisitRecords
    <2> QED
      BY <1>2, <2>1, GivenUpFacts DEF SearchesAgain, GivesUp
  <1>3. CASE j.failure = "none" /\ j.unknown
    <2>1. v = GivenUp("UnknownUnits") /\ ~SearchedAgain("UnknownUnits")
      BY <1>3 DEF After, SearchedAgain
    <2> QED
      BY <1>3, <2>1, GivenUpFacts DEF GivesUp, Ends
  <1>4. CASE Passes(j) /\ visit.at = Len(Steps)
    <2>1. v = [visit EXCEPT !.result = "visited"] /\ visit.at = 6
      BY <1>4, StepFacts DEF After, Passes
    <2> QED
      BY <1>4, <2>1 DEF VisitRecords, IsDone, Ends
  <1>5. CASE Passes(j) /\ visit.at # Len(Steps)
    <2>1. PICK f : f = IF j.family = NoFamily THEN visit.family ELSE j.family
      OBVIOUS
    <2>2. /\ v = [visit EXCEPT !.at = @ + 1, !.asked = 0, !.family = f]
          /\ visit.at \in 1..6 /\ visit.at < 6
      BY <1>5, <2>1, StepFacts DEF After, Passes, VisitRecords
    <2>3. f \in Models \cup {NoFamily} /\ visit.at + 1 \in 1..6
      BY <1>5, <2>1, <2>2 DEF VisitRecords
    <2> QED
      BY <1>5, <2>1, <2>2, <2>3 DEF VisitRecords, UnderWay, GoesOn
  <1> QED
    BY <1>1, <1>2, <1>3, <1>4, <1>5 DEF Passes

----
\* The inductive invariant: the family is told from the heat pump page on; no visit
\* comes past a page that blocks its controller; and on a controller of the
\* catalogue each page asked again and each search begun again stands for answers
\* that were damaged.

TellsFamily(v) == v.family = IF v.at > 4 THEN v.controller.model ELSE NoFamily
StopsWhereBlocked(v) ==
    /\ \A at \in 1..6 : Blocks(v.controller, at) => v.at <= at /\ v.result # "visited"
    /\ v.result = "visited" => v.at = 6
Foreign == {"MissingTitles", "MissingMenuEntries", "UnknownUnits"}
PaidFor(v) ==
    Catalogued(v.controller) =>
        /\ v.hiccups >= v.asked + 2 * (v.search - 1)
        /\ v.result \in Foreign => v.hiccups >= 2
        /\ SearchedAgain(v.result) => v.hiccups >= 4
Spared(v) ==
    ~Catalogued(v.controller) /\ v.hiccups = 0 => v.search = 1 /\ ~SearchedAgain(v.result)

VisitInv ==
    /\ visit \in VisitRecords
    /\ TellsFamily(visit) /\ StopsWhereBlocked(visit) /\ PaidFor(visit) /\ Spared(visit)

LEMMA NamesApart ==
  /\ NoFamily \notin Models
  /\ \A c \in Controllers : c.model \in Models
  /\ \A r : SearchedAgain(r) <=> r \in {"Broken", "UnclearValues", "DoubledMenuEntries"}
  BY DEF NoFamily, Models, Wbb, Evoblock, Controllers, SearchedAgain

LEMMA VisitInvInit == VisitInit => VisitInv
  <1> SUFFICES ASSUME NEW c \in Controllers,
                      visit = [controller |-> c, at |-> 1, asked |-> 0, search |-> 1,
                               family |-> NoFamily, hiccups |-> 0, result |-> "none"]
               PROVE  VisitInv
    BY DEF VisitInit
  <1>1. visit \in VisitRecords
    BY DEF VisitRecords, Failures
  <1>2. TellsFamily(visit) /\ StopsWhereBlocked(visit) /\ PaidFor(visit) /\ Spared(visit)
    BY NamesApart DEF TellsFamily, StopsWhereBlocked, PaidFor, Spared, Foreign
  <1> QED
    BY <1>1, <1>2 DEF VisitInv

\* One answer, right or damaged: `n` damaged answers so far, with it.
LEMMA AnswerStep ==
  ASSUME VisitInv, UnderWay, NEW j, NEW n \in Nat,
         \/ j \in RightAt(visit.controller, visit.at) /\ n = visit.hiccups
         \/ j \in DamagedAt(visit.controller, visit.at) /\ n = visit.hiccups + 1,
         visit' = [After(j) EXCEPT !.hiccups = n]
  PROVE  VisitInv'
  <1> DEFINE c == visit.controller
  <1>1. /\ visit \in VisitRecords /\ c \in Controllers /\ visit.at \in 1..6
        /\ visit.asked \in {0, 1} /\ visit.search \in {1, 2} /\ visit.hiccups \in Nat
        /\ visit.result = "none"
    BY DEF VisitInv, VisitRecords, UnderWay
  <1>2. ToldAt(c, visit.at) \in Models \cup {NoFamily}
    BY <1>1, NamesApart DEF ToldAt
  <1>3. j.failure \in Failures
    BY <1>1, <1>2, JudgementFacts DEF RightAt, DamagedAt
  <1>4. /\ Passes(j) => j.family = IF visit.at <= 3 THEN NoFamily ELSE c.model
        /\ Passes(j) => ~Blocks(c, visit.at)
        /\ Catalogued(c) /\ j \in RightAt(c, visit.at) => Passes(j)
        /\ Catalogued(c) /\ j.failure = "none" => Passes(j)
        /\ ~Catalogued(c) /\ j \in RightAt(c, visit.at) => ~SearchedAgain(j.failure)
    <2>1. j \in RightAt(c, visit.at) \cup DamagedAt(c, visit.at)
      OBVIOUS
    <2>2. Passes(j) => ~Blocks(c, visit.at)
      BY ONLY <2>1 DEF Blocks
    <2> QED
      BY <1>1, <2>1, <2>2, AnswersTell, NamesApart
  <1>5. PICK w : w = After(j)
    OBVIOUS
  <1>6. /\ w \in VisitRecords /\ w.controller = c /\ w.hiccups = visit.hiccups
        /\ \/ AsksAgain(w, j) \/ SearchesAgain(w, j) \/ GivesUp(w, j)
           \/ IsDone(w, j) \/ GoesOn(w, j)
    BY <1>1, <1>3, <1>4, <1>5, AfterFacts, NamesApart
  <1>7. PICK v : v = visit'
    OBVIOUS
  <1>8. /\ v \in VisitRecords /\ v.controller = c /\ v.hiccups = n
        /\ v.at = w.at /\ v.asked = w.asked /\ v.search = w.search
        /\ v.family = w.family /\ v.result = w.result
    <2>1. v = [w EXCEPT !.hiccups = n]
      BY <1>5, <1>7
    <2> QED
      BY <1>6, <2>1 DEF VisitRecords
  <1> HIDE DEF c
  <1>9. \/ AsksAgain(v, j) \/ SearchesAgain(v, j) \/ GivesUp(v, j)
        \/ IsDone(v, j) \/ GoesOn(v, j)
    BY <1>6, <1>8 DEF AsksAgain, SearchesAgain, GivesUp, IsDone, GoesOn
  <1>10. TellsFamily(v)
    <2>1. visit.family = IF visit.at > 4 THEN c.model ELSE NoFamily
      BY DEF VisitInv, TellsFamily, c
    <2>2. c.model # NoFamily
      BY <1>1, NamesApart
    <2> QED
      BY <1>1, <1>4, <1>8, <1>9, <2>1, <2>2
         DEF TellsFamily, AsksAgain, SearchesAgain, GivesUp, IsDone, GoesOn
  <1>11. StopsWhereBlocked(v)
    <2>1. \A at \in 1..6 : Blocks(c, at) => visit.at <= at
      BY DEF VisitInv, StopsWhereBlocked, c
    <2>2. ASSUME Passes(j), NEW at \in 1..6, Blocks(c, at) PROVE visit.at < at
      BY <1>1, <1>4, <2>1, <2>2
    <2>3. CASE AsksAgain(v, j) \/ SearchesAgain(v, j)
      BY <1>1, <1>8, <2>1, <2>3 DEF StopsWhereBlocked, AsksAgain, SearchesAgain
    <2>4. CASE GivesUp(v, j)
      BY <1>1, <1>3, <1>8, <2>1, <2>4 DEF StopsWhereBlocked, GivesUp, Failures
    <2>5. CASE IsDone(v, j)
      BY <1>1, <1>8, <2>2, <2>5 DEF StopsWhereBlocked, IsDone
    <2>6. CASE GoesOn(v, j)
      BY <1>1, <1>8, <2>2, <2>6 DEF StopsWhereBlocked, GoesOn
    <2> QED
      BY <1>9, <2>3, <2>4, <2>5, <2>6
  <1>12. PaidFor(v)
    <2> SUFFICES ASSUME Catalogued(c)
                 PROVE  /\ v.hiccups >= v.asked + 2 * (v.search - 1)
                        /\ v.result \in Foreign => v.hiccups >= 2
                        /\ SearchedAgain(v.result) => v.hiccups >= 4
      BY <1>8 DEF PaidFor
    <2>1. visit.hiccups >= visit.asked + 2 * (visit.search - 1)
      BY DEF VisitInv, PaidFor, c
    <2>2. n >= visit.hiccups /\ (j.failure # "none" => n = visit.hiccups + 1)
      BY <1>1, <1>4 DEF Passes, c
    <2>3. v.result = "none" => v.result \notin Foreign /\ ~SearchedAgain(v.result)
      BY NamesApart DEF Foreign
    <2>4. CASE AsksAgain(v, j)
      BY <1>1, <1>8, <2>1, <2>2, <2>3, <2>4 DEF AsksAgain
    <2>5. CASE SearchesAgain(v, j)
      BY <1>1, <1>8, <2>1, <2>2, <2>3, <2>5 DEF SearchesAgain
    <2>6. CASE GivesUp(v, j)
      <3>1. j.failure # "none" /\ visit.asked = 1
        BY <1>4, <2>6 DEF GivesUp, Passes
      <3> QED
        BY <1>1, <1>8, <2>1, <2>2, <2>6, <3>1 DEF GivesUp
    <2>7. CASE IsDone(v, j)
      BY <1>1, <1>8, <2>1, <2>2, <2>7, NamesApart DEF IsDone, Foreign
    <2>8. CASE GoesOn(v, j)
      BY <1>1, <1>8, <2>1, <2>2, <2>3, <2>8 DEF GoesOn
    <2> QED
      BY <1>9, <2>4, <2>5, <2>6, <2>7, <2>8
  <1>13. Spared(v)
    <2> SUFFICES ASSUME ~Catalogued(c), n = 0
                 PROVE  v.search = 1 /\ ~SearchedAgain(v.result)
      BY <1>8 DEF Spared
    <2>1. /\ visit.hiccups = 0 /\ visit.search = 1
          /\ ~SearchedAgain(j.failure)
      BY <1>1, <1>4 DEF VisitInv, Spared, c
    <2>2. ~SearchedAgain("none") /\ ~SearchedAgain("visited") /\ ~SearchedAgain("UnknownUnits")
      BY NamesApart
    <2> QED
      BY <1>9, <2>1, <2>2 DEF AsksAgain, SearchesAgain, GivesUp, IsDone, GoesOn
  <1> QED
    BY <1>7, <1>8, <1>10, <1>11, <1>12, <1>13 DEF VisitInv

LEMMA NoAnswerStep ==
  ASSUME VisitInv, AnswersNot
  PROVE  VisitInv'
  <1>1. visit \in VisitRecords /\ UnderWay /\ visit' = GivenUp("Unreachable")
    BY DEF VisitInv, AnswersNot
  <1>2. PICK v : v = visit'
    OBVIOUS
  <1>3. /\ v \in VisitRecords /\ v.controller = visit.controller
        /\ v.hiccups = visit.hiccups /\ v.at = visit.at /\ v.asked = visit.asked
        /\ v.search = visit.search /\ v.family = visit.family /\ v.result = "Unreachable"
    <2>1. ~SearchedAgain("Unreachable") /\ "Unreachable" \in Failures \cup Ends
      BY NamesApart DEF Ends
    <2> QED
      BY <1>1, <1>2, <2>1, GivenUpFacts
  <1>4. TellsFamily(v) /\ StopsWhereBlocked(v) /\ PaidFor(v) /\ Spared(v)
    BY <1>3, NamesApart
       DEF VisitInv, TellsFamily, StopsWhereBlocked, PaidFor, Spared, Foreign
  <1> QED
    BY <1>2, <1>3, <1>4 DEF VisitInv

LEMMA VisitInvStep == VisitInv /\ [VisitNext]_visit => VisitInv'
  <1> SUFFICES ASSUME VisitInv, [VisitNext]_visit PROVE VisitInv'
    OBVIOUS
  <1> DEFINE c == visit.controller
  <1>1. /\ visit \in VisitRecords /\ c \in Controllers /\ visit.at \in 1..6
        /\ visit.hiccups \in Nat
    BY DEF VisitInv, VisitRecords
  <1>2. ToldSoFar = ToldAt(c, visit.at)
    BY <1>1, StepFacts DEF ToldSoFar, ToldAt, VisitInv, TellsFamily
  <1>3. CASE AnswersRight
    <2>1. PICK j \in RightAt(c, visit.at) : visit' = After(j)
      BY <1>2, <1>3 DEF AnswersRight, RightAt
    <2>2. ToldAt(c, visit.at) \in Models \cup {NoFamily}
      BY <1>1, NamesApart DEF ToldAt
    <2>3. j.failure \in Failures
      BY <1>1, <2>1, <2>2, JudgementFacts DEF RightAt
    <2>4. Passes(j) => j.family \in Models \cup {NoFamily}
      BY <1>1, <2>1, AnswersTell, NamesApart
    <2>5. After(j) \in VisitRecords /\ After(j).hiccups = visit.hiccups
      BY <1>1, <1>3, <2>3, <2>4, AfterFacts DEF AnswersRight
    <2>6. visit' = [After(j) EXCEPT !.hiccups = visit.hiccups]
      BY <2>1, <2>5 DEF VisitRecords
    <2> QED
      BY <1>1, <1>3, <2>1, <2>6, AnswerStep DEF AnswersRight
  <1>4. CASE AnswersDamaged
    <2>1. PICK j \in DamagedAt(c, visit.at) : visit' = [After(j) EXCEPT !.hiccups = @ + 1]
      BY <1>2, <1>4 DEF AnswersDamaged, DamagedAt
    <2>2. ToldAt(c, visit.at) \in Models \cup {NoFamily}
      BY <1>1, NamesApart DEF ToldAt
    <2>3. j.failure \in Failures
      BY <1>1, <2>1, <2>2, JudgementFacts DEF DamagedAt
    <2>4. Passes(j) => j.family \in Models \cup {NoFamily}
      BY <1>1, <2>1, AnswersTell, NamesApart
    <2>5. After(j).hiccups = visit.hiccups
      BY <1>1, <1>4, <2>3, <2>4, AfterFacts DEF AnswersDamaged
    <2>6. visit' = [After(j) EXCEPT !.hiccups = visit.hiccups + 1]
      BY <2>1, <2>5
    <2>7. visit.hiccups + 1 \in Nat
      BY <1>1
    <2> QED
      BY <1>1, <1>4, <2>1, <2>6, <2>7, AnswerStep DEF AnswersDamaged
  <1>5. CASE AnswersNot
    BY <1>5, NoAnswerStep
  <1>6. CASE UNCHANGED visit
    BY <1>6 DEF VisitInv
  <1> QED
    BY <1>3, <1>4, <1>5, <1>6 DEF VisitNext

LEMMA VisitInvAlways == VisitSpec => []VisitInv
  BY VisitInvInit, VisitInvStep, PTL DEF VisitSpec

----
\* However many answers come damaged and in whatever order, a visit that succeeds
\* tells the controller's family, and the controller shows all the sensors read: a
\* page that lacks a value is never passed (_read_whole, is_complete, model_shown).
THEOREM VisitsTellTheFamily == VisitSpec => []VisitTellsTheFamily
  <1>1. VisitInv => VisitTellsTheFamily
    <2> SUFFICES ASSUME VisitInv, visit.result = "visited"
                 PROVE  /\ visit.family = visit.controller.model
                        /\ Catalogued([visit.controller EXCEPT !.strange = ""])
      BY DEF VisitTellsTheFamily
    <2>1. visit.controller \in Controllers /\ visit.at = 6
      BY DEF VisitInv, VisitRecords, StopsWhereBlocked
    <2>2. \A at \in 1..6 : ~Blocks(visit.controller, at)
      BY DEF VisitInv, StopsWhereBlocked
    <2>3. Catalogued([visit.controller EXCEPT !.strange = ""])
      BY ONLY <2>1, <2>2, OthersAreBlocked, Zenon
    <2>4. visit.family = visit.controller.model
      BY <2>1 DEF VisitInv, TellsFamily
    <2> QED
      BY ONLY <2>3, <2>4
  <1> QED
    BY <1>1, VisitInvAlways, PTL

\* For any number of damaged answers: on a controller of the catalogue a visit ends
\* in a failure of the pages only after two of them, or four if it searched twice,
\* and another firmware that answers right is told so in one search
\* (SEARCHED_AGAIN, _visit, visit_web_interface).
THEOREM GivesUpProportionally == VisitSpec => []GivesUpInProportion
  <1>1. VisitInv => GivesUpInProportion
    BY DEF VisitInv, PaidFor, Spared, Foreign, GivesUpInProportion
  <1> QED
    BY <1>1, VisitInvAlways, PTL
====
