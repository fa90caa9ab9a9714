---- MODULE Visit ----
\* The visit a dialog pays the web interface (webif_visit.py, the search for the
\* pages in webif/discovery.py): three menus and three pages, each asked at most
\* twice, the whole searched at most twice, against a controller whose answers
\* now and then come damaged. The requests below it are WebClient's.
EXTENDS Integers, Sequences, WebifRows

CONSTANT MaxHiccups   \* bound: damaged answers in one visit
ASSUME HiccupAssumption == MaxHiccups \in Nat

VARIABLE visit

Steps == <<"overview", "info", "heat pump menu", "heat_pump", "statistics", "heating">>
Menus == {"overview", "info", "heat pump menu"}
NoFamily == "none"

----
\* The controllers a visit may find, and what they answer.

\* `lacks` and `strange` are a title another firmware leaves out or shows in
\* another unit, "" on the controllers the catalogue was made from.
Controllers ==
    {c \in [model : Models, english : BOOLEAN, dynamic : BOOLEAN,
            lacks : {"", "Hochdruck", "Version WWP-EC WBB", EvoblockVersionTitle,
                     "JAZ gesamt", "Schaltdifferenz", "Statistik"},
            strange : {"", "Verdichter", "JAZ Jahr", "Leistungsbegrenzung"}] :
        /\ c.lacks = "" \/ c.strange = ""
        /\ c.dynamic => c.lacks = "" /\ c.strange = ""
        /\ \A r \in ReadValues : r.title = c.lacks => c.model \in r.models}
Catalogued(c) ==
    /\ c.lacks = "" /\ c.strange = ""
    /\ c.english => \A r \in ReadValues : c.model \in r.models => r.english # NotSeen

EnglishMenuTitles ==
    [Info |-> "information", Waermepumpe |-> "heat pump", Statistik |-> "statistics",
     Heizen |-> "heating"]
\* The entries find_pages wants on each menu.
Wanted(step) ==
    CASE step = "overview" -> {"Info", "Waermepumpe"}
      [] step = "info" -> {"Waermepumpe", "Statistik"}
      [] step = "heat pump menu" -> {"Heizen"}

Rows(c, page) ==
    {r \in ValuesOf[c.model, page] :
        r.title # c.lacks /\ (c.model \in r.conditional_on => c.dynamic)}
TitleShown(c, row) ==
    IF ~c.english THEN row.title
    ELSE IF row.english # NotSeen THEN row.english ELSE "another language"
Shown(c, row) ==
    IF row.title = c.strange THEN <<"number", "furlongs">>
    ELSE IF row.unit = TextUnit THEN <<"word", "some text">> ELSE <<"number", row.unit>>

\* A menu's or a page's answer when all is well. The menus list more entries.
Answered(c, step) ==
    IF step \in Menus
    THEN {<<IF c.english THEN EnglishMenuTitles[t] ELSE t, <<"link", t>>, 1>> :
            t \in Wanted(step) \ {c.lacks}} \cup {<<"Reset", <<"link", "">>, 1>>}
    ELSE {<<TitleShown(c, r), Shown(c, r), 1>> : r \in Rows(c, step)}
         \cup (IF step = "heating" THEN {<<"Heizgrenze", <<"number", "C">>, 1>>} ELSE {})

\* An idle pump shows "Aus" or "--" in place of its numbers.
Idle(c, step) ==
    {<<TitleShown(c, r), IF r.off_is_zero THEN <<"word", "Aus">>
                         ELSE IF r.unit = TextUnit THEN Shown(c, r) ELSE NoValue, 1>> :
        r \in Rows(c, step)}

\* What comes instead now and then: an empty column, one entry less, one
\* entry alone, an entry twice or without its value, another section's values.
Damaged(c, step) ==
    LET whole == Answered(c, step)
    IN {{}} \cup {whole \ {e} : e \in whole} \cup {{e} : e \in whole}
       \cup {whole \cup {<<e[1], e[2], 2>>} : e \in whole}
       \cup (IF step \in Menus THEN {}
             ELSE {(whole \ {e}) \cup {<<e[1], Blank, 1>>} : e \in whole})
       \cup (IF step = "heat_pump" THEN {Answered(c, "statistics")} ELSE {})
       \cup (IF step = "statistics" THEN {Answered(c, "heat_pump")} ELSE {})

----
\* What the visit makes of an answer.

\* _entries: the titles made German, and why the menu will not do.
MenuFailure(step, answer) ==
    LET german(t) == IF \E g \in DOMAIN EnglishMenuTitles : EnglishMenuTitles[g] = t
                     THEN CHOOSE g \in DOMAIN EnglishMenuTitles : EnglishMenuTitles[g] = t
                     ELSE t
        shown == {<<german(e[1]), e[2], e[3]>> : e \in answer}
    IN IF \A t \in Wanted(step) : Shows(shown, t) = 1 THEN "none"
       ELSE IF shown = {} THEN "Broken"
       ELSE IF \E t \in Wanted(step) : Shows(shown, t) = 0 THEN "MissingMenuEntries"
       ELSE "DoubledMenuEntries"

\* _read_whole and _lacking: why a page will not do. A page of values with none
\* of its titles came half; so did a menu with nothing at its own level.
PageFailure(model, page, answer) ==
    LET titles == {e[1] : e \in ReadAs(model, page, answer)}
        ownLevel == page = "heating" /\ titles # {}
    IN IF IsWhole(model, page, answer) THEN "none"
       ELSE IF titles \cap RequiredTitles[model, page] = {} /\ ~ownLevel THEN "Broken"
       ELSE IF MissingFrom(model, page, answer) # {} THEN "MissingTitles"
       ELSE "UnclearValues"

\* The heat pump page is judged by the family each answer tells, the others by
\* the family it told.
Judged(step, answer, told) ==
    IF step \in Menus
    THEN [failure |-> MenuFailure(step, answer), family |-> NoFamily, unknown |-> FALSE]
    ELSE LET model == IF step = "heat_pump" THEN ModelShown(answer) ELSE told
         IN [failure |-> PageFailure(model, step, answer), family |-> model,
             unknown |-> ShownInUnknownUnits(model, step, ReadAs(model, step, answer)) # {}]

\* Every judgement a controller's answers lead to, worked out once.
Told(step) == IF step \in {"statistics", "heating"} THEN Models ELSE {NoFamily}
RightJudgements ==
    [c \in Controllers |-> [at \in DOMAIN Steps |-> [m \in Models \cup {NoFamily} |->
        IF m \notin Told(Steps[at]) THEN {}
        ELSE {Judged(Steps[at], a, m) :
                a \in {Answered(c, Steps[at])}
                      \cup (IF Steps[at] \in {"heat_pump", "statistics"}
                            THEN {Idle(c, Steps[at])} ELSE {})}]]]
DamagedJudgements ==
    [c \in Controllers |-> [at \in DOMAIN Steps |-> [m \in Models \cup {NoFamily} |->
        IF m \notin Told(Steps[at]) THEN {}
        ELSE {Judged(Steps[at], a, m) : a \in Damaged(c, Steps[at])}]]]

\* What one answer tells, of every controller a visit may find: a page that passes
\* tells the family; a value the sensors read is missed by some page, however it
\* is answered; the catalogue's own pages pass unless they are damaged; and no
\* right answer looks damaged.
ToldAt(c, at) == IF Steps[at] \in {"statistics", "heating"} THEN c.model ELSE NoFamily
RightAt(c, at) == RightJudgements[c][at][ToldAt(c, at)]
DamagedAt(c, at) == DamagedJudgements[c][at][ToldAt(c, at)]
Passes(j) == j.failure = "none" /\ ~j.unknown
Blocks(c, at) == \A j \in RightAt(c, at) \cup DamagedAt(c, at) : ~Passes(j)

ASSUME JudgementAssumption ==
    \A c \in Controllers :
        /\ \A at \in DOMAIN Steps : \A j \in RightAt(c, at) \cup DamagedAt(c, at) :
             Passes(j) => j.family = IF Steps[at] \in Menus THEN NoFamily ELSE c.model
        /\ Catalogued([c EXCEPT !.strange = ""]) \/ \E at \in DOMAIN Steps : Blocks(c, at)
        /\ Catalogued(c) => \A at \in DOMAIN Steps :
             /\ \A j \in RightAt(c, at) : Passes(j)
             /\ \A j \in DamagedAt(c, at) : j.failure = "none" => ~j.unknown
        /\ ~Catalogued(c) => \A at \in DOMAIN Steps : \A j \in RightAt(c, at) :
             j.failure \notin {"Broken", "UnclearValues", "DoubledMenuEntries"}

----
\* The visit: the page it is at, the answers it had for it, the search, the
\* family, the damaged answers so far and the result.

VisitInit ==
    \E c \in Controllers :
        visit = [controller |-> c, at |-> 1, asked |-> 0, search |-> 1,
                 family |-> NoFamily, hiccups |-> 0, result |-> "none"]

UnderWay == visit.result = "none"
ToldSoFar == IF visit.at \in {5, 6} THEN visit.family ELSE NoFamily

\* Mutant of SearchedAgain: any answer that will not do is searched for again.
SearchedForAll(failure) ==
    failure \in {"Broken", "UnclearValues", "DoubledMenuEntries", "MissingTitles",
                 "MissingMenuEntries"}

\* SEARCHED_AGAIN: what a second search may mend.
SearchedAgain(failure) == failure \in {"Broken", "UnclearValues", "DoubledMenuEntries"}

\* A page asked twice, or in unknown units: searched once more or given up.
GivenUp(failure) ==
    IF SearchedAgain(failure) /\ visit.search = 1
    THEN [visit EXCEPT !.at = 1, !.asked = 0, !.search = 2, !.family = NoFamily]
    ELSE [visit EXCEPT !.result = failure]

\* Mutant of After: a page that will not do twice is taken as it came.
TakenAsItCame(judged) ==
    IF judged.failure # "none" /\ visit.asked = 0 THEN [visit EXCEPT !.asked = 1]
    ELSE IF judged.unknown THEN GivenUp("UnknownUnits")
    ELSE IF visit.at = Len(Steps) THEN [visit EXCEPT !.result = "visited"]
    ELSE [visit EXCEPT !.at = @ + 1, !.asked = 0,
                       !.family = IF judged.family = NoFamily THEN @ ELSE judged.family]

\* _visit, one answer further.
After(judged) ==
    IF judged.failure # "none" /\ visit.asked = 0 THEN [visit EXCEPT !.asked = 1]
    ELSE IF judged.failure # "none" THEN GivenUp(judged.failure)
    ELSE IF judged.unknown THEN GivenUp("UnknownUnits")
    ELSE IF visit.at = Len(Steps) THEN [visit EXCEPT !.result = "visited"]
    ELSE [visit EXCEPT !.at = @ + 1, !.asked = 0,
                       !.family = IF judged.family = NoFamily THEN @ ELSE judged.family]

AnswersRight ==
    /\ UnderWay
    /\ \E j \in RightJudgements[visit.controller][visit.at][ToldSoFar] : visit' = After(j)
AnswersDamaged ==
    /\ UnderWay /\ visit.hiccups < MaxHiccups
    /\ \E j \in DamagedJudgements[visit.controller][visit.at][ToldSoFar] :
        visit' = [After(j) EXCEPT !.hiccups = @ + 1]
\* No answer, or a refused login: never searched again.
AnswersNot ==
    /\ UnderWay
    /\ visit' = GivenUp("Unreachable")

VisitNext == AnswersRight \/ AnswersDamaged \/ AnswersNot
VisitSpec == VisitInit /\ [][VisitNext]_visit

----
\* A visit that succeeds tells the family of the controller, and only a
\* controller that shows every value the sensors read is visited: a page served
\* half is never taken for a whole one of the other family, whatever came before
\* or in between. (Another unit shows only while the pump runs: an idle one's
\* "Aus" hides it, and the sensor then reads unknown.)
VisitTellsTheFamily ==
    visit.result = "visited" =>
        /\ visit.family = visit.controller.model
        /\ Catalogued([visit.controller EXCEPT !.strange = ""])

\* The visit gives up in proportion: on a controller of the catalogue one or
\* three damaged answers are survived - a single one by asking again, a second
\* one for the same page by the second search - unless two in a row look like
\* another model; and a controller of another firmware or language is told so
\* in one search, sparing it the load of a second.
GivesUpInProportion ==
    LET foreign == {"MissingTitles", "MissingMenuEntries", "UnknownUnits"}
    IN /\ Catalogued(visit.controller) =>
            /\ visit.result \in foreign => visit.hiccups >= 2
            /\ SearchedAgain(visit.result) => visit.hiccups >= 4
       /\ ~Catalogued(visit.controller) /\ visit.hiccups = 0 =>
            visit.search = 1 /\ ~SearchedAgain(visit.result)
====
