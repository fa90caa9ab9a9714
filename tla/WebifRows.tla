---- MODULE WebifRows ----
\* The values read from the web interface's pages (webif_sensor.py) and the
\* judgement whether an answer shows a page whole (webif/pages.py, Page of
\* webif_coordinator.py). An answer is a set of entries <<title, shown, copy>>:
\* two copies are a title shown twice. What is shown is <<"number", unit>>,
\* <<"word", text>> or Blank. Keys and display classes are left out, umlauts
\* are spelled out.
EXTENDS Integers, FiniteSets

Wbb == "wbb"
Evoblock == "evoblock"
Models == {Wbb, Evoblock}
EvoblockVersionTitle == "Version WEB CPU"
\* The English title of a value no English controller has shown yet.
NotSeen == ""
TextUnit == "text"

NoValue == <<"word", "--">>
OffWords == {<<"word", "Aus">>, <<"word", "off">>}
Blank == <<"word", "">>
NotShown == <<"nothing", "">>

----
\* The rows: what the constructors of webif_sensor.py make of their arguments.

RowsOf(page, unit, models, titles) ==
    {[title |-> t[1], english |-> t[2], unit |-> unit, page |-> page,
      models |-> models, conditional_on |-> {}, off_is_zero |-> FALSE,
      no_value_is_zero |-> FALSE] : t \in titles}
OffIsZero(rows) == {[r EXCEPT !.off_is_zero = TRUE] : r \in rows}
HeatPumpRows(unit, models, titles) == RowsOf("heat_pump", unit, models, titles)
EnergyRows(titles) == RowsOf("statistics", "KWh", Models, titles)
PerformanceRows(titles) == RowsOf("statistics", "", Models, titles)

HeatPumpSensors ==
    {[r EXCEPT !.no_value_is_zero = TRUE] :
        r \in HeatPumpRows("C", Models, {<<"Solltemperatur", "setpoint">>})}
    \cup {[r EXCEPT !.conditional_on = Models] :
        r \in HeatPumpRows("K", Models,
                           {<<"Schaltdifferenz dynamisch", "dynamic switching">>})}
    \cup OffIsZero(HeatPumpRows("%", Models, {<<"Drehzahl Pumpe M1", "pump speed">>}))
    \cup HeatPumpRows("m3/h", Models, {<<"Volumenstrom", "volume flow">>})
    \cup HeatPumpRows(TextUnit, Models, {<<"Stellung Umschaltventil", "change valve">>})
    \cup OffIsZero(HeatPumpRows("KW", Models,
            {<<"Soll Leistung", "power set">>, <<"Ist Leistung", "power actual">>}))
    \cup OffIsZero(HeatPumpRows("KW", {Evoblock}, {<<"Leistungsabgabe", NotSeen>>}))
    \cup HeatPumpRows("C", Models,
            {<<"Expansionsventil AG Eintr", "INLET TEMP">>,
             <<"Oelsumpftemperatur", "OIL SUMP T">>,
             <<"Druckgastemperatur", "PR GAS TEMP">>,
             <<"Kondensationstemperatur", "CONDENS TEMP">>})
    \cup HeatPumpRows("C", {Wbb},
            {<<"Waermetauscher AG Austrit", "OUTLET TEMP">>,
             <<"EVI Sauggastemperatur", "EVI SUC G T">>,
             <<"Kaeltemittel IG Austritt", "COOLA OUTLET">>,
             <<"Saettigungstemperatur EVI", "SATURAT TEMP">>})
    \cup HeatPumpRows("C", {Evoblock}, {<<"Waermetauscher AG Austritt", NotSeen>>})
    \cup HeatPumpRows("BAR", Models,
            {<<"Niederdruck", "LOW PRESS">>, <<"Hochdruck", "HIGH PRESS">>})
    \cup HeatPumpRows("BAR", {Wbb}, {<<"Mitteldruck", "AVER PRESS">>})
    \cup HeatPumpRows("BAR", {Evoblock}, {<<"Wasserdruck", NotSeen>>})
    \cup HeatPumpRows("K", {Wbb},
            {<<"Ueberhitzung Heizen", "EXCESS HEAT">>,
             <<"Ueberhitzung EVI", "EXCESS H EVI">>})
    \cup HeatPumpRows("K", Models, {<<"Ueberhitzung Verdichter", "EXCESS H COM">>})
    \cup HeatPumpRows("%", {Wbb},
            {<<"Oeffnungsgrad EXV Heizen", "DEG OP EXV H">>,
             <<"Oeffnungsgrad EXV Kuehlen", "DEGOPEXVCOOL">>,
             <<"Oeffnungsgrad EVI", "DEG OP EVI">>})
    \cup OffIsZero(HeatPumpRows("rpm", {Wbb}, {<<"Verdichter", "compressor">>}))
    \cup HeatPumpRows("Hz", {Evoblock}, {<<"Verdichter", NotSeen>>})
    \cup HeatPumpRows("h", Models,
            {<<"Betriebsstd. Verdichter", "operating hours compresso">>})
    \cup HeatPumpRows("", Models,
            {<<"Schaltspiele Verdichter", "switchings compressor">>,
             <<"Schaltspiele Abtauen", "switching defrost">>})
    \cup HeatPumpRows(TextUnit, Models,
            {<<"Version WWP-SG", "Version WWP-SG">>, <<"Aussengeraet Variante", "variant">>})
    \cup HeatPumpRows(TextUnit, {Wbb}, {<<"Version WWP-EC WBB", "version WWP-EC WBB">>})
    \cup HeatPumpRows(TextUnit, {Evoblock}, {<<EvoblockVersionTitle, NotSeen>>})

StatisticsSensors ==
    EnergyRows(
        {<<"th. Energie Heizen Tag", "heat consuption day">>,
         <<"th. Energie WW Tag", "hot water consuption day">>,
         <<"th. Energie gesamt Tag", "consuption day">>,
         <<"elektrische Energie Tag", "ELECTRICAL ENERGY DAY">>,
         <<"th. Energie Heizen Monat", "heat consuption month">>,
         <<"th. Energie WW Monat", "hot water consuption mont">>,
         <<"th. Energie gesamt Monat", "consuption months">>,
         <<"elektrische Energie Monat", "ELECTRICAL ENERGY MONTH">>,
         <<"th. Energie Heizen Jahr", "heat consuption year">>,
         <<"th. Energie WW Jahr", "hot water consuption year">>,
         <<"th. Energie gesamt Jahr", "consuption year">>,
         <<"elektrische Energie Jahr", "ELECTRICAL ENERGY YEAR">>})
    \cup PerformanceRows(
        {<<"JAZ Jahr", "COP YEAR">>, <<"JAZ gesamt", "JAZ">>})

\* The switching difference and, beside it, the power limit.
HeatingSensors ==
    RowsOf("heating", "K", Models, {<<"Schaltdifferenz", "switching difference">>})
PowerLimit ==
    RowsOf("heating", "%", Models, {<<"Leistungsbegrenzung", "output limit">>})

ReadValues == HeatPumpSensors \cup StatisticsSensors \cup HeatingSensors \cup PowerLimit
Pages == {"heat_pump", "statistics", "heating"}

\* VALUES, REQUIRED_TITLES, OPTIONAL_TITLES and ENGLISH_TITLES.
ValuesOf ==
    [model \in Models, page \in Pages |->
        {r \in ReadValues : model \in r.models /\ r.page = page}]
TitlesOf(rows) == {r.title : r \in rows}
RequiredTitles ==
    [model \in Models, page \in Pages |->
        TitlesOf({r \in ValuesOf[model, page] : model \notin r.conditional_on})]
OptionalTitles ==
    [model \in Models, page \in Pages |->
        TitlesOf({r \in ValuesOf[model, page] : model \in r.conditional_on})]
EnglishTitles ==
    [model \in Models, page \in Pages |->
        LET seen == {r \in ValuesOf[model, page] : r.english # NotSeen}
        IN [t \in {r.english : r \in seen} |->
                (CHOOSE r \in seen : r.english = t).title]]

----
\* Judging an answer.

\* Page.read: English titles made German.
ReadAs(model, page, answer) ==
    LET german == EnglishTitles[model, page]
    IN {<<IF e[1] \in DOMAIN german THEN german[e[1]] ELSE e[1], e[2], e[3]>> : e \in answer}

Shows(found, title) == Cardinality({e \in found : e[1] = title})

\* pages.is_complete
IsComplete(found, required, optional) ==
    /\ found # {}
    /\ \A t \in required : Shows(found, t) = 1
    /\ \A t \in optional : Shows(found, t) <= 1
    /\ \A e \in found : e[2] # Blank

\* Page.is_whole, Page.missing
IsWhole(model, page, answer) ==
    IsComplete(ReadAs(model, page, answer), RequiredTitles[model, page],
               OptionalTitles[model, page])
MissingFrom(model, page, answer) ==
    RequiredTitles[model, page] \ {e[1] : e \in ReadAs(model, page, answer)}

\* model_shown: a WBB unless the page says otherwise.
ModelShown(answer) ==
    IF \E e \in answer : e[1] = EvoblockVersionTitle THEN Evoblock ELSE Wbb

\* reading: what a sensor makes of the value shown for its title.
Reading(row, shown) ==
    IF shown = NoValue /\ row.no_value_is_zero THEN "zero"
    ELSE IF shown \in {NotShown, NoValue} THEN "none"
    ELSE IF row.unit = TextUnit THEN "text"
    ELSE IF shown \in OffWords /\ row.off_is_zero THEN "zero"
    ELSE IF shown = <<"number", row.unit>> THEN "number" ELSE "none"

\* shown_in_unknown_units
ShownInUnknownUnits(model, page, found) ==
    {r.title : r \in {row \in ValuesOf[model, page] :
        \E e \in found : /\ e[1] = row.title /\ e[2] # NoValue /\ e[2] \notin OffWords
                         /\ Reading(row, e[2]) = "none"}}
====
