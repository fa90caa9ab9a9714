---- MODULE Registers ----
\* The register table (weishaupt_modbus_api/hpconst.py), the field that reads
\* and writes each row (fields.py) and the entities built from it
\* (entity_helpers.py). Bounds and steps are in register words: the table's
\* number times the row's divider. A row's key is its translation key and the
\* heating circuit it belongs to; names, units and display classes are left out.
EXTENDS Integers, Sequences, FiniteSets

NoRow == <<"", 0>>
\* Readings that are not a number.
OffRead == -100000
NoSensorRead == -100001
NoReading == -100002

----
\* The numbers each status register can hold.

SysFehler ==
    {47, 133, 140, 65535} \cup 1..30 \cup 32..33 \cup 40..41 \cup 43..44 \cup 50..61
    \cup 64..67 \cup 70..75 \cup 90..95 \cup 101..114 \cup 117..124 \cup 127..130
    \cup 135..137 \cup 143..144 \cup 150..184
SysFehlerfrei == 0..1
SysBetriebsanzeige == 0..43
SysBetriebsart == 0..5
HpBetrieb == 0..43
HpStoermeldung == 0..1
HpRuhemodus == 0..3
HzKonfiguration == 0..3
HzAnforderung == 0..3
HzBetriebsart == 0..4
HzPartyPause == 1..49
WwKonfiguration == {0, 1, 8}
HpKonfiguration == 0..4
\* Off, then every five minutes up to four hours.
WwPush == {5 * n : n \in 0..48}
W2Status == 0..1
W2Konfig == {0, 1, 255}
Ep1Konfig == {5, 255}
Ep2Konfig == {6, 255}
IoKonfig == 0..7 \cup {65535}
IoKonfigIn == 0..21 \cup {65535}

----
\* The rows' parameters.

NoParams ==
    [divider |-> 1, min |-> -999999, max |-> 999999, step |-> 1,
     dynamic_min |-> NoRow, dynamic_max |-> NoRow, off_is_a_setting |-> FALSE,
     setpoint |-> FALSE, counter |-> FALSE, only_if_served |-> FALSE, operands |-> {}]
Percentage == [NoParams EXCEPT !.min = 0, !.max = 100]
RoomTemp == [NoParams EXCEPT !.divider = 10, !.min = 160, !.max = 280, !.step = 5]
ConstantFlow(max) == [RoomTemp EXCEPT !.min = 70, !.max = max, !.off_is_a_setting = TRUE]
SummerWinterSwitchTemp ==
    [RoomTemp EXCEPT !.min = 30, !.max = 300, !.off_is_a_setting = TRUE]
RoomTempLow(c) == [RoomTemp EXCEPT !.dynamic_max = <<"raum_soll_temp_normal", c>>]
RoomTempMid(c) ==
    [RoomTemp EXCEPT !.dynamic_min = <<"raum_soll_temp_absenk", c>>,
                     !.dynamic_max = <<"raum_soll_temp_komf", c>>]
RoomTempHigh(c) == [RoomTemp EXCEPT !.dynamic_min = <<"raum_soll_temp_normal", c>>]
WaterTemp == [RoomTemp EXCEPT !.min = 55, !.max = 600]
WaterTempLow ==
    [WaterTemp EXCEPT !.min = 100, !.max = 800, !.dynamic_max = <<"ww_normal", 1>>]
WaterTempHigh ==
    [WaterTemp EXCEPT !.min = 200, !.max = 800, !.dynamic_min = <<"ww_absenk", 1>>]
SgReadyTemp == [RoomTemp EXCEPT !.min = 0, !.max = 300, !.off_is_a_setting = TRUE]
BivalenzTemp == [RoomTemp EXCEPT !.min = -200, !.max = 400]
StdTemp == [RoomTemp EXCEPT !.min = -600, !.max = 1000]
HzKennlinie == [NoParams EXCEPT !.divider = 100, !.min = 5, !.max = 150, !.step = 5]
FlowRate == [NoParams EXCEPT !.divider = 100, !.min = 0, !.max = 500, !.step = 10]
Counter == [NoParams EXCEPT !.min = 0, !.counter = TRUE]
ElectricalPower == [NoParams EXCEPT !.min = 0, !.max = 50000, !.only_if_served = TRUE]
Calculated(names) == [NoParams EXCEPT !.operands = {<<n, 1>> : n \in names}]
CalcSpreizung == [Calculated({"rl_temp"}) EXCEPT !.divider = 10]
Pv == [NoParams EXCEPT !.min = 0, !.max = 65535]

----
\* The rows, device by device. Run: rows at addresses in sequence, alike but
\* for their keys.

Row(address, key, format, type, params, numbers) ==
    [address |-> address, key |-> key, format |-> format, type |-> type,
     params |-> params, numbers |-> numbers]
Run(first, format, type, params, keys) ==
    {Row(first + i - 1, <<keys[i], 1>>, format, type, params, {}) : i \in DOMAIN keys}
Status(address, key, type, numbers) ==
    Row(address, <<key, 1>>, "status", type, NoParams, numbers)
Calc(address, key, format, params) ==
    Row(address, <<key, 1>>, format, "sensor_calc", params, {})

SysItems ==
    Run(30001, "temperature", "sensor", StdTemp, <<"aussentemp", "luftansautgemp">>)
    \cup {Status(30003, "fehler", "sensor", SysFehler),
          Status(30004, "warnung", "sensor", SysFehler),
          Status(30005, "fehlerfrei", "sensor", SysFehlerfrei),
          Status(30006, "betriebsanzeige", "sensor", SysBetriebsanzeige),
          Status(40001, "sys_operationmode", "select", SysBetriebsart)}
    \cup Run(40002, "number", "number", Pv, <<"sys_pv">>)

WpItems ==
    {Status(33101, "wp_betrieb", "sensor", HpBetrieb),
     Status(33102, "wp_stoermeldung", "sensor", HpStoermeldung)}
    \cup Run(33103, "percentage", "sensor", Percentage, <<"leistungsanforderung">>)
    \cup {Calc(33103, "waermeleistung", "number", Calculated({"luftansautgemp", "vl_temp"}))}
    \cup Run(33104, "temperature", "sensor", StdTemp,
             <<"vl_temp", "rl_temp", "verdampfungs_temp", "verdichter_ansaug_gas_temp",
               "weichen_temp", "anforderung_vl_regenerativ", "puffer_temp",
               "vl_praeziese_summenvorlauf_b7">>)
    \cup {Calc(33104, "spreizung", "temperature", CalcSpreizung)}
    \cup Run(33126, "number", "sensor", ElectricalPower, <<"el_leistungsaufnahme">>)
    \cup {Status(43101, "wp_konf", "number_ro", HpKonfiguration),
          Status(43102, "ruhemodus", "number_ro", HpRuhemodus)}
    \cup Run(43103, "number", "number_ro", NoParams, <<"pumpe_einschaltart">>)
    \cup Run(43104, "percentage", "number_ro", Percentage,
             <<"sollwert_pumpe_leistung_heizen", "sollwert_pumpe_leistung_kuehlen",
               "sollwert_pumpe_leitung_ww", "sollwert_pumpe_leistung_abtau">>)
    \cup Run(43108, "number", "number_ro", FlowRate,
             <<"soll_volumenstrom_heizen", "soll_volumenstrom_kuehlen",
               "soll_volumenstrom_ww">>)

HzItems ==
    Run(31101, "temperature", "sensor", [RoomTemp EXCEPT !.setpoint = TRUE],
        <<"raum_soll_temp">>)
    \cup Run(31102, "temperature", "sensor", RoomTemp, <<"raum_temp">>)
    \cup Run(31103, "percentage", "sensor", Percentage, <<"raum_feuchte">>)
    \cup Run(31104, "temperature", "sensor", [StdTemp EXCEPT !.setpoint = TRUE],
             <<"hz_vl_solltemp">>)
    \cup Run(31105, "temperature", "sensor", StdTemp, <<"hz_vl_temp">>)
    \cup Run(31106, "unknown", "sensor", NoParams, <<"adr31106">>)
    \cup {Status(41101, "hz_konf", "number_ro", HzKonfiguration),
          Status(41102, "anf_typ", "select", HzAnforderung),
          Status(41103, "hz_operationmode", "select", HzBetriebsart),
          Status(41104, "party_pause", "select", HzPartyPause)}
    \cup Run(41105, "temperature", "number", RoomTempHigh(1), <<"raum_soll_temp_komf">>)
    \cup Run(41106, "temperature", "number", RoomTempMid(1), <<"raum_soll_temp_normal">>)
    \cup Run(41107, "temperature", "number", RoomTempLow(1), <<"raum_soll_temp_absenk">>)
    \cup Run(41108, "number", "number", HzKennlinie, <<"heizkennlinie">>)
    \cup Run(41109, "temperature", "number", SummerWinterSwitchTemp, <<"so_wi_umschalt">>)
    \cup Run(41110, "temperature", "number", ConstantFlow(660),
             <<"heiz_konstanttemp", "heiz_konstanttemp_absenk">>)
    \cup Run(41112, "temperature", "number", ConstantFlow(300), <<"kuehl_konstanttemp">>)

\* What a further circuit's copy of a row has for parameters.
CircuitParams(item, c) ==
    CASE item.address = 41105 -> RoomTempHigh(c)
      [] item.address = 41106 -> RoomTempMid(c)
      [] item.address = 41107 -> RoomTempLow(c)
      [] OTHER -> item.params

\* MODBUS_HZ2_ITEMS to MODBUS_HZ5_ITEMS, each a copy of the first circuit's.
HzCopies(c) ==
    {[item EXCEPT !.address = @ + 100 * (c - 1), !.key = <<@[1], c>>,
                  !.params = CircuitParams(item, c)] : item \in HzItems}

WwItems ==
    Run(32101, "temperature", "sensor", [WaterTemp EXCEPT !.setpoint = TRUE],
        <<"ww_soll_temp">>)
    \cup Run(32102, "temperature", "sensor", WaterTemp, <<"ww_temp">>)
    \cup {Status(42101, "ww_konf", "number_ro", WwKonfiguration),
          Status(42102, "ww_push", "select", WwPush)}
    \cup Run(42103, "temperature", "number", WaterTempHigh, <<"ww_normal">>)
    \cup Run(42104, "temperature", "number", WaterTempLow, <<"ww_absenk">>)
    \cup Run(42105, "temperature", "number", SgReadyTemp, <<"sgr_anhebung">>)

W2Items ==
    {Status(34101, "status_2_wez", "sensor", W2Status),
     Status(34104, "status_e1", "sensor", W2Status),
     Status(34105, "status_e2", "sensor", W2Status),
     Status(44101, "w2_konf", "number_ro", W2Konfig),
     Status(44102, "adr44102", "number_ro", Ep1Konfig),
     Status(44103, "adr44103", "number_ro", Ep2Konfig)}
    \cup Run(34102, "number", "sensor", Counter, <<"betriebss_2wez", "schaltsp_2wez">>)
    \cup Run(34106, "number", "sensor", Counter, <<"betriebss_e1", "betriebss_e2">>)
    \cup Run(44104, "temperature", "number", BivalenzTemp,
             <<"grenztemp", "bivalenztemp", "bivalenztemp_ww">>)

\* Seven groups of energies - today, yesterday, month and year - and the
\* performance factors calculated from the first group.
StItems ==
    Run(36101, "number", "sensor", Counter,
        <<"ges_energie_heute", "ges_energie_yesterday", "ges_energie_monat",
          "ges_energie_jahr">>)
    \cup {Calc(36101, "tagesarbeitszahl_heute", "number", Calculated({"el_energie_heute"})),
          Calc(36102, "tagesarbeitszahl_gestern", "number",
               Calculated({"el_energie_gestern"})),
          Calc(36103, "monatsarbeitszahl", "number", Calculated({"el_energie_monat"})),
          Calc(36104, "jahresarbeitszahl", "number", Calculated({"el_energie_jahr"}))}
    \cup Run(36201, "number", "sensor", Counter,
             <<"heiz_energie_heute", "heiz_energie_getern", "heiz_energie_monat",
               "heiz_energie_jahr">>)
    \cup Run(36301, "number", "sensor", Counter,
             <<"ww_energie_heute", "ww_energie_gestern", "ww_energie_monat",
               "ww_energie_jahr">>)
    \cup Run(36401, "number", "sensor", Counter,
             <<"kuehl_energie_heute", "kuehl_energie_gestern", "kuehl_energie_monat",
               "kuehl_energie_jahr">>)
    \cup Run(36501, "number", "sensor", Counter,
             <<"abtau_energie_heute", "abtau_energie_gester", "abtau_energie_monat",
               "abtau_energie_jahr">>)
    \cup Run(36601, "number", "sensor", Counter,
             <<"ges_energie_today", "ges_energie_2_yesterday", "ges_energie_2_monat",
               "ges_energie_year">>)
    \cup Run(36701, "number", "sensor", Counter,
             <<"el_energie_heute", "el_energie_gestern", "el_energie_monat",
               "el_energie_jahr">>)
    \cup Run(36801, "unknown", "sensor", NoParams, <<"adr36801">>)

IoItems ==
    {Status(35101, "sgr1", "sensor", W2Status), Status(35102, "sgr2", "sensor", W2Status),
     Status(35107, "eing_de1", "sensor", W2Status),
     Status(35108, "eing_de2", "sensor", W2Status),
     Status(45101, "konf_eing_sgr1", "number_ro", IoKonfigIn),
     Status(45102, "konf_eing_sgr2", "number_ro", IoKonfigIn),
     Status(45103, "konf_ausg_h12", "number_ro", IoKonfig),
     Status(45104, "konf_ausg_h13", "number_ro", IoKonfig),
     Status(45105, "konf_ausg_h14", "number_ro", IoKonfig),
     Status(45106, "konf_ausg_h15", "number_ro", IoKonfig),
     Status(45107, "konf_eing_de1", "number_ro", IoKonfigIn),
     Status(45108, "konf_eing_de2", "number_ro", IoKonfigIn)}
    \cup Run(35103, "temperature", "sensor", StdTemp,
             <<"ausg_h12", "ausg_h13", "ausg_h14", "ausg_h15">>)

DeviceLists ==
    SysItems \cup WpItems \cup WwItems \cup HzItems \cup UNION {HzCopies(c) : c \in 2..5}
    \cup W2Items \cup StItems \cup IoItems

\* Every band is one block read; a row is read with the band it lies in.
BandTable ==
    {<<30001, 30006>>, <<40001, 40002>>, <<32101, 32102>>, <<42101, 42105>>,
     <<33101, 33111>>, <<33126, 33126>>, <<43101, 43110>>, <<34101, 34107>>,
     <<44101, 44103>>, <<44104, 44106>>, <<35101, 35108>>, <<45101, 45108>>,
     <<36801, 36801>>}
    \cup {<<31101 + 100 * c, 31106 + 100 * c>> : c \in 0..4}
    \cup {<<41101 + 100 * c, 41112 + 100 * c>> : c \in 0..4}
    \cup {<<36001 + 100 * g, 36004 + 100 * g>> : g \in 1..7}

----
\* Reading and writing a row.

NoSensorWord == 32768     \* 0x8000
Reserved == 32769..33023  \* 0x8001 to 0x80FF
Anything == -32768..65535

\* The sentinels of a row's field: words that read off, no sensor and no
\* reading, and the range a value may lie in.
NewField(signed, off, absent, noReading, plausible) ==
    [signed |-> signed, off |-> off, absent |-> absent, noReading |-> noReading,
     plausible |-> plausible]

\* Mutant of FieldFor: the off word of a setting read as a missing sensor.
FieldForNoOff(item) ==
    IF item.format = "temperature" THEN
        NewField(TRUE, {}, {NoSensorWord}, Reserved, -500..5000)
    ELSE NewField(FALSE, {}, {}, {}, Anything)

FieldFor(item) ==
    IF item.format = "temperature"
    THEN IF item.params.setpoint THEN NewField(TRUE, {NoSensorWord, 1}, {}, Reserved, 50..5000)
         ELSE IF item.params.off_is_a_setting
         THEN NewField(TRUE, {NoSensorWord}, {}, Reserved, -500..5000)
         ELSE NewField(TRUE, {}, {NoSensorWord}, Reserved, -500..5000)
    ELSE IF item.format = "percentage" THEN NewField(FALSE, {}, {65535}, {}, 0..100)
    ELSE IF item.params.counter THEN NewField(FALSE, {}, {}, {NoSensorWord, 65535}, Anything)
    ELSE NewField(FALSE, {}, {}, {}, Anything)

\* RegisterWord.decode of a 16-bit word.
Decode(field, raw) ==
    LET value == IF field.signed /\ raw >= 32768 THEN raw - 65536 ELSE raw
    IN IF raw \in field.off THEN OffRead
       ELSE IF raw \in field.absent THEN NoSensorRead
       ELSE IF raw \in field.noReading \/ value \notin field.plausible THEN NoReading
       ELSE value

----
\* The entities.

\* build_entity_list over the platforms: what a row becomes. `refused`: the
\* first poll found its register refused.
EntitiesOf(item, refused) ==
    IF item.params.only_if_served /\ refused THEN {}
    ELSE CASE item.type \in {"sensor", "number_ro"} -> {"sensor"}
           [] item.type = "sensor_calc" -> {"calc"}
           [] item.type = "select" -> {"select"}
           [] item.type = "number" /\ item.params.off_is_a_setting -> {"number", "switch"}
           [] OTHER -> {"number"}

\* The word a number entity sends for a wish, given in words: the nearest on the
\* row's grid - the grids of settable rows are odd, so never two as near - and
\* within the table's bounds (_on_step).
StepWord(item, wanted) ==
    LET p == item.params
        word == ((wanted + p.step \div 2) \div p.step) * p.step
    IN IF word < p.min THEN p.min ELSE IF word > p.max THEN p.max ELSE word

\* Wishes that differ in where they lie: every word of a narrow range, the
\* ends and the sign change of a wide one.
Wishes(item) ==
    IF item.params.max - item.params.min <= 2000 THEN item.params.min..item.params.max
    ELSE {0, 1, 32767, 32768, 65534, 65535}

\* What a user can send to a row, by the entity it is sent through.
OffersOf(item) ==
    LET built == EntitiesOf(item, FALSE)
    IN {<<"number", w>> : w \in IF "number" \in built
                                THEN {StepWord(item, v) : v \in Wishes(item)} ELSE {}}
       \cup {<<"switch", -32768>> : e \in built \cap {"switch"}}
       \cup {<<"select", n>> : n \in IF "select" \in built THEN item.numbers ELSE {}}
====
