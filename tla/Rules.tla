---- MODULE Rules ----
\* The rules without a state - Registers, PowerMap, Migration - asked every
\* input there is: a row of the table, a power map's file and where on it to
\* look, the picture beside a map, a calculated sensor's operands, an entry of
\* an older version.
EXTENDS Migration, PowerMap, Registers

VARIABLE input   \* what a rule is asked: <<which, ...>>

Previews == {"static", "unsafe", "unreadable", "none"}
Formulas == {"heat_output", "spread", "performance"}

IsFile(file) ==
    /\ file.readable \in BOOLEAN /\ file.preview \in Previews
    /\ file.known_t \in Seq(Int) /\ file.known_x \in Seq(Int)
    /\ DOMAIN file.grid \subseteq Int
    /\ \A raw \in DOMAIN file.grid : file.grid[raw] \in Seq(Int)

----
\* Entries of older versions.

\* The three registers whose labels moved, and what they were named.
Relabelled == {34102, 34103, 34106}
OldItemOfRegister(register) ==
    CASE register = 34103 -> "Betriebsstunden E1"
      [] register = 34102 -> "Schaltspiele E-Heizung 1"
      [] register = 34106 -> "Schaltspiele E-Heizung 2"
ItemIn(version, register) ==
    IF version < 10 THEN OldItemOfRegister(register) ELSE ItemOfRegister(register)

RelabelledNames ==
    {OldItemOfRegister(r) : r \in Relabelled} \cup {ItemOfRegister(r) : r \in Relabelled}

IsEntity(e) ==
    e = [made |-> e.made, item |-> e.item, register |-> e.register,
         id |-> <<e.id[1], e.id[2], e.id[3]>>]

\* At most one entity of each relabelled register is registered, under the name
\* of the entry's version and any id; no other entity of the pump has one of
\* their names, no two entities one id, and the old web interface's are gone
\* since version 9.
IsEntry(entry) ==
    /\ entry.version \in 1..(Current - 1)
    /\ {"host"} \cup UNION {AddedBy(v) : v \in 2..entry.version} \subseteq entry.keys
    /\ \A e \in entry.entities :
        /\ IsEntity(e)
        /\ e.made # "pump" => IsLegacyWebInterface(e.made) /\ entry.version < 9
        /\ e.made = "pump" =>
            IF e.register \in Relabelled THEN e.item = ItemIn(entry.version, e.register)
            ELSE e.item \notin RelabelledNames
        /\ e.id \notin entry.taken
    /\ \A e, f \in entry.entities :
        \/ e = f
        \/ /\ e.id # f.id
           /\ {e.made, f.made} = {"pump"} /\ e.register = f.register =>
                e.register \notin Relabelled

IsInput(i) ==
    \/ i[1] = "row" /\ i[2] \in DeviceLists
    \/ i[1] = "map" /\ IsFile(i[2]) /\ i[3] \in Int /\ i[4] \in Int
    \/ i[1] = "picture" /\ IsFile(i[2]) /\ i[3] \in BOOLEAN
    \/ i[1] = "calc" /\ i[2] \in Formulas /\ {i[3], i[4], i[5]} \subseteq Int /\ IsFile(i[6])
    \/ i[1] = "entry" /\ IsEntry(i[2])

RulesInit == IsInput(input)
RulesSpec == RulesInit /\ [][UNCHANGED input]_input

----
\* The register table holds together: a row has its address for itself (but for
\* what is calculated from it) and lies in exactly one block read, the bounds two
\* setpoints put on each other are mutual, of one circuit and numbers, what is
\* calculated finds its operands; and every setting an entity offers is read back
\* as what was sent, "off" as off and a negative word as negative.
TableHoldsTogether ==
    input[1] = "row" =>
        LET row == input[2]
            bounds == {row.params.dynamic_min, row.params.dynamic_max} \ {NoRow}
        IN /\ \A o \in DeviceLists \ {row} :
                o.key # row.key /\ (o.address = row.address =>
                                        "sensor_calc" \in {o.type, row.type})
           /\ Cardinality({b \in BandTable : row.address \in b[1]..b[2]}) = 1
           /\ \A key \in bounds : \E o \in DeviceLists :
                /\ o.key = key /\ key[2] = row.key[2] /\ o.type = "number"
                /\ ~o.params.off_is_a_setting
                /\ row.params.dynamic_min = key <=> o.params.dynamic_max = row.key
           /\ \A key \in row.params.operands : \E o \in DeviceLists :
                o.key = key /\ o.type = "sensor"
           /\ \A offer \in OffersOf(row) :
                Decode(FieldFor(row), offer[2] % 65536) =
                    IF offer[1] = "switch" THEN OffRead ELSE offer[2]

\* What is calculated is right or missing: the rated power is the piecewise
\* linear curve through the grid's values - exact at each flow temperature, of
\* one value where two pieces meet, held at the ends - and no file that is
\* taken divides by zero; the picture under www/local is never another map's
\* unless the disk fails; a calculated sensor has no value exactly when it lacks
\* an operand, the file it is read from or the energy to divide by, and the
\* spread is in one unit.
PowerIsOnTheCurve ==
    input[1] = "map" =>
        LET file == input[2]
            t == file.known_t
            power == RatedPower(file, input[3], input[4])
            curve == file.grid[Clamp(10 * Min(Range(file.known_x)), input[3],
                                     10 * Max(Range(file.known_x)))]
            at == Clamp(10 * t[1], input[4], 10 * t[Len(t)])
        IN IF ~Loads(file) THEN power = NoPower
           ELSE /\ power[2] > 0
                /\ \A k \in 1..Len(t) - 1 :
                    at \in 10 * t[k]..10 * t[k + 1] =>
                        power[1] * 10 * (t[k + 1] - t[k])
                            = power[2] * (curve[k] * (10 * t[k + 1] - at)
                                          + curve[k + 1] * (at - 10 * t[k]))
PictureIsItsOwn ==
    input[1] = "picture" =>
        (Initialize(input[2], "another's", input[3]) = "another's" => input[3])
SensorsAreRightOrMissing ==
    input[1] = "calc" =>
        LET formula == input[2]
            own == input[3]
            siblings == IF formula = "heat_output" THEN <<input[4], input[5]>>
                        ELSE <<input[4]>>
            value == CalculatedOf(formula, input[6], own, siblings, CalcSpreizung.divider)
        IN /\ value[2] = 0 <=> \/ Missing \in {own} \cup Range(siblings)
                               \/ formula = "heat_output" /\ ~Loads(input[6])
                               \/ formula = "performance" /\ siblings[1] < 5
           /\ formula = "spread" /\ value[2] # 0 =>
                value[1] = (own - siblings[1]) * value[2]
CalculatedValuesAreHonest == PowerIsOnTheCurve /\ PictureIsItsOwn /\ SensorsAreRightOrMissing

\* An update loses nothing: whatever version the entry had and whoever holds an
\* entity id, it goes through, every recorded register ends under the name the
\* table has for it, an id the user gave stays and a generated one moves along
\* unless that id is taken, no other entity of the pump is touched, the data is
\* complete, and of the old web interface neither login nor entity is left.
MigrationLosesNothing ==
    input[1] = "entry" =>
        LET old == input[2]
            new == Migrated(old)
            pumps == {o \in old.entities : o.made = "pump"}
        IN /\ ~new.failed
           /\ new.keys \cap LegacyWebifKeys = {}
           /\ {"host"} \cup UNION {AddedBy(v) : v \in 2..4} \subseteq new.keys
           /\ new.taken = old.taken
           /\ \A e, f \in new.entities : e.id = f.id => e = f
           /\ \A e \in new.entities : e.made = "pump" /\ e.id \notin new.taken
           /\ {e.register : e \in new.entities} = {o.register : o \in pumps}
           /\ \A x \in new.entities \cup pumps :
                x.register \notin Relabelled => x \in new.entities \cap pumps
           /\ \A e \in new.entities : \A o \in pumps :
                o.register = e.register /\ e.register \in Relabelled =>
                    LET relabelled == <<o.id[1], e.item, o.id[3]>>
                    IN /\ e.item = ItemOfRegister(e.register)
                       /\ IF o.id[1] = "own" \/ o.id[2] # o.item THEN e.id = o.id
                          ELSE \/ e.id = relabelled
                               \/ /\ e.id = o.id
                                  /\ \E x \in new.entities \cup old.entities :
                                        relabelled \in {x.id} \cup new.taken
====
