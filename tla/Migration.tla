---- MODULE Migration ----
\* What an update does to an entry of an older version (async_migrate_entry of
\* __init__.py): the data it completes and clears, the entities of the old web
\* interface it removes, and the three registers whose labels it moves. The
\* identity the entry gets last is in ConfigFlow.
\*
\* An entry is [version, keys, entities, taken]: the keys of its data, its
\* registered entities and the entity ids of other integrations. An entity is
\* [made, item, register, id]: who registered it, the item name in its unique
\* id, the register it has recorded and its entity id <<language, label,
\* collision number>>; the language "own" stands for an id of the user's.
EXTENDS Integers, Sequences, FiniteSets

Current == 11

----
\* The data.

LegacyWebifKeys ==
    {"enable-webif", "username", "password", "Web-IF-Token", "Use-Mockup-Data",
     "Poll Heizkreis", "Poll Waermepumpe", "Poll 2. Waermeerzeuger", "Poll Statistik",
     "mac"}

\* What each version added to the data.
AddedBy(version) ==
    CASE version = 2 -> {"port", "prefix", "device_postfix", "kennfeld_file"}
      [] version = 3 -> {"hk2", "hk3", "hk4", "hk5"}
      [] version = 4 -> {"name_device_prefix", "name_topic_prefix"}
      [] OTHER -> {}

\* The data's keys after the steps of every version since the entry's.
KeysAfter(version, keys) ==
    (keys \ LegacyWebifKeys) \cup UNION {AddedBy(v) : v \in (version + 1)..Current}

----
\* The entities.

\* _is_legacy_web_interface: the two ways 1.x named the web interface's
\* entities; a pump's own id has no "_" between its prefix and its name, so
\* the device postfix "webif" does not make it one.
IsLegacyWebInterface(made) == made \in {"webif_", "prefix_..._webif"}

\* RENAMED_ITEMS, in the order the ids are handed on: <<old, new>>.
RenamedItems ==
    << <<"Betriebsstunden E1", "Schaltspiele 2. WEZ">>,
       <<"Schaltspiele E-Heizung 1", "Betriebsstunden 2. WEZ">>,
       <<"Schaltspiele E-Heizung 2", "Betriebsstunden E1">> >>

\* The name of each relabelled register in the table as it is now.
ItemOfRegister(register) ==
    CASE register = 34103 -> "Schaltspiele 2. WEZ"
      [] register = 34102 -> "Betriebsstunden 2. WEZ"
      [] register = 34106 -> "Betriebsstunden E1"

NoNewId == <<"own", "kept", 0>>

\* _entity_id_with_new_label: only an id that still ends in the old label.
EntityIdWithNewLabel(id, old, new) ==
    IF id[1] # "own" /\ id[2] = old THEN <<id[1], new, id[3]>> ELSE NoNewId

\* One row of _move_relabelled_entities. Home Assistant refuses a unique id
\* that is in use: the migration fails.
Move(entry, names) ==
    LET movers == {e \in entry.entities : e.made = "pump" /\ e.item = names[1]}
        inUse == {e \in entry.entities : e.made = "pump" /\ e.item = names[2]}
    IN IF movers = {} THEN entry
       ELSE LET e == CHOOSE m \in movers : TRUE
                new == EntityIdWithNewLabel(e.id, names[1], names[2])
                ids == {o.id : o \in entry.entities} \cup entry.taken
                moved == [e EXCEPT !.item = names[2],
                                   !.id = IF new = NoNewId \/ new \in ids THEN e.id ELSE new]
            IN [entry EXCEPT !.entities = (@ \ {e}) \cup {moved},
                             !.failed = @ \/ inUse # {}]

\* Mutant of Moves: the rows in the order of their registers.
MovesByRegister(entry) ==
    Move(Move(Move(entry, RenamedItems[2]), RenamedItems[3]), RenamedItems[1])

Moves(entry) ==
    Move(Move(Move(entry, RenamedItems[1]), RenamedItems[2]), RenamedItems[3])

\* async_migrate_entry, but for the identity.
Migrated(entry) ==
    LET begun == [version |-> Current, keys |-> KeysAfter(entry.version, entry.keys),
                  entities |-> entry.entities, taken |-> entry.taken, failed |-> FALSE]
        swept == [begun EXCEPT !.entities =
                    IF entry.version < 9
                    THEN {e \in @ : ~IsLegacyWebInterface(e.made)} ELSE @]
    IN IF entry.version < 10 THEN Moves(swept) ELSE swept

\* What an entry of a version holds before the update: versions 5 to 8 kept
\* the web interface's keys, and the upstream 2.0 line's 9 its login.
KeysOf(version, upstream) ==
    {"host"} \cup UNION {AddedBy(v) : v \in 2..version}
    \cup (IF version \in 5..8 THEN LegacyWebifKeys \ {"mac"} ELSE {})
    \cup (IF version = 9 /\ upstream THEN {"username", "password", "mac"} ELSE {})
====
