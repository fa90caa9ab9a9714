---- MODULE MCConfigFlow ----
\* Three questions in one run, side by side and never mixed: the dialogs and the
\* entries (ConfigFlow), one visit (Visit), and the rules without a state (Rules)
\* on every input of `Inputs`. An initial state has one of them live, the others
\* at rest.
EXTENDS ConfigFlow, Visit, Rules, TLC

Live == <<"live">>   \* what the rules are asked beside them

EntrySymmetry == Permutations(Pumps) \cup Permutations(Webs) \cup Permutations(Flows)

----
\* Where the dialogs start: no web interface beside the pumps, or one pump.
FewEntries ==
    \/ Init(Webs)
    \/ \E p \in Pumps : Init(Pumps \ {p})
EntriesAtRest == pumps = <<>> /\ webs = <<>> /\ gone = {} /\ flows = <<>> /\ reserved = <<>>

VisitAtRest ==
    visit = [controller |-> [model |-> Wbb, english |-> FALSE, dynamic |-> FALSE,
                             lacks |-> "", strange |-> ""],
             at |-> 1, asked |-> 0, search |-> 1, family |-> NoFamily, hiccups |-> 0,
             result |-> "not begun"]

----
\* Power maps: flow temperatures in and out of order, with and without gaps.
FlowTemps == {<<35>>, <<35, 35>>, <<55, 35>>, <<35, 55>>, <<35, 45, 55>>, <<35, Unusable>>}
Airs == {<<>>, <<0>>, <<1, 0>>, <<Unusable>>}
Powers(raw, t) == [k \in DOMAIN t |-> 100 * k * k + raw]
Grids(t) ==
    LET whole == [raw \in 0..10 |-> Powers(raw, t)]
    IN {<<>>, whole, [raw \in 0..9 |-> Powers(raw, t)],
        [whole EXCEPT ![5] = Tail(@)], [whole EXCEPT ![5][1] = Unusable]}
File(t, x, grid) ==
    [readable |-> TRUE, known_t |-> t, known_x |-> x, grid |-> grid, preview |-> "static"]
Files == UNION {{File(t, x, g) : x \in Airs, g \in Grids(t)} : t \in FlowTemps}

MapInputs == {<<"map", f, air, flow>> : f \in Files, air \in {-5, 0, 5, 10, 15},
                                        flow \in {300, 350, 400, 450, 500, 550, 600}}
PictureInputs ==
    {<<"picture", [f EXCEPT !.readable = r, !.preview = p], failing>> :
        f \in Files, r \in BOOLEAN, p \in Previews, failing \in BOOLEAN}
Operands == {Missing, 0, 4, 5, 280, 350}
WholeFile == File(<<35, 45, 55>>, <<1, 0>>, [raw \in 0..10 |-> Powers(raw, <<35, 45, 55>>)])
CalcInputs ==
    {<<"calc", formula, own, s, t, file>> : formula \in Formulas, own \in Operands,
        s \in Operands, t \in Operands,
        file \in {WholeFile, [WholeFile EXCEPT !.readable = FALSE]}}

----
\* Entries of every older version, with any of the three relabelled registers
\* registered under ids of three kinds, and ids of others in the way.
EntityIn(version, register, language, n) ==
    [made |-> "pump", item |-> ItemIn(version, register), register |-> register,
     id |-> IF language = "own" THEN <<language, OldItemOfRegister(register), register>>
            ELSE <<language, ItemIn(version, register), n>>]
WebEntities(version) ==
    IF version \notin 5..8 THEN {}
    ELSE {[made |-> m, item |-> "JAZ gesamt", register |-> 0, id |-> <<"own", m, 0>>] :
            m \in {"webif_", "prefix_..._webif"}}
\* Another of the pump's entities, under an id a relabelled one would move to.
OtherEntity ==
    [made |-> "pump", item |-> "Betriebsstunden E2", register |-> 34107,
     id |-> <<"de", "Betriebsstunden 2. WEZ", 0>>]
Ids == {<<"de", 0>>, <<"de", 2>>, <<"en", 0>>, <<"own", 0>>}
OldEntries ==
    UNION {{[version |-> v, keys |-> KeysOf(v, upstream),
             entities |-> {EntityIn(v, r, ids[r][1], ids[r][2]) : r \in registered}
                          \cup WebEntities(v) \cup others,
             taken |-> taken] :
                v \in 1..10, upstream \in BOOLEAN, ids \in [registered -> Ids],
                others \in {{}, {OtherEntity}},
                taken \in {{}, {<<"de", "Betriebsstunden E1", 0>>},
                           {<<"de", "Schaltspiele 2. WEZ", 0>>,
                            <<"en", "Betriebsstunden 2. WEZ", 0>>}}} :
           registered \in SUBSET Relabelled}
\* No two entities have one id.
EntryInputs ==
    {<<"entry", e>> : e \in {o \in OldEntries :
        /\ \A id \in o.taken : \A x \in o.entities : x.id # id
        /\ \A x, y \in o.entities : x = y \/ x.id # y.id}}

Inputs ==
    {<<"row", r>> : r \in DeviceLists} \cup MapInputs \cup PictureInputs \cup CalcInputs
    \cup EntryInputs

ASSUME InputsAssumption == \A i \in Inputs : IsInput(i)

----
MCInit ==
    \/ FewEntries /\ VisitAtRest /\ input = Live
    \/ EntriesAtRest /\ VisitInit /\ input = Live
    \/ EntriesAtRest /\ VisitAtRest /\ input \in Inputs
MCNext ==
    \/ input = Live /\ visit.result = "not begun" /\ FlowNext /\ UNCHANGED <<visit, input>>
    \/ VisitNext /\ UNCHANGED <<flowVars, input>>
Spec == MCInit /\ [][MCNext]_<<flowVars, visit, input>>

====
