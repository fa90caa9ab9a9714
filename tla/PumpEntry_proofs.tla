---- MODULE PumpEntry_proofs ----
\* Proofs about the life of a pump's entry, for any circuits, callers, limit and
\* number of calls, reloads, crashes and days: types, the grace, the notices,
\* the daily limit across entries, and the counter the total implements.
EXTENDS PumpEntry, WriteBudget_proofs, FiniteSetTheorems

----
\* Types.

\* TypeOK, with the flags and the counters one by one; what is to be saved is
\* there.
Types ==
    /\ entry \in Entries
    /\ enabled \subseteq Circuits
    /\ failed \in 0..FailedPollsTolerated + 1 /\ bad \in 0..FailedPollsTolerated + 1
    /\ available \in BOOLEAN /\ attached \in BOOLEAN /\ pending \in BOOLEAN
    /\ told \in [Circuits -> {"untold", "on", "off"}]
    /\ gen \in Gens
    /\ budget \in [Gens -> Budgets]
    /\ kept \in Budgets \cup {Absent} /\ saving \in Budgets \cup {Absent}
    /\ kept = Absent => pending = FALSE
    /\ file \in Budgets
    /\ notices \subseteq Kinds \X Circuits /\ ignored \subseteq notices
    /\ call \in [Callers -> Calls]
    /\ today \in Nat
    /\ setUp \in [Circuits -> {"on", "off", "odd"}]
    /\ arrived \in Nat /\ excused \in Nat
    /\ calls \in Nat /\ reloads \in Nat /\ crashes \in Nat

LEMMA NoCountsFacts ==
  /\ NoCounts \in Budgets
  /\ NoCounts.total = 0 /\ NoCounts.today = 0 /\ NoCounts.day = 0
  BY DEF NoCounts, NewBudget, Budgets

LEMMA GensFacts == 1 \in Gens /\ Gens \subseteq Nat /\ Cardinality(Callers) \in Nat
  BY EntryAssumption, FS_CardinalityType DEF Gens

LEMMA IdleFacts == Idle \in Calls /\ Idle.pc = "idle" /\ ~Idle.arrived
  BY GensFacts DEF Idle, Calls

\* A new set-up takes a budget no call under way uses.
LEMMA TakesFacts ==
  ASSUME Types, NEW counts \in Budgets, TakesCounts(counts)
  PROVE  /\ gen' \in Gens /\ gen' \notin InUse
         /\ budget' \in [Gens -> Budgets]
         /\ budget'[gen'] = Loaded(counts, today)
         /\ \A h \in Gens \ {gen'} : budget'[h] = budget[h]
         /\ kept' = counts /\ attached' = TRUE
  <1>1. PICK g \in Gens \ InUse :
          /\ gen' = g
          /\ budget' = [budget EXCEPT ![g] = Loaded(counts, today)]
          /\ kept' = counts /\ attached' = TRUE
    BY DEF TakesCounts
  <1>2. Loaded(counts, today) \in Budgets
    BY LoadedFacts DEF Types
  <1> QED
    BY <1>1, <1>2 DEF Types

\* A step of one call.
CallMoves(c) ==
    /\ call' \in [Callers -> Calls]
    /\ \A d \in Callers \ {c} : call'[d] = call[d]

LEMMA BeginsFacts ==
  ASSUME Types, NEW c \in Callers, CallBegins(c)
  PROVE  /\ CallMoves(c)
         /\ call'[c].pc = "queued" /\ call'[c].gen = gen /\ ~call'[c].arrived
  <1>1. PICK idle \in Calls : idle = Idle /\ ~idle.arrived
    BY IdleFacts
  <1>2. call' = [call EXCEPT ![c] = [idle EXCEPT !.pc = "queued", !.gen = gen]]
    BY <1>1 DEF CallBegins
  <1>3. [idle EXCEPT !.pc = "queued", !.gen = gen] \in Calls
    BY DEF Calls, Types
  <1>4. /\ [idle EXCEPT !.pc = "queued", !.gen = gen].pc = "queued"
        /\ [idle EXCEPT !.pc = "queued", !.gen = gen].gen = gen
        /\ [idle EXCEPT !.pc = "queued", !.gen = gen].arrived = idle.arrived
    BY DEF Calls
  <1> QED
    BY <1>1, <1>2, <1>3, <1>4 DEF CallMoves, Types

LEMMA DecidesFacts ==
  ASSUME Types, NEW c \in Callers, Decides(c)
  PROVE  /\ CallMoves(c)
         /\ call[c].gen \in Gens
         /\ budget' \in [Gens -> Budgets]
         /\ budget'[call[c].gen] = RollDay(budget[call[c].gen], today)
         /\ \A h \in Gens \ {call[c].gen} : budget'[h] = budget[h]
         /\ \/ /\ AllowsWrite(budget[call[c].gen], Limit, today)
               /\ call'[c].pc = "allowed" /\ call'[c].gen = call[c].gen
               /\ call'[c].arrived = call[c].arrived
            \/ call'[c] = Idle
  <1>1. call[c] \in Calls /\ call[c].gen \in Gens
    BY DEF Types, Calls
  <1>2. /\ budget' = [budget EXCEPT ![call[c].gen] = RollDay(@, today)]
        /\ call' = [call EXCEPT ![c] =
                      IF AllowsWrite(budget[@.gen], Limit, today)
                      THEN [@ EXCEPT !.pc = "allowed"] ELSE Idle]
    BY DEF Decides
  <1>3. RollDay(budget[call[c].gen], today) \in Budgets
    BY <1>1, BudgetType DEF Types
  <1>4. /\ budget' \in [Gens -> Budgets]
        /\ budget'[call[c].gen] = RollDay(budget[call[c].gen], today)
        /\ \A h \in Gens \ {call[c].gen} : budget'[h] = budget[h]
    BY <1>1, <1>2, <1>3 DEF Types
  <1>5. CASE AllowsWrite(budget[call[c].gen], Limit, today)
    <2>1. call' = [call EXCEPT ![c] = [@ EXCEPT !.pc = "allowed"]]
      BY <1>2, <1>5
    <2>2. [call[c] EXCEPT !.pc = "allowed"] \in Calls
      BY <1>1 DEF Calls
    <2> QED
      BY <1>1, <1>4, <1>5, <2>1, <2>2 DEF CallMoves, Types, Calls
  <1>6. CASE ~AllowsWrite(budget[call[c].gen], Limit, today)
    <2>1. call' = [call EXCEPT ![c] = Idle]
      BY <1>2, <1>6
    <2> QED
      BY <1>1, <1>4, <2>1, IdleFacts DEF CallMoves, Types
  <1> QED
    BY <1>5, <1>6

LEMMA OutFacts ==
  ASSUME Types, NEW c \in Callers, GoesOut(c) \/ Arrives(c)
  PROVE  /\ CallMoves(c)
         /\ call'[c].pc = "out" /\ call'[c].gen = call[c].gen
         /\ GoesOut(c) => call'[c].arrived = call[c].arrived
         /\ Arrives(c) => call'[c].arrived = TRUE
  <1>1. call[c] \in Calls
    BY DEF Types
  <1>2. CASE GoesOut(c)
    <2>1. call' = [call EXCEPT ![c] = [@ EXCEPT !.pc = "out"]] /\ call[c].pc = "allowed"
      BY <1>2 DEF GoesOut
    <2>2. [call[c] EXCEPT !.pc = "out"] \in Calls
      BY <1>1 DEF Calls
    <2>3. ~Arrives(c)
      BY <2>1 DEF Arrives
    <2> QED
      BY <1>1, <2>1, <2>2, <2>3 DEF CallMoves, Types, Calls
  <1>3. CASE Arrives(c)
    <2>1. call' = [call EXCEPT ![c] = [@ EXCEPT !.arrived = TRUE]] /\ call[c].pc = "out"
      BY <1>3 DEF Arrives
    <2>2. [call[c] EXCEPT !.arrived = TRUE] \in Calls
      BY <1>1 DEF Calls
    <2>3. ~GoesOut(c)
      BY <2>1 DEF GoesOut
    <2> QED
      BY <1>1, <2>1, <2>2, <2>3 DEF CallMoves, Types, Calls
  <1> QED
    BY <1>2, <1>3

LEMMA CountedCallFacts ==
  ASSUME Types, NEW c \in Callers, Counted(c)
  PROVE  /\ CallMoves(c) /\ call'[c] = Idle /\ call[c].gen \in Gens
         /\ Recorded(budget[call[c].gen], today) \in Budgets
         /\ budget' \in [Gens -> Budgets]
         /\ budget'[call[c].gen] = Recorded(budget[call[c].gen], today)
         /\ \A h \in Gens \ {call[c].gen} : budget'[h] = budget[h]
         /\ IF Counts(c) THEN kept' = budget'[call[c].gen] /\ pending' = TRUE
            ELSE UNCHANGED <<kept, pending>>
  <1>1. call[c].gen \in Gens
    BY DEF Types, Calls
  <1>2. Recorded(budget[call[c].gen], today) \in Budgets
    BY <1>1, BudgetType DEF Types
  <1> QED
    BY <1>1, <1>2, IdleFacts DEF Counted, Keeps, CallMoves, Types

LEMMA NotWrittenFacts ==
  ASSUME Types, NEW c \in Callers, NotWritten(c)
  PROVE  CallMoves(c) /\ call'[c] = Idle
  BY IdleFacts DEF NotWritten, CallMoves, Types

\* The set of writes cut off is finite.
LEMMA CutOffFacts ==
  /\ CutOff \in Nat
  /\ \A c \in Callers : call[c].arrived /\ Counts(c) => CutOff >= 1
  <1> DEFINE S == {c \in Callers : call[c].arrived /\ Counts(c)}
  <1>1. IsFiniteSet(S)
    BY EntryAssumption, FS_Subset
  <1>2. Cardinality(S) \in Nat /\ (Cardinality(S) = 0 <=> S = {})
    BY <1>1, FS_CardinalityType, FS_EmptySet
  <1>3. \A c \in Callers : call[c].arrived /\ Counts(c) => S # {}
    OBVIOUS
  <1>4. CutOff = Cardinality(S)
    BY DEF CutOff
  <1> HIDE DEF S
  <1> QED
    BY <1>2, <1>3, <1>4

LEMMA TypesInit == Init => Types
  <1> SUFFICES ASSUME Init PROVE Types
    OBVIOUS
  <1>1. /\ call \in [Callers -> Calls] /\ budget \in [Gens -> Budgets]
        /\ file \in Budgets /\ gen \in Gens
    BY NoCountsFacts, GensFacts, IdleFacts DEF Init
  <1>2. failed \in 0..FailedPollsTolerated + 1 /\ bad \in 0..FailedPollsTolerated + 1
    BY DEF Init, FailedPollsTolerated
  <1> QED
    BY <1>1, <1>2 DEF Init, Types, Entries

LEMMA TypesStep == Types /\ [Next]_vars => Types'
  <1> SUFFICES ASSUME Types, [Next]_vars PROVE Types'
    OBVIOUS
  <1> USE DEF FailedPollsTolerated
  <1>1. CASE SetupBegins
    <2>1. /\ UNCHANGED <<enabled, pending, saving, file, notices, ignored, call, arrived,
                         excused, calls, reloads, crashes, today, setUp>>
          /\ failed' \in 0..FailedPollsTolerated + 1 /\ bad' \in 0..FailedPollsTolerated + 1
          /\ available' \in BOOLEAN /\ entry' \in Entries
          /\ told' \in [Circuits -> {"untold", "on", "off"}]
      <3>1. /\ UNCHANGED <<enabled, pending, saving, file, noticeVars, writeVars, boundVars,
                           today, setUp>>
            /\ failed' = 0 /\ bad' = 0 /\ available' = FALSE
            /\ entry' \in {"polling", "loading"}
            /\ told' = [c \in Circuits |-> "untold"]
        BY <1>1 DEF SetupBegins
      <3>2. failed' \in 0..FailedPollsTolerated + 1 /\ bad' \in 0..FailedPollsTolerated + 1
        BY <3>1
      <3>3. told' \in [Circuits -> {"untold", "on", "off"}]
        BY <3>1
      <3>4. available' \in BOOLEAN /\ entry' \in Entries
        BY <3>1 DEF Entries
      <3> QED
        BY <3>1, <3>2, <3>3, <3>4 DEF noticeVars, writeVars, boundVars
    <2>2. CASE KeptCounts # Absent
      <3>1. kept \in Budgets /\ TakesCounts(kept) /\ Absent \notin Budgets
        BY <1>1, <2>2, EntryAssumption DEF SetupBegins, KeptCounts, Types
      <3> QED
        BY <2>1, <3>1, TakesFacts DEF Types
    <2>3. CASE KeptCounts = Absent
      BY <1>1, <2>1, <2>3 DEF SetupBegins, Types, budgetVars
    <2> QED
      BY <2>2, <2>3
  <1>2. CASE FileLoaded
    <2>1. file \in Budgets /\ TakesCounts(file) /\ Absent \notin Budgets
      BY <1>2, EntryAssumption DEF FileLoaded, Types
    <2> QED
      BY <1>2, <2>1, TakesFacts
         DEF FileLoaded, Types, Entries, pollVars, noticeVars, writeVars, boundVars
  <1>3. CASE FirstPollGood \/ FirstPollFails
    BY <1>3 DEF FirstPollGood, FirstPollFails, Types, Entries, budgetVars, pollVars,
                storeVars, noticeVars, writeVars, boundVars
  <1>4. CASE CircuitsReported
    <2>1. PICK heard \in SUBSET Circuits :
            told' = [c \in Circuits |-> IF c \in heard /\ setUp[c] # "odd"
                                        THEN setUp[c] ELSE "untold"]
      BY <1>4 DEF CircuitsReported
    <2>2. told' \in [Circuits -> {"untold", "on", "off"}]
      BY <2>1 DEF Types
    <2>3. notices' \subseteq Kinds \X Circuits /\ ignored' \subseteq notices'
          /\ entry' \in Entries
      BY <1>4 DEF CircuitsReported, StillIgnored, Entries
    <2> QED
      BY <1>4, <2>2, <2>3 DEF CircuitsReported, Types, pollVars, budgetVars, storeVars,
                              writeVars, boundVars
  <1>5. CASE PollGood
    BY <1>5 DEF PollGood, Types, entryVars, budgetVars, storeVars, noticeVars, writeVars,
                boundVars
  <1>6. CASE PollFails
    <2>1. /\ failed' \in 0..FailedPollsTolerated + 1 /\ bad' \in 0..FailedPollsTolerated + 1
          /\ available' \in BOOLEAN
      BY <1>6 DEF PollFails, AtMost, Types
    <2> QED
      BY <1>6, <2>1 DEF PollFails, Types, entryVars, budgetVars, storeVars, noticeVars,
                        writeVars, boundVars
  <1>7. ASSUME NEW c \in Callers,
               \/ CallBegins(c) \/ Decides(c) \/ GoesOut(c) \/ Arrives(c)
               \/ Counted(c) \/ NotWritten(c)
        PROVE  Types'
    <2>1. /\ call' \in [Callers -> Calls] /\ budget' \in [Gens -> Budgets]
      BY <1>7, BeginsFacts, DecidesFacts, OutFacts, CountedCallFacts, NotWrittenFacts
         DEF CallMoves, CallBegins, GoesOut, Arrives, NotWritten, budgetVars, Types
    <2>2. /\ kept' \in Budgets \cup {Absent} /\ pending' \in BOOLEAN
          /\ kept' = Absent => pending' = FALSE
      <3>1. CASE Counted(c)
        <4>1. Recorded(budget[call[c].gen], today) \in Budgets
          BY <3>1, CountedCallFacts
        <4>2. \/ kept' \in Budgets /\ pending' = TRUE
              \/ UNCHANGED <<kept, pending>>
          BY <3>1, <4>1, CountedCallFacts
        <4>3. Absent \notin Budgets
          BY EntryAssumption
        <4> QED
          BY <4>2, <4>3 DEF Types
      <3>2. CASE ~Counted(c)
        BY <1>7, <3>2
           DEF CallBegins, Decides, GoesOut, Arrives, NotWritten, storeVars, Types
      <3> QED
        BY <3>1, <3>2
    <2>3. /\ arrived' \in Nat /\ excused' \in Nat /\ calls' \in Nat
      BY <1>7 DEF CallBegins, Decides, GoesOut, Arrives, Counted, NotWritten, Types,
                  boundVars
    <2>4. UNCHANGED <<entry, enabled, failed, bad, available, attached, told, gen, saving,
                      file, notices, ignored, today, setUp, reloads, crashes>>
      BY <1>7 DEF CallBegins, Decides, GoesOut, Arrives, Counted, NotWritten, boundVars,
                  entryVars, pollVars, budgetVars, storeVars, noticeVars
    <2> QED
      BY <2>1, <2>2, <2>3, <2>4 DEF Types
  <1>8. CASE SaveStarts \/ SaveEnds
    BY <1>8 DEF SaveStarts, SaveEnds, Types, entryVars, pollVars, budgetVars, noticeVars,
                writeVars, boundVars
  <1>9. ASSUME NEW circuits \in SUBSET Circuits, ReloadAsked(circuits) PROVE Types'
    BY <1>9 DEF ReloadAsked, Types, Entries, pollVars, budgetVars, storeVars, noticeVars,
                writeVars
  <1>10. CASE Unloaded
    <2>1. excused' \in Nat /\ entry' \in Entries
      BY <1>10, CutOffFacts DEF Unloaded, Types, Entries
    <2> QED
      BY <1>10, <2>1 DEF Unloaded, Types, storeVars, noticeVars, boundVars
  <1>11. CASE Removed
    BY <1>11, NoCountsFacts DEF Removed, Types, Entries, boundVars
  <1>12. CASE Stops \/ Crashes
    <2>1. NewRun /\ file' \in Budgets
      BY <1>12 DEF Stops, Crashes, Types
    <2>2. OnDisk(file') \in Nat /\ excused' \in Nat
      <3>1. OnDisk(file') \in Nat
        BY <2>1 DEF OnDisk, Budgets
      <3> QED
        BY <2>1, <3>1 DEF NewRun, Types
    <2>3. call' \in [Callers -> Calls]
      BY <2>1, IdleFacts DEF NewRun
    <2>4. kept' = Absent /\ pending' = FALSE /\ saving' = Absent
      BY <2>1 DEF NewRun
    <2>5. notices' \subseteq Kinds \X Circuits /\ ignored' \subseteq notices'
      BY <2>1 DEF NewRun, Types
    <2>6. /\ entry' \in Entries /\ attached' = FALSE /\ available' = FALSE
          /\ crashes' \in Nat
      BY <2>1 DEF NewRun, Types, Entries
    <2>7. UNCHANGED <<enabled, failed, bad, told, gen, budget, arrived, calls, reloads,
                      today, setUp>>
      BY <2>1 DEF NewRun
    <2> QED
      BY <2>1, <2>2, <2>3, <2>4, <2>5, <2>6, <2>7 DEF Types
  <1>13. CASE UserIgnores
    BY <1>13 DEF UserIgnores, Types, entryVars, pollVars, budgetVars, storeVars, writeVars,
                 boundVars
  <1>14. ASSUME NEW c \in Circuits, PanelSetsUp(c) PROVE Types'
    BY <1>14 DEF PanelSetsUp, Types, entryVars, pollVars, budgetVars, storeVars, noticeVars,
                 writeVars, boundVars
  <1>15. CASE Midnight
    BY <1>15 DEF Midnight, Types, entryVars, pollVars, budgetVars, storeVars, noticeVars,
                 boundVars
  <1>16. CASE UNCHANGED vars
    BY <1>16 DEF vars, Types, entryVars, pollVars, budgetVars, storeVars, noticeVars,
                 writeVars, boundVars
  <1> QED
    BY <1>1, <1>2, <1>3, <1>4, <1>5, <1>6, <1>7, <1>8, <1>9, <1>10, <1>11, <1>12, <1>13,
       <1>14, <1>15, <1>16 DEF Next

LEMMA TypesAlways == Spec => []Types
  BY TypesInit, TypesStep, PTL DEF Spec

\* Every variable keeps its type, whatever the entry goes through: budgets are
\* reused set-up after set-up, and every store holds counts or nothing.
THEOREM TypeCorrect == Spec => []TypeOK
  <1>1. Types => TypeOK
    BY DEF Types, TypeOK
  <1> QED
    BY <1>1, TypesAlways, PTL

----
\* The grace, and the notices. What makes them inductive: failures are counted
\* from the last good poll and from the set-up alone, and notices and circuits
\* change together only while the entry is not loaded.

Grace ==
    /\ failed = bad
    /\ entry \in {"loading", "polling", "circuits"} => bad = 0
    /\ entry = "circuits" => available = TRUE
    /\ Running => (available = TRUE <=> bad <= FailedPollsTolerated)

NoticesFit ==
    /\ entry = "loaded" => \A n \in notices : ~Contradicted(n[1], n[2])
    /\ entry = "removed" => notices = {}

EntryInv == Types /\ Grace /\ NoticesFit

LEMMA EntryInit == Init => EntryInv
  <1> SUFFICES ASSUME Init PROVE EntryInv
    OBVIOUS
  <1>1. Grace /\ NoticesFit
    BY DEF Init, Grace, NoticesFit, Running
  <1> QED
    BY <1>1, TypesInit DEF EntryInv

\* No notice the report raises contradicts the entry.
LEMMA ReportFits ==
  ASSUME Types, CircuitsReported
  PROVE  \A n \in notices' : ~Contradicted(n[1], n[2])
  <1> SUFFICES ASSUME NEW n \in notices' PROVE ~Contradicted(n[1], n[2])
    OBVIOUS
  <1>1. n \in Kinds \X Circuits /\ Stands(n[1], n[2], told'[n[2]])
    BY DEF CircuitsReported
  <1>2. n[1] \in Kinds /\ n[2] \in Circuits /\ n = <<n[1], n[2]>>
    BY <1>1
  <1>3. told'[n[2]] \in {"untold", "on", "off"}
    <2>1. Types'
      BY TypesStep DEF Next
    <2> QED
      BY <1>2, <2>1 DEF Types
  <1> QED
    BY <1>1, <1>2, <1>3 DEF Stands, Contradicted, Kinds

LEMMA EntryStep == EntryInv /\ [Next]_vars => EntryInv'
  <1> SUFFICES ASSUME EntryInv, [Next]_vars PROVE Grace' /\ NoticesFit'
    BY TypesStep DEF EntryInv
  <1> USE DEF FailedPollsTolerated
  <1>0. Types /\ Grace /\ NoticesFit /\ failed \in Nat /\ bad \in Nat
    BY DEF EntryInv, Types
  <1>1. ASSUME UNCHANGED <<entry, enabled, failed, available, bad, notices>>
        PROVE  Grace' /\ NoticesFit'
    BY <1>0, <1>1 DEF Grace, NoticesFit, Running, Contradicted
  <1>2. CASE SetupBegins
    <2>1. /\ failed' = 0 /\ bad' = 0
          /\ entry' \in {"polling", "loading"}
      BY <1>2 DEF SetupBegins
    <2> QED
      BY <2>1 DEF Grace, NoticesFit, Running
  <1>3. CASE FileLoaded
    BY <1>0, <1>3 DEF FileLoaded, Grace, NoticesFit, Running, pollVars
  <1>4. CASE FirstPollGood \/ FirstPollFails
    BY <1>0, <1>4 DEF FirstPollGood, FirstPollFails, Grace, NoticesFit, Running, pollVars
  <1>5. CASE CircuitsReported
    <2>1. /\ entry = "circuits" /\ entry' = "loaded" /\ enabled' = enabled
          /\ failed' = failed /\ bad' = bad /\ available' = available
      BY <1>5 DEF CircuitsReported, pollVars
    <2>2. Grace'
      BY <1>0, <2>1 DEF Grace, Running
    <2>3. NoticesFit'
      BY <1>0, <1>5, <2>1, ReportFits DEF NoticesFit, Contradicted
    <2> QED
      BY <2>2, <2>3
  <1>6. CASE PollGood
    <2>1. /\ failed' = 0 /\ bad' = 0 /\ available' = TRUE
          /\ UNCHANGED <<entry, enabled, notices>> /\ Running
      BY <1>6 DEF PollGood, entryVars, noticeVars
    <2> QED
      BY <1>0, <2>1 DEF Grace, NoticesFit, Running, Contradicted
  <1>7. CASE PollFails
    <2>1. /\ failed' = AtMost(failed + 1, 4) /\ bad' = AtMost(bad + 1, 4)
          /\ available' = (failed' <= 3)
          /\ UNCHANGED <<entry, enabled, notices>> /\ Running
      BY <1>7 DEF PollFails, entryVars, noticeVars
    <2>2. failed' = bad'
      BY <1>0, <2>1 DEF Grace
    <2>3. available' = TRUE <=> bad' <= 3
      BY <2>1, <2>2
    <2> QED
      BY <1>0, <2>1, <2>2, <2>3 DEF Grace, NoticesFit, Running, Contradicted
  <1>8. ASSUME NEW c \in Callers,
               \/ CallBegins(c) \/ Decides(c) \/ GoesOut(c) \/ Arrives(c)
               \/ Counted(c) \/ NotWritten(c)
        PROVE  Grace' /\ NoticesFit'
    BY <1>1, <1>8 DEF CallBegins, Decides, GoesOut, Arrives, Counted, NotWritten,
                      entryVars, pollVars, noticeVars
  <1>9. ASSUME NEW circuits \in SUBSET Circuits, ReloadAsked(circuits)
        PROVE  Grace' /\ NoticesFit'
    BY <1>0, <1>9 DEF ReloadAsked, Grace, NoticesFit, Running, pollVars, noticeVars
  <1>10. CASE Unloaded
    BY <1>0, <1>10 DEF Unloaded, Grace, NoticesFit, Running
  <1>11. CASE Removed
    BY <1>0, <1>11 DEF Removed, Grace, NoticesFit, Running
  <1>12. CASE Stops \/ Crashes
    BY <1>0, <1>12 DEF Stops, Crashes, NewRun, Grace, NoticesFit, Running
  <1>13. CASE SaveStarts \/ SaveEnds \/ UserIgnores \/ Midnight
              \/ (\E c \in Circuits : PanelSetsUp(c)) \/ UNCHANGED vars
    BY <1>1, <1>13 DEF SaveStarts, SaveEnds, UserIgnores, Midnight, PanelSetsUp, vars,
                       entryVars, pollVars, noticeVars
  <1> QED
    BY <1>2, <1>3, <1>4, <1>5, <1>6, <1>7, <1>8, <1>9, <1>10, <1>11, <1>12, <1>13 DEF Next

LEMMA EntryAlways == Spec => []EntryInv
  BY EntryInit, EntryStep, PTL DEF Spec

\* A loaded entry's entities are unavailable from the fourth failed poll in a
\* row on and not earlier, in every set-up and after every good poll
\* (_failed_poll).
THEOREM GraceAlwaysExact == Spec => []GraceIsExact
  <1>1. EntryInv => GraceIsExact
    BY DEF EntryInv, Types, Grace, Running, GraceIsExact
  <1> QED
    BY <1>1, EntryAlways, PTL

\* A loaded entry shows no notice its own data contradicts, and a removed one
\* none (report_circuits, clear_circuit_notices).
THEOREM NoticesAlwaysFit == Spec => []NoticesFitTheEntry
  <1>1. EntryInv => NoticesFitTheEntry
    BY DEF EntryInv, NoticesFit, NoticesFitTheEntry
  <1> QED
    BY <1>1, EntryAlways, PTL

\* An ignored notice goes only with the entry, with a word of the controller on
\* its circuit, or with data of the entry that contradict it: an untold circuit
\* keeps it, and so do reloads and crashes (report_circuits).
THEOREM IgnoresLast == Spec => IgnoredStaysIgnored
  <1>1. Types /\ [Next]_vars =>
          [\A n \in ignored \ ignored' :
             \/ entry' = "removed"
             \/ told'[n[2]] # "untold"
             \/ (n[1] = "notEnabled") = (n[2] \in enabled)]_vars
    <2> SUFFICES ASSUME Types, Next, NEW n \in ignored, n \notin ignored'
                 PROVE  \/ entry' = "removed"
                        \/ told'[n[2]] # "untold"
                        \/ (n[1] = "notEnabled") = (n[2] \in enabled)
      BY DEF vars
    <2>1. CASE CircuitsReported
      <3>1. n \in Kinds \X Circuits /\ n \in notices /\ n = <<n[1], n[2]>>
        BY DEF Types
      <3>2. ~Stands(n[1], n[2], told'[n[2]])
        BY <2>1, <3>1 DEF CircuitsReported, StillIgnored
      <3>3. CASE told'[n[2]] = "untold"
        BY <3>1, <3>2, <3>3 DEF Stands, Contradicted
      <3> QED
        BY <3>3
    <2>2. CASE Removed
      BY <2>2 DEF Removed
    <2>3. ASSUME ignored \subseteq ignored' PROVE FALSE
      BY <2>3
    <2>4. ASSUME NEW c \in Callers,
                 \/ CallBegins(c) \/ Decides(c) \/ GoesOut(c) \/ Arrives(c)
                 \/ Counted(c) \/ NotWritten(c)
          PROVE  ignored' = ignored
      BY <2>4 DEF CallBegins, Decides, GoesOut, Arrives, Counted, NotWritten, noticeVars
    <2>5. ASSUME \/ SetupBegins \/ FileLoaded \/ FirstPollGood \/ FirstPollFails
                 \/ PollGood \/ PollFails \/ SaveStarts \/ SaveEnds
          PROVE  ignored' = ignored
      BY <2>5 DEF SetupBegins, FileLoaded, FirstPollGood, FirstPollFails, PollGood,
                  PollFails, SaveStarts, SaveEnds, noticeVars
    <2>6. ASSUME \/ \E circuits \in SUBSET Circuits : ReloadAsked(circuits)
                 \/ Unloaded \/ Stops \/ Crashes \/ Midnight
                 \/ \E c \in Circuits : PanelSetsUp(c)
          PROVE  ignored' = ignored
      BY <2>6 DEF ReloadAsked, Unloaded, Stops, Crashes, NewRun, Midnight, PanelSetsUp,
                  noticeVars
    <2>7. ASSUME UserIgnores PROVE ignored \subseteq ignored'
      BY <2>7 DEF UserIgnores
    <2> QED
      BY <2>1, <2>2, <2>3, <2>4, <2>5, <2>6, <2>7 DEF Next
  <1> QED
    BY <1>1, TypesAlways, PTL DEF Spec, IgnoredStaysIgnored

----
\* The counts. The budget of an attached entry counts what is kept in memory;
\* what is on disk is never ahead of what is being written, nor that of what is
\* kept; and nothing is counted on a day that has not come.

\* What counts say of a day.
Spent(counts, day) == IF counts.day = day THEN counts.today ELSE 0

Store ==
    /\ entry \in {"off", "loading", "retry", "removed"} => attached = FALSE
    /\ entry = "loading" => kept = Absent
    /\ kept = Absent => saving = Absent
    /\ attached = TRUE => /\ kept # Absent
                          /\ Spent(kept, today) = Spent(budget[gen], today)
                          /\ kept.total = budget[gen].total
    /\ kept # Absent => kept.day <= today /\ file.total <= kept.total
    /\ saving # Absent => /\ saving.day <= today
                          /\ file.total <= saving.total /\ saving.total <= kept.total
    /\ file.day <= today
    /\ \A g \in Gens : budget[g].day <= today

StoreInv == Types /\ Store

LEMMA SpentFacts ==
  ASSUME NEW b \in Budgets, NEW d \in Nat
  PROVE  /\ Spent(b, d) \in Nat
         /\ Spent(b, d) = RollDay(b, d).today
         /\ Spent(RollDay(b, d), d) = Spent(b, d)
         /\ Spent(Recorded(b, d), d) = Spent(b, d) + 1
         /\ Spent(Loaded(b, d), d) = Spent(b, d)
         /\ b.day <= d => Spent(b, d + 1) = 0
  <1>1. \A n \in Nat, k \in Budgets : /\ Spent(k, n) = RollDay(k, n).today
                                      /\ k.day = n => Spent(k, n) = k.today
    BY DEF Spent, RollDay, Budgets
  <1>2. /\ RollDay(b, d) \in Budgets /\ Recorded(b, d) \in Budgets /\ Loaded(b, d) \in Budgets
        /\ RollDay(b, d).today \in Nat /\ RollDay(b, d).day = d
        /\ RollDay(Recorded(b, d), d).today = RollDay(b, d).today + 1
        /\ Loaded(b, d).day = d /\ Loaded(b, d).today = RollDay(b, d).today
        /\ b.day <= d => RollDay(b, d + 1).today = 0
    BY BudgetType, CountedFacts, LoadedFacts
  <1>3. d + 1 \in Nat
    OBVIOUS
  <1> QED
    BY <1>1, <1>2, <1>3

\* What moves neither counts nor calls, nor detaches the entry.
Still ==
    /\ UNCHANGED <<gen, attached, budget, kept, pending, saving, file, call, arrived,
                   excused, today>>
    /\ \/ entry' = entry
       \/ entry = "polling" /\ entry' = "circuits"
       \/ entry = "circuits" /\ entry' = "loaded"
       \/ entry = "loaded" /\ entry' = "reloading"
       \/ entry = "retry" /\ entry' = "off"

LEMMA StillFacts ==
  ASSUME \/ FirstPollGood \/ CircuitsReported \/ PollGood \/ PollFails \/ UserIgnores
         \/ \E circuits \in SUBSET Circuits : ReloadAsked(circuits)
         \/ \E c \in Circuits : PanelSetsUp(c)
         \/ UNCHANGED vars
  PROVE  Still
  BY DEF FirstPollGood, CircuitsReported, PollGood, PollFails, UserIgnores, ReloadAsked,
         PanelSetsUp, vars, Still, entryVars, budgetVars, storeVars, writeVars, boundVars

\* A set-up takes the counts that are kept, or those on disk.
LEMMA SetupFacts ==
  ASSUME StoreInv, SetupBegins \/ FileLoaded
  PROVE  /\ UNCHANGED <<pending, saving, file, call, arrived, excused, today>>
         /\ attached = FALSE
         /\ \/ /\ entry' = "polling" /\ attached' = TRUE
               /\ kept' \in Budgets /\ kept' = (IF kept # Absent THEN kept ELSE file)
               /\ gen' \in Gens /\ gen' \notin InUse
               /\ budget'[gen'] = Loaded(kept', today)
               /\ \A h \in Gens \ {gen'} : budget'[h] = budget[h]
            \/ /\ entry' = "loading" /\ kept = Absent
               /\ UNCHANGED <<gen, attached, budget, kept>>
  <1>1. Types /\ Absent \notin Budgets
    BY EntryAssumption DEF StoreInv
  <1>2. CASE SetupBegins
    <2>1. /\ UNCHANGED <<pending, saving, file, call, arrived, excused, today>>
          /\ attached = FALSE
      BY <1>2 DEF SetupBegins, writeVars, StoreInv, Store
    <2>2. CASE KeptCounts # Absent
      <3>1. kept \in Budgets /\ TakesCounts(kept) /\ entry' = "polling" /\ kept # Absent
        BY <1>1, <1>2, <2>2 DEF SetupBegins, KeptCounts, Types
      <3> QED
        BY <1>1, <2>1, <3>1, TakesFacts
    <2>3. CASE KeptCounts = Absent
      BY <1>2, <2>1, <2>3 DEF SetupBegins, KeptCounts, budgetVars
    <2> QED
      BY <2>2, <2>3
  <1>3. CASE FileLoaded
    <2>1. /\ UNCHANGED <<pending, saving, file, call, arrived, excused, today>>
          /\ attached = FALSE /\ kept = Absent /\ entry' = "polling"
          /\ file \in Budgets /\ TakesCounts(file)
      BY <1>1, <1>3 DEF FileLoaded, writeVars, StoreInv, Store, Types
    <2> QED
      BY <1>1, <2>1, TakesFacts
  <1> QED
    BY <1>2, <1>3

\* A new run has nothing but one of the files the old one could leave.
LEMMA RunFacts ==
  ASSUME StoreInv, Stops \/ Crashes
  PROVE  /\ entry' = "off" /\ attached' = FALSE /\ kept' = Absent /\ saving' = Absent
         /\ UNCHANGED <<gen, budget, arrived, today>>
         /\ call' = [c \in Callers |-> Idle]
         /\ file' \in {file} \cup ({saving, kept} \ {Absent})
         /\ excused' = IF arrived > OnDisk(file') THEN arrived - OnDisk(file') ELSE 0
  <1>1. NewRun
    BY DEF Stops, Crashes
  <1>2. file' \in {file} \cup ({saving, kept} \ {Absent})
    BY DEF Stops, Crashes, StoreInv, Types
  <1> QED
    BY <1>1, <1>2 DEF NewRun

LEMMA StoreInit == Init => StoreInv
  <1> SUFFICES ASSUME Init PROVE Store
    BY TypesInit DEF StoreInv
  <1> QED
    BY NoCountsFacts DEF Init, Store

LEMMA StoreStep == StoreInv /\ [Next]_vars => StoreInv'
  <1> SUFFICES ASSUME StoreInv, [Next]_vars PROVE Store'
    BY TypesStep DEF StoreInv
  <1>0. /\ Types /\ Store /\ Absent \notin Budgets /\ today \in Nat
        /\ \A b \in Budgets : b.day \in Nat /\ b.total \in Nat
        /\ \A g \in Gens : budget[g] \in Budgets
    BY EntryAssumption DEF StoreInv, Types, Budgets
  <1>1. CASE Still
    BY <1>0, <1>1 DEF Store, Still
  <1>2. CASE SetupBegins \/ FileLoaded
    <2>1. CASE entry' = "loading"
      <3>1. UNCHANGED <<gen, attached, budget, kept, saving, file, today>> /\ kept = Absent
            /\ attached = FALSE
        BY <1>2, <2>1, SetupFacts
      <3> QED
        BY <1>0, <2>1, <3>1 DEF Store
    <2>2. CASE entry' = "polling"
      <3>1. /\ UNCHANGED <<saving, file, today>>
            /\ attached' = TRUE
            /\ kept' \in Budgets /\ kept' = (IF kept # Absent THEN kept ELSE file)
            /\ gen' \in Gens
            /\ budget'[gen'] = Loaded(kept', today)
            /\ \A h \in Gens \ {gen'} : budget'[h] = budget[h]
        BY <1>2, <2>2, SetupFacts
      <3>2. /\ Loaded(kept', today).total = kept'.total
            /\ Loaded(kept', today).day = today
            /\ Spent(Loaded(kept', today), today) = Spent(kept', today)
        BY <1>0, <3>1, LoadedFacts, SpentFacts
      <3>3. kept'.day <= today /\ file.total <= kept'.total
            /\ (saving # Absent => kept' = kept)
        BY <1>0, <3>1 DEF Store, Types
      <3>4. \A g \in Gens : budget'[g].day <= today
        BY <1>0, <3>1, <3>2 DEF Store
      <3> QED
        BY <1>0, <2>2, <3>1, <3>2, <3>3, <3>4 DEF Store
    <2> QED
      BY <1>2, <2>1, <2>2, SetupFacts
  <1>3. CASE FirstPollFails
    BY <1>0, <1>3 DEF FirstPollFails, Store, storeVars
  <1>4. ASSUME NEW c \in Callers, CallBegins(c) \/ GoesOut(c) \/ Arrives(c) \/ NotWritten(c)
        PROVE  Store'
    <2>1. UNCHANGED <<entry, gen, attached, budget, kept, saving, file, today>>
      BY <1>4 DEF CallBegins, GoesOut, Arrives, NotWritten, entryVars, budgetVars, storeVars
    <2> QED
      BY <1>0, <2>1 DEF Store
  <1>5. ASSUME NEW c \in Callers, Decides(c) PROVE Store'
    <2>1. /\ UNCHANGED <<entry, gen, attached, kept, saving, file, today>>
      BY <1>5 DEF Decides, entryVars, storeVars
    <2>2. /\ call[c].gen \in Gens
          /\ budget'[call[c].gen] = RollDay(budget[call[c].gen], today)
          /\ \A h \in Gens \ {call[c].gen} : budget'[h] = budget[h]
      BY <1>0, <1>5, DecidesFacts
    <2>3. \A g \in Gens : /\ budget'[g].day <= today
                          /\ budget'[g].total = budget[g].total
                          /\ Spent(budget'[g], today) = Spent(budget[g], today)
      <3> SUFFICES ASSUME NEW g \in Gens
                   PROVE  /\ budget'[g].day <= today
                          /\ budget'[g].total = budget[g].total
                          /\ Spent(budget'[g], today) = Spent(budget[g], today)
        OBVIOUS
      <3>1. /\ RollDay(budget[g], today).day = today
            /\ RollDay(budget[g], today).total = budget[g].total
            /\ Spent(RollDay(budget[g], today), today) = Spent(budget[g], today)
        BY <1>0, CountedFacts, TotalFacts, SpentFacts
      <3> QED
        BY <1>0, <2>2, <3>1 DEF Store
    <2>4. gen \in Gens
      BY <1>0 DEF Types
    <2> QED
      BY <1>0, <2>1, <2>3, <2>4 DEF Store
  <1>6. ASSUME NEW c \in Callers, Counted(c) PROVE Store'
    <2>1. /\ UNCHANGED <<entry, gen, attached, saving, file, today>>
      BY <1>6 DEF Counted, entryVars
    <2>2. PICK h \in Gens : h = call[c].gen
      BY <1>0, <1>6, CountedCallFacts
    <2>3. PICK counts \in Budgets : counts = Recorded(budget[h], today)
      BY <1>0, <1>6, <2>2, CountedCallFacts
    <2>4. /\ budget'[h] = counts
          /\ \A g \in Gens \ {h} : budget'[g] = budget[g]
          /\ IF Counts(c) THEN kept' = counts ELSE kept' = kept
      BY <1>0, <1>6, <2>2, <2>3, CountedCallFacts
    <2>5. /\ counts.day = today /\ counts.total = budget[h].total + 1
      BY <1>0, <2>3, CountedFacts, TotalFacts
    <2>6. \A g \in Gens : budget'[g].day <= today
      BY <1>0, <2>4, <2>5 DEF Store
    <2>7. CASE attached = TRUE /\ h = gen
      <3>1. kept' = counts /\ kept'.total = kept.total + 1 /\ kept \in Budgets
        BY <1>0, <2>2, <2>4, <2>5, <2>7 DEF Counts, Store, Types
      <3>2. \A b \in Budgets : b.total <= kept.total => b.total <= kept'.total
        BY <1>0, <3>1
      <3> QED
        BY <1>0, <2>1, <2>4, <2>5, <2>6, <2>7, <3>1, <3>2 DEF Store, Types
    <2>8. CASE ~(attached = TRUE /\ h = gen)
      <3>1. kept' = kept /\ (attached = TRUE => budget'[gen] = budget[gen])
        BY <1>0, <2>2, <2>4, <2>8 DEF Counts, Types
      <3> QED
        BY <1>0, <2>1, <2>6, <3>1 DEF Store
    <2> QED
      BY <2>7, <2>8
  <1>7. CASE SaveStarts
    <2>1. /\ UNCHANGED <<entry, gen, attached, budget, kept, file, today>>
          /\ saving' = kept /\ kept # Absent
      BY <1>0, <1>7 DEF SaveStarts, entryVars, budgetVars, Types
    <2>2. kept.total <= kept.total
      BY <1>0, <2>1 DEF Types
    <2> QED
      BY <1>0, <2>1, <2>2 DEF Store
  <1>8. CASE SaveEnds
    <2>1. /\ UNCHANGED <<entry, gen, attached, budget, kept, today>>
          /\ file' = saving /\ saving # Absent /\ saving' = Absent
      BY <1>8 DEF SaveEnds, entryVars, budgetVars
    <2> QED
      BY <1>0, <2>1 DEF Store
  <1>9. CASE Unloaded
    <2>1. /\ UNCHANGED <<gen, budget, kept, saving, file, today>>
          /\ entry' = "off" /\ attached' = FALSE
      BY <1>9 DEF Unloaded, storeVars
    <2> QED
      BY <1>0, <2>1 DEF Store
  <1>10. CASE Removed
    <2>1. /\ UNCHANGED <<gen, budget, saving, today>> /\ saving = Absent
          /\ entry' = "removed" /\ attached' = FALSE /\ kept' = Absent /\ file' = NoCounts
      BY <1>10 DEF Removed
    <2> QED
      BY <1>0, <2>1, NoCountsFacts DEF Store
  <1>11. CASE Stops \/ Crashes
    <2>1. /\ entry' = "off" /\ attached' = FALSE /\ kept' = Absent /\ saving' = Absent
          /\ UNCHANGED <<budget, today>>
          /\ file' \in {file} \cup ({saving, kept} \ {Absent})
      BY <1>11, RunFacts
    <2>2. file'.day <= today
      BY <1>0, <2>1 DEF Store
    <2> QED
      BY <1>0, <2>1, <2>2 DEF Store
  <1>12. CASE Midnight
    <2>1. /\ UNCHANGED <<entry, gen, attached, budget, kept, saving, file>>
          /\ today' = today + 1
      BY <1>12 DEF Midnight, entryVars, budgetVars, storeVars
    <2>2. \A b \in Budgets : b.day <= today => b.day <= today + 1 /\ Spent(b, today + 1) = 0
      BY <1>0, SpentFacts
    <2>3. gen \in Gens
      BY <1>0 DEF Types
    <2> QED
      BY <1>0, <2>1, <2>2, <2>3 DEF Store, Types
  <1> QED
    BY <1>1, <1>2, <1>3, <1>4, <1>5, <1>6, <1>7, <1>8, <1>9, <1>10, <1>11, <1>12, StillFacts
       DEF Next

LEMMA StoreAlways == Spec => []StoreInv
  BY StoreInit, StoreStep, PTL DEF Spec

----
\* The counter the total implements.

LEMMA ShownFacts ==
  StoreInv => /\ ShownTotal = IF kept # Absent THEN kept.total ELSE file.total
              /\ ShownTotal \in Nat /\ file.total \in Nat /\ file.total <= ShownTotal
  <1> SUFFICES ASSUME StoreInv
               PROVE  /\ ShownTotal = IF kept # Absent THEN kept.total ELSE file.total
                      /\ ShownTotal \in Nat /\ file.total \in Nat
                      /\ file.total <= ShownTotal
    OBVIOUS
  <1>1. /\ Types /\ Store
        /\ \A b \in Budgets : b.total \in Nat
    BY DEF StoreInv, Budgets
  <1>2. ShownTotal = IF kept # Absent THEN kept.total ELSE file.total
    BY <1>1 DEF ShownTotal, Store, Types
  <1>3. file.total \in Nat /\ (kept # Absent => kept.total \in Nat)
    BY <1>1 DEF Types
  <1> QED
    BY <1>1, <1>2, <1>3 DEF Store

\* Every step of the entry's life is one of the counter's, or none.
LEMMA CounterStep ==
  ASSUME StoreInv, StoreInv', [Next]_vars
  PROVE  [Counter!Next]_<<ShownTotal, file.total>>
  <1>0. /\ Types /\ Store
        /\ ShownTotal = IF kept # Absent THEN kept.total ELSE file.total
        /\ ShownTotal \in Nat /\ file.total \in Nat /\ file.total <= ShownTotal
    BY ShownFacts DEF StoreInv
  <1>1. (ShownTotal = IF kept # Absent THEN kept.total ELSE file.total)'
    BY ShownFacts, PTL
  <1>2. CASE UNCHANGED <<kept, file>>
    BY <1>0, <1>1, <1>2
  <1>3. CASE SetupBegins \/ FileLoaded
    <2>1. file' = file /\ Absent \notin Budgets
      BY <1>3, SetupFacts, EntryAssumption
    <2>2. CASE kept' \in Budgets /\ kept' = (IF kept # Absent THEN kept ELSE file)
      BY <1>0, <1>1, <2>1, <2>2
    <2>3. CASE kept' = kept
      BY <1>2, <2>1, <2>3
    <2> QED
      BY <1>3, <2>2, <2>3, SetupFacts
  <1>4. ASSUME NEW c \in Callers, Counted(c)
        PROVE  Counter!Count \/ UNCHANGED <<ShownTotal, file.total>>
    <2>1. file' = file
      BY <1>4 DEF Counted
    <2>2. CASE Counts(c)
      <3>1. /\ call[c].gen \in Gens /\ kept' = budget'[call[c].gen]
            /\ budget'[call[c].gen] = Recorded(budget[call[c].gen], today)
        BY <1>0, <1>4, <2>2, CountedCallFacts
      <3>2. /\ call[c].gen = gen /\ kept # Absent /\ kept.total = budget[gen].total
        BY <1>0, <2>2 DEF Counts, Store, Types
      <3>3. /\ Recorded(budget[gen], today) \in Budgets
            /\ Recorded(budget[gen], today).total = budget[gen].total + 1
        BY <1>0, BudgetType, TotalFacts DEF Types
      <3>4. kept' # Absent /\ kept'.total = kept.total + 1
        BY <3>1, <3>2, <3>3, EntryAssumption
      <3>5. ShownTotal' = ShownTotal + 1
        BY <1>0, <1>1, <3>2, <3>4
      <3> QED
        BY <2>1, <3>5 DEF Counter!Count
    <2>3. CASE ~Counts(c)
      <3>1. kept' = kept
        BY <1>0, <1>4, <2>3, CountedCallFacts
      <3> QED
        BY <1>0, <1>1, <2>1, <3>1
    <2> QED
      BY <2>2, <2>3
  <1>5. CASE SaveEnds
    <2>1. /\ kept' = kept /\ kept # Absent /\ saving \in Budgets
          /\ file' = saving /\ file.total <= saving.total /\ saving.total <= kept.total
      BY <1>0, <1>5 DEF SaveEnds, Store, Types
    <2>2. saving.total \in Nat /\ kept.total \in Nat
      BY <1>0, <2>1 DEF Types, Budgets
    <2>3. ShownTotal' = ShownTotal /\ ShownTotal = kept.total
      BY <1>0, <1>1, <2>1
    <2>4. file'.total \in file.total..ShownTotal
      BY <1>0, <2>1, <2>2, <2>3
    <2> QED
      BY <2>3, <2>4 DEF Counter!Next, Counter!Save
  <1>6. CASE Stops \/ Crashes
    <2>1. /\ kept' = Absent
          /\ file' \in {file} \cup ({saving, kept} \ {Absent})
      BY <1>6, RunFacts
    <2>2. ShownTotal' = file'.total
      BY <1>1, <2>1
    <2>3. \A b \in {file} \cup ({saving, kept} \ {Absent}) :
            b.total \in Nat /\ file.total <= b.total /\ b.total <= ShownTotal
      BY <1>0 DEF Store, Types, Budgets
    <2>4. file'.total \in file.total..ShownTotal
      BY <1>0, <2>1, <2>3
    <2> QED
      BY <2>2, <2>4 DEF Counter!Next, Counter!Crash
  <1>7. CASE Removed
    <2>1. kept' = Absent /\ file' = NoCounts
      BY <1>7 DEF Removed
    <2>2. ShownTotal' = 0 /\ file'.total = 0
      BY <1>1, <2>1, NoCountsFacts
    <2> QED
      BY <2>2 DEF Counter!Next, Counter!Remove
  <1>8. ASSUME NEW c \in Callers,
               CallBegins(c) \/ Decides(c) \/ GoesOut(c) \/ Arrives(c) \/ NotWritten(c)
        PROVE  UNCHANGED <<kept, file>>
    BY <1>8 DEF CallBegins, Decides, GoesOut, Arrives, NotWritten, storeVars
  <1>9. CASE FirstPollFails \/ SaveStarts \/ Unloaded \/ Midnight
    BY <1>2, <1>9 DEF FirstPollFails, SaveStarts, Unloaded, Midnight, storeVars
  <1>10. CASE Still
    BY <1>2, <1>10 DEF Still
  <1> QED
    BY <1>2, <1>3, <1>4, <1>5, <1>6, <1>7, <1>8, <1>9, <1>10, StillFacts
       DEF Next, Counter!Next

\* The total a user reads and the total on disk implement the counter an entry
\* promises, through set-ups, saves that overlap writes, reloads, crashes and the
\* removal: it grows by one for each write counted, a crash takes back at most
\* what was not on disk, and a save never puts back an older total
\* (write_counts.py).
THEOREM TotalImplementsCounter == Spec => TotalIsACounter
  <1>1. Init => Counter!Init
    BY NoCountsFacts DEF Init, Counter!Init, ShownTotal
  <1>2. StoreInv /\ StoreInv' /\ [Next]_vars => [Counter!Next]_<<ShownTotal, file.total>>
    BY CounterStep
  <1> QED
    BY <1>1, <1>2, StoreAlways, PTL DEF Spec, TotalIsACounter, Counter!Spec

----
\* The daily limit. A call that was allowed still has an allowance in its own
\* budget, as it holds that set-up's write lock; what arrived today is counted or
\* excused, but for the one write whose answer is still out on the budget that is
\* kept.

CallsOK ==
    /\ \A c \in Callers : call[c].arrived = TRUE => call[c].pc = "out"
    /\ \A c, d \in Callers :
         call[c].pc \in {"allowed", "out"} /\ call[d].pc \in {"allowed", "out"}
         /\ call[c].gen = call[d].gen => c = d
    /\ \A c, d \in Callers : call[c].pc = "out" /\ call[d].pc = "out" => c = d
    /\ entry \in {"polling", "circuits"} =>
         \A c \in Callers : call[c].pc # "idle" => call[c].gen # gen

WithinLimit ==
    Limit > 0 =>
        /\ kept # Absent => Spent(kept, today) <= Limit
        /\ saving # Absent => Spent(saving, today) <= Limit
        /\ Spent(file, today) <= Limit
        /\ \A c \in Callers : call[c].pc \in {"allowed", "out"} =>
             Spent(budget[call[c].gen], today) < Limit

\* What the entry, or the next one, knows to have been written today.
Known == IF kept # Absent THEN Spent(kept, today) ELSE Spent(file, today)

Arrivals ==
    \/ arrived <= Known + excused
    \/ /\ arrived <= Known + excused + 1
       /\ \E c \in Callers : call[c].arrived = TRUE /\ Counts(c)

LimitInv == StoreInv /\ CallsOK /\ WithinLimit /\ Arrivals

LEMMA LimitInit == Init => LimitInv
  <1> SUFFICES ASSUME Init PROVE CallsOK /\ WithinLimit /\ Arrivals
    BY StoreInit DEF LimitInv
  <1>1. Spent(file, today) = 0 /\ kept = Absent /\ saving = Absent /\ Limit \in Nat
    BY NoCountsFacts, EntryAssumption DEF Init, Spent
  <1>2. \A c \in Callers : call[c] = Idle
    BY DEF Init
  <1> QED
    BY <1>1, <1>2, IdleFacts DEF Init, CallsOK, WithinLimit, Arrivals, Known

\* Calls that are let alone stay in order.
LEMMA CallsKept ==
  ASSUME LimitInv, UNCHANGED call,
         \/ gen' = gen
         \/ gen' \notin InUse,
         entry' \in {"polling", "circuits"} =>
           \/ entry \in {"polling", "circuits"} /\ gen' = gen
           \/ gen' \notin InUse
  PROVE  CallsOK'
  BY DEF LimitInv, CallsOK, InUse

\* A step of one call keeps them in order if it says what the call may then be.
LEMMA CallsMoved ==
  ASSUME LimitInv, NEW c \in Callers, CallMoves(c), UNCHANGED <<entry, gen>>,
         call'[c].arrived = TRUE => call'[c].pc = "out",
         call'[c].pc # "idle" =>
           \/ call'[c].gen = call[c].gen /\ call[c].pc # "idle"
           \/ entry \notin {"polling", "circuits"},
         call'[c].pc \in {"allowed", "out"} =>
           \A d \in Callers \ {c} :
             call[d].pc \in {"allowed", "out"} => call[d].gen # call'[c].gen,
         call'[c].pc = "out" => \A d \in Callers \ {c} : call[d].pc # "out"
  PROVE  CallsOK'
  <1> DEFINE Held(d) == call[d].pc \in {"allowed", "out"}
  <1>1. \A d \in Callers \ {c} : call'[d] = call[d]
    BY DEF CallMoves
  <1>2. CallsOK
    BY DEF LimitInv
  <1>3. \A d \in Callers : call'[d].arrived = TRUE => call'[d].pc = "out"
    BY <1>1, <1>2 DEF CallsOK
  <1>4. \A d, e \in Callers :
          call'[d].pc \in {"allowed", "out"} /\ call'[e].pc \in {"allowed", "out"}
          /\ call'[d].gen = call'[e].gen => d = e
    BY <1>1, <1>2 DEF CallsOK
  <1>5. \A d, e \in Callers : call'[d].pc = "out" /\ call'[e].pc = "out" => d = e
    BY <1>1, <1>2 DEF CallsOK
  <1>6. entry \in {"polling", "circuits"} =>
          \A d \in Callers : call'[d].pc # "idle" => call'[d].gen # gen
    BY <1>1, <1>2 DEF CallsOK
  <1> QED
    BY <1>3, <1>4, <1>5, <1>6 DEF CallsOK

LEMMA CallsStep == LimitInv /\ [Next]_vars => CallsOK'
  <1> SUFFICES ASSUME LimitInv, [Next]_vars PROVE CallsOK'
    OBVIOUS
  <1>0. Types /\ Store /\ CallsOK /\ \A c \in Callers : call[c] \in Calls
    BY DEF LimitInv, StoreInv, Types
  <1>1. CASE Still
    BY <1>1, CallsKept DEF Still
  <1>2. CASE SetupBegins \/ FileLoaded
    BY <1>2, CallsKept, SetupFacts DEF LimitInv
  <1>3. CASE FirstPollFails \/ SaveStarts \/ SaveEnds \/ Unloaded \/ Removed \/ Midnight
    <2>1. UNCHANGED <<call, gen>> /\ entry' \in {"retry", "off", "removed", entry}
      BY <1>3 DEF FirstPollFails, SaveStarts, SaveEnds, Unloaded, Removed, Midnight,
                  entryVars, budgetVars, writeVars
    <2> QED
      BY <2>1, CallsKept
  <1>4. CASE Stops \/ Crashes
    <2>1. \A c \in Callers : call'[c] = Idle
      BY <1>4, RunFacts DEF LimitInv
    <2>2. \A c \in Callers : call'[c].pc = "idle" /\ call'[c].arrived = FALSE
      BY <2>1, IdleFacts DEF Calls
    <2> QED
      BY <2>2 DEF CallsOK
  <1>5. ASSUME NEW c \in Callers, CallBegins(c) PROVE CallsOK'
    <2>1. UNCHANGED <<entry, gen>> /\ entry \notin {"polling", "circuits"}
      BY <1>5 DEF CallBegins, entryVars, budgetVars, Running
    <2>2. CallMoves(c) /\ call'[c].pc = "queued" /\ call'[c].arrived # TRUE
      BY <1>0, <1>5, BeginsFacts
    <2> QED
      BY <2>1, <2>2, CallsMoved
  <1>6. ASSUME NEW c \in Callers, Decides(c) PROVE CallsOK'
    <2>1. UNCHANGED <<entry, gen>> /\ call[c].pc = "queued" /\ CallMoves(c)
      BY <1>0, <1>6, DecidesFacts DEF Decides, entryVars
    <2>2. \A d \in Callers : call[d].pc \in {"allowed", "out"} => call[d].gen # call[c].gen
      BY <1>6 DEF Decides
    <2>3. call[c].arrived # TRUE
      BY <1>0, <2>1 DEF CallsOK
    <2>4. CASE call'[c].pc = "allowed" /\ call'[c].gen = call[c].gen
               /\ call'[c].arrived = call[c].arrived
      BY <2>1, <2>2, <2>3, <2>4, CallsMoved
    <2>5. CASE call'[c] = Idle
      BY <2>1, <2>5, IdleFacts, CallsMoved
    <2> QED
      BY <1>0, <1>6, <2>4, <2>5, DecidesFacts
  <1>7. ASSUME NEW c \in Callers, GoesOut(c) \/ Arrives(c) PROVE CallsOK'
    <2>1. /\ UNCHANGED <<entry, gen>> /\ CallMoves(c) /\ call'[c].gen = call[c].gen
          /\ call'[c].pc = "out" /\ call[c].pc \in {"allowed", "out"}
      BY <1>0, <1>7, OutFacts DEF GoesOut, Arrives, entryVars, budgetVars
    <2>2. \A d \in Callers \ {c} : call[d].pc # "out"
      BY <1>0, <1>7 DEF GoesOut, Arrives, CallsOK
    <2>3. \A d \in Callers \ {c} :
            call[d].pc \in {"allowed", "out"} => call[d].gen # call'[c].gen
      BY <1>0, <2>1 DEF CallsOK
    <2> QED
      BY <2>1, <2>2, <2>3, CallsMoved
  <1>8. ASSUME NEW c \in Callers, Counted(c) \/ NotWritten(c) PROVE CallsOK'
    <2>1. UNCHANGED <<entry, gen>> /\ CallMoves(c) /\ call'[c] = Idle
      BY <1>0, <1>8, CountedCallFacts, NotWrittenFacts
         DEF Counted, NotWritten, entryVars, budgetVars
    <2> QED
      BY <2>1, IdleFacts, CallsMoved
  <1> QED
    BY <1>1, <1>2, <1>3, <1>4, <1>5, <1>6, <1>7, <1>8, StillFacts DEF Next

\* What the limit speaks about, in terms of what is spent today.
LEMMA SpentTypes ==
  ASSUME LimitInv
  PROVE  /\ Types /\ Store /\ CallsOK /\ today \in Nat /\ Limit \in Nat
         /\ Absent \notin Budgets /\ arrived \in Nat /\ excused \in Nat
         /\ \A b \in Budgets : Spent(b, today) \in Nat
         /\ \A c \in Callers : call[c].gen \in Gens
         /\ \A g \in Gens : budget[g] \in Budgets /\ Spent(budget[g], today) \in Nat
         /\ Known \in Nat
  <1>1. /\ Types /\ Store /\ CallsOK /\ today \in Nat /\ Limit \in Nat
        /\ Absent \notin Budgets /\ arrived \in Nat /\ excused \in Nat
    BY EntryAssumption DEF LimitInv, StoreInv, Types
  <1>2. \A b \in Budgets : Spent(b, today) \in Nat
    BY <1>1, SpentFacts
  <1>3. \A g \in Gens : budget[g] \in Budgets
    BY <1>1 DEF Types
  <1>4. \A c \in Callers : call[c].gen \in Gens
    BY <1>1 DEF Types, Calls
  <1>5. Known \in Nat
    BY <1>1, <1>2 DEF Known, Types
  <1> QED
    BY <1>1, <1>2, <1>3, <1>4, <1>5

LEMMA WithinLimitStep == LimitInv /\ [Next]_vars => WithinLimit'
  <1> SUFFICES ASSUME LimitInv, [Next]_vars, Limit > 0 PROVE WithinLimit'
    BY DEF WithinLimit
  <1>0. /\ Types /\ Store /\ CallsOK /\ WithinLimit /\ today \in Nat /\ Limit \in Nat
        /\ Absent \notin Budgets
        /\ \A c \in Callers : call[c].gen \in Gens
        /\ \A g \in Gens : budget[g] \in Budgets
    BY SpentTypes DEF LimitInv
  <1>1. ASSUME UNCHANGED <<budget, kept, saving, file, call, today>> PROVE WithinLimit'
    BY <1>0, <1>1 DEF WithinLimit
  <1>2. CASE SetupBegins \/ FileLoaded
    <2>1. CASE entry' = "loading"
      BY <1>1, <1>2, <2>1, SetupFacts DEF LimitInv
    <2>2. CASE entry' = "polling"
      <3>1. /\ UNCHANGED <<saving, file, call, today>>
            /\ kept' = (IF kept # Absent THEN kept ELSE file)
            /\ gen' \notin InUse
            /\ \A h \in Gens \ {gen'} : budget'[h] = budget[h]
        BY <1>2, <2>2, SetupFacts DEF LimitInv
      <3>2. \A c \in Callers : call[c].pc \in {"allowed", "out"} =>
              budget'[call[c].gen] = budget[call[c].gen]
        BY <1>0, <3>1 DEF InUse
      <3> QED
        BY <1>0, <3>1, <3>2 DEF WithinLimit
    <2> QED
      BY <1>2, <2>1, <2>2, SetupFacts DEF LimitInv
  <1>3. CASE Still \/ FirstPollFails \/ Unloaded
    BY <1>1, <1>3 DEF Still, FirstPollFails, Unloaded, storeVars, writeVars, budgetVars
  <1>4. ASSUME NEW c \in Callers, CallMoves(c),
               UNCHANGED <<budget, kept, saving, file, today>>,
               call'[c].pc \in {"allowed", "out"} =>
                 call[c].pc \in {"allowed", "out"} /\ call'[c].gen = call[c].gen
        PROVE  WithinLimit'
    <2>1. \A d \in Callers : call'[d].pc \in {"allowed", "out"} =>
            call[d].pc \in {"allowed", "out"} /\ call'[d].gen = call[d].gen
      BY <1>4 DEF CallMoves
    <2> QED
      BY <1>0, <1>4, <2>1 DEF WithinLimit
  <1>5. ASSUME NEW c \in Callers, CallBegins(c) \/ GoesOut(c) \/ Arrives(c) \/ NotWritten(c)
        PROVE  WithinLimit'
    <2>1. UNCHANGED <<budget, kept, saving, file, today>> /\ CallMoves(c)
      BY <1>0, <1>5, BeginsFacts, OutFacts, NotWrittenFacts
         DEF CallBegins, GoesOut, Arrives, NotWritten, budgetVars, storeVars
    <2>2. call'[c].pc \in {"allowed", "out"} =>
            call[c].pc \in {"allowed", "out"} /\ call'[c].gen = call[c].gen
      BY <1>0, <1>5, BeginsFacts, OutFacts, NotWrittenFacts, IdleFacts DEF GoesOut, Arrives
    <2> QED
      BY <1>4, <2>1, <2>2
  <1>6. ASSUME NEW c \in Callers, Decides(c) PROVE WithinLimit'
    <2>1. UNCHANGED <<kept, saving, file, today>> /\ CallMoves(c)
      BY <1>0, <1>6, DecidesFacts DEF Decides, storeVars
    <2>2. PICK h \in Gens : h = call[c].gen
      BY <1>0
    <2>3. /\ budget'[h] = RollDay(budget[h], today)
          /\ \A g \in Gens \ {h} : budget'[g] = budget[g]
          /\ \/ /\ AllowsWrite(budget[h], Limit, today)
                /\ call'[c].gen = h
             \/ call'[c] = Idle
      BY <1>0, <1>6, <2>2, DecidesFacts
    <2>4. Spent(RollDay(budget[h], today), today) = Spent(budget[h], today)
      BY <1>0, SpentFacts
    <2>5. \A g \in Gens : Spent(budget'[g], today) = Spent(budget[g], today)
      BY <2>3, <2>4
    <2>6. call'[c].pc \in {"allowed", "out"} =>
            Spent(budget[call'[c].gen], today) < Limit /\ call'[c].gen = h
      <3>1. AllowsWrite(budget[h], Limit, today) => Spent(budget[h], today) < Limit
        BY <1>0, SpentFacts DEF AllowsWrite
      <3> QED
        BY <2>3, <3>1, IdleFacts
    <2>7. \A d \in Callers : call'[d].pc \in {"allowed", "out"} =>
            Spent(budget'[call'[d].gen], today) < Limit
      <3>1. \A d \in Callers \ {c} : call'[d] = call[d]
        BY <2>1 DEF CallMoves
      <3>2. \A d \in Callers \ {c} : call[d].pc \in {"allowed", "out"} =>
              Spent(budget[call[d].gen], today) < Limit
        BY <1>0 DEF WithinLimit
      <3>3. \A d \in Callers \ {c} : Spent(budget'[call[d].gen], today)
                                     = Spent(budget[call[d].gen], today)
        BY <1>0, <2>5
      <3>4. ASSUME NEW d \in Callers \ {c}, call'[d].pc \in {"allowed", "out"}
            PROVE  Spent(budget'[call'[d].gen], today) < Limit
        BY <3>1, <3>2, <3>3, <3>4
      <3> QED
        BY <2>5, <2>6, <3>4
    <2> QED
      BY <1>0, <2>1, <2>7 DEF WithinLimit
  <1>7. ASSUME NEW c \in Callers, Counted(c) PROVE WithinLimit'
    <2>1. /\ UNCHANGED <<saving, file, today>> /\ CallMoves(c) /\ call'[c] = Idle
          /\ call[c].pc = "out"
      BY <1>0, <1>7, CountedCallFacts DEF Counted
    <2>2. PICK h \in Gens : h = call[c].gen
      BY <1>0
    <2>3. /\ budget'[h] = Recorded(budget[h], today)
          /\ \A g \in Gens \ {h} : budget'[g] = budget[g]
          /\ kept' = kept \/ kept' = Recorded(budget[h], today)
      BY <1>0, <1>7, <2>2, CountedCallFacts
    <2>4. Spent(Recorded(budget[h], today), today) <= Limit
      <3>1. Spent(budget[h], today) < Limit
        BY <1>0, <2>1, <2>2 DEF WithinLimit
      <3>2. /\ Spent(Recorded(budget[h], today), today) = Spent(budget[h], today) + 1
            /\ Spent(budget[h], today) \in Nat
        BY <1>0, SpentFacts
      <3> QED
        BY <1>0, <3>1, <3>2
    <2>5. kept' # Absent => Spent(kept', today) <= Limit
      BY <1>0, <2>3, <2>4 DEF WithinLimit
    <2>6. \A d \in Callers : call'[d].pc \in {"allowed", "out"} =>
            call'[d] = call[d] /\ budget'[call[d].gen] = budget[call[d].gen]
      <3> SUFFICES ASSUME NEW d \in Callers, call'[d].pc \in {"allowed", "out"}
                   PROVE  call'[d] = call[d] /\ budget'[call[d].gen] = budget[call[d].gen]
        OBVIOUS
      <3>1. d # c
        BY <2>1, IdleFacts
      <3>2. call'[d] = call[d]
        BY <2>1, <3>1 DEF CallMoves
      <3>3. call[d].gen # h
        BY <1>0, <2>1, <2>2, <3>1, <3>2 DEF CallsOK
      <3> QED
        BY <1>0, <2>3, <3>2, <3>3
    <2> QED
      BY <1>0, <2>1, <2>5, <2>6 DEF WithinLimit
  <1>8. CASE SaveStarts \/ SaveEnds
    BY <1>0, <1>8 DEF SaveStarts, SaveEnds, WithinLimit, Types, budgetVars, writeVars
  <1>9. CASE Removed
    <2>1. /\ UNCHANGED <<budget, call, today>> /\ kept' = Absent /\ saving' = Absent
          /\ file' = NoCounts
      BY <1>9 DEF Removed
    <2>2. Spent(NoCounts, today) = 0
      BY <1>0, NoCountsFacts DEF Spent
    <2> QED
      BY <1>0, <2>1, <2>2 DEF WithinLimit
  <1>10. CASE Stops \/ Crashes
    <2>1. /\ UNCHANGED <<budget, today>> /\ kept' = Absent /\ saving' = Absent
          /\ \A c \in Callers : call'[c] = Idle
          /\ file' \in {file} \cup ({saving, kept} \ {Absent})
      BY <1>10, RunFacts DEF LimitInv
    <2>2. \A c \in Callers : call'[c].pc = "idle"
      BY <2>1, IdleFacts
    <2>3. Spent(file', today) <= Limit
      BY <1>0, <2>1 DEF WithinLimit
    <2> QED
      BY <1>0, <2>1, <2>2, <2>3 DEF WithinLimit
  <1>11. CASE Midnight
    <2>1. UNCHANGED <<budget, kept, saving, file, call>> /\ today' = today + 1
      BY <1>11 DEF Midnight, budgetVars, storeVars
    <2>2. \A b \in Budgets : b.day <= today => Spent(b, today + 1) = 0
      BY <1>0, SpentFacts
    <2>3. /\ \A g \in Gens : Spent(budget[g], today + 1) = 0
          /\ kept # Absent => Spent(kept, today + 1) = 0
          /\ saving # Absent => Spent(saving, today + 1) = 0
          /\ Spent(file, today + 1) = 0
      BY <1>0, <2>2 DEF Store, Types
    <2>4. \A c \in Callers : Spent(budget[call[c].gen], today + 1) = 0
      BY <1>0, <2>3
    <2> QED
      BY <1>0, <2>1, <2>3, <2>4 DEF WithinLimit
  <1> QED
    BY <1>2, <1>3, <1>5, <1>6, <1>7, <1>8, <1>9, <1>10, <1>11, StillFacts DEF Next

\* A step of one call that brings nothing to the EEPROM, and leaves the counts
\* alone, leaves the account alone too.
LEMMA ArrivalsKept ==
  ASSUME LimitInv, NEW c \in Callers, CallMoves(c), call[c].arrived # TRUE,
         UNCHANGED <<gen, attached, kept, file, arrived, excused, today>>
  PROVE  Arrivals'
  <1>1. Known' = Known
    BY DEF Known
  <1>2. ASSUME NEW d \in Callers, call[d].arrived = TRUE, Counts(d)
        PROVE  call'[d].arrived = TRUE /\ Counts(d)'
    <2>1. d # c /\ call'[d] = call[d]
      BY <1>2 DEF CallMoves
    <2> QED
      BY <1>2, <2>1 DEF Counts
  <1> QED
    BY <1>1, <1>2 DEF LimitInv, Arrivals

LEMMA ArrivalsStep == LimitInv /\ [Next]_vars => Arrivals'
  <1> SUFFICES ASSUME LimitInv, [Next]_vars PROVE Arrivals'
    OBVIOUS
  <1>0. /\ Types /\ Store /\ CallsOK /\ Arrivals /\ today \in Nat
        /\ Absent \notin Budgets /\ arrived \in Nat /\ excused \in Nat /\ Known \in Nat
        /\ \A b \in Budgets : Spent(b, today) \in Nat
        /\ \A c \in Callers : call[c].gen \in Gens
        /\ \A g \in Gens : budget[g] \in Budgets /\ Spent(budget[g], today) \in Nat
    BY SpentTypes DEF LimitInv
  <1> DEFINE Extra == \E c \in Callers : call[c].arrived = TRUE /\ Counts(c)
  <1>1. ASSUME Known' = Known, UNCHANGED <<arrived, excused>>, ~Extra PROVE Arrivals'
    BY <1>1 DEF LimitInv, Arrivals
  <1>2. CASE SetupBegins \/ FileLoaded
    <2>1. /\ UNCHANGED <<file, arrived, excused, today>>
          /\ attached = FALSE
          /\ \/ kept' \in Budgets /\ kept' = (IF kept # Absent THEN kept ELSE file)
             \/ kept' = kept
      BY <1>2, SetupFacts DEF LimitInv
    <2>2. Known' = Known
      BY <1>0, <2>1 DEF Known
    <2> QED
      BY <1>1, <2>1, <2>2 DEF Counts
  <1>3. CASE FirstPollFails
    <2>1. UNCHANGED <<kept, file, arrived, excused, today>> /\ entry = "polling"
      BY <1>3 DEF FirstPollFails, storeVars, writeVars
    <2>2. ~Extra
      BY <1>0, <2>1 DEF CallsOK, Counts
    <2>3. Known' = Known
      BY <2>1 DEF Known
    <2> QED
      BY <1>1, <2>1, <2>2, <2>3
  <1>4. CASE Still
    BY <1>0, <1>4 DEF Still, Arrivals, Known, Counts
  <1>5. ASSUME NEW c \in Callers,
               CallBegins(c) \/ Decides(c) \/ GoesOut(c) \/ NotWritten(c)
        PROVE  Arrivals'
    <2>1. CallMoves(c) /\ UNCHANGED <<gen, attached, kept, file, arrived, excused, today>>
      BY <1>0, <1>5, BeginsFacts, DecidesFacts, OutFacts, NotWrittenFacts
         DEF CallBegins, Decides, GoesOut, NotWritten, budgetVars, storeVars, writeVars
    <2>2. call[c].arrived # TRUE
      BY <1>0, <1>5 DEF CallBegins, Decides, GoesOut, NotWritten, CallsOK
    <2> QED
      BY <2>1, <2>2, ArrivalsKept
  <1>6. ASSUME NEW c \in Callers, Arrives(c) PROVE Arrivals'
    <2>1. ~Extra
      BY <1>0, <1>6 DEF Arrives, CallsOK
    <2>2. /\ arrived' = arrived + 1 /\ UNCHANGED <<gen, attached, kept, file, today>>
          /\ excused' = IF Counts(c) THEN excused ELSE excused + 1
      BY <1>6 DEF Arrives, budgetVars, storeVars
    <2>3. Known' = Known /\ arrived <= Known + excused
      BY <1>0, <2>1, <2>2 DEF Known, Arrivals
    <2>4. call'[c].arrived = TRUE /\ call'[c].gen = call[c].gen
      BY <1>0, <1>6, OutFacts
    <2>5. CASE Counts(c)
      <3>1. Counts(c)'
        BY <2>2, <2>4, <2>5 DEF Counts
      <3>2. arrived' <= Known' + excused' + 1
        BY <1>0, <2>2, <2>3, <2>5
      <3> QED
        BY <2>4, <3>1, <3>2 DEF Arrivals
    <2>6. CASE ~Counts(c)
      <3>1. arrived' <= Known' + excused'
        BY <1>0, <2>2, <2>3, <2>6
      <3> QED
        BY <3>1 DEF Arrivals
    <2> QED
      BY <2>5, <2>6
  <1>7. ASSUME NEW c \in Callers, Counted(c) PROVE Arrivals'
    <2>1. UNCHANGED <<file, arrived, excused, today>> /\ call[c].pc = "out"
      BY <1>7 DEF Counted
    <2>2. PICK h \in Gens : h = call[c].gen
      BY <1>0
    <2>3. /\ Recorded(budget[h], today) \in Budgets
          /\ IF Counts(c) THEN kept' = Recorded(budget[h], today) ELSE kept' = kept
      BY <1>0, <1>7, <2>2, CountedCallFacts
    <2>4. CASE Counts(c)
      <3>1. /\ h = gen /\ kept # Absent
            /\ Spent(kept, today) = Spent(budget[h], today)
        BY <1>0, <2>2, <2>4 DEF Counts, Store, Types
      <3>2. Spent(Recorded(budget[h], today), today) = Spent(budget[h], today) + 1
        BY <1>0, SpentFacts
      <3>3. Known' = Known + 1
        BY <1>0, <2>1, <2>3, <2>4, <3>1, <3>2 DEF Known
      <3>4. arrived <= Known + excused + 1
        BY <1>0 DEF Arrivals
      <3>5. arrived' <= Known' + excused'
        BY <1>0, <2>1, <3>3, <3>4
      <3> QED
        BY <3>5 DEF Arrivals
    <2>5. CASE ~Counts(c)
      <3>1. ~Extra
        BY <1>0, <2>1, <2>5 DEF CallsOK
      <3>2. Known' = Known
        BY <2>1, <2>3, <2>5 DEF Known
      <3> QED
        BY <1>1, <2>1, <3>1, <3>2
    <2> QED
      BY <2>4, <2>5
  <1>8. CASE SaveStarts
    BY <1>0, <1>8 DEF SaveStarts, Arrivals, Known, Counts, budgetVars, writeVars
  <1>9. CASE SaveEnds
    <2>1. /\ UNCHANGED <<gen, attached, kept, call, arrived, excused, today>>
          /\ kept # Absent
      BY <1>0, <1>9 DEF SaveEnds, Store, budgetVars, writeVars
    <2> QED
      BY <1>0, <2>1 DEF Arrivals, Known, Counts
  <1>10. CASE Unloaded
    <2>1. /\ UNCHANGED <<kept, file, arrived, today>> /\ excused' = excused + CutOff
      BY <1>10 DEF Unloaded, storeVars
    <2>2. Known' = Known
      BY <2>1 DEF Known
    <2>3. CutOff \in Nat /\ (Extra => CutOff >= 1)
      BY CutOffFacts
    <2>4. arrived <= Known + excused + CutOff
      BY <1>0, <2>3 DEF Arrivals
    <2>5. arrived' <= Known' + excused'
      BY <1>0, <2>1, <2>2, <2>3, <2>4
    <2> QED
      BY <2>5 DEF Arrivals
  <1>11. CASE Removed
    <2>1. /\ arrived' = arrived /\ excused' = arrived /\ kept' = Absent /\ today' = today
          /\ file' = NoCounts
      BY <1>11 DEF Removed
    <2>2. Known' = Spent(NoCounts, today) /\ Known' \in Nat
      BY <1>0, <2>1, NoCountsFacts DEF Known
    <2>3. arrived' <= Known' + excused'
      BY <1>0, <2>1, <2>2
    <2> QED
      BY <2>3 DEF Arrivals
  <1>12. CASE Stops \/ Crashes
    <2>1. /\ arrived' = arrived /\ kept' = Absent /\ today' = today
          /\ file' \in {file} \cup ({saving, kept} \ {Absent})
          /\ excused' = IF arrived > OnDisk(file') THEN arrived - OnDisk(file') ELSE 0
      BY <1>12, RunFacts DEF LimitInv
    <2>2. file' \in Budgets
      BY <1>0, <2>1 DEF Types
    <2>3. Known' = OnDisk(file') /\ Known' \in Nat
      BY <1>0, <2>1, <2>2 DEF Known, OnDisk, Spent
    <2>4. arrived' <= Known' + excused'
      BY <1>0, <2>1, <2>3
    <2> QED
      BY <2>4 DEF Arrivals
  <1>13. CASE Midnight
    <2>1. /\ arrived' = 0 /\ excused' = 0 /\ today' = today + 1
          /\ UNCHANGED <<kept, file>>
      BY <1>13 DEF Midnight, storeVars
    <2>2. Known' = 0
      <3>1. \A b \in Budgets : b.day <= today => Spent(b, today + 1) = 0
        BY <1>0, SpentFacts
      <3> QED
        BY <1>0, <2>1, <3>1 DEF Known, Store, Types
    <2> QED
      BY <2>1, <2>2 DEF Arrivals
  <1> QED
    BY <1>2, <1>3, <1>4, <1>5, <1>6, <1>7, <1>8, <1>9, <1>10, <1>11, <1>12, <1>13, StillFacts
       DEF Next

LEMMA LimitAlways == Spec => []LimitInv
  <1>1. LimitInv => StoreInv
    BY DEF LimitInv
  <1>2. LimitInv /\ [Next]_vars => LimitInv'
    BY <1>1, StoreStep, CallsStep, WithinLimitStep, ArrivalsStep DEF LimitInv
  <1> QED
    BY <1>2, LimitInit, PTL DEF Spec

\* The daily limit outlives reloads, restarts, failed set-ups and a removal: what
\* reached the EEPROM beyond it arrived while its entry was unloaded, or before a
\* crash that came before the save (async_keep_write_counts, load).
THEOREM LimitAlwaysOutlives == Spec => []LimitOutlivesTheEntry
  <1>1. LimitInv => LimitOutlivesTheEntry
    <2> SUFFICES ASSUME LimitInv, Limit > 0 PROVE arrived <= Limit + excused
      BY DEF LimitOutlivesTheEntry
    <2>0. /\ Types /\ Store /\ CallsOK /\ WithinLimit /\ Arrivals /\ Limit \in Nat
          /\ arrived \in Nat /\ excused \in Nat /\ Known \in Nat
          /\ \A g \in Gens : Spent(budget[g], today) \in Nat
      BY SpentTypes DEF LimitInv
    <2>1. Known <= Limit
      BY <2>0 DEF WithinLimit, Known
    <2>2. CASE arrived <= Known + excused
      BY <2>0, <2>1, <2>2
    <2>3. CASE /\ arrived <= Known + excused + 1
               /\ \E c \in Callers : call[c].arrived = TRUE /\ Counts(c)
      <3>1. PICK c \in Callers : call[c].arrived = TRUE /\ Counts(c)
        BY <2>3
      <3>2. call[c].pc = "out" /\ call[c].gen = gen /\ attached = TRUE /\ gen \in Gens
        BY <2>0, <3>1 DEF CallsOK, Counts, Types
      <3>3. Spent(budget[gen], today) < Limit
        BY <2>0, <3>1, <3>2 DEF WithinLimit
      <3>4. Known = Spent(budget[gen], today)
        BY <2>0, <3>2 DEF Known, Store
      <3>5. Known + 1 <= Limit
        BY <2>0, <3>2, <3>3, <3>4
      <3> QED
        BY <2>0, <2>3, <3>5
    <2> QED
      BY <2>0, <2>2, <2>3 DEF Arrivals
  <1> QED
    BY <1>1, LimitAlways, PTL
====
