---- MODULE PumpEntry ----
\* The life of a pump's entry: set up, polled, reloaded, unloaded and removed
\* (__init__.py, coordinator.py), and what outlives it: the write counts
\* (write_counts.py) and the notices about heating circuits. The writes are those
\* of HeatPump, down to what they do to the counts; a write may still be under
\* way when the entry it was made on is gone.
EXTENDS Integers, FiniteSets, WriteBudget

CONSTANTS
    Circuits,      \* heating circuits an entry may enable
    Callers,       \* service calls that may be under way at once
    Limit,         \* writes a day, 0 for no limit
    MaxCalls,      \* bound: service calls
    MaxDay,        \* bound: midnights
    MaxReloads,    \* bound: reloads and reconfigures
    MaxCrashes,    \* bound: crashes and stops of Home Assistant
    Absent

FailedPollsTolerated == 3
Kinds == {"notEnabled", "offAtController"}
\* A budget for each set-up that a call may still be under way on.
Gens == 1..(Cardinality(Callers) + 1)
NoCounts == NewBudget(0)

ASSUME EntryAssumption ==
    /\ IsFiniteSet(Circuits) /\ IsFiniteSet(Callers)
    /\ {Limit, MaxCalls, MaxDay, MaxReloads, MaxCrashes} \subseteq Nat
    /\ Absent \notin Budgets

\* The entry.
VARIABLES
    entry,       \* "off", "loading", "polling", "circuits", "loaded",
                 \* "reloading", "retry" or "removed"
    enabled,     \* the circuits its data enables
    failed,      \* _failed_polls, at most one past the tolerated ones
    available,   \* last_update_success: the entities show values
    told         \* what the controller told of each circuit in this set-up
\* The counts.
VARIABLES
    gen,         \* the set-up whose budget the entity uses
    attached,    \* keep() listens to it
    budget,      \* the budget of each set-up
    kept,        \* _Kept.counts, in memory for the whole run
    pending,     \* a delayed save is due
    saving,      \* the counts being written to disk
    file         \* the counts on disk
\* The notices: raised ones, and those among them a user has ignored.
VARIABLES notices, ignored
\* The writes and the world.
VARIABLES
    call, today, setUp, calls, reloads, crashes
\* History the properties speak about; no action reads it.
VARIABLES
    arrived,     \* words that reached the EEPROM today
    excused,     \* those among them a crash or an unload came between
    bad          \* failed polls since the last good one

entryVars == <<entry, enabled>>
pollVars == <<failed, available, bad>>
budgetVars == <<gen, attached, budget>>
storeVars == <<kept, pending, saving, file>>
noticeVars == <<notices, ignored>>
writeVars == <<call, arrived, excused>>
boundVars == <<calls, reloads, crashes>>
vars == <<entryVars, pollVars, told, budgetVars, storeVars, noticeVars,
          writeVars, boundVars, today, setUp>>

Idle == [pc |-> "idle", gen |-> 1, arrived |-> FALSE]

Init ==
    /\ entry = "off"
    /\ enabled \in SUBSET Circuits
    /\ failed = 0 /\ available = FALSE /\ bad = 0
    /\ told = [c \in Circuits |-> "untold"]
    /\ gen = 1 /\ attached = FALSE
    /\ budget = [g \in Gens |-> NoCounts]
    /\ kept = Absent /\ pending = FALSE /\ saving = Absent /\ file = NoCounts
    /\ notices = {} /\ ignored = {}
    /\ call = [c \in Callers |-> Idle]
    /\ today = 0
    /\ setUp \in [Circuits -> {"on", "off", "odd"}]
    /\ calls = 0 /\ reloads = 0 /\ crashes = 0
    /\ arrived = 0 /\ excused = 0

----
\* Setting the entry up: async_setup_entry.

\* The calls still under way on an earlier set-up keep its budget.
InUse == {call[c].gen : c \in {d \in Callers : call[d].pc # "idle"}}

\* A new budget, and the counts loaded into it; from here on it is kept.
TakesCounts(counts) ==
    \E g \in Gens \ InUse :
        /\ \A h \in Gens \ InUse : g <= h
        /\ gen' = g
        /\ budget' = [budget EXCEPT ![g] = Loaded(counts, today)]
        /\ kept' = counts
        /\ attached' = TRUE

\* Mutant of KeptCounts: every set-up reads the file, also one being written.
KeptOnDisk == Absent

\* The latest counts of this run, if there are any.
KeptCounts == kept

\* The counts come from memory, or else from the file.
SetupBegins ==
    /\ entry \in {"off", "retry"}
    /\ IF KeptCounts # Absent
       THEN TakesCounts(KeptCounts) /\ entry' = "polling"
       ELSE entry' = "loading" /\ UNCHANGED <<budgetVars, kept>>
    /\ failed' = 0 /\ available' = FALSE /\ bad' = 0
    /\ told' = [c \in Circuits |-> "untold"]
    /\ UNCHANGED <<enabled, pending, saving, file, noticeVars, writeVars,
                   boundVars, today, setUp>>

FileLoaded ==
    /\ entry = "loading"
    /\ TakesCounts(file)
    /\ entry' = "polling"
    /\ UNCHANGED <<enabled, pollVars, told, pending, saving, file, noticeVars,
                   writeVars, boundVars, today, setUp>>

\* async_config_entry_first_refresh.
FirstPollGood ==
    /\ entry = "polling"
    /\ entry' = "circuits"
    /\ available' = TRUE
    /\ UNCHANGED <<enabled, failed, bad, told, budgetVars, storeVars, noticeVars,
                   writeVars, boundVars, today, setUp>>

\* There is no data to keep: the set-up is tried again, its hooks are undone.
FirstPollFails ==
    /\ entry = "polling"
    /\ entry' = "retry"
    /\ attached' = FALSE
    /\ UNCHANGED <<enabled, pollVars, told, gen, budget, storeVars, noticeVars,
                   writeVars, boundVars, today, setUp>>

----
\* The circuits: circuit_configurations and report_circuits.

\* The half of a notice the entry's own data speaks about.
Contradicted(k, c) == (k = "notEnabled") = (c \in enabled)

\* Mutants of Stands: a circuit nothing is told of loses its notices; it keeps
\* them, whatever the entry says.
StandsIfTold(k, c, word) ==
    \/ word = "on" /\ k = "notEnabled" /\ c \notin enabled
    \/ word = "off" /\ k = "offAtController" /\ c \in enabled
StandsUntilTold(k, c, word) ==
    IF word = "untold" THEN <<k, c>> \in notices ELSE StandsIfTold(k, c, word)

\* A documented set-up raises the one notice it calls for; an untold circuit
\* keeps its notice, unless the entry contradicts it.
Stands(k, c, word) ==
    CASE word = "on" -> k = "notEnabled" /\ c \notin enabled
      [] word = "off" -> k = "offAtController" /\ c \in enabled
      [] word = "untold" -> <<k, c>> \in notices /\ ~Contradicted(k, c)

\* Mutant of StillIgnored: a notice that went is ignored when it comes again.
IgnoredForGood(raised) == ignored

\* A notice that is taken away takes its ignore along.
StillIgnored(raised) == ignored \cap raised

\* The circuits are asked one after another: each is told, refused or of a
\* set-up nobody documents, and a link that drops leaves all untold. The report
\* follows, and the platforms.
CircuitsReported ==
    /\ entry = "circuits"
    /\ \E heard \in SUBSET Circuits :
         told' = [c \in Circuits |-> IF c \in heard /\ setUp[c] # "odd"
                                     THEN setUp[c] ELSE "untold"]
    /\ notices' = {n \in Kinds \X Circuits : Stands(n[1], n[2], told'[n[2]])}
    /\ ignored' = StillIgnored(notices')
    /\ entry' = "loaded"
    /\ UNCHANGED <<enabled, pollVars, budgetVars, storeVars, writeVars,
                   boundVars, today, setUp>>

----
\* The polls of a loaded entry: _async_update_data.

Running == entry \in {"loaded", "reloading"}

\* Mutant of PollGood: the grace is not granted again.
PollGoodCountsOn ==
    /\ Running
    /\ available' = TRUE
    /\ bad' = 0
    /\ UNCHANGED <<entryVars, failed, told, budgetVars, storeVars, noticeVars,
                   writeVars, boundVars, today, setUp>>

PollGood ==
    /\ Running
    /\ failed' = 0
    /\ available' = TRUE
    /\ bad' = 0
    /\ UNCHANGED <<entryVars, told, budgetVars, storeVars, noticeVars, writeVars,
                   boundVars, today, setUp>>

AtMost(n, most) == IF n < most THEN n ELSE most

\* _failed_poll, of the link or of a fault: the last values stay for a while.
PollFails ==
    /\ Running
    /\ failed' = AtMost(failed + 1, FailedPollsTolerated + 1)
    /\ available' = (failed' <= FailedPollsTolerated)
    /\ bad' = AtMost(bad + 1, FailedPollsTolerated + 1)
    /\ UNCHANGED <<entryVars, told, budgetVars, storeVars, noticeVars, writeVars,
                   boundVars, today, setUp>>

----
\* The writes, down to what they do to the counts. Each set-up has a device of
\* its own, and with it a write lock and a budget.

CallBegins(c) ==
    /\ Running
    /\ call[c].pc = "idle"
    /\ calls < MaxCalls
    /\ calls' = calls + 1
    /\ call' = [call EXCEPT ![c] = [Idle EXCEPT !.pc = "queued", !.gen = gen]]
    /\ UNCHANGED <<entryVars, pollVars, told, budgetVars, storeVars, noticeVars,
                   arrived, excused, reloads, crashes, today, setUp>>

\* The write lock, and the limit of the call's own budget.
Decides(c) ==
    /\ call[c].pc = "queued"
    /\ \A d \in Callers : call[d].gen = call[c].gen =>
         call[d].pc \notin {"allowed", "out"}
    /\ budget' = [budget EXCEPT ![call[c].gen] = RollDay(@, today)]
    /\ call' = [call EXCEPT ![c] =
                  IF AllowsWrite(budget[@.gen], Limit, today)
                  THEN [@ EXCEPT !.pc = "allowed"] ELSE Idle]
    /\ UNCHANGED <<entryVars, pollVars, told, gen, attached, storeVars,
                   noticeVars, arrived, excused, boundVars, today, setUp>>

\* The controller's lock is one for every set-up.
GoesOut(c) ==
    /\ call[c].pc = "allowed"
    /\ \A d \in Callers : call[d].pc # "out"
    /\ call' = [call EXCEPT ![c].pc = "out"]
    /\ UNCHANGED <<entryVars, pollVars, told, budgetVars, storeVars, noticeVars,
                   arrived, excused, boundVars, today, setUp>>

\* Whether the call's budget is the one that is kept.
Counts(c) == attached /\ call[c].gen = gen

Arrives(c) ==
    /\ call[c].pc = "out"
    /\ ~call[c].arrived
    /\ call' = [call EXCEPT ![c].arrived = TRUE]
    /\ arrived' = arrived + 1
    /\ excused' = IF Counts(c) THEN excused ELSE excused + 1
    /\ UNCHANGED <<entryVars, pollVars, told, budgetVars, storeVars, noticeVars,
                   boundVars, today, setUp>>

\* keep: in memory at once, on disk a moment later.
Keeps(c, counts) ==
    IF Counts(c) THEN kept' = counts /\ pending' = TRUE
    ELSE UNCHANGED <<kept, pending>>

\* Answered, its answer lost, or cancelled on its way: counted.
Counted(c) ==
    /\ call[c].pc = "out"
    /\ LET counts == Recorded(budget[call[c].gen], today)
       IN /\ budget' = [budget EXCEPT ![call[c].gen] = counts]
          /\ Keeps(c, counts)
    /\ call' = [call EXCEPT ![c] = Idle]
    /\ UNCHANGED <<entryVars, pollVars, told, gen, attached, saving, file,
                   noticeVars, arrived, excused, boundVars, today, setUp>>

\* Refused, unchanged, closed or cancelled before it went out: not counted.
NotWritten(c) ==
    /\ call[c].pc # "idle" /\ ~call[c].arrived
    /\ call' = [call EXCEPT ![c] = Idle]
    /\ UNCHANGED <<entryVars, pollVars, told, budgetVars, storeVars, noticeVars,
                   arrived, excused, boundVars, today, setUp>>

----
\* Home Assistant's store: a delayed save, written to a file of its own.

SaveStarts ==
    /\ pending /\ saving = Absent
    /\ pending' = FALSE
    /\ saving' = kept
    /\ UNCHANGED <<entryVars, pollVars, told, budgetVars, kept, file, noticeVars,
                   writeVars, boundVars, today, setUp>>

SaveEnds ==
    /\ saving # Absent
    /\ file' = saving
    /\ saving' = Absent
    /\ UNCHANGED <<entryVars, pollVars, told, budgetVars, kept, pending,
                   noticeVars, writeVars, boundVars, today, setUp>>

----
\* Reload, unload, removal, and the end of a run.

\* New options, a reload by hand, or a reconfigure that changes the circuits.
ReloadAsked(circuits) ==
    /\ entry \in {"loaded", "retry"}
    /\ reloads < MaxReloads
    /\ reloads' = reloads + 1
    /\ enabled' = circuits
    /\ entry' = IF entry = "loaded" THEN "reloading" ELSE "off"
    /\ UNCHANGED <<pollVars, told, budgetVars, storeVars, noticeVars, writeVars,
                   calls, crashes, today, setUp>>

\* The writes that arrived but were not counted before their budget was left.
CutOff == Cardinality({c \in Callers : call[c].arrived /\ Counts(c)})

\* async_unload_entry, and the hooks: the listener goes, the calls go on.
Unloaded ==
    /\ entry = "reloading"
    /\ entry' = "off"
    /\ attached' = FALSE
    /\ available' = FALSE
    /\ excused' = excused + CutOff
    /\ UNCHANGED <<enabled, failed, bad, told, gen, budget, storeVars, noticeVars,
                   call, arrived, boundVars, today, setUp>>

\* async_remove_entry, after an unload; the counts go with the entry.
Removed ==
    /\ entry \in {"loaded", "retry", "off"}
    /\ saving = Absent
    /\ entry' = "removed"
    /\ attached' = FALSE
    /\ available' = FALSE
    /\ notices' = {} /\ ignored' = {}
    /\ kept' = Absent /\ pending' = FALSE /\ file' = NoCounts
    /\ excused' = arrived
    /\ UNCHANGED <<enabled, failed, bad, told, gen, budget, saving, call, arrived,
                   boundVars, today, setUp>>

\* What the counts on disk say of today.
OnDisk(counts) == IF counts.day = today THEN counts.today ELSE 0

\* A new run: nothing is left but the file, the entry's data and the notices a
\* user ignored.
NewRun ==
    /\ entry \notin {"removed"}
    /\ crashes < MaxCrashes
    /\ crashes' = crashes + 1
    /\ entry' = "off"
    /\ attached' = FALSE /\ available' = FALSE
    /\ call' = [c \in Callers |-> Idle]
    /\ kept' = Absent /\ pending' = FALSE /\ saving' = Absent
    /\ notices' = ignored
    /\ excused' = IF arrived > OnDisk(file') THEN arrived - OnDisk(file') ELSE 0
    /\ UNCHANGED <<enabled, failed, bad, told, gen, budget, ignored, arrived,
                   calls, reloads, today, setUp>>

\* Stopped: what runs is waited for, and what is due to be saved is saved.
Stops ==
    /\ \A c \in Callers : call[c].pc = "idle"
    /\ file' = IF pending THEN kept ELSE IF saving # Absent THEN saving ELSE file
    /\ NewRun

\* Killed: a file is written whole or not at all.
Crashes ==
    /\ file' \in {file} \cup ({saving} \ {Absent})
    /\ NewRun

----
\* The user, the controller's panel and the calendar.

UserIgnores ==
    \E n \in notices \ ignored :
        /\ ignored' = ignored \cup {n}
        /\ UNCHANGED <<entryVars, pollVars, told, budgetVars, storeVars, notices,
                       writeVars, boundVars, today, setUp>>

PanelSetsUp(c) ==
    \E word \in {"on", "off", "odd"} \ {setUp[c]} :
        /\ setUp' = [setUp EXCEPT ![c] = word]
        /\ UNCHANGED <<entryVars, pollVars, told, budgetVars, storeVars,
                       noticeVars, writeVars, boundVars, today>>

Midnight ==
    /\ today < MaxDay
    /\ today' = today + 1
    /\ arrived' = 0 /\ excused' = 0
    /\ UNCHANGED <<entryVars, pollVars, told, budgetVars, storeVars, noticeVars,
                   call, boundVars, setUp>>

Next ==
    \/ SetupBegins \/ FileLoaded \/ FirstPollGood \/ FirstPollFails
    \/ CircuitsReported \/ PollGood \/ PollFails
    \/ \E c \in Callers :
         \/ CallBegins(c) \/ Decides(c) \/ GoesOut(c) \/ Arrives(c)
         \/ Counted(c) \/ NotWritten(c)
    \/ SaveStarts \/ SaveEnds
    \/ \E circuits \in SUBSET Circuits : ReloadAsked(circuits)
    \/ Unloaded \/ Removed \/ Stops \/ Crashes
    \/ UserIgnores \/ (\E c \in Circuits : PanelSetsUp(c)) \/ Midnight

Spec == Init /\ [][Next]_vars

----
\* Properties.

Entries == {"off", "loading", "polling", "circuits", "loaded", "reloading",
            "retry", "removed"}
Calls == [pc : {"idle", "queued", "allowed", "out"}, gen : Gens, arrived : BOOLEAN]

\* Every variable has its type.
TypeOK ==
    /\ entry \in Entries
    /\ enabled \subseteq Circuits
    /\ failed \in 0..FailedPollsTolerated + 1 /\ bad \in 0..FailedPollsTolerated + 1
    /\ {available, attached, pending} \subseteq BOOLEAN
    /\ told \in [Circuits -> {"untold", "on", "off"}]
    /\ gen \in Gens
    /\ budget \in [Gens -> Budgets]
    /\ kept \in Budgets \cup {Absent} /\ saving \in Budgets \cup {Absent}
    /\ file \in Budgets
    /\ notices \subseteq Kinds \X Circuits /\ ignored \subseteq notices
    /\ call \in [Callers -> Calls]
    /\ today \in Nat
    /\ setUp \in [Circuits -> {"on", "off", "odd"}]
    /\ {arrived, excused, calls, reloads, crashes} \subseteq Nat

\* The daily limit outlives reloads, restarts and failed set-ups: what exceeds
\* it is at most what arrived while its entry was unloaded or before a crash
\* that came before the save (async_keep_write_counts, load).
LimitOutlivesTheEntry == Limit > 0 => arrived <= Limit + excused

\* The total a user reads, and the total a crash would leave.
ShownTotal ==
    IF attached THEN budget[gen].total
    ELSE IF kept # Absent THEN kept.total ELSE file.total

Counter == INSTANCE WriteCounter WITH shown <- ShownTotal, durable <- file.total

\* The total implements the counter it promises to be: one more for each write
\* counted, never less but by a crash or the removal, and a save never puts back
\* what is older than the file (write_counts.py).
TotalIsACounter == Counter!Spec

\* A loaded entry shows no notice its own data contradicts, also when nothing
\* could be read of the circuit after a reconfigure; a removed one shows none
\* (report_circuits, clear_circuit_notices).
NoticesFitTheEntry ==
    /\ entry = "loaded" => \A n \in notices : ~Contradicted(n[1], n[2])
    /\ entry = "removed" => notices = {}

\* What a user ignored stays ignored until the controller or the entry says
\* otherwise: a circuit that could not be read does not bring it back.
IgnoredStaysIgnored ==
    [][\A n \in ignored \ ignored' :
         \/ entry' = "removed"
         \/ told'[n[2]] # "untold"
         \/ (n[1] = "notEnabled") = (n[2] \in enabled)]_vars

\* The entities of a loaded entry are unavailable from the fourth failed poll
\* in a row on, however many good ones came before, and not earlier.
GraceIsExact == entry = "loaded" => (available <=> bad <= FailedPollsTolerated)
====
