# A verification project for weishaupt_modbus

TLA+ models of the Home Assistant integration `weishaupt_modbus`, TLC
configurations that check them on small instances, and TLAPS proofs of their
most important properties for every instance. Paths below are relative to
`custom_components/weishaupt_modbus/` in the repository.

The integration talks to one heat pump controller in two ways: over Modbus TCP
(registers, read in blocks and written one at a time) and through the
controller's own web interface (pages, and one setting that can be saved). Both
reach the same weak controller, whose EEPROM wears out with every write. Most of
the code is therefore about asking it rarely, one request at a time, and about
never losing count of a write.

Everything runs on one asyncio event loop. A handler runs without interruption
from one `await` to the next, so **one step of a model is the code between two
awaits**, and everything that can happen while a coroutine waits - other calls,
polls, timers, cancellation, the controller's panel, midnight - is another
action that may come in between.

## 1. Inventory

| component | state it keeps | operations | hard behaviour | what makes it correct |
|---|---|---|---|---|
| Heat pump device (`weishaupt_modbus_api/device.py`, `fields.py`, `items.py`) | rows (state, invalid, off, last setting), bands present, registers written while polling, the write lock, the controller's lock | `async_update`, `write`, `write_off`, `_holds`, `circuit_configurations` | a poll reads for seconds and publishes at the end while writes land; answers are lost, callers cancelled; two locks | no row goes back in time; all or nothing per poll; every arrival counted; no dead lock |
| Entities' write path (`entities.py`, `number.py`, `switch.py`, `select.py`) | dynamic bounds, kept setting of a switch | set a number, turn a setpoint on or off, restore after a restart | bounds and restored values depend on rows another call is changing | related setpoints stay in order; turning on brings back the newest value; a satisfied call ends quietly |
| Write budget (`weishaupt_modbus_api/write_budget.py`) | total, today's count, its day | `allows_write`, `record_write`, `load`, `counts` | asked, then waited on; the day rolls over lazily | never more writes a day than the limit |
| Write counts (`write_counts.py`, `write_counter_sensor.py`) | the last counts per entry, a delayed save | load, keep, remove | reload and crash between count and save | a count never goes back but by a crash within the delay |
| Modbus coordinator (`coordinator.py`, `outage.py`) | failed polls in a row, the last data, circuit notices | refresh, `report_circuits`, `clear_circuit_notices` | grace polls; notices the user may ignore | unavailable after exactly the grace; an unread circuit keeps its notice |
| Web client (`webif/client.py`, `configentry.py`) | session, refused password, closed flag, its lock, the shared pacing and the controller's lock | `page`, `save`, `close` | lost sessions, a wrong password, a close in the middle of anything, dialogs cancelled anywhere | the gap between requests of all clients; silence after close; a refused password is not sent again; honest outcomes of saves |
| Power limit write (`webif/setting.py`) | none | `write_power_limit` | four requests, any of which may fail | the outcome says what may have been stored |
| Web coordinator (`webif_coordinator.py`) | readings, the stop and its retry, the rest, dialogs' visits, the burst, the quiet timer | rounds, `set_power_limit`, `dialog_visiting`, `async_shutdown` | rounds, writes and dialogs wait for each other; what was checked before the wait is stale after it | see the properties of `WebifCoordinator` |
| Setup, unload, following the pump (`__init__.py`) | the runtime data of an entry; what a web interface was set up with and titled after | set up, unload, remove, `follow_pump` | an unload while requests are out; a burst of changes, a rename while the entry is off | nothing is left behind; one reload for a burst; never behind the pump |
| Migration (`__init__.py`, `migrate_helpers.py`) | an entry's data, its registry entities | `async_migrate_entry` | a chain of renamed ids, any of them absent or in use; ten versions | nothing is lost, no two entities on one id |
| Config flow (`config_flow.py`) | reservations of open flows, the visit under way | pump, web interface, reauth, reconfigure, options | probes and visits take seconds while other dialogs end and entries are renamed and removed | no two entries on one endpoint or one namespace; no entry replaced |
| Visit and page search (`webif_visit.py`, `webif/discovery.py`) | the search, the family told | search, read, search once more | a page served half, twice in a row, or another section in its place; other languages and models | the right family; a second search only where it can help |
| Power map (`kennfeld.py`), calculated sensors (`weishaupt_modbus_api/calculations.py`) | a loaded table, a picture under `www/local` | load, interpolate, compute | edges of the table, hand-edited files, operands that are missing | right or missing, never a plausible wrong number |
| Register table (`weishaupt_modbus_api/hpconst.py`, `const.py`), entities built of it (`entity_helpers.py`) | none | rows, fields, entities | one word means off, no sensor or a value by the row's parameters; copies per circuit | what is written reads back; bounds and operands belong to the row's own circuit |
| Web interface values (`webif_sensor.py`) and judgement of a page (`webif/pages.py`) | none | the catalogue, `is_complete`, `reading` | two families, two languages, optional titles | a page counts as whole only with every value of its family |
| Page parser (`webif/pages.py`), entities' display, diagnostics, tools | none of their own | parse, show, describe | - | - |

How they interact. A Home Assistant service call enters an entity, which calls
`device.write` with a check and a value to be resolved *inside* the write lock;
the device asks the budget, takes the controller's lock and writes. The Modbus
coordinator's refresh calls `device.async_update`, which takes the same
controller's lock once per band. The web client takes its own lock per call, the
pacing lock shared by all web clients of the controller per request, and inside
it the controller's lock - so Modbus never waits for a gap. The web coordinator
calls the client from rounds and writes under its lock `_asking`; dialogs call
clients of their own and hold the rounds back. An unload calls
`async_shutdown`, then `client.close()`, then Home Assistant cancels what still
runs.

## 2. Plan

1. `WriteBudget`, `HeatPump` - the Modbus core (this is where an error costs
   EEPROM writes or shows wrong setpoints). *Done, and its safety proved.*
2. `WebClient` - the clients of one controller. *Done, and its safety proved.*
3. `WebifCoordinator` - rounds and writes above the client, composed with
   `WriteBudget`. *Done, and its safety proved.*
4. `PumpEntry` - the life of a pump's entry: set-up, grace polls, circuit notices
   and the write counts over reload, restart and crash, refining `WriteCounter`.
   *Done, its safety and the refinement proved.*
5. `ConfigFlow` - reservations and probes of concurrent dialogs, reconfigure, the
   entries they make and how a web interface follows its pump (*done, and its
   safety proved*); `Visit` - the search for the pages and the second search,
   above `WebifRows`, the catalogue of the pages' values (*done, and its safety
   proved from what one answer tells*).
6. `Registers`, `PowerMap` and `Migration` - rules without state of their own,
   each checked on every row and on bounded inputs. *Done; the power map, the
   calculated sensors and the migration proved for every input (`Rules`).*
7. Left: the two options flows, selects and traffic sensors as actions, the
   removal of disabled circuits' devices.

Abstract specifications worth stating: the *count* of writes as a counter that
only a crash takes back (`WriteCounter`, done); a *request* for the power limit as
one answer and one save at most (`WriteRequests`, done); a *register row* as a
monotone copy of its register, which `HeatPump` implements (it would say again
what `RowsAreMonotone` proves). No module uses a recursive operator, so all of them
can be proved about.

## 3. The modules and the code

### WriteBudget
The budget is a record `[total, today, day]`, the calendar day a number. Every
operator takes the current day because the code rolls over lazily
(`_roll_day` on the next call). The warning threshold and the listeners change
nothing a property speaks of and are left out.

### HeatPump
State: `mem` (the controller's registers), `row` (the table rows), `poll` /
`served` / `snap` (the local variables of `async_update`), `written`
(`_written_while_polling`), the two locks, and one `call` per concurrent service
call. The words a register can hold are numbers and the controller's three
sentinels as `fields.py` decodes them (off, no sensor, not a value).

| action | code |
|---|---|
| `PollStart`, `PollTakesLock`, `PollServed`, `PollRefused`, `PollFails` | `async_update`, one band per pair of steps; the last answer publishes all rows or raises for a refused system band |
| `Call` | a service call on a number or a switch reaches `device.write` or `write_off` and waits for the write lock |
| `Enter` | the lock is taken: bounds, the word, the comparison with the row, the limit |
| `AskController`, `HoldsAlready`, `HoldsAnother`, `AskFails` | `_holds`, and what follows |
| `Send`, `Answered`, `WriteRefused`, `AnswerLost`, `CancelledOnWire`, `CancelledWaiting` | `_write_word` and the rows' update, and the ways out of it |
| `SwitchAdded` | `MySetpointSwitchEntity.async_added_to_hass` |
| `Arrive`, `PanelChange`, `Midnight` | the controller, its panel, the calendar (external) |

A number is checked against bounds as it was entered and then rounded to the
grid; words and values are the same unit here (the divider is a change of unit).
An entity is callable whenever its row is not invalid and a poll has ever
succeeded: more than Home Assistant allows, never less. Ghost variables count
changes of a register (`ver`), the change a row and a reading show (`rowVer`,
`snapVer`), words that arrived (`arrived`), and whether something happened the
program could not see (`disturbed`: the panel, a lost answer, a refused band).

### WebClient
One record per client of one controller: who holds the client's lock (`task`),
the request it is at (`stage`) and how far that request is (`phase`: waiting for
the pacing lock, waiting out the gap, waiting for the controller's lock, sent).
`_ensure_session`, `_read`, `save`, `close` and `_login` are the transitions
between stages; `_exchange` and `_request` are `TakePaceLock`, `GapOver`, `Send`
or `SendClosed`, and the answers. What the server answers is chosen freely among
what it can answer in its state (`open`: it knows the session, `good`: it knows
the password). Only a dialog's client is cancelled in the middle of a page, as
`config_flow.py` does; a dialog never saves. Traffic counters, the answer times
and the positive list of paths are left out: no property is about them.
Ghosts: `calm` measures the gap independently of `gapLeft`, `posted` and
`stored` what the server got, `unsure` that a login or logout had no answer.

### WebifCoordinator
State: the readings (`hasValues`, `failures`, `dueIn`, and `order`, the pages by
the age of their reading), the stop (`stopped`, `retryIn`, `retryWait`,
`notice`), the plan (`nextIn`, `restLeft`, `refused`), the rounds (`at`, `todo`),
the lock `_asking`, bursts and writes. The client is what its calls can end in.
Two rounds may run at once: the entry's first round (`__init__.py:297`) is outside
the lock that planned and requested refreshes share. The model lets any two
overlap: more than the code allows, never less. A write is `turn -> reads -> save -> posted
-> readback -> over`, its requests grouped by what can be in the EEPROM.
`Unload` is `async_shutdown`; until `Unloaded` the client is closing, a page that
is out may still end in any way, a page asked later (`at = "late"`) only
`Closed`. Writes that run during an unload may end in any way: more than the
client allows, never less. Ticks are minutes for rounds and seconds for bursts;
the due slack (5 s) and the shortest wait (1 s) are below a tick. A failure
count stops at the third, where the code only compares with `>=`.

`WriteRequests` is what `set_power_limit` promises a caller, who sees nothing of
rounds, timers, dialogs and of which write was started for whom: a request gets the
one answer of its burst, the burst at most one turn and one save, of its last
target, and nothing is told to be called off once it may be stored.
`BurstsKeepTheirWord` maps to it the last target of a burst that waits, its
outcome, the burst whose write is between its turn and its end, whether that
write's save is out, and what the controller holds. Steps of rounds and of needless
writes are stutters.

### PumpEntry and WriteCounter
The entry goes `off -> loading -> polling -> circuits -> loaded`, a first poll
that fails leads to `retry`, a reload through `reloading` to `off`. `loading` is
the wait for the store's file, which only the first set-up of a run needs
(`_Kept.counts` outlives reloads). A reconfigure stores the new data first and
unloads in a later step, as `async_update_reload_and_abort` does. The circuits'
answers and the report are one step: only the answers matter to it, and each
circuit may be told, refused or undocumented.

A write here is what it does to the counts: queued for the write lock of its
set-up, allowed by that set-up's budget, out under the controller's lock, arrived,
counted. An unload does not end a service call, so a call keeps the budget it
began on; budgets are numbered, and a number is used again once no call holds it.
A call on a budget that was left may still go out: more than the closed
connection allows, never less. `attached` is the listener `keep`; the store is
`kept` (memory), `pending` and `saving` (a delayed save, due and being written)
and `file`. A crash keeps the file or the one being written, whole. A stop waits
for the calls and saves what is due. Ignored notices outlive a run, others do not;
that and the store are Home Assistant's, modelled as the code uses them.

`WriteCounter` is what the counts promise: one more per write, a save that never
puts back what is older than the file, a crash that takes back at most what was
not saved. `TotalIsACounter` maps the total a user reads (the budget's while
it is attached, then memory's, then the file's) and the file's total to it.
`LimitOutlivesTheEntry` excuses what the code cannot know: writes a crash came
between, and writes under way while their entry unloads. The second kind is a gap
in `write_counts.py`: such a write counts on the old budget, whose listener is
gone, and the next budget has one write more to give.

### ConfigFlow
State: the pump and web interface entries by id, the ids that were used
(`gone`), the open dialogs and `RESERVED_POSTFIXES`. A dialog shows its form or
waits for a probe or a visit; every wait is a step of its own, and every end of
it - the pump does not answer, another dialog was faster, the entry is gone - a
disjunct of the step that follows.

| action | code |
|---|---|
| `SubmitPump`, `PumpProbed` | `_objection` up to the probe, `_reserved_objection` after it and the new entry |
| `Reconfigure`, `Reconfigured` | `async_step_reconfigure` before and after its probe |
| `SubmitWebif`, `WebifVisited` | `async_step_webif` up to the visit, `_webif_visited` |
| `SubmitLogin`, `LoggedIn` | `_web_interface_login` of the reauth and the reconfigure dialog |
| `CloseDialog` | the user closes the dialog: `async_remove` |
| `MigrateEntry` | the identity `async_migrate_entry` gives |
| `SetUp`, `Following`, `Retitled`, `Unloaded` | `_async_setup_web_interface`, `follow_pump`, `_retitle_after_pump`, the unload |
| `Reload`, `RemovePump`, `RenamePump`, `RemoveWeb`, `RenameWeb`, `SwitchWeb` | Home Assistant and its user (external) |

Home Assistant replaces an entry when a new one is made with its identity, and
refuses a second open dialog of one identity: both are modelled as the code
relies on them. An endpoint is one value in lower case, a pump's data is its
endpoint and whether it was migrated: what else changes it is the same to the
follower. A reconfigure that was closed still ends as if it was open, because
its coroutine runs on. Entries removed in the same moment a dialog ends are
another step, before or after it.

### Visit and WebifRows
`WebifRows` is the catalogue: every value with its page, its German and English
title, its unit, the families that show it and whether a page may leave it out,
and from it, as in the code, `REQUIRED_TITLES`, `OPTIONAL_TITLES` and
`ENGLISH_TITLES`; then `is_complete`, `Page` and `reading`. `Visit` is
`_visit_twice` over it: six answers in a row, each asked at most twice
(`client.page` judges), the whole searched at most twice. The controllers it may
find are both families in both languages, with one title left out or one unit
changed as another firmware might, and their answers come right, idle, damaged
in one place, from another section, or not at all. A judgement depends on the
controller, the step and the family told so far; all judgements are worked out
once. `JudgementAssumption` says what they come to, of one answer: the proofs build
on it, and each run works it out for every controller of the catalogue.

### Registers, PowerMap, Migration, Rules
`Registers` is the table as data: every row with its bounds and step in register
words, the five circuits built as in the code, the blocks, `field_for` and
`decode`, and the entities a row becomes. `PowerMap` takes a file or refuses it
and interpolates on fractions: the code's floats without their rounding.
`Migration` is `async_migrate_entry` as a function from the entry of an older
version to the present one. Home Assistant refuses a unique id that is in use;
the model marks the entry `failed` then. `Rules` has the properties of the three:
its one variable is what a rule is asked, never changed, and `IsInput` says what
can be asked - any file (lists of numbers, any grid, readable or not), any readings,
any entry whose registrations are those of its version. A run asks a bounded set of
these inputs, all of them in `IsInput` (`InputsAssumption`); the theorems speak of
every one.

## 4. The runs

Every property is an invariant, an action property `[][...]_vars` or a
liveness property under stated fairness; its comment in the module says which
code it is about. `MCHeatPump`, `MCWebClient`, `MCWebifCoordinator` and `MCPumpEntry` hold the
instances' constants, `MCConfigFlow` the inputs of the rules.

| run | question | bounds |
|---|---|---|
| `HeatPump_cache` | do races of a poll and two calls, panel changes, lost answers and cancellations ever corrupt rows, counts or outcomes? | one setpoint with a switch, three bands (one before and one after the writable one), 2 callers, 2 calls, 1 panel change |
| `HeatPump_pair` | do two racing calls cross a pair of bounds or the daily limit? | two setpoints bounding each other on a grid of 2 with odd ends, a limit of 1, one midnight |
| `HeatPump_live` | does every call and every poll end? | one setpoint, 2 callers, 2 calls |
| `HeatPump_fault` | *violation:* a satisfied call ends quietly | one caller |
| `WebClient_entry` | are saves counted once and told honestly, is a refused password kept back, does every call end? | one client, one save, gap 1, session life 2 |
| `WebClient_dialogs` | is the gap kept and a closed client quiet, with two clients? | entry and dialog, gap 1, life 2 |
| `WebifCoordinator_rounds` | do the brake, the rest, the turns and the dialogs hold under any interleaving? | two pages (intervals 1 and 2), two rounds, one write, one visit |
| `WebifCoordinator_writes` | do bursts keep quiet time, limit, outcomes and what `WriteRequests` promises? | one page, two requests, two targets, limit 1, one midnight, one panel change |
| `WebifCoordinator_live` | is every burst told, is every page asked? | two pages, one write |
| `PumpEntry_life` | do the count, the limit, the grace and the notices survive reloads, restarts and crashes? | one circuit, 2 callers, 2 calls, a limit of 1, one reload or reconfigure, one stop or crash, one midnight |
| `ConfigFlow_entries` | can dialogs, renames, reloads and removals in any order make two entries collide, replace one, or leave a web interface behind its pump? | three pump ids or one, two ids of web interfaces, two dialogs, two endpoints, the postfix "x" or none, one reload at a time waiting beside the follower's |
| " | does a visit tell the family, and search twice only where it helps? | every controller, at most four damaged answers (`MaxHiccups`) |
| " | do the rules hold? | every row of the register table; 120 map files at 5 air and 7 flow temperatures; 6 readings per operand; every older version with any of the three registers under ids of four kinds, and another entity or a stranger in their way |
| `WebifCoordinator_unload` | *violation:* no notice of an unloaded entry | one page |

Why the bounds are enough. Each hazard of the list needs two actors and one
wait: a poll and a call, two calls, a round and a write, a dialog and a round.
Every run has both actors and every wait of both. The circuits of `PumpEntry` do
not influence each other, so one is enough; one reload and one crash fall before,
between and after the two writes and the saves of their counts. Three bands put a read band
before and after the write; two pages let a round skip one and ask the other; two
requests give a burst that restarts its quiet time as well as a second burst
behind the first. Every pump dialog needs two dialogs on one endpoint or one
postfix, every loss of an identity a third entry; a web interface follows one
pump at a time. `ConfigFlow_entries` starts therefore either with three pump ids
and no web interface to make, or with one pump and ids for two: the product of
both adds no meeting of a new kind. It is the sum of its three questions: an
initial state has one of them live and the others at rest. A visit needs two
damaged answers for a second search and four to fail twice.

The callers of `HeatPump` and `PumpEntry` are symmetric in the safety runs,
none of whose properties names one. Gap, lifetimes, intervals and waits are as
small as they can be while still being told apart.

`WebifCoordinator` runs say `CHECK_DEADLOCK FALSE`: an entry that is unloaded
does nothing more; so does `ConfigFlow_entries`, whose visits end and whose rules
have no next step. Elsewhere deadlock is checked.

### Fairness
`HeatPump` and `WebClient`: `asyncio.Lock` hands itself on in the order of
arrival, so whoever waits for one gets it (strong fairness of the taking step);
a request ends, because the library or `BAND_TIMEOUT_SECONDS` ends it (weak
fairness of its possible ends together, none of them alone); a sleep ends.
Service calls, panel changes, cancellations and midnights are not fair.
`WebifCoordinator`: timers run, pages and writes end within the client's time
limits, the lock is handed on in order, dialogs end. `WebifCoordinator_live` has
no dialogs: a user who opens one dialog after another may keep the rounds
waiting, which is what `dialog_visiting` is for.

## 5. Findings

* `HeatPump_fault`: `set_translate_val` ends with `int(self._api_item.state)`
  (`entities.py:264`). `write` waits for the controller before it calls a value
  unchanged; a poll that publishes in that time may take the row's value away
  (its band refused, or the register off at that moment), and the call ends in
  a `TypeError` although it was satisfied.
* `WebifCoordinator_unload`: `async_shutdown` deletes the stop's notice before
  `client.close()` has waited for the page that is out; that page may be the
  third failure and raises the notice again (`webif_coordinator.py:755`), for an
  entry that is gone.

## 6. Proofs

A run checks a small instance; the theorems hold for every value of the
constants: any finite set of rows or of anything else, any number of callers,
clients, rounds, dialogs and entries, any limits, gaps and waits. Each theorem is
`Spec => ` the property of a run (`FlowSpec` in `ConfigFlow_proofs`: any start of
`Init`; `VisitSpec` in `Visit_proofs` and `RulesSpec` in `Rules_proofs`, which the
run composes with the dialogs). An invariant is proved as initial state, one step per action of `Next`,
and stuttering; an action property from the invariant, per action; the last step
is temporal. Shared facts about records, titles, budgets and locks are lemmas.

| module | theorems | the invariant, and why the property alone is not inductive |
|---|---|---|
| `WriteBudget_proofs` | lemmas for the others | what counting, rolling over and loading do to a budget |
| `HeatPump_proofs` | `TypeCorrect`, `RowsAreMonotone`, `LimitHolds`, `ArrivalsAreCounted`, `PollsPublishWhole`, `SuccessIsTrue`, `SwitchRestores`, `PairsNeverCross` | `TypeInv` adds what a call under way needs to be typed; `RowInv` that no reading is ahead of its register, nor behind its row unless the register was written meanwhile (`_written_while_polling`); `LimitInv` that only the holder of the write lock is between its decision and its end, so that what arrived and is not counted is one word, allowed when nothing else could be. `CountInv`: an uncounted arrival has its call on the wire. `SwitchInv`: register, row, reading and the word of a call that turns on all hold the newest confirmed number. `PairInv`: unless disturbed, the rows of a pair show their registers, but for the one a word has just reached, and the word of the lock's holder fits between them |
| `WebClient_proofs` | `TypeCorrect`, `SavesCounted`, `ClosesFreeSessions`, `GapAlwaysKept`, `RefusedStaysRefused`, `ClosedStaysQuiet`, `SavesAreHonest` | `ClientInv`: the request fits the call and the locks its progress (`Shape`); an open session is known or on its way, unless an answer is missing (`Session`); counted means posted (`Saving`); after the close no session begins (`Closing`); the gap left and the calm so far make up the gap (`Paced`) |
| `WebifCoordinator_proofs` | `TypeCorrect`, `AskingIsExclusive`, `StopShowsNothing`, `SavesStayWithinLimit`, `RoundsAlwaysKeepOff`, `QuietAlwaysKept`, `WrittenIsHeld`, `BurstsImplementRequests` | `CoordInv`: who is at a page or past its turn holds `_asking`; no write works while polling is stopped; rest and time since a timeout make up the shortest interval; the allowance a write read is still there; its burst is nobody's to join any more, and its goal the burst's last target. `TypeInv`: every page is in `order`, a round under way has pages left, no wait exceeds its longest |
| `PumpEntry_proofs` | `TypeCorrect`, `GraceAlwaysExact`, `NoticesAlwaysFit`, `IgnoresLast`, `TotalImplementsCounter`, `LimitAlwaysOutlives` | `EntryInv`: failures are counted from the last good poll of this set-up. `StoreInv`: an attached budget counts what memory keeps; the file is never ahead of the save being written, nor that of memory. `LimitInv`: an allowed call still has its allowance in its own budget, and what arrived is counted or excused but for the one answer that is out |
| `ConfigFlow_proofs` | `TypeCorrect`, `EntriesAlwaysApart`, `WebsAlwaysFollow`, `OnlyTheUser` | `FlowInv`: a dialog that waits has the identity of what it asks for; only a dialog that probes holds a postfix; a dialog that visits is alone at its pump (`VisitsAlone`), so that what it makes replaces nothing; a loaded web interface is up to date or waits for its one reload (`WebOK`), and nothing else has a listener |
| `Visit_proofs` | `VisitsTellTheFamily`, `GivesUpProportionally` | `VisitInv`: the family is told from the heat pump page on and nowhere before; no visit is past a page that blocks its controller; each page asked again and each second search stands for damaged answers, one and two of them |
| `Rules_proofs` | `CalculatedAlwaysHonest`, `UpdateLosesNothing` | the input never changes: each is a lemma about every input. `MovedOK` is the invariant of the migration's three rows: what is moved has its new name, what is not is as it was, and a row's two names are held by nobody but its register's entity (`RowFits`) - the order of the rows |

A claim about every place of a list - what the recursive function `DuePages`
returns, a list's largest number, a piece of the power curve for each flow
temperature - is proved without induction, from a least counterexample (`LeastOf`,
by `WFMin` and `NatLessThanWellFounded` of the library): of the places where the
claim fails there would be a first, and one step carries the claim there from the
place before.

Two theorems are refinements, each shown step by step under the invariant named
above. `TotalImplementsCounter`: `PumpEntry` implements `WriteCounter` with the total
a user reads and the one on disk (`CounterStep`); a count is one more, a save never
goes back, a crash falls back to what was saved. `BurstsImplementRequests`:
`WebifCoordinator` implements `WriteRequests`. `View` is what `CoordInv` says in the
terms of the requests: only the holder of `_asking` has its turn, its goal is what
its burst wants, and the burst that waits is another; one lemma per kind of step
(`AskRequests`, `TurnRequests`, `MovesRequests`, `EndRequests`, `UnloadRequests`,
`UnloadedRequests`) then names the promised step it is. `WrittenIsHeld` states its consequence in the
coordinator's own variables.

Assumptions. Each is a named `ASSUME` of the module with the constants, and each
run evaluates it on its instance. They are what the tables of the code and their
construction give:

* `HeatPump`: the limit and the counts are numbers, the sentinels differ from
  values and from each other, `None` from the results, bounds and steps fit;
  `PairAssumption`, for `PairsNeverCross` alone: the rows of a pair name each
  other, have no off state and start in order. `hpconst.py` builds its pairs so
  (the property `TableHoldsTogether` checks every row of it), and the
  controller's own menu keeps them in order.
* `WebifCoordinator`: rounds, requests and `Free` are apart, intervals are
  positive; `OrderAssumption`: the pages come in a sequence. That there is a shortest interval needs no finiteness: it is a
  least number, by `WFMin` and `NatLessThanWellFounded` of the library.
* `ConfigFlow`: ids of pumps and of web interfaces are apart, and a title the user
  gives (`Own`) is none the code makes. A user may type such a title; it then
  follows the pump, as in the code.
* `WebClient` and `PumpEntry`: the ranges of their numbers, and that the values
  for "nobody" and "nothing" are none of the others.
* `Rules`: none about constants. What is asked is bound by `IsInput` alone; of an
  entry it says what its version registered: one entity per relabelled register
  under that version's name, ids apart, the web interface's own only before
  version 9.
* `Visit`: `JudgementAssumption` has no parameter; it is a statement about the
  catalogue, and a run evaluates all of it: every controller, page and answer. The
  theorems carry it from one answer to visits of any length, with any number of
  damaged answers (the run: four). A visit that took a page for another would
  break it, or break the invariant that builds on it.

What only TLC checks, and why:

* Liveness (`NobodyHangs`, `EveryCallEnds`, `NothingIsForgotten`): needs `ENABLED`.
  `UnchangedEndsQuietly` and `NoNoticeOfAnUnloadedEntry` do not hold (section 5).
* `JudgementAssumption` of `Visit`, as above: what each damaged answer of each
  controller is judged to be follows from the rows of the catalogue, one by one.
* `TableHoldsTogether`: a statement about the rows of one fixed table, without a
  parameter to prove it for; the run goes through every row.

## 7. Not modelled

* The parsing of HTML (`webif/pages.py` but for `is_complete`) and the policy of
  which SVG text is static (`kennfeld.py`): text work without state. Answers and
  pictures are what they were judged to be.
* Names, display, logging, translations, the forms' schemas and their errors,
  diagnostics and the development tools: no property could relate them.
* The two options flows: they store options, and Home Assistant reloads the entry,
  which `PumpEntry` has as a reload.
* Selects write without bounds through the same `write` (what they may send is in
  `Registers`). The traffic and write counter sensors show what others count.
* The removal of disabled circuits' devices and of the old power limit sensor.
* Home Assistant's own storage between two saves: a crash in the middle of a
  migration, a restart while dialogs are open (which ends them).
* Rounding: the power map's floats and the display precision.

What the models leave as it is in the code, and a reader should know: an entry
that lost its identity at its migration, because another entry had its endpoint,
never gets one when that other is removed (`EntriesStayApart` excuses it); an
idle controller's "Aus" hides a unit the sensors do not know, so a visit passes
and the sensor reads unknown later (`VisitTellsTheFamily` excuses it); two
damaged answers of one page in a row may look like another model, and the visit
then gives up after one search (`GivesUpInProportion` says so); a reconfigure
closed during its probe changes the entry all the same.
