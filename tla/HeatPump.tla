---- MODULE HeatPump ----
\* The Modbus side of the integration: one pump's registers, the rows that
\* cache them, the poll that refreshes the rows, and the calls that write
\* (weishaupt_modbus_api/device.py, write_budget.py and the write path of
\* entities.py). Everything between two awaits of the code is one step.
EXTENDS Integers, FiniteSets, WriteBudget

CONSTANTS
    NumBands,      \* component bands, read in the order 1..NumBands
    SystemBand,    \* the band every Weishaupt serves
    Rows,          \* writable table rows, one register each
    BandOf,        \* the band a row lies in
    OffRows,       \* rows with a setpoint switch ("off_is_a_setting")
    DynMin,        \* the row whose value raises a row's minimum, or None
    DynMax,        \* the row whose value lowers a row's maximum, or None
    FixedMin, FixedMax,  \* the table's bounds of a row, in register words
    Step,          \* the grid of the controller's menu, in register words
    Kept,          \* what a switch kept of its row before the restart, or None
    Callers,       \* service calls that may be under way at once
    Limit,         \* daily write limit, 0 for none
    PanelWords,    \* words a change made at the pump's panel may leave
    FirstWords,    \* words a register may hold when the entry starts
    MaxPanel,      \* bound: changes at the panel
    MaxCalls,      \* bound: service calls
    MaxDay,        \* bound: midnights
    None, Off, NoSensor, Odd, Free, Poller

Bands == 1..NumBands
\* What a register can hold: a number or one of the controller's sentinels
\* (fields.py decodes them to OFF, NO_SENSOR and None).
Words == Int \cup {Off, NoSensor, Odd}

ASSUME BandAssumption ==
    /\ NumBands \in Nat
    /\ SystemBand \in Bands
    /\ BandOf \in [Rows -> Bands]
ASSUME RowAssumption ==
    /\ IsFiniteSet(Rows)
    /\ OffRows \subseteq Rows
    /\ DynMin \in [Rows -> Rows \cup {None}]
    /\ DynMax \in [Rows -> Rows \cup {None}]
    /\ FixedMin \in [Rows -> Int]
    /\ FixedMax \in [Rows -> Int]
    /\ Kept \in [Rows -> Int \cup {None}]
    /\ Step \in Nat \ {0}
ASSUME SentinelAssumption ==
    /\ {None, Off, NoSensor, Odd} \cap Int = {}
    /\ None \notin Rows
    /\ None \notin {Off, NoSensor, Odd} /\ None \notin {"written", "unchanged"}
    /\ Off # NoSensor /\ Off # Odd /\ NoSensor # Odd
    /\ Free \notin Callers /\ Poller \notin Callers /\ Free # Poller
    /\ PanelWords \subseteq Words
    /\ FirstWords \in [Rows -> SUBSET Words]
\* Related setpoints bound each other, have no off state (hpconst.py), and are
\* in order when the entry starts: the controller's own menu keeps them so.
ASSUME PairAssumption ==
    \A l, h \in Rows :
        /\ DynMin[h] = l <=> DynMax[l] = h
        /\ DynMin[h] = l =>
             /\ {l, h} \cap OffRows = {}
             /\ \A v \in FirstWords[l], w \in FirstWords[h] :
                  v \in Int /\ w \in Int /\ v <= w
ASSUME BoundAssumption ==
    /\ Limit \in Nat
    /\ MaxPanel \in Nat /\ MaxCalls \in Nat /\ MaxDay \in Nat

VARIABLES
    mem,          \* the controller's registers
    row,          \* the table rows: state, invalid, off, last (last_setting)
    present,      \* the bands the pump answered on the last published poll
    written,      \* _written_while_polling
    poll,         \* the poll under way: pc and the band it is at
    served,       \* what the poll got of each band so far
    snap,         \* the words it read
    polled,       \* the coordinator has data: the entities exist
    restored,     \* the setpoint switches added to Home Assistant
    hostLock,     \* who holds the controller's lock
    writeLock,    \* who holds the device's write lock
    call,         \* one service call per caller
    budget,       \* the write budget
    today         \* the calendar day

\* History the properties speak about; no action reads it.
VARIABLES
    ver,          \* how often a register changed
    rowVer,       \* the change of its register a row shows
    snapVer,      \* the change a reading of the poll under way shows
    arrived,      \* words that reached the EEPROM: in total, since midnight
    settled,      \* the last number a confirmed write set, if nothing else did
    disturbed,    \* something moved a register the rows could not tell of
    panels, calls \* bounds

pumpVars == <<mem, ver, arrived>>
pollVars == <<poll, served, snap, snapVer>>
cacheVars == <<row, rowVer, present, written>>
lockVars == <<hostLock, writeLock>>
entityVars == <<polled, restored>>
boundVars == <<today, panels, calls>>
historyVars == <<settled, disturbed>>
vars == <<pumpVars, pollVars, cacheVars, lockVars, entityVars, boundVars,
          historyVars, call, budget>>

----
\* The rows.

\* Mutant of Applied: a sentinel word shown as if it were a value.
AppliedRawly(old, word) ==
    [state |-> word, invalid |-> word = NoSensor, off |-> word = Off,
     last |-> IF word \in {Off, NoSensor, Odd} THEN old.last ELSE word]

\* _apply: what one decoded word means for the row.
Applied(old, word) ==
    [state |-> IF word \in {Off, NoSensor, Odd} THEN None ELSE word,
     invalid |-> word = NoSensor,
     off |-> word = Off,
     last |-> IF word \in {Off, NoSensor, Odd} THEN old.last ELSE word]

\* _mark_absent, for one row.
Absent(old) == [old EXCEPT !.state = None, !.invalid = TRUE, !.off = FALSE]

\* Mutant of WrittenTo: last_setting waits for the next poll.
WrittenToStateOnly(old, word) ==
    IF word = Off THEN [old EXCEPT !.state = None, !.off = TRUE]
    ELSE [old EXCEPT !.state = word, !.off = FALSE]

\* write and write_off, once the controller answered.
WrittenTo(old, word) ==
    IF word = Off THEN [old EXCEPT !.state = None, !.off = TRUE]
    ELSE [old EXCEPT !.state = word, !.off = FALSE, !.last = word]

Larger(a, b) == IF a > b THEN a ELSE b
Smaller(a, b) == IF a < b THEN a ELSE b

\* set_min_max: the table's bounds, narrowed by a related setpoint.
LowBound(r) ==
    IF DynMin[r] = None THEN FixedMin[r]
    ELSE IF row[DynMin[r]].state = None THEN FixedMin[r]
    ELSE Larger(FixedMin[r], row[DynMin[r]].state)
HighBound(r) ==
    IF DynMax[r] = None THEN FixedMax[r]
    ELSE IF row[DynMax[r]].state = None THEN FixedMax[r]
    ELSE Smaller(FixedMax[r], row[DynMax[r]].state)

Clamped(word, r) == Larger(LowBound(r), Smaller(word, HighBound(r)))

\* _refuse_outside_current_bounds.
WithinBounds(wanted, r) == LowBound(r) <= wanted /\ wanted <= HighBound(r)

\* round(x / step) * step, half to even.
OnGrid(wanted) ==
    LET below == wanted \div Step
        rest == 2 * (wanted % Step)
    IN Step * (IF rest < Step \/ (rest = Step /\ below % 2 = 0)
               THEN below ELSE below + 1)

\* _on_step: the nearest word on the grid, or the bound beside it.
OnStep(wanted, r) == Clamped(OnGrid(wanted), r)

\* _value_to_restore: the last value of the row, or the range's minimum.
ValueToRestore(r) ==
    IF row[r].last = None THEN LowBound(r) ELSE Clamped(row[r].last, r)

\* The word a call writes, resolved inside the write lock.
WordOf(c) ==
    CASE c.op = "set" -> OnStep(c.wanted, c.row)
      [] c.op = "on" -> ValueToRestore(c.row)
      [] c.op = "off" -> Off

\* Only a number is checked against the bounds.
Fits(c) == c.op = "set" => WithinBounds(c.wanted, c.row)

\* Whether the row already shows the word, so that the controller is asked first.
Shows(r, word) ==
    IF word = Off THEN row[r].off ELSE row[r].state # None /\ row[r].state = word

NoCall == [pc |-> "idle", op |-> None, row |-> None, wanted |-> None,
           word |-> None, arrived |-> FALSE, result |-> None]

EmptyRow == [state |-> None, invalid |-> FALSE, off |-> FALSE, last |-> None]

Init ==
    /\ mem \in {m \in [Rows -> UNION {FirstWords[r] : r \in Rows}] :
                  \A r \in Rows : m[r] \in FirstWords[r]}
    /\ row = [r \in Rows |-> EmptyRow]
    /\ present = [b \in Bands |-> TRUE]
    /\ written = {}
    /\ poll = [pc |-> "idle", band |-> 1]
    /\ served = [b \in Bands |-> "unread"]
    /\ snap = [r \in Rows |-> None]
    /\ polled = FALSE
    /\ restored = {}
    /\ hostLock = Free
    /\ writeLock = Free
    /\ call = [c \in Callers |-> NoCall]
    /\ today = 0
    /\ budget = NewBudget(0)
    /\ ver = [r \in Rows |-> 0]
    /\ rowVer = [r \in Rows |-> 0]
    /\ snapVer = [r \in Rows |-> 0]
    /\ arrived = [total |-> 0, today |-> 0]
    /\ settled = [r \in Rows |-> None]
    /\ disturbed = FALSE
    /\ panels = 0
    /\ calls = 0

----
\* The poll: async_update.

\* It starts by forgetting the writes of the poll before.
PollStart ==
    /\ poll.pc = "idle"
    /\ poll' = [pc |-> "asking", band |-> 1]
    /\ written' = {}
    /\ UNCHANGED <<pumpVars, served, snap, snapVer, row, rowVer, present,
                   lockVars, entityVars, boundVars, historyVars, call, budget>>

\* The controller's lock, taken for one block.
PollTakesLock ==
    /\ poll.pc = "asking"
    /\ hostLock = Free
    /\ hostLock' = Poller
    /\ poll' = [poll EXCEPT !.pc = "reading"]
    /\ UNCHANGED <<pumpVars, served, snap, snapVer, cacheVars, writeLock,
                   entityVars, boundVars, historyVars, call, budget>>

\* Mutant of Superseded: the poll publishes over a write made meanwhile.
NeverSuperseded(r) == FALSE

\* _superseded: a write landed on this register while the poll was reading.
Superseded(r) == r \in written

\* _publish of every band: the rows take what the poll read, but for the
\* registers written since it began.
Publish(answers, words, vers) ==
    /\ row' = [r \in Rows |->
                 IF Superseded(r) THEN row[r]
                 ELSE IF answers[BandOf[r]] = "refused" THEN Absent(row[r])
                 ELSE Applied(row[r], words[r])]
    /\ rowVer' = [r \in Rows |->
                    IF Superseded(r) \/ answers[BandOf[r]] = "refused"
                    THEN rowVer[r] ELSE vers[r]]
    /\ present' = [b \in Bands |-> answers[b] # "refused"]
    /\ disturbed' = (disturbed \/ \E r \in Rows : answers[BandOf[r]] = "refused")
    /\ polled' = TRUE

\* The poll's own variables go with it.
PollOver ==
    /\ poll' = [pc |-> "idle", band |-> 1]
    /\ served' = [b \in Bands |-> "unread"]
    /\ snap' = [r \in Rows |-> None]
    /\ snapVer' = [r \in Rows |-> 0]

KeepRows == UNCHANGED <<row, rowVer, present, disturbed, polled>>

\* One block answered: the poll goes on with the next band. After the last
\* one it publishes, unless the system band was refused.
PollAnswer(answer) ==
    /\ poll.pc = "reading"
    /\ LET b == poll.band
           answers == [served EXCEPT ![b] = answer]
           words == [r \in Rows |->
                       IF BandOf[r] = b /\ answer = "served"
                       THEN mem[r] ELSE snap[r]]
           vers == [r \in Rows |->
                      IF BandOf[r] = b /\ answer = "served"
                      THEN ver[r] ELSE snapVer[r]]
       IN \/ /\ b < NumBands
             /\ poll' = [pc |-> "asking", band |-> b + 1]
             /\ served' = answers
             /\ snap' = words
             /\ snapVer' = vers
             /\ KeepRows
          \/ /\ b = NumBands
             /\ PollOver
             /\ IF answers[SystemBand] = "refused" THEN KeepRows
                ELSE Publish(answers, words, vers)
    /\ hostLock' = Free
    /\ UNCHANGED <<pumpVars, written, writeLock, restored, boundVars,
                   settled, call, budget>>

PollServed == PollAnswer("served")
PollRefused == PollAnswer("refused")

\* Mutant of PollFails: the bands read so far are published.
PollFailsHalfway ==
    /\ poll.pc = "reading"
    /\ row' = [r \in Rows |-> IF served[BandOf[r]] = "served"
                             THEN Applied(row[r], snap[r]) ELSE row[r]]
    /\ PollOver
    /\ hostLock' = Free
    /\ UNCHANGED <<pumpVars, rowVer, present, written, writeLock, entityVars,
                   boundVars, historyVars, call, budget>>

\* No answer within the time, or no link: the poll ends, no row has changed.
PollFails ==
    /\ poll.pc = "reading"
    /\ PollOver
    /\ hostLock' = Free
    /\ UNCHANGED <<pumpVars, cacheVars, writeLock, entityVars, boundVars,
                   historyVars, call, budget>>

----
\* The entities and the calls: number, switch.

\* MySetpointSwitchEntity.async_added_to_hass: the kept value, unless the
\* row has held one since.
SwitchAdded(r) ==
    /\ polled
    /\ r \in OffRows \ restored
    /\ restored' = restored \cup {r}
    /\ row' = IF row[r].last = None THEN [row EXCEPT ![r].last = Kept[r]] ELSE row
    /\ UNCHANGED <<pumpVars, pollVars, rowVer, present, written, lockVars,
                   polled, boundVars, historyVars, call, budget>>

\* A service call on an entity that is available; it waits for the write lock.
Call(c, op, r, wanted) ==
    /\ call[c].pc = "idle"
    /\ calls < MaxCalls
    /\ polled /\ ~row[r].invalid
    /\ op = "set" <=> wanted # None
    /\ op # "set" => r \in restored
    /\ call' = [call EXCEPT ![c] =
                  [NoCall EXCEPT !.pc = "queued", !.op = op, !.row = r,
                                 !.wanted = wanted]]
    /\ calls' = calls + 1
    /\ UNCHANGED <<pumpVars, pollVars, cacheVars, lockVars, entityVars, today,
                   panels, historyVars, budget>>

Ended(c, result) == [call EXCEPT ![c] = [NoCall EXCEPT !.result = result]]

\* _write_word up to the wait for the controller's lock: the daily limit.
GoToSend(c, word) ==
    IF AllowsWrite(budget, Limit, today)
    THEN /\ call' = [call EXCEPT ![c].pc = "sending", ![c].word = word]
         /\ writeLock' = c
    ELSE /\ call' = Ended(c, "overLimit")
         /\ writeLock' = Free

\* The write lock is the caller's: bounds, word, and whether to ask first.
Enter(c) ==
    /\ call[c].pc = "queued"
    /\ writeLock = Free
    /\ LET word == WordOf(call[c])
       IN \/ /\ ~Fits(call[c])
             /\ call' = Ended(c, "outOfRange")
             /\ UNCHANGED <<writeLock, budget>>
          \/ /\ Fits(call[c])
             /\ Shows(call[c].row, word)
             /\ call' = [call EXCEPT ![c].pc = "asking", ![c].word = word]
             /\ writeLock' = c
             /\ UNCHANGED budget
          \/ /\ Fits(call[c])
             /\ ~Shows(call[c].row, word)
             /\ GoToSend(c, word)
             /\ budget' = RollDay(budget, today)
    /\ UNCHANGED <<pumpVars, pollVars, cacheVars, hostLock, entityVars,
                   boundVars, historyVars>>

\* _holds: the register read afresh, under the controller's lock.
AskController(c) ==
    /\ call[c].pc = "asking"
    /\ hostLock = Free
    /\ hostLock' = c
    /\ call' = [call EXCEPT ![c].pc = "reading"]
    /\ UNCHANGED <<pumpVars, pollVars, cacheVars, writeLock, entityVars,
                   boundVars, historyVars, budget>>

\* Mutant of HoldsAlready: what the cache shows is taken for what is held.
HoldsAsCached(c) ==
    /\ call[c].pc = "reading"
    /\ call' = Ended(c, "unchanged")
    /\ hostLock' = Free
    /\ writeLock' = Free
    /\ UNCHANGED <<pumpVars, pollVars, cacheVars, entityVars, boundVars,
                   historyVars, budget>>

\* It holds the word: nothing to write. set_translate_val then reads the
\* row's state as a number, which a poll may have taken away meanwhile.
HoldsAlready(c) ==
    /\ call[c].pc = "reading"
    /\ mem[call[c].row] = call[c].word
    /\ call' = Ended(c, IF call[c].op = "set" /\ row[call[c].row].state = None
                        THEN "fault" ELSE "unchanged")
    /\ hostLock' = Free
    /\ writeLock' = Free
    /\ UNCHANGED <<pumpVars, pollVars, cacheVars, entityVars, boundVars,
                   historyVars, budget>>

\* Somebody changed it at the panel: the write goes out after all.
HoldsAnother(c) ==
    /\ call[c].pc = "reading"
    /\ mem[call[c].row] # call[c].word
    /\ GoToSend(c, call[c].word)
    /\ hostLock' = Free
    /\ budget' = RollDay(budget, today)
    /\ UNCHANGED <<pumpVars, pollVars, cacheVars, entityVars, boundVars,
                   historyVars>>

\* Mutant of AskFails: the write lock is not given back.
AskFailsLocked(c) ==
    /\ call[c].pc = "reading"
    /\ call' = Ended(c, "failed")
    /\ hostLock' = Free
    /\ UNCHANGED <<pumpVars, pollVars, cacheVars, writeLock, entityVars,
                   boundVars, historyVars, budget>>

\* The fresh read was refused, timed out or lost its link.
AskFails(c) ==
    /\ call[c].pc = "reading"
    /\ call' = Ended(c, "failed")
    /\ hostLock' = Free
    /\ writeLock' = Free
    /\ UNCHANGED <<pumpVars, pollVars, cacheVars, entityVars, boundVars,
                   historyVars, budget>>

\* The request goes out.
Send(c) ==
    /\ call[c].pc = "sending"
    /\ hostLock = Free
    /\ hostLock' = c
    /\ call' = [call EXCEPT ![c].pc = "onWire"]
    /\ UNCHANGED <<pumpVars, pollVars, cacheVars, writeLock, entityVars,
                   boundVars, historyVars, budget>>

\* The controller takes the word into its EEPROM.
Arrive(c) ==
    /\ call[c].pc = "onWire"
    /\ ~call[c].arrived
    /\ mem' = [mem EXCEPT ![call[c].row] = call[c].word]
    /\ ver' = [ver EXCEPT ![call[c].row] = @ + 1]
    /\ arrived' = [total |-> arrived.total + 1, today |-> arrived.today + 1]
    /\ call' = [call EXCEPT ![c].arrived = TRUE]
    /\ UNCHANGED <<pollVars, cacheVars, lockVars, entityVars, boundVars,
                   historyVars, budget>>

\* Its answer reaches the caller: counted, and the row shows the word at once.
Answered(c) ==
    /\ call[c].pc = "onWire"
    /\ call[c].arrived
    /\ LET r == call[c].row
           word == call[c].word
       IN /\ row' = [row EXCEPT ![r] = WrittenTo(@, word)]
          /\ rowVer' = [rowVer EXCEPT ![r] = ver[r]]
          /\ written' = written \cup {r}
          /\ settled' = IF word = Off THEN settled
                        ELSE [settled EXCEPT ![r] =
                                IF mem[r] = word THEN word ELSE None]
    /\ budget' = Recorded(budget, today)
    /\ call' = Ended(c, "written")
    /\ hostLock' = Free
    /\ writeLock' = Free
    /\ UNCHANGED <<pumpVars, pollVars, present, entityVars, boundVars, disturbed>>

\* The controller refused it, or the client was closed: nothing was written.
WriteRefused(c) ==
    /\ call[c].pc = "onWire"
    /\ ~call[c].arrived
    /\ call' = Ended(c, "failed")
    /\ hostLock' = Free
    /\ writeLock' = Free
    /\ UNCHANGED <<pumpVars, pollVars, cacheVars, entityVars, boundVars,
                   historyVars, budget>>

\* The end of a write nobody knows the outcome of: counted, the row as it was.
Abandoned(c, result) ==
    /\ budget' = Recorded(budget, today)
    /\ call' = Ended(c, result)
    /\ hostLock' = Free
    /\ writeLock' = Free
    /\ settled' = [settled EXCEPT ![call[c].row] = None]
    /\ disturbed' = TRUE
    /\ UNCHANGED <<pumpVars, pollVars, cacheVars, entityVars, boundVars>>

\* No answer: a timeout, a broken link, a connect that failed.
AnswerLost(c) ==
    /\ call[c].pc = "onWire"
    /\ Abandoned(c, "failed")

\* Mutant of CancelledOnWire: a write nobody waits for is not counted.
CancelledUncounted(c) ==
    /\ call[c].pc = "onWire"
    /\ call' = Ended(c, "cancelled")
    /\ hostLock' = Free
    /\ writeLock' = Free
    /\ settled' = [settled EXCEPT ![call[c].row] = None]
    /\ disturbed' = TRUE
    /\ UNCHANGED <<pumpVars, pollVars, cacheVars, entityVars, boundVars, budget>>

\* The caller stops waiting while its request is out.
CancelledOnWire(c) ==
    /\ call[c].pc = "onWire"
    /\ Abandoned(c, "cancelled")

\* The caller stops waiting before anything was sent.
CancelledWaiting(c) ==
    /\ call[c].pc \in {"queued", "asking", "reading", "sending"}
    /\ call' = Ended(c, "cancelled")
    /\ hostLock' = IF hostLock = c THEN Free ELSE hostLock
    /\ writeLock' = IF writeLock = c THEN Free ELSE writeLock
    /\ UNCHANGED <<pumpVars, pollVars, cacheVars, entityVars, boundVars,
                   historyVars, budget>>

----
\* The world around.

\* Somebody changes a setpoint at the pump's panel.
PanelChange(r, word) ==
    /\ panels < MaxPanel
    /\ word # mem[r]
    /\ word = Off => r \in OffRows
    /\ mem' = [mem EXCEPT ![r] = word]
    /\ ver' = [ver EXCEPT ![r] = @ + 1]
    /\ settled' = [settled EXCEPT ![r] = None]
    /\ disturbed' = TRUE
    /\ panels' = panels + 1
    /\ UNCHANGED <<arrived, pollVars, cacheVars, lockVars, entityVars, today,
                   calls, call, budget>>

Midnight ==
    /\ today < MaxDay
    /\ today' = today + 1
    /\ arrived' = [arrived EXCEPT !.today = 0]
    /\ UNCHANGED <<mem, ver, pollVars, cacheVars, lockVars, entityVars, panels,
                   calls, historyVars, call, budget>>

Inputs(r) == FixedMin[r]..FixedMax[r]

CallStarts(c) ==
    \E r \in Rows :
        \/ \E wanted \in Inputs(r) : Call(c, "set", r, wanted)
        \/ \E op \in {"on", "off"} : Call(c, op, r, None)

Next ==
    \/ PollStart
    \/ PollTakesLock
    \/ PollServed
    \/ PollRefused
    \/ PollFails
    \/ \E r \in Rows : SwitchAdded(r)
    \/ \E c \in Callers :
        \/ CallStarts(c)
        \/ Enter(c)
        \/ AskController(c)
        \/ HoldsAlready(c)
        \/ HoldsAnother(c)
        \/ AskFails(c)
        \/ Send(c)
        \/ Arrive(c)
        \/ Answered(c)
        \/ WriteRefused(c)
        \/ AnswerLost(c)
        \/ CancelledOnWire(c)
        \/ CancelledWaiting(c)
    \/ \E r \in Rows, word \in PanelWords : PanelChange(r, word)
    \/ Midnight

Spec == Init /\ [][Next]_vars

\* What the event loop and the libraries guarantee. asyncio.Lock hands itself
\* on in the order of arrival: strong fairness for whoever waits for it. Every
\* request ends, with an answer or with the library's or the band's timeout.
PollEnds == PollServed \/ PollRefused \/ PollFails
AskEnds(c) == HoldsAlready(c) \/ HoldsAnother(c) \/ AskFails(c)
WireEnds(c) == Answered(c) \/ WriteRefused(c) \/ AnswerLost(c)

Fairness ==
    /\ WF_vars(PollStart)
    /\ SF_vars(PollTakesLock)
    /\ WF_vars(PollEnds)
    /\ \A c \in Callers :
        /\ SF_vars(Enter(c))
        /\ SF_vars(AskController(c))
        /\ SF_vars(Send(c))
        /\ WF_vars(AskEnds(c))
        /\ WF_vars(WireEnds(c))

FairSpec == Spec /\ Fairness

----
\* Properties.

RowStates ==
    [state : Int \cup {None}, invalid : BOOLEAN, off : BOOLEAN,
     last : Int \cup {None}]
CallStates ==
    [pc : {"idle", "queued", "asking", "reading", "sending", "onWire"},
     op : {"set", "on", "off", None},
     row : Rows \cup {None},
     wanted : Int \cup {None},
     word : Int \cup {Off, None},
     arrived : BOOLEAN,
     result : {None, "outOfRange", "overLimit", "unchanged", "fault", "failed",
               "written", "cancelled"}]

\* Every variable has its type.
TypeOK ==
    /\ mem \in [Rows -> Words]
    /\ row \in [Rows -> RowStates]
    /\ present \in [Bands -> BOOLEAN]
    /\ written \in SUBSET Rows
    /\ poll \in [pc : {"idle", "asking", "reading"}, band : Bands]
    /\ served \in [Bands -> {"unread", "served", "refused"}]
    /\ snap \in [Rows -> Words \cup {None}]
    /\ polled \in BOOLEAN
    /\ restored \in SUBSET OffRows
    /\ hostLock \in Callers \cup {Poller, Free}
    /\ writeLock \in Callers \cup {Free}
    /\ call \in [Callers -> CallStates]
    /\ budget \in Budgets
    /\ today \in Nat
    /\ ver \in [Rows -> Nat]
    /\ rowVer \in [Rows -> Nat]
    /\ snapVer \in [Rows -> Nat]
    /\ arrived \in [total : Nat, today : Nat]
    /\ settled \in [Rows -> Int \cup {None}]
    /\ disturbed \in BOOLEAN
    /\ panels \in Nat
    /\ calls \in Nat

\* A row never goes back to an older reading of its register: a poll that
\* read a band before a write landed does not put the old value back
\* (_written_while_polling).
RowsNeverRegress == [][\A r \in Rows : rowVer'[r] >= rowVer[r]]_vars

\* Rows change together, at the end of a poll that was answered by every band
\* and served by the system band, or one at a time by an answered write or
\* the kept setting of a switch: never half a poll, never a failed one.
OnlyAWholePollPublishes ==
    [][\A r \in Rows : row'[r] # row[r] =>
         \/ \E c \in Callers : /\ call[c].row = r
                               /\ call[c].pc = "onWire"
                               /\ call'[c].result = "written"
         \/ r \in restored' \ restored
         \/ /\ poll.pc = "reading" /\ poll'.pc = "idle"
            /\ \A b \in Bands : b = poll.band \/ served[b] # "unread"
            /\ SystemBand = poll.band \/ served[SystemBand] = "served"]_vars

\* No more words reach the EEPROM in a day than the limit allows, however the
\* calls and midnight interleave (_write_lock, allows_write).
DailyLimitHolds == Limit > 0 => arrived.today <= Limit

\* Every word that reached the EEPROM is counted, whether its answer came, was
\* lost, or nobody waited for it any more (_write_word).
EveryArrivalIsCounted ==
    arrived.total <=
      budget.total + Cardinality({c \in Callers : call[c].arrived})

\* A call that ends well found its word at the controller or brought it there,
\* whatever the cache said and whoever was at the panel (write, _holds).
SuccessMeansHeld ==
    [][\A c \in Callers :
         /\ call[c].pc # "idle"
         /\ call'[c].result \in {"written", "unchanged"}
         => \/ call[c].arrived
            \/ mem[call[c].row] =
                 (IF call[c].word = None THEN WordOf(call[c]) ELSE call[c].word)]_vars

\* Turning a setpoint on never brings a value back that a confirmed number
\* write replaced (_value_to_restore inside the write lock).
SwitchOnRestoresTheNewest ==
    [][\A c \in Callers :
         /\ ~call[c].arrived /\ call'[c].arrived
         /\ call[c].op = "on"
         /\ settled[call[c].row] # None
         => mem'[call[c].row] = Clamped(settled[call[c].row], call[c].row)]_vars

\* As long as every change at the controller was one the program saw through,
\* related setpoints never cross, whatever calls race
\* (_refuse_outside_current_bounds inside the write lock).
PairsStayInOrder ==
    disturbed \/ \A r \in Rows :
        DynMin[r] # None => mem[DynMin[r]] <= mem[r]

\* A call the controller's register already satisfies ends quietly: write
\* returns False and the entity returns the value.
UnchangedEndsQuietly == \A c \in Callers : call[c].result # "fault"

\* Whoever holds the two locks, every call ends, every poll ends, and the next
\* one begins (_write_lock, the host's lock).
NobodyHangs ==
    /\ \A c \in Callers : call[c].pc # "idle" ~> call[c].pc = "idle"
    /\ []<>(poll.pc = "idle") /\ []<>(poll.pc = "reading")
====
