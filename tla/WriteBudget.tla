---- MODULE WriteBudget ----
\* The counter of writes that may have reached the EEPROM
\* (weishaupt_modbus_api/write_budget.py), as operators on its record.
\* The calendar day is a number; every operator that touches the count takes
\* the day it is now, because the count rolls over lazily.
EXTENDS Naturals

Budgets == [total : Nat, today : Nat, day : Nat]

\* WriteBudget.__init__: nothing counted, on the day the entry is set up.
NewBudget(now) == [total |-> 0, today |-> 0, day |-> now]

\* _roll_day: a new day starts at 0, the total goes on.
RollDay(budget, now) ==
    IF budget.day = now THEN budget
    ELSE [budget EXCEPT !.day = now, !.today = 0]

\* Mutant of Loaded: a reload frees the day's limit again.
LoadedTotalOnly(counts, now) == [NewBudget(now) EXCEPT !.total = counts.total]

\* load, on a new budget: today's count only if it is today's.
Loaded(counts, now) ==
    [NewBudget(now) EXCEPT
        !.total = counts.total,
        !.today = IF counts.day = now THEN counts.today ELSE 0]

\* Mutant of AllowsWrite: the limit is one write late.
AllowsOneMore(budget, limit, now) ==
    limit = 0 \/ RollDay(budget, now).today <= limit

\* allows_write: a limit of 0 switches the limit off.
AllowsWrite(budget, limit, now) ==
    limit = 0 \/ RollDay(budget, now).today < limit

\* record_write: one more in total and today.
Recorded(budget, now) ==
    LET rolled == RollDay(budget, now)
    IN [rolled EXCEPT !.total = @ + 1, !.today = @ + 1]
====
