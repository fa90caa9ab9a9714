---- MODULE WriteBudget_proofs ----
\* Lemmas about the counter of writes, on any counts and any day.
EXTENDS WriteBudget, TLAPS

\* What a budget counts on a day, whether or not it has rolled over to it.
LEMMA BudgetType ==
  ASSUME NEW b \in Budgets, NEW d \in Nat
  PROVE  RollDay(b, d) \in Budgets /\ Recorded(b, d) \in Budgets
  <1>1. RollDay(b, d) \in Budgets
    BY DEF Budgets, RollDay
  <1>2. /\ RollDay(b, d).total + 1 \in Nat
        /\ RollDay(b, d).today + 1 \in Nat
    BY <1>1 DEF Budgets
  <1>3. Recorded(b, d) \in Budgets
    BY <1>1, <1>2 DEF Budgets, Recorded
  <1> QED
    BY <1>1, <1>3

LEMMA CountedFacts ==
  ASSUME NEW b \in Budgets, NEW d \in Nat
  PROVE  /\ RollDay(b, d).today \in Nat
         /\ RollDay(RollDay(b, d), d) = RollDay(b, d)
         /\ RollDay(b, d).day = d
         /\ Recorded(b, d).day = d
         /\ RollDay(Recorded(b, d), d).today = RollDay(b, d).today + 1
         /\ b.day <= d => RollDay(b, d + 1).today = 0
  <1> DEFINE rolled == RollDay(b, d)
  <1>1. rolled \in Budgets /\ rolled.day = d
    BY DEF RollDay, Budgets
  <1>2. RollDay(rolled, d) = rolled
    BY <1>1 DEF RollDay
  <1> DEFINE recorded == [rolled EXCEPT !.total = @ + 1, !.today = @ + 1]
  <1>3. recorded = Recorded(b, d)
    BY DEF Recorded
  <1>4. recorded.day = d /\ recorded.today = rolled.today + 1
    BY <1>1 DEF Budgets
  <1>5. RollDay(recorded, d) = recorded
    BY <1>4 DEF RollDay
  <1>6. b.day <= d => RollDay(b, d + 1).today = 0
    BY DEF RollDay, Budgets
  <1>7. rolled.today \in Nat
    BY <1>1 DEF Budgets
  <1> QED
    BY <1>1, <1>2, <1>3, <1>4, <1>5, <1>6, <1>7

\* The total never rolls over: it grows with each write alone.
LEMMA TotalFacts ==
  ASSUME NEW b \in Budgets, NEW d \in Nat
  PROVE  /\ b.total \in Nat
         /\ RollDay(b, d).total = b.total
         /\ Recorded(b, d).total = b.total + 1
  <1>1. RollDay(b, d) \in Budgets /\ RollDay(b, d).total = b.total
    BY DEF RollDay, Budgets
  <1>2. PICK rolled \in Budgets : rolled = RollDay(b, d)
    BY <1>1
  <1>3. Recorded(b, d) = [rolled EXCEPT !.total = @ + 1, !.today = @ + 1]
    BY <1>2 DEF Recorded
  <1> QED
    BY <1>1, <1>2, <1>3 DEF Budgets

\* Counts that are loaded count on: the total, and today's if they are of today.
LEMMA LoadedFacts ==
  ASSUME NEW b \in Budgets, NEW d \in Nat
  PROVE  /\ Loaded(b, d) \in Budgets
         /\ Loaded(b, d).total = b.total
         /\ Loaded(b, d).day = d
         /\ Loaded(b, d).today = RollDay(b, d).today
  <1> DEFINE counts == IF b.day = d THEN b.today ELSE 0
  <1>1. counts \in Nat /\ b.total \in Nat
    BY DEF Budgets
  <1>2. NewBudget(d) \in Budgets /\ NewBudget(d).day = d
    BY DEF NewBudget, Budgets
  <1>3. PICK fresh \in Budgets : fresh = NewBudget(d)
    BY <1>2
  <1>4. Loaded(b, d) = [fresh EXCEPT !.total = b.total, !.today = counts]
    BY <1>3 DEF Loaded
  <1>5. counts = RollDay(b, d).today
    BY DEF RollDay, Budgets
  <1> HIDE DEF counts
  <1>6. [fresh EXCEPT !.total = b.total, !.today = counts] \in Budgets
    BY <1>1 DEF Budgets
  <1>7. /\ [fresh EXCEPT !.total = b.total, !.today = counts].total = b.total
        /\ [fresh EXCEPT !.total = b.total, !.today = counts].today = counts
        /\ [fresh EXCEPT !.total = b.total, !.today = counts].day = d
    BY <1>2, <1>3 DEF Budgets
  <1> QED
    BY <1>4, <1>5, <1>6, <1>7
====
