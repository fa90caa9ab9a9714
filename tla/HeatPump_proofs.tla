---- MODULE HeatPump_proofs ----
\* Proofs about HeatPump, for every pump, every set of callers and every limit:
\* types, the rows and the daily limit; and of the calls that write, that every
\* word that reached the EEPROM is counted, that success means the word is held,
\* what a setpoint switch restores, and that related setpoints stay in order.
EXTENDS HeatPump, WriteBudget_proofs, FiniteSetTheorems

USE BandAssumption, RowAssumption, SentinelAssumption, BoundAssumption

----
\* What the operators on rows and words return.

LEMMA OnGridType == ASSUME NEW w \in Int PROVE OnGrid(w) \in Int
  BY DEF OnGrid

LEMMA BoundsType ==
  ASSUME row \in [Rows -> RowStates], NEW r \in Rows
  PROVE  LowBound(r) \in Int /\ HighBound(r) \in Int
  <1>1. LowBound(r) \in Int
    <2>1. CASE DynMin[r] = None
      BY <2>1 DEF LowBound
    <2>2. CASE DynMin[r] # None
      <3>1. DynMin[r] \in Rows
        BY <2>2
      <3>2. row[DynMin[r]].state \in Int \cup {None}
        BY <3>1 DEF RowStates
      <3> QED
        BY <2>2, <3>2 DEF LowBound, Larger
    <2> QED
      BY <2>1, <2>2
  <1>2. HighBound(r) \in Int
    <2>1. CASE DynMax[r] = None
      BY <2>1 DEF HighBound
    <2>2. CASE DynMax[r] # None
      <3>1. DynMax[r] \in Rows
        BY <2>2
      <3>2. row[DynMax[r]].state \in Int \cup {None}
        BY <3>1 DEF RowStates
      <3> QED
        BY <2>2, <3>2 DEF HighBound, Smaller
    <2> QED
      BY <2>1, <2>2
  <1> QED
    BY <1>1, <1>2

LEMMA ClampedType ==
  ASSUME row \in [Rows -> RowStates], NEW r \in Rows, NEW w \in Int
  PROVE  Clamped(w, r) \in Int
  BY BoundsType DEF Clamped, Larger, Smaller

LEMMA RestoreType ==
  ASSUME row \in [Rows -> RowStates], NEW r \in Rows
  PROVE  ValueToRestore(r) \in Int
  <1>1. row[r].last \in Int \cup {None}
    BY DEF RowStates
  <1> QED
    BY <1>1, ClampedType, BoundsType DEF ValueToRestore

\* What a call under way is made of, beyond its type: it names a row and an
\* operation, and past the write lock it has its word.
CallWellFormed(c) ==
    /\ call[c].pc # "idle" =>
         /\ call[c].row \in Rows
         /\ call[c].op \in {"set", "on", "off"}
         /\ call[c].op = "set" => call[c].wanted \in Int
    /\ call[c].pc \in {"asking", "reading", "sending", "onWire"} =>
         call[c].word \in Int \cup {Off}

CallsWellFormed == \A c \in Callers : CallWellFormed(c)

LEMMA WordOfType ==
  ASSUME row \in [Rows -> RowStates], CallsWellFormed,
         NEW c \in Callers, call[c].pc # "idle"
  PROVE  WordOf(call[c]) \in Int \cup {Off}
  <1>1. /\ call[c].row \in Rows
        /\ call[c].op \in {"set", "on", "off"}
        /\ call[c].op = "set" => call[c].wanted \in Int
    BY DEF CallsWellFormed, CallWellFormed
  <1>2. CASE call[c].op = "set"
    <2>1. OnGrid(call[c].wanted) \in Int
      BY <1>1, <1>2, OnGridType
    <2>2. OnStep(call[c].wanted, call[c].row) \in Int
      BY <2>1, <1>1, ClampedType DEF OnStep
    <2> QED
      BY <2>2, <1>2 DEF WordOf
  <1>3. CASE call[c].op = "on"
    BY <1>1, <1>3, RestoreType DEF WordOf
  <1>4. CASE call[c].op = "off"
    BY <1>4 DEF WordOf
  <1> QED
    BY <1>1, <1>2, <1>3, <1>4

LEMMA AppliedType ==
  ASSUME NEW old \in RowStates, NEW w \in Words \cup {None}
  PROVE  Applied(old, w) \in RowStates
  BY DEF Applied, RowStates, Words

LEMMA AbsentType ==
  ASSUME NEW old \in RowStates PROVE Absent(old) \in RowStates
  BY DEF Absent, RowStates

LEMMA WrittenToType ==
  ASSUME NEW old \in RowStates, NEW w \in Int \cup {Off}
  PROVE  WrittenTo(old, w) \in RowStates
  BY DEF WrittenTo, RowStates

----
\* Types.

TypeInv == TypeOK /\ CallsWellFormed

LEMMA TypeInit == Init => TypeInv
  <1> SUFFICES ASSUME Init PROVE TypeInv
    OBVIOUS
  <1>1. mem \in [Rows -> Words]
    <2>1. \A r \in Rows : mem[r] \in FirstWords[r] /\ FirstWords[r] \subseteq Words
      BY DEF Init
    <2>2. mem \in [Rows -> UNION {FirstWords[r] : r \in Rows}]
      BY DEF Init
    <2> QED
      BY <2>1, <2>2
  <1>2. budget \in Budgets
    BY DEF Init, NewBudget, Budgets
  <1>3. row \in [Rows -> RowStates]
    BY DEF Init, EmptyRow, RowStates
  <1>4. call \in [Callers -> CallStates]
    BY DEF Init, NoCall, CallStates
  <1>5. CallsWellFormed
    BY DEF Init, NoCall, CallsWellFormed, CallWellFormed
  <1>6. poll \in [pc : {"idle", "asking", "reading"}, band : Bands]
    BY DEF Init, Bands
  <1> QED
    BY <1>1, <1>2, <1>3, <1>4, <1>5, <1>6 DEF Init, TypeInv, TypeOK, Bands

\* A poll over leaves its own variables as they began.
LEMMA PollOverType ==
  ASSUME PollOver
  PROVE  /\ poll' \in [pc : {"idle", "asking", "reading"}, band : Bands]
         /\ served' \in [Bands -> {"unread", "served", "refused"}]
         /\ snap' \in [Rows -> Words \cup {None}]
         /\ snapVer' \in [Rows -> Nat]
  BY DEF PollOver, Bands

\* A call that ended names no row and waits for nothing.
LEMMA EndedType ==
  ASSUME TypeInv, NEW c \in Callers,
         NEW result \in {"outOfRange", "overLimit", "unchanged", "fault",
                         "failed", "written", "cancelled"},
         call' = Ended(c, result)
  PROVE  call' \in [Callers -> CallStates] /\ CallsWellFormed'
  <1>1. [NoCall EXCEPT !.result = result] \in CallStates
    BY DEF NoCall, CallStates
  <1>2. call' \in [Callers -> CallStates]
    BY <1>1 DEF Ended, TypeInv, TypeOK
  <1>3. \A d \in Callers : call'[d] = IF d = c THEN [NoCall EXCEPT !.result = result]
                                    ELSE call[d]
    BY DEF Ended, TypeInv, TypeOK
  <1>4. CallsWellFormed'
    BY <1>3 DEF TypeInv, CallsWellFormed, CallWellFormed, NoCall
  <1> QED
    BY <1>2, <1>4

\* A call that goes on keeps its row and operation, and has its word.
LEMMA GoesOnType ==
  ASSUME TypeInv, NEW c \in Callers, call[c].pc # "idle", NEW new \in CallStates,
         new.pc \in {"asking", "reading", "sending", "onWire"},
         new.row = call[c].row, new.op = call[c].op,
         new.wanted = call[c].wanted, new.word \in Int \cup {Off},
         call' = [call EXCEPT ![c] = new]
  PROVE  call' \in [Callers -> CallStates] /\ CallsWellFormed'
  <1>1. call' \in [Callers -> CallStates]
    BY DEF TypeInv, TypeOK
  <1>2. \A d \in Callers : call'[d] = IF d = c THEN new ELSE call[d]
    BY DEF TypeInv, TypeOK
  <1>3. CallsWellFormed'
    BY <1>2 DEF TypeInv, CallsWellFormed, CallWellFormed
  <1> QED
    BY <1>1, <1>3

\* Past the write lock a call only moves its pc.
LEMMA MovesOnType ==
  ASSUME TypeInv, NEW c \in Callers,
         call[c].pc \in {"asking", "reading", "sending", "onWire"},
         NEW pc \in {"asking", "reading", "sending", "onWire"},
         call' = [call EXCEPT ![c].pc = pc]
  PROVE  call' \in [Callers -> CallStates] /\ CallsWellFormed'
  <1> DEFINE new == [call[c] EXCEPT !.pc = pc]
  <1>1. call[c] \in CallStates /\ call[c].word \in Int \cup {Off}
    BY DEF TypeInv, TypeOK, CallsWellFormed, CallWellFormed
  <1>2. /\ new \in CallStates /\ new.pc = pc /\ new.row = call[c].row
        /\ new.op = call[c].op /\ new.wanted = call[c].wanted
        /\ new.word = call[c].word
    BY <1>1 DEF CallStates
  <1>3. call' = [call EXCEPT ![c] = new]
    OBVIOUS
  <1> HIDE DEF new
  <1> QED
    BY <1>1, <1>2, <1>3, GoesOnType

\* Going to send, whether the limit lets it or not.
LEMMA GoToSendType ==
  ASSUME TypeInv, NEW c \in Callers, call[c].pc # "idle",
         NEW word \in Int \cup {Off}, GoToSend(c, word)
  PROVE  /\ call' \in [Callers -> CallStates] /\ CallsWellFormed'
         /\ writeLock' \in Callers \cup {Free}
  <1>1. CASE call' = Ended(c, "overLimit") /\ writeLock' = Free
    BY <1>1, EndedType
  <1>2. CASE /\ call' = [call EXCEPT ![c].pc = "sending", ![c].word = word]
             /\ writeLock' = c
    <2> DEFINE new == [call[c] EXCEPT !.pc = "sending", !.word = word]
    <2>1. call[c] \in CallStates
      BY DEF TypeInv, TypeOK
    <2>2. /\ new \in CallStates /\ new.pc = "sending" /\ new.row = call[c].row
          /\ new.op = call[c].op /\ new.wanted = call[c].wanted /\ new.word = word
      BY <2>1 DEF CallStates
    <2>3. call' = [call EXCEPT ![c] = new]
      BY <1>2
    <2> HIDE DEF new
    <2> QED
      BY <1>2, <2>2, <2>3, GoesOnType
  <1> QED
    BY <1>1, <1>2 DEF GoToSend

LEMMA TypeStep == TypeInv /\ [Next]_vars => TypeInv'
  <1> SUFFICES ASSUME TypeInv, [Next]_vars PROVE TypeInv'
    OBVIOUS
  <1> USE DEF TypeInv
  <1>1. CASE PollStart
    <2>1. poll' \in [pc : {"idle", "asking", "reading"}, band : Bands]
      BY <1>1 DEF PollStart, Bands
    <2> QED
      BY <1>1, <2>1 DEF PollStart, TypeOK, CallsWellFormed, CallWellFormed,
         pumpVars, lockVars, entityVars, boundVars, historyVars
  <1>2. CASE PollTakesLock
    BY <1>2 DEF PollTakesLock, TypeOK, CallsWellFormed, CallWellFormed, pumpVars,
       cacheVars, entityVars, boundVars, historyVars
  <1>3. ASSUME NEW answer \in {"served", "refused"}, PollAnswer(answer)
        PROVE  TypeInv'
    <2> DEFINE b == poll.band
               answers == [served EXCEPT ![b] = answer]
               words == [r \in Rows |-> IF BandOf[r] = b /\ answer = "served"
                                        THEN mem[r] ELSE snap[r]]
               vers == [r \in Rows |-> IF BandOf[r] = b /\ answer = "served"
                                       THEN ver[r] ELSE snapVer[r]]
    <2>1. /\ b \in Bands
          /\ answers \in [Bands -> {"unread", "served", "refused"}]
          /\ words \in [Rows -> Words \cup {None}]
          /\ vers \in [Rows -> Nat]
      BY <1>3 DEF TypeOK
    <2>2. /\ hostLock' = Free
          /\ UNCHANGED <<pumpVars, written, writeLock, restored, boundVars,
                         settled, call, budget>>
      BY <1>3 DEF PollAnswer
    <2>3. /\ poll' \in [pc : {"idle", "asking", "reading"}, band : Bands]
          /\ served' \in [Bands -> {"unread", "served", "refused"}]
          /\ snap' \in [Rows -> Words \cup {None}]
          /\ snapVer' \in [Rows -> Nat]
      <3>1. CASE /\ b < NumBands
                 /\ poll' = [pc |-> "asking", band |-> b + 1]
                 /\ served' = answers
                 /\ snap' = words
                 /\ snapVer' = vers
        <4>1. b + 1 \in Bands
          BY <3>1, <2>1 DEF Bands
        <4>2. poll' \in [pc : {"idle", "asking", "reading"}, band : Bands]
          BY <3>1, <4>1
        <4> QED
          BY <3>1, <4>2, <2>1
      <3>2. CASE PollOver
        BY <3>2, PollOverType
      <3> QED
        BY <1>3, <3>1, <3>2 DEF PollAnswer
    <2>4. /\ row' \in [Rows -> RowStates] /\ rowVer' \in [Rows -> Nat]
          /\ present' \in [Bands -> BOOLEAN]
          /\ disturbed' \in BOOLEAN /\ polled' \in BOOLEAN
      <3>1. CASE KeepRows
        BY <3>1 DEF KeepRows, TypeOK
      <3>2. CASE Publish(answers, words, vers)
        <4>1. \A r \in Rows : /\ Absent(row[r]) \in RowStates
                              /\ Applied(row[r], words[r]) \in RowStates
          BY <2>1, AbsentType, AppliedType DEF TypeOK
        <4> HIDE DEF answers, words, vers
        <4>2. row' \in [Rows -> RowStates]
          BY <3>2, <4>1 DEF Publish, TypeOK
        <4>3. rowVer' \in [Rows -> Nat]
          BY <3>2, <2>1 DEF Publish, TypeOK
        <4> QED
          BY <3>2, <4>2, <4>3 DEF Publish, TypeOK
      <3> QED
        BY <1>3, <3>1, <3>2 DEF PollAnswer
    <2> HIDE DEF b, answers, words, vers
    <2> QED
      BY <2>2, <2>3, <2>4 DEF TypeOK, CallsWellFormed, CallWellFormed, pumpVars,
         boundVars
  <1>4. CASE PollFails
    <2>1. PollOver
      BY <1>4 DEF PollFails
    <2> QED
      BY <1>4, <2>1, PollOverType DEF PollFails, TypeOK, CallsWellFormed,
         CallWellFormed, pumpVars, cacheVars, entityVars, boundVars, historyVars
  <1>5. ASSUME NEW r \in Rows, SwitchAdded(r) PROVE TypeInv'
    <2>1. [row[r] EXCEPT !.last = Kept[r]] \in RowStates
      <3>1. row[r] \in RowStates /\ Kept[r] \in Int \cup {None}
        BY DEF TypeOK
      <3> QED
        BY <3>1 DEF RowStates
    <2>2. row' \in [Rows -> RowStates]
      BY <1>5, <2>1 DEF SwitchAdded, TypeOK
    <2> QED
      BY <1>5, <2>2 DEF SwitchAdded, TypeOK, CallsWellFormed, CallWellFormed,
         pumpVars, pollVars, lockVars, boundVars, historyVars
  <1>6. ASSUME NEW c \in Callers, CallStarts(c) PROVE TypeInv'
    <2>1. PICK r \in Rows, op \in {"set", "on", "off"}, wanted \in Int \cup {None} :
            Call(c, op, r, wanted)
      <3>1. PICK r \in Rows :
              \/ \E wanted \in Inputs(r) : Call(c, "set", r, wanted)
              \/ \E op \in {"on", "off"} : Call(c, op, r, None)
        BY <1>6 DEF CallStarts
      <3>2. CASE \E wanted \in Inputs(r) : Call(c, "set", r, wanted)
        BY <3>2 DEF Inputs
      <3>3. CASE \E op \in {"on", "off"} : Call(c, op, r, None)
        <4>1. PICK op \in {"on", "off"} : Call(c, op, r, None)
          BY <3>3
        <4>2. op \in {"set", "on", "off"} /\ None \in Int \cup {None}
          OBVIOUS
        <4> QED
          BY <4>1, <4>2
      <3> QED
        BY <3>1, <3>2, <3>3
    <2> DEFINE new == [NoCall EXCEPT !.pc = "queued", !.op = op, !.row = r,
                                     !.wanted = wanted]
    <2>2. /\ new \in CallStates /\ new.pc = "queued" /\ new.row \in Rows
          /\ new.op = op /\ new.wanted = wanted
      BY DEF NoCall, CallStates
    <2>3. /\ call' = [call EXCEPT ![c] = new]
          /\ op = "set" => wanted \in Int
      BY <2>1 DEF Call
    <2> HIDE DEF new
    <2>4. \A d \in Callers : call'[d] = IF d = c THEN new ELSE call[d]
      BY <2>3 DEF TypeOK
    <2>5. CallsWellFormed'
      BY <2>2, <2>3, <2>4 DEF CallsWellFormed, CallWellFormed
    <2>6. call' \in [Callers -> CallStates]
      BY <2>2, <2>3 DEF TypeOK
    <2> QED
      BY <2>1, <2>5, <2>6 DEF Call, TypeOK, pumpVars, pollVars, cacheVars,
         lockVars, entityVars, historyVars
  <1>7. ASSUME NEW c \in Callers, Enter(c) PROVE TypeInv'
    <2> DEFINE word == WordOf(call[c])
    <2>1. word \in Int \cup {Off}
      BY <1>7, WordOfType DEF Enter, TypeOK
    <2> HIDE DEF word
    <2>2. /\ call' \in [Callers -> CallStates] /\ CallsWellFormed'
          /\ writeLock' \in Callers \cup {Free}
          /\ budget' \in Budgets
      <3>1. CASE call' = Ended(c, "outOfRange") /\ UNCHANGED <<writeLock, budget>>
        BY <3>1, EndedType DEF TypeOK
      <3>2. CASE /\ call' = [call EXCEPT ![c].pc = "asking", ![c].word = word]
                 /\ writeLock' = c
                 /\ UNCHANGED budget
        <4> DEFINE new == [call[c] EXCEPT !.pc = "asking", !.word = word]
        <4>1. /\ new \in CallStates /\ new.pc = "asking"
              /\ new.row = call[c].row /\ new.op = call[c].op
              /\ new.wanted = call[c].wanted /\ new.word = word
          <5>1. call[c] \in CallStates
            BY DEF TypeOK
          <5> QED
            BY <2>1, <5>1 DEF CallStates
        <4>2. call' = [call EXCEPT ![c] = new]
          BY <3>2
        <4>3. call[c].pc # "idle"
          BY <1>7 DEF Enter
        <4> HIDE DEF new
        <4> QED
          BY <2>1, <3>2, <4>1, <4>2, <4>3, GoesOnType DEF TypeOK
      <3>3. CASE GoToSend(c, word) /\ budget' = RollDay(budget, today)
        BY <1>7, <2>1, <3>3, GoToSendType, BudgetType DEF Enter, TypeOK
      <3> QED
        BY <1>7, <3>1, <3>2, <3>3 DEF Enter, word
    <2> QED
      BY <1>7, <2>2 DEF Enter, TypeOK, pumpVars, pollVars, cacheVars, entityVars,
         boundVars, historyVars
  <1>8. ASSUME NEW c \in Callers, AskController(c) \/ Send(c) PROVE TypeInv'
    <2>1. call' \in [Callers -> CallStates] /\ CallsWellFormed'
      BY <1>8, MovesOnType DEF AskController, Send
    <2> QED
      BY <1>8, <2>1 DEF AskController, Send, TypeOK, pumpVars, pollVars,
         cacheVars, entityVars, boundVars, historyVars
  <1>9. ASSUME NEW c \in Callers,
               \/ HoldsAlready(c) \/ AskFails(c) \/ WriteRefused(c)
               \/ CancelledWaiting(c)
        PROVE  TypeInv'
    <2>1. call' \in [Callers -> CallStates] /\ CallsWellFormed'
      BY <1>9, EndedType DEF HoldsAlready, AskFails, WriteRefused, CancelledWaiting
    <2>2. /\ hostLock' \in Callers \cup {Poller, Free}
          /\ writeLock' \in Callers \cup {Free}
      BY <1>9 DEF HoldsAlready, AskFails, WriteRefused, CancelledWaiting, TypeOK
    <2>3. UNCHANGED <<pumpVars, pollVars, cacheVars, entityVars, boundVars,
                      historyVars, budget>>
      BY <1>9 DEF HoldsAlready, AskFails, WriteRefused, CancelledWaiting
    <2> QED
      BY <2>1, <2>2, <2>3 DEF TypeOK, pumpVars, pollVars, cacheVars, entityVars,
         boundVars, historyVars
  <1>10. ASSUME NEW c \in Callers, HoldsAnother(c) PROVE TypeInv'
    <2>1. call[c].word \in Int \cup {Off} /\ call[c].pc # "idle"
      BY <1>10 DEF HoldsAnother, CallsWellFormed, CallWellFormed
    <2>2. /\ call' \in [Callers -> CallStates] /\ CallsWellFormed'
          /\ writeLock' \in Callers \cup {Free}
      BY <1>10, <2>1, GoToSendType DEF HoldsAnother
    <2>3. budget' \in Budgets
      BY <1>10, BudgetType DEF HoldsAnother, TypeOK
    <2> QED
      BY <1>10, <2>2, <2>3 DEF HoldsAnother, TypeOK, pumpVars, pollVars,
         cacheVars, entityVars, boundVars, historyVars
  <1>11. ASSUME NEW c \in Callers, Arrive(c) PROVE TypeInv'
    <2> DEFINE new == [call[c] EXCEPT !.arrived = TRUE]
    <2>1. /\ call[c].word \in Int \cup {Off} /\ call[c].row \in Rows
          /\ call[c].pc = "onWire"
      BY <1>11 DEF Arrive, CallsWellFormed, CallWellFormed
    <2>2. /\ new \in CallStates /\ new.pc = "onWire"
          /\ new.row = call[c].row /\ new.op = call[c].op
          /\ new.wanted = call[c].wanted /\ new.word = call[c].word
      <3>1. call[c] \in CallStates
        BY DEF TypeOK
      <3> QED
        BY <2>1, <3>1 DEF CallStates
    <2>3. call' = [call EXCEPT ![c] = new]
      BY <1>11 DEF Arrive
    <2> HIDE DEF new
    <2>4. call' \in [Callers -> CallStates] /\ CallsWellFormed'
      BY <2>1, <2>2, <2>3, GoesOnType
    <2>5. mem' \in [Rows -> Words] /\ ver' \in [Rows -> Nat]
      BY <1>11, <2>1 DEF Arrive, TypeOK, Words
    <2>6. arrived' \in [total : Nat, today : Nat]
      BY <1>11 DEF Arrive, TypeOK
    <2> QED
      BY <1>11, <2>4, <2>5, <2>6 DEF Arrive, TypeOK, pollVars, cacheVars,
         lockVars, entityVars, boundVars, historyVars
  <1>12. ASSUME NEW c \in Callers, Answered(c) PROVE TypeInv'
    <2>1. /\ call[c].word \in Int \cup {Off} /\ call[c].row \in Rows
      BY <1>12 DEF Answered, CallsWellFormed, CallWellFormed
    <2>2. call' \in [Callers -> CallStates] /\ CallsWellFormed'
      BY <1>12, EndedType DEF Answered
    <2>3. row' \in [Rows -> RowStates]
      <3>1. WrittenTo(row[call[c].row], call[c].word) \in RowStates
        BY <2>1, WrittenToType DEF TypeOK
      <3> QED
        BY <1>12, <3>1 DEF Answered, TypeOK
    <2>4. /\ rowVer' \in [Rows -> Nat] /\ written' \in SUBSET Rows
          /\ settled' \in [Rows -> Int \cup {None}]
      BY <1>12, <2>1 DEF Answered, TypeOK
    <2>5. budget' \in Budgets
      BY <1>12, BudgetType DEF Answered, TypeOK
    <2> QED
      BY <1>12, <2>2, <2>3, <2>4, <2>5 DEF Answered, TypeOK, pumpVars, pollVars,
         entityVars, boundVars
  <1>13. ASSUME NEW c \in Callers, AnswerLost(c) \/ CancelledOnWire(c)
         PROVE  TypeInv'
    <2>1. PICK result \in {"failed", "cancelled"} : Abandoned(c, result)
      BY <1>13 DEF AnswerLost, CancelledOnWire
    <2>2. call' \in [Callers -> CallStates] /\ CallsWellFormed'
      BY <2>1, EndedType DEF Abandoned
    <2>3. budget' \in Budgets
      BY <2>1, BudgetType DEF Abandoned, TypeOK
    <2>4. settled' \in [Rows -> Int \cup {None}]
      BY <2>1 DEF Abandoned, TypeOK
    <2> QED
      BY <2>1, <2>2, <2>3, <2>4 DEF Abandoned, TypeOK, pumpVars, pollVars,
         cacheVars, entityVars, boundVars
  <1>14. ASSUME NEW r \in Rows, NEW word \in PanelWords, PanelChange(r, word)
         PROVE  TypeInv'
    BY <1>14 DEF PanelChange, TypeOK, CallsWellFormed, CallWellFormed, pollVars,
       cacheVars, lockVars, entityVars
  <1>15. CASE Midnight
    <2>1. arrived' \in [total : Nat, today : Nat]
      BY <1>15 DEF Midnight, TypeOK
    <2> QED
      BY <1>15, <2>1 DEF Midnight, TypeOK, CallsWellFormed, CallWellFormed,
         pollVars, cacheVars, lockVars, entityVars, historyVars
  <1>16. CASE UNCHANGED vars
    BY <1>16 DEF vars, TypeOK, CallsWellFormed, CallWellFormed, pumpVars,
       pollVars, cacheVars, lockVars, entityVars, boundVars, historyVars
  <1> QED
    BY <1>1, <1>2, <1>3, <1>4, <1>5, <1>6, <1>7, <1>8, <1>9, <1>10, <1>11,
       <1>12, <1>13, <1>14, <1>15, <1>16 DEF Next, PollServed, PollRefused

\* Every variable of the pump keeps its type, for any number of rows, callers
\* and bands (TypeOK of every run).
THEOREM TypeCorrect == Spec => []TypeOK
  <1>1. TypeInv => TypeOK
    BY DEF TypeInv
  <1> QED
    BY <1>1, TypeInit, TypeStep, PTL DEF Spec

----
\* The rows never go back. What makes it inductive: a reading of the poll under
\* way is at least as new as the row it will replace, unless the row was
\* written since the poll began, and no reading or row is ahead of its register.

ReadingsAreNewer ==
    /\ \A r \in Rows : rowVer[r] <= ver[r] /\ snapVer[r] <= ver[r]
    /\ poll.pc # "idle" => \A b \in Bands : b < poll.band => served[b] # "unread"
    /\ poll.pc # "idle" => \A r \in Rows :
         /\ r \notin written
         /\ BandOf[r] < poll.band
         /\ served[BandOf[r]] = "served"
         => rowVer[r] <= snapVer[r]

RowInv == TypeInv /\ ReadingsAreNewer

LEMMA RowInit == Init => RowInv
  BY TypeInit DEF Init, RowInv, ReadingsAreNewer, Bands

\* One answer of the poll, with the rows it leads to.
LEMMA PollAnswerRows ==
  ASSUME RowInv, NEW answer \in {"served", "refused"}, PollAnswer(answer)
  PROVE  ReadingsAreNewer' /\ \A r \in Rows : rowVer'[r] >= rowVer[r]
  <1> DEFINE b == poll.band
             answers == [served EXCEPT ![b] = answer]
             words == [r \in Rows |-> IF BandOf[r] = b /\ answer = "served"
                                      THEN mem[r] ELSE snap[r]]
             vers == [r \in Rows |-> IF BandOf[r] = b /\ answer = "served"
                                     THEN ver[r] ELSE snapVer[r]]
  <1>1. /\ b \in Bands /\ poll.pc = "reading"
        /\ served \in [Bands -> {"unread", "served", "refused"}]
        /\ \A r \in Rows : /\ BandOf[r] \in Bands
                           /\ ver[r] \in Nat /\ rowVer[r] \in Nat
                           /\ snapVer[r] \in Nat
    BY DEF RowInv, TypeInv, TypeOK, PollAnswer
  <1>2. UNCHANGED <<ver, written>>
    BY DEF PollAnswer, pumpVars
  <1>3. \A r \in Rows : vers[r] <= ver[r]
    BY <1>1 DEF RowInv, ReadingsAreNewer
  <1>4. \A r \in Rows : /\ r \notin written
                        /\ (BandOf[r] < b \/ BandOf[r] = b)
                        /\ answers[BandOf[r]] = "served"
                       => rowVer[r] <= vers[r]
    BY <1>1 DEF RowInv, ReadingsAreNewer
  <1>5. \A c \in Bands : (c < b \/ c = b) => answers[c] # "unread"
    BY <1>1 DEF RowInv, ReadingsAreNewer
  <1>6. \A r \in Rows : answers[BandOf[r]] \in {"unread", "served", "refused"}
    BY <1>1
  <1>7. CASE /\ b < NumBands
             /\ poll' = [pc |-> "asking", band |-> b + 1]
             /\ served' = answers
             /\ snap' = words
             /\ snapVer' = vers
             /\ KeepRows
    <2>1. \A c \in Bands : c < b + 1 <=> (c < b \/ c = b)
      BY <1>1 DEF Bands
    <2>2. rowVer' = rowVer
      BY <1>7 DEF KeepRows
    <2> HIDE DEF b, answers, words, vers
    <2> QED
      BY <1>1, <1>2, <1>3, <1>4, <1>5, <1>7, <2>1, <2>2
      DEF ReadingsAreNewer, RowInv
  <1>8. CASE b = NumBands /\ PollOver /\ KeepRows
    <2>1. rowVer' = rowVer
      BY <1>8 DEF KeepRows
    <2> QED
      BY <1>1, <1>2, <1>8, <2>1 DEF PollOver, ReadingsAreNewer, RowInv
  <1>9. CASE b = NumBands /\ PollOver /\ Publish(answers, words, vers)
    <2>1. \A r \in Rows : BandOf[r] < b \/ BandOf[r] = b
      BY <1>1, <1>9 DEF Bands
    <2>2. \A r \in Rows :
            rowVer'[r] = IF r \in written \/ answers[BandOf[r]] = "refused"
                         THEN rowVer[r] ELSE vers[r]
      BY <1>9 DEF Publish, Superseded
    <2> HIDE DEF b, answers, words, vers
    <2>3. \A r \in Rows : rowVer'[r] >= rowVer[r] /\ rowVer'[r] <= ver[r]
      <3> SUFFICES ASSUME NEW r \in Rows
                   PROVE  rowVer'[r] >= rowVer[r] /\ rowVer'[r] <= ver[r]
        OBVIOUS
      <3>1. CASE r \in written \/ answers[BandOf[r]] = "refused"
        BY <3>1, <2>2, <1>1 DEF RowInv, ReadingsAreNewer
      <3>2. CASE ~(r \in written \/ answers[BandOf[r]] = "refused")
        <4>1. answers[BandOf[r]] = "served"
          BY <3>2, <1>1, <1>5, <1>6, <2>1
        <4>2. rowVer'[r] = vers[r] /\ rowVer[r] <= vers[r] /\ vers[r] <= ver[r]
          BY <3>2, <4>1, <2>1, <2>2, <1>3, <1>4
        <4>3. vers[r] \in Nat
          BY <1>1 DEF vers
        <4> QED
          BY <4>2, <4>3, <1>1
      <3> QED
        BY <3>1, <3>2
    <2> QED
      BY <1>1, <1>2, <1>9, <2>3 DEF PollOver, ReadingsAreNewer
  <1> QED
    BY <1>7, <1>8, <1>9 DEF PollAnswer

LEMMA RowStep ==
  RowInv /\ [Next]_vars =>
    RowInv' /\ (vars' = vars \/ \A r \in Rows : rowVer'[r] >= rowVer[r])
  <1> SUFFICES ASSUME RowInv, [Next]_vars
               PROVE  ReadingsAreNewer' /\ \A r \in Rows : rowVer'[r] >= rowVer[r]
    BY TypeStep DEF RowInv
  <1>0. /\ \A r \in Rows : /\ ver[r] \in Nat /\ rowVer[r] \in Nat
                           /\ snapVer[r] \in Nat
        /\ ver \in [Rows -> Nat] /\ rowVer \in [Rows -> Nat]
    BY DEF RowInv, TypeInv, TypeOK
  <1> USE <1>0 DEF RowInv, ReadingsAreNewer
  <1>1. CASE UNCHANGED <<ver, rowVer, snapVer, poll, served, written>>
    BY <1>1
  <1>2. CASE PollStart
    <2>1. /\ UNCHANGED <<ver, rowVer, snapVer, served>>
          /\ poll' = [pc |-> "asking", band |-> 1]
      BY <1>2 DEF PollStart, pumpVars
    <2>2. \A b \in Bands : ~(b < 1)
      BY DEF Bands
    <2> QED
      BY <2>1, <2>2
  <1>3. CASE PollTakesLock
    BY <1>3 DEF PollTakesLock, pumpVars, cacheVars, TypeInv, TypeOK
  <1>4. CASE PollServed \/ PollRefused
    BY <1>4, PollAnswerRows DEF PollServed, PollRefused
  <1>5. CASE PollFails
    BY <1>5 DEF PollFails, PollOver, pumpVars, cacheVars
  <1>6. ASSUME NEW c \in Callers, Arrive(c)
        PROVE  ReadingsAreNewer' /\ \A r \in Rows : rowVer'[r] >= rowVer[r]
    <2>1. \A r \in Rows : ver'[r] \in Nat /\ ver[r] <= ver'[r]
      BY <1>6 DEF Arrive
    <2>2. UNCHANGED <<rowVer, snapVer, poll, served, written>>
      BY <1>6 DEF Arrive, pollVars, cacheVars
    <2> QED
      BY <2>1, <2>2
  <1>7. ASSUME NEW c \in Callers, Answered(c)
        PROVE  ReadingsAreNewer' /\ \A r \in Rows : rowVer'[r] >= rowVer[r]
    <2>1. /\ UNCHANGED <<ver, snapVer, poll, served>>
          /\ rowVer' = [rowVer EXCEPT ![call[c].row] = ver[call[c].row]]
          /\ written' = written \cup {call[c].row}
      BY <1>7 DEF Answered, pumpVars, pollVars
    <2>2. \A r \in Rows : rowVer'[r] = IF r = call[c].row THEN ver[r] ELSE rowVer[r]
      BY <2>1
    <2> QED
      BY <2>1, <2>2
  <1>8. ASSUME NEW r \in Rows, NEW word \in PanelWords, PanelChange(r, word)
        PROVE  ReadingsAreNewer' /\ \A q \in Rows : rowVer'[q] >= rowVer[q]
    <2>1. \A q \in Rows : ver'[q] \in Nat /\ ver[q] <= ver'[q]
      BY <1>8 DEF PanelChange
    <2>2. UNCHANGED <<rowVer, snapVer, poll, served, written>>
      BY <1>8 DEF PanelChange, pollVars, cacheVars
    <2> QED
      BY <2>1, <2>2
  <1>9. ASSUME NEW c \in Callers,
               \/ CallStarts(c) \/ Enter(c) \/ AskController(c)
               \/ HoldsAlready(c) \/ HoldsAnother(c) \/ AskFails(c) \/ Send(c)
               \/ WriteRefused(c) \/ AnswerLost(c) \/ CancelledOnWire(c)
               \/ CancelledWaiting(c)
        PROVE  UNCHANGED <<ver, rowVer, snapVer, poll, served, written>>
    BY <1>9 DEF CallStarts, Call, Enter, AskController, HoldsAlready,
       HoldsAnother, AskFails, Send, WriteRefused, AnswerLost, CancelledOnWire,
       Abandoned, CancelledWaiting, pumpVars, pollVars, cacheVars
  <1>10. CASE Midnight \/ UNCHANGED vars \/ \E r \in Rows : SwitchAdded(r)
    BY <1>10, <1>1 DEF Midnight, SwitchAdded, vars, pumpVars, pollVars, cacheVars
  <1> QED
    BY <1>1, <1>2, <1>3, <1>4, <1>5, <1>6, <1>7, <1>8, <1>9, <1>10 DEF Next

\* No row ever goes back to an older reading of its register, for any number
\* of rows, bands and callers, whatever the panel does.
THEOREM RowsAreMonotone == Spec => RowsNeverRegress
  <1>1. RowInv /\ [Next]_vars => [\A r \in Rows : rowVer'[r] >= rowVer[r]]_vars
    BY RowStep
  <1> QED
    BY <1>1, RowInit, RowStep, PTL DEF Spec, RowsNeverRegress

----
\* The daily limit. Whoever passed allows_write still has an allowance while it
\* holds the write lock, as nobody else can count meanwhile; what arrived today
\* is counted, but for the one write whose answer is still out.

Counted == RollDay(budget, today).today

LockedOut ==
    \A c \in Callers :
        /\ call[c].pc \in {"asking", "reading", "sending", "onWire"} => writeLock = c
        /\ call[c].arrived => call[c].pc = "onWire"

WithinLimit ==
    /\ budget.day <= today
    /\ Limit > 0 => Counted <= Limit
    /\ Limit > 0 => \A c \in Callers :
         call[c].pc \in {"sending", "onWire"} => Counted < Limit
    /\ \/ arrived.today <= Counted
       \/ \E c \in Callers : call[c].arrived /\ arrived.today <= Counted + 1

LimitInv == TypeInv /\ LockedOut /\ WithinLimit

LEMMA LimitInit == Init => LimitInv
  <1> SUFFICES ASSUME Init PROVE LimitInv
    OBVIOUS
  <1>1. LockedOut
    BY DEF Init, LockedOut, NoCall
  <1>2. Counted = 0 /\ budget.day = 0 /\ today = 0 /\ arrived.today = 0
    BY DEF Init, Counted, NewBudget, RollDay
  <1>3. WithinLimit
    BY <1>2 DEF Init, WithinLimit, NoCall
  <1> QED
    BY <1>1, <1>3, TypeInit DEF LimitInv

\* A call that moves nothing that is counted.
LEMMA QuietStep ==
  ASSUME LimitInv, NEW c \in Callers,
         UNCHANGED <<arrived, today>>,
         budget' = budget \/ budget' = RollDay(budget, today),
         \A d \in Callers \ {c} : call'[d] = call[d] /\ writeLock # d,
         call'[c].arrived <=> call[c].arrived,
         call'[c].pc \in {"asking", "reading", "sending", "onWire"} => writeLock' = c,
         call'[c].arrived => call'[c].pc = "onWire",
         call'[c].pc \in {"sending", "onWire"} =>
           (call[c].pc \in {"sending", "onWire"} \/ AllowsWrite(budget, Limit, today))
  PROVE  LockedOut' /\ WithinLimit'
  <1>1. /\ Counted' = Counted /\ Counted \in Nat
        /\ budget'.day <= today'
    BY CountedFacts DEF LimitInv, WithinLimit, Counted, TypeInv, TypeOK
  <1>2. LockedOut'
    BY DEF LimitInv, LockedOut
  <1>3. Limit > 0 => \A d \in Callers :
          call'[d].pc \in {"sending", "onWire"} => Counted < Limit
    BY DEF LimitInv, WithinLimit, AllowsWrite, Counted
  <1>4. \/ arrived.today <= Counted
        \/ \E d \in Callers : call'[d].arrived /\ arrived.today <= Counted + 1
    BY DEF LimitInv, WithinLimit
  <1> QED
    BY <1>1, <1>2, <1>3, <1>4 DEF WithinLimit, LimitInv

\* A write that ended and was counted.
LEMMA CountedStep ==
  ASSUME LimitInv, NEW c \in Callers, call[c].pc = "onWire",
         UNCHANGED <<arrived, today>>,
         budget' = Recorded(budget, today),
         NEW result \in {"written", "failed", "cancelled"},
         call' = Ended(c, result)
  PROVE  LockedOut' /\ WithinLimit'
  <1>1. /\ Counted' = Counted + 1 /\ Counted \in Nat /\ budget'.day = today'
        /\ arrived.today \in Nat /\ Limit \in Nat /\ today \in Nat
    BY CountedFacts DEF LimitInv, Counted, TypeInv, TypeOK
  <1>2. \A d \in Callers \ {c} :
          /\ call'[d] = call[d]
          /\ call[d].pc \notin {"asking", "reading", "sending", "onWire"}
          /\ ~call[d].arrived
    BY DEF Ended, LimitInv, LockedOut, TypeInv, TypeOK
  <1>3. call'[c].pc = "idle" /\ ~call'[c].arrived
    BY DEF Ended, NoCall, LimitInv, TypeInv, TypeOK
  <1>4. LockedOut'
    BY <1>2, <1>3 DEF LockedOut
  <1>5. Limit > 0 => Counted + 1 <= Limit
    BY <1>1 DEF LimitInv, WithinLimit
  <1>6. arrived.today <= Counted + 1
    BY <1>1 DEF LimitInv, WithinLimit
  <1> QED
    BY <1>1, <1>2, <1>3, <1>4, <1>5, <1>6 DEF WithinLimit

LEMMA LimitStep == LimitInv /\ [Next]_vars => LimitInv'
  <1> SUFFICES ASSUME LimitInv, [Next]_vars PROVE LockedOut' /\ WithinLimit'
    BY TypeStep DEF LimitInv
  <1>0. /\ call \in [Callers -> CallStates] /\ writeLock \in Callers \cup {Free}
        /\ Counted \in Nat /\ arrived.today \in Nat /\ today \in Nat
        /\ budget \in Budgets
    BY CountedFacts DEF LimitInv, TypeInv, TypeOK, Counted
  <1>1. CASE UNCHANGED <<call, writeLock, budget, today, arrived>>
    BY <1>1 DEF LimitInv, LockedOut, WithinLimit, Counted
  <1>2. ASSUME NEW c \in Callers, CallStarts(c) PROVE LockedOut' /\ WithinLimit'
    <2>1. PICK r, op, wanted : Call(c, op, r, wanted)
      BY <1>2 DEF CallStarts
    <2> DEFINE new == [NoCall EXCEPT !.pc = "queued", !.op = op, !.row = r,
                                     !.wanted = wanted]
    <2>2. new.pc = "queued" /\ ~new.arrived
      BY DEF NoCall
    <2>3. /\ call' = [call EXCEPT ![c] = new]
          /\ call[c].pc = "idle"
          /\ UNCHANGED <<writeLock, budget, today, arrived>>
      BY <2>1 DEF Call, pumpVars, lockVars
    <2> HIDE DEF new
    <2>4. \A d \in Callers : call'[d] = IF d = c THEN new ELSE call[d]
      BY <1>0, <2>3
    <2>5. ~call[c].arrived
      BY <2>3 DEF LimitInv, LockedOut
    <2>6. LockedOut'
      BY <2>2, <2>3, <2>4 DEF LimitInv, LockedOut
    <2>7. Counted' = Counted
      BY <2>3 DEF Counted
    <2>8. \A d \in Callers : call[d].arrived => call'[d].arrived
      BY <2>4, <2>5
    <2> QED
      BY <2>2, <2>3, <2>4, <2>6, <2>7, <2>8 DEF LimitInv, WithinLimit
  <1>3. ASSUME NEW c \in Callers, Enter(c) PROVE LockedOut' /\ WithinLimit'
    <2> DEFINE word == WordOf(call[c])
    <2>1. /\ call[c].pc = "queued" /\ writeLock = Free
          /\ UNCHANGED <<arrived, today>>
          /\ ~call[c].arrived
      BY <1>3 DEF Enter, pumpVars, boundVars, LimitInv, LockedOut
    <2>2. \A d \in Callers \ {c} : writeLock # d
      BY <2>1
    <2> HIDE DEF word
    <2>3. CASE call' = Ended(c, "outOfRange") /\ UNCHANGED <<writeLock, budget>>
      <3>1. /\ \A d \in Callers \ {c} : call'[d] = call[d]
            /\ call'[c].pc = "idle" /\ ~call'[c].arrived
        BY <1>0, <2>3 DEF Ended, NoCall
      <3> QED
        BY <2>1, <2>2, <2>3, <3>1, QuietStep
    <2>4. CASE /\ call' = [call EXCEPT ![c].pc = "asking", ![c].word = word]
               /\ writeLock' = c
               /\ UNCHANGED budget
      <3>1. /\ \A d \in Callers \ {c} : call'[d] = call[d]
            /\ call'[c].pc = "asking" /\ call'[c].arrived = call[c].arrived
        BY <1>0, <2>4 DEF CallStates
      <3> QED
        BY <2>1, <2>2, <2>4, <3>1, QuietStep
    <2>5. CASE GoToSend(c, word) /\ budget' = RollDay(budget, today)
      <3>1. CASE /\ AllowsWrite(budget, Limit, today)
                 /\ call' = [call EXCEPT ![c].pc = "sending", ![c].word = word]
                 /\ writeLock' = c
        <4>1. /\ \A d \in Callers \ {c} : call'[d] = call[d]
              /\ call'[c].pc = "sending" /\ call'[c].arrived = call[c].arrived
          BY <1>0, <3>1 DEF CallStates
        <4> QED
          BY <2>1, <2>2, <2>5, <3>1, <4>1, QuietStep
      <3>2. CASE call' = Ended(c, "overLimit") /\ writeLock' = Free
        <4>1. /\ \A d \in Callers \ {c} : call'[d] = call[d]
              /\ call'[c].pc = "idle" /\ ~call'[c].arrived
          BY <1>0, <3>2 DEF Ended, NoCall
        <4> QED
          BY <2>1, <2>2, <2>5, <3>2, <4>1, QuietStep
      <3> QED
        BY <2>5, <3>1, <3>2 DEF GoToSend
    <2> QED
      BY <1>3, <2>3, <2>4, <2>5 DEF Enter, word
  <1>4. ASSUME NEW c \in Callers, AskController(c) \/ Send(c)
        PROVE  LockedOut' /\ WithinLimit'
    <2>1. PICK pc \in {"reading", "onWire"} :
            /\ call' = [call EXCEPT ![c].pc = pc]
            /\ call[c].pc = IF pc = "reading" THEN "asking" ELSE "sending"
      BY <1>4 DEF AskController, Send
    <2>2. UNCHANGED <<arrived, today, budget, writeLock>>
      BY <1>4 DEF AskController, Send, pumpVars, boundVars
    <2>3. /\ writeLock = c /\ ~call[c].arrived
      BY <2>1 DEF LimitInv, LockedOut
    <2>4. /\ \A d \in Callers \ {c} : call'[d] = call[d]
          /\ call'[c].pc = pc /\ call'[c].arrived = call[c].arrived
      BY <1>0, <2>1 DEF CallStates
    <2> QED
      BY <2>1, <2>2, <2>3, <2>4, QuietStep
  <1>5. ASSUME NEW c \in Callers, HoldsAlready(c) \/ AskFails(c)
        PROVE  LockedOut' /\ WithinLimit'
    <2>1. PICK result : call' = Ended(c, result)
      BY <1>5 DEF HoldsAlready, AskFails
    <2>2. /\ call[c].pc = "reading" /\ writeLock' = Free
          /\ UNCHANGED <<arrived, today, budget>>
      BY <1>5 DEF HoldsAlready, AskFails, pumpVars, boundVars
    <2>3. writeLock = c /\ ~call[c].arrived
      BY <2>2 DEF LimitInv, LockedOut
    <2>4. /\ \A d \in Callers \ {c} : call'[d] = call[d]
          /\ call'[c].pc = "idle" /\ ~call'[c].arrived
      BY <1>0, <2>1 DEF Ended, NoCall
    <2> QED
      BY <2>2, <2>3, <2>4, QuietStep
  <1>6. ASSUME NEW c \in Callers, HoldsAnother(c) PROVE LockedOut' /\ WithinLimit'
    <2>1. /\ call[c].pc = "reading" /\ UNCHANGED <<arrived, today>>
          /\ GoToSend(c, call[c].word) /\ budget' = RollDay(budget, today)
      BY <1>6 DEF HoldsAnother, pumpVars, boundVars
    <2>2. writeLock = c /\ ~call[c].arrived
      BY <2>1 DEF LimitInv, LockedOut
    <2>3. CASE /\ AllowsWrite(budget, Limit, today)
               /\ call' = [call EXCEPT ![c].pc = "sending", ![c].word = call[c].word]
               /\ writeLock' = c
      <3>1. /\ \A d \in Callers \ {c} : call'[d] = call[d]
            /\ call'[c].pc = "sending" /\ call'[c].arrived = call[c].arrived
        BY <1>0, <2>3 DEF CallStates
      <3> QED
        BY <2>1, <2>2, <2>3, <3>1, QuietStep
    <2>4. CASE call' = Ended(c, "overLimit") /\ writeLock' = Free
      <3>1. /\ \A d \in Callers \ {c} : call'[d] = call[d]
            /\ call'[c].pc = "idle" /\ ~call'[c].arrived
        BY <1>0, <2>4 DEF Ended, NoCall
      <3> QED
        BY <2>1, <2>2, <2>4, <3>1, QuietStep
    <2> QED
      BY <2>1, <2>3, <2>4 DEF GoToSend
  <1>7. ASSUME NEW c \in Callers, Arrive(c) PROVE LockedOut' /\ WithinLimit'
    <2>1. /\ call[c].pc = "onWire" /\ ~call[c].arrived
          /\ call' = [call EXCEPT ![c].arrived = TRUE]
          /\ arrived'.today = arrived.today + 1
          /\ UNCHANGED <<writeLock, budget, today>>
      BY <1>7 DEF Arrive, lockVars, boundVars
    <2>2. /\ \A d \in Callers \ {c} : call'[d] = call[d]
          /\ call'[c].pc = "onWire" /\ call'[c].arrived
      BY <1>0, <2>1 DEF CallStates
    <2>3. Counted' = Counted
      BY <2>1 DEF Counted
    <2>4. \A d \in Callers : ~call[d].arrived
      BY <2>1 DEF LimitInv, LockedOut
    <2>5. arrived'.today <= Counted + 1
      BY <1>0, <2>1, <2>4 DEF LimitInv, WithinLimit
    <2>6. LockedOut'
      BY <2>1, <2>2 DEF LimitInv, LockedOut
    <2> QED
      BY <2>1, <2>2, <2>3, <2>5, <2>6 DEF LimitInv, WithinLimit
  <1>8. ASSUME NEW c \in Callers,
               Answered(c) \/ AnswerLost(c) \/ CancelledOnWire(c)
        PROVE  LockedOut' /\ WithinLimit'
    <2>1. PICK result \in {"written", "failed", "cancelled"} : call' = Ended(c, result)
      BY <1>8 DEF Answered, AnswerLost, CancelledOnWire, Abandoned
    <2>2. /\ call[c].pc = "onWire" /\ budget' = Recorded(budget, today)
          /\ UNCHANGED <<arrived, today>>
      BY <1>8 DEF Answered, AnswerLost, CancelledOnWire, Abandoned, pumpVars,
         boundVars
    <2> QED
      BY <2>1, <2>2, CountedStep
  <1>9. ASSUME NEW c \in Callers, WriteRefused(c) PROVE LockedOut' /\ WithinLimit'
    <2>1. /\ call[c].pc = "onWire" /\ ~call[c].arrived /\ writeLock' = Free
          /\ UNCHANGED <<arrived, today, budget>>
          /\ call' = Ended(c, "failed")
      BY <1>9 DEF WriteRefused, pumpVars, boundVars
    <2>2. writeLock = c
      BY <2>1 DEF LimitInv, LockedOut
    <2>3. /\ \A d \in Callers \ {c} : call'[d] = call[d]
          /\ call'[c].pc = "idle" /\ ~call'[c].arrived
      BY <1>0, <2>1 DEF Ended, NoCall
    <2> QED
      BY <2>1, <2>2, <2>3, QuietStep
  <1>10. ASSUME NEW c \in Callers, CancelledWaiting(c)
         PROVE  LockedOut' /\ WithinLimit'
    <2>1. /\ call[c].pc \in {"queued", "asking", "reading", "sending"}
          /\ call' = Ended(c, "cancelled")
          /\ writeLock' = IF writeLock = c THEN Free ELSE writeLock
          /\ UNCHANGED <<arrived, today, budget>>
      BY <1>10 DEF CancelledWaiting, pumpVars, boundVars
    <2>2. /\ \A d \in Callers \ {c} : call'[d] = call[d]
          /\ call'[c].pc = "idle" /\ ~call'[c].arrived /\ ~call[c].arrived
      BY <1>0, <2>1 DEF Ended, NoCall, LimitInv, LockedOut
    <2>3. Counted' = Counted
      BY <2>1 DEF Counted
    <2>4. LockedOut'
      BY <2>1, <2>2 DEF LimitInv, LockedOut
    <2>5. \A d \in Callers : call[d].arrived => call'[d].arrived
      BY <2>2
    <2> QED
      BY <2>1, <2>2, <2>3, <2>4, <2>5 DEF LimitInv, WithinLimit
  <1>11. CASE Midnight
    <2>1. /\ today' = today + 1 /\ arrived'.today = 0
          /\ UNCHANGED <<call, writeLock, budget>>
      BY <1>11 DEF Midnight, lockVars, LimitInv, TypeInv, TypeOK
    <2>2. Counted' = 0
      BY <1>0, <2>1, CountedFacts DEF Counted, LimitInv, WithinLimit
    <2> QED
      BY <1>0, <2>1, <2>2 DEF LimitInv, LockedOut, WithinLimit, Budgets
  <1>12. CASE \/ PollStart \/ PollTakesLock \/ PollServed \/ PollRefused
              \/ PollFails \/ UNCHANGED vars
              \/ \E r \in Rows : SwitchAdded(r)
              \/ \E r \in Rows, word \in PanelWords : PanelChange(r, word)
    <2>1. UNCHANGED <<call, writeLock, budget, today, arrived>>
      BY <1>12 DEF PollStart, PollTakesLock, PollServed, PollRefused, PollAnswer,
         PollFails, vars, SwitchAdded, PanelChange, pumpVars, lockVars, boundVars
    <2> QED
      BY <1>1, <2>1
  <1> QED
    BY <1>2, <1>3, <1>4, <1>5, <1>6, <1>7, <1>8, <1>9, <1>10, <1>11, <1>12
    DEF Next

\* No more words reach the EEPROM in a day than the limit allows, for every
\* limit and any number of concurrent calls and midnights.
THEOREM LimitHolds == Spec => []DailyLimitHolds
  <1>1. LimitInv => DailyLimitHolds
    <2> SUFFICES ASSUME LimitInv, Limit > 0 PROVE arrived.today <= Limit
      BY DEF DailyLimitHolds
    <2>1. arrived.today \in Nat /\ Counted \in Nat
      <3>1. budget \in Budgets /\ today \in Nat /\ arrived \in [total : Nat, today : Nat]
        BY DEF LimitInv, TypeInv, TypeOK
      <3> QED
        BY <3>1, CountedFacts DEF Counted
    <2>2. CASE arrived.today <= Counted
      BY <2>1, <2>2 DEF LimitInv, WithinLimit
    <2>3. CASE \E c \in Callers : call[c].arrived /\ arrived.today <= Counted + 1
      <3>1. PICK c \in Callers : call[c].arrived /\ arrived.today <= Counted + 1
        BY <2>3
      <3>2. Counted < Limit
        BY <3>1 DEF LimitInv, WithinLimit, LockedOut
      <3> QED
        BY <2>1, <3>1, <3>2
    <2> QED
      BY <2>2, <2>3 DEF LimitInv, WithinLimit
  <1> QED
    BY <1>1, LimitInit, LimitStep, PTL DEF Spec
----
\* What each step makes of the calls.

Past == {"asking", "reading", "sending", "onWire"}

CallerActs(c) ==
    \/ CallStarts(c) \/ Enter(c) \/ AskController(c)
    \/ HoldsAlready(c) \/ HoldsAnother(c) \/ AskFails(c)
    \/ Send(c) \/ Arrive(c) \/ Answered(c) \/ WriteRefused(c)
    \/ AnswerLost(c) \/ CancelledOnWire(c) \/ CancelledWaiting(c)

\* An ended call is idle, and tells its result.
LEMMA EndedFacts ==
  ASSUME TypeInv, NEW c \in Callers, NEW result, call' = Ended(c, result)
  PROVE  /\ call'[c].pc = "idle" /\ ~call'[c].arrived /\ call'[c].result = result
         /\ \A d \in Callers \ {c} : call'[d] = call[d]
  BY DEF TypeInv, TypeOK, Ended, NoCall

\* A call that only moves on to another step.
LEMMA MovedFacts ==
  ASSUME TypeInv, NEW c \in Callers, NEW pc \in {"reading", "onWire"},
         call' = [call EXCEPT ![c].pc = pc]
  PROVE  /\ call'[c].pc = pc /\ call'[c].row = call[c].row
         /\ call'[c].op = call[c].op /\ call'[c].word = call[c].word
         /\ call'[c].arrived = call[c].arrived /\ call'[c].result = call[c].result
         /\ \A d \in Callers \ {c} : call'[d] = call[d]
  <1>1. call[c] \in CallStates /\ call \in [Callers -> CallStates]
    BY DEF TypeInv, TypeOK
  <1> QED
    BY <1>1 DEF CallStates

\* A call that goes on with its word, to ask or to send.
LEMMA WordedFacts ==
  ASSUME TypeInv, NEW c \in Callers, NEW pc \in {"asking", "sending"}, NEW word,
         call' = [call EXCEPT ![c].pc = pc, ![c].word = word]
  PROVE  /\ call'[c].pc = pc /\ call'[c].row = call[c].row
         /\ call'[c].op = call[c].op /\ call'[c].word = word
         /\ call'[c].arrived = call[c].arrived /\ call'[c].result = call[c].result
         /\ \A d \in Callers \ {c} : call'[d] = call[d]
  <1>1. call[c] \in CallStates /\ call \in [Callers -> CallStates]
    BY DEF TypeInv, TypeOK
  <1> QED
    BY <1>1 DEF CallStates

\* A call that begins: of an entity that exists, and on or off only for a
\* setpoint that has its switch.
LEMMA StartedFacts ==
  ASSUME TypeInv, NEW c \in Callers, CallStarts(c)
  PROVE  /\ call[c].pc = "idle" /\ polled
         /\ call'[c].pc = "queued" /\ ~call'[c].arrived /\ call'[c].result = None
         /\ call'[c].op = "on" => call'[c].row \in OffRows
         /\ call'[c].op # "set" => call'[c].row \in OffRows
         /\ \A d \in Callers \ {c} : call'[d] = call[d]
         /\ UNCHANGED <<pumpVars, pollVars, cacheVars, lockVars, entityVars,
                        historyVars, today, budget>>
  <1>1. PICK r \in Rows, op \in {"set", "on", "off"}, wanted \in Int \cup {None} :
          Call(c, op, r, wanted)
    <2>1. \A r \in Rows : Inputs(r) \subseteq Int
      BY DEF Inputs
    <2>2. PICK r \in Rows :
            \/ \E wanted \in Inputs(r) : Call(c, "set", r, wanted)
            \/ \E op \in {"on", "off"} : Call(c, op, r, None)
      BY DEF CallStarts
    <2>3. CASE \E wanted \in Inputs(r) : Call(c, "set", r, wanted)
      BY <2>1, <2>3
    <2>4. CASE Call(c, "on", r, None) \/ Call(c, "off", r, None)
      BY <2>4
    <2> QED
      BY <2>2, <2>3, <2>4
  <1> DEFINE new == [NoCall EXCEPT !.pc = "queued", !.op = op, !.row = r,
                                   !.wanted = wanted]
  <1>2. /\ new.pc = "queued" /\ ~new.arrived /\ new.result = None
        /\ new.op = op /\ new.row = r
    BY DEF NoCall
  <1>3. call' = [call EXCEPT ![c] = new] /\ call \in [Callers -> CallStates]
    BY <1>1 DEF Call, TypeInv, TypeOK
  <1> HIDE DEF new
  <1>4. call'[c] = new /\ \A d \in Callers \ {c} : call'[d] = call[d]
    BY <1>3
  <1>5. op # "set" => r \in OffRows
    BY <1>1 DEF Call, TypeInv, TypeOK
  <1> QED
    BY <1>1, <1>2, <1>4, <1>5 DEF Call

\* Going to send: it has its word and the lock, or it has ended over the limit.
LEMMA GoToSendFacts ==
  ASSUME TypeInv, NEW c \in Callers, NEW word, GoToSend(c, word)
  PROVE  /\ \A d \in Callers \ {c} : call'[d] = call[d]
         /\ \/ /\ call'[c].pc = "sending" /\ call'[c].row = call[c].row
               /\ call'[c].op = call[c].op /\ call'[c].word = word
               /\ call'[c].arrived = call[c].arrived
               /\ call'[c].result = call[c].result
            \/ /\ call'[c].pc = "idle" /\ ~call'[c].arrived
               /\ call'[c].result = "overLimit"
  <1>1. CASE call' = [call EXCEPT ![c].pc = "sending", ![c].word = word]
    BY <1>1, WordedFacts
  <1>2. CASE call' = Ended(c, "overLimit")
    BY <1>2, EndedFacts
  <1> QED
    BY <1>1, <1>2 DEF GoToSend

----
\* Every arrival is counted. What makes it inductive: the write lock lets only
\* one call be on the wire, so at most one arrival is not counted yet, and every
\* way such a call can end counts it.

TotalCounted ==
    \/ arrived.total <= budget.total
    \/ /\ arrived.total <= budget.total + 1
       /\ \E c \in Callers : call[c].arrived

CountInv == LimitInv /\ TotalCounted

\* A step that counts nothing and ends no call whose word arrived.
LEMMA UncountedStep ==
  ASSUME CountInv, UNCHANGED arrived, budget'.total = budget.total,
         \A c \in Callers : call[c].arrived => call'[c].arrived
  PROVE  TotalCounted'
  BY DEF CountInv, TotalCounted

LEMMA CountStep == CountInv /\ [Next]_vars => CountInv'
  <1> SUFFICES ASSUME CountInv, [Next]_vars PROVE TotalCounted'
    BY LimitStep DEF CountInv
  <1>0. /\ TypeInv /\ LockedOut
        /\ budget.total \in Nat /\ RollDay(budget, today).total = budget.total
        /\ Recorded(budget, today).total = budget.total + 1
        /\ arrived \in [total : Nat, today : Nat]
    BY TotalFacts DEF CountInv, LimitInv, TypeInv, TypeOK
  <1>1. ASSUME NEW c \in Callers, CallStarts(c) PROVE TotalCounted'
    <2>1. ~call[c].arrived
      BY <1>0, <1>1, StartedFacts DEF LockedOut
    <2> QED
      BY <1>0, <1>1, <2>1, StartedFacts, UncountedStep DEF pumpVars
  <1>2. ASSUME NEW c \in Callers, Enter(c) \/ HoldsAnother(c)
        PROVE  TotalCounted'
    <2>1. /\ ~call[c].arrived /\ UNCHANGED arrived
          /\ budget' \in {budget, RollDay(budget, today)}
      BY <1>0, <1>2 DEF Enter, HoldsAnother, LockedOut, pumpVars
    <2>2. \/ \E result : call' = Ended(c, result)
          \/ \E word : call' = [call EXCEPT ![c].pc = "asking", ![c].word = word]
          \/ \E word : GoToSend(c, word)
      BY <1>2 DEF Enter, HoldsAnother
    <2>3. \A d \in Callers \ {c} : call'[d] = call[d]
      <3>1. CASE \E result : call' = Ended(c, result)
        BY <1>0, <3>1, EndedFacts
      <3>2. CASE \E word : call' = [call EXCEPT ![c].pc = "asking", ![c].word = word]
        BY <1>0, <3>2, WordedFacts
      <3>3. CASE \E word : GoToSend(c, word)
        BY <1>0, <3>3, GoToSendFacts
      <3> QED
        BY <2>2, <3>1, <3>2, <3>3
    <2> QED
      BY <1>0, <2>1, <2>3, UncountedStep
  <1>3. ASSUME NEW c \in Callers, AskController(c) \/ Send(c)
        PROVE  TotalCounted'
    <2>1. UNCHANGED <<arrived, budget>>
      BY <1>3 DEF AskController, Send, pumpVars
    <2>2. PICK pc \in {"reading", "onWire"} : call' = [call EXCEPT ![c].pc = pc]
      BY <1>3 DEF AskController, Send
    <2>3. \A d \in Callers : call'[d].arrived = call[d].arrived
      BY <1>0, <2>2, MovedFacts
    <2> QED
      BY <2>1, <2>3, UncountedStep
  <1>4. ASSUME NEW c \in Callers,
               \/ HoldsAlready(c) \/ AskFails(c) \/ WriteRefused(c)
               \/ CancelledWaiting(c)
        PROVE  TotalCounted'
    <2>1. ~call[c].arrived /\ UNCHANGED <<arrived, budget>>
      BY <1>0, <1>4 DEF HoldsAlready, AskFails, WriteRefused, CancelledWaiting,
         LockedOut, pumpVars
    <2>2. PICK result : call' = Ended(c, result)
      BY <1>4 DEF HoldsAlready, AskFails, WriteRefused, CancelledWaiting
    <2> QED
      BY <1>0, <2>1, <2>2, EndedFacts, UncountedStep
  <1>5. ASSUME NEW c \in Callers, Arrive(c) PROVE TotalCounted'
    <2>1. /\ call[c].pc = "onWire" /\ ~call[c].arrived
          /\ call' = [call EXCEPT ![c].arrived = TRUE]
          /\ arrived'.total = arrived.total + 1 /\ UNCHANGED budget
      BY <1>5 DEF Arrive
    <2>2. call'[c].arrived
      BY <1>0, <2>1 DEF TypeInv, TypeOK, CallStates
    <2>3. arrived.total <= budget.total
      BY <1>0, <2>1 DEF CountInv, TotalCounted, LockedOut
    <2> QED
      BY <1>0, <2>1, <2>2, <2>3 DEF TotalCounted
  <1>6. ASSUME NEW c \in Callers,
               Answered(c) \/ AnswerLost(c) \/ CancelledOnWire(c)
        PROVE  TotalCounted'
    <2>1. UNCHANGED arrived /\ budget' = Recorded(budget, today)
      BY <1>6 DEF Answered, AnswerLost, CancelledOnWire, Abandoned, pumpVars
    <2>2. arrived.total <= budget.total + 1
      BY <1>0 DEF CountInv, TotalCounted
    <2> QED
      BY <1>0, <2>1, <2>2 DEF TotalCounted
  <1>7. CASE Midnight
    BY <1>7 DEF Midnight, CountInv, TotalCounted, LimitInv, TypeInv, TypeOK
  <1>8. CASE \/ PollStart \/ PollTakesLock \/ PollServed \/ PollRefused
             \/ PollFails \/ UNCHANGED vars
             \/ \E r \in Rows : SwitchAdded(r)
             \/ \E r \in Rows, word \in PanelWords : PanelChange(r, word)
    <2>1. UNCHANGED <<call, budget, arrived>>
      BY <1>8 DEF PollStart, PollTakesLock, PollServed, PollRefused, PollAnswer,
         PollFails, vars, SwitchAdded, PanelChange, pumpVars
    <2> QED
      BY <2>1, UncountedStep
  <1> QED
    BY <1>1, <1>2, <1>3, <1>4, <1>5, <1>6, <1>7, <1>8 DEF Next

\* Every word that reached the EEPROM is counted, for any number of callers: the
\* one that is not counted yet is the one whose answer is still out.
THEOREM ArrivalsAreCounted == Spec => []EveryArrivalIsCounted
  <1>1. Init => CountInv
    BY LimitInit DEF CountInv, TotalCounted, Init, NewBudget
  <1>2. CountInv => EveryArrivalIsCounted
    <2> SUFFICES ASSUME CountInv PROVE EveryArrivalIsCounted
      OBVIOUS
    <2> DEFINE out == {c \in Callers : call[c].arrived}
    <2>1. budget.total \in Nat /\ arrived.total \in Nat
      BY DEF CountInv, LimitInv, TypeInv, TypeOK, Budgets
    <2>2. out = {} \/ out = {writeLock}
      BY DEF CountInv, LimitInv, LockedOut
    <2>3. CASE out = {}
      <3>1. Cardinality(out) = 0
        BY <2>3, FS_EmptySet
      <3>2. arrived.total <= budget.total
        BY <2>3 DEF CountInv, TotalCounted
      <3> QED
        BY <2>1, <3>1, <3>2 DEF EveryArrivalIsCounted
    <2>4. CASE out = {writeLock}
      <3>1. Cardinality(out) = 1
        BY <2>4, FS_Singleton
      <3> QED
        BY <2>1, <3>1 DEF CountInv, TotalCounted, EveryArrivalIsCounted
    <2> QED
      BY <2>2, <2>3, <2>4
  <1> QED
    BY <1>1, <1>2, CountStep, PTL DEF Spec

----
\* Rows change by a whole poll, an answered write or a kept setting.

PollPublishes ==
    /\ poll.pc = "reading" /\ poll'.pc = "idle"
    /\ \A b \in Bands : b = poll.band \/ served[b] # "unread"
    /\ SystemBand = poll.band \/ served[SystemBand] = "served"

\* A poll changes a row only with the answer of its last band, when every band
\* answered and the system band was served.
LEMMA WholePoll ==
  ASSUME RowInv, NEW answer \in {"served", "refused"}, PollAnswer(answer), row' # row
  PROVE  PollPublishes
  <1> DEFINE b == poll.band
             answers == [served EXCEPT ![b] = answer]
             words == [r \in Rows |-> IF BandOf[r] = b /\ answer = "served"
                                      THEN mem[r] ELSE snap[r]]
             vers == [r \in Rows |-> IF BandOf[r] = b /\ answer = "served"
                                     THEN ver[r] ELSE snapVer[r]]
  <1>1. /\ poll.pc = "reading" /\ b \in Bands
        /\ served \in [Bands -> {"unread", "served", "refused"}]
        /\ \A c \in Bands : c < b => served[c] # "unread"
    BY DEF RowInv, TypeInv, TypeOK, ReadingsAreNewer, PollAnswer
  <1>2. /\ b = NumBands /\ PollOver
        /\ answers[SystemBand] # "refused"
    BY DEF PollAnswer, KeepRows
  <1>3. poll'.pc = "idle"
    BY <1>2 DEF PollOver
  <1>4. \A c \in Bands : c = b \/ c < b
    BY <1>2 DEF Bands
  <1>5. \A c \in Bands : c = b \/ served[c] # "unread"
    BY <1>1, <1>4
  <1>6. SystemBand = b \/ served[SystemBand] = "served"
    BY <1>1, <1>2, <1>5
  <1> QED
    BY <1>1, <1>3, <1>5, <1>6 DEF PollPublishes

\* Rows change together at the end of a whole poll, or one at a time by an
\* answered write or the kept setting of a switch, on every pump.
THEOREM PollsPublishWhole == Spec => OnlyAWholePollPublishes
  <1> DEFINE Told == \A r \in Rows : row'[r] # row[r] =>
                 \/ \E c \in Callers : /\ call[c].row = r
                                       /\ call[c].pc = "onWire"
                                       /\ call'[c].result = "written"
                 \/ r \in restored' \ restored
                 \/ PollPublishes
  <1>1. RowInv /\ [Next]_vars => [Told]_vars
    <2> SUFFICES ASSUME RowInv, Next PROVE Told
      OBVIOUS
    <2>1. CASE PollServed \/ PollRefused
      BY <2>1, WholePoll DEF PollServed, PollRefused
    <2>2. ASSUME NEW r \in Rows, SwitchAdded(r) PROVE Told
      <3>1. /\ r \in restored' \ restored
            /\ row' = [row EXCEPT ![r].last = Kept[r]] \/ row' = row
        BY <2>2 DEF SwitchAdded
      <3>2. \A q \in Rows \ {r} : row'[q] = row[q]
        BY <3>1 DEF RowInv, TypeInv, TypeOK
      <3> QED
        BY <3>1, <3>2
    <2>3. ASSUME NEW c \in Callers, Answered(c) PROVE Told
      <3>1. /\ call[c].pc = "onWire" /\ call' = Ended(c, "written")
            /\ row' = [row EXCEPT ![call[c].row] = WrittenTo(@, call[c].word)]
        BY <2>3 DEF Answered
      <3>2. call'[c].result = "written"
        BY <3>1, EndedFacts DEF RowInv
      <3>3. \A q \in Rows : q # call[c].row => row'[q] = row[q]
        BY <3>1 DEF RowInv, TypeInv, TypeOK
      <3> QED
        BY <3>1, <3>2, <3>3
    <2>4. ASSUME NEW c \in Callers, CallerActs(c), ~Answered(c) PROVE row' = row
      <3>1. CASE CallStarts(c)
        BY <3>1, StartedFacts DEF RowInv, cacheVars
      <3> QED
        BY <2>4, <3>1 DEF CallerActs, Enter, AskController, HoldsAlready,
           HoldsAnother, AskFails, Send, Arrive, WriteRefused, AnswerLost,
           CancelledOnWire, Abandoned, CancelledWaiting, cacheVars
    <2>5. CASE \/ PollStart \/ PollTakesLock \/ PollFails \/ Midnight
               \/ \E r \in Rows, word \in PanelWords : PanelChange(r, word)
      BY <2>5 DEF PollStart, PollTakesLock, PollFails, Midnight, PanelChange,
         cacheVars
    <2> QED
      BY <2>1, <2>2, <2>3, <2>4, <2>5 DEF Next, CallerActs
  <1>2. [Told]_vars => [\A r \in Rows : row'[r] # row[r] =>
         \/ \E c \in Callers : /\ call[c].row = r
                               /\ call[c].pc = "onWire"
                               /\ call'[c].result = "written"
         \/ r \in restored' \ restored
         \/ /\ poll.pc = "reading" /\ poll'.pc = "idle"
            /\ \A b \in Bands : b = poll.band \/ served[b] # "unread"
            /\ SystemBand = poll.band \/ served[SystemBand] = "served"]_vars
    BY DEF PollPublishes
  <1> QED
    BY <1>1, <1>2, RowInit, RowStep, PTL DEF Spec, OnlyAWholePollPublishes

----
\* Success means held.

\* A call under way has no result yet.
NoResultYet == \A c \in Callers : call[c].pc # "idle" => call[c].result = None

ResultInv == TypeInv /\ NoResultYet

HeldOrBrought(c) ==
    /\ call[c].pc # "idle"
    /\ call'[c].result \in {"written", "unchanged"}
    => \/ call[c].arrived
       \/ mem[call[c].row] =
            (IF call[c].word = None THEN WordOf(call[c]) ELSE call[c].word)

LEMMA ResultStep ==
  ResultInv /\ [Next]_vars =>
    NoResultYet' /\ (UNCHANGED vars \/ \A c \in Callers : HeldOrBrought(c))
  <1> SUFFICES ASSUME ResultInv, [Next]_vars
               PROVE  NoResultYet' /\ \A c \in Callers : HeldOrBrought(c)
    OBVIOUS
  <1>0. TypeInv /\ NoResultYet
    BY DEF ResultInv
  <1>1. CASE UNCHANGED call
    BY <1>0, <1>1 DEF NoResultYet, HeldOrBrought
  \* It is enough to look at the caller that moves.
  <1>2. ASSUME NEW c \in Callers, \A d \in Callers \ {c} : call'[d] = call[d],
               call'[c].pc # "idle" => call'[c].result = None,
               HeldOrBrought(c)
        PROVE  NoResultYet' /\ \A d \in Callers : HeldOrBrought(d)
    BY <1>0, <1>2 DEF NoResultYet, HeldOrBrought
  <1>3. ASSUME NEW c \in Callers, CallStarts(c)
        PROVE  NoResultYet' /\ \A d \in Callers : HeldOrBrought(d)
    BY <1>0, <1>2, <1>3, StartedFacts DEF HeldOrBrought
  <1>4. ASSUME NEW c \in Callers,
               NEW result \in {"outOfRange", "overLimit", "fault", "failed",
                               "cancelled"},
               call' = Ended(c, result)
        PROVE  NoResultYet' /\ \A d \in Callers : HeldOrBrought(d)
    BY <1>0, <1>2, <1>4, EndedFacts DEF HeldOrBrought
  <1>5. ASSUME NEW c \in Callers, NEW word, call[c].pc # "idle", GoToSend(c, word)
        PROVE  NoResultYet' /\ \A d \in Callers : HeldOrBrought(d)
    <2>1. /\ \A d \in Callers \ {c} : call'[d] = call[d]
          /\ \/ call'[c].result = None
             \/ call'[c].pc = "idle" /\ call'[c].result = "overLimit"
      BY <1>0, <1>5, GoToSendFacts DEF NoResultYet
    <2> QED
      BY <1>2, <2>1 DEF HeldOrBrought
  <1>6. ASSUME NEW c \in Callers, Enter(c)
        PROVE  NoResultYet' /\ \A d \in Callers : HeldOrBrought(d)
    <2>1. call[c].pc = "queued"
      BY <1>6 DEF Enter
    <2>2. ASSUME NEW word, call' = [call EXCEPT ![c].pc = "asking", ![c].word = word]
          PROVE  NoResultYet' /\ \A d \in Callers : HeldOrBrought(d)
      <3>1. call'[c].result = None /\ \A d \in Callers \ {c} : call'[d] = call[d]
        BY <1>0, <2>1, <2>2, WordedFacts DEF NoResultYet
      <3> QED
        BY <1>2, <3>1 DEF HeldOrBrought
    <2> QED
      BY <1>4, <1>5, <1>6, <2>1, <2>2 DEF Enter
  <1>7. ASSUME NEW c \in Callers, AskController(c) \/ Send(c)
        PROVE  NoResultYet' /\ \A d \in Callers : HeldOrBrought(d)
    <2>1. PICK pc \in {"reading", "onWire"} : call' = [call EXCEPT ![c].pc = pc]
      BY <1>7 DEF AskController, Send
    <2>2. call[c].pc # "idle"
      BY <1>7 DEF AskController, Send
    <2>3. call'[c].result = None /\ \A d \in Callers \ {c} : call'[d] = call[d]
      BY <1>0, <2>1, <2>2, MovedFacts DEF NoResultYet
    <2> QED
      BY <1>2, <2>3 DEF HeldOrBrought
  <1>8. ASSUME NEW c \in Callers, HoldsAlready(c)
        PROVE  NoResultYet' /\ \A d \in Callers : HeldOrBrought(d)
    <2>1. /\ call[c].pc = "reading" /\ mem[call[c].row] = call[c].word
          /\ call' = Ended(c, "fault") \/ call' = Ended(c, "unchanged")
      BY <1>8 DEF HoldsAlready
    <2>2. call[c].word # None
      BY <1>0, <2>1 DEF TypeInv, CallsWellFormed, CallWellFormed
    <2> QED
      BY <1>0, <1>2, <2>1, <2>2, EndedFacts DEF HeldOrBrought
  <1>9. ASSUME NEW c \in Callers, HoldsAnother(c)
        PROVE  NoResultYet' /\ \A d \in Callers : HeldOrBrought(d)
    BY <1>5, <1>9 DEF HoldsAnother
  <1>10. ASSUME NEW c \in Callers, Arrive(c)
         PROVE  NoResultYet' /\ \A d \in Callers : HeldOrBrought(d)
    <2>1. call[c].pc = "onWire" /\ call' = [call EXCEPT ![c].arrived = TRUE]
      BY <1>10 DEF Arrive
    <2>2. /\ call'[c].result = call[c].result
          /\ \A d \in Callers \ {c} : call'[d] = call[d]
      BY <1>0, <2>1 DEF TypeInv, TypeOK, CallStates
    <2> QED
      BY <1>0, <1>2, <2>1, <2>2 DEF HeldOrBrought, NoResultYet
  <1>11. ASSUME NEW c \in Callers, Answered(c)
         PROVE  NoResultYet' /\ \A d \in Callers : HeldOrBrought(d)
    <2>1. call[c].arrived /\ call' = Ended(c, "written")
      BY <1>11 DEF Answered
    <2> QED
      BY <1>0, <1>2, <2>1, EndedFacts DEF HeldOrBrought
  <1>12. ASSUME NEW c \in Callers,
                \/ AskFails(c) \/ WriteRefused(c) \/ AnswerLost(c)
                \/ CancelledOnWire(c) \/ CancelledWaiting(c)
         PROVE  NoResultYet' /\ \A d \in Callers : HeldOrBrought(d)
    BY <1>4, <1>12 DEF AskFails, WriteRefused, AnswerLost, CancelledOnWire,
       Abandoned, CancelledWaiting
  <1>13. CASE \/ PollStart \/ PollTakesLock \/ PollServed \/ PollRefused
              \/ PollFails \/ Midnight \/ UNCHANGED vars
              \/ \E r \in Rows : SwitchAdded(r)
              \/ \E r \in Rows, word \in PanelWords : PanelChange(r, word)
    <2>1. UNCHANGED call
      BY <1>13 DEF PollStart, PollTakesLock, PollServed, PollRefused, PollAnswer,
         PollFails, Midnight, vars, SwitchAdded, PanelChange
    <2> QED
      BY <1>1, <2>1
  <1> QED
    BY <1>3, <1>6, <1>7, <1>8, <1>9, <1>10, <1>11, <1>12, <1>13 DEF Next

\* A call that ends well found its word at the controller or brought it there,
\* whatever the cache said and whoever was at the panel, for any callers.
THEOREM SuccessIsTrue == Spec => SuccessMeansHeld
  <1>1. Init => ResultInv
    BY TypeInit DEF Init, ResultInv, NoResultYet, NoCall
  <1>2. ResultInv /\ [Next]_vars => ResultInv'
    BY TypeStep, ResultStep DEF ResultInv
  <1>3. ResultInv /\ [Next]_vars => [\A c \in Callers :
         /\ call[c].pc # "idle"
         /\ call'[c].result \in {"written", "unchanged"}
         => \/ call[c].arrived
            \/ mem[call[c].row] =
                 (IF call[c].word = None THEN WordOf(call[c]) ELSE call[c].word)]_vars
    BY ResultStep DEF HeldOrBrought
  <1> QED
    BY <1>1, <1>2, <1>3, PTL DEF Spec, SuccessMeansHeld

----
\* What a poll read, and what its rows become.

\* The poll under way has read the register of r and nobody wrote it since.
Current(r) ==
    /\ poll.pc # "idle"
    /\ r \notin written
    /\ BandOf[r] < poll.band
    /\ served[BandOf[r]] = "served"

\* A word the poll may publish for r with its next answer.
Reading(r, word) == word = mem[r] \/ (Current(r) /\ word = snap[r])

ReadInv == RowInv /\ LimitInv

LEMMA ReadInit == Init => ReadInv
  BY RowInit, LimitInit DEF ReadInv

LEMMA ReadStep == ReadInv /\ [Next]_vars => ReadInv'
  BY RowStep, LimitStep DEF ReadInv

\* An answer is kept for later, or published: a row written meanwhile stays, a
\* refused band disturbs, every other row takes a reading.
LEMMA PollAnswerReads ==
  ASSUME ReadInv, NEW answer \in {"served", "refused"}, PollAnswer(answer)
  PROVE  /\ UNCHANGED <<mem, settled, written, call, restored>>
         /\ \A r \in Rows : Current(r)' => Reading(r, snap'[r])
         /\ \/ UNCHANGED <<row, polled, disturbed>>
            \/ /\ polled' /\ (disturbed => disturbed')
               /\ \A r \in Rows :
                    \/ r \in written /\ row'[r] = row[r]
                    \/ disturbed' /\ row'[r] = Absent(row[r])
                    \/ \E word \in Words \cup {None} :
                         /\ Reading(r, word)
                         /\ row'[r] = Applied(row[r], word)
  <1> DEFINE b == poll.band
             answers == [served EXCEPT ![b] = answer]
             words == [r \in Rows |-> IF BandOf[r] = b /\ answer = "served"
                                      THEN mem[r] ELSE snap[r]]
             vers == [r \in Rows |-> IF BandOf[r] = b /\ answer = "served"
                                     THEN ver[r] ELSE snapVer[r]]
  <1>1. /\ b \in Bands /\ poll.pc = "reading"
        /\ served \in [Bands -> {"unread", "served", "refused"}]
        /\ mem \in [Rows -> Words] /\ snap \in [Rows -> Words \cup {None}]
        /\ \A c \in Bands : c < b => served[c] # "unread"
    BY DEF ReadInv, RowInv, TypeInv, TypeOK, ReadingsAreNewer, PollAnswer
  <1>2. UNCHANGED <<mem, settled, written, call, restored>>
    BY DEF PollAnswer, pumpVars
  <1>3. \A r \in Rows :
          /\ r \notin written
          /\ (BandOf[r] < b \/ BandOf[r] = b)
          /\ answers[BandOf[r]] = "served"
          => Reading(r, words[r])
    BY <1>1 DEF Reading, Current
  <1>4. CASE /\ b < NumBands
             /\ poll' = [pc |-> "asking", band |-> b + 1]
             /\ served' = answers /\ snap' = words /\ KeepRows
    <2>1. \A c \in Bands : c < b + 1 => (c < b \/ c = b)
      BY <1>1 DEF Bands
    <2>2. poll'.band = b + 1
      BY <1>4
    <2>3. \A r \in Rows : Current(r)' => Reading(r, snap'[r])
      <3> SUFFICES ASSUME NEW r \in Rows, Current(r)' PROVE Reading(r, snap'[r])
        OBVIOUS
      <3>1. r \notin written /\ answers[BandOf[r]] = "served"
        BY <1>2, <1>4 DEF Current
      <3>2. BandOf[r] < b \/ BandOf[r] = b
        BY <2>1, <2>2 DEF Current
      <3>3. snap'[r] = words[r]
        BY <1>4
      <3> HIDE DEF words, answers, b
      <3> QED
        BY <1>3, <3>1, <3>2, <3>3
    <2> QED
      BY <1>2, <1>4, <2>3 DEF KeepRows
  <1>5. CASE b = NumBands /\ PollOver
    <2>1. \A r \in Rows : ~Current(r)'
      BY <1>5 DEF PollOver, Current
    <2>2. CASE KeepRows
      BY <1>2, <2>1, <2>2 DEF KeepRows
    <2>3. CASE Publish(answers, words, vers)
      <3>1. \A r \in Rows : BandOf[r] < b \/ BandOf[r] = b
        BY <1>1, <1>5 DEF Bands
      <3>2. \A r \in Rows : answers[BandOf[r]] \in {"served", "refused"}
        BY <1>1, <3>1
      <3> HIDE DEF words, answers, vers, b
      <3>3. /\ polled' /\ (disturbed => disturbed')
            /\ \A r \in Rows : answers[BandOf[r]] = "refused" => disturbed'
            /\ \A r \in Rows : row'[r] =
                 IF r \in written THEN row[r]
                 ELSE IF answers[BandOf[r]] = "refused" THEN Absent(row[r])
                 ELSE Applied(row[r], words[r])
        BY <2>3 DEF Publish, Superseded
      <3>4. ASSUME NEW r \in Rows, r \notin written, answers[BandOf[r]] = "served"
            PROVE  words[r] \in Words \cup {None} /\ Reading(r, words[r])
        <4>1. words[r] \in Words \cup {None}
          BY <1>1 DEF words
        <4> QED
          BY <1>3, <3>1, <3>4, <4>1
      <3>5. ASSUME NEW r \in Rows
            PROVE  \/ r \in written /\ row'[r] = row[r]
                   \/ disturbed' /\ row'[r] = Absent(row[r])
                   \/ \E word \in Words \cup {None} :
                        /\ Reading(r, word)
                        /\ row'[r] = Applied(row[r], word)
        BY <3>2, <3>3, <3>4
      <3> QED
        BY <1>2, <2>1, <3>3, <3>5
    <2> QED
      BY <1>5, <2>2, <2>3 DEF PollAnswer
  <1> QED
    BY <1>4, <1>5 DEF PollAnswer

----
\* What a setpoint switch restores. What makes it inductive: as long as nothing
\* but confirmed number writes moved a register, the register, the row's last
\* value and a reading of the poll under way are all the number of the last such
\* write, the off sentinel, or the word of the one call whose answer is out.

Reached(c, r) == call[c].arrived /\ call[c].row = r

Newest(r, word) ==
    \/ word \in {settled[r], Off}
    \/ \E c \in Callers : Reached(c, r) /\ word = call[c].word

NewestRows ==
    \A r \in Rows : settled[r] # None =>
        /\ Newest(r, mem[r])
        /\ Newest(r, row[r].last)
        /\ Current(r) => Newest(r, snap[r])

\* A row with a setpoint switch has no related setpoint: its bounds are fixed.
FixedClamp(word, r) == Larger(FixedMin[r], Smaller(word, FixedMax[r]))

\* A call that turns a setpoint on carries the newest number.
OnCall(c) ==
    /\ call[c].pc # "idle" /\ call[c].op # "set" => call[c].row \in OffRows
    /\ /\ call[c].pc \in Past /\ ~call[c].arrived /\ call[c].op = "on"
       /\ settled[call[c].row] # None
       => call[c].word = FixedClamp(settled[call[c].row], call[c].row)

OnCalls == \A c \in Callers : OnCall(c)

SwitchInv == ReadInv /\ NewestRows /\ OnCalls

RestoresNewest(c) ==
    /\ ~call[c].arrived /\ call'[c].arrived
    /\ call[c].op = "on"
    /\ settled[call[c].row] # None
    => mem'[call[c].row] = Clamped(settled[call[c].row], call[c].row)

SwitchKept == NewestRows' /\ OnCalls' /\ \A c \in Callers : RestoresNewest(c)

LEMMA OffRowsUnbound ==
  ASSUME NEW r \in OffRows, NEW word \in Int
  PROVE  /\ DynMin[r] = None /\ DynMax[r] = None
         /\ LowBound(r) = FixedMin[r]
         /\ Clamped(word, r) = FixedClamp(word, r)
  <1>1. r \in Rows
    OBVIOUS
  <1>2. DynMin[r] = None
    <2>1. \A l \in Rows : DynMin[r] # l
      BY <1>1, PairAssumption
    <2> QED
      BY <1>1, <2>1
  <1>3. DynMax[r] = None
    <2>1. \A h \in Rows : DynMax[r] # h
      BY <1>1, PairAssumption
    <2> QED
      BY <1>1, <2>1
  <1> QED
    BY <1>2, <1>3 DEF Clamped, LowBound, HighBound, FixedClamp

\* A step of a call whose word has not reached the EEPROM, and does not now.
LEMMA QuietCaller ==
  ASSUME SwitchInv, NEW c \in Callers,
         UNCHANGED <<mem, settled, pollVars, cacheVars>>,
         \A d \in Callers \ {c} : call'[d] = call[d],
         ~call[c].arrived, ~call'[c].arrived, OnCall(c)'
  PROVE  SwitchKept
  <1>1. \A r \in Rows : Current(r)' => (Current(r) /\ snap'[r] = snap[r])
    BY DEF pollVars, cacheVars, Current
  <1>2. row' = row
    BY DEF cacheVars
  <1>3. \A d \in Callers : call[d].arrived => call'[d] = call[d]
    OBVIOUS
  <1>4. NewestRows'
    BY <1>1, <1>2, <1>3 DEF SwitchInv, NewestRows, Newest, Reached
  <1>5. OnCalls'
    BY DEF SwitchInv, OnCalls, OnCall
  <1>6. \A d \in Callers : RestoresNewest(d)
    BY DEF RestoresNewest
  <1> QED
    BY <1>4, <1>5, <1>6 DEF SwitchKept

\* The write lock is free, or only the holder's call is past it.
LEMMA OneCallPast ==
  ASSUME SwitchInv, NEW c \in Callers, call[c].pc \in Past \/ writeLock = Free
  PROVE  \A d \in Callers \ {c} : call[d].pc \notin Past /\ ~call[d].arrived
  BY DEF SwitchInv, ReadInv, LimitInv, LockedOut, Past

LEMMA SwitchCallerStep ==
  ASSUME SwitchInv, NEW c \in Callers, CallerActs(c), ~Arrive(c), ~Answered(c),
         ~AnswerLost(c), ~CancelledOnWire(c)
  PROVE  SwitchKept
  <1>0. TypeInv /\ LockedOut /\ OnCall(c)
    BY DEF SwitchInv, ReadInv, RowInv, LimitInv, OnCalls
  <1>1. CASE CallStarts(c)
    <2>1. OnCall(c)'
      BY <1>0, <1>1, StartedFacts DEF OnCall, Past
    <2>2. ~call[c].arrived
      BY <1>0, <1>1, StartedFacts DEF LockedOut
    <2> QED
      BY <1>0, <1>1, <2>1, <2>2, StartedFacts, QuietCaller
         DEF pumpVars, historyVars
  <1>2. UNCHANGED <<mem, settled, pollVars, cacheVars>> /\ ~call[c].arrived
    <2>1. CASE CallStarts(c)
      BY <1>0, <2>1, StartedFacts DEF LockedOut, pumpVars, historyVars
    <2> QED
      BY <1>0, <2>1 DEF CallerActs, Enter, AskController, HoldsAlready,
         HoldsAnother, AskFails, Send, WriteRefused, CancelledWaiting,
         LockedOut, pumpVars, historyVars
  <1>3. ASSUME NEW result, call' = Ended(c, result) PROVE SwitchKept
    <2>1. OnCall(c)'
      BY <1>0, <1>3, EndedFacts DEF OnCall, Past
    <2> QED
      BY <1>0, <1>2, <1>3, <2>1, EndedFacts, QuietCaller
  <1>4. ASSUME Enter(c), NEW word, word = WordOf(call[c]),
               call'[c].pc \in Past, call'[c].word = word,
               call'[c].row = call[c].row, call'[c].op = call[c].op,
               call'[c].arrived = call[c].arrived,
               \A d \in Callers \ {c} : call'[d] = call[d]
        PROVE  SwitchKept
    <2>1. /\ call[c].pc = "queued" /\ writeLock = Free
      BY <1>4 DEF Enter
    <2>2. \A d \in Callers : ~call[d].arrived
      BY <1>2, <2>1, OneCallPast
    <2>3. ASSUME call[c].op = "on", settled[call[c].row] # None
          PROVE  word = FixedClamp(settled[call[c].row], call[c].row)
      <3> DEFINE r == call[c].row
      <3>1. r \in OffRows /\ r \in Rows
        BY <1>0, <2>1, <2>3 DEF OnCall
      <3>2. row[r].last \in Int \cup {None} /\ settled[r] \in Int
        BY <1>0, <2>3, <3>1 DEF TypeInv, TypeOK, RowStates
      <3>3. row[r].last = settled[r]
        BY <2>2, <2>3, <3>1, <3>2 DEF SwitchInv, NewestRows, Newest, Reached
      <3>4. word = Clamped(settled[r], r)
        BY <1>4, <2>3, <3>2, <3>3 DEF WordOf, ValueToRestore
      <3> QED
        BY <3>1, <3>2, <3>4, OffRowsUnbound
    <2>4. OnCall(c)'
      BY <1>0, <1>2, <1>4, <2>1, <2>3 DEF OnCall
    <2> QED
      BY <1>2, <1>4, <2>4, QuietCaller
  <1>5. CASE Enter(c)
    <2> DEFINE word == WordOf(call[c])
    <2>1. CASE \E result : call' = Ended(c, result)
      BY <1>3, <2>1
    <2>2. CASE call' = [call EXCEPT ![c].pc = "asking", ![c].word = word]
      BY <1>0, <1>4, <1>5, <2>2, WordedFacts DEF Past
    <2>3. CASE call' = [call EXCEPT ![c].pc = "sending", ![c].word = word]
      BY <1>0, <1>4, <1>5, <2>3, WordedFacts DEF Past
    <2> QED
      BY <1>5, <2>1, <2>2, <2>3 DEF Enter, GoToSend
  <1>6. ASSUME call[c].pc \in Past, call'[c].row = call[c].row,
               call'[c].op = call[c].op, call'[c].word = call[c].word,
               call'[c].arrived = call[c].arrived, call'[c].pc \in Past,
               \A d \in Callers \ {c} : call'[d] = call[d]
        PROVE  SwitchKept
    <2>1. OnCall(c)'
      BY <1>0, <1>2, <1>6 DEF OnCall, Past
    <2> QED
      BY <1>2, <1>6, <2>1, QuietCaller
  <1>7. CASE AskController(c) \/ Send(c)
    <2>1. /\ call[c].pc \in Past
          /\ \E pc \in {"reading", "onWire"} : call' = [call EXCEPT ![c].pc = pc]
      BY <1>7 DEF AskController, Send, Past
    <2> QED
      BY <1>0, <1>6, <2>1, MovedFacts DEF Past
  <1>8. CASE HoldsAnother(c)
    <2>1. call[c].pc \in Past /\ GoToSend(c, call[c].word)
      BY <1>8 DEF HoldsAnother, Past
    <2>2. CASE call' = Ended(c, "overLimit")
      BY <1>3, <2>2
    <2>3. CASE call' = [call EXCEPT ![c].pc = "sending", ![c].word = call[c].word]
      BY <1>0, <1>6, <2>1, <2>3, WordedFacts DEF Past
    <2> QED
      BY <2>1, <2>2, <2>3 DEF GoToSend
  <1>9. CASE HoldsAlready(c) \/ AskFails(c) \/ WriteRefused(c) \/ CancelledWaiting(c)
    BY <1>3, <1>9 DEF HoldsAlready, AskFails, WriteRefused, CancelledWaiting
  <1> QED
    BY <1>1, <1>5, <1>7, <1>8, <1>9 DEF CallerActs

\* The word reaches the EEPROM: a switched on setpoint's is the newest number.
LEMMA SwitchArrive ==
  ASSUME SwitchInv, NEW c \in Callers, Arrive(c)
  PROVE  SwitchKept
  <1> DEFINE r == call[c].row
             w == call[c].word
  <1>1. /\ call[c].pc = "onWire" /\ ~call[c].arrived
        /\ mem' = [mem EXCEPT ![r] = w]
        /\ call' = [call EXCEPT ![c].arrived = TRUE]
        /\ UNCHANGED <<pollVars, cacheVars, settled>>
    BY DEF Arrive, historyVars
  <1>2. /\ call \in [Callers -> CallStates] /\ mem \in [Rows -> Words]
        /\ r \in Rows /\ settled \in [Rows -> Int \cup {None}]
        /\ call[c].op # "set" => r \in OffRows
        /\ call[c].op = "on" /\ settled[r] # None => w = FixedClamp(settled[r], r)
    BY <1>1 DEF SwitchInv, ReadInv, RowInv, TypeInv, TypeOK, CallsWellFormed,
       CallWellFormed, OnCalls, OnCall, Past
  <1>3. /\ call'[c].arrived /\ call'[c].row = r /\ call'[c].op = call[c].op
        /\ call'[c].pc = call[c].pc /\ call'[c].word = w
        /\ \A d \in Callers \ {c} : call'[d] = call[d]
    BY <1>1, <1>2 DEF CallStates
  <1>4. mem'[r] = w /\ \A q \in Rows \ {r} : mem'[q] = mem[q]
    BY <1>1, <1>2
  <1> HIDE DEF r, w
  <1>5. \A d \in Callers : call[d].arrived =>
          /\ call'[d].arrived /\ call'[d].row = call[d].row
          /\ call'[d].word = call[d].word
    BY <1>1, <1>3
  <1>6. NewestRows'
    <2> SUFFICES ASSUME NEW q \in Rows, settled'[q] # None
                 PROVE  (/\ Newest(q, mem[q]) /\ Newest(q, row[q].last)
                         /\ Current(q) => Newest(q, snap[q]))'
      BY DEF NewestRows
    <2>1. /\ Newest(q, mem[q]) /\ Newest(q, row[q].last)
          /\ Current(q) => Newest(q, snap[q])
          /\ UNCHANGED <<settled, row, snap, poll, served, written>>
      BY <1>1 DEF SwitchInv, NewestRows, pollVars, cacheVars
    <2>2. Newest(q, mem[q])'
      <3>1. CASE q = r
        BY <1>3, <1>4, <3>1 DEF Newest, Reached, r, w
      <3>2. CASE q # r
        BY <1>4, <1>5, <2>1, <3>2 DEF Newest, Reached
      <3> QED
        BY <3>1, <3>2
    <2>3. Newest(q, row[q].last)'
      BY <1>5, <2>1 DEF Newest, Reached
    <2>4. (Current(q) => Newest(q, snap[q]))'
      BY <1>5, <2>1 DEF Newest, Reached, Current
    <2> QED
      BY <2>2, <2>3, <2>4
  <1>7. OnCalls'
    <2>1. settled' = settled /\ OnCalls
      BY <1>1 DEF SwitchInv
    <2> QED
      BY <1>3, <2>1 DEF OnCalls, OnCall, r
  <1>8. ASSUME NEW d \in Callers PROVE RestoresNewest(d)
    <2>1. CASE d # c
      BY <1>3, <2>1 DEF RestoresNewest
    <2>2. CASE d = c
      <3> SUFFICES ASSUME call[c].op = "on", settled[r] # None
                   PROVE  mem'[r] = Clamped(settled[r], r)
        BY <2>2 DEF RestoresNewest, r
      <3>1. r \in OffRows /\ settled[r] \in Int
        BY <1>2
      <3>2. w = FixedClamp(settled[r], r)
        BY <1>2
      <3> QED
        BY <1>4, <3>1, <3>2, OffRowsUnbound
    <2> QED
      BY <2>1, <2>2
  <1> QED
    BY <1>6, <1>7, <1>8 DEF SwitchKept

\* The call on the wire ends, answered or not: what its row shows is the newest
\* number, or the row no longer has one.
LEMMA SwitchWireEnds ==
  ASSUME SwitchInv, NEW c \in Callers,
         Answered(c) \/ AnswerLost(c) \/ CancelledOnWire(c)
  PROVE  SwitchKept
  <1>1. /\ call[c].pc = "onWire"
        /\ \E result : call' = Ended(c, result)
        /\ UNCHANGED <<mem, poll, served, snap>>
    BY DEF Answered, AnswerLost, CancelledOnWire, Abandoned, pumpVars, pollVars
  <1>a. /\ call[c].row \in Rows /\ call[c].word \in Int \cup {Off}
        /\ row \in [Rows -> RowStates] /\ settled \in [Rows -> Int \cup {None}]
    BY <1>1 DEF SwitchInv, ReadInv, RowInv, TypeInv, TypeOK, CallsWellFormed,
       CallWellFormed
  <1>b. PICK r \in Rows, w \in Int \cup {Off} : r = call[c].row /\ w = call[c].word
    BY <1>a
  <1>2. /\ r = call[c].row /\ w = call[c].word
        /\ row \in [Rows -> RowStates] /\ settled \in [Rows -> Int \cup {None}]
    BY <1>a, <1>b
  <1>3. \A d \in Callers : ~call'[d].arrived /\ call'[d].pc \notin Past
    <2>1. \A d \in Callers \ {c} : ~call[d].arrived /\ call[d].pc \notin Past
      BY <1>1, OneCallPast DEF Past
    <2>2. TypeInv
      BY DEF SwitchInv, ReadInv, RowInv
    <2> QED
      BY <1>1, <2>1, <2>2, EndedFacts DEF Past
  <1>4. OnCalls'
    <2>1. TypeInv
      BY DEF SwitchInv, ReadInv, RowInv
    <2>2. \A d \in Callers : d = c \/ call'[d] = call[d]
      BY <1>1, <2>1, EndedFacts
    <2>3. call'[c].pc = "idle"
      BY <1>1, <2>1, EndedFacts
    <2> QED
      BY <1>3, <2>2, <2>3 DEF SwitchInv, OnCalls, OnCall
  <1>5. \A d \in Callers : RestoresNewest(d)
    BY <1>3 DEF RestoresNewest
  \* Of another row nothing changed, and nothing but its number was there.
  <1>6. ASSUME NEW q \in Rows, q # r, settled'[q] # None
        PROVE  (/\ Newest(q, mem[q]) /\ Newest(q, row[q].last)
                /\ Current(q) => Newest(q, snap[q]))'
    <2>1. settled'[q] = settled[q] /\ row'[q] = row[q]
      BY <1>2, <1>6 DEF Answered, AnswerLost, CancelledOnWire, Abandoned, cacheVars
    <2>2. Current(q)' => Current(q)
      BY <1>1 DEF Answered, AnswerLost, CancelledOnWire, Abandoned, cacheVars,
         Current
    <2>3. \A d \in Callers : ~Reached(d, q)
      BY <1>1, <1>2, <1>6, OneCallPast DEF Reached, Past
    <2>4. /\ mem[q] \in {settled[q], Off} /\ row[q].last \in {settled[q], Off}
          /\ Current(q) => snap[q] \in {settled[q], Off}
      BY <1>6, <2>1, <2>3 DEF SwitchInv, NewestRows, Newest
    <2> QED
      BY <1>1, <2>1, <2>2, <2>4 DEF Newest
  <1>7. ASSUME settled'[r] # None
        PROVE  (/\ Newest(r, mem[r]) /\ Newest(r, row[r].last)
                /\ Current(r) => Newest(r, snap[r]))'
    <2>1. CASE AnswerLost(c) \/ CancelledOnWire(c)
      BY <1>2, <1>7, <2>1 DEF AnswerLost, CancelledOnWire, Abandoned
    <2>2. CASE Answered(c)
      <3>1. /\ row' = [row EXCEPT ![r] = WrittenTo(@, w)]
            /\ r \in written'
            /\ settled' = IF w = Off THEN settled
                          ELSE [settled EXCEPT ![r] = IF mem[r] = w THEN w ELSE None]
        BY <1>2, <2>2 DEF Answered
      <3>2. row'[r] = WrittenTo(row[r], w) /\ ~Current(r)'
        BY <1>2, <3>1 DEF Current
      <3>3. \A d \in Callers : Reached(d, r) => call[d].word = w
        BY <1>1, <1>2, OneCallPast DEF Reached, Past
      <3>4. CASE w = Off
        <4>1. settled' = settled /\ row'[r].last = row[r].last
          BY <1>2, <3>1, <3>2, <3>4 DEF WrittenTo, RowStates
        <4>2. mem[r] \in {settled[r], Off} /\ row[r].last \in {settled[r], Off}
          BY <1>2, <1>7, <3>3, <3>4, <4>1 DEF SwitchInv, NewestRows, Newest
        <4> QED
          BY <1>1, <3>2, <4>1, <4>2 DEF Newest
      <3>5. CASE w # Off
        <4>1. settled'[r] = w /\ mem[r] = w
          BY <1>2, <1>7, <3>1, <3>5
        <4>2. row'[r].last = w
          BY <1>2, <3>2, <3>5 DEF WrittenTo, RowStates
        <4> QED
          BY <1>1, <3>2, <4>1, <4>2 DEF Newest
      <3> QED
        BY <3>4, <3>5
    <2> QED
      BY <2>1, <2>2
  <1>8. NewestRows'
    BY <1>6, <1>7 DEF NewestRows
  <1> QED
    BY <1>4, <1>5, <1>8 DEF SwitchKept

LEMMA SwitchInit == Init => SwitchInv
  <1> SUFFICES ASSUME Init PROVE NewestRows /\ OnCalls
    BY ReadInit DEF SwitchInv
  <1> QED
    BY DEF Init, NewestRows, OnCalls, OnCall, Past, NoCall

\* The poll: it keeps readings for later, or rows take them.
LEMMA SwitchPollAnswer ==
  ASSUME SwitchInv, NEW answer \in {"served", "refused"}, PollAnswer(answer)
  PROVE  SwitchKept
  <1>0. ReadInv /\ row \in [Rows -> RowStates]
    BY DEF SwitchInv, ReadInv, RowInv, TypeInv, TypeOK
  <1>1. UNCHANGED <<mem, settled, call>>
    BY <1>0, PollAnswerReads
  <1>2. ASSUME NEW r \in Rows, settled[r] # None, NEW word, Reading(r, word)
        PROVE  Newest(r, word)
    BY <1>2 DEF SwitchInv, NewestRows, Reading
  <1>3. ASSUME NEW r \in Rows, settled[r] # None
        PROVE  Newest(r, row'[r].last)
    <2>1. Newest(r, row[r].last)
      BY <1>3 DEF SwitchInv, NewestRows
    <2>2. CASE row'[r] = row[r] \/ row'[r] = Absent(row[r])
      <3>1. row'[r].last = row[r].last
        BY <1>0, <2>2 DEF Absent, RowStates
      <3> QED
        BY <2>1, <3>1
    <2>3. ASSUME NEW word \in Words \cup {None}, Reading(r, word),
                 row'[r] = Applied(row[r], word)
          PROVE  Newest(r, row'[r].last)
      <3>1. row'[r].last = word \/ row'[r].last = row[r].last
        BY <2>3 DEF Applied
      <3> QED
        BY <1>2, <1>3, <2>1, <2>3, <3>1
    <2> QED
      BY <1>0, <2>1, <2>2, <2>3, PollAnswerReads
  <1>4. ASSUME NEW r \in Rows, settled[r] # None, Current(r)'
        PROVE  Newest(r, snap'[r])
    BY <1>0, <1>2, <1>4, PollAnswerReads
  <1>5. NewestRows'
    <2>1. \A r \in Rows : settled[r] # None => Newest(r, mem[r])
      BY DEF SwitchInv, NewestRows
    <2> QED
      BY <1>1, <1>3, <1>4, <2>1 DEF NewestRows, Newest, Reached
  <1>6. OnCalls' /\ \A c \in Callers : RestoresNewest(c)
    BY <1>1 DEF SwitchInv, OnCalls, OnCall, RestoresNewest
  <1> QED
    BY <1>5, <1>6 DEF SwitchKept

\* A kept setting is taken only by a row that has had no value.
LEMMA SwitchAddedKeeps ==
  ASSUME SwitchInv, NEW r \in Rows, SwitchAdded(r) PROVE SwitchKept
  <1>1. /\ UNCHANGED <<mem, settled, call, pollVars, written>>
        /\ row' = IF row[r].last = None THEN [row EXCEPT ![r].last = Kept[r]] ELSE row
    BY DEF SwitchAdded, pumpVars, historyVars
  <1>2. \A q \in Rows : settled[q] # None => row'[q] = row[q]
    <2>1. \A c \in Callers : call[c].arrived => call[c].word # None
      BY DEF SwitchInv, ReadInv, RowInv, LimitInv, TypeInv, CallsWellFormed,
         CallWellFormed, LockedOut
    <2>2. settled[r] # None => row[r].last # None
      BY <2>1 DEF SwitchInv, NewestRows, Newest, Reached
    <2> QED
      BY <1>1, <2>2 DEF SwitchInv, ReadInv, RowInv, TypeInv, TypeOK
  <1>3. NewestRows'
    <2>1. \A q \in Rows : Current(q)' => (Current(q) /\ snap'[q] = snap[q])
      BY <1>1 DEF Current, pollVars
    <2> QED
      <3> SUFFICES ASSUME NEW q \in Rows, settled'[q] # None
                   PROVE  (/\ Newest(q, mem[q]) /\ Newest(q, row[q].last)
                           /\ Current(q) => Newest(q, snap[q]))'
        BY DEF NewestRows
      <3>1. /\ Newest(q, mem[q]) /\ Newest(q, row[q].last)
            /\ Current(q) => Newest(q, snap[q])
            /\ row'[q] = row[q]
        BY <1>1, <1>2 DEF SwitchInv, NewestRows
      <3> QED
        BY <1>1, <2>1, <3>1 DEF Newest, Reached
  <1> QED
    BY <1>1, <1>3 DEF SwitchInv, OnCalls, OnCall, RestoresNewest, SwitchKept

\* A change at the panel forgets the number of the last write.
LEMMA SwitchPanel ==
  ASSUME SwitchInv, NEW r \in Rows, NEW word \in PanelWords, PanelChange(r, word)
  PROVE  SwitchKept
  <1>1. /\ UNCHANGED <<row, call, pollVars, written>>
        /\ settled' = [settled EXCEPT ![r] = None]
        /\ mem' = [mem EXCEPT ![r] = word]
    BY DEF PanelChange, cacheVars
  <1>2. \A q \in Rows : settled'[q] # None =>
          q # r /\ settled'[q] = settled[q] /\ mem'[q] = mem[q]
    BY <1>1 DEF SwitchInv, ReadInv, RowInv, TypeInv, TypeOK
  <1>3. NewestRows'
    BY <1>1, <1>2 DEF SwitchInv, NewestRows, Newest, Reached, Current, pollVars
  <1>4. OnCalls'
    <2> SUFFICES ASSUME NEW c \in Callers PROVE OnCall(c)'
      BY DEF OnCalls
    <2>1. OnCall(c) /\ (call[c].pc \in Past => call[c].row \in Rows)
      BY DEF SwitchInv, OnCalls, ReadInv, RowInv, TypeInv, CallsWellFormed,
         CallWellFormed, Past
    <2> QED
      BY <1>1, <1>2, <2>1 DEF OnCall
  <1> QED
    BY <1>1, <1>3, <1>4 DEF RestoresNewest, SwitchKept

LEMMA SwitchStep == SwitchInv /\ [Next]_vars => SwitchKept
  <1> SUFFICES ASSUME SwitchInv, [Next]_vars PROVE SwitchKept
    OBVIOUS
  <1>1. CASE \E c \in Callers : CallerActs(c)
    BY <1>1, SwitchCallerStep, SwitchArrive, SwitchWireEnds
  <1>2. CASE PollServed \/ PollRefused
    BY <1>2, SwitchPollAnswer DEF PollServed, PollRefused
  <1>3. CASE \E r \in Rows : SwitchAdded(r)
    BY <1>3, SwitchAddedKeeps
  <1>4. CASE \E r \in Rows, word \in PanelWords : PanelChange(r, word)
    BY <1>4, SwitchPanel
  <1>5. CASE \/ PollStart \/ PollTakesLock \/ PollFails \/ Midnight
             \/ UNCHANGED vars
    <2>1. UNCHANGED <<mem, settled, row, call>>
      BY <1>5 DEF PollStart, PollTakesLock, PollFails, Midnight, vars,
         pumpVars, historyVars, cacheVars
    <2>2. \A r \in Rows : Current(r)' => (Current(r) /\ snap'[r] = snap[r])
      <3>1. CASE PollStart
        BY <3>1 DEF PollStart, Current, Bands
      <3>2. CASE PollTakesLock
        BY <3>2 DEF PollTakesLock, Current, cacheVars, SwitchInv, ReadInv,
           RowInv, TypeInv, TypeOK
      <3>3. CASE PollFails
        BY <3>3 DEF PollFails, PollOver, Current
      <3>4. CASE Midnight \/ UNCHANGED vars
        BY <3>4 DEF Midnight, vars, Current, pollVars, cacheVars
      <3> QED
        BY <1>5, <3>1, <3>2, <3>3, <3>4
    <2>3. NewestRows'
      BY <2>1, <2>2 DEF SwitchInv, NewestRows, Newest, Reached
    <2> QED
      BY <2>1, <2>3 DEF SwitchInv, OnCalls, OnCall, RestoresNewest, SwitchKept
  <1> QED
    BY <1>1, <1>2, <1>3, <1>4, <1>5 DEF Next, CallerActs

\* Turning a setpoint on never brings a value back that a confirmed number write
\* replaced, for any rows, callers, kept settings and changes at the panel.
THEOREM SwitchRestores == Spec => SwitchOnRestoresTheNewest
  <1>1. SwitchInv /\ [Next]_vars => SwitchInv'
    BY ReadStep, SwitchStep DEF SwitchInv, SwitchKept
  <1>2. SwitchInv /\ [Next]_vars => [\A c \in Callers :
         /\ ~call[c].arrived /\ call'[c].arrived
         /\ call[c].op = "on"
         /\ settled[call[c].row] # None
         => mem'[call[c].row] = Clamped(settled[call[c].row], call[c].row)]_vars
    BY SwitchStep DEF SwitchKept, RestoresNewest
  <1> QED
    BY <1>1, <1>2, SwitchInit, PTL DEF Spec, SwitchOnRestoresTheNewest

----
\* Related setpoints stay in order. What makes it inductive: while everything
\* that moved a register was seen through, the rows of related setpoints show
\* their registers, but for the one a word has just reached, and the word of the
\* call that holds the write lock fits between the registers it is bounded by.

Paired(r) == DynMin[r] # None \/ DynMax[r] # None

Started ==
    /\ \A c \in Callers : call[c].pc # "idle" => polled
    /\ written # {} => polled

ShowsItsRegister(r) ==
    /\ mem[r] \in Int
    /\ \/ \E c \in Callers : Reached(c, r)
       \/ /\ polled => row[r].state = mem[r]
          /\ Current(r) => snap[r] = mem[r]

WordFits(c) ==
    LET r == call[c].row
    IN call[c].pc \in Past /\ Paired(r) =>
         /\ call[c].word \in Int
         /\ call[c].arrived => mem[r] = call[c].word
         /\ DynMin[r] # None => mem[DynMin[r]] <= call[c].word
         /\ DynMax[r] # None => call[c].word <= mem[DynMax[r]]

InOrder == \A r \in Rows : DynMin[r] # None => mem[DynMin[r]] <= mem[r]

Related ==
    /\ \A r \in Rows : Paired(r) => ShowsItsRegister(r)
    /\ \A c \in Callers : WordFits(c)
    /\ InOrder

PairKept == Started' /\ (disturbed' \/ Related')

PairInv == SwitchInv /\ Started /\ (disturbed \/ Related)

\* Both rows of a pair know each other, and neither has an off state.
LEMMA PairFacts ==
  ASSUME NEW r \in Rows, Paired(r)
  PROVE  /\ r \notin OffRows
         /\ DynMin[r] # None => /\ DynMin[r] \in Rows /\ Paired(DynMin[r])
                                /\ DynMax[DynMin[r]] = r
         /\ DynMax[r] # None => /\ DynMax[r] \in Rows /\ Paired(DynMax[r])
                                /\ DynMin[DynMax[r]] = r
  <1>1. /\ DynMin[r] # None => DynMin[r] \in Rows
        /\ DynMax[r] # None => DynMax[r] \in Rows
    OBVIOUS
  <1>2. CASE DynMin[r] # None
    <2>1. /\ DynMax[DynMin[r]] = r /\ r \notin OffRows
      BY <1>1, <1>2, PairAssumption
    <2> QED
      BY <1>1, <1>2, <2>1, PairAssumption DEF Paired
  <1>3. CASE DynMax[r] # None
    <2>1. /\ DynMin[DynMax[r]] = r /\ r \notin OffRows
      BY <1>1, <1>3, PairAssumption
    <2> QED
      BY <1>1, <1>3, <2>1, PairAssumption DEF Paired
  <1> QED
    BY <1>2, <1>3 DEF Paired

LEMMA PairInit == Init => PairInv
  <1> SUFFICES ASSUME Init PROVE Started /\ Related
    BY SwitchInit DEF PairInv
  <1>1. \A r \in Rows : mem[r] \in FirstWords[r]
    BY DEF Init
  <1>2. \A l, h \in Rows : DynMin[h] = l =>
          mem[l] \in Int /\ mem[h] \in Int /\ mem[l] <= mem[h]
    BY <1>1, PairAssumption
  <1>3. \A r \in Rows : Paired(r) => mem[r] \in Int
    BY <1>2, PairFacts DEF Paired
  <1>4. InOrder
    BY <1>2 DEF InOrder
  <1>5. \A r \in Rows : Paired(r) => ShowsItsRegister(r)
    BY <1>3 DEF Init, ShowsItsRegister, Current
  <1> QED
    BY <1>4, <1>5 DEF Init, Started, Related, WordFits, NoCall, Past

\* A step that leaves the registers and what is shown of them.
LEMMA PairQuiet ==
  ASSUME PairInv, UNCHANGED <<mem, disturbed, polled>>,
         Started',
         \A r \in Rows : /\ row'[r].state = row[r].state
                         /\ Current(r)' => (Current(r) /\ snap'[r] = snap[r]),
         \A c \in Callers : call[c].arrived => call'[c] = call[c],
         \A c \in Callers : call'[c] = call[c] \/ disturbed \/ WordFits(c)'
  PROVE  PairKept
  <1> SUFFICES ASSUME ~disturbed, Related PROVE Related'
    BY DEF PairInv, PairKept
  <1>1. ASSUME NEW r \in Rows, Paired(r) PROVE ShowsItsRegister(r)'
    <2>1. ShowsItsRegister(r)
      BY <1>1 DEF Related
    <2> QED
      BY <2>1 DEF ShowsItsRegister, Reached
  <1>2. ASSUME NEW c \in Callers PROVE WordFits(c)'
    <2>1. WordFits(c)
      BY DEF Related
    <2> QED
      BY <2>1 DEF WordFits
  <1>3. InOrder'
    BY DEF Related, InOrder
  <1> QED
    BY <1>1, <1>2, <1>3 DEF Related, Paired

\* Inside its bounds a value is clamped to stay between the related registers.
LEMMA FittingWord ==
  ASSUME row \in [Rows -> RowStates], NEW r \in Rows, NEW wanted \in Int,
         Paired(r), WithinBounds(wanted, r),
         \A q \in Rows : Paired(q) => mem[q] \in Int /\ row[q].state = mem[q]
  PROVE  LET word == OnStep(wanted, r)
         IN /\ word \in Int
            /\ DynMin[r] # None => mem[DynMin[r]] <= word
            /\ DynMax[r] # None => word <= mem[DynMax[r]]
  <1> DEFINE word == OnStep(wanted, r)
             low == LowBound(r)
             high == HighBound(r)
  <1>1. low \in Int /\ high \in Int /\ OnGrid(wanted) \in Int
    BY BoundsType, OnGridType
  <1>2. low <= high
    BY <1>1 DEF WithinBounds
  <1>3. word \in Int /\ low <= word /\ word <= high
    <2> HIDE DEF low, high
    <2>1. word = Larger(low, Smaller(OnGrid(wanted), high))
      BY DEF OnStep, Clamped, low, high
    <2> QED
      BY <1>1, <1>2, <2>1 DEF Larger, Smaller
  <1>4. ASSUME DynMin[r] # None PROVE mem[DynMin[r]] <= low
    <2>1. /\ DynMin[r] \in Rows /\ mem[DynMin[r]] \in Int
          /\ row[DynMin[r]].state = mem[DynMin[r]]
      BY <1>4, PairFacts
    <2>2. low = Larger(FixedMin[r], mem[DynMin[r]])
      BY <1>4, <2>1 DEF LowBound
    <2> QED
      BY <2>1, <2>2 DEF Larger
  <1>5. ASSUME DynMax[r] # None PROVE high <= mem[DynMax[r]]
    <2>1. /\ DynMax[r] \in Rows /\ mem[DynMax[r]] \in Int
          /\ row[DynMax[r]].state = mem[DynMax[r]]
      BY <1>5, PairFacts
    <2>2. high = Smaller(FixedMax[r], mem[DynMax[r]])
      BY <1>5, <2>1 DEF HighBound
    <2> QED
      BY <2>1, <2>2 DEF Smaller
  <1>6. DynMin[r] # None => mem[DynMin[r]] \in Int
    BY PairFacts
  <1>7. DynMax[r] # None => mem[DynMax[r]] \in Int
    BY PairFacts
  <1> HIDE DEF word, low, high
  <1>8. /\ word \in Int
        /\ DynMin[r] # None => mem[DynMin[r]] <= word
        /\ DynMax[r] # None => word <= mem[DynMax[r]]
    BY <1>1, <1>3, <1>4, <1>5, <1>6, <1>7
  <1> QED
    BY <1>8 DEF word

\* A step of a call whose word does not reach the EEPROM now and has not.
LEMMA PairCallerStep ==
  ASSUME PairInv, NEW c \in Callers, CallerActs(c), ~Arrive(c), ~Answered(c),
         ~AnswerLost(c), ~CancelledOnWire(c)
  PROVE  PairKept
  <1>0. TypeInv /\ LockedOut /\ OnCall(c) /\ Started /\ row \in [Rows -> RowStates]
    BY DEF PairInv, SwitchInv, ReadInv, RowInv, LimitInv, OnCalls, TypeInv, TypeOK
  <1>1. /\ UNCHANGED <<mem, disturbed, polled, pollVars, cacheVars>>
        /\ ~call[c].arrived /\ (polled \/ CallStarts(c))
    <2>1. CASE CallStarts(c)
      BY <1>0, <2>1, StartedFacts DEF LockedOut, pumpVars, historyVars, entityVars
    <2> QED
      BY <1>0, <2>1 DEF CallerActs, Enter, AskController, HoldsAlready,
         HoldsAnother, AskFails, Send, WriteRefused, CancelledWaiting,
         LockedOut, pumpVars, historyVars, entityVars, Started
  \* It is enough that the other calls stay and the caller's own word fits.
  <1>2. ASSUME \A d \in Callers \ {c} : call'[d] = call[d],
               disturbed \/ WordFits(c)', polled
        PROVE  PairKept
    <2>1. Started'
      BY <1>0, <1>1, <1>2 DEF Started, cacheVars
    <2>2. \A r \in Rows : /\ row'[r].state = row[r].state
                          /\ Current(r)' => (Current(r) /\ snap'[r] = snap[r])
      BY <1>1 DEF Current, pollVars, cacheVars
    <2> QED
      BY <1>1, <1>2, <2>1, <2>2, PairQuiet
  <1>3. ASSUME NEW result, call' = Ended(c, result), polled PROVE PairKept
    <2>1. WordFits(c)'
      BY <1>0, <1>3, EndedFacts DEF WordFits, Past
    <2> QED
      BY <1>0, <1>2, <1>3, <2>1, EndedFacts
  <1>4. CASE CallStarts(c)
    <2>1. WordFits(c)'
      BY <1>0, <1>4, StartedFacts DEF WordFits, Past
    <2> QED
      BY <1>0, <1>2, <1>4, <2>1, StartedFacts
  <1>5. ASSUME Enter(c), NEW word, word = WordOf(call[c]),
               call'[c].pc \in Past, call'[c].word = word,
               call'[c].row = call[c].row, call'[c].arrived = call[c].arrived,
               \A d \in Callers \ {c} : call'[d] = call[d]
        PROVE  PairKept
    <2>1. /\ call[c].pc = "queued" /\ writeLock = Free /\ Fits(call[c])
      BY <1>0, <1>5, EndedFacts DEF Enter, Past
    <2>2. polled
      BY <1>0, <2>1 DEF Started
    <2>3. ASSUME ~disturbed, Paired(call[c].row) PROVE WordFits(c)'
      <3>1. PICK r \in Rows : r = call[c].row
        BY <1>0, <2>1 DEF TypeInv, CallsWellFormed, CallWellFormed
      <3>2. call[c].op = "set" /\ call[c].wanted \in Int
        BY <1>0, <2>1, <2>3, <3>1, PairFacts DEF OnCall, TypeInv,
           CallsWellFormed, CallWellFormed
      <3>3. \A d \in Callers : ~call[d].arrived
        BY <1>1, <2>1, OneCallPast DEF PairInv
      <3>4. \A q \in Rows : Paired(q) => mem[q] \in Int /\ row[q].state = mem[q]
        BY <2>2, <2>3, <3>3 DEF PairInv, Related, ShowsItsRegister, Reached
      <3>5. /\ word = OnStep(call[c].wanted, r) /\ WithinBounds(call[c].wanted, r)
        BY <1>5, <2>1, <3>1, <3>2 DEF WordOf, Fits
      <3>6. /\ word \in Int
            /\ DynMin[r] # None => mem[DynMin[r]] <= word
            /\ DynMax[r] # None => word <= mem[DynMax[r]]
        BY <1>0, <2>3, <3>1, <3>2, <3>4, <3>5, FittingWord
      <3> QED
        BY <1>1, <1>5, <3>1, <3>6 DEF WordFits
    <2>4. ~Paired(call[c].row) => WordFits(c)'
      BY <1>5 DEF WordFits, Paired
    <2> QED
      BY <1>2, <1>5, <2>2, <2>3, <2>4
  <1>6. CASE Enter(c)
    <2> DEFINE word == WordOf(call[c])
    <2>0. polled
      BY <1>0, <1>6 DEF Enter, Started
    <2>1. CASE \E result : call' = Ended(c, result)
      BY <1>3, <2>0, <2>1
    <2>2. CASE call' = [call EXCEPT ![c].pc = "asking", ![c].word = word]
      BY <1>0, <1>5, <1>6, <2>2, WordedFacts DEF Past
    <2>3. CASE call' = [call EXCEPT ![c].pc = "sending", ![c].word = word]
      BY <1>0, <1>5, <1>6, <2>3, WordedFacts DEF Past
    <2> QED
      BY <1>6, <2>1, <2>2, <2>3 DEF Enter, GoToSend
  <1>7. ASSUME call[c].pc \in Past, call'[c].row = call[c].row,
               call'[c].word = call[c].word, call'[c].arrived = call[c].arrived,
               \A d \in Callers \ {c} : call'[d] = call[d]
        PROVE  PairKept
    <2>1. disturbed \/ WordFits(c)
      BY DEF PairInv, Related
    <2>2. disturbed \/ WordFits(c)'
      BY <1>1, <1>7, <2>1 DEF WordFits
    <2>3. polled
      BY <1>0, <1>7 DEF Started, Past
    <2> QED
      BY <1>2, <1>7, <2>2, <2>3
  <1>8. CASE AskController(c) \/ Send(c)
    <2>1. /\ call[c].pc \in Past
          /\ \E pc \in {"reading", "onWire"} : call' = [call EXCEPT ![c].pc = pc]
      BY <1>8 DEF AskController, Send, Past
    <2> QED
      BY <1>0, <1>7, <2>1, MovedFacts
  <1>9. CASE HoldsAnother(c)
    <2>1. call[c].pc \in Past /\ polled /\ GoToSend(c, call[c].word)
      BY <1>0, <1>9 DEF HoldsAnother, Past, Started
    <2>2. CASE call' = Ended(c, "overLimit")
      BY <1>3, <2>1, <2>2
    <2>3. CASE call' = [call EXCEPT ![c].pc = "sending", ![c].word = call[c].word]
      BY <1>0, <1>7, <2>1, <2>3, WordedFacts
    <2> QED
      BY <2>1, <2>2, <2>3 DEF GoToSend
  <1>10. CASE HoldsAlready(c) \/ AskFails(c) \/ WriteRefused(c) \/ CancelledWaiting(c)
    <2>1. polled
      BY <1>0, <1>10 DEF HoldsAlready, AskFails, WriteRefused, CancelledWaiting,
         Started
    <2> QED
      BY <1>3, <1>10, <2>1 DEF HoldsAlready, AskFails, WriteRefused, CancelledWaiting
  <1> QED
    BY <1>4, <1>6, <1>8, <1>9, <1>10 DEF CallerActs

\* The word reaches its register, and fits between the related ones.
LEMMA PairArrive ==
  ASSUME PairInv, NEW c \in Callers, Arrive(c) PROVE PairKept
  <1>1. /\ call[c].pc = "onWire" /\ ~call[c].arrived
        /\ mem' = [mem EXCEPT ![call[c].row] = call[c].word]
        /\ call' = [call EXCEPT ![c].arrived = TRUE]
        /\ UNCHANGED <<pollVars, cacheVars, polled, disturbed>>
    BY DEF Arrive, historyVars, entityVars
  <1>2. /\ call \in [Callers -> CallStates] /\ mem \in [Rows -> Words]
        /\ call[c].row \in Rows
    BY <1>1 DEF PairInv, SwitchInv, ReadInv, RowInv, TypeInv, TypeOK,
       CallsWellFormed, CallWellFormed, Past
  <1>3. PICK r \in Rows : r = call[c].row
    BY <1>2
  <1>4. /\ call'[c].arrived /\ call'[c].row = r /\ call'[c].pc = call[c].pc
        /\ call'[c].word = call[c].word
        /\ \A d \in Callers \ {c} : call'[d] = call[d]
    BY <1>1, <1>2, <1>3 DEF CallStates
  <1>5. mem'[r] = call[c].word /\ \A q \in Rows \ {r} : mem'[q] = mem[q]
    BY <1>1, <1>2, <1>3
  <1>6. Started'
    BY <1>1, <1>4 DEF PairInv, Started, cacheVars
  <1> SUFFICES ASSUME ~disturbed, Related PROVE Related'
    BY <1>1, <1>6 DEF PairInv, PairKept
  <1>7. ASSUME Paired(r)
        PROVE  /\ call[c].word \in Int
               /\ DynMin[r] # None => mem[DynMin[r]] <= call[c].word
               /\ DynMax[r] # None => call[c].word <= mem[DynMax[r]]
    <2>1. WordFits(c)
      BY DEF Related
    <2> QED
      BY <1>1, <1>3, <1>7, <2>1 DEF WordFits, Past
  <1>8. ASSUME NEW q \in Rows, Paired(q) PROVE ShowsItsRegister(q)'
    <2>1. CASE q = r
      BY <1>4, <1>5, <1>7, <1>8, <2>1 DEF ShowsItsRegister, Reached
    <2>2. CASE q # r
      <3>1. ShowsItsRegister(q) /\ mem'[q] = mem[q]
        BY <1>5, <1>8, <2>2 DEF Related
      <3>2. \A d \in Callers : Reached(d, q) => Reached(d, q)'
        BY <1>3, <1>4, <2>2 DEF Reached
      <3>3. Current(q)' => (Current(q) /\ snap'[q] = snap[q])
        BY <1>1 DEF Current, pollVars, cacheVars
      <3> QED
        BY <1>1, <3>1, <3>2, <3>3 DEF ShowsItsRegister, cacheVars
    <2> QED
      BY <2>1, <2>2
  <1>9. InOrder'
    <2> SUFFICES ASSUME NEW h \in Rows, DynMin[h] # None
                 PROVE  mem'[DynMin[h]] <= mem'[h]
      BY DEF InOrder
    <2>1. /\ DynMin[h] \in Rows /\ DynMax[DynMin[h]] = h /\ Paired(h)
          /\ Paired(DynMin[h])
      BY PairFacts DEF Paired
    <2>2. mem[DynMin[h]] <= mem[h]
      BY DEF Related, InOrder
    <2> QED
      BY <1>5, <1>7, <2>1, <2>2
  <1>10. ASSUME NEW d \in Callers PROVE WordFits(d)'
    <2>1. CASE d # c
      <3>1. call'[d].pc \notin Past
        BY <1>1, <1>4, <2>1, OneCallPast DEF PairInv, Past
      <3> QED
        BY <3>1 DEF WordFits
    <2>2. CASE d = c
      <3>1. ASSUME Paired(r), DynMin[r] # None
            PROVE  mem'[DynMin[r]] <= call[c].word
        <4>1. DynMin[r] \in Rows
          BY <3>1, PairFacts
        <4> QED
          BY <1>5, <1>7, <3>1, <4>1
      <3>2. ASSUME Paired(r), DynMax[r] # None
            PROVE  call[c].word <= mem'[DynMax[r]]
        <4>1. DynMax[r] \in Rows
          BY <3>2, PairFacts
        <4> QED
          BY <1>5, <1>7, <3>2, <4>1
      <3> QED
        BY <1>4, <1>5, <1>7, <2>2, <3>1, <3>2 DEF WordFits
    <2> QED
      BY <2>1, <2>2
  <1> QED
    BY <1>8, <1>9, <1>10 DEF Related, Paired

\* The answered write shows its word; an unanswered one disturbs.
LEMMA PairWireEnds ==
  ASSUME PairInv, NEW c \in Callers,
         Answered(c) \/ AnswerLost(c) \/ CancelledOnWire(c)
  PROVE  PairKept
  <1>0. TypeInv /\ Started /\ row \in [Rows -> RowStates]
    BY DEF PairInv, SwitchInv, ReadInv, RowInv, TypeInv, TypeOK
  <1>1. /\ call[c].pc = "onWire"
        /\ \E result : call' = Ended(c, result)
        /\ UNCHANGED <<mem, polled, poll, served, snap>>
    BY DEF Answered, AnswerLost, CancelledOnWire, Abandoned, pumpVars, pollVars,
       entityVars
  <1>2. PICK r \in Rows, w \in Int \cup {Off} : r = call[c].row /\ w = call[c].word
    BY <1>0, <1>1 DEF TypeInv, CallsWellFormed, CallWellFormed
  <1>3. polled' /\ polled
    BY <1>0, <1>1 DEF Started
  <1>4. CASE AnswerLost(c) \/ CancelledOnWire(c)
    BY <1>3, <1>4 DEF AnswerLost, CancelledOnWire, Abandoned, PairKept, Started
  <1>5. CASE Answered(c)
    <2>1. /\ row' = [row EXCEPT ![r] = WrittenTo(@, w)]
          /\ written' = written \cup {r} /\ disturbed' = disturbed
          /\ call[c].arrived
      BY <1>2, <1>5 DEF Answered
    <2> SUFFICES ASSUME ~disturbed, Related PROVE Related'
      BY <1>3, <2>1 DEF PairInv, PairKept, Started
    <2>2. \A d \in Callers : call'[d].pc \notin Past
      <3>1. \A d \in Callers \ {c} : call[d].pc \notin Past
        BY <1>1, OneCallPast DEF PairInv, Past
      <3> QED
        BY <1>0, <1>1, <3>1, EndedFacts DEF Past
    <2>3. \A d \in Callers : WordFits(d)'
      BY <2>2 DEF WordFits
    <2>4. ASSUME NEW q \in Rows, Paired(q) PROVE ShowsItsRegister(q)'
      <3>1. ShowsItsRegister(q)
        BY <2>4 DEF Related
      <3>2. CASE q = r
        <4>1. mem[r] = w /\ w \in Int
          <5>1. WordFits(c)
            BY DEF Related
          <5> QED
            BY <1>1, <1>2, <2>1, <2>4, <3>2, <5>1 DEF WordFits, Past
        <4>2. row'[r].state = w
          BY <1>0, <2>1, <4>1 DEF WrittenTo, RowStates
        <4>3. ~Current(r)'
          BY <2>1 DEF Current
        <4> QED
          BY <1>1, <3>2, <4>1, <4>2, <4>3 DEF ShowsItsRegister
      <3>3. CASE q # r
        <4>1. \A d \in Callers : ~Reached(d, q)
          BY <1>1, <1>2, <3>3, OneCallPast DEF Reached, Past, PairInv
        <4>2. row'[q] = row[q]
          BY <1>0, <2>1, <3>3
        <4>3. Current(q)' => Current(q)
          BY <1>1, <2>1 DEF Current
        <4> QED
          BY <1>1, <3>1, <4>1, <4>2, <4>3 DEF ShowsItsRegister
      <3> QED
        BY <3>2, <3>3
    <2>5. InOrder'
      BY <1>1 DEF Related, InOrder
    <2> QED
      BY <2>3, <2>4, <2>5 DEF Related, Paired
  <1> QED
    BY <1>4, <1>5

\* The poll shows of a pair what its registers hold.
LEMMA PairPollAnswer ==
  ASSUME PairInv, NEW answer \in {"served", "refused"}, PollAnswer(answer)
  PROVE  PairKept
  <1>0. ReadInv /\ row \in [Rows -> RowStates] /\ Started
    BY DEF PairInv, SwitchInv, ReadInv, RowInv, TypeInv, TypeOK
  <1>1. /\ UNCHANGED <<mem, call, written>>
        /\ \/ polled' /\ (disturbed => disturbed')
           \/ UNCHANGED <<row, polled, disturbed>>
    BY <1>0, PollAnswerReads
  <1>2. Started'
    BY <1>0, <1>1 DEF Started
  <1> SUFFICES ASSUME ~disturbed', Related PROVE Related'
    BY <1>1, <1>2 DEF PairInv, PairKept
  <1>3. ASSUME NEW r \in Rows, Paired(r) PROVE ShowsItsRegister(r)'
    <2>1. ShowsItsRegister(r)
      BY <1>3 DEF Related
    <2>2. CASE \E c \in Callers : Reached(c, r)
      BY <1>1, <2>1, <2>2 DEF ShowsItsRegister, Reached
    <2>3. CASE ~ \E c \in Callers : Reached(c, r)
      <3>1. \A word \in Words \cup {None} : Reading(r, word) => word = mem[r]
        BY <2>1, <2>3 DEF ShowsItsRegister, Reading
      <3>2. Current(r)' => snap'[r] = mem[r]
        BY <1>0, <2>1, <2>3, PollAnswerReads DEF ShowsItsRegister, Reading
      <3>3. polled' => row'[r].state = mem[r]
        <4>1. CASE UNCHANGED <<row, polled, disturbed>>
          BY <2>1, <2>3, <4>1 DEF ShowsItsRegister
        <4>2. CASE r \in written /\ row'[r] = row[r]
          BY <1>0, <2>1, <2>3, <4>2 DEF ShowsItsRegister, Started
        <4>3. ASSUME NEW word \in Words \cup {None}, Reading(r, word),
                     row'[r] = Applied(row[r], word)
              PROVE  row'[r].state = mem[r]
          <5>1. word = mem[r] /\ mem[r] \in Int
            BY <2>1, <3>1, <4>3 DEF ShowsItsRegister
          <5> QED
            BY <4>3, <5>1 DEF Applied
        <4> QED
          BY <1>0, <4>1, <4>2, <4>3, PollAnswerReads
      <3> QED
        BY <1>1, <2>1, <3>2, <3>3 DEF ShowsItsRegister
    <2> QED
      BY <2>2, <2>3
  <1>4. (\A c \in Callers : WordFits(c)') /\ InOrder'
    BY <1>1 DEF Related, WordFits, InOrder
  <1> QED
    BY <1>3, <1>4 DEF Related, Paired

LEMMA PairStep == PairInv /\ [Next]_vars => PairInv'
  <1> SUFFICES ASSUME PairInv, [Next]_vars PROVE PairKept
    BY ReadStep, SwitchStep DEF PairInv, PairKept, SwitchInv, SwitchKept
  <1>1. CASE \E c \in Callers : CallerActs(c)
    BY <1>1, PairCallerStep, PairArrive, PairWireEnds
  <1>2. CASE PollServed \/ PollRefused
    BY <1>2, PairPollAnswer DEF PollServed, PollRefused
  <1>3. CASE \E r \in Rows, word \in PanelWords : PanelChange(r, word)
    BY <1>3 DEF PanelChange, cacheVars, entityVars, PairInv, PairKept, Started
  <1>4. CASE \/ PollStart \/ PollTakesLock \/ PollFails \/ Midnight
             \/ UNCHANGED vars \/ \E r \in Rows : SwitchAdded(r)
    <2>1. /\ UNCHANGED <<mem, disturbed, polled, call>>
          /\ written' \in {written, {}}
      BY <1>4 DEF PollStart, PollTakesLock, PollFails, Midnight, vars,
         SwitchAdded, pumpVars, historyVars, cacheVars, entityVars
    <2>2. \A r \in Rows : row'[r].state = row[r].state
      <3>1. CASE \E q \in Rows : SwitchAdded(q)
        <4>1. PICK q \in Rows : SwitchAdded(q)
          BY <3>1
        <4>2. row' = row \/ row' = [row EXCEPT ![q].last = Kept[q]]
          BY <4>1 DEF SwitchAdded
        <4>3. row \in [Rows -> RowStates]
          BY DEF PairInv, SwitchInv, ReadInv, RowInv, TypeInv, TypeOK
        <4>4. ASSUME NEW r \in Rows PROVE row'[r].state = row[r].state
          <5>1. row[r] \in RowStates
            BY <4>3
          <5>2. \/ row'[r] = row[r]
                \/ row'[r] = [row[r] EXCEPT !.last = Kept[q]]
            BY <4>2, <4>3
          <5> QED
            BY <5>1, <5>2 DEF RowStates
        <4> QED
          BY <4>4
      <3>2. CASE ~ \E q \in Rows : SwitchAdded(q)
        BY <1>4, <3>2 DEF PollStart, PollTakesLock, PollFails, Midnight, vars,
           cacheVars
      <3> QED
        BY <3>1, <3>2
    <2>3. \A r \in Rows : Current(r)' => (Current(r) /\ snap'[r] = snap[r])
      <3>1. CASE PollStart
        BY <3>1 DEF PollStart, Current, Bands
      <3>2. CASE PollTakesLock
        BY <3>2 DEF PollTakesLock, Current, cacheVars, PairInv, SwitchInv,
           ReadInv, RowInv, TypeInv, TypeOK
      <3>3. CASE PollFails
        BY <3>3 DEF PollFails, PollOver, Current
      <3>4. CASE \E q \in Rows : SwitchAdded(q)
        BY <3>4 DEF SwitchAdded, Current, pollVars
      <3>5. CASE Midnight \/ UNCHANGED vars
        BY <3>5 DEF Midnight, vars, Current, pollVars, cacheVars
      <3> QED
        BY <1>4, <3>1, <3>2, <3>3, <3>4, <3>5
    <2>4. Started'
      BY <2>1 DEF PairInv, Started
    <2> QED
      BY <2>1, <2>2, <2>3, <2>4, PairQuiet
  <1> QED
    BY <1>1, <1>2, <1>3, <1>4 DEF Next, CallerActs

\* As long as every change at the controller was one the program saw through,
\* related setpoints never cross, for any pairs, bounds, grid and callers.
THEOREM PairsNeverCross == Spec => []PairsStayInOrder
  <1>1. PairInv => PairsStayInOrder
    BY DEF PairInv, Related, InOrder, PairsStayInOrder
  <1> QED
    BY <1>1, PairInit, PairStep, PTL DEF Spec
====
