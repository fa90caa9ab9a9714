---- MODULE WebClient_proofs ----
\* Proofs about the web interface clients, for any clients, dialogs, gap,
\* lifetime and number of saves: types, the gap, passwords, saves and closes.
EXTENDS WebClient, TLAPS

USE ClientAssumption

----
\* Types.

\* TypeOK, with the flags one by one.
Types ==
    /\ task \in [Clients -> Tasks \cup {"none"}]
    /\ waiting \in [Clients -> SUBSET Tasks]
    /\ stage \in [Clients -> Stages]
    /\ phase \in [Clients -> Phases]
    /\ renewed \in [Clients -> BOOLEAN]
    /\ loggedIn \in [Clients -> BOOLEAN]
    /\ cookie \in [Clients -> BOOLEAN]
    /\ refused \in [Clients -> BOOLEAN]
    /\ closed \in [Clients -> BOOLEAN]
    /\ good \in [Clients -> BOOLEAN]
    /\ open \in [Clients -> BOOLEAN]
    /\ stored \in [Clients -> BOOLEAN]
    /\ unsure \in [Clients -> BOOLEAN]
    /\ lifeLeft \in [Clients -> 0..Life]
    /\ paceLock \in Clients \cup {Free}
    /\ gapLeft \in 0..Gap /\ calm \in 0..Gap
    /\ hostLock \in Clients \cup {Modbus, Free}
    /\ result \in [Clients -> [{"save", "close"} -> Outcomes]]
    /\ saves \in [Clients -> 0..MaxSaves]
    /\ posted \in [Clients -> Nat] /\ counted \in [Clients -> Nat]

\* A step of one call: it asks for the next request, or ends.
LEMMA AskFacts ==
  ASSUME Types, NEW c \in Clients, NEW s \in Stages, Ask(c, s)
  PROVE  /\ task' = task /\ result' = result
         /\ stage' \in [Clients -> Stages] /\ phase' \in [Clients -> Phases]
         /\ stage'[c] = s /\ phase'[c] = "queued"
         /\ \A d \in Clients \ {c} : stage'[d] = stage[d] /\ phase'[d] = phase[d]
  BY DEF Types, Ask, Phases

LEMMA EndedFacts ==
  ASSUME Types, NEW c \in Clients, NEW t \in Tasks, NEW outcome \in Outcomes,
         result' = Ended(c, t, outcome)
  PROVE  /\ result' \in [Clients -> [{"save", "close"} -> Outcomes]]
         /\ t # "save" => result'[c]["save"] = result[c]["save"]
         /\ t # "close" => result'[c]["close"] = result[c]["close"]
         /\ t # "read" => result'[c][t] = outcome
         /\ \A d \in Clients \ {c} : result'[d] = result[d]
  <1>1. CASE t = "read"
    BY <1>1 DEF Ended, Types
  <1>2. CASE t # "read"
    <2>1. result' = [result EXCEPT ![c][t] = outcome] /\ t \in {"save", "close"}
      BY <1>2 DEF Ended, Tasks
    <2>2. result'[c] = [result[c] EXCEPT ![t] = outcome]
      BY <2>1 DEF Types
    <2> QED
      BY <2>1, <2>2 DEF Types
  <1> QED
    BY <1>1, <1>2

LEMMA EndFacts ==
  ASSUME Types, NEW c \in Clients, NEW outcome \in Outcomes, task[c] # "none",
         End(c, outcome)
  PROVE  /\ task' \in [Clients -> Tasks \cup {"none"}]
         /\ stage' \in [Clients -> Stages] /\ phase' \in [Clients -> Phases]
         /\ result' \in [Clients -> [{"save", "close"} -> Outcomes]]
         /\ task'[c] = "none" /\ stage'[c] = "get" /\ phase'[c] = "queued"
         /\ task[c] # "save" => result'[c]["save"] = result[c]["save"]
         /\ task[c] # "close" => result'[c]["close"] = result[c]["close"]
         /\ task[c] # "read" => result'[c][task[c]] = outcome
         /\ \A d \in Clients \ {c} :
              /\ task'[d] = task[d] /\ stage'[d] = stage[d]
              /\ phase'[d] = phase[d] /\ result'[d] = result[d]
  <1>1. task[c] \in Tasks /\ result' = Ended(c, task[c], outcome)
    BY DEF Types, End
  <1>2. /\ task' \in [Clients -> Tasks \cup {"none"}]
        /\ stage' \in [Clients -> Stages] /\ phase' \in [Clients -> Phases]
        /\ task'[c] = "none" /\ stage'[c] = "get" /\ phase'[c] = "queued"
        /\ \A d \in Clients \ {c} :
              task'[d] = task[d] /\ stage'[d] = stage[d] /\ phase'[d] = phase[d]
    BY DEF Types, End, Stages, Phases
  <1> QED
    BY <1>1, <1>2, EndedFacts

LEMMA LogInFacts ==
  ASSUME Types, NEW c \in Clients, task[c] = "read", LogIn(c)
  PROVE  /\ result' = result
         /\ task' \in [Clients -> Tasks \cup {"none"}]
         /\ stage' \in [Clients -> Stages] /\ phase' \in [Clients -> Phases]
         /\ phase'[c] = "queued"
         /\ \/ ~refused[c] /\ task'[c] = "read" /\ stage'[c] = "index"
            \/ task'[c] = "none" /\ stage'[c] = "get"
         /\ \A d \in Clients \ {c} :
              task'[d] = task[d] /\ stage'[d] = stage[d] /\ phase'[d] = phase[d]
  <1>1. CASE MayLogIn(c)
    BY <1>1, AskFacts DEF LogIn, Stages, MayLogIn, Types
  <1>2. CASE ~MayLogIn(c)
    <2>1. End(c, "loginRefused") /\ "loginRefused" \in Outcomes
      BY <1>2 DEF LogIn, Outcomes
    <2>2. result' = result
      BY <2>1 DEF End, Ended
    <2> QED
      BY <2>1, <2>2, EndFacts
  <1> QED
    BY <1>1, <1>2

----
\* The inductive invariant, client by client.

ReadStages == {"logout", "index", "login", "get", "again"}

\* The request fits the call, and the locks and the gap its progress.
Shape(c) ==
    /\ task[c] = "none" => stage[c] = "get" /\ phase[c] = "queued"
    /\ task[c] = "read" => stage[c] \in ReadStages
    /\ task[c] = "save" => stage[c] = "post"
    /\ task[c] = "close" => stage[c] = "bye"
    /\ phase[c] \in {"pacing", "asking", "sent"} => paceLock = c
    /\ phase[c] = "sent" => hostLock = c
    /\ phase[c] = "asking" => gapLeft = 0

\* A session the controller holds is known to the client, or on its way back,
\* unless a login or a logout went unanswered.
Session(c) ==
    /\ stage[c] \in {"index", "login"} => ~refused[c]
    /\ open[c] /\ ~unsure[c] => (loggedIn[c] \/ stage[c] \in {"logout", "bye"})
    /\ stage[c] = "bye" => ~loggedIn[c]
    /\ c \in Dialogs => (loggedIn[c] => lifeLeft[c] > 0) /\ stage[c] # "logout"

\* A save is counted when it is posted, and changes nothing before it ends.
Saving(c) ==
    /\ counted[c] = posted[c] /\ posted[c] <= 1
    /\ task[c] = "save" => ~stored[c] /\ (phase[c] # "sent" => posted[c] = 0)

\* A client is closed once, and after the close no session begins.
Closing(c) ==
    /\ "close" \in waiting[c] => closed[c] /\ task[c] # "close"
    /\ task[c] = "close" => closed[c]
    /\ result[c]["close"] # "none" =>
         /\ closed[c] /\ ~loggedIn[c]
         /\ "close" \notin waiting[c] /\ task[c] # "close"
         /\ phase[c] = "sent" => stage[c] \in {"logout", "bye"}
         /\ ~unsure[c] => ~open[c]

ClientOK(c) == Shape(c) /\ Session(c) /\ Saving(c) /\ Closing(c)

Paced == calm = Gap - gapLeft

ClientInv == Types /\ Paced /\ \A c \in Clients : ClientOK(c)

\* A step leaves a client alone, and the locks it holds.
Apart(d) ==
    /\ task'[d] = task[d] /\ waiting'[d] = waiting[d]
    /\ stage'[d] = stage[d] /\ phase'[d] = phase[d]
    /\ loggedIn'[d] = loggedIn[d] /\ lifeLeft'[d] = lifeLeft[d]
    /\ refused'[d] = refused[d] /\ closed'[d] = closed[d]
    /\ open'[d] = open[d] /\ unsure'[d] = unsure[d] /\ stored'[d] = stored[d]
    /\ posted'[d] = posted[d] /\ counted'[d] = counted[d]
    /\ result'[d] = result[d]
    /\ paceLock = d => paceLock' = d /\ gapLeft' = gapLeft
    /\ hostLock = d => hostLock' = d

LEMMA ApartKeeps ==
  ASSUME NEW d \in Clients, ClientOK(d), Apart(d) PROVE ClientOK(d)'
  <1>1. Shape(d)'
    BY DEF ClientOK, Shape, Apart
  <1>2. Session(d)' /\ Saving(d)'
    BY DEF ClientOK, Session, Saving, Apart
  <1>3. Closing(d)'
    <2>1. Closing(d) /\ (phase'[d] = "sent" <=> phase[d] = "sent")
      BY DEF ClientOK, Apart
    <2> QED
      BY <2>1 DEF Closing, Apart
  <1> QED
    BY <1>1, <1>2, <1>3 DEF ClientOK

\* What a step of the client c has to show.
Keeps(c) ==
    /\ Types' /\ Paced' /\ ClientOK(c)'
    /\ \A d \in Clients \ {c} : Apart(d)

LEMMA KeepsInv ==
  ASSUME ClientInv, NEW c \in Clients, Keeps(c) PROVE ClientInv'
  BY ApartKeeps DEF ClientInv, Keeps

LEMMA ClientInit == Init => ClientInv
  <1> SUFFICES ASSUME Init PROVE ClientInv
    OBVIOUS
  <1>1. Types
    BY DEF Init, Types, Stages, Phases, Outcomes
  <1>2. \A c \in Clients : ClientOK(c)
    BY DEF Init, ClientOK, Shape, Session, Saving, Closing
  <1> QED
    BY <1>1, <1>2 DEF Init, ClientInv, Paced

\* Calls are made: they only wait.
LEMMA CallsKeep ==
  ASSUME ClientInv, NEW c \in Clients, CallPage(c) \/ CallSave(c) \/ CallClose(c)
  PROVE  Keeps(c)
  <1>0. Types /\ Paced /\ ClientOK(c)
    BY DEF ClientInv
  <1>1. /\ UNCHANGED <<task, stage, phase, renewed, result, loggedIn, lifeLeft,
                        cookie, refused, serverVars, posted, counted, paceVars,
                        hostLock>>
    BY DEF CallPage, CallSave, CallClose, sessionVars, saveVars
  <1>2. Types'
    <2>1. closed' \in [Clients -> BOOLEAN]
      BY <1>0 DEF CallPage, CallSave, CallClose, Types, sessionVars
    <2>2. waiting' \in [Clients -> SUBSET Tasks]
      <3>1. PICK t \in Tasks : waiting' = [waiting EXCEPT ![c] = @ \cup {t}]
        BY DEF CallPage, CallSave, CallClose, Tasks
      <3>2. waiting[c] \cup {t} \in SUBSET Tasks
        BY <1>0 DEF Types
      <3> QED
        BY <1>0, <3>1, <3>2 DEF Types
    <2>3. saves' \in [Clients -> 0..MaxSaves]
      <3>1. CASE CallSave(c)
        <4>1. saves[c] + 1 \in 0..MaxSaves
          BY <1>0, <3>1 DEF CallSave, Types
        <4> QED
          BY <1>0, <3>1, <4>1 DEF CallSave, Types
      <3>2. CASE CallPage(c) \/ CallClose(c)
        BY <1>0, <3>2 DEF CallPage, CallClose, saveVars, Types
      <3> QED
        BY <3>1, <3>2
    <2> QED
      BY <1>0, <1>1, <2>1, <2>2, <2>3 DEF Types, serverVars, paceVars
  <1>3. Paced' /\ \A d \in Clients \ {c} : Apart(d)
    BY <1>0 DEF CallPage, CallSave, CallClose, Types, Paced, Apart, callVars,
       sessionVars, serverVars, saveVars, paceVars
  <1>4. Shape(c)' /\ Session(c)' /\ Saving(c)'
    BY <1>0 DEF CallPage, CallSave, CallClose, ClientOK, Shape, Session, Saving,
       Types, callVars, sessionVars, serverVars, saveVars, paceVars
  <1>5. Closing(c)'
    BY <1>0 DEF CallPage, CallSave, CallClose, ClientOK, Closing,
       Types, callVars, sessionVars, serverVars, saveVars, paceVars
  <1> QED
    BY <1>2, <1>3, <1>4, <1>5 DEF Keeps, ClientOK

----
\* A waiting call gets its turn.

\* It takes the client's lock with its first request, or ends at once.
LEMMA TakenFacts ==
  ASSUME Types, NEW c \in Clients, NEW t \in Tasks, NEW s \in Stages, TakenBy(c, t, s)
  PROVE  /\ task' \in [Clients -> Tasks \cup {"none"}]
         /\ stage' \in [Clients -> Stages] /\ phase' \in [Clients -> Phases]
         /\ task'[c] = t /\ stage'[c] = s /\ phase'[c] = "queued"
         /\ result' = result
         /\ \A d \in Clients \ {c} :
              task'[d] = task[d] /\ stage'[d] = stage[d] /\ phase'[d] = phase[d]
  BY DEF Types, TakenBy, Phases

LEMMA LeavesQueueFacts ==
  ASSUME Types, NEW c \in Clients, NEW t \in Tasks,
         waiting' = [waiting EXCEPT ![c] = @ \ {t}]
  PROVE  /\ waiting' \in [Clients -> SUBSET Tasks]
         /\ waiting'[c] = waiting[c] \ {t}
         /\ \A d \in Clients \ {c} : waiting'[d] = waiting[d]
  <1>1. waiting[c] \ {t} \in SUBSET Tasks
    BY DEF Types
  <1> QED
    BY <1>1 DEF Types

LEMMA BeginPageKeeps ==
  ASSUME ClientInv, NEW c \in Clients, BeginPage(c) PROVE Keeps(c)
  <1>0. Types /\ Paced /\ ClientOK(c) /\ "read" \in Tasks
    BY DEF ClientInv, Tasks
  <1>1. /\ task[c] = "none" /\ waiting' = [waiting EXCEPT ![c] = @ \ {"read"}]
        /\ UNCHANGED <<serverVars, paceVars, hostLock, lifeLeft, cookie, refused,
                       closed, saveVars>>
        /\ renewed' \in [Clients -> BOOLEAN]
    BY <1>0 DEF BeginPage, Takes, Types
  <1>2. /\ result' = result
        /\ \/ UNCHANGED <<task, stage, phase, loggedIn>>
           \/ /\ TakenBy(c, "read", "get") /\ loggedIn[c] /\ loggedIn' = loggedIn
           \/ /\ TakenBy(c, "read", "logout") /\ loggedIn[c] /\ lifeLeft[c] <= 0
              /\ loggedIn' = [loggedIn EXCEPT ![c] = FALSE]
           \/ /\ TakenBy(c, "read", "index") /\ ~loggedIn[c] /\ ~refused[c]
              /\ loggedIn' = loggedIn
    BY <1>0 DEF BeginPage, Fresh, MayLogIn, EndsAtOnce, Ended, TakenBy, Types
  <1>3. \E s \in Stages : UNCHANGED <<task, stage, phase>> \/ TakenBy(c, "read", s)
    BY <1>2 DEF Stages
  <1>4. /\ task' \in [Clients -> Tasks \cup {"none"}]
        /\ stage' \in [Clients -> Stages] /\ phase' \in [Clients -> Phases]
        /\ phase'[c] = phase[c] /\ phase[c] = "queued" /\ stage[c] = "get"
        /\ \A d \in Clients \ {c} :
              task'[d] = task[d] /\ stage'[d] = stage[d] /\ phase'[d] = phase[d]
    BY <1>0, <1>1, <1>3, TakenFacts DEF Types, ClientOK, Shape
  <1>5. /\ loggedIn' \in [Clients -> BOOLEAN]
        /\ \A d \in Clients \ {c} : loggedIn'[d] = loggedIn[d]
        /\ loggedIn'[c] => loggedIn[c]
    BY <1>0, <1>2 DEF Types
  <1>6. /\ waiting' \in [Clients -> SUBSET Tasks]
        /\ waiting'[c] = waiting[c] \ {"read"}
        /\ \A d \in Clients \ {c} : waiting'[d] = waiting[d]
    BY <1>0, <1>1, LeavesQueueFacts
  \* Where it starts, and what that says of its session.
  <1>7. \/ /\ task'[c] = "none" /\ stage'[c] = "get" /\ loggedIn'[c] = loggedIn[c]
        \/ /\ task'[c] = "read" /\ stage'[c] = "get" /\ loggedIn'[c] = loggedIn[c]
        \/ /\ task'[c] = "read" /\ stage'[c] = "logout" /\ ~loggedIn'[c]
           /\ loggedIn[c] /\ lifeLeft[c] <= 0
        \/ /\ task'[c] = "read" /\ stage'[c] = "index" /\ ~loggedIn[c]
           /\ ~loggedIn'[c] /\ ~refused[c]
    <2>1. CASE UNCHANGED <<task, stage, phase, loggedIn>>
      BY <1>1, <1>4, <2>1
    <2>2. CASE TakenBy(c, "read", "get") /\ loggedIn' = loggedIn
      BY <1>0, <2>2, TakenFacts DEF Stages
    <2>3. CASE /\ TakenBy(c, "read", "logout") /\ loggedIn[c] /\ lifeLeft[c] <= 0
               /\ loggedIn' = [loggedIn EXCEPT ![c] = FALSE]
      <3>1. ~loggedIn'[c]
        BY <1>0, <2>3 DEF Types
      <3> QED
        BY <1>0, <2>3, <3>1, TakenFacts DEF Stages
    <2>4. CASE /\ TakenBy(c, "read", "index") /\ ~loggedIn[c] /\ ~refused[c]
               /\ loggedIn' = loggedIn
      BY <1>0, <2>4, TakenFacts DEF Stages
    <2> QED
      BY <1>2, <2>1, <2>2, <2>3, <2>4
  <1>8. Types'
    BY <1>0, <1>1, <1>2, <1>4, <1>5, <1>6 DEF Types, serverVars, paceVars, saveVars
  <1>9. Paced' /\ \A d \in Clients \ {c} : Apart(d)
    BY <1>0, <1>1, <1>2, <1>4, <1>5, <1>6 DEF Paced, Apart, serverVars, paceVars,
       saveVars
  <1>10. Shape(c)'
    BY <1>4, <1>7 DEF Shape, ReadStages
  <1>11. Session(c)'
    BY <1>0, <1>1, <1>4, <1>7 DEF ClientOK, Session, Types, serverVars
  <1>12. Saving(c)' /\ Closing(c)'
    BY <1>0, <1>1, <1>2, <1>4, <1>5, <1>6, <1>7 DEF ClientOK, Saving, Closing,
       serverVars, saveVars
  <1> QED
    BY <1>8, <1>9, <1>10, <1>11, <1>12 DEF Keeps, ClientOK

LEMMA BeginSaveKeeps ==
  ASSUME ClientInv, NEW c \in Clients, BeginSave(c) PROVE Keeps(c)
  <1>0. Types /\ Paced /\ ClientOK(c) /\ "save" \in Tasks
    BY DEF ClientInv, Tasks
  <1>1. /\ task[c] = "none" /\ waiting' = [waiting EXCEPT ![c] = @ \ {"save"}]
        /\ UNCHANGED <<renewed, saves, sessionVars, good, open, unsure, paceVars,
                       hostLock>>
        /\ stored' = [stored EXCEPT ![c] = FALSE]
        /\ posted' = [posted EXCEPT ![c] = 0]
        /\ counted' = [counted EXCEPT ![c] = 0]
    BY DEF BeginSave
  <1>2. /\ stored' \in [Clients -> BOOLEAN] /\ ~stored'[c]
        /\ posted' \in [Clients -> Nat] /\ posted'[c] = 0
        /\ counted' \in [Clients -> Nat] /\ counted'[c] = 0
        /\ \A d \in Clients \ {c} : /\ stored'[d] = stored[d]
                                    /\ posted'[d] = posted[d]
                                    /\ counted'[d] = counted[d]
    BY <1>0, <1>1 DEF Types
  <1>3. /\ waiting' \in [Clients -> SUBSET Tasks]
        /\ waiting'[c] = waiting[c] \ {"save"}
        /\ \A d \in Clients \ {c} : waiting'[d] = waiting[d]
    BY <1>0, <1>1, LeavesQueueFacts
  <1>4. /\ task' \in [Clients -> Tasks \cup {"none"}]
        /\ stage' \in [Clients -> Stages] /\ phase' \in [Clients -> Phases]
        /\ result' \in [Clients -> [{"save", "close"} -> Outcomes]]
        /\ phase'[c] = "queued" /\ result'[c]["close"] = result[c]["close"]
        /\ \/ task'[c] = "none" /\ stage'[c] = "get"
           \/ task'[c] = "save" /\ stage'[c] = "post"
        /\ \A d \in Clients \ {c} :
              /\ task'[d] = task[d] /\ stage'[d] = stage[d]
              /\ phase'[d] = phase[d] /\ result'[d] = result[d]
    <2>1. CASE TakenBy(c, "save", "post")
      BY <1>0, <2>1, TakenFacts DEF Stages, Types
    <2>2. ASSUME NEW outcome \in {"closed", "notSaved"},
                 EndsAtOnce(c, "save", outcome)
          PROVE  /\ UNCHANGED <<task, stage, phase>>
                 /\ result' = Ended(c, "save", outcome) /\ outcome \in Outcomes
      BY <2>2 DEF EndsAtOnce, Outcomes
    <2>3. CASE \E outcome \in {"closed", "notSaved"} : EndsAtOnce(c, "save", outcome)
      <3>1. UNCHANGED <<task, stage, phase>>
        BY <2>2, <2>3
      <3>2. /\ result' \in [Clients -> [{"save", "close"} -> Outcomes]]
            /\ result'[c]["close"] = result[c]["close"]
            /\ \A d \in Clients \ {c} : result'[d] = result[d]
        BY <1>0, <2>2, <2>3, EndedFacts
      <3> QED
        BY <1>0, <1>1, <3>1, <3>2 DEF Types, ClientOK, Shape
    <2> QED
      BY <2>1, <2>3 DEF BeginSave
  <1>5. Types'
    BY <1>0, <1>1, <1>2, <1>3, <1>4 DEF Types, sessionVars, paceVars
  <1>6. Paced' /\ \A d \in Clients \ {c} : Apart(d)
    BY <1>0, <1>1, <1>2, <1>3, <1>4 DEF Paced, Apart, sessionVars, paceVars
  <1>7. Shape(c)' /\ Session(c)' /\ Saving(c)'
    BY <1>0, <1>1, <1>2, <1>4 DEF ClientOK, Shape, Session, Saving, sessionVars
  <1>8. Closing(c)'
    BY <1>0, <1>1, <1>3, <1>4 DEF ClientOK, Closing, sessionVars
  <1> QED
    BY <1>5, <1>6, <1>7, <1>8 DEF Keeps, ClientOK

LEMMA BeginCloseKeeps ==
  ASSUME ClientInv, NEW c \in Clients, BeginClose(c) PROVE Keeps(c)
  <1>0. Types /\ Paced /\ ClientOK(c) /\ "close" \in Tasks
    BY DEF ClientInv, Tasks
  <1>1. /\ task[c] = "none" /\ waiting' = [waiting EXCEPT ![c] = @ \ {"close"}]
        /\ "close" \in waiting[c]
        /\ UNCHANGED <<serverVars, paceVars, hostLock, lifeLeft, cookie, refused,
                       closed, saveVars, renewed>>
        /\ loggedIn' = [loggedIn EXCEPT ![c] = FALSE]
    BY DEF BeginClose, Takes
  <1>2. /\ loggedIn' \in [Clients -> BOOLEAN] /\ ~loggedIn'[c]
        /\ \A d \in Clients \ {c} : loggedIn'[d] = loggedIn[d]
    BY <1>0, <1>1 DEF Types
  <1>3. /\ waiting' \in [Clients -> SUBSET Tasks]
        /\ waiting'[c] = waiting[c] \ {"close"}
        /\ \A d \in Clients \ {c} : waiting'[d] = waiting[d]
    BY <1>0, <1>1, LeavesQueueFacts
  <1>4. /\ task' \in [Clients -> Tasks \cup {"none"}]
        /\ stage' \in [Clients -> Stages] /\ phase' \in [Clients -> Phases]
        /\ result' \in [Clients -> [{"save", "close"} -> Outcomes]]
        /\ phase'[c] = "queued"
        /\ \/ /\ task'[c] = "none" /\ stage'[c] = "get" /\ ~loggedIn[c]
           \/ /\ task'[c] = "close" /\ stage'[c] = "bye"
              /\ result'[c]["close"] = result[c]["close"]
        /\ \A d \in Clients \ {c} :
              /\ task'[d] = task[d] /\ stage'[d] = stage[d]
              /\ phase'[d] = phase[d] /\ result'[d] = result[d]
    <2>1. CASE TakenBy(c, "close", "bye")
      BY <1>0, <2>1, TakenFacts DEF Stages, Types
    <2>2. CASE ~loggedIn[c] /\ EndsAtOnce(c, "close", "done")
      <3>1. /\ UNCHANGED <<task, stage, phase>>
            /\ result' = Ended(c, "close", "done") /\ "done" \in Outcomes
        BY <2>2 DEF EndsAtOnce, Outcomes
      <3>2. /\ result' \in [Clients -> [{"save", "close"} -> Outcomes]]
            /\ \A d \in Clients \ {c} : result'[d] = result[d]
        BY <1>0, <3>1, EndedFacts
      <3> QED
        BY <1>0, <1>1, <2>2, <3>1, <3>2 DEF Types, ClientOK, Shape
    <2> QED
      BY <2>1, <2>2 DEF BeginClose
  <1>5. Types'
    BY <1>0, <1>1, <1>2, <1>3, <1>4 DEF Types, serverVars, paceVars, saveVars
  <1>6. Paced' /\ \A d \in Clients \ {c} : Apart(d)
    BY <1>0, <1>1, <1>2, <1>3, <1>4 DEF Paced, Apart, serverVars, paceVars, saveVars
  <1>7. Shape(c)' /\ Session(c)' /\ Saving(c)'
    BY <1>0, <1>1, <1>2, <1>4 DEF ClientOK, Shape, Session, Saving, serverVars,
       saveVars
  <1>8. Closing(c)'
    \* The session is gone, or the client would know of it.
    <2>1. closed[c] /\ stage[c] = "get" /\ phase[c] = "queued"
      BY <1>0, <1>1 DEF ClientOK, Closing, Shape
    <2>2. ~loggedIn[c] /\ ~unsure[c] => ~open[c]
      BY <1>0, <2>1 DEF ClientOK, Session
    <2>3. UNCHANGED <<closed, unsure, open>>
      BY <1>1 DEF serverVars
    <2>4. result[c]["close"] = "none"
      BY <1>0, <1>1 DEF ClientOK, Closing
    <2> QED
      BY <1>2, <1>3, <1>4, <2>1, <2>2, <2>3, <2>4 DEF Closing
  <1> QED
    BY <1>5, <1>6, <1>7, <1>8 DEF Keeps, ClientOK

----
\* One request.

LEMMA RequestKeeps ==
  ASSUME ClientInv, NEW c \in Clients,
         TakePaceLock(c) \/ GapOver(c) \/ Send(c)
  PROVE  Keeps(c)
  <1>0. Types /\ Paced /\ ClientOK(c)
    BY DEF ClientInv
  <1>1. PICK p \in {"pacing", "asking", "sent"} :
          /\ phase' = [phase EXCEPT ![c] = p]
          /\ p = "pacing" => TakePaceLock(c)
          /\ p = "asking" => GapOver(c)
          /\ p = "sent" => Send(c)
    BY DEF TakePaceLock, GapOver, Send
  <1>2. /\ UNCHANGED <<task, waiting, stage, renewed, result, sessionVars,
                       serverVars, saves, gapLeft, calm>>
        /\ task[c] # "none"
    BY DEF TakePaceLock, GapOver, Send, saveVars, paceVars
  <1>3. /\ phase' \in [Clients -> Phases] /\ phase'[c] = p
        /\ \A d \in Clients \ {c} : phase'[d] = phase[d]
    BY <1>0, <1>1 DEF Types, Phases
  <1>4. /\ paceLock' = c /\ hostLock' \in {hostLock, c}
        /\ p = "sent" => hostLock' = c
        /\ p = "asking" => gapLeft = 0
        /\ \A d \in Clients \ {c} : paceLock # d /\ (hostLock = d => hostLock' = d)
    BY <1>0, <1>1 DEF ClientOK, Shape, TakePaceLock, GapOver, Send, paceVars
  <1>5. /\ posted' \in [Clients -> Nat] /\ counted' \in [Clients -> Nat]
        /\ \A d \in Clients \ {c} :
              posted'[d] = posted[d] /\ counted'[d] = counted[d]
        /\ \/ posted'[c] = posted[c] /\ counted'[c] = counted[c]
           \/ /\ posted'[c] = posted[c] + 1 /\ counted'[c] = counted[c] + 1
              /\ stage[c] = "post" /\ phase[c] = "asking" /\ p = "sent"
    BY <1>0, <1>1 DEF TakePaceLock, GapOver, Send, Types, saveVars
  <1>6. Types'
    BY <1>0, <1>2, <1>3, <1>4, <1>5 DEF Types, sessionVars, serverVars
  <1>7. Paced' /\ \A d \in Clients \ {c} : Apart(d)
    BY <1>0, <1>2, <1>3, <1>4, <1>5 DEF Paced, Apart, sessionVars, serverVars
  <1>8. Shape(c)' /\ Session(c)'
    BY <1>0, <1>2, <1>3, <1>4 DEF ClientOK, Shape, Session, sessionVars, serverVars
  <1>9. Saving(c)'
    <2>1. stage[c] = "post" => task[c] = "save"
      BY <1>0, <1>2 DEF ClientOK, Shape, Types, Tasks, ReadStages
    <2>2. phase[c] # "sent"
      BY <1>1 DEF TakePaceLock, GapOver, Send
    <2> QED
      BY <1>0, <1>2, <1>3, <1>5, <2>1, <2>2 DEF ClientOK, Saving, Types, serverVars
  <1>10. Closing(c)'
    <2>1. p = "sent" /\ closed[c] => stage[c] \in {"logout", "bye"}
      BY <1>1 DEF Send, Passes
    <2> QED
      BY <1>0, <1>2, <1>3, <2>1 DEF ClientOK, Closing, sessionVars, serverVars
  <1> QED
    BY <1>6, <1>7, <1>8, <1>9, <1>10 DEF Keeps, ClientOK

----
\* The ends of requests and calls.

\* Flags of clients, of which a step moves at most one.
Moves(f, g, c) ==
    g \in [Clients -> BOOLEAN] /\ \A d \in Clients \ {c} : g[d] = f[d]

\* The locks and the gap after a step: nobody else loses a lock.
LocksKept(c) ==
    /\ paceLock' \in Clients \cup {Free} /\ hostLock' \in Clients \cup {Modbus, Free}
    /\ gapLeft' \in 0..Gap /\ calm' \in 0..Gap /\ Paced'
    /\ \A d \in Clients \ {c} :
         /\ paceLock = d => paceLock' = d /\ gapLeft' = gapLeft
         /\ hostLock = d => hostLock' = d

LEMMA OverKeepsLocks ==
  ASSUME ClientInv, NEW c \in Clients, phase[c] = "sent", RequestOver, calm' = 0
  PROVE  LocksKept(c)
  BY DEF ClientInv, ClientOK, Shape, RequestOver, LocksKept, Paced, Types

\* A call that ends: whatever its request was, a session it was giving back is
\* gone or nobody knows.
LEMMA EndingKeeps ==
  ASSUME ClientInv, NEW c \in Clients, NEW outcome \in Outcomes, task[c] # "none",
         End(c, outcome), LocksKept(c),
         UNCHANGED <<waiting, renewed, loggedIn, lifeLeft, cookie, closed, good,
                     saveVars>>,
         Moves(refused, refused', c), Moves(open, open', c),
         Moves(unsure, unsure', c), Moves(stored, stored', c),
         open'[c] => open[c], unsure[c] => unsure'[c],
         stage[c] \in {"logout", "bye"} => (~open'[c] \/ unsure'[c])
  PROVE  Keeps(c)
  <1>0. Types /\ Paced /\ ClientOK(c)
    BY DEF ClientInv
  <1>1. /\ task' \in [Clients -> Tasks \cup {"none"}]
        /\ stage' \in [Clients -> Stages] /\ phase' \in [Clients -> Phases]
        /\ result' \in [Clients -> [{"save", "close"} -> Outcomes]]
        /\ task'[c] = "none" /\ stage'[c] = "get" /\ phase'[c] = "queued"
        /\ task[c] # "close" => result'[c]["close"] = result[c]["close"]
        /\ \A d \in Clients \ {c} :
             /\ task'[d] = task[d] /\ stage'[d] = stage[d]
             /\ phase'[d] = phase[d] /\ result'[d] = result[d]
    BY <1>0, EndFacts
  <1>2. Types'
    BY <1>0, <1>1 DEF Types, LocksKept, Moves, saveVars
  <1>3. Paced' /\ \A d \in Clients \ {c} : Apart(d)
    <2> SUFFICES ASSUME NEW d \in Clients \ {c} PROVE Apart(d)
      BY DEF LocksKept
    <2>1. /\ paceLock = d => paceLock' = d /\ gapLeft' = gapLeft
          /\ hostLock = d => hostLock' = d
      BY DEF LocksKept
    <2>2. /\ refused'[d] = refused[d] /\ open'[d] = open[d]
          /\ unsure'[d] = unsure[d] /\ stored'[d] = stored[d]
      BY DEF Moves
    <2> QED
      BY <1>1, <2>1, <2>2 DEF Apart, saveVars
  <1>4. Shape(c)'
    BY <1>1 DEF Shape
  <1>5. Session(c)' /\ Saving(c)'
    BY <1>0, <1>1 DEF ClientOK, Session, Saving, saveVars
  <1>6. Closing(c)'
    <2>1. CASE task[c] = "close"
      BY <1>0, <1>1, <2>1 DEF ClientOK, Closing, Shape, Session
    <2>2. CASE task[c] # "close"
      BY <1>0, <1>1, <2>2 DEF ClientOK, Closing
    <2> QED
      BY <2>1, <2>2
  <1> QED
    BY <1>2, <1>3, <1>4, <1>5, <1>6 DEF Keeps, ClientOK

\* A page that goes on after an answer, or ends as it may not log in.
LEMMA ReadsOnKeeps ==
  ASSUME ClientInv, NEW c \in Clients, task[c] = "read", phase[c] = "sent",
         LocksKept(c),
         UNCHANGED <<waiting, result, refused, closed, good, unsure, stored,
                     saveVars>>,
         task' \in [Clients -> Tasks \cup {"none"}],
         stage' \in [Clients -> Stages], phase' \in [Clients -> Phases],
         lifeLeft' \in [Clients -> 0..Life],
         Moves(renewed, renewed', c), Moves(loggedIn, loggedIn', c),
         Moves(cookie, cookie', c), Moves(open, open', c),
         \A d \in Clients \ {c} :
            /\ task'[d] = task[d] /\ stage'[d] = stage[d]
            /\ phase'[d] = phase[d] /\ lifeLeft'[d] = lifeLeft[d],
         phase'[c] = "queued",
         \/ task'[c] = "none" /\ stage'[c] = "get"
         \/ /\ task'[c] = "read" /\ stage'[c] \in {"index", "login", "get", "again"}
            /\ stage'[c] \in {"index", "login"} => ~refused[c],
         open'[c] /\ ~unsure[c] => loggedIn'[c],
         c \in Dialogs /\ loggedIn'[c] => lifeLeft'[c] > 0,
         open'[c] => (open[c] \/ stage[c] = "login"),
         loggedIn'[c] => (loggedIn[c] \/ stage[c] = "login")
  PROVE  Keeps(c)
  <1>0. Types /\ Paced /\ ClientOK(c)
    BY DEF ClientInv
  <1>1. Types'
    BY <1>0 DEF Types, LocksKept, Moves, saveVars
  <1>2. Paced' /\ \A d \in Clients \ {c} : Apart(d)
    <2> SUFFICES ASSUME NEW d \in Clients \ {c} PROVE Apart(d)
      BY DEF LocksKept
    <2>1. /\ paceLock = d => paceLock' = d /\ gapLeft' = gapLeft
          /\ hostLock = d => hostLock' = d
      BY DEF LocksKept
    <2>2. loggedIn'[d] = loggedIn[d] /\ open'[d] = open[d]
      BY DEF Moves
    <2> QED
      BY <2>1, <2>2 DEF Apart, saveVars
  <1>3. Shape(c)'
    BY DEF Shape, ReadStages
  <1>4. Session(c)' /\ Saving(c)'
    BY <1>0 DEF ClientOK, Session, Saving, saveVars
  <1>5. Closing(c)'
    BY <1>0 DEF ClientOK, Closing
  <1> QED
    BY <1>1, <1>2, <1>3, <1>4, <1>5 DEF Keeps, ClientOK

LEMMA AnswerFacts ==
  ASSUME ClientInv, NEW c \in Clients, NEW s \in Stages, Answers(c, s)
  PROVE  /\ Types /\ ClientOK(c) /\ LocksKept(c)
         /\ task[c] # "none" /\ stage[c] = s /\ phase[c] = "sent"
         /\ UNCHANGED <<waiting, closed, good, saveVars>>
         /\ s \in {"logout", "index", "login", "get", "again"} => task[c] = "read"
         /\ s = "post" => task[c] = "save"
  <1>1. /\ Types /\ ClientOK(c) /\ LocksKept(c)
        /\ task[c] # "none" /\ stage[c] = s /\ phase[c] = "sent"
        /\ UNCHANGED <<waiting, closed, good, saveVars>>
    BY OverKeepsLocks DEF Answers, ClientInv
  <1> QED
    BY <1>1 DEF ClientOK, Shape, Types, Tasks, ReadStages

\* A flag set, or left as it is, of one client.
LEMMA SetFacts ==
  ASSUME NEW f \in [Clients -> BOOLEAN], NEW g, NEW c \in Clients, NEW b \in BOOLEAN,
         g = [f EXCEPT ![c] = b]
  PROVE  Moves(f, g, c) /\ g[c] = b
  BY DEF Moves

LEMMA SameFacts ==
  ASSUME NEW f \in [Clients -> BOOLEAN], NEW c \in Clients
  PROVE  Moves(f, f, c)
  BY DEF Moves

LEMMA LoginAnswersKeep ==
  ASSUME ClientInv, NEW c \in Clients,
         LogoutAnswered(c) \/ IndexAnswered(c) \/ LoginAccepted(c) \/ LoginWrong(c)
  PROVE  Keeps(c)
  <1>0. {"logout", "index", "login", "get"} \subseteq Stages
    BY DEF Stages
  <1>1. CASE LogoutAnswered(c)
    <2>1. /\ Answers(c, "logout") /\ LogIn(c) /\ open' = [open EXCEPT ![c] = FALSE]
          /\ UNCHANGED <<renewed, loggedIn, lifeLeft, cookie, refused, stored, unsure>>
      BY <1>1 DEF LogoutAnswered
    <2>2. /\ Types /\ ClientOK(c) /\ LocksKept(c) /\ task[c] = "read"
          /\ stage[c] = "logout" /\ phase[c] = "sent"
          /\ UNCHANGED <<waiting, closed, good, saveVars>>
      BY <1>0, <2>1, AnswerFacts
    <2>3. Moves(open, open', c) /\ ~open'[c]
      BY <2>1, <2>2, SetFacts DEF Types
    <2>4. /\ Moves(renewed, renewed', c) /\ Moves(loggedIn, loggedIn', c)
          /\ Moves(cookie, cookie', c) /\ lifeLeft' \in [Clients -> 0..Life]
      BY <2>1, <2>2, SameFacts DEF Types
    <2>5. c \notin Dialogs
      BY <2>2 DEF ClientOK, Session
    <2> QED
      BY <2>1, <2>2, <2>3, <2>4, <2>5, LogInFacts, ReadsOnKeeps
  <1>2. CASE IndexAnswered(c)
    <2>1. /\ Answers(c, "index") /\ Ask(c, "login")
          /\ UNCHANGED <<renewed, loggedIn, lifeLeft, cookie, refused, open, stored,
                         unsure>>
      BY <1>2 DEF IndexAnswered
    <2>2. /\ Types /\ ClientOK(c) /\ LocksKept(c) /\ task[c] = "read"
          /\ stage[c] = "index" /\ phase[c] = "sent"
          /\ UNCHANGED <<waiting, closed, good, saveVars>>
      BY <1>0, <2>1, AnswerFacts
    <2>3. /\ Moves(renewed, renewed', c) /\ Moves(loggedIn, loggedIn', c)
          /\ Moves(cookie, cookie', c) /\ Moves(open, open', c)
          /\ lifeLeft' \in [Clients -> 0..Life] /\ task' \in [Clients -> Tasks \cup {"none"}]
      BY <2>1, <2>2, SameFacts DEF Types, Ask
    <2>4. ~refused[c] /\ (open[c] /\ ~unsure[c] => loggedIn[c])
          /\ (c \in Dialogs /\ loggedIn[c] => lifeLeft[c] > 0)
      BY <2>2 DEF ClientOK, Session
    <2> QED
      BY <1>0, <2>1, <2>2, <2>3, <2>4, AskFacts, ReadsOnKeeps
  <1>3. CASE LoginAccepted(c)
    <2>1. /\ Answers(c, "login") /\ Ask(c, "get")
          /\ open' = [open EXCEPT ![c] = TRUE]
          /\ cookie' = [cookie EXCEPT ![c] = TRUE]
          /\ loggedIn' = [loggedIn EXCEPT ![c] = TRUE]
          /\ lifeLeft' = [lifeLeft EXCEPT ![c] = Life]
          /\ UNCHANGED <<renewed, refused, stored, unsure>>
      BY <1>3 DEF LoginAccepted
    <2>2. /\ Types /\ ClientOK(c) /\ LocksKept(c) /\ task[c] = "read"
          /\ stage[c] = "login" /\ phase[c] = "sent"
          /\ UNCHANGED <<waiting, closed, good, saveVars>>
      BY <1>0, <2>1, AnswerFacts
    <2>3. /\ Moves(open, open', c) /\ Moves(cookie, cookie', c)
          /\ Moves(loggedIn, loggedIn', c) /\ loggedIn'[c]
      BY <2>1, <2>2 DEF Types, Moves
    <2>4. /\ lifeLeft' \in [Clients -> 0..Life] /\ lifeLeft'[c] > 0
          /\ \A d \in Clients \ {c} : lifeLeft'[d] = lifeLeft[d]
      BY <2>1, <2>2 DEF Types
    <2>5. Moves(renewed, renewed', c) /\ task' \in [Clients -> Tasks \cup {"none"}]
      BY <2>1, <2>2, SameFacts DEF Types, Ask
    <2> QED
      BY <1>0, <2>1, <2>2, <2>3, <2>4, <2>5, AskFacts, ReadsOnKeeps
  <1>4. CASE LoginWrong(c)
    <2>1. /\ Answers(c, "login") /\ End(c, "loginRefused")
          /\ refused' = [refused EXCEPT ![c] = TRUE]
          /\ UNCHANGED <<renewed, loggedIn, lifeLeft, cookie, open, stored, unsure>>
      BY <1>4 DEF LoginWrong
    <2>2. /\ Types /\ LocksKept(c) /\ task[c] # "none" /\ stage[c] = "login"
          /\ UNCHANGED <<waiting, closed, good, saveVars>>
      BY <1>0, <2>1, AnswerFacts
    <2>3. /\ Moves(refused, refused', c) /\ Moves(open, open', c)
          /\ Moves(unsure, unsure', c) /\ Moves(stored, stored', c)
      BY <2>1, <2>2, SetFacts, SameFacts DEF Types
    <2>4. "loginRefused" \in Outcomes
      BY DEF Outcomes
    <2> QED
      BY <2>1, <2>2, <2>3, <2>4, EndingKeeps
  <1> QED
    BY <1>1, <1>2, <1>3, <1>4

LEMMA PageAnswersKeep ==
  ASSUME ClientInv, NEW c \in Clients,
         PageWhole(c) \/ PageIncomplete(c) \/ PageSessionLost(c)
  PROVE  Keeps(c)
  <1>0. /\ {"get", "again"} \subseteq Stages
        /\ {"ok", "broken", "unreachable"} \subseteq Outcomes
    BY DEF Stages, Outcomes
  <1>1. PICK s \in {"get", "again"} : Answers(c, s)
    BY DEF PageWhole, PageIncomplete, PageSessionLost
  <1>2. /\ Types /\ ClientOK(c) /\ LocksKept(c) /\ task[c] = "read"
        /\ stage[c] = s /\ phase[c] = "sent"
        /\ UNCHANGED <<waiting, closed, good, saveVars>>
    BY <1>0, <1>1, AnswerFacts
  <1>3. UNCHANGED <<lifeLeft, cookie, refused, open, stored, unsure>>
    BY DEF PageWhole, PageIncomplete, PageSessionLost
  <1>4. /\ Moves(cookie, cookie', c) /\ Moves(open, open', c)
        /\ Moves(refused, refused', c) /\ Moves(unsure, unsure', c)
        /\ Moves(stored, stored', c) /\ lifeLeft' \in [Clients -> 0..Life]
    BY <1>2, <1>3, SameFacts DEF Types
  <1>5. /\ open[c] /\ ~unsure[c] => loggedIn[c]
        /\ c \in Dialogs /\ loggedIn[c] => lifeLeft[c] > 0
    BY <1>2 DEF ClientOK, Session
  <1>6. CASE /\ UNCHANGED <<renewed, loggedIn>>
             /\ \E outcome \in Outcomes : End(c, outcome)
    BY <1>2, <1>3, <1>4, <1>6, EndingKeeps
  <1>7. CASE Ask(c, "again") /\ UNCHANGED <<renewed, loggedIn>>
    <2>1. /\ Moves(renewed, renewed', c) /\ Moves(loggedIn, loggedIn', c)
          /\ task' \in [Clients -> Tasks \cup {"none"}]
      BY <1>2, <1>7, SameFacts DEF Types, Ask
    <2> QED
      BY <1>0, <1>2, <1>3, <1>4, <1>5, <1>7, <2>1, AskFacts, ReadsOnKeeps
  <1>8. CASE /\ LogIn(c) /\ ~open[c]
             /\ renewed' = [renewed EXCEPT ![c] = TRUE]
             /\ loggedIn' = [loggedIn EXCEPT ![c] = FALSE]
    <2>1. /\ Moves(renewed, renewed', c) /\ Moves(loggedIn, loggedIn', c)
          /\ ~loggedIn'[c]
      BY <1>2, <1>8, SetFacts DEF Types
    <2> QED
      BY <1>2, <1>3, <1>4, <1>8, <2>1, LogInFacts, ReadsOnKeeps
  <1> QED
    BY <1>0, <1>6, <1>7, <1>8 DEF PageWhole, PageIncomplete, PageSessionLost

\* What a request may have done that ended without a proper answer.
LEMMA MayHaveDoneFacts ==
  ASSUME Types, NEW c \in Clients, MayHaveDone(c)
  PROVE  /\ Moves(open, open', c) /\ Moves(unsure, unsure', c)
         /\ Moves(stored, stored', c)
         /\ open'[c] => open[c]
         /\ unsure[c] => unsure'[c]
         /\ stage[c] \in {"logout", "bye"} => unsure'[c]
  BY DEF MayHaveDone, Types, Moves

LEMMA OtherEndsKeep ==
  ASSUME ClientInv, NEW c \in Clients,
         \/ SendClosed(c) \/ SaveAnswered(c) \/ ByeAnswered(c) \/ RequestFails(c)
         \/ Cancel(c)
  PROVE  Keeps(c)
  <1>0. /\ {"post", "bye"} \subseteq Stages
        /\ {"closed", "cancelled", "saved", "maybeSaved", "notSaved", "done",
            "unreachable"} \subseteq Outcomes
        /\ Types /\ ClientOK(c) /\ Paced
    BY DEF Stages, Outcomes, ClientInv
  <1>1. /\ Moves(refused, refused, c) /\ Moves(open, open, c)
        /\ Moves(unsure, unsure, c) /\ Moves(stored, stored, c)
    BY <1>0, SameFacts DEF Types
  <1>2. CASE SendClosed(c)
    <2>1. /\ task[c] # "none" /\ phase[c] = "asking" /\ ~Passes(c)
          /\ paceLock' = Free /\ End(c, "closed")
          /\ UNCHANGED <<waiting, renewed, sessionVars, serverVars, saveVars,
                         gapLeft, calm, hostLock>>
      BY <1>2 DEF SendClosed
    <2>2. LocksKept(c)
      BY <1>0, <2>1 DEF LocksKept, ClientOK, Shape, Types, Paced
    <2>3. stage[c] \notin {"logout", "bye"}
      BY <2>1 DEF Passes
    <2> QED
      BY <1>0, <1>1, <2>1, <2>2, <2>3, EndingKeeps DEF sessionVars, serverVars
  <1>3. CASE SaveAnswered(c)
    <2>1. /\ Answers(c, "post")
          /\ UNCHANGED <<renewed, loggedIn, lifeLeft, cookie, refused, open, unsure>>
          /\ \E outcome \in Outcomes : End(c, outcome)
          /\ stored' = stored \/ stored' = [stored EXCEPT ![c] = TRUE]
      BY <1>0, <1>3 DEF SaveAnswered
    <2>2. Moves(stored, stored', c)
      BY <1>0, <2>1 DEF Types, Moves
    <2> QED
      BY <1>0, <1>1, <2>1, <2>2, AnswerFacts, EndingKeeps
  <1>4. CASE ByeAnswered(c)
    <2>1. /\ Answers(c, "bye") /\ End(c, "done")
          /\ open' = [open EXCEPT ![c] = FALSE]
          /\ UNCHANGED <<renewed, loggedIn, lifeLeft, cookie, refused, stored, unsure>>
      BY <1>4 DEF ByeAnswered
    <2>2. Moves(open, open', c) /\ ~open'[c]
      BY <1>0, <2>1, SetFacts DEF Types
    <2> QED
      BY <1>0, <1>1, <2>1, <2>2, AnswerFacts, EndingKeeps
  <1>5. CASE RequestFails(c)
    <2>1. /\ MayHaveDone(c) /\ End(c, OutcomeOfFailure(c))
          /\ UNCHANGED <<renewed, loggedIn, lifeLeft, cookie, refused>>
      BY <1>5 DEF RequestFails
    <2>2. PICK s \in Stages : Answers(c, s)
      BY <1>5 DEF RequestFails
    <2>3. OutcomeOfFailure(c) \in Outcomes
      BY <1>0, <2>2, AnswerFacts DEF OutcomeOfFailure, Types, Tasks
    <2> QED
      BY <1>0, <1>1, <2>1, <2>2, <2>3, AnswerFacts, MayHaveDoneFacts, EndingKeeps
  <1>6. CASE Cancel(c)
    <2>1. /\ c \in Dialogs /\ task[c] = "read" /\ End(c, "cancelled")
          /\ UNCHANGED <<waiting, renewed, sessionVars, good, saveVars>>
      BY <1>6 DEF Cancel
    <2>2. CASE phase[c] = "sent"
      <3>1. RequestOver /\ calm' = 0 /\ MayHaveDone(c)
        BY <1>6, <2>2 DEF Cancel
      <3> QED
        BY <1>0, <1>1, <2>1, <2>2, <3>1, OverKeepsLocks, MayHaveDoneFacts,
           EndingKeeps DEF sessionVars
    <2>3. CASE phase[c] # "sent"
      <3>1. /\ paceLock' = IF paceLock = c THEN Free ELSE paceLock
            /\ UNCHANGED <<gapLeft, calm, hostLock, open, unsure, stored>>
        BY <1>6, <2>3 DEF Cancel
      <3>2. LocksKept(c)
        BY <1>0, <3>1 DEF LocksKept, Types, Paced
      <3>3. stage[c] \notin {"logout", "bye"}
        BY <1>0, <2>1 DEF ClientOK, Session, Shape, ReadStages
      <3> QED
        BY <1>0, <1>1, <2>1, <3>1, <3>2, <3>3, EndingKeeps DEF sessionVars
    <2> QED
      BY <2>2, <2>3
  <1> QED
    BY <1>2, <1>3, <1>4, <1>5, <1>6

----
\* The invariant, step by step.

LEMMA WorldKeeps ==
  ASSUME ClientInv,
         \/ \E c \in Clients : ServerDrops(c) \/ PasswordChanged(c)
         \/ ModbusTakes \/ ModbusEnds \/ Tick \/ UNCHANGED vars
  PROVE  ClientInv'
  <1>0. Types /\ Paced /\ \A c \in Clients : ClientOK(c)
    BY DEF ClientInv
  <1>1. UNCHANGED <<callVars, loggedIn, cookie, refused, closed, stored, unsure,
                    saveVars, paceLock>>
    BY DEF ServerDrops, PasswordChanged, ModbusTakes, ModbusEnds, Tick, vars,
       sessionVars, serverVars, paceVars
  <1>2. /\ good' \in [Clients -> BOOLEAN] /\ open' \in [Clients -> BOOLEAN]
        /\ \A c \in Clients : open'[c] => open[c]
    BY <1>0 DEF ServerDrops, PasswordChanged, ModbusTakes, ModbusEnds, Tick, vars,
       serverVars, Types
  <1>3. /\ hostLock' \in Clients \cup {Modbus, Free}
        /\ \A c \in Clients : hostLock = c => hostLock' = c
    BY <1>0 DEF ServerDrops, PasswordChanged, ModbusTakes, ModbusEnds, Tick, vars,
       Types
  <1>4. /\ gapLeft' \in 0..Gap /\ calm' \in 0..Gap /\ Paced'
        /\ gapLeft = 0 => gapLeft' = 0
        /\ lifeLeft' \in [Clients -> 0..Life]
        /\ \A c \in Dialogs : lifeLeft'[c] = lifeLeft[c]
    <2>1. CASE Tick
      <3>1. /\ gapLeft' \in 0..Gap /\ calm' \in 0..Gap /\ Paced'
            /\ gapLeft = 0 => gapLeft' = 0
        BY <1>0, <2>1 DEF Tick, Types, Paced
      <3>2. /\ lifeLeft' = [c \in Clients |->
                      IF c \notin Dialogs /\ lifeLeft[c] > 0
                      THEN lifeLeft[c] - 1 ELSE lifeLeft[c]]
            /\ lifeLeft \in [Clients -> 0..Life]
        BY <1>0, <2>1 DEF Tick, Types
      <3> QED
        BY <3>1, <3>2
    <2>2. CASE ~Tick
      BY <1>0, <2>2 DEF ServerDrops, PasswordChanged, ModbusTakes, ModbusEnds, vars,
         sessionVars, paceVars, Types, Paced
    <2> QED
      BY <2>1, <2>2
  <1>5. Types'
    BY <1>0, <1>1, <1>2, <1>3, <1>4 DEF Types, callVars, saveVars
  <1>6. ASSUME NEW c \in Clients PROVE ClientOK(c)'
    <2>1. ClientOK(c)
      BY <1>0
    <2>2. Shape(c)' /\ Saving(c)'
      BY <1>1, <1>3, <1>4, <2>1 DEF ClientOK, Shape, Saving, callVars, saveVars
    <2>3. Session(c)' /\ Closing(c)'
      BY <1>1, <1>2, <1>4, <2>1 DEF ClientOK, Session, Closing, callVars
    <2> QED
      BY <2>2, <2>3 DEF ClientOK
  <1> QED
    BY <1>4, <1>5, <1>6 DEF ClientInv

LEMMA CallerKeeps ==
  ASSUME ClientInv, NEW c \in Clients,
         \/ CallPage(c) \/ CallSave(c) \/ CallClose(c)
         \/ BeginPage(c) \/ BeginSave(c) \/ BeginClose(c)
         \/ Request(c) \/ Answer(c) \/ Cancel(c)
  PROVE  Keeps(c)
  <1>1. CASE Request(c)
    BY <1>1, RequestKeeps, OtherEndsKeep DEF Request
  <1>2. CASE Answer(c)
    BY <1>2, LoginAnswersKeep, PageAnswersKeep, OtherEndsKeep DEF Answer
  <1> QED
    BY <1>1, <1>2, CallsKeep, BeginPageKeeps, BeginSaveKeeps, BeginCloseKeeps,
       OtherEndsKeep

LEMMA ClientStep == ClientInv /\ [Next]_vars => ClientInv'
  BY CallerKeeps, KeepsInv, WorldKeeps DEF Next

LEMMA ClientAlways == Spec => []ClientInv
  BY ClientInit, ClientStep, PTL DEF Spec

\* Every variable of every client has its type.
THEOREM TypeCorrect == Spec => []TypeOK
  <1>1. ClientInv => TypeOK
    BY DEF ClientInv, Types, TypeOK
  <1> QED
    BY <1>1, ClientAlways, PTL

\* A save is counted exactly when its POST goes out, at most once, however often
\* the client saves and whatever calls come between.
THEOREM SavesCounted == Spec => []SavesAreCountedOnce
  <1>1. ClientInv => SavesAreCountedOnce
    BY DEF ClientInv, ClientOK, Saving, SavesAreCountedOnce
  <1> QED
    BY <1>1, ClientAlways, PTL

\* A close that is done leaves no session on the controller, for any clients.
THEOREM ClosesFreeSessions == Spec => []CloseFreesTheSession
  <1>1. ClientInv => CloseFreesTheSession
    <2> SUFFICES ASSUME ClientInv, NEW c \in Clients,
                        result[c]["close"] = "done", ~unsure[c]
                 PROVE  ~open[c]
      BY DEF CloseFreesTheSession
    <2> QED
      BY DEF ClientInv, ClientOK, Closing
  <1> QED
    BY <1>1, ClientAlways, PTL

----
\* What goes out, and when.

\* A request goes out by Send alone.
LEMMA OnlySendSends ==
  ASSUME ClientInv, [Next]_vars, NEW c \in Clients,
         phase[c] # "sent", phase'[c] = "sent"
  PROVE  Send(c)
  <1>0. phase \in [Clients -> Phases]
    BY DEF ClientInv, Types
  <1>1. CASE UNCHANGED phase
    BY <1>1
  <1>2. ASSUME NEW d \in Clients, NEW p \in {"queued", "pacing", "asking"},
               phase' = [phase EXCEPT ![d] = p]
        PROVE  Send(c)
    BY <1>0, <1>2
  <1>3. ASSUME NEW d \in Clients, Send(d) PROVE Send(c)
    <2>1. phase' = [phase EXCEPT ![d] = "sent"]
      BY <1>3 DEF Send
    <2> QED
      BY <1>0, <1>3, <2>1
  <1>4. CASE \E d \in Clients : CallPage(d) \/ CallSave(d) \/ CallClose(d)
                                \/ ServerDrops(d) \/ PasswordChanged(d)
    BY <1>1, <1>4 DEF CallPage, CallSave, CallClose, ServerDrops, PasswordChanged,
       callVars
  <1>5. ASSUME NEW d \in Clients, BeginPage(d) \/ BeginSave(d) \/ BeginClose(d)
        PROVE  Send(c)
    BY <1>1, <1>2, <1>5 DEF BeginPage, BeginSave, BeginClose, TakenBy, EndsAtOnce
  <1>6. ASSUME NEW d \in Clients, Request(d) PROVE Send(c)
    BY <1>2, <1>3, <1>6 DEF Request, TakePaceLock, GapOver, SendClosed, End
  <1>7. ASSUME NEW d \in Clients, Answer(d) \/ Cancel(d) PROVE Send(c)
    <2>1. phase' = [phase EXCEPT ![d] = "queued"]
      BY <1>7 DEF Answer, LogoutAnswered, IndexAnswered, LoginAccepted, LoginWrong,
         PageWhole, PageIncomplete, PageSessionLost, SaveAnswered, ByeAnswered,
         RequestFails, Cancel, End, Ask, LogIn
    <2> QED
      BY <1>2, <2>1
  <1>8. CASE ModbusTakes \/ ModbusEnds \/ Tick \/ UNCHANGED vars
    BY <1>1, <1>8 DEF ModbusTakes, ModbusEnds, Tick, vars, callVars
  <1> QED
    BY <1>4, <1>5, <1>6, <1>7, <1>8 DEF Next

\* A request of any client goes out only once the gap since the last one is over
\* and nobody else asks the controller, for any clients and any gap.
THEOREM GapAlwaysKept == Spec => GapIsKept
  <1>1. ClientInv /\ [Next]_vars =>
          [\A c \in Clients : phase[c] # "sent" /\ phase'[c] = "sent" =>
             calm = Gap /\ InFlight = {} /\ hostLock # Modbus]_vars
    <2> SUFFICES ASSUME ClientInv, [Next]_vars, NEW c \in Clients,
                        phase[c] # "sent", phase'[c] = "sent"
                 PROVE  calm = Gap /\ InFlight = {} /\ hostLock # Modbus
      OBVIOUS
    <2>1. phase[c] = "asking" /\ hostLock = Free
      BY OnlySendSends DEF Send
    <2>2. calm = Gap
      BY <2>1 DEF ClientInv, ClientOK, Shape, Paced
    <2>3. InFlight = {}
      BY <2>1 DEF ClientInv, ClientOK, Shape, InFlight
    <2> QED
      BY <2>1, <2>2, <2>3
  <1> QED
    BY <1>1, ClientAlways, PTL DEF Spec, GapIsKept

\* Once the controller called the password wrong it is never sent again.
THEOREM RefusedStaysRefused == Spec => RefusedPasswordNotResent
  <1>1. ClientInv /\ [Next]_vars =>
          [\A c \in Clients : refused[c] =>
             ~(stage[c] = "login" /\ phase[c] # "sent" /\ phase'[c] = "sent")]_vars
    BY DEF ClientInv, ClientOK, Session
  <1> QED
    BY <1>1, ClientAlways, PTL DEF Spec, RefusedPasswordNotResent

\* From the moment a client is closed, nothing but a logout goes out.
THEOREM ClosedStaysQuiet == Spec => ClosedIsQuiet
  <1>1. ClientInv /\ [Next]_vars =>
          [\A c \in Clients : closed[c] /\ phase[c] # "sent" /\ phase'[c] = "sent" =>
             stage[c] \in {"logout", "bye"}]_vars
    BY OnlySendSends DEF Send, Passes
  <1> QED
    BY <1>1, ClientAlways, PTL DEF Spec, ClosedIsQuiet

----
\* What a save says is so.

Honest(c) ==
    task'[c] = "none" /\ result'[c]["save"] # result[c]["save"] =>
         /\ result'[c]["save"] = "saved" => stored'[c]
         /\ result'[c]["save"] \in {"notSaved", "closed"} => ~stored'[c]

\* A call that ends and is no save tells nothing of one.
LEMMA OtherCallsSilent ==
  ASSUME Types, NEW c \in Clients, NEW outcome \in Outcomes,
         task[c] \notin {"none", "save"}, End(c, outcome)
  PROVE  Honest(c)
  BY EndFacts DEF Honest

LEMMA SaysWhatIs ==
  ASSUME ClientInv, NEW c \in Clients,
         \/ CallPage(c) \/ CallSave(c) \/ CallClose(c)
         \/ BeginPage(c) \/ BeginSave(c) \/ BeginClose(c)
         \/ Request(c) \/ Answer(c) \/ Cancel(c)
  PROVE  Honest(c)
  <1>0. /\ Types /\ ClientOK(c) /\ Outcomes # {}
        /\ {"post", "bye", "login", "get", "again", "logout", "index"} \subseteq Stages
        /\ {"closed", "cancelled", "saved", "maybeSaved", "notSaved", "done", "ok",
            "unreachable", "loginRefused", "broken"} \subseteq Outcomes
        /\ {"read", "save", "close"} \subseteq Tasks
    BY DEF Stages, Outcomes, ClientInv, Tasks
  <1>1. CASE UNCHANGED result
    BY <1>1 DEF Honest
  <1>2. CASE CallPage(c) \/ CallSave(c) \/ CallClose(c)
    BY <1>1, <1>2 DEF CallPage, CallSave, CallClose
  <1>3. CASE BeginPage(c)
    BY <1>1, <1>3 DEF BeginPage, TakenBy, EndsAtOnce, Ended
  <1>4. CASE BeginClose(c)
    <2>1. CASE EndsAtOnce(c, "close", "done")
      BY <1>0, <2>1, EndedFacts DEF EndsAtOnce, Honest
    <2> QED
      BY <1>1, <1>4, <2>1 DEF BeginClose, TakenBy
  <1>5. CASE BeginSave(c)
    <2>1. ~stored'[c]
      BY <1>0, <1>5 DEF BeginSave, Types
    <2>2. CASE TakenBy(c, "save", "post")
      BY <1>1, <2>2 DEF TakenBy
    <2>3. ASSUME NEW outcome \in {"closed", "notSaved"}, EndsAtOnce(c, "save", outcome)
          PROVE  Honest(c)
      <3>1. result'[c]["save"] = outcome
        BY <1>0, <2>3, EndedFacts DEF EndsAtOnce
      <3> QED
        BY <2>1, <2>3, <3>1 DEF Honest
    <2> QED
      BY <1>5, <2>2, <2>3 DEF BeginSave
  <1>6. CASE TakePaceLock(c) \/ GapOver(c) \/ Send(c)
    BY <1>1, <1>6 DEF TakePaceLock, GapOver, Send
  \* The client was closed before the POST went out.
  <1>7. CASE SendClosed(c)
    <2>1. /\ task[c] # "none" /\ End(c, "closed") /\ stored' = stored
      BY <1>7 DEF SendClosed, serverVars
    <2>2. CASE task[c] = "save"
      <3>1. result'[c]["save"] = "closed"
        BY <1>0, <2>1, <2>2, EndFacts
      <3>2. ~stored'[c]
        BY <1>0, <2>1, <2>2 DEF ClientOK, Saving
      <3> QED
        BY <3>1, <3>2 DEF Honest
    <2> QED
      BY <1>0, <2>1, <2>2, OtherCallsSilent
  <1>8. CASE SaveAnswered(c)
    <2>1. task[c] = "save" /\ ~stored[c]
      BY <1>0, <1>8, AnswerFacts DEF SaveAnswered, ClientOK, Saving
    <2>2. ASSUME NEW outcome \in {"saved", "maybeSaved"}, End(c, outcome),
                 stored' = [stored EXCEPT ![c] = TRUE]
          PROVE  Honest(c)
      <3>1. result'[c]["save"] = outcome /\ stored'[c]
        BY <1>0, <2>1, <2>2, EndFacts DEF Types
      <3> QED
        BY <3>1, <2>2 DEF Honest
    <2>3. ASSUME NEW outcome \in {"notSaved", "maybeSaved"}, End(c, outcome),
                 stored' = stored
          PROVE  Honest(c)
      <3>1. result'[c]["save"] = outcome /\ ~stored'[c]
        BY <1>0, <2>1, <2>3, EndFacts
      <3> QED
        BY <3>1, <2>3 DEF Honest
    <2> QED
      BY <1>8, <2>2, <2>3 DEF SaveAnswered
  <1>9. CASE RequestFails(c)
    <2>1. PICK s \in Stages : Answers(c, s)
      BY <1>9 DEF RequestFails
    <2>2. task[c] \in Tasks /\ task[c] # "none" /\ End(c, OutcomeOfFailure(c))
      BY <1>0, <1>9, <2>1, AnswerFacts DEF RequestFails, Types
    <2>3. CASE task[c] = "save"
      <3>1. OutcomeOfFailure(c) = "maybeSaved"
        BY <2>3 DEF OutcomeOfFailure
      <3>2. result'[c]["save"] = "maybeSaved"
        BY <1>0, <2>2, <2>3, <3>1, EndFacts
      <3> QED
        BY <3>2 DEF Honest
    <2>4. CASE task[c] # "save"
      <3>1. OutcomeOfFailure(c) \in Outcomes
        BY <1>0, <2>2, <2>4 DEF OutcomeOfFailure, Tasks
      <3> QED
        BY <1>0, <2>2, <2>4, <3>1, OtherCallsSilent
    <2> QED
      BY <2>3, <2>4
  \* The other answers are answers to a page or to a close.
  <1>10. CASE LogoutAnswered(c) \/ PageSessionLost(c)
    <2>1. task[c] = "read"
      BY <1>0, <1>10, AnswerFacts DEF LogoutAnswered, PageSessionLost
    <2>2. CASE LogIn(c)
      BY <1>0, <1>1, <2>1, <2>2, LogInFacts
    <2>3. CASE End(c, "unreachable")
      BY <1>0, <2>1, <2>3, OtherCallsSilent
    <2> QED
      BY <1>10, <2>2, <2>3 DEF LogoutAnswered, PageSessionLost
  <1>11. CASE \/ IndexAnswered(c) \/ LoginAccepted(c) \/ LoginWrong(c)
              \/ PageWhole(c) \/ PageIncomplete(c)
    <2>1. task[c] = "read"
      BY <1>0, <1>11, AnswerFacts DEF IndexAnswered, LoginAccepted, LoginWrong,
         PageWhole, PageIncomplete
    <2>2. CASE \E outcome \in Outcomes : End(c, outcome)
      BY <1>0, <2>1, <2>2, OtherCallsSilent
    <2> QED
      BY <1>0, <1>1, <1>11, <2>2 DEF IndexAnswered, LoginAccepted, LoginWrong,
         PageWhole, PageIncomplete, Ask
  <1>12. CASE ByeAnswered(c)
    <2>1. task[c] \notin {"none", "save"}
      BY <1>0, <1>12, AnswerFacts DEF ByeAnswered, ClientOK, Shape
    <2> QED
      BY <1>0, <1>12, <2>1, OtherCallsSilent DEF ByeAnswered
  <1>13. CASE Cancel(c)
    BY <1>0, <1>13, OtherCallsSilent DEF Cancel
  <1> QED
    BY <1>2, <1>3, <1>4, <1>5, <1>6, <1>7, <1>8, <1>9, <1>10, <1>11, <1>12, <1>13
       DEF Request, Answer

\* What a save says is so, however its answer was lost and whoever closed the
\* client meanwhile.
THEOREM SavesAreHonest == Spec => OutcomesAreHonest
  <1>1. ClientInv /\ [Next]_vars =>
          [\A c \in Clients :
             task'[c] = "none" /\ result'[c]["save"] # result[c]["save"] =>
               /\ result'[c]["save"] = "saved" => stored'[c]
               /\ result'[c]["save"] \in {"notSaved", "closed"} => ~stored'[c]]_vars
    <2> SUFFICES ASSUME ClientInv, Next, NEW c \in Clients PROVE Honest(c)
      BY DEF Honest
    <2>1. CASE \E d \in Clients :
                 \/ CallPage(d) \/ CallSave(d) \/ CallClose(d)
                 \/ BeginPage(d) \/ BeginSave(d) \/ BeginClose(d)
                 \/ Request(d) \/ Answer(d) \/ Cancel(d)
      <3>1. PICK d \in Clients :
                 \/ CallPage(d) \/ CallSave(d) \/ CallClose(d)
                 \/ BeginPage(d) \/ BeginSave(d) \/ BeginClose(d)
                 \/ Request(d) \/ Answer(d) \/ Cancel(d)
        BY <2>1
      <3>2. CASE c = d
        BY <3>1, <3>2, SaysWhatIs
      <3>3. CASE c # d
        <4>1. result'[c] = result[c]
          BY <3>1, <3>3, CallerKeeps DEF Keeps, Apart
        <4> QED
          BY <4>1 DEF Honest
      <3> QED
        BY <3>2, <3>3
    <2>2. CASE \/ \E d \in Clients : ServerDrops(d) \/ PasswordChanged(d)
               \/ ModbusTakes \/ ModbusEnds \/ Tick
      <3>1. UNCHANGED result
        BY <2>2 DEF ServerDrops, PasswordChanged, ModbusTakes, ModbusEnds, Tick,
           callVars
      <3> QED
        BY <3>1 DEF Honest
    <2> QED
      BY <2>1, <2>2 DEF Next
  <1> QED
    BY <1>1, ClientAlways, PTL DEF Spec, OutcomesAreHonest
====
