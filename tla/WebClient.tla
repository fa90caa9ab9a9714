---- MODULE WebClient ----
\* The web interface clients of one controller (webif/client.py): one login and
\* one request at a time per client, one gap between the requests of all of
\* them, and one lock shared with Modbus. A client is driven by three kinds of
\* call - page, save and close - that take turns under its own lock.
EXTENDS Integers, FiniteSets

CONSTANTS
    Clients,     \* clients of the controller: the entry's, a dialog's
    Dialogs,     \* those of a dialog: short-lived, may be cancelled, never save
    Gap,         \* MIN_GAP_SECONDS, in ticks
    Life,        \* SESSION_LIFETIME_SECONDS, in ticks
    MaxSaves,    \* bound: saves per client
    Modbus, Free

ASSUME ClientAssumption ==
    /\ Dialogs \subseteq Clients
    /\ Modbus \notin Clients /\ Free \notin Clients /\ Modbus # Free
    /\ Gap \in Nat /\ Life \in Nat \ {0} /\ MaxSaves \in Nat

Tasks == {"read", "save", "close"}
\* The request a call is at: in _ensure_session (logout, index, login), the
\* page, the page once more, the save, the logout of close.
Stages == {"logout", "index", "login", "get", "again", "post", "bye"}
\* How far it is: waiting for the pacing lock, waiting out the gap, waiting for
\* the controller's lock, on the wire.
Phases == {"queued", "pacing", "asking", "sent"}

VARIABLES
    task,        \* who holds a client's lock: one of Tasks, or "none"
    waiting,     \* who waits for it
    stage, phase,
    renewed,     \* the page under way renewed a lost session already
    loggedIn,    \* _logged_in_at is set
    lifeLeft,    \* ticks until the session is renewed
    cookie,      \* the client was handed a session id
    refused,     \* _refused_by is set
    closed,      \* _closed
    paceLock,    \* the client that holds the pacing lock
    gapLeft,     \* ticks until the next request may go out
    hostLock,    \* who holds the lock shared with Modbus
    good,        \* the controller knows the client's password
    open,        \* the controller holds the session the client knows of
    result       \* how a client's last save and its close ended

\* History the properties speak about.
VARIABLES
    saves,       \* saves begun, bound by MaxSaves
    posted, counted, \* the save under way: POSTs sent, count_write calls
    stored,      \* the save under way changed the setting
    unsure,      \* a login or logout ended without its answer
    calm         \* ticks since a request of any client ended, at most Gap

callVars == <<task, waiting, stage, phase, renewed, result>>
sessionVars == <<loggedIn, lifeLeft, cookie, refused, closed>>
serverVars == <<good, open, stored, unsure>>
saveVars == <<saves, posted, counted>>
paceVars == <<paceLock, gapLeft, calm>>
vars == <<callVars, sessionVars, serverVars, saveVars, paceVars, hostLock>>

Init ==
    /\ task = [c \in Clients |-> "none"]
    /\ waiting = [c \in Clients |-> {}]
    /\ stage = [c \in Clients |-> "get"]
    /\ phase = [c \in Clients |-> "queued"]
    /\ renewed = [c \in Clients |-> FALSE]
    /\ loggedIn = [c \in Clients |-> FALSE]
    /\ lifeLeft = [c \in Clients |-> 0]
    /\ cookie = [c \in Clients |-> FALSE]
    /\ refused = [c \in Clients |-> FALSE]
    /\ closed = [c \in Clients |-> FALSE]
    /\ paceLock = Free
    /\ gapLeft = 0
    /\ calm = Gap
    /\ hostLock = Free
    /\ good \in [Clients -> BOOLEAN]
    /\ open = [c \in Clients |-> FALSE]
    /\ result = [c \in Clients |-> [t \in {"save", "close"} |-> "none"]]
    /\ saves = [c \in Clients |-> 0]
    /\ posted = [c \in Clients |-> 0]
    /\ counted = [c \in Clients |-> 0]
    /\ stored = [c \in Clients |-> FALSE]
    /\ unsure = [c \in Clients |-> FALSE]

----
\* Steps of a call, as conjuncts of the actions below.

\* The next request of the call that holds the client's lock.
Ask(c, s) ==
    /\ stage' = [stage EXCEPT ![c] = s]
    /\ phase' = [phase EXCEPT ![c] = "queued"]
    /\ UNCHANGED <<task, result>>

\* How a save and a close end is remembered; a page is read again and again.
Ended(c, t, outcome) ==
    IF t = "read" THEN result ELSE [result EXCEPT ![c][t] = outcome]

\* The call ends and hands the client's lock back.
End(c, outcome) ==
    /\ task' = [task EXCEPT ![c] = "none"]
    /\ result' = Ended(c, task[c], outcome)
    /\ stage' = [stage EXCEPT ![c] = "get"]
    /\ phase' = [phase EXCEPT ![c] = "queued"]

\* Mutant of MayLogIn: a refused password is sent once more.
AlwaysLogsIn(c) == TRUE

\* A refused password is not sent again.
MayLogIn(c) == ~refused[c]

\* _login up to its first request.
LogIn(c) ==
    IF MayLogIn(c) THEN Ask(c, "index") ELSE End(c, "loginRefused")

\* Mutant of RequestOver: the gap is not started again.
RequestOverUnpaced ==
    /\ hostLock' = Free
    /\ paceLock' = Free
    /\ UNCHANGED gapLeft

\* The request is over: both locks are free, the gap runs from here.
RequestOver ==
    /\ hostLock' = Free
    /\ paceLock' = Free
    /\ gapLeft' = Gap

\* The number of requests that are out.
InFlight == {c \in Clients : phase[c] = "sent"}

----
\* page, save and close are called.

CallPage(c) ==
    /\ ~closed[c]
    /\ task[c] # "read" /\ "read" \notin waiting[c]
    /\ waiting' = [waiting EXCEPT ![c] = @ \cup {"read"}]
    /\ UNCHANGED <<task, stage, phase, renewed, result, sessionVars, serverVars,
                   saveVars, paceVars, hostLock>>

CallSave(c) ==
    /\ c \notin Dialogs
    /\ task[c] # "save" /\ "save" \notin waiting[c]
    /\ saves[c] < MaxSaves
    /\ saves' = [saves EXCEPT ![c] = @ + 1]
    /\ waiting' = [waiting EXCEPT ![c] = @ \cup {"save"}]
    /\ UNCHANGED <<task, stage, phase, renewed, result, sessionVars, serverVars,
                   posted, counted, paceVars, hostLock>>

\* From here on nothing but a logout goes out.
CallClose(c) ==
    /\ ~closed[c]
    /\ closed' = [closed EXCEPT ![c] = TRUE]
    /\ waiting' = [waiting EXCEPT ![c] = @ \cup {"close"}]
    /\ UNCHANGED <<task, stage, phase, renewed, result, loggedIn, lifeLeft,
                   cookie, refused, serverVars, saveVars, paceVars,
                   hostLock>>

\* The client's lock is handed to a waiting call.
Takes(c, t) ==
    /\ task[c] = "none"
    /\ t \in waiting[c]
    /\ waiting' = [waiting EXCEPT ![c] = @ \ {t}]
    /\ UNCHANGED <<serverVars, paceVars, hostLock, lifeLeft, cookie,
                   refused, closed>>

Fresh(c) == loggedIn[c] /\ lifeLeft[c] > 0

\* A call that ends at once, without a request: it held the lock for a moment.
EndsAtOnce(c, t, outcome) ==
    /\ result' = Ended(c, t, outcome)
    /\ UNCHANGED <<task, stage, phase>>

TakenBy(c, t, s) ==
    /\ task' = [task EXCEPT ![c] = t]
    /\ stage' = [stage EXCEPT ![c] = s]
    /\ phase' = [phase EXCEPT ![c] = "queued"]
    /\ UNCHANGED result

\* _read and _ensure_session: the session that is too old is given back first.
BeginPage(c) ==
    /\ Takes(c, "read")
    /\ renewed' = [renewed EXCEPT ![c] = FALSE]
    /\ \/ /\ Fresh(c)
          /\ TakenBy(c, "read", "get")
          /\ UNCHANGED loggedIn
       \/ /\ ~Fresh(c) /\ loggedIn[c]
          /\ TakenBy(c, "read", "logout")
          /\ loggedIn' = [loggedIn EXCEPT ![c] = FALSE]
       \/ /\ ~loggedIn[c] /\ MayLogIn(c)
          /\ TakenBy(c, "read", "index")
          /\ UNCHANGED loggedIn
       \/ /\ ~loggedIn[c] /\ ~MayLogIn(c)
          /\ EndsAtOnce(c, "read", "loginRefused")
          /\ UNCHANGED loggedIn
    /\ UNCHANGED saveVars

BeginSave(c) ==
    /\ task[c] = "none"
    /\ "save" \in waiting[c]
    /\ waiting' = [waiting EXCEPT ![c] = @ \ {"save"}]
    /\ stored' = [stored EXCEPT ![c] = FALSE]
    /\ posted' = [posted EXCEPT ![c] = 0]
    /\ counted' = [counted EXCEPT ![c] = 0]
    /\ \/ closed[c] /\ EndsAtOnce(c, "save", "closed")
       \/ ~closed[c] /\ ~cookie[c] /\ EndsAtOnce(c, "save", "notSaved")
       \/ ~closed[c] /\ cookie[c] /\ TakenBy(c, "save", "post")
    /\ UNCHANGED <<renewed, saves, sessionVars, good, open, unsure, paceVars, hostLock>>

\* Mutant of BeginClose: the lock is not waited for, and a login under way is
\* left to itself.
BeginCloseAtOnce(c) ==
    /\ "close" \in waiting[c]
    /\ waiting' = [waiting EXCEPT ![c] = @ \ {"close"}]
    /\ \/ /\ task[c] = "none" /\ loggedIn[c]
          /\ TakenBy(c, "close", "bye")
          /\ loggedIn' = [loggedIn EXCEPT ![c] = FALSE]
       \/ ~loggedIn[c] /\ EndsAtOnce(c, "close", "done") /\ UNCHANGED loggedIn
    /\ UNCHANGED <<renewed, saveVars, serverVars, paceVars, hostLock,
                   lifeLeft, cookie, refused, closed>>

\* close: a session the client knows of is logged out.
BeginClose(c) ==
    /\ Takes(c, "close")
    /\ loggedIn' = [loggedIn EXCEPT ![c] = FALSE]
    /\ \/ loggedIn[c] /\ TakenBy(c, "close", "bye")
       \/ ~loggedIn[c] /\ EndsAtOnce(c, "close", "done")
    /\ UNCHANGED <<renewed, saveVars>>

----
\* One request: _request, _pace and _exchange.

TakePaceLock(c) ==
    /\ task[c] # "none"
    /\ phase[c] = "queued"
    /\ paceLock = Free
    /\ paceLock' = c
    /\ phase' = [phase EXCEPT ![c] = "pacing"]
    /\ UNCHANGED <<task, waiting, stage, renewed, result, sessionVars,
                   serverVars, saveVars, gapLeft, calm, hostLock>>

GapOver(c) ==
    /\ task[c] # "none"
    /\ phase[c] = "pacing"
    /\ gapLeft = 0
    /\ phase' = [phase EXCEPT ![c] = "asking"]
    /\ UNCHANGED <<task, waiting, stage, renewed, result, sessionVars,
                   serverVars, saveVars, paceVars, hostLock>>

\* Mutant of Passes: only asked where a page or a save starts.
PassesAnyway(c) == TRUE

\* Only a logout passes a closed client.
Passes(c) == ~closed[c] \/ stage[c] \in {"logout", "bye"}

\* The controller's lock is the request's: it goes out, and a save is counted.
Send(c) ==
    /\ task[c] # "none"
    /\ phase[c] = "asking"
    /\ hostLock = Free
    /\ Passes(c)
    /\ hostLock' = c
    /\ phase' = [phase EXCEPT ![c] = "sent"]
    /\ IF stage[c] = "post"
       THEN /\ posted' = [posted EXCEPT ![c] = @ + 1]
            /\ counted' = [counted EXCEPT ![c] = @ + 1]
       ELSE UNCHANGED <<posted, counted>>
    /\ UNCHANGED <<task, waiting, stage, renewed, result, sessionVars,
                   serverVars, saves, paceVars>>

\* Mutant of SendClosed: the pacing lock stays with the closed client.
SendClosedLocked(c) ==
    /\ task[c] # "none"
    /\ phase[c] = "asking"
    /\ hostLock = Free
    /\ ~Passes(c)
    /\ End(c, "closed")
    /\ UNCHANGED <<waiting, renewed, sessionVars, serverVars, saveVars, paceVars, hostLock>>

\* Mutant of SendClosed: counted before the client is found closed.
SendClosedCounted(c) ==
    /\ task[c] # "none"
    /\ phase[c] = "asking"
    /\ hostLock = Free
    /\ ~Passes(c)
    /\ paceLock' = Free
    /\ counted' = [counted EXCEPT ![c] = @ + (IF task[c] = "save" THEN 1 ELSE 0)]
    /\ End(c, "closed")
    /\ UNCHANGED <<waiting, renewed, sessionVars, serverVars, saves, posted,
                   gapLeft, calm, hostLock>>

\* The client was closed meanwhile: nothing goes out.
SendClosed(c) ==
    /\ task[c] # "none"
    /\ phase[c] = "asking"
    /\ hostLock = Free
    /\ ~Passes(c)
    /\ paceLock' = Free
    /\ End(c, "closed")
    /\ UNCHANGED <<waiting, renewed, sessionVars, serverVars, saveVars, gapLeft, calm,
                   hostLock>>

----
\* The answers. No answer (a timeout, a broken connection, an answer too large)
\* and an error status end the call alike; what the request did is open.

\* The request of stage s is answered.
Answers(c, s) ==
    /\ task[c] # "none"
    /\ stage[c] = s
    /\ phase[c] = "sent"
    /\ RequestOver
    /\ calm' = 0
    /\ UNCHANGED <<waiting, closed, good, saveVars>>

\* The old session is given back; the login follows.
LogoutAnswered(c) ==
    /\ Answers(c, "logout")
    /\ open' = [open EXCEPT ![c] = FALSE]
    /\ LogIn(c)
    /\ UNCHANGED <<renewed, loggedIn, lifeLeft, cookie, refused, stored, unsure>>

IndexAnswered(c) ==
    /\ Answers(c, "index")
    /\ Ask(c, "login")
    /\ UNCHANGED <<renewed, loggedIn, lifeLeft, cookie, refused, open, stored, unsure>>

LoginAccepted(c) ==
    /\ Answers(c, "login")
    /\ good[c]
    /\ open' = [open EXCEPT ![c] = TRUE]
    /\ cookie' = [cookie EXCEPT ![c] = TRUE]
    /\ loggedIn' = [loggedIn EXCEPT ![c] = TRUE]
    /\ lifeLeft' = [lifeLeft EXCEPT ![c] = Life]
    /\ Ask(c, "get")
    /\ UNCHANGED <<renewed, refused, stored, unsure>>

\* The password is wrong, and remembered as wrong.
LoginWrong(c) ==
    /\ Answers(c, "login")
    /\ ~good[c]
    /\ refused' = [refused EXCEPT ![c] = TRUE]
    /\ End(c, "loginRefused")
    /\ UNCHANGED <<renewed, loggedIn, lifeLeft, cookie, open, stored, unsure>>

PageWhole(c) ==
    /\ Answers(c, "get") \/ Answers(c, "again")
    /\ open[c]
    /\ End(c, "ok")
    /\ UNCHANGED <<renewed, loggedIn, lifeLeft, cookie, refused, open, stored, unsure>>

\* A page served half is asked for once more; half again, it is broken.
PageIncomplete(c) ==
    /\ open[c]
    /\ \/ Answers(c, "get") /\ Ask(c, "again")
       \/ Answers(c, "again") /\ End(c, "broken")
    /\ UNCHANGED <<renewed, loggedIn, lifeLeft, cookie, refused, open, stored, unsure>>

\* The redirect of a lost session: renewed once, and only for the first try.
PageSessionLost(c) ==
    /\ ~open[c]
    /\ \/ /\ Answers(c, "get") /\ ~renewed[c]
          /\ renewed' = [renewed EXCEPT ![c] = TRUE]
          /\ loggedIn' = [loggedIn EXCEPT ![c] = FALSE]
          /\ LogIn(c)
       \/ /\ (Answers(c, "get") /\ renewed[c]) \/ Answers(c, "again")
          /\ End(c, "unreachable")
          /\ UNCHANGED <<renewed, loggedIn>>
    /\ UNCHANGED <<lifeLeft, cookie, refused, open, stored, unsure>>

\* What a request did that ended without a proper answer.
MayHaveDone(c) ==
    /\ open' \in {open, IF stage[c] \in {"logout", "bye"}
                       THEN [open EXCEPT ![c] = FALSE] ELSE open}
    /\ unsure' = IF stage[c] \in {"logout", "login", "bye"}
                 THEN [unsure EXCEPT ![c] = TRUE] ELSE unsure
    /\ stored' \in {stored, IF stage[c] = "post" /\ open[c]
                           THEN [stored EXCEPT ![c] = TRUE] ELSE stored}

\* Mutant of OutcomeOfFailure: a save without an answer is taken for no save.
OutcomeNotSaved(c) ==
    CASE task[c] = "close" -> "done"
      [] task[c] = "save" -> "notSaved"
      [] task[c] = "read" -> "unreachable"

\* How a call ends on a request that failed. A close never fails.
OutcomeOfFailure(c) ==
    CASE task[c] = "close" -> "done"
      [] task[c] = "save" -> "maybeSaved"
      [] task[c] = "read" -> "unreachable"

RequestFails(c) ==
    /\ \E s \in Stages : Answers(c, s)
    /\ MayHaveDone(c)
    /\ End(c, OutcomeOfFailure(c))
    /\ UNCHANGED <<renewed, loggedIn, lifeLeft, cookie, refused>>

\* _raise_unless_saved: the menu page says saved, the login page says not;
\* anything else leaves it open.
SaveAnswered(c) ==
    /\ Answers(c, "post")
    /\ \/ /\ open[c] /\ stored' = [stored EXCEPT ![c] = TRUE]
          /\ \E outcome \in {"saved", "maybeSaved"} : End(c, outcome)
       \/ open[c] /\ End(c, "maybeSaved") /\ UNCHANGED stored
       \/ ~open[c] /\ End(c, "notSaved") /\ UNCHANGED stored
    /\ UNCHANGED <<renewed, loggedIn, lifeLeft, cookie, refused, open, unsure>>

ByeAnswered(c) ==
    /\ Answers(c, "bye")
    /\ open' = [open EXCEPT ![c] = FALSE]
    /\ End(c, "done")
    /\ UNCHANGED <<renewed, loggedIn, lifeLeft, cookie, refused, stored, unsure>>

\* A dialog is closed in the middle of its visit: the page is called off,
\* wherever it is, and the locks it holds are released.
Cancel(c) ==
    /\ c \in Dialogs
    /\ task[c] = "read"
    /\ End(c, "cancelled")
    /\ IF phase[c] = "sent"
       THEN RequestOver /\ calm' = 0 /\ MayHaveDone(c)
       ELSE /\ paceLock' = IF paceLock = c THEN Free ELSE paceLock
            /\ UNCHANGED <<gapLeft, calm, hostLock, open, unsure, stored>>
    /\ UNCHANGED <<waiting, renewed, sessionVars, good, saveVars>>

----
\* The world around.

ModbusTakes ==
    /\ hostLock = Free
    /\ hostLock' = Modbus
    /\ UNCHANGED <<callVars, sessionVars, serverVars, saveVars, paceVars>>

ModbusEnds ==
    /\ hostLock = Modbus
    /\ hostLock' = Free
    /\ UNCHANGED <<callVars, sessionVars, serverVars, saveVars, paceVars>>

\* The controller forgets a session it gave.
ServerDrops(c) ==
    /\ open[c]
    /\ open' = [open EXCEPT ![c] = FALSE]
    /\ UNCHANGED <<callVars, sessionVars, good, stored, unsure, saveVars,
                   paceVars, hostLock>>

PasswordChanged(c) ==
    /\ good[c]
    /\ good' = [good EXCEPT ![c] = FALSE]
    /\ UNCHANGED <<callVars, sessionVars, open, stored, unsure, saveVars,
                   paceVars, hostLock>>

\* Mutant of Tick: the gap runs on below nought.
TickBelow ==
    /\ gapLeft > 0 \/ calm < Gap \/ \E c \in Clients \ Dialogs : lifeLeft[c] > 0
    /\ gapLeft' = gapLeft - 1
    /\ calm' = IF calm < Gap THEN calm + 1 ELSE Gap
    /\ lifeLeft' = [c \in Clients |->
                      IF c \notin Dialogs /\ lifeLeft[c] > 0
                      THEN lifeLeft[c] - 1 ELSE lifeLeft[c]]
    /\ UNCHANGED <<callVars, loggedIn, cookie, refused, closed, serverVars,
                   saveVars, paceLock, hostLock>>

\* Time passes for the gap and for the sessions of the entries' clients.
Tick ==
    /\ gapLeft > 0 \/ calm < Gap \/ \E c \in Clients \ Dialogs : lifeLeft[c] > 0
    /\ gapLeft' = IF gapLeft > 0 THEN gapLeft - 1 ELSE 0
    /\ calm' = IF calm < Gap THEN calm + 1 ELSE Gap
    /\ lifeLeft' = [c \in Clients |->
                      IF c \notin Dialogs /\ lifeLeft[c] > 0
                      THEN lifeLeft[c] - 1 ELSE lifeLeft[c]]
    /\ UNCHANGED <<callVars, loggedIn, cookie, refused, closed, serverVars,
                   saveVars, paceLock, hostLock>>

Request(c) ==
    \/ TakePaceLock(c) \/ GapOver(c) \/ Send(c) \/ SendClosed(c)

Answer(c) ==
    \/ LogoutAnswered(c) \/ IndexAnswered(c) \/ LoginAccepted(c) \/ LoginWrong(c)
    \/ PageWhole(c) \/ PageIncomplete(c) \/ PageSessionLost(c)
    \/ SaveAnswered(c) \/ ByeAnswered(c) \/ RequestFails(c)

Next ==
    \/ \E c \in Clients :
        \/ CallPage(c) \/ CallSave(c) \/ CallClose(c)
        \/ BeginPage(c) \/ BeginSave(c) \/ BeginClose(c)
        \/ Request(c) \/ Answer(c) \/ Cancel(c)
        \/ ServerDrops(c) \/ PasswordChanged(c)
    \/ ModbusTakes \/ ModbusEnds \/ Tick

Spec == Init /\ [][Next]_vars

\* asyncio.Lock hands itself on in the order of arrival (strong fairness for a
\* waiting call), a sleep ends, and every request ends within its time limit.
Fairness ==
    /\ \A c \in Clients :
        /\ SF_vars(BeginPage(c)) /\ SF_vars(BeginSave(c)) /\ SF_vars(BeginClose(c))
        /\ SF_vars(TakePaceLock(c)) /\ WF_vars(GapOver(c))
        /\ SF_vars(Send(c) \/ SendClosed(c))
        /\ WF_vars(Answer(c))
    /\ WF_vars(ModbusEnds) /\ WF_vars(Tick)

FairSpec == Spec /\ Fairness

----
\* Properties.

Outcomes == {"none", "ok", "broken", "unreachable", "loginRefused", "closed",
             "cancelled", "saved", "notSaved", "maybeSaved", "done"}

\* Every variable has its type.
TypeOK ==
    /\ task \in [Clients -> Tasks \cup {"none"}]
    /\ waiting \in [Clients -> SUBSET Tasks]
    /\ stage \in [Clients -> Stages]
    /\ phase \in [Clients -> Phases]
    /\ {renewed, loggedIn, cookie, refused, closed, good, open, stored, unsure}
         \subseteq [Clients -> BOOLEAN]
    /\ lifeLeft \in [Clients -> 0..Life]
    /\ paceLock \in Clients \cup {Free}
    /\ gapLeft \in 0..Gap /\ calm \in 0..Gap
    /\ hostLock \in Clients \cup {Modbus, Free}
    /\ result \in [Clients -> [{"save", "close"} -> Outcomes]]
    /\ saves \in [Clients -> 0..MaxSaves]
    /\ posted \in [Clients -> Nat] /\ counted \in [Clients -> Nat]

\* A request of any client goes out only once the gap since the end of the last
\* request of any of them is over, and while nobody else asks the controller
\* (Pacing, the lock shared with Modbus).
GapIsKept ==
    [][\A c \in Clients : phase[c] # "sent" /\ phase'[c] = "sent" =>
         calm = Gap /\ InFlight = {} /\ hostLock # Modbus]_vars

\* Once the controller called the password wrong, the client never sends it
\* again, whichever call comes next (_refused_by).
RefusedPasswordNotResent ==
    [][\A c \in Clients :
         refused[c] => ~(stage[c] = "login" /\ phase[c] # "sent" /\ phase'[c] = "sent")]_vars

\* From the moment a client is closed, nothing but a logout goes out, not even
\* the rest of a login or a page that was waiting its turn (close, _exchange).
ClosedIsQuiet ==
    [][\A c \in Clients : closed[c] /\ phase[c] # "sent" /\ phase'[c] = "sent" =>
         stage[c] \in {"logout", "bye"}]_vars

\* A close that is done leaves no session on the controller, as long as every
\* login and logout was answered (close, _logout).
CloseFreesTheSession ==
    \A c \in Clients : result[c]["close"] = "done" /\ ~unsure[c] => ~open[c]

\* A save is counted as a write exactly when its POST goes out, and goes out at
\* most once (save, sending).
SavesAreCountedOnce ==
    \A c \in Clients : counted[c] = posted[c] /\ posted[c] <= 1

\* What a save says is so: saved is stored, and not saved or closed is not; only
\* maybe saved may be either (save, _raise_unless_saved).
OutcomesAreHonest ==
    [][\A c \in Clients : task'[c] = "none" /\ result'[c]["save"] # result[c]["save"] =>
         /\ result'[c]["save"] = "saved" => stored'[c]
         /\ result'[c]["save"] \in {"notSaved", "closed"} => ~stored'[c]]_vars

\* A close gets its turn and ends, and so does a page or a save that waits for
\* one, whatever the other calls and Modbus do (close, _lock).
EveryCallEnds ==
    \A c \in Clients :
        /\ closed[c] ~> result[c]["close"] = "done"
        /\ \A t \in {"read", "save"} :
            t \in waiting[c] ~> t \notin waiting[c] /\ task[c] # t
====
