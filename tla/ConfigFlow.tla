---- MODULE ConfigFlow ----
\* The dialogs (config_flow.py) and the entries they make: pumps, and the web
\* interfaces that follow them (follow_pump and _retitle_after_pump of
\* __init__.py). Several dialogs are open at once, each waits seconds for a
\* probe or a visit, and the user renames and removes entries meanwhile. Home
\* Assistant's own part - flows, entry storage, reloads - is as far as the code
\* relies on it. What a visit finds is Visit's, what a running entry does
\* PumpEntry's and WebifCoordinator's.
EXTENDS Naturals, FiniteSets, Functions

CONSTANTS
    Pumps, Webs,     \* entry ids, never used twice
    Flows,           \* dialogs open at once
    Hosts,           \* endpoints: host and port, in lower case
    Postfixes,       \* what users type for a second pump; "" is none
    Own,             \* a title given by the user, none the code would make
    None,
    MaxReloads       \* bound: reloads of an entry waiting at once

VARIABLES
    pumps,      \* the pump entries, by id
    webs,       \* the web interface entries, by id
    gone,       \* the ids of removed entries
    flows,      \* the open dialogs
    reserved    \* RESERVED_POSTFIXES: the postfix a dialog probes with

entries == <<pumps, webs, gone>>
flowVars == <<pumps, webs, gone, flows, reserved>>

Put(f, key, value) == [k \in DOMAIN f \cup {key} |-> IF k = key THEN value ELSE f[k]]
Without(f, key) == Restrict(f, DOMAIN f \ {key})

----
\* Identities and titles.

NoUid == <<>>
PumpUid(host) == <<"endpoint", host>>
WebUid(pump) == <<"web interface of", pump>>
WebTitle(title) == <<"web interface of", title>>

ASSUME FlowAssumption ==
    /\ MaxReloads \in Nat \ {0}
    /\ Pumps \cap Webs = {}
    /\ None \notin Pumps \cup Webs \cup Hosts \cup {Own}
    /\ "" \in Postfixes
    /\ Own \notin Hosts \cup {WebTitle(t) : t \in Hosts \cup {Own, None}}

\* The data a web interface starts with: a migration completes it, too.
Data(pump) == <<pump.host, pump.migrated>>

\* An entry of an older version: no identity yet, and no postfix.
OldPump(host) ==
    [host |-> host, uid |-> NoUid, postfix |-> "", title |-> host, migrated |-> FALSE]
NewPump(host, postfix) ==
    [host |-> host, uid |-> PumpUid(host), postfix |-> postfix, title |-> host,
     migrated |-> TRUE]

\* A web interface entry before its set-up. `madeFrom`: the pump title its own
\* was made from, None in the first beta's entries.
NewWeb(p, title, madeFrom) ==
    [pump |-> p, title |-> WebTitle(title), madeFrom |-> madeFrom, state |-> "starting",
     startedWith |-> None, titledAt |-> None, reloading |-> FALSE, asked |-> 0,
     reloads |-> 0]

\* No dialog is open, and the entries of `used` were there once.
Init(used) ==
    /\ gone = used /\ flows = <<>> /\ reserved = <<>>
    /\ \/ /\ webs = <<>>
          /\ \E S \in SUBSET (Pumps \ used) : \E hosts \in [S -> Hosts] :
                pumps = [p \in S |-> OldPump(hosts[p])]
       \/ \E p \in Pumps \ used, w \in Webs \ used, h \in Hosts :
            /\ pumps = [q \in {p} |->
                          [OldPump(h) EXCEPT !.uid = PumpUid(h), !.migrated = TRUE]]
            /\ webs = [v \in {w} |-> NewWeb(p, h, None)]

----
\* How a web interface follows its pump.

MadeFrom(web) == IF web.madeFrom = None THEN web.titledAt ELSE web.madeFrom

\* _retitle_after_pump: a title the user gave stays.
Retitled(web, title) ==
    IF MadeFrom(web) = title \/ web.title # WebTitle(MadeFrom(web)) THEN web
    ELSE [web EXCEPT !.title = WebTitle(title), !.madeFrom = title]

\* async_schedule_reload, for follow_pump.
ReloadAsked(web) == [web EXCEPT !.asked = @ + 1, !.reloads = @ + 1]

\* Mutant of Following: each change schedules a reload, also while one waits.
FollowingEach(web, removed, pump) ==
    LET named == IF removed THEN web ELSE Retitled(web, pump.title)
    IN IF removed \/ Data(pump) # web.startedWith THEN ReloadAsked(named) ELSE named

\* follow_pump: the listener of a set-up, told of a change of its pump.
Following(web, removed, pump) ==
    LET named == IF removed THEN web ELSE Retitled(web, pump.title)
    IN IF web.reloading THEN web
       ELSE IF removed \/ Data(pump) # web.startedWith
            THEN [ReloadAsked(named) EXCEPT !.reloading = TRUE]
            ELSE named

TellFollowers(p, removed, pump) ==
    webs' = [w \in DOMAIN webs |->
                IF webs[w].pump = p /\ webs[w].state = "loaded"
                THEN Following(webs[w], removed, pump) ELSE webs[w]]

\* Home Assistant stores a pump entry and tells everyone.
UpdatePump(p, pump) == pumps' = [pumps EXCEPT ![p] = pump] /\ TellFollowers(p, FALSE, pump)

\* The unload drops the listener and what its set-up remembered.
Unloaded(web, state) ==
    [web EXCEPT !.state = state, !.startedWith = None, !.titledAt = None,
                !.reloading = FALSE, !.asked = 0]

\* _async_setup_web_interface, up to its listener.
SetUp(w) ==
    /\ webs[w].state = "starting"
    /\ LET p == webs[w].pump
           started == [webs[w] EXCEPT !.state = "loaded", !.startedWith = Data(pumps[p]),
                                      !.titledAt = pumps[p].title]
       IN webs' = [webs EXCEPT ![w] =
                    IF p \in DOMAIN pumps THEN Retitled(started, pumps[p].title)
                    ELSE Unloaded(@, "failed")]
    /\ UNCHANGED <<pumps, gone, flows, reserved>>

Reload(w) ==
    /\ webs[w].reloads > 0 /\ webs[w].state # "starting"
    /\ LET left == [webs[w] EXCEPT !.reloads = @ - 1]
       IN webs' = [webs EXCEPT ![w] =
                    IF left.state = "off" THEN left ELSE Unloaded(left, "starting")]
    /\ UNCHANGED <<pumps, gone, flows, reserved>>

\* The identity async_migrate_entry gives: none where another entry has it.
MigrateEntry(p) ==
    LET holders == {q \in DOMAIN pumps \ {p} : pumps[q].uid = PumpUid(pumps[p].host)}
    IN /\ ~pumps[p].migrated
       /\ UpdatePump(p, [pumps[p] EXCEPT !.migrated = TRUE,
                !.uid = IF holders = {} THEN PumpUid(pumps[p].host) ELSE NoUid])
       /\ UNCHANGED <<gone, flows, reserved>>

----
\* What the dialogs go by.

\* A dialog shows its form or waits; `input` is what it was given.
Flow(kind, entry, step, uid, input) ==
    [kind |-> kind, entry |-> entry, step |-> step, uid |-> uid, input |-> input]

Ready(f, kind, entry) ==
    f \in DOMAIN flows =>
        flows[f].kind = kind /\ flows[f].entry = entry /\ flows[f].step = "form"
Waits(f, kind) == flows[f].kind = kind /\ flows[f].step = "waits"

Goes(f, flow) == flows' = Put(flows, f, flow)
BackToForm(f) == Goes(f, [flows[f] EXCEPT !.step = "form", !.input = <<>>])
Ends(f) == flows' = Without(flows, f)
\* Mutant of Releases: a reservation outlives its dialog.
ReleasesNone(f) == UNCHANGED reserved
\* async_remove, and the release after an error.
Releases(f) == reserved' = Without(reserved, f)

\* async_set_unique_id refuses an identity another open dialog has.
InProgress(f, uid) == \E g \in DOMAIN flows \ {f} : flows[g].uid = uid
Configured(uid) == \E p \in DOMAIN pumps : pumps[p].uid = uid

\* namespace_error, turned round.
NamespaceFree(postfix, pending) ==
    LET taken == {pumps[p].postfix : p \in DOMAIN pumps} \cup pending
    IN taken # {} => postfix # "" /\ postfix \notin taken
PostfixesOfOtherFlows(f) == {reserved[g] : g \in DOMAIN reserved \ {f}}

Offered == {p \in DOMAIN pumps : \A w \in DOMAIN webs : webs[w].pump # p}

----
\* A new pump.

\* _objection, up to the probe.
SubmitPump(f, host, postfix) ==
    LET uid == PumpUid(host)
        aborted == InProgress(f, uid) \/ Configured(uid)
        free == NamespaceFree(postfix, PostfixesOfOtherFlows(f))
    IN /\ Ready(f, "pump", None)
       /\ \/ aborted /\ Ends(f) /\ Releases(f)
          \/ /\ ~aborted /\ ~free
             /\ Goes(f, Flow("pump", None, "form", uid, <<>>)) /\ Releases(f)
          \/ /\ ~aborted /\ free
             /\ Goes(f, Flow("pump", None, "waits", uid, <<host, postfix>>))
             /\ reserved' = Put(reserved, f, postfix)
       /\ UNCHANGED entries

\* Mutant of AfterProbe: the identity is not looked at again.
AfterProbeUnchecked(f) ==
    IF NamespaceFree(flows[f].input[2], {}) THEN "create" ELSE "form"

\* _reserved_objection, once the pump answered.
AfterProbe(f) ==
    IF Configured(flows[f].uid) THEN "abort"
    ELSE IF NamespaceFree(flows[f].input[2], {}) THEN "create" ELSE "form"

\* Home Assistant replaces an entry that has the new one's identity.
CreatePump(f) ==
    LET replaced == {q \in DOMAIN pumps : pumps[q].uid = flows[f].uid}
    IN \E p \in Pumps \ (DOMAIN pumps \cup gone) :
        /\ pumps' = Put(Restrict(pumps, DOMAIN pumps \ replaced), p,
                        NewPump(flows[f].input[1], flows[f].input[2]))
        /\ gone' = gone \cup replaced

\* _pump_form after the probe: it failed, or the dialog goes on.
PumpProbed(f) ==
    /\ Waits(f, "pump") /\ Releases(f)
    /\ \/ BackToForm(f) /\ UNCHANGED entries
       \/ AfterProbe(f) = "form" /\ BackToForm(f) /\ UNCHANGED entries
       \/ AfterProbe(f) = "abort" /\ Ends(f) /\ UNCHANGED entries
       \/ AfterProbe(f) = "create" /\ Ends(f) /\ CreatePump(f) /\ UNCHANGED webs

\* async_step_reconfigure: postfix and prefix stay; the probe comes first.
Reconfigure(f, p, host) ==
    /\ Ready(f, "reconfigure", p)
    /\ IF p \in DOMAIN pumps
       THEN Goes(f, Flow("reconfigure", p, "waits", NoUid, <<host>>)) ELSE Ends(f)
    /\ UNCHANGED <<entries, reserved>>

\* Mutant of HeldByOther: a second entry on one endpoint is let pass.
HeldByNone(p, uid) == FALSE

HeldByOther(p, uid) == \E q \in DOMAIN pumps \ {p} : pumps[q].uid = uid

\* _title_after_reconfigure
TitleAfterReconfigure(pump, host) == IF pump.title = pump.host THEN host ELSE pump.title

\* An entry removed meanwhile cannot be updated: the dialog ends in an error.
Reconfigured(f) ==
    LET p == flows[f].entry
        host == flows[f].input[1]
        refused == p \notin DOMAIN pumps \/ HeldByOther(p, PumpUid(host))
    IN /\ Waits(f, "reconfigure")
       /\ \/ BackToForm(f) /\ UNCHANGED <<pumps, webs>>
          \/ refused /\ Ends(f) /\ UNCHANGED <<pumps, webs>>
          \/ /\ ~refused /\ Ends(f)
             /\ UpdatePump(p, [pumps[p] EXCEPT !.host = host, !.uid = PumpUid(host),
                                   !.title = TitleAfterReconfigure(pumps[p], host)])
       /\ UNCHANGED <<gone, reserved>>

----
\* A web interface, and a new login for one.

\* async_step_webif with the form's input: the pump picked may be gone since.
SubmitWebif(f, p) ==
    LET accepted == p \in Offered /\ ~InProgress(f, WebUid(p))
    IN /\ Ready(f, "webif", None) /\ p \in DOMAIN pumps \cup gone
       /\ IF accepted THEN Goes(f, Flow("webif", None, "waits", WebUid(p), <<p>>))
          ELSE Ends(f)
       /\ UNCHANGED <<entries, reserved>>

\* _webif_visited: the visit failed, or it found the pages.
WebifVisited(f) ==
    LET p == flows[f].input[1]
        replaced == {w \in DOMAIN webs : webs[w].pump = p}
    IN /\ Waits(f, "webif")
       /\ \/ p \notin DOMAIN pumps /\ Ends(f) /\ UNCHANGED <<webs, gone>>
          \/ p \in DOMAIN pumps /\ BackToForm(f) /\ UNCHANGED <<webs, gone>>
          \/ /\ p \in DOMAIN pumps /\ Ends(f)
             /\ \E w \in Webs \ (DOMAIN webs \cup gone) :
                    webs' = Put(Restrict(webs, DOMAIN webs \ replaced), w,
                                NewWeb(p, pumps[p].title, pumps[p].title))
             /\ gone' = gone \cup replaced
       /\ UNCHANGED <<pumps, reserved>>

\* _web_interface_login: the reauth and the reconfigure dialog.
SubmitLogin(f, w) ==
    /\ Ready(f, "login", w)
    /\ IF w \in DOMAIN webs /\ webs[w].pump \in DOMAIN pumps
       THEN Goes(f, Flow("login", w, "waits", NoUid, <<>>)) ELSE Ends(f)
    /\ UNCHANGED <<entries, reserved>>

LoggedIn(f) ==
    LET w == flows[f].entry
    IN /\ Waits(f, "login")
       /\ \/ w \in DOMAIN webs /\ BackToForm(f) /\ UNCHANGED webs
          \/ w \notin DOMAIN webs /\ Ends(f) /\ UNCHANGED webs
          \/ /\ w \in DOMAIN webs /\ webs[w].reloads < MaxReloads /\ Ends(f)
             /\ webs' = [webs EXCEPT ![w].reloads = @ + 1]
       /\ UNCHANGED <<pumps, gone, reserved>>

\* async_update_reload_and_abort still comes after a reconfigure closed in its
\* probe, so closing that one shows in nothing.
CloseDialog(f) ==
    /\ ~Waits(f, "reconfigure")
    /\ Ends(f) /\ Releases(f) /\ UNCHANGED entries

----
\* What the user does to the entries.

RemovePump(p) ==
    /\ pumps' = Without(pumps, p) /\ gone' = gone \cup {p} /\ TellFollowers(p, TRUE, pumps[p])
    /\ UNCHANGED <<flows, reserved>>
RenamePump(p) ==
    /\ UpdatePump(p, [pumps[p] EXCEPT !.title = Own])
    /\ UNCHANGED <<gone, flows, reserved>>
RemoveWeb(w) ==
    /\ webs[w].state # "starting"
    /\ webs' = Without(webs, w) /\ gone' = gone \cup {w}
    /\ UNCHANGED <<pumps, flows, reserved>>
RenameWeb(w) ==
    /\ webs' = [webs EXCEPT ![w].title = Own]
    /\ UNCHANGED <<pumps, gone, flows, reserved>>
SwitchWeb(w) ==
    /\ webs[w].state # "starting" /\ webs[w].reloads < MaxReloads
    /\ webs' = [webs EXCEPT ![w] =
                    Unloaded(@, IF @.state = "off" THEN "starting" ELSE "off")]
    /\ UNCHANGED <<pumps, gone, flows, reserved>>

FlowNext ==
    \/ \E f \in Flows :
        \/ \E h \in Hosts, x \in Postfixes : SubmitPump(f, h, x)
        \/ \E p \in DOMAIN pumps \cup gone, h \in Hosts : p \in Pumps /\ Reconfigure(f, p, h)
        \/ \E p \in Pumps : SubmitWebif(f, p)
        \/ \E w \in DOMAIN webs \cup gone : w \in Webs /\ SubmitLogin(f, w)
    \/ \E f \in DOMAIN flows :
        PumpProbed(f) \/ Reconfigured(f) \/ WebifVisited(f) \/ LoggedIn(f) \/ CloseDialog(f)
    \/ \E p \in DOMAIN pumps : MigrateEntry(p) \/ RemovePump(p) \/ RenamePump(p)
    \/ \E w \in DOMAIN webs :
        SetUp(w) \/ Reload(w) \/ RemoveWeb(w) \/ RenameWeb(w) \/ SwitchWeb(w)

----
TypeOK ==
    /\ DOMAIN pumps \subseteq Pumps /\ DOMAIN webs \subseteq Webs
    /\ DOMAIN reserved \subseteq DOMAIN flows /\ DOMAIN flows \subseteq Flows
    /\ \A p \in DOMAIN pumps :
        pumps[p] \in [host : Hosts, uid : {NoUid} \cup {PumpUid(h) : h \in Hosts},
                     postfix : Postfixes, title : Hosts \cup {Own}, migrated : BOOLEAN]
    /\ gone \subseteq Pumps \cup Webs
    /\ gone \cap (DOMAIN pumps \cup DOMAIN webs) = {}
    /\ \A w \in DOMAIN webs :
        /\ webs[w].state \in {"starting", "loaded", "failed", "off"}
        /\ webs[w].reloads \in 0..MaxReloads + 1
        /\ webs[w].state # "loaded" => ~webs[w].reloading /\ webs[w].asked = 0
    /\ \A f \in DOMAIN flows :
        /\ flows[f].kind \in {"pump", "reconfigure", "webif", "login"}
        /\ flows[f].step \in {"form", "waits"}
    /\ \A f \in DOMAIN reserved : reserved[f] \in Postfixes

\* Whatever dialogs were open together and whatever moved while they probed:
\* no two entries share an endpoint's identity or a postfix - and with it their
\* entities' ids -, a pump has one web interface, no two dialogs are at one
\* identity, and only a dialog that probes holds a postfix against the others:
\* one left open after an error does not. (Entries of older versions may share
\* the endpoint, one without an identity, and the empty postfix.)
EntriesStayApart ==
    /\ \A p, q \in DOMAIN pumps :
        p # q => /\ pumps[p].uid = pumps[q].uid => pumps[p].uid = NoUid
                 /\ pumps[p].postfix = pumps[q].postfix => pumps[p].postfix = ""
    /\ \A v, w \in DOMAIN webs : v # w => webs[v].pump # webs[w].pump
    /\ \A f, g \in DOMAIN flows :
        f # g => /\ flows[f].uid = flows[g].uid => flows[f].uid = NoUid
                 /\ {f, g} \subseteq DOMAIN reserved => reserved[f] # reserved[g]
    /\ DOMAIN reserved = {f \in DOMAIN flows : Waits(f, "pump")}

\* Only the user takes something away: no dialog replaces an entry - Home
\* Assistant would, entities and history with it, when two are made with one
\* identity -, a new pump takes no postfix of one that is there - its entities
\* would not load -, and a title the user gave survives every change of the
\* code's.
OnlyTheUserTakesAway ==
    [][/\ DOMAIN pumps' \cup DOMAIN webs' \subseteq DOMAIN pumps \cup DOMAIN webs
          \/ DOMAIN pumps \cup DOMAIN webs \subseteq DOMAIN pumps' \cup DOMAIN webs'
       /\ \A p \in DOMAIN pumps' \ DOMAIN pumps : \A q \in DOMAIN pumps :
            pumps[q].postfix # pumps'[p].postfix
       /\ \A p \in DOMAIN pumps \cap DOMAIN pumps' :
            pumps[p].title = Own => pumps'[p].title = Own
       /\ \A w \in DOMAIN webs \cap DOMAIN webs' :
            webs[w].title = Own => webs'[w].title = Own]_flowVars

\* A loaded web interface never stays behind its pump: it runs with the pump's
\* present data, under a title made from the pump's present one, or a reload
\* that brings both waits - asked for once, however many changes came.
WebFollowsItsPump ==
    \A w \in DOMAIN webs :
        LET web == webs[w]
        IN web.state = "loaded" =>
            \/ web.asked = 1 /\ web.reloads > 0
            \/ /\ web.asked = 0 /\ web.pump \in DOMAIN pumps
               /\ web.startedWith = Data(pumps[web.pump])
               /\ web.title = WebTitle(MadeFrom(web)) =>
                    MadeFrom(web) = pumps[web.pump].title
====
