---- MODULE ConfigFlow_proofs ----
\* Proofs about the dialogs and the entries they make, for any entries, dialogs,
\* endpoints and postfixes: types, entries that stay apart, what only the user
\* takes away, and web interfaces that follow their pumps.
EXTENDS ConfigFlow, TLAPS

\* The dialogs and entries from any start of ConfigFlow.
FlowSpec == (\E used \in SUBSET (Pumps \cup Webs) : Init(used)) /\ [][FlowNext]_flowVars

----
\* The invariant. Entries and dialogs are records.

Titles == Hosts \cup {Own}
Uids == {NoUid} \cup {PumpUid(h) : h \in Hosts} \cup {WebUid(p) : p \in Pumps}
PumpRecords ==
    [host : Hosts, uid : {NoUid} \cup {PumpUid(h) : h \in Hosts}, postfix : Postfixes,
     title : Titles, migrated : BOOLEAN]
WebRecords ==
    [pump : Pumps, title : {Own} \cup {WebTitle(t) : t \in Titles},
     madeFrom : Titles \cup {None}, state : {"starting", "loaded", "failed", "off"},
     startedWith : {None} \cup (Hosts \X BOOLEAN), titledAt : Titles \cup {None},
     reloading : BOOLEAN, asked : Nat, reloads : Nat]
Inputs ==
    {<<>>} \cup {<<x>> : x \in Hosts \cup Pumps} \cup {<<h, x>> : h \in Hosts, x \in Postfixes}
FlowRecords ==
    [kind : {"pump", "reconfigure", "webif", "login"}, entry : Pumps \cup Webs \cup {None},
     step : {"form", "waits"}, uid : Uids, input : Inputs]

\* Entries have their types, ids are used once, and pumps stay apart.
PumpsOK ==
    /\ DOMAIN pumps \subseteq Pumps /\ DOMAIN webs \subseteq Webs
    /\ gone \subseteq Pumps \cup Webs
    /\ gone \cap (DOMAIN pumps \cup DOMAIN webs) = {}
    /\ \A p \in DOMAIN pumps : pumps[p] \in PumpRecords
    /\ \A p, q \in DOMAIN pumps :
        p # q => /\ pumps[p].uid = pumps[q].uid => pumps[p].uid = NoUid
                 /\ pumps[p].postfix = pumps[q].postfix => pumps[p].postfix = ""

\* A web interface runs with what its pump is, under a title that is the user's or
\* made from the pump's.
UpToDate(web) ==
    /\ web.pump \in DOMAIN pumps
    /\ web.startedWith = Data(pumps[web.pump])
    /\ web.title = WebTitle(MadeFrom(web)) => MadeFrom(web) = pumps[web.pump].title

\* The reload a set-up's listener asks for comes on top of the login's; no listener
\* is left when the set-up is not loaded.
WebOK(web) ==
    /\ web.reloads <= MaxReloads + 1
    /\ web.reloading = FALSE => web.reloads <= MaxReloads /\ web.asked = 0
    /\ web.state # "loaded" => web.reloading = FALSE
    /\ web.reloading = TRUE => web.asked = 1 /\ web.reloads > 0
    /\ web.state = "loaded" /\ web.reloading = FALSE => UpToDate(web)

WebsOK ==
    /\ \A w \in DOMAIN webs : webs[w] \in WebRecords /\ WebOK(webs[w])
    /\ \A v, w \in DOMAIN webs : v # w => webs[v].pump # webs[w].pump

\* A dialog that waits knows what it waits for.
Input(flow) ==
    flow.step = "waits" =>
        /\ flow.kind = "pump" => \E h \in Hosts, x \in Postfixes :
             flow.input = <<h, x>> /\ flow.uid = PumpUid(h)
        /\ flow.kind = "reconfigure" => \E h \in Hosts : flow.input = <<h>>
        /\ flow.kind = "webif" => \E p \in Pumps :
             flow.input = <<p>> /\ flow.uid = WebUid(p)

DialogsOK ==
    /\ DOMAIN flows \subseteq Flows
    /\ \A f \in DOMAIN flows : flows[f] \in FlowRecords /\ Input(flows[f])
    /\ \A f, g \in DOMAIN flows : f # g /\ flows[f].uid = flows[g].uid => flows[f].uid = NoUid
    /\ DOMAIN reserved = {f \in DOMAIN flows : Waits(f, "pump")}
    /\ \A f \in DOMAIN reserved : reserved[f] \in Postfixes
    /\ \A f, g \in DOMAIN reserved : f # g => reserved[f] # reserved[g]

\* A dialog that visits has no web interface beside it that its entry would
\* replace: none was there when it began, and no other dialog is at its pump.
VisitsAlone ==
    \A f \in DOMAIN flows : Waits(f, "webif") =>
        \A w \in DOMAIN webs : webs[w].pump # flows[f].input[1]

FlowInv == PumpsOK /\ WebsOK /\ DialogsOK /\ VisitsAlone

----
\* Functions and records.

LEMMA BoundFacts == MaxReloads \in Nat \ {0}
  BY FlowAssumption

LEMMA WithoutFacts ==
  ASSUME NEW f, NEW k
  PROVE  /\ DOMAIN Without(f, k) = DOMAIN f \ {k}
         /\ \A x \in DOMAIN f \ {k} : Without(f, k)[x] = f[x]
  BY DEF Without, Restrict

LEMMA UidFacts ==
  /\ \A h : PumpUid(h) # NoUid /\ WebUid(h) # NoUid
  /\ \A g, h : /\ PumpUid(h) # WebUid(g)
               /\ PumpUid(h) = PumpUid(g) => h = g
               /\ WebUid(h) = WebUid(g) => h = g
  BY DEF NoUid, PumpUid, WebUid

LEMMA TitleFacts ==
  /\ \A s, t : WebTitle(s) = WebTitle(t) => s = t
  /\ \A t \in Titles \cup {None} : Own # WebTitle(t)
  /\ None \notin Titles /\ Own \notin Hosts
  BY FlowAssumption DEF WebTitle, Titles

LEMMA PumpFacts ==
  ASSUME NEW h \in Hosts
  PROVE  /\ OldPump(h) \in PumpRecords
         /\ OldPump(h).uid = NoUid /\ OldPump(h).postfix = "" /\ OldPump(h).title = h
         /\ OldPump(h).host = h
         /\ \A x \in Postfixes : /\ NewPump(h, x) \in PumpRecords
                                 /\ NewPump(h, x).uid = PumpUid(h)
                                 /\ NewPump(h, x).postfix = x
  BY FlowAssumption DEF OldPump, NewPump, PumpRecords, Titles

LEMMA FlowFacts ==
  ASSUME NEW kind, NEW entry, NEW step, NEW uid, NEW input
  PROVE  LET flow == Flow(kind, entry, step, uid, input)
         IN /\ flow.kind = kind /\ flow.entry = entry /\ flow.step = step
            /\ flow.uid = uid /\ flow.input = input
            /\ /\ kind \in {"pump", "reconfigure", "webif", "login"}
               /\ entry \in Pumps \cup Webs \cup {None} /\ step \in {"form", "waits"}
               /\ uid \in Uids /\ input \in Inputs
               => flow \in FlowRecords
  BY DEF Flow, FlowRecords

\* Two updates of a record.
LEMMA BackFacts ==
  ASSUME NEW flow \in FlowRecords
  PROVE  LET form == [flow EXCEPT !.step = "form", !.input = <<>>]
         IN /\ form \in FlowRecords
            /\ form.kind = flow.kind /\ form.uid = flow.uid /\ form.step = "form"
  <1>1. <<>> \in Inputs
    BY DEF Inputs
  <1> QED
    BY <1>1 DEF FlowRecords

\* A web interface that is not loaded has no listener.
LEMMA RestFacts ==
  ASSUME NEW web \in WebRecords, web.state # "loaded", web.reloading = FALSE, web.asked = 0,
         web.reloads <= MaxReloads
  PROVE  WebOK(web)
  <1>1. web.reloads <= MaxReloads + 1
    BY BoundFacts DEF WebRecords
  <1> QED
    BY <1>1 DEF WebOK

LEMMA NewWebFacts ==
  ASSUME NEW p \in Pumps, NEW t \in Titles, NEW m \in Titles \cup {None},
         NEW new, new = NewWeb(p, t, m)
  PROVE  new \in WebRecords /\ new.pump = p /\ new.state = "starting" /\ WebOK(new)
  <1>1. new \in WebRecords
    BY DEF NewWeb, WebRecords
  <1>2. /\ new.pump = p /\ new.state = "starting" /\ new.reloading = FALSE
        /\ new.asked = 0 /\ new.reloads = 0
    BY DEF NewWeb
  <1>3. "starting" # "loaded" /\ 0 <= MaxReloads
    BY BoundFacts
  <1> QED
    BY <1>1, <1>2, <1>3, RestFacts

\* A title that is not the user's follows, and nothing else does.
LEMMA RetitledFacts ==
  ASSUME NEW web \in WebRecords, NEW title \in Titles, NEW named, named = Retitled(web, title)
  PROVE  /\ named \in WebRecords
         /\ named.pump = web.pump /\ named.state = web.state
         /\ named.startedWith = web.startedWith
         /\ named.reloading = web.reloading /\ named.asked = web.asked
         /\ named.reloads = web.reloads
         /\ web.title = Own => named.title = Own
         /\ named.title = WebTitle(MadeFrom(named)) => MadeFrom(named) = title
  <1>1. MadeFrom(web) \in Titles \cup {None}
    BY DEF MadeFrom, WebRecords
  <1>2. CASE MadeFrom(web) = title \/ web.title # WebTitle(MadeFrom(web))
    <2>1. named = web
      BY <1>2 DEF Retitled
    <2> QED
      BY <1>2, <2>1
  <1>3. CASE MadeFrom(web) # title /\ web.title = WebTitle(MadeFrom(web))
    <2>1. named = [web EXCEPT !.title = WebTitle(title), !.madeFrom = title]
      BY <1>3 DEF Retitled
    <2>6. /\ [web EXCEPT !.title = WebTitle(title), !.madeFrom = title] \in WebRecords
          /\ [web EXCEPT !.title = WebTitle(title), !.madeFrom = title].madeFrom = title
      BY DEF WebRecords
    <2>2. named \in WebRecords /\ named.madeFrom = title
      BY <2>1, <2>6
    <2>5. /\ named.pump = web.pump /\ named.state = web.state
          /\ named.startedWith = web.startedWith
          /\ named.reloading = web.reloading /\ named.asked = web.asked
          /\ named.reloads = web.reloads
      BY <2>1 DEF WebRecords
    <2>3. web.title # Own
      BY <1>1, <1>3, TitleFacts
    <2>4. MadeFrom(named) = title
      BY <2>2, TitleFacts DEF MadeFrom
    <2> QED
      BY <2>2, <2>3, <2>4, <2>5
  <1> QED
    BY <1>2, <1>3

Reloading(web) == [ReloadAsked(web) EXCEPT !.reloading = TRUE]

LEMMA AskedFacts ==
  ASSUME NEW web \in WebRecords, NEW next, next = Reloading(web)
  PROVE  /\ next \in WebRecords
         /\ next.pump = web.pump /\ next.state = web.state /\ next.title = web.title
         /\ next.reloading = TRUE
         /\ next.asked = web.asked + 1 /\ next.reloads = web.reloads + 1
  <1>1. web.asked + 1 \in Nat /\ web.reloads + 1 \in Nat
    BY DEF WebRecords
  <1>2. ReloadAsked(web) = [web EXCEPT !.asked = web.asked + 1, !.reloads = web.reloads + 1]
    BY DEF ReloadAsked
  <1>3. PICK k \in WebRecords :
          /\ k = ReloadAsked(web)
          /\ k.pump = web.pump /\ k.state = web.state /\ k.title = web.title
          /\ k.asked = web.asked + 1 /\ k.reloads = web.reloads + 1
    BY <1>1, <1>2 DEF WebRecords
  <1>4. next = [k EXCEPT !.reloading = TRUE]
    BY <1>3 DEF Reloading
  <1> QED
    BY <1>3, <1>4 DEF WebRecords

\* What the listener makes of a change: it waits for the reload it asked for; it
\* asks for one; or all it needs is a title.
Followed(web, next, removed, pump) ==
    /\ next \in WebRecords
    /\ next.pump = web.pump /\ next.state = web.state
    /\ web.title = Own => next.title = Own
    /\ \/ web.reloading = TRUE /\ next = web
       \/ /\ web.reloading = FALSE /\ next.reloading = TRUE
          /\ next.asked = web.asked + 1 /\ next.reloads = web.reloads + 1
       \/ /\ web.reloading = FALSE /\ removed = FALSE
          /\ next.reloading = FALSE /\ next.asked = web.asked
          /\ next.reloads = web.reloads
          /\ next.startedWith = Data(pump)
          /\ next.title = WebTitle(MadeFrom(next)) => MadeFrom(next) = pump.title

LEMMA FollowingFacts ==
  ASSUME NEW web \in WebRecords, NEW removed \in BOOLEAN, NEW pump \in PumpRecords,
         NEW next, next = Following(web, removed, pump)
  PROVE  Followed(web, next, removed, pump)
  <1> USE DEF Followed
  <1>0. pump.title \in Titles /\ web.reloading \in BOOLEAN
    BY DEF PumpRecords, WebRecords
  <1>1. PICK named :
          /\ named = IF removed THEN web ELSE Retitled(web, pump.title)
          /\ named \in WebRecords
          /\ named.pump = web.pump /\ named.state = web.state
          /\ named.startedWith = web.startedWith
          /\ named.reloading = web.reloading /\ named.asked = web.asked
          /\ named.reloads = web.reloads
          /\ web.title = Own => named.title = Own
          /\ ~removed => (named.title = WebTitle(MadeFrom(named)) => MadeFrom(named) = pump.title)
    BY <1>0, RetitledFacts
  <1>2. CASE web.reloading = TRUE
    BY <1>2 DEF Following
  <1>3. CASE web.reloading = FALSE /\ (removed \/ Data(pump) # web.startedWith)
    <2>1. next = Reloading(named)
      BY <1>1, <1>3 DEF Following, Reloading
    <2>2. /\ next \in WebRecords
          /\ next.pump = named.pump /\ next.state = named.state /\ next.title = named.title
          /\ next.reloading = TRUE
          /\ next.asked = named.asked + 1 /\ next.reloads = named.reloads + 1
      BY <1>1, <2>1, AskedFacts
    <2> QED
      BY <1>1, <1>3, <2>2
  <1>4. CASE web.reloading = FALSE /\ removed = FALSE /\ Data(pump) = web.startedWith
    <2>1. next = named
      BY <1>1, <1>4 DEF Following
    <2> QED
      BY <1>1, <1>4, <2>1
  <1> QED
    BY <1>0, <1>2, <1>3, <1>4

----
\* Steps of the entries.

\* What the listeners of a pump make of each web interface: nothing new, a reload,
\* or a title.
Told(web, next, p, removed, pump) ==
    /\ next \in WebRecords
    /\ next.pump = web.pump /\ next.state = web.state
    /\ web.title = Own => next.title = Own
    /\ \/ next = web /\ (web.pump # p \/ web.state # "loaded" \/ web.reloading = TRUE)
       \/ /\ web.state = "loaded"
          /\ next.reloading = TRUE /\ next.asked = 1
          /\ next.reloads > 0 /\ next.reloads <= MaxReloads + 1
       \/ /\ removed = FALSE /\ web.pump = p /\ web.state = "loaded"
          /\ next.reloading = FALSE /\ next.asked = 0 /\ next.reloads <= MaxReloads
          /\ next.startedWith = Data(pump)
          /\ next.title = WebTitle(MadeFrom(next)) => MadeFrom(next) = pump.title

LEMMA ToldFacts ==
  ASSUME NEW web \in WebRecords, WebOK(web), NEW removed \in BOOLEAN, NEW pump \in PumpRecords,
         NEW p, web.pump = p, web.state = "loaded",
         NEW next, Followed(web, next, removed, pump)
  PROVE  Told(web, next, p, removed, pump)
  <1>1. web.reloading = FALSE =>
          /\ web.asked = 0 /\ web.asked + 1 = 1 /\ web.reloads <= MaxReloads
          /\ web.reloads + 1 > 0 /\ web.reloads + 1 <= MaxReloads + 1
    BY BoundFacts DEF WebOK, WebRecords
  <1> QED
    BY <1>1 DEF Followed, Told

LEMMA TellFacts ==
  ASSUME WebsOK, NEW p, NEW removed \in BOOLEAN, NEW pump \in PumpRecords,
         TellFollowers(p, removed, pump)
  PROVE  /\ DOMAIN webs' = DOMAIN webs
         /\ \A w \in DOMAIN webs : Told(webs[w], webs'[w], p, removed, pump)
  <1>1. /\ DOMAIN webs' = DOMAIN webs
        /\ \A w \in DOMAIN webs : webs'[w] = IF webs[w].pump = p /\ webs[w].state = "loaded"
                                             THEN Following(webs[w], removed, pump)
                                             ELSE webs[w]
    BY DEF TellFollowers
  <1> SUFFICES ASSUME NEW w \in DOMAIN webs
               PROVE  Told(webs[w], webs'[w], p, removed, pump)
    BY <1>1
  <1>2. webs[w] \in WebRecords /\ WebOK(webs[w])
    BY DEF WebsOK
  <1>3. CASE webs[w].pump = p /\ webs[w].state = "loaded"
    <2>1. webs'[w] = Following(webs[w], removed, pump)
      BY <1>1, <1>3
    <2>2. Followed(webs[w], webs'[w], removed, pump)
      BY <1>2, <2>1, FollowingFacts
    <2> QED
      BY <1>2, <1>3, <2>2, ToldFacts
  <1>4. CASE ~(webs[w].pump = p /\ webs[w].state = "loaded")
    BY <1>1, <1>2, <1>4 DEF Told
  <1> QED
    BY <1>3, <1>4

\* What a change of a pump leaves of it.
WebsStay == DOMAIN webs' = DOMAIN webs /\ \A w \in DOMAIN webs : webs'[w].pump = webs[w].pump

LEMMA UpdateKeeps ==
  ASSUME PumpsOK, WebsOK, NEW p \in DOMAIN pumps, NEW pump \in PumpRecords,
         UpdatePump(p, pump), gone' = gone,
         pump.postfix = pumps[p].postfix,
         \/ pump.uid \in {pumps[p].uid, NoUid}
         \/ \A q \in DOMAIN pumps \ {p} : pumps[q].uid # pump.uid
  PROVE  PumpsOK' /\ WebsOK' /\ WebsStay
  <1>1. /\ DOMAIN pumps' = DOMAIN pumps /\ pumps'[p] = pump
        /\ \A q \in DOMAIN pumps \ {p} : pumps'[q] = pumps[q]
        /\ TellFollowers(p, FALSE, pump)
    BY DEF UpdatePump
  <1>2. /\ DOMAIN webs' = DOMAIN webs
        /\ \A w \in DOMAIN webs : Told(webs[w], webs'[w], p, FALSE, pump)
    BY <1>1, TellFacts
  <1>3. PumpsOK'
    <2>1. ASSUME NEW q \in DOMAIN pumps, NEW r \in DOMAIN pumps, q # r
          PROVE  /\ pumps'[q].uid = pumps'[r].uid => pumps'[q].uid = NoUid
                 /\ pumps'[q].postfix = pumps'[r].postfix => pumps'[q].postfix = ""
      <3>1. /\ pumps[q].uid = pumps[r].uid => pumps[q].uid = NoUid
            /\ pumps[q].postfix = pumps[r].postfix => pumps[q].postfix = ""
        BY <2>1 DEF PumpsOK
      <3>2. pumps'[q].postfix = pumps[q].postfix /\ pumps'[r].postfix = pumps[r].postfix
        BY <1>1
      <3>3. CASE p \notin {q, r}
        BY <1>1, <3>1, <3>3
      <3>4. CASE p = q
        BY <1>1, <2>1, <3>1, <3>2, <3>4
      <3>5. CASE p = r
        BY <1>1, <2>1, <3>1, <3>2, <3>5
      <3> QED
        BY <3>3, <3>4, <3>5
    <2>2. \A q \in DOMAIN pumps : pumps'[q] \in PumpRecords
      BY <1>1 DEF PumpsOK
    <2> QED
      BY <1>1, <1>2, <2>1, <2>2 DEF PumpsOK
  <1>4. ASSUME NEW w \in DOMAIN webs PROVE WebOK(webs[w])'
    <2>0. Told(webs[w], webs'[w], p, FALSE, pump) /\ WebOK(webs[w])
      BY <1>2 DEF WebsOK
    <2>1. CASE webs'[w] = webs[w]
               /\ (webs[w].pump # p \/ webs[w].state # "loaded" \/ webs[w].reloading = TRUE)
      <3>1. UpToDate(webs[w]) /\ webs[w].pump # p => UpToDate(webs[w])'
        BY <1>1, <2>1 DEF UpToDate, MadeFrom
      <3> QED
        BY <2>0, <2>1, <3>1 DEF WebOK
    <2>2. CASE webs'[w].state = "loaded" /\ webs'[w].reloading = TRUE
      BY <2>0, <2>2 DEF WebOK, Told
    <2>3. CASE /\ webs[w].pump = p /\ webs[w].state = "loaded"
               /\ webs'[w].reloading = FALSE /\ webs'[w].asked = 0
               /\ webs'[w].reloads <= MaxReloads
               /\ webs'[w].startedWith = Data(pump)
               /\ webs'[w].title = WebTitle(MadeFrom(webs'[w])) =>
                    MadeFrom(webs'[w]) = pump.title
      <3>1. webs'[w].reloads <= MaxReloads + 1 /\ webs'[w].pump = p
            /\ webs'[w].state = "loaded"
        BY <2>0, <2>3, BoundFacts DEF WebRecords, Told
      <3>2. UpToDate(webs[w])'
        BY <1>1, <2>3, <3>1 DEF UpToDate, MadeFrom
      <3> QED
        BY <2>3, <3>1, <3>2 DEF WebOK
    <2> QED
      BY <2>0, <2>1, <2>2, <2>3 DEF Told
  <1>5. WebsOK'
    BY <1>2, <1>4 DEF WebsOK, Told
  <1> QED
    BY <1>2, <1>3, <1>5 DEF WebsStay, Told

\* A pump goes, and its listeners are told; one comes, beside nobody.
LEMMA RemoveKeeps ==
  ASSUME PumpsOK, WebsOK, NEW p \in DOMAIN pumps, RemovePump(p)
  PROVE  PumpsOK' /\ WebsOK' /\ WebsStay
  <1>1. /\ DOMAIN pumps' = DOMAIN pumps \ {p} /\ gone' = gone \cup {p}
        /\ \A q \in DOMAIN pumps \ {p} : pumps'[q] = pumps[q]
        /\ TellFollowers(p, TRUE, pumps[p])
    BY WithoutFacts DEF RemovePump
  <1>2. /\ DOMAIN webs' = DOMAIN webs
        /\ \A w \in DOMAIN webs : Told(webs[w], webs'[w], p, TRUE, pumps[p])
    BY <1>1, TellFacts DEF PumpsOK
  <1>3. PumpsOK'
    <2>1. p \notin DOMAIN webs
      BY FlowAssumption DEF PumpsOK
    <2> QED
      BY <1>1, <1>2, <2>1 DEF PumpsOK
  <1>4. ASSUME NEW w \in DOMAIN webs PROVE WebOK(webs[w])'
    <2>0. Told(webs[w], webs'[w], p, TRUE, pumps[p]) /\ WebOK(webs[w])
      BY <1>2 DEF WebsOK
    <2>1. CASE webs'[w] = webs[w]
               /\ (webs[w].pump # p \/ webs[w].state # "loaded" \/ webs[w].reloading = TRUE)
      <3>1. UpToDate(webs[w]) /\ webs[w].pump # p => UpToDate(webs[w])'
        BY <1>1, <2>1 DEF UpToDate, MadeFrom
      <3> QED
        BY <2>0, <2>1, <3>1 DEF WebOK
    <2>2. CASE webs'[w].state = "loaded" /\ webs'[w].reloading = TRUE
      BY <2>0, <2>2 DEF WebOK, Told
    <2> QED
      BY <2>0, <2>1, <2>2 DEF Told
  <1>5. WebsOK'
    BY <1>2, <1>4 DEF WebsOK, Told
  <1> QED
    BY <1>2, <1>3, <1>5 DEF WebsStay, Told

LEMMA AddKeeps ==
  ASSUME PumpsOK, WebsOK, NEW p \in Pumps \ (DOMAIN pumps \cup gone), NEW pump \in PumpRecords,
         DOMAIN pumps' = DOMAIN pumps \cup {p}, pumps'[p] = pump,
         \A q \in DOMAIN pumps : pumps'[q] = pumps[q],
         UNCHANGED <<webs, gone>>,
         \A q \in DOMAIN pumps : pumps[q].uid # pump.uid /\ pumps[q].postfix # pump.postfix
  PROVE  PumpsOK' /\ WebsOK' /\ WebsStay
  <1>1. PumpsOK'
    <2>1. ASSUME NEW q \in DOMAIN pumps', NEW r \in DOMAIN pumps', q # r
          PROVE  /\ pumps'[q].uid = pumps'[r].uid => pumps'[q].uid = NoUid
                 /\ pumps'[q].postfix = pumps'[r].postfix => pumps'[q].postfix = ""
      <3>1. CASE q = p
        BY <2>1, <3>1
      <3>2. CASE r = p
        BY <2>1, <3>2
      <3>3. CASE q # p /\ r # p
        <4>1. /\ q \in DOMAIN pumps /\ r \in DOMAIN pumps
              /\ pumps'[q] = pumps[q] /\ pumps'[r] = pumps[r]
          BY <3>3
        <4>2. /\ pumps[q].uid = pumps[r].uid => pumps[q].uid = NoUid
              /\ pumps[q].postfix = pumps[r].postfix => pumps[q].postfix = ""
          BY <2>1, <4>1 DEF PumpsOK
        <4> QED
          BY <4>1, <4>2
      <3> QED
        BY <3>1, <3>2, <3>3
    <2>2. \A q \in DOMAIN pumps' : pumps'[q] \in PumpRecords
      BY DEF PumpsOK
    <2>3. /\ DOMAIN pumps' \subseteq Pumps
          /\ gone' \cap (DOMAIN pumps' \cup DOMAIN webs') = {}
      BY DEF PumpsOK
    <2> QED
      BY <2>1, <2>2, <2>3 DEF PumpsOK
  <1>2. ASSUME NEW w \in DOMAIN webs PROVE WebOK(webs[w])'
    <2>1. UpToDate(webs[w]) => UpToDate(webs[w])'
      BY DEF UpToDate, MadeFrom
    <2> QED
      BY <2>1 DEF WebOK, WebsOK
  <1> QED
    BY <1>1, <1>2 DEF WebsOK, WebsStay

\* One web interface changes, comes or goes.
LEMMA WebMoves ==
  ASSUME PumpsOK, WebsOK, NEW w \in DOMAIN webs, NEW new \in WebRecords, WebOK(new),
         new.pump = webs[w].pump, webs' = [webs EXCEPT ![w] = new], UNCHANGED <<pumps, gone>>
  PROVE  PumpsOK' /\ WebsOK' /\ WebsStay
  <1>1. /\ DOMAIN webs' = DOMAIN webs /\ webs'[w] = new
        /\ \A v \in DOMAIN webs \ {w} : webs'[v] = webs[v]
    OBVIOUS
  <1>2. ASSUME NEW v \in DOMAIN webs PROVE WebOK(webs[v])'
    <2>1. CASE v = w
      BY <1>1, <2>1 DEF WebOK, UpToDate, MadeFrom
    <2>2. CASE v # w
      BY <1>1, <2>2 DEF WebsOK, WebOK, UpToDate, MadeFrom
    <2> QED
      BY <2>1, <2>2
  <1>3. \A v \in DOMAIN webs : webs'[v].pump = webs[v].pump /\ webs'[v] \in WebRecords
    BY <1>1 DEF WebsOK
  <1>4. PumpsOK'
    BY <1>1 DEF PumpsOK
  <1>5. \A u, v \in DOMAIN webs : u # v => webs'[u].pump # webs'[v].pump
    BY <1>3 DEF WebsOK
  <1> QED
    BY <1>1, <1>2, <1>3, <1>4, <1>5 DEF WebsOK, WebsStay

LEMMA WebComes ==
  ASSUME PumpsOK, WebsOK, NEW w \in Webs \ (DOMAIN webs \cup gone), NEW new \in WebRecords,
         WebOK(new), DOMAIN webs' = DOMAIN webs \cup {w}, webs'[w] = new,
         \A v \in DOMAIN webs : webs'[v] = webs[v], \A v \in DOMAIN webs : webs[v].pump # new.pump,
         UNCHANGED <<pumps, gone>>
  PROVE  PumpsOK' /\ WebsOK'
  <1>1. ASSUME NEW v \in DOMAIN webs' PROVE WebOK(webs[v])'
    <2>1. CASE v = w
      BY <2>1 DEF WebOK, UpToDate, MadeFrom
    <2>2. CASE v # w
      BY <2>2 DEF WebsOK, WebOK, UpToDate, MadeFrom
    <2> QED
      BY <2>1, <2>2
  <1>2. ASSUME NEW u \in DOMAIN webs', NEW v \in DOMAIN webs', u # v
        PROVE  webs'[u].pump # webs'[v].pump
    BY <1>2 DEF WebsOK
  <1>3. \A v \in DOMAIN webs' : webs'[v] \in WebRecords
    BY DEF WebsOK
  <1>4. PumpsOK'
    BY DEF PumpsOK
  <1> QED
    BY <1>1, <1>2, <1>3, <1>4 DEF WebsOK

LEMMA WebGoes ==
  ASSUME PumpsOK, WebsOK, NEW w \in DOMAIN webs, RemoveWeb(w)
  PROVE  PumpsOK' /\ WebsOK'
  <1>1. /\ DOMAIN webs' = DOMAIN webs \ {w} /\ gone' = gone \cup {w} /\ pumps' = pumps
        /\ \A v \in DOMAIN webs \ {w} : webs'[v] = webs[v]
    BY WithoutFacts DEF RemoveWeb
  <1>2. ASSUME NEW v \in DOMAIN webs' PROVE WebOK(webs[v])'
    BY <1>1 DEF WebsOK, WebOK, UpToDate, MadeFrom
  <1>3. w \notin DOMAIN pumps
    BY FlowAssumption DEF PumpsOK
  <1>4. PumpsOK'
    BY <1>1, <1>3 DEF PumpsOK
  <1> QED
    BY <1>1, <1>2, <1>4 DEF WebsOK

----
\* Steps of the dialogs.

\* What becomes of a reservation: only a dialog that goes on to probe has one.
Freed(f) == reserved' = Without(reserved, f) \/ (f \notin DOMAIN reserved /\ reserved' = reserved)
Taken(f) ==
    \E x \in Postfixes : reserved' = Put(reserved, f, x) /\ x \notin PostfixesOfOtherFlows(f)

LEMMA FreedFacts ==
  ASSUME NEW f, Freed(f)
  PROVE  /\ DOMAIN reserved' = DOMAIN reserved \ {f}
         /\ \A g \in DOMAIN reserved \ {f} : reserved'[g] = reserved[g]
  <1>1. CASE reserved' = Without(reserved, f)
    BY <1>1 DEF Without, Restrict
  <1>2. CASE f \notin DOMAIN reserved /\ reserved' = reserved
    BY <1>2
  <1> QED
    BY <1>1, <1>2 DEF Freed

LEMMA DialogGoes ==
  ASSUME DialogsOK, NEW f \in Flows, NEW flow \in FlowRecords, Goes(f, flow), Input(flow),
         flow.uid = NoUid \/ ~InProgress(f, flow.uid),
         IF flow.kind = "pump" /\ flow.step = "waits" THEN Taken(f) ELSE Freed(f)
  PROVE  /\ DialogsOK'
         /\ DOMAIN flows' = DOMAIN flows \cup {f} /\ flows'[f] = flow
         /\ \A g \in DOMAIN flows \ {f} : flows'[g] = flows[g]
  <1>1. /\ DOMAIN flows' = DOMAIN flows \cup {f} /\ flows'[f] = flow
        /\ \A g \in DOMAIN flows \ {f} : flows'[g] = flows[g]
    BY DEF Goes, Put
  <1>2. ASSUME NEW g \in DOMAIN flows'
        PROVE  g \in Flows /\ flows'[g] \in FlowRecords /\ Input(flows[g])'
    <2>1. CASE g = f
      BY <1>1, <2>1 DEF Input
    <2>2. CASE g # f
      BY <1>1, <2>2 DEF DialogsOK, Input
    <2> QED
      BY <2>1, <2>2
  <1>3. ASSUME NEW g \in DOMAIN flows', NEW h \in DOMAIN flows', g # h,
               flows'[g].uid = flows'[h].uid
        PROVE  flows'[g].uid = NoUid
    <2>1. \A d \in DOMAIN flows \ {f} : flows[d].uid = flow.uid => flow.uid = NoUid
      BY DEF InProgress
    <2>2. CASE g = f
      BY <1>1, <1>3, <2>1, <2>2
    <2>3. CASE h = f
      BY <1>1, <1>3, <2>1, <2>3
    <2>4. CASE g # f /\ h # f
      <3>1. /\ g \in DOMAIN flows /\ h \in DOMAIN flows
            /\ flows'[g] = flows[g] /\ flows'[h] = flows[h]
        BY <1>1, <2>4
      <3> QED
        BY <1>3, <3>1 DEF DialogsOK
    <2> QED
      BY <2>2, <2>3, <2>4
  <1>4. CASE flow.kind = "pump" /\ flow.step = "waits"
    <2>1. PICK x \in Postfixes :
            reserved' = Put(reserved, f, x) /\ x \notin PostfixesOfOtherFlows(f)
      BY <1>4 DEF Taken
    <2>2. /\ DOMAIN reserved' = DOMAIN reserved \cup {f} /\ reserved'[f] = x
          /\ \A g \in DOMAIN reserved \ {f} : reserved'[g] = reserved[g]
      BY <2>1 DEF Put
    <2>3. \A g \in DOMAIN reserved \ {f} : reserved[g] # x
      BY <2>1 DEF PostfixesOfOtherFlows
    <2>4. \A g \in DOMAIN reserved' : reserved'[g] \in Postfixes
      BY <2>2 DEF DialogsOK
    <2>5. ASSUME NEW g \in DOMAIN reserved', NEW h \in DOMAIN reserved', g # h
          PROVE  reserved'[g] # reserved'[h]
      <3>1. CASE g = f
        BY <2>2, <2>3, <2>5, <3>1
      <3>2. CASE h = f
        BY <2>2, <2>3, <2>5, <3>2
      <3>3. CASE g # f /\ h # f
        BY <2>2, <2>5, <3>3 DEF DialogsOK
      <3> QED
        BY <3>1, <3>2, <3>3
    <2>6. DOMAIN reserved' = {g \in DOMAIN flows' : Waits(g, "pump")'}
      BY <1>1, <1>4, <2>2 DEF DialogsOK, Waits
    <2> QED
      BY <1>1, <1>2, <1>3, <2>4, <2>5, <2>6 DEF DialogsOK
  <1>5. CASE ~(flow.kind = "pump" /\ flow.step = "waits")
    <2>1. /\ DOMAIN reserved' = DOMAIN reserved \ {f}
          /\ \A g \in DOMAIN reserved \ {f} : reserved'[g] = reserved[g]
      BY <1>5, FreedFacts
    <2>2. DOMAIN reserved' = {g \in DOMAIN flows' : Waits(g, "pump")'}
      BY <1>1, <1>5, <2>1 DEF DialogsOK, Waits
    <2>3. \A g \in DOMAIN reserved' : reserved'[g] \in Postfixes
      BY <2>1 DEF DialogsOK
    <2>4. \A g, h \in DOMAIN reserved' : g # h => reserved'[g] # reserved'[h]
      BY <2>1 DEF DialogsOK
    <2> QED
      BY <1>1, <1>2, <1>3, <2>2, <2>3, <2>4 DEF DialogsOK
  <1> QED
    BY <1>1, <1>4, <1>5

LEMMA DialogEnds ==
  ASSUME DialogsOK, NEW f, Ends(f), Freed(f)
  PROVE  /\ DialogsOK'
         /\ DOMAIN flows' = DOMAIN flows \ {f}
         /\ \A g \in DOMAIN flows \ {f} : flows'[g] = flows[g]
  <1>1. /\ DOMAIN flows' = DOMAIN flows \ {f}
        /\ \A g \in DOMAIN flows \ {f} : flows'[g] = flows[g]
    BY WithoutFacts DEF Ends
  <1>2. /\ DOMAIN reserved' = DOMAIN reserved \ {f}
        /\ \A g \in DOMAIN reserved \ {f} : reserved'[g] = reserved[g]
    BY FreedFacts
  <1>3. ASSUME NEW g \in DOMAIN flows'
        PROVE  g \in Flows /\ flows'[g] \in FlowRecords /\ Input(flows[g])'
    BY <1>1 DEF DialogsOK, Input
  <1>4. \A g, h \in DOMAIN flows' : g # h /\ flows'[g].uid = flows'[h].uid
                                    => flows'[g].uid = NoUid
    BY <1>1 DEF DialogsOK
  <1>5. DOMAIN reserved' = {g \in DOMAIN flows' : Waits(g, "pump")'}
    BY <1>1, <1>2 DEF DialogsOK, Waits
  <1>6. /\ \A g \in DOMAIN reserved' : reserved'[g] \in Postfixes
        /\ \A g, h \in DOMAIN reserved' : g # h => reserved'[g] # reserved'[h]
    BY <1>2 DEF DialogsOK
  <1> QED
    BY <1>1, <1>3, <1>4, <1>5, <1>6 DEF DialogsOK

\* Back to its form, a dialog keeps its identity and nothing else.
LEMMA DialogBack ==
  ASSUME DialogsOK, NEW f \in DOMAIN flows, BackToForm(f), Freed(f)
  PROVE  /\ DialogsOK'
         /\ DOMAIN flows' = DOMAIN flows /\ flows'[f].step = "form"
         /\ \A g \in DOMAIN flows \ {f} : flows'[g] = flows[g]
  <1>1. PICK flow : flow = [flows[f] EXCEPT !.step = "form", !.input = <<>>]
    OBVIOUS
  <1>2. flows[f] \in FlowRecords /\ f \in Flows
    BY DEF DialogsOK
  <1>3. /\ flow \in FlowRecords /\ Goes(f, flow)
        /\ flow.kind = flows[f].kind /\ flow.uid = flows[f].uid /\ flow.step = "form"
    BY <1>1, <1>2, BackFacts DEF BackToForm
  <1>4. Input(flow)
    BY <1>3 DEF Input
  <1>5. flow.uid = NoUid \/ ~InProgress(f, flow.uid)
    BY <1>3 DEF InProgress, DialogsOK
  <1>6. /\ DialogsOK'
        /\ DOMAIN flows' = DOMAIN flows \cup {f} /\ flows'[f] = flow
        /\ \A g \in DOMAIN flows \ {f} : flows'[g] = flows[g]
    BY <1>2, <1>3, <1>4, <1>5, DialogGoes
  <1> QED
    BY <1>3, <1>6

\* Visits stay alone unless one begins, or a web interface comes.
LEMMA VisitsKept ==
  ASSUME VisitsAlone,
         \A w \in DOMAIN webs' : \E v \in DOMAIN webs : webs'[w].pump = webs[v].pump,
         \A g \in DOMAIN flows' :
           \/ g \in DOMAIN flows /\ flows'[g] = flows[g]
           \/ ~(flows'[g].kind = "webif" /\ flows'[g].step = "waits")
           \/ \A w \in DOMAIN webs : webs[w].pump # flows'[g].input[1]
  PROVE  VisitsAlone'
  BY DEF VisitsAlone, Waits

----
\* The invariant holds, action by action.

LEMMA EntriesSame ==
  ASSUME PumpsOK, WebsOK, UNCHANGED entries
  PROVE  PumpsOK' /\ WebsOK' /\ WebsStay
  <1>1. UNCHANGED <<pumps, webs, gone>>
    BY DEF entries
  <1>2. PumpsOK'
    BY <1>1 DEF PumpsOK
  <1>3. WebsOK'
    BY <1>1 DEF WebsOK, WebOK, UpToDate, MadeFrom
  <1> QED
    BY <1>1, <1>2, <1>3 DEF WebsStay

LEMMA DialogsSame ==
  ASSUME FlowInv, UNCHANGED <<flows, reserved>>,
         \A w \in DOMAIN webs' : \E v \in DOMAIN webs : webs'[w].pump = webs[v].pump
  PROVE  DialogsOK' /\ VisitsAlone'
  <1>1. DialogsOK'
    BY DEF FlowInv, DialogsOK, Waits, Input
  <1>2. VisitsAlone'
    BY VisitsKept DEF FlowInv
  <1> QED
    BY <1>1, <1>2

\* A dialog at its form holds no postfix.
LEMMA ReadyFacts ==
  ASSUME DialogsOK, NEW f, NEW kind, NEW entry, Ready(f, kind, entry)
  PROVE  f \notin DOMAIN reserved
  BY DEF DialogsOK, Ready, Waits

LEMMA SubmitPumpKeeps ==
  ASSUME FlowInv, NEW f \in Flows, NEW h \in Hosts, NEW x \in Postfixes, SubmitPump(f, h, x)
  PROVE  FlowInv'
  <1> DEFINE uid == PumpUid(h)
             aborted == InProgress(f, uid) \/ Configured(uid)
             free == NamespaceFree(x, PostfixesOfOtherFlows(f))
  <1>1. /\ UNCHANGED entries
        /\ \/ aborted /\ Ends(f) /\ Releases(f)
           \/ /\ ~aborted /\ ~free
              /\ Goes(f, Flow("pump", None, "form", uid, <<>>)) /\ Releases(f)
           \/ /\ ~aborted /\ free
              /\ Goes(f, Flow("pump", None, "waits", uid, <<h, x>>))
              /\ reserved' = Put(reserved, f, x)
    BY DEF SubmitPump
  <1>2. PumpsOK' /\ WebsOK' /\ WebsStay
    BY <1>1, EntriesSame DEF FlowInv
  <1>3. uid \in Uids /\ <<>> \in Inputs /\ <<h, x>> \in Inputs
    BY DEF Uids, Inputs
  <1>4. CASE aborted /\ Ends(f) /\ Releases(f)
    <2>1. /\ DialogsOK'
          /\ DOMAIN flows' = DOMAIN flows \ {f}
          /\ \A g \in DOMAIN flows \ {f} : flows'[g] = flows[g]
      BY <1>4, DialogEnds DEF FlowInv, Releases, Freed
    <2> QED
      BY <1>2, <2>1, VisitsKept DEF FlowInv, WebsStay
  <1>5. CASE /\ ~aborted
             /\ Goes(f, Flow("pump", None, "form", uid, <<>>)) /\ Releases(f)
    <2>1. PICK flow \in FlowRecords :
            /\ flow = Flow("pump", None, "form", uid, <<>>)
            /\ flow.kind = "pump" /\ flow.step = "form" /\ flow.uid = uid
      BY <1>3, FlowFacts
    <2>2. /\ DialogsOK'
          /\ DOMAIN flows' = DOMAIN flows \cup {f} /\ flows'[f] = flow
          /\ \A g \in DOMAIN flows \ {f} : flows'[g] = flows[g]
      BY <1>5, <2>1, DialogGoes DEF FlowInv, Releases, Freed, Input
    <2> QED
      BY <1>2, <2>1, <2>2, VisitsKept DEF FlowInv, WebsStay
  <1>6. CASE /\ ~aborted /\ free
             /\ Goes(f, Flow("pump", None, "waits", uid, <<h, x>>))
             /\ reserved' = Put(reserved, f, x)
    <2>1. PICK flow \in FlowRecords :
            /\ flow = Flow("pump", None, "waits", uid, <<h, x>>)
            /\ flow.kind = "pump" /\ flow.step = "waits" /\ flow.uid = uid
            /\ flow.input = <<h, x>>
      BY <1>3, FlowFacts
    <2>2. Taken(f)
      BY <1>6 DEF Taken, NamespaceFree
    <2>3. Input(flow)
      BY <2>1 DEF Input
    <2>4. /\ DialogsOK'
          /\ DOMAIN flows' = DOMAIN flows \cup {f} /\ flows'[f] = flow
          /\ \A g \in DOMAIN flows \ {f} : flows'[g] = flows[g]
      BY <1>6, <2>1, <2>2, <2>3, DialogGoes DEF FlowInv
    <2> QED
      BY <1>2, <2>1, <2>4, VisitsKept DEF FlowInv, WebsStay
  <1> QED
    BY <1>1, <1>4, <1>5, <1>6

\* The other dialogs that begin a wait, or end for want of an entry.
LEMMA OtherGoes ==
  ASSUME FlowInv, NEW f \in Flows, UNCHANGED <<entries, reserved>>, f \notin DOMAIN reserved,
         NEW flow \in FlowRecords, flow.kind # "pump", Input(flow),
         flow.uid = NoUid \/ ~InProgress(f, flow.uid),
         flow.kind = "webif" => \A w \in DOMAIN webs : webs[w].pump # flow.input[1],
         Goes(f, flow) \/ Ends(f)
  PROVE  FlowInv'
  <1>1. PumpsOK' /\ WebsOK' /\ WebsStay
    BY EntriesSame DEF FlowInv
  <1>2. Freed(f)
    BY DEF Freed
  <1>3. CASE Goes(f, flow)
    <2>1. /\ DialogsOK'
          /\ DOMAIN flows' = DOMAIN flows \cup {f} /\ flows'[f] = flow
          /\ \A g \in DOMAIN flows \ {f} : flows'[g] = flows[g]
      BY <1>2, <1>3, DialogGoes DEF FlowInv
    <2> QED
      BY <1>1, <2>1, VisitsKept DEF FlowInv, WebsStay
  <1>4. CASE Ends(f)
    <2>1. /\ DialogsOK'
          /\ DOMAIN flows' = DOMAIN flows \ {f}
          /\ \A g \in DOMAIN flows \ {f} : flows'[g] = flows[g]
      BY <1>2, <1>4, DialogEnds DEF FlowInv
    <2> QED
      BY <1>1, <2>1, VisitsKept DEF FlowInv, WebsStay
  <1> QED
    BY <1>3, <1>4

LEMMA ReconfigureKeeps ==
  ASSUME FlowInv, NEW f \in Flows, NEW p \in Pumps, NEW h \in Hosts, Reconfigure(f, p, h)
  PROVE  FlowInv'
  <1>1. NoUid \in Uids /\ <<h>> \in Inputs
    BY DEF Uids, Inputs
  <1>2. PICK flow \in FlowRecords :
          /\ flow = Flow("reconfigure", p, "waits", NoUid, <<h>>)
          /\ flow.kind = "reconfigure" /\ flow.step = "waits" /\ flow.uid = NoUid
          /\ flow.input = <<h>>
    BY <1>1, FlowFacts
  <1>3. Input(flow)
    BY <1>2 DEF Input
  <1>4. f \notin DOMAIN reserved
    BY ReadyFacts DEF Reconfigure, FlowInv
  <1>5. UNCHANGED <<entries, reserved>> /\ (Goes(f, flow) \/ Ends(f))
    BY <1>2 DEF Reconfigure
  <1> QED
    BY <1>2, <1>3, <1>4, <1>5, OtherGoes

LEMMA SubmitLoginKeeps ==
  ASSUME FlowInv, NEW f \in Flows, NEW w \in Webs, SubmitLogin(f, w)
  PROVE  FlowInv'
  <1>1. NoUid \in Uids /\ <<>> \in Inputs
    BY DEF Uids, Inputs
  <1>2. PICK flow \in FlowRecords :
          /\ flow = Flow("login", w, "waits", NoUid, <<>>)
          /\ flow.kind = "login" /\ flow.step = "waits" /\ flow.uid = NoUid
    BY <1>1, FlowFacts
  <1>3. Input(flow)
    BY <1>2 DEF Input
  <1>4. f \notin DOMAIN reserved
    BY ReadyFacts DEF SubmitLogin, FlowInv
  <1>5. UNCHANGED <<entries, reserved>> /\ (Goes(f, flow) \/ Ends(f))
    BY <1>2 DEF SubmitLogin
  <1> QED
    BY <1>2, <1>3, <1>4, <1>5, OtherGoes

LEMMA SubmitWebifKeeps ==
  ASSUME FlowInv, NEW f \in Flows, NEW p \in Pumps, SubmitWebif(f, p)
  PROVE  FlowInv'
  <1>1. f \notin DOMAIN reserved /\ UNCHANGED <<entries, reserved>>
    BY ReadyFacts DEF SubmitWebif, FlowInv
  <1>2. CASE p \in Offered /\ ~InProgress(f, WebUid(p))
    <2>1. WebUid(p) \in Uids /\ <<p>> \in Inputs
      BY DEF Uids, Inputs
    <2>2. PICK flow \in FlowRecords :
            /\ flow = Flow("webif", None, "waits", WebUid(p), <<p>>)
            /\ flow.kind = "webif" /\ flow.step = "waits" /\ flow.uid = WebUid(p)
            /\ flow.input = <<p>>
      BY <2>1, FlowFacts
    <2>3. Input(flow) /\ Goes(f, flow)
      BY <1>2, <2>2 DEF Input, SubmitWebif
    <2>4. \A w \in DOMAIN webs : webs[w].pump # flow.input[1]
      BY <1>2, <2>2 DEF Offered
    <2> QED
      BY <1>1, <1>2, <2>2, <2>3, <2>4, OtherGoes
  <1>3. CASE ~(p \in Offered /\ ~InProgress(f, WebUid(p)))
    <2>1. Ends(f)
      BY <1>3 DEF SubmitWebif
    <2>2. /\ DialogsOK'
          /\ DOMAIN flows' = DOMAIN flows \ {f}
          /\ \A g \in DOMAIN flows \ {f} : flows'[g] = flows[g]
      BY <1>1, <2>1, DialogEnds DEF FlowInv, Freed
    <2>3. PumpsOK' /\ WebsOK' /\ WebsStay
      BY <1>1, EntriesSame DEF FlowInv
    <2> QED
      BY <2>2, <2>3, VisitsKept DEF FlowInv, WebsStay
  <1> QED
    BY <1>2, <1>3

\* A dialog ends, or goes back to its form, and no web interface comes.
LEMMA DialogDone ==
  ASSUME FlowInv, NEW f \in DOMAIN flows, Freed(f), Ends(f) \/ BackToForm(f),
         \A w \in DOMAIN webs' : \E v \in DOMAIN webs : webs'[w].pump = webs[v].pump
  PROVE  DialogsOK' /\ VisitsAlone'
  <1>1. CASE Ends(f)
    <2>1. /\ DialogsOK'
          /\ DOMAIN flows' = DOMAIN flows \ {f}
          /\ \A g \in DOMAIN flows \ {f} : flows'[g] = flows[g]
      BY <1>1, DialogEnds DEF FlowInv
    <2> QED
      BY <2>1, VisitsKept DEF FlowInv
  <1>2. CASE BackToForm(f)
    <2>1. /\ DialogsOK'
          /\ DOMAIN flows' = DOMAIN flows /\ flows'[f].step = "form"
          /\ \A g \in DOMAIN flows \ {f} : flows'[g] = flows[g]
      BY <1>2, DialogBack DEF FlowInv
    <2> QED
      BY <2>1, VisitsKept DEF FlowInv
  <1> QED
    BY <1>1, <1>2

\* The dialogs that hold no postfix free none.
LEMMA NothingHeld ==
  ASSUME FlowInv, NEW f \in DOMAIN flows, ~Waits(f, "pump"), reserved' = reserved
  PROVE  Freed(f)
  BY DEF FlowInv, DialogsOK, Freed

\* What CreatePump makes is new: nothing is replaced, and no postfix is taken.
LEMMA CreatedFacts ==
  ASSUME FlowInv, NEW f \in DOMAIN flows, Waits(f, "pump"), AfterProbe(f) = "create",
         CreatePump(f)
  PROVE  \E p \in Pumps \ (DOMAIN pumps \cup gone), pump \in PumpRecords :
           /\ DOMAIN pumps' = DOMAIN pumps \cup {p} /\ pumps'[p] = pump /\ gone' = gone
           /\ \A q \in DOMAIN pumps : pumps'[q] = pumps[q]
           /\ \A q \in DOMAIN pumps : pumps[q].uid # pump.uid /\ pumps[q].postfix # pump.postfix
  <1>1. PICK h \in Hosts, x \in Postfixes : flows[f].input = <<h, x>> /\ flows[f].uid = PumpUid(h)
    BY DEF FlowInv, DialogsOK, Input, Waits
  <1>2. ~Configured(flows[f].uid) /\ NamespaceFree(flows[f].input[2], {})
    <2>1. CASE Configured(flows[f].uid)
      <3>1. AfterProbe(f) = "abort"
        BY <2>1 DEF AfterProbe
      <3> QED
        BY <3>1
    <2>2. CASE ~Configured(flows[f].uid) /\ ~NamespaceFree(flows[f].input[2], {})
      <3>1. AfterProbe(f) = "form"
        BY <2>2 DEF AfterProbe
      <3> QED
        BY <3>1
    <2> QED
      BY <2>1, <2>2
  <1>3. /\ {q \in DOMAIN pumps : pumps[q].uid = flows[f].uid} = {}
        /\ \A q \in DOMAIN pumps : pumps[q].uid # PumpUid(h)
    BY <1>1, <1>2 DEF Configured
  <1>4. \A q \in DOMAIN pumps : pumps[q].postfix # x
    <2>1. flows[f].input[2] = x
      BY <1>1
    <2>2. NamespaceFree(x, {})
      BY <1>2, <2>1
    <2>3. ASSUME NEW q \in DOMAIN pumps, pumps[q].postfix = x
          PROVE  FALSE
      <3>1. x \in {pumps[r].postfix : r \in DOMAIN pumps} \cup {}
        BY <2>3
      <3> QED
        BY <2>2, <3>1 DEF NamespaceFree
    <2> QED
      BY <2>3
  <1>5. PICK p \in Pumps \ (DOMAIN pumps \cup gone) :
          /\ pumps' = Put(Restrict(pumps, DOMAIN pumps \ {}), p, NewPump(h, x))
          /\ gone' = gone \cup {}
    <2>1. flows[f].input[1] = h /\ flows[f].input[2] = x
      BY <1>1
    <2>2. \E p \in Pumps \ (DOMAIN pumps \cup gone) :
            /\ pumps' = Put(Restrict(pumps, DOMAIN pumps \ {}), p,
                            NewPump(flows[f].input[1], flows[f].input[2]))
            /\ gone' = gone \cup {}
      BY ONLY <1>3, CreatePump(f) DEF CreatePump
    <2> QED
      BY ONLY <2>1, <2>2
  <1>6. /\ DOMAIN pumps' = DOMAIN pumps \cup {p} /\ pumps'[p] = NewPump(h, x)
        /\ \A q \in DOMAIN pumps : pumps'[q] = pumps[q]
    BY <1>5 DEF Put, Restrict
  <1>7. /\ NewPump(h, x) \in PumpRecords /\ NewPump(h, x).uid = PumpUid(h)
        /\ NewPump(h, x).postfix = x
    BY PumpFacts
  <1> QED
    BY <1>3, <1>4, <1>5, <1>6, <1>7

LEMMA PumpProbedKeeps ==
  ASSUME FlowInv, NEW f \in DOMAIN flows, PumpProbed(f)
  PROVE  FlowInv'
  <1>1. Waits(f, "pump") /\ Releases(f) /\ Freed(f)
    BY DEF PumpProbed, Releases, Freed
  <1>2. \/ (BackToForm(f) \/ Ends(f)) /\ UNCHANGED entries
        \/ AfterProbe(f) = "create" /\ Ends(f) /\ CreatePump(f) /\ UNCHANGED webs
    BY DEF PumpProbed
  <1>3. CASE (BackToForm(f) \/ Ends(f)) /\ UNCHANGED entries
    <2>1. PumpsOK' /\ WebsOK' /\ WebsStay
      BY <1>3, EntriesSame DEF FlowInv
    <2>2. \A w \in DOMAIN webs' : \E v \in DOMAIN webs : webs'[w].pump = webs[v].pump
      BY <2>1 DEF WebsStay
    <2>3. DialogsOK' /\ VisitsAlone'
      BY <1>1, <1>3, <2>2, DialogDone
    <2> QED
      BY <2>1, <2>3 DEF FlowInv
  <1>4. CASE AfterProbe(f) = "create" /\ Ends(f) /\ CreatePump(f) /\ UNCHANGED webs
    <2>1. PICK p \in Pumps \ (DOMAIN pumps \cup gone), pump \in PumpRecords :
            /\ DOMAIN pumps' = DOMAIN pumps \cup {p} /\ pumps'[p] = pump /\ gone' = gone
            /\ \A q \in DOMAIN pumps : pumps'[q] = pumps[q]
            /\ \A q \in DOMAIN pumps : pumps[q].uid # pump.uid /\ pumps[q].postfix # pump.postfix
      BY <1>1, <1>4, CreatedFacts
    <2>2. PumpsOK' /\ WebsOK' /\ WebsStay
      BY <1>4, <2>1, AddKeeps DEF FlowInv
    <2>3. \A w \in DOMAIN webs' : \E v \in DOMAIN webs : webs'[w].pump = webs[v].pump
      BY <2>2 DEF WebsStay
    <2>4. DialogsOK' /\ VisitsAlone'
      BY <1>1, <1>4, <2>3, DialogDone
    <2> QED
      BY <2>2, <2>4 DEF FlowInv
  <1> QED
    BY <1>2, <1>3, <1>4

LEMMA ReconfiguredKeeps ==
  ASSUME FlowInv, NEW f \in DOMAIN flows, Reconfigured(f)
  PROVE  FlowInv'
  <1> DEFINE p == flows[f].entry
             host == flows[f].input[1]
             pump == [pumps[p] EXCEPT !.host = host, !.uid = PumpUid(host),
                                      !.title = TitleAfterReconfigure(pumps[p], host)]
  <1>1. Waits(f, "reconfigure") /\ UNCHANGED <<gone, reserved>>
    BY DEF Reconfigured
  <1>2. Freed(f) /\ host \in Hosts
    <2>1. ~Waits(f, "pump")
      BY <1>1 DEF Waits
    <2> QED
      BY <1>1, <2>1, NothingHeld DEF FlowInv, DialogsOK, Input, Waits
  <1>3. CASE (BackToForm(f) \/ Ends(f)) /\ UNCHANGED <<pumps, webs>>
    <2>1. PumpsOK' /\ WebsOK' /\ WebsStay
      BY <1>1, <1>3, EntriesSame DEF FlowInv, entries
    <2>2. \A w \in DOMAIN webs' : \E v \in DOMAIN webs : webs'[w].pump = webs[v].pump
      BY <2>1 DEF WebsStay
    <2>3. DialogsOK' /\ VisitsAlone'
      BY <1>2, <1>3, <2>2, DialogDone
    <2> QED
      BY <2>1, <2>3 DEF FlowInv
  <1>4. CASE /\ p \in DOMAIN pumps /\ ~HeldByOther(p, PumpUid(host)) /\ Ends(f)
             /\ UpdatePump(p, pump)
    <2>1. pumps[p] \in PumpRecords
      BY <1>4 DEF FlowInv, PumpsOK
    <2>2. TitleAfterReconfigure(pumps[p], host) \in Titles
      BY <1>2, <2>1 DEF TitleAfterReconfigure, PumpRecords, Titles
    <2>3. /\ pump \in PumpRecords /\ pump.postfix = pumps[p].postfix
          /\ pump.uid = PumpUid(host)
      BY <1>2, <2>1, <2>2 DEF PumpRecords
    <2>4. \A q \in DOMAIN pumps \ {p} : pumps[q].uid # PumpUid(host)
      BY <1>4 DEF HeldByOther
    <2>5. PumpsOK' /\ WebsOK' /\ WebsStay
      <3> HIDE DEF pump
      <3> QED
        BY <1>1, <1>4, <2>3, <2>4, UpdateKeeps DEF FlowInv
    <2>6. \A w \in DOMAIN webs' : \E v \in DOMAIN webs : webs'[w].pump = webs[v].pump
      BY <2>5 DEF WebsStay
    <2>7. DialogsOK' /\ VisitsAlone'
      BY <1>2, <1>4, <2>6, DialogDone
    <2> QED
      BY <2>5, <2>7 DEF FlowInv
  <1>5. \/ (BackToForm(f) \/ Ends(f)) /\ UNCHANGED <<pumps, webs>>
        \/ /\ p \in DOMAIN pumps /\ ~HeldByOther(p, PumpUid(host)) /\ Ends(f)
           /\ UpdatePump(p, pump)
    BY DEF Reconfigured
  <1> QED
    BY <1>3, <1>4, <1>5

\* The dialogs at one pump's web interface are one: the others visit elsewhere.
LEMMA VisitFacts ==
  ASSUME FlowInv, NEW f \in DOMAIN flows, Waits(f, "webif")
  PROVE  /\ flows[f].input[1] \in Pumps
         /\ \A w \in DOMAIN webs : webs[w].pump # flows[f].input[1]
         /\ \A g \in DOMAIN flows \ {f} :
              Waits(g, "webif") => flows[g].input[1] # flows[f].input[1]
  <1>1. \A g \in DOMAIN flows : Waits(g, "webif") =>
          flows[g].input[1] \in Pumps /\ flows[g].uid = WebUid(flows[g].input[1])
    BY DEF FlowInv, DialogsOK, Input, Waits
  <1>2. ASSUME NEW g \in DOMAIN flows \ {f}, Waits(g, "webif"),
               flows[g].input[1] = flows[f].input[1]
        PROVE  FALSE
    <2>1. flows[g].uid = flows[f].uid /\ flows[f].uid # NoUid
      BY <1>1, <1>2, UidFacts
    <2> QED
      BY <2>1 DEF FlowInv, DialogsOK
  <1> QED
    BY <1>1, <1>2 DEF FlowInv, VisitsAlone

LEMMA WebifVisitedKeeps ==
  ASSUME FlowInv, NEW f \in DOMAIN flows, WebifVisited(f)
  PROVE  FlowInv'
  <1> DEFINE p == flows[f].input[1]
             replaced == {w \in DOMAIN webs : webs[w].pump = p}
  <1>1. Waits(f, "webif") /\ UNCHANGED <<pumps, reserved>>
    BY DEF WebifVisited
  <1>2. Freed(f)
    BY <1>1, NothingHeld DEF Waits
  <1>3. CASE (BackToForm(f) \/ Ends(f)) /\ UNCHANGED <<webs, gone>>
    <2>1. PumpsOK' /\ WebsOK' /\ WebsStay
      BY <1>1, <1>3, EntriesSame DEF FlowInv, entries
    <2>2. \A w \in DOMAIN webs' : \E v \in DOMAIN webs : webs'[w].pump = webs[v].pump
      BY <2>1 DEF WebsStay
    <2>3. DialogsOK' /\ VisitsAlone'
      BY <1>2, <1>3, <2>2, DialogDone
    <2> QED
      BY <2>1, <2>3 DEF FlowInv
  <1>4. ASSUME p \in DOMAIN pumps, Ends(f), gone' = gone \cup replaced,
               NEW w \in Webs \ (DOMAIN webs \cup gone),
               webs' = Put(Restrict(webs, DOMAIN webs \ replaced), w,
                           NewWeb(p, pumps[p].title, pumps[p].title))
        PROVE  FlowInv'
    <2>1. /\ p \in Pumps
          /\ \A v \in DOMAIN webs : webs[v].pump # p
          /\ \A g \in DOMAIN flows \ {f} : Waits(g, "webif") => flows[g].input[1] # p
      BY <1>1, VisitFacts
    <2>2. replaced = {} /\ gone' = gone
      BY <1>4, <2>1
    <2>3. pumps[p].title \in Titles
      BY <1>4 DEF FlowInv, PumpsOK, PumpRecords
    <2>4. PICK new : new = NewWeb(p, pumps[p].title, pumps[p].title)
      OBVIOUS
    <2>5. new \in WebRecords /\ new.pump = p /\ WebOK(new)
      BY <2>1, <2>3, <2>4, NewWebFacts
    <2>6. /\ DOMAIN webs' = DOMAIN webs \cup {w} /\ webs'[w] = new
          /\ \A v \in DOMAIN webs : webs'[v] = webs[v]
      BY <1>4, <2>2, <2>4 DEF Put, Restrict
    <2>7. PumpsOK' /\ WebsOK'
      BY <1>1, <2>1, <2>2, <2>5, <2>6, WebComes DEF FlowInv
    <2>8. /\ DialogsOK'
          /\ DOMAIN flows' = DOMAIN flows \ {f}
          /\ \A g \in DOMAIN flows \ {f} : flows'[g] = flows[g]
      BY <1>2, <1>4, DialogEnds DEF FlowInv
    <2>9. VisitsAlone'
      BY <2>1, <2>5, <2>6, <2>8 DEF FlowInv, VisitsAlone, Waits
    <2> QED
      BY <2>7, <2>8, <2>9 DEF FlowInv
  <1> QED
    BY <1>3, <1>4 DEF WebifVisited

LEMMA LoggedInKeeps ==
  ASSUME FlowInv, NEW f \in DOMAIN flows, LoggedIn(f)
  PROVE  FlowInv'
  <1> DEFINE w == flows[f].entry
  <1>1. Waits(f, "login") /\ UNCHANGED <<pumps, gone, reserved>>
    BY DEF LoggedIn
  <1>2. Freed(f)
    BY <1>1, NothingHeld DEF Waits
  <1>3. PumpsOK' /\ WebsOK' /\ WebsStay
    <2>1. CASE UNCHANGED webs
      BY <1>1, <2>1, EntriesSame DEF FlowInv, entries
    <2>2. CASE /\ w \in DOMAIN webs /\ webs[w].reloads < MaxReloads
               /\ webs' = [webs EXCEPT ![w].reloads = @ + 1]
      <3>1. webs[w] \in WebRecords /\ WebOK(webs[w])
        BY <2>2 DEF FlowInv, WebsOK
      <3>2. /\ webs[w].reloads + 1 \in Nat /\ webs[w].reloads + 1 > 0
            /\ webs[w].reloads + 1 <= MaxReloads
            /\ webs[w].reloads + 1 <= MaxReloads + 1
        BY <2>2, <3>1, BoundFacts DEF WebRecords
      <3>3. PICK new : new = [webs[w] EXCEPT !.reloads = webs[w].reloads + 1]
        OBVIOUS
      <3>4. /\ new \in WebRecords /\ new.pump = webs[w].pump /\ new.state = webs[w].state
            /\ new.reloading = webs[w].reloading /\ new.asked = webs[w].asked
            /\ new.startedWith = webs[w].startedWith /\ new.title = webs[w].title
            /\ new.madeFrom = webs[w].madeFrom /\ new.titledAt = webs[w].titledAt
            /\ new.reloads = webs[w].reloads + 1
        BY <3>1, <3>2, <3>3 DEF WebRecords
      <3>5. UpToDate(webs[w]) => UpToDate(new)
        BY <3>4 DEF UpToDate, MadeFrom
      <3>6. WebOK(new)
        BY <3>1, <3>2, <3>4, <3>5 DEF WebOK
      <3>7. webs' = [webs EXCEPT ![w] = new]
        BY <2>2, <3>3
      <3> QED
        BY <1>1, <2>2, <3>4, <3>6, <3>7, WebMoves DEF FlowInv
    <2> QED
      BY <2>1, <2>2 DEF LoggedIn
  <1>4. \A v \in DOMAIN webs' : \E u \in DOMAIN webs : webs'[v].pump = webs[u].pump
    BY <1>3 DEF WebsStay
  <1>5. DialogsOK' /\ VisitsAlone'
    BY <1>2, <1>4, DialogDone DEF LoggedIn
  <1> QED
    BY <1>3, <1>5 DEF FlowInv

LEMMA CloseDialogKeeps ==
  ASSUME FlowInv, NEW f \in DOMAIN flows, CloseDialog(f)
  PROVE  FlowInv'
  <1>1. PumpsOK' /\ WebsOK' /\ WebsStay
    BY EntriesSame DEF FlowInv, CloseDialog
  <1>2. \A v \in DOMAIN webs' : \E u \in DOMAIN webs : webs'[v].pump = webs[u].pump
    BY <1>1 DEF WebsStay
  <1>3. DialogsOK' /\ VisitsAlone'
    BY <1>2, DialogDone DEF CloseDialog, Releases, Freed
  <1> QED
    BY <1>1, <1>3 DEF FlowInv

\* The entries' own steps leave the dialogs alone.
LEMMA EntriesMove ==
  ASSUME FlowInv, UNCHANGED <<flows, reserved>>, PumpsOK', WebsOK', WebsStay
  PROVE  FlowInv'
  <1>1. \A v \in DOMAIN webs' : \E u \in DOMAIN webs : webs'[v].pump = webs[u].pump
    BY DEF WebsStay
  <1> QED
    BY <1>1, DialogsSame DEF FlowInv

LEMMA MigrateEntryKeeps ==
  ASSUME FlowInv, NEW p \in DOMAIN pumps, MigrateEntry(p)
  PROVE  FlowInv'
  <1> DEFINE uid == PumpUid(pumps[p].host)
             holders == {q \in DOMAIN pumps \ {p} : pumps[q].uid = uid}
  <1>1. PICK pump : pump = [pumps[p] EXCEPT !.migrated = TRUE,
                                            !.uid = IF holders = {} THEN uid ELSE NoUid]
    OBVIOUS
  <1>2. UpdatePump(p, pump) /\ UNCHANGED <<gone, flows, reserved>>
    BY <1>1 DEF MigrateEntry
  <1>3. pumps[p] \in PumpRecords
    BY DEF FlowInv, PumpsOK
  <1>4. pump \in PumpRecords /\ pump.postfix = pumps[p].postfix
    BY <1>1, <1>3 DEF PumpRecords
  <1>5. \/ pump.uid \in {pumps[p].uid, NoUid}
        \/ \A q \in DOMAIN pumps \ {p} : pumps[q].uid # pump.uid
    BY <1>1, <1>3 DEF PumpRecords
  <1>6. PumpsOK' /\ WebsOK' /\ WebsStay
    BY <1>2, <1>4, <1>5, UpdateKeeps DEF FlowInv
  <1> QED
    BY <1>2, <1>6, EntriesMove

LEMMA RenamePumpKeeps ==
  ASSUME FlowInv, NEW p \in DOMAIN pumps, RenamePump(p)
  PROVE  FlowInv'
  <1>1. PICK pump : pump = [pumps[p] EXCEPT !.title = Own]
    OBVIOUS
  <1>2. UpdatePump(p, pump) /\ UNCHANGED <<gone, flows, reserved>>
    BY <1>1 DEF RenamePump
  <1>3. pumps[p] \in PumpRecords
    BY DEF FlowInv, PumpsOK
  <1>4. pump \in PumpRecords /\ pump.postfix = pumps[p].postfix /\ pump.uid = pumps[p].uid
    BY <1>1, <1>3 DEF PumpRecords, Titles
  <1>5. PumpsOK' /\ WebsOK' /\ WebsStay
    BY <1>2, <1>4, UpdateKeeps DEF FlowInv
  <1> QED
    BY <1>2, <1>5, EntriesMove

LEMMA RemovePumpKeeps ==
  ASSUME FlowInv, NEW p \in DOMAIN pumps, RemovePump(p)
  PROVE  FlowInv'
  <1>1. PumpsOK' /\ WebsOK' /\ WebsStay
    BY RemoveKeeps DEF FlowInv
  <1> QED
    BY <1>1, EntriesMove DEF RemovePump

\* One web interface moves on, beside the same pumps and dialogs; the user's title
\* of it stays.
WebStep(w) ==
    /\ UNCHANGED <<pumps, gone, flows, reserved>>
    /\ \E new \in WebRecords :
        /\ WebOK(new) /\ new.pump = webs[w].pump
        /\ webs[w].title = Own => new.title = Own
        /\ webs' = [webs EXCEPT ![w] = new]

LEMMA DataFacts ==
  ASSUME NEW pump \in PumpRecords
  PROVE  Data(pump) \in Hosts \X BOOLEAN
  BY DEF Data, PumpRecords

LEMMA SetUpSteps ==
  ASSUME FlowInv, NEW w \in DOMAIN webs, SetUp(w)
  PROVE  WebStep(w)
  <1> DEFINE p == webs[w].pump
  <1>1. webs[w] \in WebRecords /\ WebOK(webs[w]) /\ webs[w].state = "starting"
    BY DEF FlowInv, WebsOK, SetUp
  <1>2. webs[w].reloading = FALSE /\ webs[w].asked = 0 /\ webs[w].reloads <= MaxReloads
    BY <1>1 DEF WebOK, WebRecords
  <1>3. UNCHANGED <<pumps, gone, flows, reserved>>
    BY DEF SetUp
  <1>4. CASE p \in DOMAIN pumps
    <2>1. pumps[p] \in PumpRecords
      BY <1>4 DEF FlowInv, PumpsOK
    <2>2. pumps[p].title \in Titles /\ Data(pumps[p]) \in Hosts \X BOOLEAN
      BY <2>1, DataFacts DEF PumpRecords
    <2>3. PICK started :
            started = [webs[w] EXCEPT !.state = "loaded", !.startedWith = Data(pumps[p]),
                                      !.titledAt = pumps[p].title]
      OBVIOUS
    <2>4. /\ started \in WebRecords
          /\ started.pump = p /\ started.state = "loaded" /\ started.title = webs[w].title
          /\ started.startedWith = Data(pumps[p])
          /\ started.reloading = FALSE /\ started.asked = 0
          /\ started.reloads = webs[w].reloads
      BY <1>1, <1>2, <2>2, <2>3 DEF WebRecords
    <2>5. PICK new : new = Retitled(started, pumps[p].title)
      OBVIOUS
    <2>6. /\ new \in WebRecords
          /\ new.pump = p /\ new.state = "loaded"
          /\ new.startedWith = Data(pumps[p])
          /\ new.reloading = FALSE /\ new.asked = 0
          /\ new.reloads = webs[w].reloads
          /\ webs[w].title = Own => new.title = Own
          /\ new.title = WebTitle(MadeFrom(new)) => MadeFrom(new) = pumps[p].title
      BY <2>2, <2>4, <2>5, RetitledFacts
    <2>7. UpToDate(new)
      BY <1>4, <2>6 DEF UpToDate
    <2>8. new.reloads <= MaxReloads + 1
      BY <1>2, <2>6, BoundFacts DEF WebRecords
    <2>9. WebOK(new)
      BY <1>2, <2>6, <2>7, <2>8 DEF WebOK
    <2>10. webs' = [webs EXCEPT ![w] = new]
      BY <1>4, <2>3, <2>5 DEF SetUp
    <2> QED
      BY <1>3, <2>6, <2>9, <2>10 DEF WebStep
  <1>5. CASE p \notin DOMAIN pumps
    <2>1. PICK new : new = Unloaded(webs[w], "failed")
      OBVIOUS
    <2>2. /\ new \in WebRecords
          /\ new.pump = p /\ new.title = webs[w].title /\ new.state = "failed"
          /\ new.reloading = FALSE /\ new.asked = 0 /\ new.reloads = webs[w].reloads
      BY <1>1, <2>1 DEF Unloaded, WebRecords
    <2>3. WebOK(new)
      BY <1>2, <2>2, RestFacts
    <2>4. webs' = [webs EXCEPT ![w] = new]
      BY <1>5, <2>1 DEF SetUp
    <2> QED
      BY <1>3, <2>2, <2>3, <2>4 DEF WebStep
  <1> QED
    BY <1>4, <1>5

LEMMA ReloadSteps ==
  ASSUME FlowInv, NEW w \in DOMAIN webs, Reload(w)
  PROVE  WebStep(w)
  <1>1. webs[w] \in WebRecords /\ WebOK(webs[w]) /\ webs[w].reloads > 0
    BY DEF FlowInv, WebsOK, Reload
  <1>2. UNCHANGED <<pumps, gone, flows, reserved>>
    BY DEF Reload
  <1>3. /\ webs[w].reloads - 1 \in Nat /\ webs[w].reloads - 1 <= MaxReloads
        /\ webs[w].reloads <= MaxReloads + 1
    BY <1>1, BoundFacts DEF WebRecords, WebOK
  <1>4. PICK left : left = [webs[w] EXCEPT !.reloads = webs[w].reloads - 1]
    OBVIOUS
  <1>5. /\ left \in WebRecords /\ left.pump = webs[w].pump /\ left.state = webs[w].state
        /\ left.title = webs[w].title /\ left.reloading = webs[w].reloading
        /\ left.asked = webs[w].asked /\ left.reloads <= MaxReloads
    BY <1>1, <1>3, <1>4 DEF WebRecords
  <1>6. webs' = [webs EXCEPT ![w] =
                   IF left.state = "off" THEN left ELSE Unloaded(left, "starting")]
    BY <1>4 DEF Reload
  <1>7. CASE left.state = "off"
    <2>1. left.reloading = FALSE /\ left.asked = 0
      BY <1>1, <1>5, <1>7 DEF WebOK, WebRecords
    <2>2. WebOK(left)
      BY <1>5, <1>7, <2>1, RestFacts
    <2> QED
      BY <1>2, <1>5, <1>6, <1>7, <2>2 DEF WebStep
  <1>8. CASE left.state # "off"
    <2>1. PICK new : new = Unloaded(left, "starting")
      OBVIOUS
    <2>2. /\ new \in WebRecords
          /\ new.pump = left.pump /\ new.title = left.title /\ new.state = "starting"
          /\ new.reloading = FALSE /\ new.asked = 0 /\ new.reloads = left.reloads
      BY <1>5, <2>1 DEF Unloaded, WebRecords
    <2>3. WebOK(new)
      BY <1>5, <2>2, RestFacts
    <2> QED
      BY <1>2, <1>5, <1>6, <1>8, <2>1, <2>2, <2>3 DEF WebStep
  <1> QED
    BY <1>7, <1>8

LEMMA SwitchWebSteps ==
  ASSUME FlowInv, NEW w \in DOMAIN webs, SwitchWeb(w)
  PROVE  WebStep(w)
  <1>1. webs[w] \in WebRecords /\ webs[w].reloads < MaxReloads
    BY DEF FlowInv, WebsOK, SwitchWeb
  <1>2. PICK state \in {"starting", "off"} : webs' = [webs EXCEPT ![w] = Unloaded(webs[w], state)]
    BY DEF SwitchWeb
  <1>3. PICK new : new = Unloaded(webs[w], state)
    OBVIOUS
  <1>4. /\ new \in WebRecords
        /\ new.pump = webs[w].pump /\ new.title = webs[w].title /\ new.state = state
        /\ new.reloading = FALSE /\ new.asked = 0 /\ new.reloads = webs[w].reloads
    BY <1>1, <1>3 DEF Unloaded, WebRecords
  <1>5. new.state # "loaded" /\ new.reloads <= MaxReloads
    BY <1>1, <1>4, BoundFacts DEF WebRecords
  <1>6. WebOK(new)
    BY <1>4, <1>5, RestFacts
  <1> QED
    BY <1>2, <1>3, <1>4, <1>6 DEF WebStep, SwitchWeb

LEMMA RenameWebSteps ==
  ASSUME FlowInv, NEW w \in DOMAIN webs, RenameWeb(w)
  PROVE  WebStep(w)
  <1>1. webs[w] \in WebRecords /\ WebOK(webs[w])
    BY DEF FlowInv, WebsOK
  <1>2. PICK new : new = [webs[w] EXCEPT !.title = Own]
    OBVIOUS
  <1>3. /\ new \in WebRecords /\ new.pump = webs[w].pump /\ new.state = webs[w].state
        /\ new.reloading = webs[w].reloading /\ new.asked = webs[w].asked
        /\ new.startedWith = webs[w].startedWith /\ new.title = Own
        /\ new.madeFrom = webs[w].madeFrom /\ new.titledAt = webs[w].titledAt
        /\ new.reloads = webs[w].reloads
    BY <1>1, <1>2 DEF WebRecords
  <1>4. MadeFrom(new) \in Titles \cup {None}
    BY <1>3 DEF MadeFrom, WebRecords
  <1>5. UpToDate(webs[w]) => UpToDate(new)
    BY <1>3, <1>4, TitleFacts DEF UpToDate
  <1>6. WebOK(new)
    BY <1>1, <1>3, <1>5 DEF WebOK
  <1> QED
    BY <1>2, <1>3, <1>6 DEF WebStep, RenameWeb

LEMMA WebStepKeeps ==
  ASSUME FlowInv, NEW w \in DOMAIN webs, WebStep(w)
  PROVE  FlowInv'
  <1>1. PumpsOK' /\ WebsOK' /\ WebsStay
    BY WebMoves DEF FlowInv, WebStep
  <1> QED
    BY <1>1, EntriesMove DEF WebStep

LEMMA RemoveWebKeeps ==
  ASSUME FlowInv, NEW w \in DOMAIN webs, RemoveWeb(w)
  PROVE  FlowInv'
  <1>1. PumpsOK' /\ WebsOK'
    BY WebGoes DEF FlowInv
  <1>2. /\ DOMAIN webs' = DOMAIN webs \ {w} /\ UNCHANGED <<flows, reserved>>
        /\ \A v \in DOMAIN webs \ {w} : webs'[v] = webs[v]
    BY WithoutFacts DEF RemoveWeb
  <1>3. \A v \in DOMAIN webs' : \E u \in DOMAIN webs : webs'[v].pump = webs[u].pump
    BY <1>2
  <1> QED
    BY <1>1, <1>2, <1>3, DialogsSame DEF FlowInv

LEMMA FlowStep ==
  ASSUME FlowInv, [FlowNext]_flowVars
  PROVE  FlowInv'
  <1>1. ASSUME NEW f \in Flows, NEW h \in Hosts, NEW x \in Postfixes, SubmitPump(f, h, x)
        PROVE  FlowInv'
    BY <1>1, SubmitPumpKeeps
  <1>2. ASSUME NEW f \in Flows, NEW p \in Pumps, NEW h \in Hosts, Reconfigure(f, p, h)
        PROVE  FlowInv'
    BY <1>2, ReconfigureKeeps
  <1>3. ASSUME NEW f \in Flows, NEW p \in Pumps, SubmitWebif(f, p)
        PROVE  FlowInv'
    BY <1>3, SubmitWebifKeeps
  <1>4. ASSUME NEW f \in Flows, NEW w \in Webs, SubmitLogin(f, w)
        PROVE  FlowInv'
    BY <1>4, SubmitLoginKeeps
  <1>5. ASSUME NEW f \in DOMAIN flows,
               PumpProbed(f) \/ Reconfigured(f) \/ WebifVisited(f) \/ LoggedIn(f) \/ CloseDialog(f)
        PROVE  FlowInv'
    BY <1>5, PumpProbedKeeps, ReconfiguredKeeps, WebifVisitedKeeps, LoggedInKeeps,
       CloseDialogKeeps
  <1>6. ASSUME NEW p \in DOMAIN pumps, MigrateEntry(p) \/ RemovePump(p) \/ RenamePump(p)
        PROVE  FlowInv'
    BY <1>6, MigrateEntryKeeps, RemovePumpKeeps, RenamePumpKeeps
  <1>7. ASSUME NEW w \in DOMAIN webs,
               SetUp(w) \/ Reload(w) \/ RemoveWeb(w) \/ RenameWeb(w) \/ SwitchWeb(w)
        PROVE  FlowInv'
    BY <1>7, SetUpSteps, ReloadSteps, RemoveWebKeeps, RenameWebSteps, SwitchWebSteps,
       WebStepKeeps
  <1>8. CASE UNCHANGED flowVars
    <2>1. UNCHANGED entries /\ UNCHANGED <<flows, reserved>>
      BY <1>8 DEF flowVars, entries
    <2>2. PumpsOK' /\ WebsOK' /\ WebsStay
      BY <2>1, EntriesSame DEF FlowInv
    <2> QED
      BY <2>1, <2>2, EntriesMove
  <1> QED
    BY <1>1, <1>2, <1>3, <1>4, <1>5, <1>6, <1>7, <1>8 DEF FlowNext

LEMMA FlowInit ==
  ASSUME NEW used \in SUBSET (Pumps \cup Webs), Init(used)
  PROVE  FlowInv
  <1>1. gone = used /\ flows = <<>> /\ reserved = <<>>
    BY DEF Init
  <1>2. DOMAIN flows = {} /\ DOMAIN reserved = {}
    BY <1>1
  <1>3. DialogsOK /\ VisitsAlone
    BY <1>2 DEF DialogsOK, VisitsAlone
  <1>4. CASE /\ webs = <<>>
             /\ \E S \in SUBSET (Pumps \ used) : \E hosts \in [S -> Hosts] :
                  pumps = [p \in S |-> OldPump(hosts[p])]
    <2>1. PICK S \in SUBSET (Pumps \ used) :
            \E hosts \in [S -> Hosts] : pumps = [p \in S |-> OldPump(hosts[p])]
      BY <1>4
    <2>2. \A p \in S : /\ pumps[p] \in PumpRecords /\ pumps[p].uid = NoUid
                       /\ pumps[p].postfix = ""
      <3>1. PICK hosts \in [S -> Hosts] : pumps = [p \in S |-> OldPump(hosts[p])]
        BY <2>1
      <3>2. TAKE p \in S
      <3>3. hosts[p] \in Hosts /\ pumps[p] = OldPump(hosts[p])
        BY <3>1
      <3> QED
        BY <3>3, PumpFacts
    <2>3. DOMAIN webs = {} /\ DOMAIN pumps = S
      BY <1>4, <2>1
    <2> QED
      BY <1>1, <1>3, <2>2, <2>3 DEF FlowInv, PumpsOK, WebsOK
  <1>5. ASSUME NEW p \in Pumps \ used, NEW w \in Webs \ used, NEW h \in Hosts,
               pumps = [q \in {p} |->
                          [OldPump(h) EXCEPT !.uid = PumpUid(h), !.migrated = TRUE]],
               webs = [v \in {w} |-> NewWeb(p, h, None)]
        PROVE  FlowInv
    <2>1. PICK pump : pump = [OldPump(h) EXCEPT !.uid = PumpUid(h), !.migrated = TRUE]
      OBVIOUS
    <2>2. OldPump(h) \in PumpRecords
      BY PumpFacts
    <2>3. pump \in PumpRecords
      BY <2>1, <2>2 DEF PumpRecords
    <2>4. PICK new : new = NewWeb(p, h, None)
      OBVIOUS
    <2>5. h \in Titles
      BY DEF Titles
    <2>6. new \in WebRecords /\ new.pump = p /\ WebOK(new)
      BY <2>4, <2>5, NewWebFacts
    <2>7. /\ DOMAIN pumps = {p} /\ pumps[p] = pump
          /\ DOMAIN webs = {w} /\ webs[w] = new
      BY <1>5, <2>1, <2>4
    <2>8. PumpsOK
      BY <1>1, <2>3, <2>7 DEF PumpsOK
    <2>9. WebsOK
      BY <2>6, <2>7 DEF WebsOK
    <2> QED
      BY <1>3, <2>8, <2>9 DEF FlowInv
  <1> QED
    BY <1>4, <1>5 DEF Init

LEMMA FlowAlways == FlowSpec => []FlowInv
  <1>1. (\E used \in SUBSET (Pumps \cup Webs) : Init(used)) => FlowInv
    BY FlowInit
  <1>2. FlowInv /\ [FlowNext]_flowVars => FlowInv'
    BY FlowStep
  <1> QED
    BY <1>1, <1>2, PTL DEF FlowSpec

----
\* What the dialogs and the entries promise.

\* Entries and dialogs keep their types, no id is used again, and no web interface
\* that is not loaded has a listener: config_flow.py with follow_pump.
THEOREM TypeCorrect == FlowSpec => []TypeOK
  <1>1. FlowInv => TypeOK
    <2> SUFFICES ASSUME FlowInv PROVE TypeOK
      OBVIOUS
    <2>1. /\ DOMAIN pumps \subseteq Pumps /\ DOMAIN webs \subseteq Webs
          /\ gone \subseteq Pumps \cup Webs
          /\ gone \cap (DOMAIN pumps \cup DOMAIN webs) = {}
          /\ \A p \in DOMAIN pumps :
               pumps[p] \in [host : Hosts, uid : {NoUid} \cup {PumpUid(h) : h \in Hosts},
                             postfix : Postfixes, title : Hosts \cup {Own}, migrated : BOOLEAN]
      BY DEF FlowInv, PumpsOK, PumpRecords, Titles
    <2>2. ASSUME NEW w \in DOMAIN webs
          PROVE  /\ webs[w].state \in {"starting", "loaded", "failed", "off"}
                 /\ webs[w].reloads \in 0..MaxReloads + 1
                 /\ webs[w].state # "loaded" => ~webs[w].reloading /\ webs[w].asked = 0
      <3>1. webs[w] \in WebRecords /\ WebOK(webs[w])
        BY DEF FlowInv, WebsOK
      <3>2. webs[w].reloads \in 0..MaxReloads + 1
        BY <3>1, BoundFacts DEF WebRecords, WebOK
      <3>3. webs[w].state # "loaded" => webs[w].reloading = FALSE /\ webs[w].asked = 0
        BY <3>1 DEF WebOK
      <3> QED
        BY <3>1, <3>2, <3>3 DEF WebRecords
    <2>3. /\ DOMAIN reserved \subseteq DOMAIN flows /\ DOMAIN flows \subseteq Flows
          /\ \A f \in DOMAIN reserved : reserved[f] \in Postfixes
      BY DEF FlowInv, DialogsOK
    <2>4. \A f \in DOMAIN flows : /\ flows[f].kind \in {"pump", "reconfigure", "webif", "login"}
                                  /\ flows[f].step \in {"form", "waits"}
      BY DEF FlowInv, DialogsOK, FlowRecords
    <2> QED
      BY <2>1, <2>2, <2>3, <2>4 DEF TypeOK
  <1> QED
    BY <1>1, FlowAlways, PTL

\* Whatever dialogs are open together and whatever moves while they probe: no two
\* entries share an identity or a postfix, no pump has two web interfaces, and no
\* two dialogs are at one identity (_objection, _reserved_objection and
\* RESERVED_POSTFIXES of config_flow.py).
THEOREM EntriesAlwaysApart == FlowSpec => []EntriesStayApart
  <1>1. FlowInv => EntriesStayApart
    <2> SUFFICES ASSUME FlowInv PROVE EntriesStayApart
      OBVIOUS
    <2>1. ASSUME NEW f \in DOMAIN flows, NEW g \in DOMAIN flows, f # g
          PROVE  /\ flows[f].uid = flows[g].uid => flows[f].uid = NoUid
                 /\ {f, g} \subseteq DOMAIN reserved => reserved[f] # reserved[g]
      BY <2>1 DEF FlowInv, DialogsOK
    <2>2. /\ \A p, q \in DOMAIN pumps :
               p # q => /\ pumps[p].uid = pumps[q].uid => pumps[p].uid = NoUid
                        /\ pumps[p].postfix = pumps[q].postfix => pumps[p].postfix = ""
          /\ \A v, w \in DOMAIN webs : v # w => webs[v].pump # webs[w].pump
      BY DEF FlowInv, PumpsOK, WebsOK
    <2>3. DOMAIN reserved = {f \in DOMAIN flows : Waits(f, "pump")}
      BY DEF FlowInv, DialogsOK
    <2> QED
      BY <2>1, <2>2, <2>3 DEF EntriesStayApart
  <1> QED
    BY <1>1, FlowAlways, PTL

\* A loaded web interface runs with its pump's present data, under a title made
\* from the pump's present one, or waits for the one reload that brings both:
\* follow_pump and _retitle_after_pump of __init__.py.
THEOREM WebsAlwaysFollow == FlowSpec => []WebFollowsItsPump
  <1>1. FlowInv => WebFollowsItsPump
    <2> SUFFICES ASSUME FlowInv, NEW w \in DOMAIN webs, webs[w].state = "loaded"
                 PROVE  \/ webs[w].asked = 1 /\ webs[w].reloads > 0
                        \/ webs[w].asked = 0 /\ UpToDate(webs[w])
      BY DEF WebFollowsItsPump, UpToDate
    <2>1. webs[w] \in WebRecords /\ WebOK(webs[w])
      BY DEF FlowInv, WebsOK
    <2>2. webs[w].reloading \in BOOLEAN
      BY <2>1 DEF WebRecords
    <2> QED
      BY <2>1, <2>2 DEF WebOK
  <1> QED
    BY <1>1, FlowAlways, PTL

----
\* What only the user takes away, in each step.

Untaken ==
    /\ DOMAIN pumps' \cup DOMAIN webs' \subseteq DOMAIN pumps \cup DOMAIN webs
       \/ DOMAIN pumps \cup DOMAIN webs \subseteq DOMAIN pumps' \cup DOMAIN webs'
    /\ \A p \in DOMAIN pumps' \ DOMAIN pumps : \A q \in DOMAIN pumps :
         pumps[q].postfix # pumps'[p].postfix
    /\ \A p \in DOMAIN pumps \cap DOMAIN pumps' :
         pumps[p].title = Own => pumps'[p].title = Own
    /\ \A w \in DOMAIN webs \cap DOMAIN webs' :
         webs[w].title = Own => webs'[w].title = Own

LEMMA UpdateTakesNothing ==
  ASSUME FlowInv, NEW p \in DOMAIN pumps, NEW pump \in PumpRecords, UpdatePump(p, pump),
         pumps[p].title = Own => pump.title = Own
  PROVE  Untaken
  <1>1. /\ DOMAIN pumps' = DOMAIN pumps /\ pumps'[p] = pump
        /\ \A q \in DOMAIN pumps \ {p} : pumps'[q] = pumps[q]
        /\ TellFollowers(p, FALSE, pump)
    BY DEF UpdatePump
  <1>2. /\ DOMAIN webs' = DOMAIN webs
        /\ \A w \in DOMAIN webs : Told(webs[w], webs'[w], p, FALSE, pump)
    BY <1>1, TellFacts DEF FlowInv
  <1>3. \A w \in DOMAIN webs : webs[w].title = Own => webs'[w].title = Own
    BY <1>2 DEF Told
  <1> QED
    BY <1>1, <1>2, <1>3 DEF Untaken

LEMMA RemoveTakesOne ==
  ASSUME FlowInv, NEW p \in DOMAIN pumps, RemovePump(p)
  PROVE  Untaken
  <1>1. /\ DOMAIN pumps' = DOMAIN pumps \ {p}
        /\ \A q \in DOMAIN pumps \ {p} : pumps'[q] = pumps[q]
        /\ TellFollowers(p, TRUE, pumps[p])
    BY WithoutFacts DEF RemovePump
  <1>2. /\ DOMAIN webs' = DOMAIN webs
        /\ \A w \in DOMAIN webs : Told(webs[w], webs'[w], p, TRUE, pumps[p])
    BY <1>1, TellFacts DEF FlowInv, PumpsOK
  <1>3. \A w \in DOMAIN webs : webs[w].title = Own => webs'[w].title = Own
    BY <1>2 DEF Told
  <1> QED
    BY <1>1, <1>2, <1>3 DEF Untaken

LEMMA WebStepTakesNothing ==
  ASSUME NEW w \in DOMAIN webs, UNCHANGED pumps, NEW new,
         webs[w].title = Own => new.title = Own, webs' = [webs EXCEPT ![w] = new]
  PROVE  Untaken
  BY DEF Untaken

LEMMA ProbeTakesNothing ==
  ASSUME FlowInv, NEW f \in DOMAIN flows, PumpProbed(f)
  PROVE  Untaken
  <1>1. CASE UNCHANGED entries
    BY <1>1 DEF Untaken, entries
  <1>2. CASE /\ Waits(f, "pump") /\ AfterProbe(f) = "create" /\ CreatePump(f)
             /\ UNCHANGED webs
    <2>1. PICK p \in Pumps \ (DOMAIN pumps \cup gone), pump \in PumpRecords :
            /\ DOMAIN pumps' = DOMAIN pumps \cup {p} /\ pumps'[p] = pump /\ gone' = gone
            /\ \A q \in DOMAIN pumps : pumps'[q] = pumps[q]
            /\ \A q \in DOMAIN pumps : pumps[q].uid # pump.uid /\ pumps[q].postfix # pump.postfix
      BY <1>2, CreatedFacts
    <2> QED
      BY <1>2, <2>1 DEF Untaken
  <1> QED
    BY <1>1, <1>2 DEF PumpProbed

LEMMA ReconfiguredTakesNothing ==
  ASSUME FlowInv, NEW f \in DOMAIN flows, Reconfigured(f)
  PROVE  Untaken
  <1> DEFINE p == flows[f].entry
             host == flows[f].input[1]
             pump == [pumps[p] EXCEPT !.host = host, !.uid = PumpUid(host),
                                      !.title = TitleAfterReconfigure(pumps[p], host)]
  <1>1. CASE UNCHANGED <<pumps, webs>>
    BY <1>1 DEF Untaken
  <1>2. CASE /\ Waits(f, "reconfigure") /\ p \in DOMAIN pumps /\ UpdatePump(p, pump)
    <2>1. pumps[p] \in PumpRecords
      BY <1>2 DEF FlowInv, PumpsOK
    <2>2. host \in Hosts
      BY <1>2 DEF FlowInv, DialogsOK, Input, Waits
    <2>3. TitleAfterReconfigure(pumps[p], host) \in Titles
      BY <2>1, <2>2 DEF TitleAfterReconfigure, PumpRecords, Titles
    <2>4. pump \in PumpRecords /\ pump.title = TitleAfterReconfigure(pumps[p], host)
      BY <2>1, <2>2, <2>3 DEF PumpRecords
    <2>5. pumps[p].title = Own => pump.title = Own
      BY <2>1, <2>4, TitleFacts DEF TitleAfterReconfigure, PumpRecords
    <2> HIDE DEF pump
    <2> QED
      BY <1>2, <2>4, <2>5, UpdateTakesNothing
  <1> QED
    BY <1>1, <1>2 DEF Reconfigured

LEMMA VisitTakesNothing ==
  ASSUME FlowInv, NEW f \in DOMAIN flows, WebifVisited(f)
  PROVE  Untaken
  <1> DEFINE p == flows[f].input[1]
             replaced == {w \in DOMAIN webs : webs[w].pump = p}
  <1>1. CASE UNCHANGED <<pumps, webs>>
    BY <1>1 DEF Untaken
  <1>2. CASE /\ Waits(f, "webif") /\ UNCHANGED pumps
             /\ \E w \in Webs \ (DOMAIN webs \cup gone) :
                  webs' = Put(Restrict(webs, DOMAIN webs \ replaced), w,
                              NewWeb(p, pumps[p].title, pumps[p].title))
    <2>1. replaced = {}
      BY <1>2, VisitFacts
    <2>2. PICK w \in Webs \ (DOMAIN webs \cup gone) :
            webs' = Put(Restrict(webs, DOMAIN webs \ {}), w,
                        NewWeb(p, pumps[p].title, pumps[p].title))
      BY <1>2, <2>1
    <2>3. /\ DOMAIN webs' = DOMAIN webs \cup {w}
          /\ \A v \in DOMAIN webs : webs'[v] = webs[v]
      BY <2>2 DEF Put, Restrict
    <2> QED
      BY <1>2, <2>3 DEF Untaken
  <1> QED
    BY <1>1, <1>2 DEF WebifVisited

LEMMA LoginTakesNothing ==
  ASSUME FlowInv, NEW f \in DOMAIN flows, LoggedIn(f)
  PROVE  Untaken
  <1> DEFINE w == flows[f].entry
  <1>1. CASE UNCHANGED <<pumps, webs>>
    BY <1>1 DEF Untaken
  <1>2. CASE /\ w \in DOMAIN webs /\ UNCHANGED pumps
             /\ webs' = [webs EXCEPT ![w].reloads = @ + 1]
    <2>1. PICK new : new = [webs[w] EXCEPT !.reloads = webs[w].reloads + 1]
      OBVIOUS
    <2>2. webs[w] \in WebRecords
      BY <1>2 DEF FlowInv, WebsOK
    <2>3. new.title = webs[w].title /\ webs' = [webs EXCEPT ![w] = new]
      BY <1>2, <2>1, <2>2 DEF WebRecords
    <2> QED
      BY <1>2, <2>3, WebStepTakesNothing
  <1> QED
    BY <1>1, <1>2 DEF LoggedIn

LEMMA PumpStepsTakeNothing ==
  ASSUME FlowInv, NEW p \in DOMAIN pumps, MigrateEntry(p) \/ RenamePump(p)
  PROVE  Untaken
  <1>1. pumps[p] \in PumpRecords
    BY DEF FlowInv, PumpsOK
  <1>2. CASE MigrateEntry(p)
    <2> DEFINE uid == PumpUid(pumps[p].host)
               holders == {q \in DOMAIN pumps \ {p} : pumps[q].uid = uid}
    <2>1. PICK pump : pump = [pumps[p] EXCEPT !.migrated = TRUE,
                                              !.uid = IF holders = {} THEN uid ELSE NoUid]
      OBVIOUS
    <2>2. UpdatePump(p, pump)
      BY <1>2, <2>1 DEF MigrateEntry
    <2>3. pump \in PumpRecords /\ pump.title = pumps[p].title
      BY <1>1, <2>1 DEF PumpRecords
    <2> QED
      BY <2>2, <2>3, UpdateTakesNothing
  <1>3. CASE RenamePump(p)
    <2>1. PICK pump : pump = [pumps[p] EXCEPT !.title = Own]
      OBVIOUS
    <2>2. UpdatePump(p, pump)
      BY <1>3, <2>1 DEF RenamePump
    <2>3. pump \in PumpRecords /\ pump.title = Own
      BY <1>1, <2>1 DEF PumpRecords, Titles
    <2> QED
      BY <2>2, <2>3, UpdateTakesNothing
  <1> QED
    BY <1>2, <1>3

LEMMA WebTakesNothing ==
  ASSUME FlowInv, NEW w \in DOMAIN webs,
         SetUp(w) \/ Reload(w) \/ RemoveWeb(w) \/ RenameWeb(w) \/ SwitchWeb(w)
  PROVE  Untaken
  <1>1. CASE WebStep(w)
    BY <1>1, WebStepTakesNothing DEF WebStep
  <1>2. CASE RemoveWeb(w)
    <2>1. /\ DOMAIN webs' = DOMAIN webs \ {w} /\ pumps' = pumps
          /\ \A v \in DOMAIN webs \ {w} : webs'[v] = webs[v]
      BY <1>2, WithoutFacts DEF RemoveWeb
    <2> QED
      BY <2>1 DEF Untaken
  <1> QED
    BY <1>1, <1>2, SetUpSteps, ReloadSteps, RenameWebSteps, SwitchWebSteps

\* No dialog replaces an entry, a new pump takes no postfix of one that is there,
\* and a title the user gave survives every change of the code's: CreatePump and
\* WebifVisited find nothing to replace, and neither _title_after_reconfigure nor
\* _retitle_after_pump touches the user's title.
THEOREM OnlyTheUser == FlowSpec => OnlyTheUserTakesAway
  <1>1. FlowInv /\ [FlowNext]_flowVars => Untaken
    <2> SUFFICES ASSUME FlowInv, [FlowNext]_flowVars PROVE Untaken
      OBVIOUS
    <2>1. CASE UNCHANGED <<pumps, webs>>
      BY <2>1 DEF Untaken
    <2>2. ASSUME NEW f \in DOMAIN flows,
                 PumpProbed(f) \/ Reconfigured(f) \/ WebifVisited(f) \/ LoggedIn(f)
          PROVE  Untaken
      BY <2>2, ProbeTakesNothing, ReconfiguredTakesNothing, VisitTakesNothing,
         LoginTakesNothing
    <2>3. ASSUME NEW p \in DOMAIN pumps, MigrateEntry(p) \/ RemovePump(p) \/ RenamePump(p)
          PROVE  Untaken
      BY <2>3, PumpStepsTakeNothing, RemoveTakesOne
    <2>4. ASSUME NEW w \in DOMAIN webs,
                 SetUp(w) \/ Reload(w) \/ RemoveWeb(w) \/ RenameWeb(w) \/ SwitchWeb(w)
          PROVE  Untaken
      BY <2>4, WebTakesNothing
    <2>5. ASSUME NEW f, NEW p, NEW h, NEW x,
                 \/ SubmitPump(f, h, x) \/ Reconfigure(f, p, h) \/ SubmitWebif(f, p)
                 \/ SubmitLogin(f, p) \/ CloseDialog(f)
          PROVE  UNCHANGED <<pumps, webs>>
      BY <2>5 DEF SubmitPump, Reconfigure, SubmitWebif, SubmitLogin, CloseDialog, entries
    <2>6. CASE UNCHANGED flowVars
      BY <2>1, <2>6 DEF flowVars
    <2> QED
      BY <2>1, <2>2, <2>3, <2>4, <2>5, <2>6 DEF FlowNext
  <1>2. FlowInv /\ [FlowNext]_flowVars => [Untaken]_flowVars
    BY <1>1
  <1>3. FlowSpec => [][Untaken]_flowVars
    BY <1>2, FlowAlways, PTL DEF FlowSpec
  <1> QED
    BY <1>3 DEF OnlyTheUserTakesAway, Untaken
====
