------------------------------ MODULE Dashboard ------------------------------
(***************************************************************************)
(* The dashboard (python/volvo_diag/web.py): the pages open in browsers    *)
(* and the single-threaded server between them and the bus session.        *)
(*                                                                         *)
(* The server handles one request at a time and to its end, so a request   *)
(* is one step; of the backend it sees what BusSession says.  A page is a  *)
(* set of callbacks: it sends requests without waiting, goes on taking     *)
(* clicks, and runs a callback when the answer is there.  Requests of one  *)
(* page are handled, and their answers delivered, in the order sent.       *)
(***************************************************************************)
EXTENDS BusSession, Naturals, Sequences, FiniteSets

CONSTANTS
  None,
  Pages,        \* the pages open, tabs of one browser
  Keys,         \* parameter keys
  KeysOn(_),    \* those of the modules on a bus (list_params)
  MaxClicks,    \* bound: clicks of all users together
  MaxLost       \* bound: requests that fail on the network

ASSUME DashboardAssumption ==
  /\ None \notin Buses
  /\ Pages # {}
  /\ \A b \in Buses : KeysOn(b) \subseteq Keys
  /\ MaxClicks \in Nat /\ MaxLost \in Nat

VARIABLES
  selection,   \* state.selection: what /data reads
  saved,       \* localStorage: the ticked parameters of each bus
  page,        \* what each page knows and shows
  requests,    \* each page's requests the server has not handled
  answers,     \* answers whose callback has not run
  timer,       \* the page's next poll is scheduled
  applied,     \* history: the keys with a recent value in the last data applied
  astray,      \* history: a configuration read left the session elsewhere
  clicks, lost \* counters of the bounds

server == <<session, selection, astray>>
vars == <<server, saved, page, requests, answers, timer, applied, clicks, lost>>

View == {"live", "config", "dtc"}
Card == {"none", "dash", "bright", "dim"}

(* A page: STATE, LAST and the contents of #main.  listed is the bus whose     *)
(* trouble codes it lists (None without codes), cards the look of each card. *)
Page == [bus : Buses \cup {None}, params : Buses \cup {None}, sel : SUBSET Keys,
         view : View, main : View \cup {None}, listed : Buses \cup {None},
         cards : [Keys -> Card], last : SUBSET Keys]

Kind == {"meta", "params", "data", "select", "bus", "config", "dtc", "clear"}

Request(kind, arg) == [kind |-> kind, arg |-> arg]

TypeOK ==
  /\ SessionTypeOK
  /\ selection \subseteq Keys
  /\ saved \in [Buses -> SUBSET Keys]
  /\ page \in [Pages -> Page]
  /\ \A p \in Pages : \A i \in DOMAIN requests[p] : requests[p][i].kind \in Kind
  /\ \A p \in Pages : \A i \in DOMAIN answers[p] :
       answers[p][i].kind \in Kind /\ answers[p][i].ok \in BOOLEAN
  /\ timer \in [Pages -> BOOLEAN]
  /\ applied \in [Pages -> SUBSET Keys]
  /\ astray \in BOOLEAN
  /\ clicks \in 0 .. MaxClicks /\ lost \in 0 .. MaxLost

NoCards == [k \in Keys |-> "none"]

(* init(): /meta is asked for, and the poll loop starts with nothing ticked. *)
Init ==
  /\ SessionInit
  /\ selection = {}
  /\ saved \in {s \in [Buses -> SUBSET Keys] : \A b \in Buses : s[b] \subseteq KeysOn(b)}
  /\ page = [p \in Pages |-> [bus |-> None, params |-> None, sel |-> {},
                              view |-> "live", main |-> None, listed |-> None,
                              cards |-> NoCards, last |-> {}]]
  /\ requests = [p \in Pages |-> <<Request("meta", None)>>]
  /\ answers = [p \in Pages |-> <<>>]
  /\ timer = [p \in Pages |-> TRUE]
  /\ applied = [p \in Pages |-> {}]
  /\ astray = FALSE
  /\ clicks = 0 /\ lost = 0

-----------------------------------------------------------------------------
(* The server: Handler.do_GET and do_POST *)

Asked(p, kind) == requests[p] # <<>> /\ Head(requests[p]).kind = kind

Reply(p, ok, body) ==
  /\ requests' = [requests EXCEPT ![p] = Tail(@)]
  /\ answers' = [answers EXCEPT ![p] =
       Append(@, [kind |-> Head(requests[p]).kind, arg |-> Head(requests[p]).arg,
                  ok |-> ok, body |-> body])]
  /\ UNCHANGED <<saved, page, timer, applied, clicks>>

Handled(p, body) == Reply(p, TRUE, body) /\ UNCHANGED lost

(* /meta and /params: the current bus, and the parameters of its modules. *)
ServeState(p) ==
  /\ Asked(p, "meta") \/ Asked(p, "params")
  /\ Handled(p, bus)
  /\ UNCHANGED server

(* /data: a row for every selected key.  A value is new or old to the page (its *)
(* age is below or above 1.5 s); without a link every row is a miss.         *)
ServeData(p) ==
  /\ Asked(p, "data")
  /\ \E rows \in [selection -> IF up THEN {"new", "old", "miss"} ELSE {"miss"}] :
       Handled(p, rows)
  /\ UNCHANGED server

(* /select *)
ServeSelect(p) ==
  /\ Asked(p, "select")
  /\ selection' = Head(requests[p]).arg
  /\ Handled(p, None)
  /\ UNCHANGED <<session, astray>>

(* /bus: only a switch that worked forgets the selection. *)
ServeBus(p) ==
  /\ Asked(p, "bus")
  /\ \/ /\ Switched(Head(requests[p]).arg)
        /\ selection' = {}
        /\ astray' = FALSE
     \/ /\ SwitchRefused
        /\ UNCHANGED <<selection, astray>>
  /\ Handled(p, told')

(* /config: read_config, which may not come back. *)
ServeConfig(p) ==
  /\ Asked(p, "config")
  /\ \/ UNCHANGED <<session, astray>>
     \/ ConfigRefused /\ UNCHANGED astray
     \/ ConfigStranded /\ astray' = TRUE
  /\ Handled(p, None)
  /\ UNCHANGED selection

(* /dtc: codes of modules on the current bus, or none, or an error. *)
ServeDtc(p) ==
  /\ Asked(p, "dtc")
  /\ Handled(p, None) \/ (up /\ Handled(p, bus))
  /\ UNCHANGED server

(* /dtc/clear: the modules of the current bus (module Backend). *)
ServeClear(p) ==
  /\ Asked(p, "clear")
  /\ Handled(p, None)
  /\ UNCHANGED server

Serve(p) ==
  \/ ServeState(p) \/ ServeData(p) \/ ServeSelect(p) \/ ServeBus(p)
  \/ ServeConfig(p) \/ ServeDtc(p) \/ ServeClear(p)

(* The request does not reach the server. *)
LoseRequest(p) ==
  /\ lost < MaxLost
  /\ requests[p] # <<>>
  /\ Reply(p, FALSE, None)
  /\ lost' = lost + 1
  /\ UNCHANGED server

(* The request was handled, but the answer does not reach the page. *)
LoseAnswer(p) ==
  /\ lost < MaxLost
  /\ answers[p] # <<>>
  /\ Head(answers[p]).ok
  /\ answers' = [answers EXCEPT ![p][1].ok = FALSE]
  /\ lost' = lost + 1
  /\ UNCHANGED <<server, saved, page, requests, timer, applied, clicks>>

-----------------------------------------------------------------------------
(* The page: callbacks *)

KeysOf(b) == IF b = None THEN {} ELSE KeysOn(b)

(* renderCards: a blank card for every ticked parameter. *)
Rendered(s) ==
  [k \in Keys |-> IF k \in s.sel \cap KeysOf(s.params) THEN "dash" ELSE "none"]

(* renderCards does nothing in another view; and when a late answer has        *)
(* overwritten the live view it throws.                                      *)
RenderCards(s) ==
  IF s.view = "live" /\ s.main = "live" THEN [s EXCEPT !.cards = Rendered(s)] ELSE s

(* $('main').innerHTML = ... *)
ShowMain(s, main) == [s EXCEPT !.main = main, !.cards = NoCards, !.listed = None]

ShowLive(s) == RenderCards([ShowMain(s, "live") EXCEPT !.view = "live"])

Answered(p, kind) == answers[p] # <<>> /\ Head(answers[p]).kind = kind

Answer1(p) == Head(answers[p])

(* The callback of the first answer: the page becomes s and sends more. *)
CallBack(p, s, more) ==
  /\ answers' = [answers EXCEPT ![p] = Tail(@)]
  /\ page' = [page EXCEPT ![p] = s]
  /\ requests' = [requests EXCEPT ![p] = @ \o more]
  /\ UNCHANGED <<server, saved, clicks, lost>>

(* mutant: loading the parameters starts a poll of its own *)
LoadParamsAndPoll(then) == <<Request("params", then), Request("data", None)>>

LoadParams(then) == <<Request("params", then)>>

OnMeta(p) ==
  /\ Answered(p, "meta")
  /\ IF Answer1(p).ok
       THEN CallBack(p, [page[p] EXCEPT !.bus = Answer1(p).body], LoadParams("show live"))
       ELSE CallBack(p, page[p], <<>>)
  /\ UNCHANGED <<timer, applied>>

(* mutant: the restored selection is not pushed to the server *)
PushSelNever(keys) == <<>>

PushSel(keys) == <<Request("select", keys)>>

(* loadParams: restore the ticks saved for this bus that are still listed, tell *)
(* the server, and render.                                                   *)
OnParams(p) ==
  LET listed == IF Answer1(p).ok THEN Answer1(p).body ELSE None
      ticked == saved[page[p].bus] \cap KeysOf(listed)
      s      == [page[p] EXCEPT !.params = listed, !.sel = ticked]
  IN  /\ Answered(p, "params")
      /\ CallBack(p, IF Answer1(p).arg = "show live" THEN ShowLive(s) ELSE RenderCards(s),
                  PushSel(ticked))
      /\ UNCHANGED <<timer, applied>>

(* mutant: the card takes the row's state for its class *)
LookRaw(row, had) == row

(* mutant: a miss after a value leaves the card as bright as the value was *)
LookMissed(row, had) ==
  IF row = "new" \/ (row = "miss" /\ had) THEN "bright"
  ELSE IF row = "old" THEN "dim" ELSE "dash"

(* A recent value is bright, an old one dim; a miss shows the last value dimly. *)
Look(row, had) ==
  IF row = "new" THEN "bright" ELSE IF row = "old" \/ had THEN "dim" ELSE "dash"

(* applyData: only cards with a row in the answer are touched. *)
ApplyData(s, rows) ==
  LET touched == {k \in s.sel \cap DOMAIN rows : s.cards[k] # "none"}
  IN  [s EXCEPT !.cards = [k \in Keys |-> IF k \in touched
                                          THEN Look(rows[k], k \in s.last)
                                          ELSE s.cards[k]],
                !.last = @ \cup {k \in touched : rows[k] # "miss"}]

(* mutant: the next poll is scheduled only after an answer that arrived *)
RescheduleIfOk(p) == timer' = [timer EXCEPT ![p] = Answer1(p).ok]

Reschedule(p) == timer' = [timer EXCEPT ![p] = TRUE]

OnData(p) ==
  /\ Answered(p, "data")
  /\ IF Answer1(p).ok
       THEN /\ CallBack(p, ApplyData(page[p], Answer1(p).body), <<>>)
            /\ applied' = [applied EXCEPT ![p] =
                  {k \in DOMAIN Answer1(p).body : Answer1(p).body[k] = "new"}]
       ELSE /\ CallBack(p, page[p], <<>>)
            /\ UNCHANGED applied
  /\ Reschedule(p)

(* pushSel's callback is empty. *)
OnSelect(p) ==
  /\ Answered(p, "select")
  /\ CallBack(p, page[p], <<>>)
  /\ UNCHANGED <<timer, applied>>

(* switchBus: the page follows to the new bus, or resyncs its selector. *)
OnBus(p) ==
  /\ Answered(p, "bus")
  /\ LET heard == Answer1(p).ok
         told1 == Answer1(p).body
     IN  IF heard
           THEN CallBack(p, [page[p] EXCEPT !.bus = told1.bus],
                         IF told1.ok THEN LoadParams("render cards") ELSE <<>>)
           ELSE CallBack(p, page[p], <<>>)
  /\ UNCHANGED <<timer, applied>>

(* renderConfig, renderDtc and clearDtc's loadDtc write #main whatever view the *)
(* user has moved on to.                                                     *)
OnConfig(p) ==
  /\ Answered(p, "config")
  /\ CallBack(p, ShowMain(page[p], "config"), <<>>)
  /\ UNCHANGED <<timer, applied>>

OnDtc(p) ==
  /\ Answered(p, "dtc")
  /\ CallBack(p, [ShowMain(page[p], "dtc") EXCEPT
                    !.listed = IF Answer1(p).ok THEN Answer1(p).body ELSE None], <<>>)
  /\ UNCHANGED <<timer, applied>>

OnClear(p) ==
  /\ Answered(p, "clear")
  /\ CallBack(p, ShowMain(page[p], "dtc"), <<Request("dtc", None)>>)
  /\ UNCHANGED <<timer, applied>>

Listen(p) ==
  \/ OnMeta(p) \/ OnParams(p) \/ OnData(p) \/ OnSelect(p) \/ OnBus(p)
  \/ OnConfig(p) \/ OnDtc(p) \/ OnClear(p)

(* pollLoop: outside the live view, or with nothing ticked, the tick only      *)
(* schedules the next one.                                                   *)
PollTick(p) ==
  /\ timer[p]
  /\ page[p].view = "live" /\ page[p].sel # {}
  /\ timer' = [timer EXCEPT ![p] = FALSE]
  /\ requests' = [requests EXCEPT ![p] = Append(@, Request("data", None))]
  /\ UNCHANGED <<server, saved, page, answers, applied, clicks, lost>>

-----------------------------------------------------------------------------
(* The page: clicks.  The handlers are bound when /meta was answered. *)

Click(p, s, more) ==
  /\ page[p].bus # None
  /\ clicks < MaxClicks
  /\ clicks' = clicks + 1
  /\ page' = [page EXCEPT ![p] = s]
  /\ requests' = [requests EXCEPT ![p] = @ \o more]
  /\ UNCHANGED <<server, answers, timer, applied, lost>>

(* toggle: tick or untick a listed parameter (the list is on the live tab). *)
Toggle(p, k) ==
  LET on == IF k \in page[p].sel THEN page[p].sel \ {k} ELSE page[p].sel \cup {k}
  IN  /\ page[p].view = "live" /\ k \in KeysOf(page[p].params)
      /\ Click(p, RenderCards([page[p] EXCEPT !.sel = on]), PushSel(on))
      /\ saved' = [saved EXCEPT ![page[p].bus] = on]

(* The bus selector; it fires when its value changes. *)
PickBus(p, b) ==
  /\ \/ b # page[p].bus
     \/ \E i \in DOMAIN requests[p] : requests[p][i].kind = "bus"
     \/ \E i \in DOMAIN answers[p] : answers[p][i].kind = "bus"
  /\ Click(p, page[p], <<Request("bus", b)>>)
  /\ UNCHANGED saved

ClickLive(p) ==
  /\ Click(p, ShowLive(page[p]), <<>>)
  /\ UNCHANGED saved

(* The configuration and codes tabs; reading again is the same click. *)
ClickTab(p, v) ==
  /\ v \in {"config", "dtc"}
  /\ Click(p, [ShowMain(page[p], v) EXCEPT !.view = v], <<Request(v, None)>>)
  /\ UNCHANGED saved

(* Clear codes: offered with a list of codes, behind a confirmation. *)
ClickClear(p) ==
  /\ page[p].main = "dtc" /\ page[p].listed # None
  /\ Click(p, ShowMain(page[p], "dtc"), <<Request("clear", None)>>)
  /\ UNCHANGED saved

Next ==
  \E p \in Pages :
    \/ Serve(p) \/ LoseRequest(p) \/ LoseAnswer(p)
    \/ Listen(p) \/ PollTick(p)
    \/ \E k \in Keys : Toggle(p, k)
    \/ \E b \in Buses : PickBus(p, b)
    \/ ClickLive(p) \/ ClickClear(p)
    \/ \E v \in {"config", "dtc"} : ClickTab(p, v)

Spec == Init /\ [][Next]_vars

(* Connections are accepted in the order they come, so every page is served;   *)
(* browsers run callbacks and timers.  Users need not click.                 *)
FairSpec ==
  Spec /\ \A p \in Pages : /\ WF_vars(Serve(p))
                           /\ WF_vars(Listen(p))
                           /\ WF_vars(PollTick(p))
-----------------------------------------------------------------------------
(* Properties *)

(* The page is loaded and nothing but polls is on its way. *)
Quiet(p) ==
  /\ page[p].main # None
  /\ \A i \in DOMAIN requests[p] : requests[p][i].kind = "data"
  /\ \A i \in DOMAIN answers[p] : answers[p][i].kind = "data"

InSync(p) ==
  /\ page[p].bus = bus /\ page[p].params = bus
  /\ page[p].sel = selection
  /\ selection \subseteq KeysOn(bus)

(* However ticks, bus switches, refusals and reads were interleaved, a page     *)
(* that is alone ends up showing the server's bus and that bus's parameters, *)
(* and the server reads exactly what the page has ticked, all of it on the   *)
(* bus it is connected to.                                                   *)
Agreement ==
  lost = 0 /\ ~astray => \A p \in Pages : Quiet(p) => InSync(p)

(* "stale values dim until they refresh": a bright value was a recent one in   *)
(* the last answer the page applied.                                         *)
StaleDims ==
  lost = 0 => \A p \in Pages : Quiet(p) =>
    \A k \in Keys : page[p].cards[k] = "bright" => k \in applied[p]

(* "requests can never queue up": a page has one poll scheduled, sent or        *)
(* answered, never two, whatever else it sends and whatever fails.           *)
OnePoll ==
  \A p \in Pages :
    LET sent == {i \in DOMAIN requests[p] : requests[p][i].kind = "data"}
        back == {i \in DOMAIN answers[p] : answers[p][i].kind = "data"}
    IN  Cardinality(sent) + Cardinality(back) = IF timer[p] THEN 0 ELSE 1

(* The poll loop never dies, whatever answers fail. *)
LoopSurvives == \A p \in Pages : []<>timer[p]

(* "a Codes tab that sweeps every module on the current bus ... switch the bus  *)
(* to scan the other half": the codes a page lists, and offers to clear, are *)
(* those of the bus it shows.                                                *)
CodesOfCurrentBus ==
  lost = 0 /\ ~astray => \A p \in Pages : Quiet(p) =>
    page[p].listed \in {None, page[p].bus}
=============================================================================
