--------------------------- MODULE DashboardProofs ---------------------------
(***************************************************************************)
(* The dashboard for any profile, any number of pages and any bounds: one  *)
(* poll per page, and a page that is alone agrees with the server whenever *)
(* nothing but polls is on its way.                                        *)
(*                                                                         *)
(* Agreement says nothing while other requests are under way, so it is not *)
(* inductive.  SoloInv says what each request and answer on its way will   *)
(* do: the last tick of the page is the last selection sent, a switch that *)
(* worked has its reload before or behind it, and so on.                   *)
(***************************************************************************)
EXTENDS Dashboard, FiniteSetTheorems, SequenceTheorems, TLAPS

(* What is sent and what comes back. *)
Asks ==
  {r \in [kind : Kind, arg : {None, "show live", "render cards"} \cup Buses \cup SUBSET Keys] :
     /\ r.kind = "bus" => r.arg \in Buses
     /\ r.kind = "select" => r.arg \in SUBSET Keys}

Rows == UNION {[S -> {"new", "old", "miss"}] : S \in SUBSET Keys}

Body(kind) ==
  CASE kind \in {"meta", "params"} -> Buses
    [] kind = "data" -> Rows
    [] kind = "bus" -> Answer
    [] kind = "dtc" -> Buses \cup {None}
    [] OTHER -> {None}

Returned ==
  {a \in [kind : Kind, arg : {None, "show live", "render cards"} \cup Buses \cup SUBSET Keys,
          ok : BOOLEAN, body : {None} \cup Buses \cup Answer \cup Rows] :
     a.ok => a.body \in Body(a.kind)}

(* A message of this kind is in the queue; the last one of its kind carries v. *)
Has(q, kind) == \E i \in DOMAIN q : q[i].kind = kind

LastArg(q, kind, v) ==
  \E i \in DOMAIN q : /\ q[i].kind = kind /\ q[i].arg = v
                      /\ \A j \in DOMAIN q : j > i => q[j].kind # kind

LastBody(q, kind, v) ==
  \E i \in DOMAIN q : /\ q[i].kind = kind /\ q[i].body = v
                      /\ \A j \in DOMAIN q : j > i => q[j].kind # kind

One(q, kind) ==
  \E i \in DOMAIN q : /\ q[i].kind = kind
                      /\ \A j \in DOMAIN q : q[j].kind = kind => j = i

-----------------------------------------------------------------------------
LEMMA AppendFacts ==
  ASSUME NEW S, NEW q \in Seq(S), NEW r \in S
  PROVE  /\ Append(q, r) \in Seq(S) /\ q \o <<r>> = Append(q, r) /\ q \o <<>> = q
         /\ DOMAIN Append(q, r) = DOMAIN q \cup {Len(q) + 1}
         /\ \A i \in DOMAIN q : i \in Nat /\ i <= Len(q) /\ Append(q, r)[i] = q[i]
         /\ Append(q, r)[Len(q) + 1] = r /\ Len(q) \in Nat
<1>1. /\ Append(q, r) \in Seq(S) /\ Len(q) \in Nat /\ DOMAIN q = 1 .. Len(q)
      /\ Len(Append(q, r)) = Len(q) + 1
  OBVIOUS
<1>2. DOMAIN Append(q, r) = 1 .. Len(q) + 1
  BY <1>1
<1>3. q \o <<r>> = Append(q, r) /\ q \o <<>> = q
  OBVIOUS
<1>4. \A i \in DOMAIN q : i \in Nat /\ i <= Len(q) /\ Append(q, r)[i] = q[i]
  BY <1>1
<1>. QED
  BY <1>1, <1>2, <1>3, <1>4

LEMMA AppendCases ==
  ASSUME NEW S, NEW q \in Seq(S), NEW r \in S
  PROVE  \A i \in DOMAIN Append(q, r) :
           \/ i \in DOMAIN q /\ Append(q, r)[i] = q[i]
           \/ Append(q, r)[i] = r
BY AppendFacts

LEMMA TailFacts ==
  ASSUME NEW S, NEW q \in Seq(S), q # <<>>
  PROVE  /\ Tail(q) \in Seq(S) /\ Head(q) = q[1] /\ Head(q) \in S /\ 1 \in DOMAIN q
         /\ \A i \in DOMAIN Tail(q) : i \in Nat /\ i + 1 \in DOMAIN q /\ Tail(q)[i] = q[i + 1]
         /\ \A i \in DOMAIN q : /\ i \in Nat /\ i >= 1
                                /\ i # 1 => i - 1 \in DOMAIN Tail(q) /\ Tail(q)[i - 1] = q[i]
<1>1. Len(q) \in Nat /\ Len(q) >= 1 /\ DOMAIN q = 1 .. Len(q) /\ Tail(q) \in Seq(S)
      /\ Len(Tail(q)) = Len(q) - 1
  OBVIOUS
<1>2. DOMAIN Tail(q) = 1 .. Len(q) - 1
  BY <1>1
<1>3. \A i \in 1 .. Len(q) - 1 : Tail(q)[i] = q[i + 1]
  BY <1>1
<1>4. ASSUME NEW i \in DOMAIN q, i # 1
      PROVE  i - 1 \in DOMAIN Tail(q) /\ Tail(q)[i - 1] = q[i]
  <2>1. i - 1 \in 1 .. Len(q) - 1 /\ (i - 1) + 1 = i
    BY <1>1, <1>4
  <2>. QED
    BY <1>2, <1>3, <2>1
<1>. QED
  BY <1>1, <1>2, <1>3, <1>4

LEMMA HasAppend ==
  ASSUME NEW S, NEW q \in Seq(S), NEW r \in S, NEW kind
  PROVE  Has(Append(q, r), kind) <=> Has(q, kind) \/ r.kind = kind
BY AppendFacts DEF Has

LEMMA HasTail ==
  ASSUME NEW S, NEW q \in Seq(S), q # <<>>, NEW kind
  PROVE  Has(q, kind) <=> Has(Tail(q), kind) \/ Head(q).kind = kind
<1>. DEFINE w == Tail(q)
<1>1. /\ Head(q) = q[1] /\ 1 \in DOMAIN q
      /\ \A i \in DOMAIN w : i + 1 \in DOMAIN q /\ w[i] = q[i + 1]
      /\ \A i \in DOMAIN q : i # 1 => i - 1 \in DOMAIN w /\ w[i - 1] = q[i]
  BY TailFacts
<1>. HIDE DEF w
<1>2. Has(q, kind) <=> Has(w, kind) \/ Head(q).kind = kind
  <2>1. ASSUME Has(q, kind) PROVE Has(w, kind) \/ Head(q).kind = kind
    <3>1. PICK i \in DOMAIN q : q[i].kind = kind
      BY <2>1 DEF Has
    <3>2. i = 1 \/ (i - 1 \in DOMAIN w /\ w[i - 1] = q[i])
      BY <1>1
    <3>. QED
      BY <1>1, <3>1, <3>2 DEF Has
  <2>2. ASSUME Has(w, kind) \/ Head(q).kind = kind PROVE Has(q, kind)
    BY <1>1, <2>2 DEF Has
  <2>. QED
    BY <2>1, <2>2
<1>. QED
  BY <1>2 DEF w

LEMMA LastAppend ==
  ASSUME NEW S, NEW q \in Seq(S), NEW r \in S, NEW kind, NEW v
  PROVE  /\ r.kind = kind /\ r.arg = v => LastArg(Append(q, r), kind, v)
         /\ r.kind = kind /\ r.body = v => LastBody(Append(q, r), kind, v)
         /\ r.kind # kind /\ LastArg(q, kind, v) => LastArg(Append(q, r), kind, v)
         /\ r.kind # kind /\ LastBody(q, kind, v) => LastBody(Append(q, r), kind, v)
<1>. DEFINE w == Append(q, r)
            n == Len(q) + 1
<1>1. /\ n \in DOMAIN w /\ w[n] = r
      /\ \A j \in DOMAIN w : ~(j > n)
      /\ \A i \in DOMAIN q : i \in DOMAIN w /\ w[i] = q[i] /\ i \in Nat
      /\ \A j \in DOMAIN w : j \in DOMAIN q \/ j = n
  BY AppendFacts
<1>. HIDE DEF w, n
<1>2. ASSUME r.kind = kind, r.arg = v PROVE LastArg(w, kind, v)
  BY <1>1, <1>2 DEF LastArg
<1>3. ASSUME r.kind = kind, r.body = v PROVE LastBody(w, kind, v)
  BY <1>1, <1>3 DEF LastBody
<1>4. ASSUME r.kind # kind, LastArg(q, kind, v) PROVE LastArg(w, kind, v)
  BY <1>1, <1>4 DEF LastArg
<1>5. ASSUME r.kind # kind, LastBody(q, kind, v) PROVE LastBody(w, kind, v)
  BY <1>1, <1>5 DEF LastBody
<1>. QED
  BY <1>2, <1>3, <1>4, <1>5 DEF w

(* Without its head a queue has the same last message of a kind, or none. *)
LEMMA LastTail ==
  ASSUME NEW S, NEW q \in Seq(S), q # <<>>, NEW kind, NEW v
  PROVE  /\ LastArg(q, kind, v) =>
              \/ LastArg(Tail(q), kind, v)
              \/ ~Has(Tail(q), kind) /\ Head(q).kind = kind /\ Head(q).arg = v
         /\ LastBody(q, kind, v) =>
              \/ LastBody(Tail(q), kind, v)
              \/ ~Has(Tail(q), kind) /\ Head(q).kind = kind /\ Head(q).body = v
<1>. DEFINE w == Tail(q)
<1>1. /\ Head(q) = q[1]
      /\ \A i \in DOMAIN w : i \in Nat /\ i + 1 \in DOMAIN q /\ w[i] = q[i + 1]
      /\ \A i \in DOMAIN q : /\ i \in Nat /\ i >= 1
                             /\ i # 1 => i - 1 \in DOMAIN w /\ w[i - 1] = q[i]
  BY TailFacts
<1>. HIDE DEF w
<1>2. ASSUME NEW i \in DOMAIN q, \A j \in DOMAIN q : j > i => q[j].kind # kind
      PROVE  /\ i # 1 => i - 1 \in DOMAIN w /\ w[i - 1] = q[i]
                         /\ \A j \in DOMAIN w : j > i - 1 => w[j].kind # kind
             /\ i = 1 => \A j \in DOMAIN w : w[j].kind # kind
  <2>1. ASSUME NEW j \in DOMAIN w, j > i - 1 \/ i = 1 PROVE w[j].kind # kind
    <3>1. j + 1 > i /\ j + 1 \in DOMAIN q /\ w[j] = q[j + 1]
      <4>1. i \in Nat /\ j \in Nat /\ i >= 1
        BY <1>1
      <4>2. j \in DOMAIN w /\ (i = 1 => j + 1 > 1)
        <5>1. j # 0
          <6>1. j + 1 \in DOMAIN q /\ DOMAIN w = 1 .. Len(w)
            BY <1>1, TailFacts DEF w
          <6>. QED
            BY <6>1
        <5>. QED
          BY <4>1, <5>1
      <4>. QED
        BY <1>1, <2>1, <4>1, <4>2
    <3>. QED
      BY <1>2, <3>1
  <2>. QED
    BY <1>1, <2>1
<1>3. ASSUME LastArg(q, kind, v)
      PROVE  LastArg(w, kind, v) \/ (~Has(w, kind) /\ Head(q).kind = kind /\ Head(q).arg = v)
  <2>1. PICK i \in DOMAIN q : /\ q[i].kind = kind /\ q[i].arg = v
                              /\ \A j \in DOMAIN q : j > i => q[j].kind # kind
    BY <1>3 DEF LastArg
  <2>2. CASE i # 1
    <3>1. /\ i - 1 \in DOMAIN w /\ w[i - 1] = q[i]
          /\ \A j \in DOMAIN w : j > i - 1 => w[j].kind # kind
      BY <1>2, <2>1, <2>2
    <3>. QED
      BY <2>1, <3>1 DEF LastArg
  <2>3. CASE i = 1
    <3>1. \A j \in DOMAIN w : w[j].kind # kind
      BY <1>2, <2>1, <2>3
    <3>. QED
      BY <1>1, <2>1, <2>3, <3>1 DEF Has
  <2>. QED
    BY <2>2, <2>3
<1>4. ASSUME LastBody(q, kind, v)
      PROVE  LastBody(w, kind, v) \/ (~Has(w, kind) /\ Head(q).kind = kind /\ Head(q).body = v)
  <2>1. PICK i \in DOMAIN q : /\ q[i].kind = kind /\ q[i].body = v
                              /\ \A j \in DOMAIN q : j > i => q[j].kind # kind
    BY <1>4 DEF LastBody
  <2>2. CASE i # 1
    <3>1. /\ i - 1 \in DOMAIN w /\ w[i - 1] = q[i]
          /\ \A j \in DOMAIN w : j > i - 1 => w[j].kind # kind
      BY <1>2, <2>1, <2>2
    <3>. QED
      BY <2>1, <3>1 DEF LastBody
  <2>3. CASE i = 1
    <3>1. \A j \in DOMAIN w : w[j].kind # kind
      BY <1>2, <2>1, <2>3
    <3>. QED
      BY <1>1, <2>1, <2>3, <3>1 DEF Has
  <2>. QED
    BY <2>2, <2>3
<1>. QED
  BY <1>3, <1>4 DEF w

LEMMA OneAppend ==
  ASSUME NEW S, NEW q \in Seq(S), NEW r \in S, NEW kind
  PROVE  /\ r.kind # kind => (One(Append(q, r), kind) <=> One(q, kind))
         /\ r.kind = kind /\ ~Has(q, kind) => One(Append(q, r), kind)
<1>. DEFINE w == Append(q, r)
            n == Len(q) + 1
<1>1. /\ n \in DOMAIN w /\ w[n] = r
      /\ \A i \in DOMAIN q : i \in DOMAIN w /\ w[i] = q[i]
      /\ \A j \in DOMAIN w : j \in DOMAIN q \/ j = n
  BY AppendFacts
<1>. HIDE DEF w, n
<1>2. ASSUME r.kind # kind PROVE One(w, kind) <=> One(q, kind)
  BY <1>1, <1>2 DEF One
<1>3. ASSUME r.kind = kind, ~Has(q, kind) PROVE One(w, kind)
  BY <1>1, <1>3 DEF One, Has
<1>. QED
  BY <1>2, <1>3 DEF w

LEMMA OneTail ==
  ASSUME NEW S, NEW q \in Seq(S), q # <<>>, NEW kind, One(q, kind)
  PROVE  IF Head(q).kind = kind THEN ~Has(Tail(q), kind) ELSE One(Tail(q), kind)
<1>. DEFINE w == Tail(q)
<1>1. /\ Head(q) = q[1] /\ 1 \in DOMAIN q
      /\ \A i \in DOMAIN w : i \in Nat \ {0} /\ i + 1 \in DOMAIN q /\ w[i] = q[i + 1]
      /\ \A i \in DOMAIN q : /\ i \in Nat /\ i >= 1
                             /\ i # 1 => i - 1 \in DOMAIN w /\ w[i - 1] = q[i]
  <2>1. \A i \in DOMAIN w : i # 0
    <3>1. w \in Seq(S)
      BY TailFacts
    <3>. HIDE DEF w
    <3>. QED
      BY <3>1
  <2>. QED
    BY <2>1, TailFacts
<1>. HIDE DEF w
<1>2. PICK i \in DOMAIN q : q[i].kind = kind /\ \A j \in DOMAIN q : q[j].kind = kind => j = i
  BY DEF One
<1>3. CASE Head(q).kind = kind
  <2>1. i = 1
    BY <1>1, <1>2, <1>3
  <2>2. ASSUME NEW j \in DOMAIN w PROVE w[j].kind # kind
    BY <1>1, <1>2, <2>1
  <2>. QED
    BY <1>3, <2>2 DEF Has, w
<1>4. CASE Head(q).kind # kind
  <2>1. i # 1
    BY <1>1, <1>2, <1>4
  <2>2. i - 1 \in DOMAIN w /\ w[i - 1].kind = kind
    BY <1>1, <1>2, <2>1
  <2>3. ASSUME NEW j \in DOMAIN w, w[j].kind = kind PROVE j = i - 1
    <3>1. j + 1 = i /\ j \in Nat /\ i \in Nat
      BY <1>1, <1>2, <2>3
    <3>. QED
      BY <3>1
  <2>4. One(w, kind)
    BY <2>2, <2>3 DEF One
  <2>. QED
    BY <1>4, <2>4 DEF w
<1>. QED
  BY <1>3, <1>4

-----------------------------------------------------------------------------
(* The invariants *)

DashType ==
  /\ SessionTypeOK
  /\ selection \in SUBSET Keys /\ saved \in [Buses -> SUBSET Keys]
  /\ page \in [Pages -> Page]
  /\ requests \in [Pages -> Seq(Asks)] /\ answers \in [Pages -> Seq(Returned)]
  /\ timer \in [Pages -> BOOLEAN] /\ applied \in [Pages -> SUBSET Keys]
  /\ astray \in BOOLEAN
  /\ clicks \in 0 .. MaxClicks /\ lost \in 0 .. MaxLost

(* Parameters are asked for only when the bus is known. *)
LoadInv(p) ==
  Has(requests[p], "params") \/ Has(answers[p], "params") => page[p].bus # None

(* A poll is scheduled, or sent, or answered. *)
PollInv(p) ==
  IF timer[p] THEN ~Has(requests[p], "data") /\ ~Has(answers[p], "data")
  ELSE \/ One(requests[p], "data") /\ ~Has(answers[p], "data")
       \/ ~Has(requests[p], "data") /\ One(answers[p], "data")

(* Only listed parameters are ticked, and only ticked ones have a card, in the   *)
(* live view.                                                                *)
Fits(s) ==
  /\ s.sel \subseteq KeysOf(s.params)
  /\ \A k \in Keys : s.cards[k] # "none" => k \in s.sel /\ s.main = "live"
  /\ s.main = "live" => s.view = "live"

PageInv(p) == LoadInv(p) /\ PollInv(p) /\ Fits(page[p])

IInv == DashType /\ \A p \in Pages : PageInv(p)

(* A switch that worked is on its way to the page, or the parameters of the      *)
(* bus: the page will tick them anew and tell the server.                    *)
OkBus(q) == \E i \in DOMAIN q : q[i].kind = "bus" /\ q[i].body.ok

Reloading(p) == OkBus(answers[p]) \/ Has(requests[p], "params") \/ Has(answers[p], "params")

(* Before the answer to /meta nothing happens. *)
StartInv(p) ==
  IF page[p].bus = None
    THEN /\ page[p].sel = {} /\ selection = {} /\ page[p].main = None
         /\ told.bus = bus /\ ~astray
         /\ \/ requests[p] = <<Request("meta", None)>> /\ answers[p] = <<>>
            \/ /\ requests[p] = <<>>
               /\ Len(answers[p]) = 1
               /\ answers[p][1].kind = "meta" /\ answers[p][1].body = bus
    ELSE ~Has(requests[p], "meta") /\ ~Has(answers[p], "meta")

(* The last bus the page was told, or will be, is the one the session is on. *)
BusInv(p) ==
  /\ ~astray => told.bus = bus
  /\ page[p].bus # None =>
       IF Has(answers[p], "bus") THEN LastBody(answers[p], "bus", told)
       ELSE page[p].bus = told.bus

(* So are the parameters it lists, or they will be. *)
ParamsInv(p) ==
  ~astray /\ page[p].bus # None =>
    \/ OkBus(answers[p]) \/ Has(requests[p], "params")
    \/ LastBody(answers[p], "params", bus)
    \/ ~Has(answers[p], "params") /\ page[p].params = bus

(* The last selection sent is what is ticked, and what the server reads when     *)
(* none is under way.                                                        *)
SelInv(p) ==
  IF Has(requests[p], "select") THEN LastArg(requests[p], "select", page[p].sel)
  ELSE Reloading(p) \/ selection = page[p].sel

NoSelectBehindPoll(q) ==
  \A i, j \in DOMAIN q : i < j => ~(q[i].kind = "data" /\ q[j].kind = "select")

(* A bright card is of the last answer; the answer to come has a row for it. *)
BrightInv(p) ==
  \A k \in Keys : page[p].cards[k] = "bright" =>
    /\ NoSelectBehindPoll(requests[p])
    /\ k \in applied[p] \/ Reloading(p)
    /\ \A i \in DOMAIN answers[p] :
         answers[p][i].kind = "data" => k \in DOMAIN answers[p][i].body \/ Reloading(p)

SoloCore(p) ==
  /\ \A i \in DOMAIN answers[p] : answers[p][i].ok
  /\ StartInv(p) /\ BusInv(p) /\ ParamsInv(p) /\ SelInv(p) /\ BrightInv(p)

SoloInv(p) == lost = 0 => SoloCore(p)

-----------------------------------------------------------------------------
(* What the callbacks make of a page *)

NoBright(s) == \A k \in Keys : s.cards[k] # "bright"

LEMMA ListedKeys == ASSUME NEW b \in Buses \cup {None} PROVE KeysOf(b) \subseteq Keys
BY DashboardAssumption DEF KeysOf

LEMMA FreshCards == NoCards \in [Keys -> Card] /\ \A k \in Keys : NoCards[k] = "none"
BY DEF NoCards, Card

(* renderCards: the page fits again, and no card is bright. *)
LEMMA RenderFits ==
  ASSUME NEW s \in Page, s.sel \subseteq KeysOf(s.params),
         s.main = "live" => s.view = "live",
         s.main # "live" => \A k \in Keys : s.cards[k] = "none"
  PROVE  /\ RenderCards(s) \in Page /\ Fits(RenderCards(s)) /\ NoBright(RenderCards(s))
         /\ RenderCards(s).bus = s.bus /\ RenderCards(s).params = s.params
         /\ RenderCards(s).sel = s.sel /\ RenderCards(s).main = s.main
<1>. DEFINE cards == Rendered(s)
<1>1. /\ cards \in [Keys -> Card]
      /\ \A k \in Keys : cards[k] # "bright" /\ (cards[k] # "none" => k \in s.sel)
  BY DEF Rendered, Card
<1>. HIDE DEF cards
<1>2. CASE s.view = "live" /\ s.main = "live"
  <2>1. RenderCards(s) = [s EXCEPT !.cards = cards]
    BY <1>2 DEF RenderCards, cards
  <2>2. [s EXCEPT !.cards = cards] \in Page
    BY <1>1 DEF Page
  <2>3. /\ [s EXCEPT !.cards = cards].cards = cards
        /\ [s EXCEPT !.cards = cards].bus = s.bus /\ [s EXCEPT !.cards = cards].params = s.params
        /\ [s EXCEPT !.cards = cards].sel = s.sel /\ [s EXCEPT !.cards = cards].main = s.main
        /\ [s EXCEPT !.cards = cards].view = s.view
    BY DEF Page
  <2>4. Fits([s EXCEPT !.cards = cards]) /\ NoBright([s EXCEPT !.cards = cards])
    BY <1>1, <1>2, <2>3 DEF Fits, NoBright
  <2>. QED
    BY <2>1, <2>2, <2>3, <2>4
<1>3. CASE ~(s.view = "live" /\ s.main = "live")
  <2>1. RenderCards(s) = s /\ s.main # "live"
    BY <1>3 DEF RenderCards
  <2>. QED
    BY <2>1 DEF Fits, NoBright
<1>. QED
  BY <1>2, <1>3

(* Another content of #main has no cards. *)
LEMMA ShowFits ==
  ASSUME NEW s \in Page, Fits(s), NEW main \in View, main # "live"
  PROVE  /\ ShowMain(s, main) \in Page /\ Fits(ShowMain(s, main)) /\ NoBright(ShowMain(s, main))
         /\ ShowMain(s, main).bus = s.bus /\ ShowMain(s, main).params = s.params
         /\ ShowMain(s, main).sel = s.sel /\ ShowMain(s, main).main = main
         /\ \A k \in Keys : ShowMain(s, main).cards[k] = "none"
<1>1. /\ ShowMain(s, main) = [s EXCEPT !.main = main, !.cards = NoCards, !.listed = None]
  BY DEF ShowMain
<1>2. [s EXCEPT !.main = main, !.cards = NoCards, !.listed = None] \in Page
  BY FreshCards DEF Page
<1>3. /\ ShowMain(s, main).cards = NoCards /\ ShowMain(s, main).main = main
      /\ ShowMain(s, main).bus = s.bus /\ ShowMain(s, main).params = s.params
      /\ ShowMain(s, main).sel = s.sel
  BY <1>1 DEF Page
<1>. QED
  BY <1>1, <1>2, <1>3, FreshCards DEF Fits, NoBright

LEMMA LiveFits ==
  ASSUME NEW s \in Page, s.sel \subseteq KeysOf(s.params)
  PROVE  /\ ShowLive(s) \in Page /\ Fits(ShowLive(s)) /\ NoBright(ShowLive(s))
         /\ ShowLive(s).bus = s.bus /\ ShowLive(s).params = s.params
         /\ ShowLive(s).sel = s.sel /\ ShowLive(s).main = "live"
<1>. DEFINE w == [ShowMain(s, "live") EXCEPT !.view = "live"]
<1>1. ShowMain(s, "live") = [s EXCEPT !.main = "live", !.cards = NoCards, !.listed = None]
  BY DEF ShowMain
<1>2. /\ ShowMain(s, "live") \in Page /\ ShowMain(s, "live").main = "live"
      /\ ShowMain(s, "live").bus = s.bus /\ ShowMain(s, "live").params = s.params
      /\ ShowMain(s, "live").sel = s.sel
  BY <1>1, FreshCards DEF Page, View
<1>3. /\ w \in Page /\ w.view = "live" /\ w.main = "live" /\ w.bus = s.bus
      /\ w.params = s.params /\ w.sel = s.sel
  BY <1>2 DEF Page, View
<1>4. ShowLive(s) = RenderCards(w)
  BY DEF ShowLive
<1>. HIDE DEF w
<1>. QED
  BY <1>3, <1>4, RenderFits

(* applyData: what is bright now was new in the answer, or bright and without a  *)
(* row.                                                                      *)
LEMMA ApplyFits ==
  ASSUME NEW s \in Page, Fits(s), NEW rows \in Rows
  PROVE  LET t == ApplyData(s, rows)
         IN  /\ t \in Page /\ Fits(t)
             /\ t.bus = s.bus /\ t.params = s.params /\ t.sel = s.sel /\ t.main = s.main
             /\ \A k \in Keys : t.cards[k] = "bright" =>
                  \/ k \in DOMAIN rows /\ rows[k] = "new"
                  \/ k \notin DOMAIN rows /\ s.cards[k] = "bright"
<1>. DEFINE touched == {k \in s.sel \cap DOMAIN rows : s.cards[k] # "none"}
            cards == [k \in Keys |-> IF k \in touched THEN Look(rows[k], k \in s.last)
                                     ELSE s.cards[k]]
            last == s.last \cup {k \in touched : rows[k] # "miss"}
<1>1. \A row, had : Look(row, had) \in {"bright", "dim", "dash"}
      /\ (Look(row, had) = "bright" => row = "new")
  BY DEF Look
<1>2. s.cards \in [Keys -> Card] /\ s.sel \subseteq Keys /\ s.last \subseteq Keys
  BY DEF Page
<1>3. cards \in [Keys -> Card]
  BY <1>1, <1>2 DEF Card
<1>4. last \in SUBSET Keys
  BY <1>2
<1>5. \A k \in Keys : cards[k] = IF k \in touched THEN Look(rows[k], k \in s.last) ELSE s.cards[k]
  OBVIOUS
<1>6. ApplyData(s, rows) = [s EXCEPT !.cards = cards, !.last = last]
  BY DEF ApplyData
<1>7. \A k \in Keys : cards[k] # "none" => s.cards[k] # "none"
  BY <1>5
<1>8. \A k \in Keys : cards[k] = "bright" =>
        \/ k \in DOMAIN rows /\ rows[k] = "new"
        \/ k \notin DOMAIN rows /\ s.cards[k] = "bright"
  <2>. SUFFICES ASSUME NEW k \in Keys, cards[k] = "bright"
                PROVE  \/ k \in DOMAIN rows /\ rows[k] = "new"
                       \/ k \notin DOMAIN rows /\ s.cards[k] = "bright"
    OBVIOUS
  <2>1. CASE k \in touched
    BY <1>1, <1>5, <2>1
  <2>2. CASE k \notin touched
    <3>1. s.cards[k] = "bright"
      BY <1>5, <2>2
    <3>2. k \in s.sel
      BY <3>1 DEF Fits
    <3>. QED
      BY <2>2, <3>1, <3>2
  <2>. QED
    BY <2>1, <2>2
<1>. HIDE DEF touched, cards, last
<1>9. [s EXCEPT !.cards = cards, !.last = last] \in Page
  BY <1>3, <1>4 DEF Page
<1>10. /\ [s EXCEPT !.cards = cards, !.last = last].cards = cards
       /\ [s EXCEPT !.cards = cards, !.last = last].bus = s.bus
       /\ [s EXCEPT !.cards = cards, !.last = last].params = s.params
       /\ [s EXCEPT !.cards = cards, !.last = last].sel = s.sel
       /\ [s EXCEPT !.cards = cards, !.last = last].main = s.main
       /\ [s EXCEPT !.cards = cards, !.last = last].view = s.view
  BY DEF Page
<1>11. Fits([s EXCEPT !.cards = cards, !.last = last])
  BY <1>7, <1>10 DEF Fits
<1>. QED
  BY <1>6, <1>8, <1>9, <1>10, <1>11

-----------------------------------------------------------------------------
(* How the queues move *)

(* An answer for the head of the requests: made, or an error of the network. *)
Made(p, ok, body) ==
  [kind |-> Head(requests[p]).kind, arg |-> Head(requests[p]).arg, ok |-> ok, body |-> body]

LEMMA ReplyMoves ==
  ASSUME IInv, NEW p \in Pages, requests[p] # <<>>, NEW ok \in BOOLEAN,
         NEW body \in {None} \cup Buses \cup Answer \cup Rows,
         ok => body \in Body(Head(requests[p]).kind), Reply(p, ok, body)
  PROVE  /\ Head(requests[p]) \in Asks /\ Made(p, ok, body) \in Returned
         /\ Made(p, ok, body).kind = Head(requests[p]).kind
         /\ Made(p, ok, body).ok = ok /\ Made(p, ok, body).body = body
         /\ requests' \in [Pages -> Seq(Asks)] /\ answers' \in [Pages -> Seq(Returned)]
         /\ requests'[p] = Tail(requests[p]) /\ answers'[p] = Append(answers[p], Made(p, ok, body))
         /\ \A d \in Pages \ {p} : requests'[d] = requests[d] /\ answers'[d] = answers[d]
         /\ UNCHANGED <<saved, page, timer, applied, clicks>>
<1>. DEFINE a == Made(p, ok, body)
<1>1. /\ requests' = [requests EXCEPT ![p] = Tail(requests[p])]
      /\ answers' = [answers EXCEPT ![p] = Append(answers[p], a)]
      /\ UNCHANGED <<saved, page, timer, applied, clicks>>
  BY DEF Reply, Made
<1>2. /\ requests \in [Pages -> Seq(Asks)] /\ answers \in [Pages -> Seq(Returned)]
      /\ requests[p] \in Seq(Asks) /\ answers[p] \in Seq(Returned)
  BY DEF IInv, DashType
<1>3. Head(requests[p]) \in Asks /\ Tail(requests[p]) \in Seq(Asks)
  BY <1>2, TailFacts
<1>4. /\ a \in Returned /\ a.kind = Head(requests[p]).kind /\ a.ok = ok /\ a.body = body
  BY <1>3 DEF Asks, Returned, Made
<1>. HIDE DEF a
<1>5. Append(answers[p], a) \in Seq(Returned)
  BY <1>2, <1>4
<1>6. /\ requests' \in [Pages -> Seq(Asks)] /\ answers' \in [Pages -> Seq(Returned)]
      /\ requests'[p] = Tail(requests[p]) /\ answers'[p] = Append(answers[p], a)
      /\ \A d \in Pages \ {p} : requests'[d] = requests[d] /\ answers'[d] = answers[d]
  BY <1>1, <1>2, <1>3, <1>5
<1>. QED
  BY <1>1, <1>3, <1>4, <1>6 DEF a

(* What a page sends: nothing, or one request. *)
Sends(more) == more = <<>> \/ \E r \in Asks : more = <<r>>

LEMMA SendMoves ==
  ASSUME IInv, NEW p \in Pages, NEW more, Sends(more),
         requests' = [requests EXCEPT ![p] = requests[p] \o more]
  PROVE  /\ requests' \in [Pages -> Seq(Asks)]
         /\ \A d \in Pages \ {p} : requests'[d] = requests[d]
         /\ more = <<>> => requests'[p] = requests[p]
         /\ \A r : more = <<r>> => r \in Asks /\ requests'[p] = Append(requests[p], r)
<1>1. requests \in [Pages -> Seq(Asks)] /\ requests[p] \in Seq(Asks)
  BY DEF IInv, DashType
<1>2. /\ requests[p] \o more \in Seq(Asks)
      /\ more = <<>> => requests[p] \o more = requests[p]
      /\ \A r : more = <<r>> => r \in Asks /\ requests[p] \o more = Append(requests[p], r)
  <2>1. CASE more = <<>>
    BY <1>1, <2>1
  <2>2. ASSUME NEW r \in Asks, more = <<r>>
        PROVE  /\ requests[p] \o more \in Seq(Asks) /\ more # <<>>
               /\ \A x : more = <<x>> => x = r
               /\ requests[p] \o more = Append(requests[p], r)
    <3>1. requests[p] \o more = Append(requests[p], r) /\ Append(requests[p], r) \in Seq(Asks)
      BY <1>1, <2>2, AppendFacts
    <3>. QED
      BY <2>2, <3>1
  <2>3. more = <<>> => \A r : more # <<r>>
    OBVIOUS
  <2>. QED
    BY <2>1, <2>2, <2>3 DEF Sends
<1>. QED
  BY <1>1, <1>2

LEMMA CallBackMoves ==
  ASSUME IInv, NEW p \in Pages, answers[p] # <<>>, NEW s \in Page, NEW more, Sends(more),
         CallBack(p, s, more)
  PROVE  /\ Answer1(p) \in Returned
         /\ page' \in [Pages -> Page] /\ page'[p] = s
         /\ answers' \in [Pages -> Seq(Returned)] /\ answers'[p] = Tail(answers[p])
         /\ \A d \in Pages \ {p} : page'[d] = page[d] /\ answers'[d] = answers[d]
         /\ requests' = [requests EXCEPT ![p] = requests[p] \o more]
         /\ UNCHANGED <<bus, up, told, selection, astray, saved, clicks, lost>>
<1>1. /\ page \in [Pages -> Page] /\ answers \in [Pages -> Seq(Returned)]
      /\ answers[p] \in Seq(Returned)
  BY DEF IInv, DashType
<1>2. Answer1(p) \in Returned /\ Tail(answers[p]) \in Seq(Returned)
  BY <1>1, TailFacts DEF Answer1
<1>3. /\ answers' = [answers EXCEPT ![p] = Tail(answers[p])] /\ page' = [page EXCEPT ![p] = s]
      /\ requests' = [requests EXCEPT ![p] = requests[p] \o more]
      /\ UNCHANGED <<bus, up, told, selection, astray, saved, clicks, lost>>
  BY DEF CallBack, server, session
<1>. QED
  BY <1>1, <1>2, <1>3

-----------------------------------------------------------------------------
(* The server *)

(* Whatever it answers, what holds of the pages still does. *)
LEMMA ReplyKeeps ==
  ASSUME IInv, NEW p \in Pages, requests[p] # <<>>, NEW ok \in BOOLEAN,
         NEW body \in {None} \cup Buses \cup Answer \cup Rows,
         ok => body \in Body(Head(requests[p]).kind), Reply(p, ok, body),
         SessionTypeOK', selection' \in SUBSET Keys, astray' \in BOOLEAN, lost' \in 0 .. MaxLost
  PROVE  IInv'
<1>. DEFINE a == Made(p, ok, body)
<1>1. /\ a \in Returned /\ a.kind = Head(requests[p]).kind /\ Head(requests[p]) \in Asks
      /\ requests' \in [Pages -> Seq(Asks)] /\ answers' \in [Pages -> Seq(Returned)]
      /\ requests'[p] = Tail(requests[p]) /\ answers'[p] = Append(answers[p], a)
      /\ \A d \in Pages \ {p} : requests'[d] = requests[d] /\ answers'[d] = answers[d]
      /\ UNCHANGED <<saved, page, timer, applied, clicks>>
  BY ReplyMoves
<1>. HIDE DEF a
<1>2. requests[p] \in Seq(Asks) /\ answers[p] \in Seq(Returned) /\ PageInv(p)
  BY DEF IInv, DashType
<1>3. DashType'
  BY <1>1 DEF IInv, DashType
<1>4. \A kind : /\ Has(requests[p], kind) <=> Has(requests'[p], kind) \/ a.kind = kind
                /\ Has(answers'[p], kind) <=> Has(answers[p], kind) \/ a.kind = kind
  BY <1>1, <1>2, HasAppend, HasTail
<1>5. LoadInv(p)'
  BY <1>1, <1>2, <1>4 DEF PageInv, LoadInv
<1>6. PollInv(p)'
  <2>1. CASE timer[p]
    BY <1>1, <1>2, <1>4, <2>1 DEF PageInv, PollInv
  <2>2. CASE ~timer[p] /\ a.kind = "data"
    <3>1. One(requests[p], "data") /\ ~Has(answers[p], "data")
      BY <1>2, <1>4, <2>2 DEF PageInv, PollInv
    <3>2. ~Has(requests'[p], "data")
      BY <1>1, <1>2, <2>2, <3>1, OneTail
    <3>3. One(answers'[p], "data")
      BY <1>1, <1>2, <2>2, <3>1, OneAppend
    <3>. QED
      BY <1>1, <2>2, <3>2, <3>3 DEF PollInv
  <2>3. CASE ~timer[p] /\ a.kind # "data"
    <3>1. One(requests[p], "data") => One(requests'[p], "data")
      BY <1>1, <1>2, <2>3, OneTail
    <3>2. One(answers[p], "data") => One(answers'[p], "data")
      BY <1>1, <1>2, <2>3, OneAppend
    <3>. QED
      BY <1>1, <1>2, <1>4, <2>3, <3>1, <3>2 DEF PageInv, PollInv
  <2>. QED
    BY <2>1, <2>2, <2>3
<1>7. \A d \in Pages \ {p} : PageInv(d)'
  BY <1>1 DEF IInv, PageInv, LoadInv, PollInv
<1>8. PageInv(p)'
  BY <1>1, <1>2, <1>5, <1>6 DEF PageInv
<1>. QED
  BY <1>3, <1>7, <1>8 DEF IInv

LEMMA ServeKeeps ==
  ASSUME IInv, NEW p \in Pages, Serve(p) \/ LoseRequest(p)
  PROVE  IInv'
<1>1. /\ bus \in Buses /\ up \in BOOLEAN /\ told \in Answer /\ selection \in SUBSET Keys
      /\ astray \in BOOLEAN /\ lost \in 0 .. MaxLost /\ MaxLost \in Nat
      /\ \A d \in Pages : requests[d] \in Seq(Asks)
  BY DashboardAssumption DEF IInv, DashType, SessionTypeOK
<1>2. \A kind : Asked(p, kind) => requests[p] # <<>> /\ Head(requests[p]).kind = kind
  BY DEF Asked
<1>3. CASE ServeState(p)
  <2>1. /\ requests[p] # <<>> /\ Head(requests[p]).kind \in {"meta", "params"}
        /\ Reply(p, TRUE, bus) /\ UNCHANGED <<bus, up, told, selection, astray, lost>>
    BY <1>2, <1>3 DEF ServeState, Handled, server, session
  <2>2. bus \in Body(Head(requests[p]).kind)
    BY <1>1, <2>1 DEF Body
  <2>3. SessionTypeOK'
    BY <1>1, <2>1 DEF SessionTypeOK
  <2>. QED
    BY <1>1, <2>1, <2>2, <2>3, ReplyKeeps
<1>4. CASE ServeData(p)
  <2>1. PICK rows \in [selection -> IF up THEN {"new", "old", "miss"} ELSE {"miss"}] :
          Handled(p, rows)
    BY <1>4 DEF ServeData
  <2>2. rows \in Rows
    <3>1. rows \in [selection -> {"new", "old", "miss"}]
      BY <1>1, <2>1
    <3>. QED
      BY <1>1, <3>1 DEF Rows
  <2>3. /\ requests[p] # <<>> /\ Head(requests[p]).kind = "data" /\ Reply(p, TRUE, rows)
        /\ UNCHANGED <<bus, up, told, selection, astray, lost>>
    BY <1>2, <1>4, <2>1 DEF ServeData, Handled, server, session
  <2>4. rows \in Body(Head(requests[p]).kind)
    BY <2>2, <2>3 DEF Body
  <2>5. SessionTypeOK'
    BY <1>1, <2>3 DEF SessionTypeOK
  <2>. QED
    BY <1>1, <2>2, <2>3, <2>4, <2>5, ReplyKeeps
<1>5. CASE ServeSelect(p)
  <2>1. /\ requests[p] # <<>> /\ Head(requests[p]).kind = "select" /\ Reply(p, TRUE, None)
        /\ selection' = Head(requests[p]).arg
        /\ UNCHANGED <<bus, up, told, astray, lost>>
    BY <1>2, <1>5 DEF ServeSelect, Handled, session
  <2>2. Head(requests[p]) \in Asks
    BY <1>1, <2>1, TailFacts
  <2>3. selection' \in SUBSET Keys /\ None \in Body(Head(requests[p]).kind)
    BY <2>1, <2>2 DEF Asks, Body
  <2>4. SessionTypeOK'
    BY <1>1, <2>1 DEF SessionTypeOK
  <2>. QED
    BY <1>1, <2>1, <2>3, <2>4, ReplyKeeps
<1>6. CASE ServeBus(p)
  <2>1. /\ requests[p] # <<>> /\ Head(requests[p]).kind = "bus" /\ Reply(p, TRUE, told')
        /\ lost' = lost
        /\ \/ Switched(Head(requests[p]).arg) /\ selection' = {} /\ astray' = FALSE
           \/ SwitchRefused /\ UNCHANGED <<selection, astray>>
    BY <1>2, <1>6 DEF ServeBus, Handled
  <2>2. SessionTypeOK' /\ told' \in Answer
    <3>1. CASE Switched(Head(requests[p]).arg)
      BY <3>1 DEF SessionTypeOK, Switched, Answer
    <3>2. CASE SwitchRefused
      <4>1. bus' \in Buses /\ up' \in BOOLEAN /\ told' = [ok |-> FALSE, bus |-> bus]
        BY <1>1, <3>2 DEF SwitchRefused
      <4>. QED
        BY <1>1, <4>1 DEF SessionTypeOK, Answer
    <3>. QED
      BY <2>1, <3>1, <3>2
  <2>3. told' \in Body(Head(requests[p]).kind)
    BY <2>1, <2>2 DEF Body
  <2>4. selection' \in SUBSET Keys /\ astray' \in BOOLEAN
    BY <1>1, <2>1
  <2>. QED
    BY <1>1, <2>1, <2>2, <2>3, <2>4, ReplyKeeps
<1>7. CASE ServeConfig(p)
  <2>1. /\ requests[p] # <<>> /\ Head(requests[p]).kind = "config" /\ Reply(p, TRUE, None)
        /\ UNCHANGED <<selection, lost>>
        /\ \/ UNCHANGED <<bus, up, told, astray>>
           \/ ConfigRefused /\ UNCHANGED astray
           \/ ConfigStranded /\ astray' = TRUE
    BY <1>2, <1>7 DEF ServeConfig, Handled, session
  <2>2. SessionTypeOK' /\ astray' \in BOOLEAN
    BY <1>1, <2>1, SessionAssumption DEF SessionTypeOK, ConfigRefused, ConfigStranded
  <2>3. None \in Body(Head(requests[p]).kind)
    BY <2>1 DEF Body
  <2>. QED
    BY <1>1, <2>1, <2>2, <2>3, ReplyKeeps
<1>8. CASE ServeDtc(p)
  <2>1. /\ requests[p] # <<>> /\ Head(requests[p]).kind = "dtc"
        /\ Reply(p, TRUE, None) \/ Reply(p, TRUE, bus)
        /\ UNCHANGED <<bus, up, told, selection, astray, lost>>
    BY <1>2, <1>8 DEF ServeDtc, Handled, server, session
  <2>2. None \in Body(Head(requests[p]).kind) /\ bus \in Body(Head(requests[p]).kind)
    BY <1>1, <2>1 DEF Body
  <2>3. SessionTypeOK'
    BY <1>1, <2>1 DEF SessionTypeOK
  <2>. QED
    BY <1>1, <2>1, <2>2, <2>3, ReplyKeeps
<1>9. CASE ServeClear(p)
  <2>1. /\ requests[p] # <<>> /\ Head(requests[p]).kind = "clear" /\ Reply(p, TRUE, None)
        /\ UNCHANGED <<bus, up, told, selection, astray, lost>>
    BY <1>2, <1>9 DEF ServeClear, Handled, server, session
  <2>2. None \in Body(Head(requests[p]).kind) /\ SessionTypeOK'
    BY <1>1, <2>1 DEF Body, SessionTypeOK
  <2>. QED
    BY <1>1, <2>1, <2>2, ReplyKeeps
<1>10. CASE LoseRequest(p)
  <2>1. /\ requests[p] # <<>> /\ Reply(p, FALSE, None) /\ lost' \in 0 .. MaxLost
        /\ UNCHANGED <<bus, up, told, selection, astray>>
    <3>1. lost < MaxLost /\ lost' = lost + 1
      BY <1>10 DEF LoseRequest
    <3>2. lost' \in 0 .. MaxLost
      BY <1>1, <3>1
    <3>. QED
      BY <1>10, <3>2 DEF LoseRequest, server, session
  <2>2. SessionTypeOK'
    BY <1>1, <2>1 DEF SessionTypeOK
  <2>. QED
    BY <1>1, <2>1, <2>2, ReplyKeeps
<1>. QED
  BY <1>3, <1>4, <1>5, <1>6, <1>7, <1>8, <1>9, <1>10 DEF Serve

(* An answer that gets lost is one all the same. *)
LEMMA LoseAnswerMoves ==
  ASSUME IInv, NEW p \in Pages, LoseAnswer(p)
  PROVE  /\ answers' \in [Pages -> Seq(Returned)] /\ lost' = lost + 1 /\ lost' \in 0 .. MaxLost
         /\ \A d \in Pages \ {p} : answers'[d] = answers[d]
         /\ DOMAIN answers'[p] = DOMAIN answers[p]
         /\ \A i \in DOMAIN answers[p] : answers'[p][i].kind = answers[p][i].kind
<1>1. /\ lost < MaxLost /\ lost' = lost + 1 /\ answers[p] # <<>>
      /\ answers' = [answers EXCEPT ![p] = [answers[p] EXCEPT ![1] = [answers[p][1] EXCEPT !.ok = FALSE]]]
  BY DEF LoseAnswer, IInv, DashType
<1>2. /\ answers \in [Pages -> Seq(Returned)] /\ answers[p] \in Seq(Returned)
      /\ lost \in 0 .. MaxLost /\ MaxLost \in Nat
  BY DashboardAssumption DEF IInv, DashType
<1>3. 1 \in DOMAIN answers[p] /\ answers[p][1] \in Returned
  BY <1>1, <1>2
<1>. DEFINE a == [answers[p][1] EXCEPT !.ok = FALSE]
            q == [answers[p] EXCEPT ![1] = a]
<1>4. a \in Returned /\ a.kind = answers[p][1].kind
  BY <1>3 DEF Returned
<1>. HIDE DEF a
<1>5. /\ q \in Seq(Returned) /\ DOMAIN q = DOMAIN answers[p]
      /\ \A i \in DOMAIN answers[p] : q[i].kind = answers[p][i].kind
  BY <1>2, <1>3, <1>4
<1>6. answers' = [answers EXCEPT ![p] = q]
  BY <1>1 DEF a
<1>7. lost' \in 0 .. MaxLost
  BY <1>1, <1>2
<1>. HIDE DEF q
<1>. QED
  BY <1>1, <1>2, <1>5, <1>6, <1>7

LEMMA LoseAnswerKeeps ==
  ASSUME IInv, NEW p \in Pages, LoseAnswer(p)
  PROVE  IInv'
<1>1. /\ answers' \in [Pages -> Seq(Returned)] /\ lost' \in 0 .. MaxLost
      /\ \A d \in Pages \ {p} : answers'[d] = answers[d]
      /\ DOMAIN answers'[p] = DOMAIN answers[p]
      /\ \A i \in DOMAIN answers[p] : answers'[p][i].kind = answers[p][i].kind
  BY LoseAnswerMoves
<1>2. UNCHANGED <<bus, up, told, selection, astray, saved, page, requests, timer, applied, clicks>>
  BY DEF LoseAnswer, server, session
<1>3. DashType'
  BY <1>1, <1>2 DEF IInv, DashType, SessionTypeOK
<1>4. \A kind : /\ Has(answers'[p], kind) <=> Has(answers[p], kind)
                /\ One(answers'[p], kind) <=> One(answers[p], kind)
  BY <1>1 DEF Has, One
<1>5. PageInv(p)'
  BY <1>2, <1>4 DEF IInv, PageInv, LoadInv, PollInv
<1>6. \A d \in Pages \ {p} : PageInv(d)'
  BY <1>1, <1>2 DEF IInv, PageInv, LoadInv, PollInv
<1>. QED
  BY <1>3, <1>5, <1>6 DEF IInv

-----------------------------------------------------------------------------
(* The pages *)

(* A callback: the page is complete, and only the answer to a poll schedules     *)
(* another.                                                                  *)
LEMMA CallBackKeeps ==
  ASSUME IInv, NEW p \in Pages, answers[p] # <<>>, NEW s \in Page, NEW more, Sends(more),
         CallBack(p, s, more), Fits(s),
         s.bus = None => page[p].bus = None,
         \A r : more = <<r>> => r.kind # "data" /\ (r.kind = "params" => s.bus # None),
         timer' = IF Answer1(p).kind = "data" THEN [timer EXCEPT ![p] = TRUE] ELSE timer,
         applied' \in [Pages -> SUBSET Keys]
  PROVE  IInv'
<1>1. /\ page' \in [Pages -> Page] /\ page'[p] = s
      /\ answers' \in [Pages -> Seq(Returned)] /\ answers'[p] = Tail(answers[p])
      /\ \A d \in Pages \ {p} : page'[d] = page[d] /\ answers'[d] = answers[d]
      /\ requests' = [requests EXCEPT ![p] = requests[p] \o more]
      /\ UNCHANGED <<bus, up, told, selection, astray, saved, clicks, lost>>
  BY CallBackMoves
<1>2. /\ requests' \in [Pages -> Seq(Asks)]
      /\ \A d \in Pages \ {p} : requests'[d] = requests[d]
      /\ more = <<>> => requests'[p] = requests[p]
      /\ \A r : more = <<r>> => r \in Asks /\ requests'[p] = Append(requests[p], r)
  BY <1>1, SendMoves
<1>3. requests[p] \in Seq(Asks) /\ answers[p] \in Seq(Returned) /\ PageInv(p)
      /\ timer \in [Pages -> BOOLEAN]
  BY DEF IInv, DashType
<1>4. timer' \in [Pages -> BOOLEAN] /\ \A d \in Pages \ {p} : timer'[d] = timer[d]
  BY <1>3
<1>5. timer'[p] = IF Answer1(p).kind = "data" THEN TRUE ELSE timer[p]
  BY <1>3
<1>6. DashType'
  BY <1>1, <1>2, <1>4 DEF IInv, DashType, SessionTypeOK
<1>7. \A kind : Has(answers[p], kind) <=> Has(answers'[p], kind) \/ Answer1(p).kind = kind
  BY <1>1, <1>3, HasTail DEF Answer1
<1>8. \A kind : /\ Has(requests[p], kind) => Has(requests'[p], kind)
                /\ Has(requests'[p], kind) =>
                     Has(requests[p], kind) \/ \E r : more = <<r>> /\ r.kind = kind
  <2>1. CASE more = <<>>
    BY <1>2, <2>1
  <2>2. ASSUME NEW r \in Asks, more = <<r>>
        PROVE  \A kind : Has(requests'[p], kind) <=> Has(requests[p], kind) \/ r.kind = kind
    <3>1. requests'[p] = Append(requests[p], r)
      BY <1>2, <2>2
    <3>. QED
      BY <1>3, <3>1, HasAppend
  <2>. QED
    <3>1. CASE \E r \in Asks : more = <<r>>
      BY <2>2, <3>1
    <3>. QED
      BY <2>1, <3>1 DEF Sends
<1>9. LoadInv(p)'
  BY <1>1, <1>3, <1>7, <1>8 DEF PageInv, LoadInv
<1>10. One(requests[p], "data") <=> One(requests'[p], "data")
  <2>1. CASE more = <<>>
    BY <1>2, <2>1
  <2>2. ASSUME NEW r \in Asks, more = <<r>>
        PROVE  One(requests[p], "data") <=> One(requests'[p], "data")
    <3>1. requests'[p] = Append(requests[p], r) /\ r.kind # "data"
      BY <1>2, <2>2
    <3>. QED
      BY <1>3, <3>1, OneAppend
  <2>. QED
    BY <2>1, <2>2 DEF Sends
<1>11. Has(requests[p], "data") <=> Has(requests'[p], "data")
  BY <1>8
<1>12. PollInv(p)'
  <2>1. CASE Answer1(p).kind = "data"
    <3>1. ~timer[p] /\ One(answers[p], "data") /\ ~Has(requests[p], "data")
      BY <1>3, <1>7, <2>1 DEF PageInv, PollInv
    <3>2. ~Has(answers'[p], "data")
      BY <1>1, <1>3, <2>1, <3>1, OneTail DEF Answer1
    <3>. QED
      BY <1>5, <1>11, <2>1, <3>1, <3>2 DEF PollInv
  <2>2. CASE Answer1(p).kind # "data"
    <3>1. One(answers[p], "data") => One(answers'[p], "data")
      BY <1>1, <1>3, <2>2, OneTail DEF Answer1
    <3>2. Has(answers[p], "data") <=> Has(answers'[p], "data")
      BY <1>7, <2>2
    <3>. QED
      BY <1>3, <1>5, <1>10, <1>11, <2>2, <3>1, <3>2 DEF PageInv, PollInv
  <2>. QED
    BY <2>1, <2>2
<1>13. PageInv(p)'
  BY <1>1, <1>9, <1>12 DEF PageInv
<1>14. \A d \in Pages \ {p} : PageInv(d)'
  BY <1>1, <1>2, <1>4 DEF IInv, PageInv, LoadInv, PollInv
<1>. QED
  BY <1>6, <1>13, <1>14 DEF IInv

(* A click: the page is complete, and what it sends is no poll.                  *)
LEMMA ClickKeeps ==
  ASSUME IInv, NEW p \in Pages, NEW s \in Page, NEW more, Sends(more), Click(p, s, more), Fits(s),
         s.bus = page[p].bus, \A r : more = <<r>> => r.kind \notin {"data", "params"},
         saved' \in [Buses -> SUBSET Keys]
  PROVE  IInv'
<1>1. /\ page[p].bus # None /\ clicks < MaxClicks /\ clicks' = clicks + 1
      /\ page' = [page EXCEPT ![p] = s]
      /\ requests' = [requests EXCEPT ![p] = requests[p] \o more]
      /\ UNCHANGED <<bus, up, told, selection, astray, answers, timer, applied, lost>>
  BY DEF Click, server, session
<1>2. /\ requests' \in [Pages -> Seq(Asks)]
      /\ \A d \in Pages \ {p} : requests'[d] = requests[d]
      /\ more = <<>> => requests'[p] = requests[p]
      /\ \A r : more = <<r>> => r \in Asks /\ requests'[p] = Append(requests[p], r)
  BY <1>1, SendMoves
<1>3. /\ requests[p] \in Seq(Asks) /\ PageInv(p) /\ page \in [Pages -> Page]
      /\ clicks \in 0 .. MaxClicks /\ MaxClicks \in Nat
  BY DashboardAssumption DEF IInv, DashType
<1>4. clicks' \in 0 .. MaxClicks
  BY <1>1, <1>3
<1>5. page' \in [Pages -> Page] /\ page'[p] = s /\ \A d \in Pages \ {p} : page'[d] = page[d]
  BY <1>1, <1>3
<1>6. DashType'
  BY <1>1, <1>2, <1>4, <1>5 DEF IInv, DashType, SessionTypeOK
<1>7. /\ Has(requests'[p], "data") <=> Has(requests[p], "data")
      /\ One(requests'[p], "data") <=> One(requests[p], "data")
  <2>1. CASE more = <<>>
    BY <1>2, <2>1
  <2>2. ASSUME NEW r \in Asks, more = <<r>>
        PROVE  /\ Has(requests'[p], "data") <=> Has(requests[p], "data")
               /\ One(requests'[p], "data") <=> One(requests[p], "data")
    <3>1. requests'[p] = Append(requests[p], r) /\ r.kind # "data"
      BY <1>2, <2>2
    <3>2. One(requests'[p], "data") <=> One(requests[p], "data")
      BY <1>3, <3>1, OneAppend
    <3>3. Has(requests'[p], "data") <=> Has(requests[p], "data")
      BY <1>3, <3>1, HasAppend
    <3>. QED
      BY <3>2, <3>3
  <2>. QED
    BY <2>1, <2>2 DEF Sends
<1>8. PageInv(p)'
  BY <1>1, <1>3, <1>5, <1>7 DEF PageInv, LoadInv, PollInv
<1>9. \A d \in Pages \ {p} : PageInv(d)'
  BY <1>1, <1>2, <1>5 DEF IInv, PageInv, LoadInv, PollInv
<1>. QED
  BY <1>6, <1>8, <1>9 DEF IInv

LEMMA TickKeeps ==
  ASSUME IInv, NEW p \in Pages, PollTick(p)
  PROVE  IInv'
<1>. DEFINE r == Request("data", None)
<1>1. /\ timer[p] /\ timer' = [timer EXCEPT ![p] = FALSE]
      /\ requests' = [requests EXCEPT ![p] = Append(requests[p], r)]
      /\ UNCHANGED <<bus, up, told, selection, astray, saved, page, answers, applied, clicks, lost>>
  BY DEF PollTick, server, session
<1>2. r \in Asks /\ r.kind = "data"
  BY DEF Asks, Kind, Request
<1>. HIDE DEF r
<1>3. /\ requests \in [Pages -> Seq(Asks)] /\ requests[p] \in Seq(Asks) /\ PageInv(p)
      /\ timer \in [Pages -> BOOLEAN]
  BY DEF IInv, DashType
<1>4. Append(requests[p], r) \in Seq(Asks)
  BY <1>2, <1>3
<1>5. /\ requests' \in [Pages -> Seq(Asks)] /\ requests'[p] = Append(requests[p], r)
      /\ timer' \in [Pages -> BOOLEAN] /\ ~timer'[p]
      /\ \A d \in Pages \ {p} : requests'[d] = requests[d] /\ timer'[d] = timer[d]
  BY <1>1, <1>3, <1>4
<1>6. DashType'
  BY <1>1, <1>5 DEF IInv, DashType, SessionTypeOK
<1>7. One(requests'[p], "data") /\ ~Has(answers[p], "data")
  BY <1>1, <1>2, <1>3, <1>5, OneAppend DEF PageInv, PollInv
<1>8. Has(requests'[p], "params") <=> Has(requests[p], "params")
  BY <1>2, <1>3, <1>5, HasAppend
<1>9. PageInv(p)'
  BY <1>1, <1>3, <1>5, <1>7, <1>8 DEF PageInv, LoadInv, PollInv
<1>10. \A d \in Pages \ {p} : PageInv(d)'
  BY <1>1, <1>5 DEF IInv, PageInv, LoadInv, PollInv
<1>. QED
  BY <1>6, <1>9, <1>10 DEF IInv

LEMMA RequestsTyped ==
  /\ \A then \in {"show live", "render cards"} :
       Request("params", then) \in Asks /\ Request("params", then).kind = "params"
  /\ \A keys \in SUBSET Keys : /\ Request("select", keys) \in Asks
                               /\ Request("select", keys).kind = "select"
                               /\ Request("select", keys).arg = keys
  /\ \A b \in Buses : Request("bus", b) \in Asks /\ Request("bus", b).kind = "bus"
  /\ \A kind \in {"config", "dtc", "clear", "data", "meta"} :
       Request(kind, None) \in Asks /\ Request(kind, None).kind = kind
BY DEF Request, Asks, Kind

LEMMA BodiesTyped ==
  ASSUME NEW a \in Returned, a.ok
  PROVE  /\ a.kind \in {"meta", "params"} => a.body \in Buses
         /\ a.kind = "data" => a.body \in Rows
         /\ a.kind = "bus" => a.body \in Answer /\ a.body.bus \in Buses /\ a.body.ok \in BOOLEAN
         /\ a.kind = "dtc" => a.body \in Buses \cup {None}
<1>1. a.body \in Body(a.kind)
  BY DEF Returned
<1>. QED
  BY <1>1 DEF Body, Answer

(* A page after the answer to /params. *)
LEMMA ParamsFit ==
  ASSUME IInv, NEW p \in Pages, OnParams(p)
  PROVE  \E s \in Page :
           /\ Fits(s) /\ NoBright(s) /\ s.bus = page[p].bus /\ s.bus # None
           /\ s.params = IF Answer1(p).ok THEN Answer1(p).body ELSE None
           /\ answers[p] # <<>> /\ Answer1(p).kind = "params"
           /\ CallBack(p, s, <<Request("select", s.sel)>>)
           /\ UNCHANGED <<timer, applied>>
<1>. DEFINE listed == IF Answer1(p).ok THEN Answer1(p).body ELSE None
            ticked == saved[page[p].bus] \cap KeysOf(listed)
            t      == [page[p] EXCEPT !.params = listed, !.sel = ticked]
            s      == IF Answer1(p).arg = "show live" THEN ShowLive(t) ELSE RenderCards(t)
<1>1. /\ answers[p] # <<>> /\ Answer1(p).kind = "params"
      /\ CallBack(p, s, PushSel(ticked)) /\ UNCHANGED <<timer, applied>>
  BY DEF OnParams, Answered, Answer1
<1>2. /\ page[p] \in Page /\ Fits(page[p]) /\ answers[p] \in Seq(Returned)
      /\ saved \in [Buses -> SUBSET Keys] /\ LoadInv(p)
  BY DEF IInv, DashType, PageInv
<1>3. Answer1(p) \in Returned /\ Has(answers[p], "params")
  BY <1>1, <1>2, TailFacts DEF Answer1, Has
<1>4. page[p].bus \in Buses
  BY <1>2, <1>3 DEF LoadInv, Page
<1>5. listed \in Buses \cup {None}
  BY <1>1, <1>3 DEF Returned, Body
<1>. HIDE DEF listed
<1>6. ticked \subseteq KeysOf(listed) /\ ticked \in SUBSET Keys
  BY <1>2, <1>4
<1>. HIDE DEF ticked
<1>7. /\ t \in Page /\ t.params = listed /\ t.sel = ticked /\ t.bus = page[p].bus
      /\ t.main = page[p].main /\ t.view = page[p].view /\ t.cards = page[p].cards
  BY <1>2, <1>5, <1>6 DEF Page
<1>. HIDE DEF t
<1>8. /\ t.main = "live" => t.view = "live"
      /\ t.main # "live" => \A k \in Keys : t.cards[k] = "none"
  BY <1>2, <1>7 DEF Fits
<1>9. /\ s \in Page /\ Fits(s) /\ NoBright(s)
      /\ s.bus = page[p].bus /\ s.params = listed /\ s.sel = ticked
  BY <1>6, <1>7, <1>8, LiveFits, RenderFits
<1>. HIDE DEF s
<1>10. CallBack(p, s, <<Request("select", s.sel)>>)
  BY <1>1, <1>9 DEF PushSel
<1>11. s.bus # None
  BY <1>4, <1>9, DashboardAssumption
<1>. QED
  BY <1>1, <1>9, <1>10, <1>11 DEF listed

LEMMA ListenKeeps ==
  ASSUME IInv, NEW p \in Pages, Listen(p)
  PROVE  IInv'
<1>1. /\ page[p] \in Page /\ Fits(page[p]) /\ answers[p] \in Seq(Returned)
      /\ applied \in [Pages -> SUBSET Keys] /\ None \notin Buses
  BY DashboardAssumption DEF IInv, DashType, PageInv
<1>2. \A kind : Answered(p, kind) => /\ answers[p] # <<>> /\ Answer1(p).kind = kind
                                     /\ Answer1(p) \in Returned
  BY <1>1, TailFacts DEF Answered, Answer1
<1>3. Sends(<<>>)
  BY DEF Sends
<1>4. \A r : <<>> # <<r>>
  OBVIOUS
<1>5. CASE OnMeta(p)
  <2>1. CASE Answer1(p).ok
    <3>. DEFINE s == [page[p] EXCEPT !.bus = Answer1(p).body]
    <3>1. /\ answers[p] # <<>> /\ Answer1(p).kind = "meta" /\ Answer1(p).body \in Buses
          /\ CallBack(p, s, <<Request("params", "show live")>>) /\ UNCHANGED <<timer, applied>>
      <4>1. answers[p] # <<>> /\ Answer1(p).kind = "meta" /\ Answer1(p).body \in Buses
        BY <1>2, <1>5, <2>1, BodiesTyped DEF OnMeta
      <4>. QED
        BY <1>5, <2>1, <4>1 DEF OnMeta, LoadParams
    <3>2. s \in Page /\ s.bus # None /\ Fits(s)
      BY <1>1, <3>1 DEF Page, Fits
    <3>. HIDE DEF s
    <3>3. Sends(<<Request("params", "show live")>>)
      BY RequestsTyped DEF Sends
    <3>4. \A r : <<Request("params", "show live")>> = <<r>> => r.kind # "data"
      BY RequestsTyped
    <3>. QED
      BY <1>1, <3>1, <3>2, <3>3, <3>4, CallBackKeeps
  <2>2. CASE ~Answer1(p).ok
    <3>1. /\ answers[p] # <<>> /\ Answer1(p).kind = "meta"
          /\ CallBack(p, page[p], <<>>) /\ UNCHANGED <<timer, applied>>
      BY <1>2, <1>5, <2>2 DEF OnMeta
    <3>. QED
      BY <1>1, <1>3, <1>4, <3>1, CallBackKeeps
  <2>. QED
    BY <2>1, <2>2
<1>6. CASE OnParams(p)
  <2>1. PICK s \in Page :
           /\ Fits(s) /\ s.bus # None
           /\ answers[p] # <<>> /\ Answer1(p).kind = "params"
           /\ CallBack(p, s, <<Request("select", s.sel)>>)
           /\ UNCHANGED <<timer, applied>>
    BY <1>6, ParamsFit
  <2>2. s.sel \in SUBSET Keys
    BY DEF Page
  <2>3. Sends(<<Request("select", s.sel)>>)
    BY <2>2, RequestsTyped DEF Sends
  <2>4. \A r : <<Request("select", s.sel)>> = <<r>> => r.kind \notin {"data", "params"}
    BY <2>2, RequestsTyped
  <2>. QED
    BY <1>1, <2>1, <2>3, <2>4, CallBackKeeps
<1>7. CASE OnData(p)
  <2>1. CASE Answer1(p).ok
    <3>. DEFINE s == ApplyData(page[p], Answer1(p).body)
    <3>1. /\ answers[p] # <<>> /\ Answer1(p).kind = "data" /\ Answer1(p).body \in Rows
          /\ CallBack(p, s, <<>>) /\ timer' = [timer EXCEPT ![p] = TRUE]
          /\ applied' = [applied EXCEPT ![p] =
                  {k \in DOMAIN Answer1(p).body : Answer1(p).body[k] = "new"}]
      <4>1. answers[p] # <<>> /\ Answer1(p).kind = "data" /\ Answer1(p).body \in Rows
        BY <1>2, <1>7, <2>1, BodiesTyped DEF OnData
      <4>. QED
        BY <1>7, <2>1, <4>1 DEF OnData, Reschedule
    <3>2. s \in Page /\ s.bus = page[p].bus /\ Fits(s)
      BY <1>1, <3>1, ApplyFits
    <3>. HIDE DEF s
    <3>3. DOMAIN Answer1(p).body \subseteq Keys
      BY <3>1 DEF Rows
    <3>4. applied' \in [Pages -> SUBSET Keys]
      BY <1>1, <3>1, <3>3
    <3>. QED
      BY <1>3, <1>4, <3>1, <3>2, <3>4, CallBackKeeps
  <2>2. CASE ~Answer1(p).ok
    <3>1. /\ answers[p] # <<>> /\ Answer1(p).kind = "data"
          /\ CallBack(p, page[p], <<>>) /\ timer' = [timer EXCEPT ![p] = TRUE]
          /\ applied' = applied
      BY <1>2, <1>7, <2>2 DEF OnData, Reschedule
    <3>. QED
      BY <1>1, <1>3, <1>4, <3>1, CallBackKeeps
  <2>. QED
    BY <2>1, <2>2
<1>8. CASE OnSelect(p)
  <2>1. /\ answers[p] # <<>> /\ Answer1(p).kind = "select"
        /\ CallBack(p, page[p], <<>>) /\ UNCHANGED <<timer, applied>>
    BY <1>2, <1>8 DEF OnSelect
  <2>. QED
    BY <1>1, <1>3, <1>4, <2>1, CallBackKeeps
<1>9. CASE OnBus(p)
  <2>1. /\ answers[p] # <<>> /\ Answer1(p).kind = "bus" /\ UNCHANGED <<timer, applied>>
        /\ Answer1(p).ok => Answer1(p).body.bus \in Buses
    <3>1. answers[p] # <<>> /\ Answer1(p).kind = "bus" /\ Answer1(p) \in Returned
      BY <1>2, <1>9 DEF OnBus
    <3>. QED
      BY <1>9, <3>1, BodiesTyped DEF OnBus
  <2>2. CASE Answer1(p).ok
    <3>. DEFINE s == [page[p] EXCEPT !.bus = Answer1(p).body.bus]
                more == IF Answer1(p).body.ok THEN LoadParams("render cards") ELSE <<>>
    <3>1. CallBack(p, s, more)
      BY <1>9, <2>2 DEF OnBus
    <3>2. s \in Page /\ s.bus # None /\ Fits(s)
      BY <1>1, <2>1, <2>2 DEF Page, Fits
    <3>. HIDE DEF s
    <3>3. more = <<>> \/ more = <<Request("params", "render cards")>>
      BY DEF LoadParams
    <3>. HIDE DEF more
    <3>4. Sends(more) /\ \A r : more = <<r>> => r.kind # "data"
      <4>1. CASE more = <<>>
        BY <1>3, <1>4, <4>1
      <4>2. CASE more = <<Request("params", "render cards")>>
        BY <4>2, RequestsTyped DEF Sends
      <4>. QED
        BY <3>3, <4>1, <4>2
    <3>. QED
      BY <1>1, <2>1, <3>1, <3>2, <3>4, CallBackKeeps
  <2>3. CASE ~Answer1(p).ok
    <3>1. CallBack(p, page[p], <<>>)
      BY <1>9, <2>3 DEF OnBus
    <3>. QED
      BY <1>1, <1>3, <1>4, <2>1, <3>1, CallBackKeeps
  <2>. QED
    BY <2>2, <2>3
<1>10. CASE OnConfig(p)
  <2>. DEFINE s == ShowMain(page[p], "config")
  <2>1. /\ answers[p] # <<>> /\ Answer1(p).kind = "config"
        /\ CallBack(p, s, <<>>) /\ UNCHANGED <<timer, applied>>
    BY <1>2, <1>10 DEF OnConfig
  <2>2. s \in Page /\ Fits(s) /\ s.bus = page[p].bus
    BY <1>1, ShowFits DEF View
  <2>. HIDE DEF s
  <2>. QED
    BY <1>1, <1>3, <1>4, <2>1, <2>2, CallBackKeeps
<1>11. CASE OnDtc(p)
  <2>. DEFINE t == ShowMain(page[p], "dtc")
              listed == IF Answer1(p).ok THEN Answer1(p).body ELSE None
              s == [t EXCEPT !.listed = listed]
  <2>1. /\ answers[p] # <<>> /\ Answer1(p).kind = "dtc"
        /\ CallBack(p, s, <<>>) /\ UNCHANGED <<timer, applied>>
        /\ listed \in Buses \cup {None}
    <3>1. answers[p] # <<>> /\ Answer1(p).kind = "dtc" /\ Answer1(p) \in Returned
      BY <1>2, <1>11 DEF OnDtc
    <3>2. listed \in Buses \cup {None}
      BY <3>1, BodiesTyped
    <3>. QED
      BY <1>11, <3>1, <3>2 DEF OnDtc
  <2>2. t \in Page /\ Fits(t) /\ t.bus = page[p].bus
    BY <1>1, ShowFits DEF View
  <2>. HIDE DEF t, listed
  <2>3. s \in Page /\ Fits(s) /\ s.bus = page[p].bus
    BY <2>1, <2>2 DEF Page, Fits
  <2>. HIDE DEF s
  <2>. QED
    BY <1>1, <1>3, <1>4, <2>1, <2>3, CallBackKeeps
<1>12. CASE OnClear(p)
  <2>. DEFINE s == ShowMain(page[p], "dtc")
  <2>1. /\ answers[p] # <<>> /\ Answer1(p).kind = "clear"
        /\ CallBack(p, s, <<Request("dtc", None)>>) /\ UNCHANGED <<timer, applied>>
    BY <1>2, <1>12 DEF OnClear
  <2>2. s \in Page /\ Fits(s) /\ s.bus = page[p].bus
    BY <1>1, ShowFits DEF View
  <2>. HIDE DEF s
  <2>3. Sends(<<Request("dtc", None)>>)
        /\ \A r : <<Request("dtc", None)>> = <<r>> => r.kind \notin {"data", "params"}
    BY RequestsTyped DEF Sends
  <2>. QED
    BY <1>1, <2>1, <2>2, <2>3, CallBackKeeps
<1>. QED
  BY <1>5, <1>6, <1>7, <1>8, <1>9, <1>10, <1>11, <1>12 DEF Listen

(* toggle *)
LEMMA ToggleFits ==
  ASSUME IInv, NEW p \in Pages, NEW k \in Keys, Toggle(p, k)
  PROVE  \E s \in Page :
           /\ Fits(s) /\ NoBright(s) /\ s.bus = page[p].bus /\ s.params = page[p].params
           /\ s.main = page[p].main /\ Click(p, s, <<Request("select", s.sel)>>)
           /\ saved' = [saved EXCEPT ![page[p].bus] = s.sel]
<1>. DEFINE on == IF k \in page[p].sel THEN page[p].sel \ {k} ELSE page[p].sel \cup {k}
            t  == [page[p] EXCEPT !.sel = on]
            s  == RenderCards(t)
<1>1. /\ k \in KeysOf(page[p].params) /\ Click(p, s, PushSel(on))
      /\ saved' = [saved EXCEPT ![page[p].bus] = on]
  BY DEF Toggle
<1>2. page[p] \in Page /\ Fits(page[p])
  BY DEF IInv, DashType, PageInv
<1>3. on \in SUBSET Keys /\ on \subseteq KeysOf(page[p].params)
  BY <1>1, <1>2 DEF Page, Fits
<1>. HIDE DEF on
<1>4. /\ t \in Page /\ t.sel = on /\ t.bus = page[p].bus /\ t.params = page[p].params
      /\ t.main = page[p].main /\ t.view = page[p].view /\ t.cards = page[p].cards
  BY <1>2, <1>3 DEF Page
<1>. HIDE DEF t
<1>5. /\ t.main = "live" => t.view = "live"
      /\ t.main # "live" => \A x \in Keys : t.cards[x] = "none"
  BY <1>2, <1>4 DEF Fits
<1>6. /\ s \in Page /\ Fits(s) /\ NoBright(s) /\ s.bus = page[p].bus
      /\ s.params = page[p].params /\ s.sel = on /\ s.main = page[p].main
  BY <1>3, <1>4, <1>5, RenderFits
<1>. HIDE DEF s
<1>. QED
  BY <1>1, <1>6 DEF PushSel

(* The configuration and codes tabs. *)
LEMMA TabFits ==
  ASSUME NEW s \in Page, Fits(s), NEW v \in {"config", "dtc"}
  PROVE  LET t == [ShowMain(s, v) EXCEPT !.view = v]
         IN  /\ t \in Page /\ Fits(t) /\ NoBright(t) /\ t.bus = s.bus /\ t.params = s.params
             /\ t.sel = s.sel /\ t.main = v
<1>. DEFINE w == ShowMain(s, v)
<1>1. /\ w \in Page /\ Fits(w) /\ NoBright(w) /\ w.bus = s.bus /\ w.params = s.params
      /\ w.sel = s.sel /\ w.main = v
  BY ShowFits DEF View
<1>. HIDE DEF w
<1>2. LET t == [w EXCEPT !.view = v]
      IN  /\ t \in Page /\ t.bus = s.bus /\ t.params = s.params /\ t.sel = s.sel /\ t.main = v
          /\ t.cards = w.cards
  BY <1>1 DEF Page, View
<1>3. LET t == [w EXCEPT !.view = v] IN Fits(t) /\ NoBright(t)
  BY <1>1, <1>2 DEF Fits, NoBright
<1>. QED
  BY <1>2, <1>3 DEF w

UserClick(p) ==
  \/ \E k \in Keys : Toggle(p, k)
  \/ \E b \in Buses : PickBus(p, b)
  \/ ClickLive(p) \/ ClickClear(p)
  \/ \E v \in {"config", "dtc"} : ClickTab(p, v)

LEMMA UserKeeps ==
  ASSUME IInv, NEW p \in Pages, UserClick(p)
  PROVE  IInv'
<1>1. /\ page[p] \in Page /\ Fits(page[p]) /\ saved \in [Buses -> SUBSET Keys]
      /\ page[p].sel \subseteq KeysOf(page[p].params)
  BY DEF IInv, DashType, PageInv, Fits
<1>2. ASSUME NEW k \in Keys, Toggle(p, k) PROVE IInv'
  <2>1. PICK s \in Page :
          /\ Fits(s) /\ s.bus = page[p].bus /\ Click(p, s, <<Request("select", s.sel)>>)
          /\ saved' = [saved EXCEPT ![page[p].bus] = s.sel]
    BY <1>2, ToggleFits
  <2>2. s.sel \in SUBSET Keys
    BY DEF Page
  <2>3. Sends(<<Request("select", s.sel)>>)
        /\ \A r : <<Request("select", s.sel)>> = <<r>> => r.kind \notin {"data", "params"}
    BY <2>2, RequestsTyped DEF Sends
  <2>4. saved' \in [Buses -> SUBSET Keys]
    BY <1>1, <2>1, <2>2
  <2>. QED
    BY <2>1, <2>3, <2>4, ClickKeeps
<1>3. ASSUME NEW b \in Buses, PickBus(p, b) PROVE IInv'
  <2>1. Click(p, page[p], <<Request("bus", b)>>) /\ saved' = saved
    BY <1>3 DEF PickBus
  <2>2. Sends(<<Request("bus", b)>>)
        /\ \A r : <<Request("bus", b)>> = <<r>> => r.kind \notin {"data", "params"}
    BY RequestsTyped DEF Sends
  <2>. QED
    BY <1>1, <2>1, <2>2, ClickKeeps
<1>4. CASE ClickLive(p)
  <2>. DEFINE s == ShowLive(page[p])
  <2>1. Click(p, s, <<>>) /\ saved' = saved
    BY <1>4 DEF ClickLive
  <2>2. s \in Page /\ Fits(s) /\ s.bus = page[p].bus
    BY <1>1, LiveFits
  <2>. HIDE DEF s
  <2>3. Sends(<<>>) /\ \A r : <<>> # <<r>>
    BY DEF Sends
  <2>. QED
    BY <1>1, <2>1, <2>2, <2>3, ClickKeeps
<1>5. CASE ClickClear(p)
  <2>. DEFINE s == ShowMain(page[p], "dtc")
  <2>1. Click(p, s, <<Request("clear", None)>>) /\ saved' = saved
    BY <1>5 DEF ClickClear
  <2>2. s \in Page /\ Fits(s) /\ s.bus = page[p].bus
    BY <1>1, ShowFits DEF View
  <2>. HIDE DEF s
  <2>3. Sends(<<Request("clear", None)>>)
        /\ \A r : <<Request("clear", None)>> = <<r>> => r.kind \notin {"data", "params"}
    BY RequestsTyped DEF Sends
  <2>. QED
    BY <1>1, <2>1, <2>2, <2>3, ClickKeeps
<1>6. ASSUME NEW v \in {"config", "dtc"}, ClickTab(p, v) PROVE IInv'
  <2>. DEFINE s == [ShowMain(page[p], v) EXCEPT !.view = v]
  <2>1. Click(p, s, <<Request(v, None)>>) /\ saved' = saved
    BY <1>6 DEF ClickTab
  <2>2. s \in Page /\ Fits(s) /\ s.bus = page[p].bus
    BY <1>1, TabFits
  <2>. HIDE DEF s
  <2>3. Sends(<<Request(v, None)>>)
        /\ \A r : <<Request(v, None)>> = <<r>> => r.kind \notin {"data", "params"}
    BY RequestsTyped DEF Sends
  <2>. QED
    BY <1>1, <2>1, <2>2, <2>3, ClickKeeps
<1>. QED
  BY <1>2, <1>3, <1>4, <1>5, <1>6 DEF UserClick

-----------------------------------------------------------------------------
LEMMA InitHolds == Init => IInv
<1>. SUFFICES ASSUME Init PROVE IInv
  OBVIOUS
<1>. DEFINE s == [bus |-> None, params |-> None, sel |-> {}, view |-> "live", main |-> None,
                  listed |-> None, cards |-> NoCards, last |-> {}]
<1>1. /\ SessionInit /\ selection = {} /\ saved \in [Buses -> SUBSET Keys]
      /\ page = [p \in Pages |-> s]
      /\ requests = [p \in Pages |-> <<Request("meta", None)>>]
      /\ answers = [p \in Pages |-> <<>>] /\ timer = [p \in Pages |-> TRUE]
      /\ applied = [p \in Pages |-> {}] /\ astray = FALSE /\ clicks = 0 /\ lost = 0
  BY DEF Init
<1>2. SessionTypeOK
  BY <1>1 DEF SessionInit, SessionTypeOK, Answer
<1>3. s \in Page /\ Fits(s)
  <2>1. s \in Page
    BY FreshCards DEF Page, View
  <2>2. Fits(s)
    BY FreshCards DEF Fits
  <2>. QED
    BY <2>1, <2>2
<1>. HIDE DEF s
<1>4. <<Request("meta", None)>> \in Seq(Asks) /\ <<>> \in Seq(Returned)
  <2>1. Request("meta", None) \in Asks
    BY RequestsTyped
  <2>. QED
    BY <2>1, EmptySeq
<1>5. requests \in [Pages -> Seq(Asks)] /\ answers \in [Pages -> Seq(Returned)]
  BY <1>1, <1>4
<1>6. 0 \in 0 .. MaxClicks /\ 0 \in 0 .. MaxLost
  BY DashboardAssumption
<1>7. DashType
  BY <1>1, <1>2, <1>3, <1>5, <1>6 DEF DashType
<1>8. ASSUME NEW p \in Pages PROVE PageInv(p)
  <2>1. requests[p] = <<Request("meta", None)>> /\ answers[p] = <<>> /\ timer[p] /\ page[p] = s
    <3>1. timer[p]
      BY <1>1, Zenon
    <3>. QED
      BY <1>1, <3>1
  <2>2. \A i \in DOMAIN requests[p] : requests[p][i].kind = "meta"
    <3>1. Request("meta", None).kind = "meta"
      BY RequestsTyped
    <3>2. \A i \in DOMAIN requests[p] : requests[p][i] = Request("meta", None)
      BY <2>1
    <3>. QED
      BY <3>1, <3>2
  <2>3. \A kind : kind # "meta" => ~Has(requests[p], kind)
    BY <2>2 DEF Has
  <2>4. \A kind : ~Has(answers[p], kind)
    BY <2>1 DEF Has
  <2>. QED
    BY <1>3, <2>1, <2>3, <2>4 DEF PageInv, LoadInv, PollInv
<1>. QED
  BY <1>7, <1>8 DEF IInv

LEMMA StepKeeps ==
  ASSUME IInv, [Next]_vars
  PROVE  IInv'
<1>1. ASSUME NEW p \in Pages,
             \/ Serve(p) \/ LoseRequest(p) \/ LoseAnswer(p) \/ Listen(p) \/ PollTick(p)
             \/ UserClick(p)
      PROVE  IInv'
  BY <1>1, ServeKeeps, LoseAnswerKeeps, ListenKeeps, TickKeeps, UserKeeps
<1>2. CASE UNCHANGED vars
  BY <1>2 DEF vars, server, session, IInv, DashType, SessionTypeOK, PageInv, LoadInv, PollInv
<1>. QED
  BY <1>1, <1>2 DEF Next, UserClick

THEOREM DashboardInvariance == Spec => []IInv
BY InitHolds, StepKeeps, PTL DEF Spec

(* Pages, requests, answers and the session keep their types. *)
THEOREM DashboardTypeCorrect == Spec => []TypeOK
<1>1. IInv => TypeOK
  <2>. SUFFICES ASSUME IInv PROVE TypeOK
    OBVIOUS
  <2>1. DashType
    BY DEF IInv
  <2>2. \A p \in Pages : \A i \in DOMAIN requests[p] : requests[p][i] \in Asks
    BY <2>1 DEF DashType
  <2>3. \A p \in Pages : \A i \in DOMAIN answers[p] : answers[p][i] \in Returned
    BY <2>1 DEF DashType
  <2>. QED
    BY <2>1, <2>2, <2>3 DEF DashType, TypeOK, Asks, Returned
<1>. QED
  BY <1>1, DashboardInvariance, PTL

(* A page has one poll scheduled, sent or answered, whatever is lost and however *)
(* often its user clicks.                                                    *)
THEOREM PollsNeverQueueUp == Spec => []OnePoll
<1>1. IInv => OnePoll
  <2>. SUFFICES ASSUME IInv, NEW p \in Pages
                PROVE  LET sent == {i \in DOMAIN requests[p] : requests[p][i].kind = "data"}
                           back == {i \in DOMAIN answers[p] : answers[p][i].kind = "data"}
                       IN  Cardinality(sent) + Cardinality(back) = IF timer[p] THEN 0 ELSE 1
    BY DEF OnePoll
  <2>. DEFINE sent == {i \in DOMAIN requests[p] : requests[p][i].kind = "data"}
              back == {i \in DOMAIN answers[p] : answers[p][i].kind = "data"}
  <2>1. /\ ~Has(requests[p], "data") => sent = {}
        /\ ~Has(answers[p], "data") => back = {}
    BY DEF Has
  <2>2. One(requests[p], "data") => \E i : sent = {i}
    BY DEF One
  <2>3. One(answers[p], "data") => \E i : back = {i}
    BY DEF One
  <2>4. PollInv(p)
    BY DEF IInv, PageInv
  <2>5. Cardinality({}) = 0 /\ \A i : Cardinality({i}) = 1
    BY FS_EmptySet, FS_Singleton
  <2>. HIDE DEF sent, back
  <2>6. Cardinality(sent) + Cardinality(back) = IF timer[p] THEN 0 ELSE 1
    <3>1. CASE timer[p]
      <4>1. sent = {} /\ back = {}
        BY <2>1, <2>4, <3>1 DEF PollInv
      <4>. QED
        BY <2>5, <3>1, <4>1
    <3>2. CASE ~timer[p] /\ One(requests[p], "data") /\ ~Has(answers[p], "data")
      <4>1. Cardinality(sent) = 1 /\ Cardinality(back) = 0
        BY <2>1, <2>2, <2>5, <3>2
      <4>. QED
        BY <3>2, <4>1
    <3>3. CASE ~timer[p] /\ ~Has(requests[p], "data") /\ One(answers[p], "data")
      <4>1. Cardinality(sent) = 0 /\ Cardinality(back) = 1
        BY <2>1, <2>3, <2>5, <3>3
      <4>. QED
        BY <3>3, <4>1
    <3>. QED
      BY <2>4, <3>1, <3>2, <3>3 DEF PollInv
  <2>. QED
    BY <2>6 DEF sent, back
<1>. QED
  BY <1>1, DashboardInvariance, PTL

-----------------------------------------------------------------------------
(* A page that is alone, and no message lost *)

LEMMA OkAppend ==
  ASSUME NEW q \in Seq(Returned), NEW a \in Returned
  PROVE  OkBus(Append(q, a)) <=> OkBus(q) \/ (a.kind = "bus" /\ a.body.ok)
<1>1. /\ DOMAIN Append(q, a) = DOMAIN q \cup {Len(q) + 1}
      /\ \A i \in DOMAIN q : Append(q, a)[i] = q[i]
      /\ Append(q, a)[Len(q) + 1] = a
  BY AppendFacts
<1>. QED
  BY <1>1 DEF OkBus

LEMMA OkTail ==
  ASSUME NEW q \in Seq(Returned), q # <<>>
  PROVE  OkBus(q) <=> OkBus(Tail(q)) \/ (Head(q).kind = "bus" /\ Head(q).body.ok)
<1>. DEFINE w == Tail(q)
<1>1. /\ Head(q) = q[1] /\ 1 \in DOMAIN q
      /\ \A i \in DOMAIN w : i + 1 \in DOMAIN q /\ w[i] = q[i + 1]
      /\ \A i \in DOMAIN q : i # 1 => i - 1 \in DOMAIN w /\ w[i - 1] = q[i]
  BY TailFacts
<1>. HIDE DEF w
<1>2. ASSUME OkBus(q) PROVE OkBus(w) \/ (Head(q).kind = "bus" /\ Head(q).body.ok)
  <2>1. PICK i \in DOMAIN q : q[i].kind = "bus" /\ q[i].body.ok
    BY <1>2 DEF OkBus
  <2>2. i = 1 \/ (i - 1 \in DOMAIN w /\ w[i - 1] = q[i])
    BY <1>1
  <2>. QED
    BY <1>1, <2>1, <2>2 DEF OkBus
<1>3. ASSUME OkBus(w) \/ (Head(q).kind = "bus" /\ Head(q).body.ok) PROVE OkBus(q)
  BY <1>1, <1>3 DEF OkBus
<1>. QED
  BY <1>2, <1>3 DEF w

LEMMA BehindAppend ==
  ASSUME NEW q \in Seq(Asks), NEW r \in Asks, r.kind # "select", NoSelectBehindPoll(q)
  PROVE  NoSelectBehindPoll(Append(q, r))
<1>. DEFINE w == Append(q, r)
<1>1. /\ DOMAIN w = DOMAIN q \cup {Len(q) + 1} /\ w[Len(q) + 1] = r
      /\ \A i \in DOMAIN q : i <= Len(q) /\ i \in Nat /\ w[i] = q[i]
      /\ Len(q) \in Nat
  BY AppendFacts
<1>. HIDE DEF w
<1>2. ASSUME NEW i \in DOMAIN w, NEW j \in DOMAIN w, i < j, w[j].kind = "select"
      PROVE  w[i].kind # "data"
  <2>1. j \in DOMAIN q
    BY <1>1, <1>2
  <2>2. i \in DOMAIN q
    BY <1>1, <1>2, <2>1
  <2>. QED
    BY <1>1, <1>2, <2>1, <2>2 DEF NoSelectBehindPoll
<1>. QED
  BY <1>2 DEF NoSelectBehindPoll, w

LEMMA BehindTail ==
  ASSUME NEW q \in Seq(Asks), q # <<>>, NoSelectBehindPoll(q)
  PROVE  /\ NoSelectBehindPoll(Tail(q))
         /\ Head(q).kind = "data" => ~Has(q, "select")
<1>. DEFINE w == Tail(q)
<1>1. /\ Head(q) = q[1] /\ 1 \in DOMAIN q
      /\ \A i \in DOMAIN w : i \in Nat /\ i + 1 \in DOMAIN q /\ w[i] = q[i + 1]
      /\ \A i \in DOMAIN q : i \in Nat /\ i >= 1
  BY TailFacts
<1>. HIDE DEF w
<1>2. ASSUME NEW i \in DOMAIN w, NEW j \in DOMAIN w, i < j
      PROVE  ~(w[i].kind = "data" /\ w[j].kind = "select")
  <2>1. i + 1 < j + 1
    BY <1>1, <1>2
  <2>. QED
    BY <1>1, <2>1 DEF NoSelectBehindPoll
<1>3. ASSUME Head(q).kind = "data", NEW j \in DOMAIN q, q[j].kind = "select" PROVE FALSE
  <2>1. j # 1
    BY <1>1, <1>3
  <2>2. 1 < j
    BY <1>1, <2>1
  <2>. QED
    BY <1>1, <1>3, <2>2 DEF NoSelectBehindPoll
<1>. QED
  BY <1>2, <1>3 DEF NoSelectBehindPoll, Has, w

LEMMA LastHas ==
  ASSUME NEW q, NEW kind, NEW v
  PROVE  /\ LastArg(q, kind, v) => Has(q, kind)
         /\ LastBody(q, kind, v) => Has(q, kind)
BY DEF LastArg, LastBody, Has

(* What an answer changes of what is under way. *)
ReplyEffect(p, kind, body, a) ==
  /\ a.kind = kind /\ a.body = body /\ a.ok
  /\ requests'[p] = Tail(requests[p])
  /\ UNCHANGED <<page, applied>>
  /\ \A x : /\ Has(requests[p], x) <=> Has(requests'[p], x) \/ x = kind
            /\ Has(answers'[p], x) <=> Has(answers[p], x) \/ x = kind
  /\ OkBus(answers'[p]) <=> OkBus(answers[p]) \/ (kind = "bus" /\ body.ok)
  /\ \A x, v : x # kind /\ LastBody(answers[p], x, v) => LastBody(answers'[p], x, v)
  /\ LastBody(answers'[p], kind, body)
  /\ \A v : LastArg(requests[p], "select", v) =>
       \/ LastArg(requests'[p], "select", v)
       \/ ~Has(requests'[p], "select") /\ kind = "select" /\ Head(requests[p]).arg = v
  /\ \A i \in DOMAIN answers'[p] :
       (i \in DOMAIN answers[p] /\ answers'[p][i] = answers[p][i]) \/ answers'[p][i] = a

LEMMA ReplyFacts ==
  ASSUME IInv, NEW p \in Pages, requests[p] # <<>>,
         NEW body \in {None} \cup Buses \cup Answer \cup Rows,
         NEW kind, kind = Head(requests[p]).kind, NEW a, a = Made(p, TRUE, body),
         body \in Body(kind), Reply(p, TRUE, body)
  PROVE  ReplyEffect(p, kind, body, a)
<1>1. /\ a \in Returned /\ a.kind = kind /\ a.body = body /\ a.ok
      /\ requests'[p] = Tail(requests[p]) /\ answers'[p] = Append(answers[p], a)
      /\ UNCHANGED <<page, applied>>
  <2>1. body \in Body(Head(requests[p]).kind)
    OBVIOUS
  <2>. QED
    BY <2>1, ReplyMoves
<1>2. requests[p] \in Seq(Asks) /\ answers[p] \in Seq(Returned)
  BY DEF IInv, DashType
<1>3. ASSUME NEW x
      PROVE  /\ Has(requests[p], x) <=> Has(requests'[p], x) \/ x = kind
             /\ Has(answers'[p], x) <=> Has(answers[p], x) \/ x = kind
  <2>1. Has(requests[p], x) <=> Has(Tail(requests[p]), x) \/ Head(requests[p]).kind = x
    BY <1>2, HasTail
  <2>2. Has(Append(answers[p], a), x) <=> Has(answers[p], x) \/ a.kind = x
    BY <1>1, <1>2, HasAppend
  <2>. QED
    BY <1>1, <2>1, <2>2
<1>4. OkBus(answers'[p]) <=> OkBus(answers[p]) \/ (kind = "bus" /\ body.ok)
  BY <1>1, <1>2, OkAppend
<1>5. \A x, v : x # kind /\ LastBody(answers[p], x, v) => LastBody(answers'[p], x, v)
  BY <1>1, <1>2, LastAppend
<1>6. LastBody(answers'[p], kind, body)
  BY <1>1, <1>2, LastAppend
<1>7. \A v : LastArg(requests[p], "select", v) =>
        \/ LastArg(requests'[p], "select", v)
        \/ ~Has(requests'[p], "select") /\ kind = "select" /\ Head(requests[p]).arg = v
  BY <1>1, <1>2, LastTail
<1>8. \A i \in DOMAIN answers'[p] :
        (i \in DOMAIN answers[p] /\ answers'[p][i] = answers[p][i]) \/ answers'[p][i] = a
  <2>1. \A i \in DOMAIN Append(answers[p], a) :
          \/ i \in DOMAIN answers[p] /\ Append(answers[p], a)[i] = answers[p][i]
          \/ Append(answers[p], a)[i] = a
    <3>1. answers[p] \in Seq(Returned) /\ a \in Returned
      BY <1>1, <1>2
    <3>. QED
      BY <3>1, AppendCases
  <2>. QED
    BY <1>1, <2>1
<1>. QED
  BY <1>1, <1>3, <1>4, <1>5, <1>6, <1>7, <1>8 DEF ReplyEffect

(* Before the answer to /meta the only request is /meta. *)
LEMMA StartAsks ==
  ASSUME NEW p \in Pages, StartInv(p), page[p].bus = None, requests[p] # <<>>
  PROVE  Head(requests[p]) = Request("meta", None) /\ requests[p] = <<Request("meta", None)>>
BY DEF StartInv

(* What the server does with a request, and answers. *)
Served(p, kind, body) ==
  /\ kind = Head(requests[p]).kind
  /\ body \in {None} \cup Buses \cup Answer \cup Rows /\ body \in Body(kind)
  /\ Reply(p, TRUE, body)
  /\ kind = "params" => body = bus
  /\ kind = "data" => DOMAIN body = selection
  /\ IF kind = "bus" THEN body = told' ELSE told' = told
  /\ IF kind = "select" THEN selection' = Head(requests[p]).arg
     ELSE selection' = selection \/ (kind = "bus" /\ body.ok)
  /\ ~astray' => /\ told'.bus = bus'
                 /\ (kind = "bus" /\ body.ok) \/ (~astray /\ bus' = bus)

(* An answer keeps what is said of the messages, if the server did as asked. *)
LEMMA ReplySolo ==
  ASSUME IInv, NEW p \in Pages, SoloCore(p), page[p].bus # None, requests[p] # <<>>,
         NEW kind, NEW body, Served(p, kind, body)
  PROVE  SoloCore(p)'
<1>. DEFINE a == Made(p, TRUE, body)
<1>0. a = Made(p, TRUE, body)
  OBVIOUS
<1>. HIDE DEF a
<1>1. /\ a.kind = kind /\ a.body = body /\ a.ok
      /\ requests'[p] = Tail(requests[p])
      /\ UNCHANGED <<page, applied>>
      /\ \A x : /\ Has(requests[p], x) <=> Has(requests'[p], x) \/ x = kind
                /\ Has(answers'[p], x) <=> Has(answers[p], x) \/ x = kind
      /\ OkBus(answers'[p]) <=> OkBus(answers[p]) \/ (kind = "bus" /\ body.ok)
      /\ \A x, v : x # kind /\ LastBody(answers[p], x, v) => LastBody(answers'[p], x, v)
      /\ LastBody(answers'[p], kind, body)
      /\ \A v : LastArg(requests[p], "select", v) =>
           \/ LastArg(requests'[p], "select", v)
           \/ ~Has(requests'[p], "select") /\ kind = "select" /\ Head(requests[p]).arg = v
      /\ \A i \in DOMAIN answers'[p] :
           (i \in DOMAIN answers[p] /\ answers'[p][i] = answers[p][i]) \/ answers'[p][i] = a
  <2>1. /\ kind = Head(requests[p]).kind /\ Reply(p, TRUE, body) /\ body \in Body(kind)
        /\ body \in {None} \cup Buses \cup Answer \cup Rows
    BY DEF Served
  <2>2. ReplyEffect(p, kind, body, a)
    BY <1>0, <2>1, ReplyFacts
  <2>. QED
    BY <2>2 DEF ReplyEffect
<1>2. requests[p] \in Seq(Asks) /\ page'[p] = page[p] /\ applied'[p] = applied[p]
  BY <1>1 DEF IInv, DashType
<1>3. \A i \in DOMAIN answers'[p] : answers'[p][i].ok
  BY <1>1 DEF SoloCore
<1>4. StartInv(p)'
  <2>1. ~Has(requests'[p], "meta") /\ ~Has(answers'[p], "meta")
    BY <1>1 DEF SoloCore, StartInv
  <2>. QED
    BY <1>2, <2>1 DEF StartInv
<1>5. Reloading(p) => Reloading(p)'
  BY <1>1 DEF Reloading
<1>6. BusInv(p)'
  <2>1. IF Has(answers'[p], "bus") THEN LastBody(answers'[p], "bus", told')
        ELSE page[p].bus = told'.bus
    <3>1. CASE kind = "bus"
      BY <1>1, <3>1 DEF Served
    <3>2. CASE kind # "bus"
      BY <1>1, <3>2 DEF SoloCore, BusInv, Served
    <3>. QED
      BY <3>1, <3>2
  <2>. QED
    BY <1>2, <2>1 DEF BusInv, Served
<1>7. ParamsInv(p)'
  <2>. SUFFICES ASSUME ~astray'
                PROVE  \/ OkBus(answers'[p]) \/ Has(requests'[p], "params")
                       \/ LastBody(answers'[p], "params", bus')
                       \/ ~Has(answers'[p], "params") /\ page[p].params = bus'
    BY <1>2 DEF ParamsInv
  <2>1. CASE kind = "bus" /\ body.ok
    BY <1>1, <2>1
  <2>2. CASE kind = "params"
    <3>1. body = bus /\ bus' = bus
      BY <2>2 DEF Served
    <3>. QED
      BY <1>1, <2>2, <3>1
  <2>3. CASE ~(kind = "bus" /\ body.ok) /\ kind # "params"
    <3>1. ~astray /\ bus' = bus
      BY <2>3 DEF Served
    <3>2. \/ OkBus(answers[p]) \/ Has(requests[p], "params")
          \/ LastBody(answers[p], "params", bus)
          \/ ~Has(answers[p], "params") /\ page[p].params = bus
      BY <3>1 DEF SoloCore, ParamsInv
    <3>. QED
      BY <1>1, <2>3, <3>1, <3>2
  <2>. QED
    BY <2>1, <2>2, <2>3
<1>8. SelInv(p)'
  <2>1. CASE Has(requests'[p], "select")
    <3>1. LastArg(requests[p], "select", page[p].sel)
      BY <1>1, <2>1 DEF SoloCore, SelInv
    <3>2. LastArg(requests'[p], "select", page[p].sel)
      BY <1>1, <2>1, <3>1
    <3>. QED
      BY <1>2, <2>1, <3>2 DEF SelInv
  <2>2. CASE ~Has(requests'[p], "select") /\ kind = "select"
    <3>1. LastArg(requests[p], "select", page[p].sel)
      BY <1>1, <2>2 DEF SoloCore, SelInv
    <3>2. selection' = page[p].sel
      <4>1. ~LastArg(requests'[p], "select", page[p].sel)
        BY <2>2, LastHas
      <4>2. selection' = Head(requests[p]).arg
        BY <2>2 DEF Served
      <4>. QED
        BY <1>1, <2>2, <3>1, <4>1, <4>2
    <3>. QED
      BY <1>2, <2>2, <3>2 DEF SelInv
  <2>3. CASE ~Has(requests'[p], "select") /\ kind # "select"
    <3>1. Reloading(p) \/ selection = page[p].sel
      BY <1>1, <2>3 DEF SoloCore, SelInv
    <3>2. Reloading(p)' \/ selection' = page[p].sel
      <4>1. CASE kind = "bus" /\ body.ok
        BY <1>1, <4>1 DEF Reloading
      <4>2. CASE selection' = selection
        BY <1>5, <3>1, <4>2
      <4>. QED
        BY <2>3, <4>1, <4>2 DEF Served
    <3>. QED
      BY <1>2, <2>3, <3>2 DEF SelInv
  <2>. QED
    BY <2>1, <2>2, <2>3
<1>9. BrightInv(p)'
  <2>. SUFFICES ASSUME NEW k \in Keys, page[p].cards[k] = "bright"
                PROVE  /\ NoSelectBehindPoll(requests'[p])
                       /\ k \in applied[p] \/ Reloading(p)'
                       /\ \A i \in DOMAIN answers'[p] : answers'[p][i].kind = "data" =>
                            k \in DOMAIN answers'[p][i].body \/ Reloading(p)'
    BY <1>2 DEF BrightInv
  <2>1. /\ NoSelectBehindPoll(requests[p])
        /\ k \in applied[p] \/ Reloading(p)
        /\ \A i \in DOMAIN answers[p] :
             answers[p][i].kind = "data" => k \in DOMAIN answers[p][i].body \/ Reloading(p)
    BY DEF SoloCore, BrightInv
  <2>2. /\ NoSelectBehindPoll(requests'[p])
        /\ kind = "data" => ~Has(requests[p], "select")
    <3>1. requests'[p] = Tail(requests[p])
      BY <1>1
    <3>2. /\ NoSelectBehindPoll(Tail(requests[p]))
          /\ Head(requests[p]).kind = "data" => ~Has(requests[p], "select")
      <4>1. requests[p] \in Seq(Asks) /\ NoSelectBehindPoll(requests[p])
        BY <1>2, <2>1
      <4>. QED
        BY <4>1, BehindTail
    <3>. QED
      BY <3>1, <3>2 DEF Served
  <2>3. kind = "data" => k \in DOMAIN a.body \/ Reloading(p)'
    <3>. SUFFICES ASSUME kind = "data" PROVE k \in selection \/ Reloading(p)'
      BY <1>1 DEF Served
    <3>1. Reloading(p) \/ selection = page[p].sel
      BY <2>2 DEF SoloCore, SelInv
    <3>2. k \in page[p].sel
      BY DEF IInv, PageInv, Fits
    <3>. QED
      BY <1>5, <3>1, <3>2
  <2>4. ASSUME NEW i \in DOMAIN answers'[p], answers'[p][i].kind = "data"
        PROVE  k \in DOMAIN answers'[p][i].body \/ Reloading(p)'
    <3>1. CASE i \in DOMAIN answers[p] /\ answers'[p][i] = answers[p][i]
      BY <1>5, <2>1, <2>4, <3>1
    <3>2. CASE answers'[p][i] = a
      BY <1>1, <2>3, <2>4, <3>2
    <3>. QED
      BY <1>1, <3>1, <3>2
  <2>. QED
    BY <1>5, <2>1, <2>2, <2>4
<1>. QED
  BY <1>3, <1>4, <1>6, <1>7, <1>8, <1>9 DEF SoloCore

(* The answer to /meta is the first. *)
LEMMA MetaSolo ==
  ASSUME IInv, NEW p \in Pages, SoloCore(p), page[p].bus = None, ServeState(p)
  PROVE  SoloCore(p)'
<1>1. /\ requests[p] # <<>> /\ Reply(p, TRUE, bus)
      /\ UNCHANGED <<bus, up, told, selection, astray, lost>>
  BY DEF ServeState, Asked, Handled, server, session
<1>2. /\ requests[p] = <<Request("meta", None)>> /\ answers[p] = <<>>
      /\ page[p].sel = {} /\ selection = {} /\ page[p].main = None /\ told.bus = bus /\ ~astray
  BY <1>1 DEF SoloCore, StartInv
<1>. DEFINE a == Made(p, TRUE, bus)
<1>3. Head(requests[p]).kind = "meta"
  BY <1>2 DEF Request
<1>4. /\ bus \in {None} \cup Buses \cup Answer \cup Rows
      /\ bus \in Body(Head(requests[p]).kind)
  BY <1>3 DEF IInv, DashType, SessionTypeOK, Body
<1>5. /\ a.kind = "meta" /\ a.ok /\ a.body = bus
      /\ requests'[p] = Tail(requests[p]) /\ answers'[p] = Append(answers[p], a)
      /\ UNCHANGED <<page, applied>>
  <2>1. /\ Made(p, TRUE, bus).kind = Head(requests[p]).kind
        /\ Made(p, TRUE, bus).ok = TRUE /\ Made(p, TRUE, bus).body = bus
        /\ requests'[p] = Tail(requests[p])
        /\ answers'[p] = Append(answers[p], Made(p, TRUE, bus))
        /\ UNCHANGED <<page, applied>>
    BY <1>1, <1>4, ReplyMoves
  <2>. QED
    BY <1>3, <2>1
<1>. HIDE DEF a
<1>6. requests'[p] = <<>> /\ answers'[p] = <<a>>
  BY <1>2, <1>5
<1>7. /\ Len(answers'[p]) = 1 /\ answers'[p][1] = a /\ DOMAIN answers'[p] = {1}
      /\ \A kind : ~Has(requests'[p], kind)
  BY <1>6 DEF Has
<1>8. StartInv(p)'
  BY <1>1, <1>2, <1>5, <1>6, <1>7 DEF StartInv
<1>9. BusInv(p)' /\ ParamsInv(p)'
  BY <1>1, <1>2, <1>5 DEF BusInv, ParamsInv
<1>10. SelInv(p)'
  BY <1>1, <1>2, <1>5, <1>7 DEF SelInv
<1>11. BrightInv(p)'
  <2>1. \A k \in Keys : page[p].cards[k] = "none"
    BY <1>2 DEF IInv, PageInv, Fits
  <2>. QED
    BY <1>5, <2>1 DEF BrightInv
<1>. QED
  BY <1>5, <1>7, <1>8, <1>9, <1>10, <1>11 DEF SoloCore

LEMMA ServeSolo ==
  ASSUME IInv, NEW p \in Pages, SoloCore(p), Serve(p)
  PROVE  SoloCore(p)'
<1>1. /\ bus \in Buses /\ up \in BOOLEAN /\ told \in Answer /\ selection \in SUBSET Keys
      /\ SessionTypeOK
      /\ ~astray => told.bus = bus
  BY DEF IInv, DashType, SessionTypeOK, SoloCore, BusInv
<1>2. \A kind : Asked(p, kind) => requests[p] # <<>> /\ Head(requests[p]).kind = kind
  BY DEF Asked
<1>. SUFFICES ASSUME ~(page[p].bus = None /\ ServeState(p))
              PROVE  \E kind, body : page[p].bus # None /\ requests[p] # <<>> /\ Served(p, kind, body)
  BY MetaSolo, ReplySolo
<1>3. requests[p] # <<>>
  BY <1>2 DEF Serve, ServeState, ServeData, ServeSelect, ServeBus, ServeConfig, ServeDtc, ServeClear
<1>4. page[p].bus # None
  <2>. SUFFICES ASSUME page[p].bus = None PROVE FALSE
    OBVIOUS
  <2>1. Head(requests[p]).kind = "meta"
    BY <1>3 DEF SoloCore, StartInv, Request
  <2>. QED
    BY <2>1 DEF Serve, ServeState, ServeData, ServeSelect, ServeBus, ServeConfig, ServeDtc,
                ServeClear, Asked
<1>5. CASE ServeState(p)
  <2>. DEFINE kind == Head(requests[p]).kind
  <2>1. /\ kind \in {"meta", "params"} /\ Reply(p, TRUE, bus)
        /\ UNCHANGED <<bus, up, told, selection, astray>>
    BY <1>2, <1>5 DEF ServeState, Handled, server, session
  <2>2. bus \in Body(kind)
    BY <1>1, <2>1 DEF Body
  <2>3. Served(p, kind, bus)
    BY <1>1, <2>1, <2>2 DEF Served
  <2>. QED
    BY <1>3, <1>4, <2>3
<1>6. CASE ServeData(p)
  <2>1. PICK rows \in [selection -> IF up THEN {"new", "old", "miss"} ELSE {"miss"}] :
          Handled(p, rows)
    BY <1>6 DEF ServeData
  <2>2. rows \in Rows /\ DOMAIN rows = selection
    <3>1. rows \in [selection -> {"new", "old", "miss"}]
      BY <1>1, <2>1
    <3>. QED
      BY <1>1, <3>1 DEF Rows
  <2>3. /\ Head(requests[p]).kind = "data" /\ Reply(p, TRUE, rows)
        /\ UNCHANGED <<bus, up, told, selection, astray>>
    BY <1>2, <1>6, <2>1 DEF ServeData, Handled, server, session
  <2>4. rows \in Body("data")
    BY <2>2 DEF Body
  <2>5. Served(p, "data", rows)
    BY <1>1, <2>2, <2>3, <2>4 DEF Served
  <2>. QED
    BY <1>3, <1>4, <2>5
<1>7. CASE ServeSelect(p)
  <2>1. /\ Head(requests[p]).kind = "select" /\ Reply(p, TRUE, None)
        /\ selection' = Head(requests[p]).arg
        /\ UNCHANGED <<bus, up, told, astray>>
    BY <1>2, <1>7 DEF ServeSelect, Handled, session
  <2>2. None \in Body("select")
    BY DEF Body
  <2>3. Served(p, "select", None)
    BY <1>1, <2>1, <2>2 DEF Served
  <2>. QED
    BY <1>3, <1>4, <2>3
<1>8. CASE ServeBus(p)
  <2>1. /\ Head(requests[p]).kind = "bus" /\ Reply(p, TRUE, told')
        /\ \/ Switched(Head(requests[p]).arg) /\ selection' = {} /\ astray' = FALSE
           \/ SwitchRefused /\ UNCHANGED <<selection, astray>>
    BY <1>2, <1>8 DEF ServeBus, Handled
  <2>2. CASE Switched(Head(requests[p]).arg) /\ selection' = {} /\ astray' = FALSE
    <3>1. told' \in Answer /\ told'.ok /\ told'.bus = bus'
      BY <2>2 DEF Switched, Answer
    <3>2. told' \in Body("bus")
      BY <3>1 DEF Body
    <3>3. Served(p, "bus", told')
      BY <2>1, <3>1, <3>2 DEF Served
    <3>. QED
      BY <1>3, <1>4, <3>3
  <2>3. CASE SwitchRefused /\ UNCHANGED <<selection, astray>>
    <3>1. told' \in Answer /\ told'.bus = bus' /\ bus' = bus
      BY <1>1, <2>3 DEF SwitchRefused, Answer
    <3>2. told' \in Body("bus")
      BY <3>1 DEF Body
    <3>3. Served(p, "bus", told')
      BY <2>1, <2>3, <3>1, <3>2 DEF Served
    <3>. QED
      BY <1>3, <1>4, <3>3
  <2>. QED
    BY <2>1, <2>2, <2>3
<1>9. CASE ServeConfig(p)
  <2>1. /\ Head(requests[p]).kind = "config" /\ Reply(p, TRUE, None) /\ selection' = selection
        /\ \/ UNCHANGED <<bus, up, told, astray>>
           \/ ConfigRefused /\ UNCHANGED astray
           \/ ConfigStranded /\ astray' = TRUE
    BY <1>2, <1>9 DEF ServeConfig, Handled, session
  <2>2. told' = told /\ (~astray' => ~astray /\ bus' = bus)
    BY <2>1 DEF ConfigRefused, ConfigStranded
  <2>3. None \in Body("config")
    BY DEF Body
  <2>4. Served(p, "config", None)
    BY <1>1, <2>1, <2>2, <2>3 DEF Served
  <2>. QED
    BY <1>3, <1>4, <2>4
<1>10. CASE ServeDtc(p) \/ ServeClear(p)
  <2>1. PICK kind \in {"dtc", "clear"}, body \in Buses \cup {None} :
          /\ Head(requests[p]).kind = kind /\ Reply(p, TRUE, body) /\ body \in Body(kind)
          /\ UNCHANGED <<bus, up, told, selection, astray>>
    <3>1. CASE ServeDtc(p)
      <4>1. /\ Head(requests[p]).kind = "dtc" /\ UNCHANGED <<bus, up, told, selection, astray>>
            /\ Reply(p, TRUE, None) \/ Reply(p, TRUE, bus)
        BY <1>2, <3>1 DEF ServeDtc, Handled, server, session
      <4>2. None \in Body("dtc") /\ bus \in Body("dtc")
        BY <1>1 DEF Body
      <4>. QED
        BY <1>1, <4>1, <4>2
    <3>2. CASE ServeClear(p)
      <4>1. /\ Head(requests[p]).kind = "clear" /\ UNCHANGED <<bus, up, told, selection, astray>>
            /\ Reply(p, TRUE, None)
        BY <1>2, <3>2 DEF ServeClear, Handled, server, session
      <4>2. None \in Body("clear")
        BY DEF Body
      <4>. QED
        BY <4>1, <4>2
    <3>. QED
      BY <1>10, <3>1, <3>2
  <2>2. Served(p, kind, body)
    BY <1>1, <2>1 DEF Served
  <2>. QED
    BY <1>3, <1>4, <2>2
<1>. QED
  BY <1>5, <1>6, <1>7, <1>8, <1>9, <1>10 DEF Serve

(* What a page sends adds to what is under way. *)
Adds(more, kind) == \E r \in Asks : more = <<r>> /\ r.kind = kind

SentEffect(p, more) ==
  /\ \A x : Has(requests'[p], x) <=> Has(requests[p], x) \/ Adds(more, x)
  /\ \A r \in Asks : more = <<r>> /\ r.kind = "select" => LastArg(requests'[p], "select", r.arg)
  /\ ~Adds(more, "select") =>
       /\ \A v : LastArg(requests[p], "select", v) => LastArg(requests'[p], "select", v)
       /\ NoSelectBehindPoll(requests[p]) => NoSelectBehindPoll(requests'[p])

LEMMA SentFacts ==
  ASSUME IInv, NEW p \in Pages, NEW more, Sends(more),
         requests' = [requests EXCEPT ![p] = requests[p] \o more]
  PROVE  SentEffect(p, more)
<1>1. /\ more = <<>> => requests'[p] = requests[p]
      /\ \A r : more = <<r>> => r \in Asks /\ requests'[p] = Append(requests[p], r)
  BY SendMoves
<1>2. requests[p] \in Seq(Asks)
  BY DEF IInv, DashType
<1>3. CASE more = <<>>
  <2>1. requests'[p] = requests[p]
    BY <1>1, <1>3
  <2>2. \A x : ~Adds(more, x)
    BY <1>3 DEF Adds
  <2>3. \A r : more # <<r>>
    BY <1>3
  <2>. QED
    BY <2>1, <2>2, <2>3 DEF SentEffect
<1>4. ASSUME NEW r \in Asks, more = <<r>> PROVE SentEffect(p, more)
  <2>1. requests'[p] = Append(requests[p], r)
    BY <1>1, <1>4
  <2>2. \A x : Adds(more, x) <=> r.kind = x
    <3>1. \A y : more = <<y>> => y = r
      BY <1>4
    <3>. QED
      BY <1>4, <3>1 DEF Adds
  <2>3. ASSUME NEW x PROVE Has(requests'[p], x) <=> Has(requests[p], x) \/ Adds(more, x)
    <3>1. Has(Append(requests[p], r), x) <=> Has(requests[p], x) \/ r.kind = x
      BY <1>2, HasAppend
    <3>. QED
      BY <2>1, <2>2, <3>1
  <2>4. ASSUME NEW y \in Asks, more = <<y>>, y.kind = "select"
        PROVE  LastArg(requests'[p], "select", y.arg)
    <3>1. y = r
      BY <1>4, <2>4
    <3>2. LastArg(Append(requests[p], r), "select", r.arg)
      BY <1>2, <2>4, <3>1, LastAppend
    <3>. QED
      BY <2>1, <3>1, <3>2
  <2>5. ASSUME r.kind # "select", NEW v, LastArg(requests[p], "select", v)
        PROVE  LastArg(requests'[p], "select", v)
    <3>1. LastArg(Append(requests[p], r), "select", v)
      BY <1>2, <2>5, LastAppend
    <3>. QED
      BY <2>1, <3>1
  <2>6. ASSUME r.kind # "select", NoSelectBehindPoll(requests[p])
        PROVE  NoSelectBehindPoll(requests'[p])
    <3>1. NoSelectBehindPoll(Append(requests[p], r))
      BY <1>2, <2>6, BehindAppend
    <3>. QED
      BY <2>1, <3>1
  <2>. QED
    BY <2>2, <2>3, <2>4, <2>5, <2>6 DEF SentEffect
<1>. QED
  BY <1>3, <1>4 DEF Sends

(* An answer that is taken is one less under way. *)
TakenEffect(p, a) ==
  /\ \A x : Has(answers[p], x) <=> Has(answers'[p], x) \/ a.kind = x
  /\ OkBus(answers[p]) <=> OkBus(answers'[p]) \/ (a.kind = "bus" /\ a.body.ok)
  /\ \A x, v : LastBody(answers[p], x, v) =>
       \/ LastBody(answers'[p], x, v)
       \/ ~Has(answers'[p], x) /\ a.kind = x /\ a.body = v
  /\ \A i \in DOMAIN answers'[p] : i + 1 \in DOMAIN answers[p] /\ answers'[p][i] = answers[p][i + 1]
  /\ 1 \in DOMAIN answers[p] /\ answers[p][1] = a /\ a \in Returned

LEMMA TakenFacts ==
  ASSUME IInv, NEW p \in Pages, answers[p] # <<>>, answers'[p] = Tail(answers[p])
  PROVE  TakenEffect(p, Answer1(p))
<1>1. answers[p] \in Seq(Returned)
  BY DEF IInv, DashType
<1>2. ASSUME NEW x
      PROVE  Has(answers[p], x) <=> Has(Tail(answers[p]), x) \/ Head(answers[p]).kind = x
  BY <1>1, HasTail
<1>3. OkBus(answers[p]) <=>
        OkBus(Tail(answers[p])) \/ (Head(answers[p]).kind = "bus" /\ Head(answers[p]).body.ok)
  BY <1>1, OkTail
<1>4. ASSUME NEW x, NEW v, LastBody(answers[p], x, v)
      PROVE  \/ LastBody(Tail(answers[p]), x, v)
             \/ ~Has(Tail(answers[p]), x) /\ Head(answers[p]).kind = x /\ Head(answers[p]).body = v
  BY <1>1, <1>4, LastTail
<1>5. /\ \A i \in DOMAIN Tail(answers[p]) :
           i + 1 \in DOMAIN answers[p] /\ Tail(answers[p])[i] = answers[p][i + 1]
      /\ 1 \in DOMAIN answers[p] /\ Head(answers[p]) = answers[p][1]
      /\ Head(answers[p]) \in Returned
  BY <1>1, TailFacts
<1>. QED
  BY <1>2, <1>3, <1>4, <1>5 DEF TakenEffect, Answer1

(* What a callback makes of the page and sends. *)
Called(p, s, more) ==
  LET a == Answer1(p)
  IN  /\ answers[p] # <<>> /\ CallBack(p, s, more) /\ Sends(more)
      /\ s.bus = IF a.kind = "bus" THEN a.body.bus ELSE page[p].bus
      /\ s.params = IF a.kind = "params" THEN a.body ELSE page[p].params
      /\ ~Adds(more, "data") /\ ~Adds(more, "meta")
      /\ a.kind = "params" => Adds(more, "select")
      /\ a.kind = "bus" /\ a.body.ok => Adds(more, "params")
      /\ \A r \in Asks : more = <<r>> /\ r.kind = "select" => r.arg = s.sel
      /\ ~Adds(more, "select") => s.sel = page[p].sel
      /\ Adds(more, "select") => NoBright(s)
      /\ IF a.kind = "data"
           THEN /\ more = <<>> /\ applied'[p] = {k \in DOMAIN a.body : a.body[k] = "new"}
                /\ \A k \in Keys : s.cards[k] = "bright" =>
                     k \in applied'[p] \/ (k \notin DOMAIN a.body /\ page[p].cards[k] = "bright")
           ELSE /\ applied' = applied
                /\ \A k \in Keys : s.cards[k] = "bright" => page[p].cards[k] = "bright"

LEMMA CallSolo ==
  ASSUME IInv, NEW p \in Pages, SoloCore(p), page[p].bus # None,
         NEW s \in Page, s.bus # None, NEW more, Called(p, s, more)
  PROVE  SoloCore(p)'
<1>. DEFINE a == Answer1(p)
            kind == a.kind
<1>1. /\ answers[p] # <<>> /\ Sends(more) /\ CallBack(p, s, more)
  BY DEF Called
<1>2. /\ page'[p] = s /\ answers'[p] = Tail(answers[p])
      /\ requests' = [requests EXCEPT ![p] = requests[p] \o more]
      /\ UNCHANGED <<bus, up, told, selection, astray, saved, clicks, lost>>
  BY <1>1, CallBackMoves
<1>3. SentEffect(p, more)
  BY <1>1, <1>2, SentFacts
<1>4. TakenEffect(p, a)
  BY <1>1, <1>2, TakenFacts
<1>5. /\ s.bus = IF kind = "bus" THEN a.body.bus ELSE page[p].bus
      /\ s.params = IF kind = "params" THEN a.body ELSE page[p].params
      /\ ~Adds(more, "data") /\ ~Adds(more, "meta")
      /\ kind = "params" => Adds(more, "select")
      /\ kind = "bus" /\ a.body.ok => Adds(more, "params")
      /\ \A r \in Asks : more = <<r>> /\ r.kind = "select" => r.arg = s.sel
      /\ ~Adds(more, "select") => s.sel = page[p].sel
      /\ Adds(more, "select") => NoBright(s)
  BY DEF Called
<1>6. IF kind = "data"
        THEN /\ more = <<>> /\ applied'[p] = {k \in DOMAIN a.body : a.body[k] = "new"}
             /\ \A k \in Keys : s.cards[k] = "bright" =>
                  k \in applied'[p] \/ (k \notin DOMAIN a.body /\ page[p].cards[k] = "bright")
        ELSE /\ applied' = applied
             /\ \A k \in Keys : s.cards[k] = "bright" => page[p].cards[k] = "bright"
  BY DEF Called
<1>. HIDE DEF a
<1>7. \A x : /\ Has(answers[p], x) <=> Has(answers'[p], x) \/ kind = x
             /\ Has(requests'[p], x) <=> Has(requests[p], x) \/ Adds(more, x)
  BY <1>3, <1>4 DEF SentEffect, TakenEffect
<1>8. \A i \in DOMAIN answers'[p] : answers'[p][i].ok
  BY <1>4 DEF TakenEffect, SoloCore
<1>9. StartInv(p)'
  <2>1. ~Has(requests'[p], "meta") /\ ~Has(answers'[p], "meta")
    BY <1>5, <1>7 DEF SoloCore, StartInv
  <2>. QED
    BY <1>2, <2>1 DEF StartInv
<1>10. ~Adds(more, "select") => (Reloading(p) => Reloading(p)')
  <2>1. OkBus(answers[p]) <=> OkBus(answers'[p]) \/ (kind = "bus" /\ a.body.ok)
    BY <1>4 DEF TakenEffect
  <2>. QED
    BY <1>5, <1>7, <2>1 DEF Reloading
<1>11. \A x, v : LastBody(answers[p], x, v) =>
         \/ LastBody(answers'[p], x, v)
         \/ ~Has(answers'[p], x) /\ kind = x /\ a.body = v
  BY <1>4 DEF TakenEffect
<1>12. BusInv(p)'
  <2>1. IF Has(answers'[p], "bus") THEN LastBody(answers'[p], "bus", told)
        ELSE s.bus = told.bus
    <3>1. CASE Has(answers'[p], "bus")
      <4>1. LastBody(answers[p], "bus", told)
        BY <1>7, <3>1 DEF SoloCore, BusInv
      <4>. QED
        BY <1>11, <3>1, <4>1
    <3>2. CASE ~Has(answers'[p], "bus") /\ kind = "bus"
      <4>1. LastBody(answers[p], "bus", told)
        BY <1>7, <3>2 DEF SoloCore, BusInv
      <4>2. ~LastBody(answers'[p], "bus", told)
        BY <3>2, LastHas
      <4>3. a.body = told
        BY <1>11, <4>1, <4>2
      <4>. QED
        BY <1>5, <3>2, <4>3
    <3>3. CASE ~Has(answers'[p], "bus") /\ kind # "bus"
      <4>1. page[p].bus = told.bus
        BY <1>7, <3>3 DEF SoloCore, BusInv
      <4>. QED
        BY <1>5, <3>3, <4>1
    <3>. QED
      BY <3>1, <3>2, <3>3
  <2>2. ~astray => told.bus = bus
    BY DEF SoloCore, BusInv
  <2>. QED
    BY <1>2, <2>1, <2>2 DEF BusInv
<1>13. ParamsInv(p)'
  <2>. SUFFICES ASSUME ~astray
                PROVE  \/ OkBus(answers'[p]) \/ Has(requests'[p], "params")
                       \/ LastBody(answers'[p], "params", bus)
                       \/ ~Has(answers'[p], "params") /\ s.params = bus
    BY <1>2 DEF ParamsInv
  <2>1. CASE OkBus(answers[p])
    <3>1. OkBus(answers'[p]) \/ (kind = "bus" /\ a.body.ok)
      BY <1>4, <2>1 DEF TakenEffect
    <3>. QED
      BY <1>5, <1>7, <3>1
  <2>2. CASE Has(requests[p], "params")
    BY <1>7, <2>2
  <2>3. CASE LastBody(answers[p], "params", bus)
    BY <1>5, <1>11, <2>3
  <2>4. CASE ~Has(answers[p], "params") /\ page[p].params = bus
    BY <1>5, <1>7, <2>4
  <2>. QED
    BY <2>1, <2>2, <2>3, <2>4 DEF SoloCore, ParamsInv
<1>14. SelInv(p)'
  <2>1. CASE Adds(more, "select")
    <3>1. PICK r \in Asks : more = <<r>> /\ r.kind = "select"
      BY <2>1 DEF Adds
    <3>2. LastArg(requests'[p], "select", r.arg) /\ r.arg = s.sel
      BY <1>3, <1>5, <3>1 DEF SentEffect
    <3>3. Has(requests'[p], "select")
      BY <1>7, <2>1
    <3>. QED
      BY <1>2, <3>2, <3>3 DEF SelInv
  <2>2. CASE ~Adds(more, "select") /\ Has(requests[p], "select")
    <3>1. LastArg(requests[p], "select", page[p].sel)
      BY <2>2 DEF SoloCore, SelInv
    <3>2. LastArg(requests'[p], "select", s.sel)
      BY <1>3, <1>5, <2>2, <3>1 DEF SentEffect
    <3>3. Has(requests'[p], "select")
      BY <1>7, <2>2
    <3>. QED
      BY <1>2, <3>2, <3>3 DEF SelInv
  <2>3. CASE ~Adds(more, "select") /\ ~Has(requests[p], "select")
    <3>1. Reloading(p) \/ selection = page[p].sel
      BY <2>3 DEF SoloCore, SelInv
    <3>2. Reloading(p)' \/ selection = s.sel
      BY <1>5, <1>10, <2>3, <3>1
    <3>3. ~Has(requests'[p], "select")
      BY <1>7, <2>3
    <3>. QED
      BY <1>2, <3>2, <3>3 DEF SelInv
  <2>. QED
    BY <2>1, <2>2, <2>3
<1>15. BrightInv(p)'
  <2>. SUFFICES ASSUME NEW k \in Keys, s.cards[k] = "bright"
                PROVE  /\ NoSelectBehindPoll(requests'[p])
                       /\ k \in applied'[p] \/ Reloading(p)'
                       /\ \A i \in DOMAIN answers'[p] : answers'[p][i].kind = "data" =>
                            k \in DOMAIN answers'[p][i].body \/ Reloading(p)'
    BY <1>2 DEF BrightInv
  <2>1. ~Adds(more, "select")
    BY <1>5 DEF NoBright
  <2>2. page[p].cards[k] = "bright" =>
          /\ NoSelectBehindPoll(requests[p])
          /\ k \in applied[p] \/ Reloading(p)
          /\ \A i \in DOMAIN answers[p] :
               answers[p][i].kind = "data" => k \in DOMAIN answers[p][i].body \/ Reloading(p)
    BY DEF SoloCore, BrightInv
  <2>3. CASE kind = "data"
    <3>1. One(answers[p], "data") /\ ~Has(requests[p], "data")
      BY <1>7, <2>3 DEF IInv, PageInv, PollInv
    <3>2. ~Has(requests'[p], "data")
      BY <1>5, <1>7, <3>1
    <3>3. NoSelectBehindPoll(requests'[p])
      BY <3>2 DEF Has, NoSelectBehindPoll
    <3>4. ~Has(answers'[p], "data")
      <4>1. answers[p] \in Seq(Returned) /\ Head(answers[p]).kind = "data"
        BY <2>3 DEF IInv, DashType, a, Answer1
      <4>2. ~Has(Tail(answers[p]), "data")
        BY <1>1, <3>1, <4>1, OneTail
      <4>. QED
        BY <1>2, <4>2
    <3>5. k \in applied'[p] \/ Reloading(p)'
      <4>. SUFFICES ASSUME k \notin DOMAIN a.body, page[p].cards[k] = "bright"
                    PROVE  Reloading(p)'
        BY <1>6, <2>3
      <4>1. Reloading(p)
        BY <1>4, <2>2, <2>3 DEF TakenEffect
      <4>. QED
        BY <1>10, <2>1, <4>1
    <3>. QED
      BY <3>3, <3>4, <3>5 DEF Has
  <2>4. CASE kind # "data"
    <3>1. applied' = applied /\ page[p].cards[k] = "bright"
      BY <1>6, <2>4
    <3>2. NoSelectBehindPoll(requests'[p])
      BY <1>3, <2>1, <2>2, <3>1 DEF SentEffect
    <3>3. k \in applied'[p] \/ Reloading(p)'
      BY <1>10, <2>1, <2>2, <3>1
    <3>4. ASSUME NEW i \in DOMAIN answers'[p], answers'[p][i].kind = "data"
          PROVE  k \in DOMAIN answers'[p][i].body \/ Reloading(p)'
      <4>1. i + 1 \in DOMAIN answers[p] /\ answers'[p][i] = answers[p][i + 1]
        BY <1>4 DEF TakenEffect
      <4>. QED
        BY <1>10, <2>1, <2>2, <3>1, <3>4, <4>1
    <3>. QED
      BY <3>2, <3>3, <3>4
  <2>. QED
    BY <2>3, <2>4
<1>. QED
  BY <1>8, <1>9, <1>12, <1>13, <1>14, <1>15 DEF SoloCore

LEMMA OneTailEmpty == ASSUME NEW q \in Seq(Returned), Len(q) = 1 PROVE Tail(q) = <<>>
<1>1. q # <<>>
  BY EmptySeq
<1>2. Tail(q) \in Seq(Returned) /\ Len(Tail(q)) = 0
  BY <1>1, HeadTailProperties
<1>. QED
  BY <1>2, EmptySeq

(* /meta is answered: the page is on a bus and asks for its parameters. *)
LEMMA StartSolo ==
  ASSUME IInv, NEW p \in Pages, SoloCore(p), page[p].bus = None, Listen(p)
  PROVE  SoloCore(p)'
<1>1. /\ page[p] \in Page /\ Fits(page[p]) /\ answers[p] \in Seq(Returned) /\ bus \in Buses
      /\ page \in [Pages -> Page]
  BY DEF IInv, DashType, PageInv, SessionTypeOK
<1>2. answers[p] # <<>>
  BY DEF Listen, OnMeta, OnParams, OnData, OnSelect, OnBus, OnConfig, OnDtc, OnClear, Answered
<1>3. /\ requests[p] = <<>> /\ Len(answers[p]) = 1
      /\ answers[p][1].kind = "meta" /\ answers[p][1].body = bus
      /\ page[p].sel = {} /\ selection = {} /\ told.bus = bus /\ ~astray
  BY <1>1, <1>2 DEF SoloCore, StartInv
<1>4. Answer1(p) = answers[p][1] /\ Answer1(p).ok /\ Tail(answers[p]) = <<>>
  <2>1. Head(answers[p]) = answers[p][1] /\ 1 \in DOMAIN answers[p]
    BY <1>1, <1>2, TailFacts
  <2>2. Tail(answers[p]) = <<>>
    BY <1>1, <1>3, OneTailEmpty
  <2>. QED
    BY <2>1, <2>2 DEF Answer1, SoloCore
<1>5. OnMeta(p)
  BY <1>3, <1>4 DEF Listen, OnMeta, OnParams, OnData, OnSelect, OnBus, OnConfig, OnDtc, OnClear,
                    Answered, Answer1
<1>. DEFINE s == [page[p] EXCEPT !.bus = bus]
            r == Request("params", "show live")
<1>6. CallBack(p, s, <<r>>) /\ UNCHANGED <<timer, applied>>
  BY <1>3, <1>4, <1>5 DEF OnMeta, LoadParams
<1>7. s \in Page /\ s.bus = bus /\ s.sel = {} /\ s.cards = page[p].cards
  BY <1>1, <1>3 DEF Page
<1>. HIDE DEF s
<1>8. r \in Asks /\ r.kind = "params"
  BY RequestsTyped
<1>. HIDE DEF r
<1>9. Sends(<<r>>)
  BY <1>8 DEF Sends
<1>10. /\ page'[p] = s /\ answers'[p] = <<>>
       /\ requests' = [requests EXCEPT ![p] = requests[p] \o <<r>>]
       /\ UNCHANGED <<bus, up, told, selection, astray>>
  BY <1>2, <1>4, <1>6, <1>7, <1>9, CallBackMoves
<1>11. requests'[p] = <<r>>
  <2>1. requests'[p] = Append(requests[p], r)
    BY <1>8, <1>9, <1>10, SendMoves
  <2>. QED
    BY <1>3, <2>1
<1>12. /\ \A x : ~Has(answers'[p], x)
       /\ \A x : Has(requests'[p], x) <=> x = "params"
       /\ \A i \in DOMAIN answers'[p] : FALSE
  <2>1. \A x : Has(requests'[p], x) <=> x = "params"
    <3>1. DOMAIN requests'[p] = {1} /\ requests'[p][1] = r
      BY <1>11
    <3>. QED
      BY <1>8, <3>1 DEF Has
  <2>2. DOMAIN answers'[p] = {}
    BY <1>10
  <2>. QED
    BY <2>1, <2>2 DEF Has
<1>13. bus # None
  BY <1>1, DashboardAssumption
<1>14. StartInv(p)'
  BY <1>7, <1>10, <1>12, <1>13 DEF StartInv
<1>15. BusInv(p)' /\ ParamsInv(p)' /\ SelInv(p)'
  BY <1>3, <1>7, <1>10, <1>12 DEF BusInv, ParamsInv, SelInv, Reloading
<1>16. BrightInv(p)'
  <2>1. \A k \in Keys : s.cards[k] = "none"
    BY <1>1, <1>3, <1>7 DEF Fits
  <2>. QED
    BY <1>10, <2>1 DEF BrightInv
<1>. QED
  BY <1>12, <1>14, <1>15, <1>16 DEF SoloCore

LEMMA ListenSolo ==
  ASSUME IInv, NEW p \in Pages, SoloCore(p), Listen(p)
  PROVE  SoloCore(p)'
<1>. DEFINE a == Answer1(p)
<1>1. /\ page[p] \in Page /\ Fits(page[p]) /\ answers[p] \in Seq(Returned)
      /\ applied \in [Pages -> SUBSET Keys] /\ None \notin Buses /\ bus \in Buses
  BY DashboardAssumption DEF IInv, DashType, PageInv, SessionTypeOK
<1>2. \A kind : Answered(p, kind) => answers[p] # <<>> /\ a.kind = kind /\ a \in Returned /\ a.ok
  <2>1. answers[p] # <<>> => a \in Returned /\ a.ok
    BY <1>1, TailFacts DEF Answer1, SoloCore
  <2>. QED
    BY <2>1 DEF Answered, Answer1
<1>3. /\ Sends(<<>>) /\ (\A x : ~Adds(<<>>, x)) /\ \A r \in Asks : <<>> # <<r>>
  <2>1. \A r \in Asks : <<>> # <<r>>
    OBVIOUS
  <2>. QED
    BY <2>1 DEF Sends, Adds
<1>4. ASSUME NEW r \in Asks
      PROVE  /\ Sends(<<r>>) /\ (\A x : Adds(<<r>>, x) <=> r.kind = x)
             /\ \A y \in Asks : <<r>> = <<y>> => y = r
  <2>1. \A y \in Asks : <<r>> = <<y>> => y = r
    OBVIOUS
  <2>. QED
    BY <2>1 DEF Sends, Adds
<1>. SUFFICES ASSUME page[p].bus # None
              PROVE  \E s \in Page : \E more : s.bus # None /\ Called(p, s, more)
  BY CallSolo, StartSolo
<1>. HIDE DEF a
<1>5. CASE OnMeta(p)
  <2>1. answers[p] # <<>> /\ Answer1(p).kind = "meta"
    BY <1>2, <1>5 DEF OnMeta, a
  <2>2. Has(answers[p], "meta")
    BY <1>1, <2>1, TailFacts DEF Has, Answer1
  <2>. QED
    BY <2>2 DEF SoloCore, StartInv
<1>6. CASE OnParams(p)
  <2>1. PICK s \in Page :
           /\ Fits(s) /\ NoBright(s) /\ s.bus = page[p].bus /\ s.bus # None
           /\ s.params = IF Answer1(p).ok THEN Answer1(p).body ELSE None
           /\ answers[p] # <<>> /\ Answer1(p).kind = "params"
           /\ CallBack(p, s, <<Request("select", s.sel)>>)
           /\ UNCHANGED <<timer, applied>>
    BY <1>6, ParamsFit
  <2>2. Answer1(p).ok
    BY <1>2, <1>6 DEF OnParams, a
  <2>. DEFINE r == Request("select", s.sel)
  <2>3. r \in Asks /\ r.kind = "select" /\ r.arg = s.sel
    BY RequestsTyped DEF Page
  <2>4. CallBack(p, s, <<r>>)
    BY <2>1
  <2>. HIDE DEF r
  <2>5. Called(p, s, <<r>>)
    BY <1>4, <2>1, <2>2, <2>3, <2>4 DEF Called, NoBright
  <2>. QED
    BY <2>1, <2>5
<1>7. CASE OnData(p)
  <2>1. answers[p] # <<>> /\ Answer1(p).kind = "data" /\ Answer1(p) \in Returned /\ Answer1(p).ok
    BY <1>2, <1>7 DEF OnData, a
  <2>2. Answer1(p).body \in Rows
    BY <2>1, BodiesTyped
  <2>. DEFINE s == ApplyData(page[p], Answer1(p).body)
              new == {k \in DOMAIN Answer1(p).body : Answer1(p).body[k] = "new"}
  <2>3. CallBack(p, s, <<>>) /\ applied' = [applied EXCEPT ![p] = new]
    BY <1>7, <2>1 DEF OnData
  <2>4. /\ s \in Page /\ s.bus = page[p].bus /\ s.params = page[p].params /\ s.sel = page[p].sel
        /\ \A k \in Keys : s.cards[k] = "bright" =>
             \/ k \in DOMAIN Answer1(p).body /\ Answer1(p).body[k] = "new"
             \/ k \notin DOMAIN Answer1(p).body /\ page[p].cards[k] = "bright"
    BY <1>1, <2>2, ApplyFits
  <2>. HIDE DEF s
  <2>5. applied'[p] = new
    BY <1>1, <2>3
  <2>6. Called(p, s, <<>>)
    BY <1>3, <2>1, <2>3, <2>4, <2>5 DEF Called
  <2>. QED
    BY <2>4, <2>6
<1>8. CASE OnSelect(p)
  <2>1. /\ answers[p] # <<>> /\ Answer1(p).kind = "select"
        /\ CallBack(p, page[p], <<>>) /\ UNCHANGED <<timer, applied>>
    BY <1>2, <1>8 DEF OnSelect, a
  <2>2. Called(p, page[p], <<>>)
    BY <1>3, <2>1 DEF Called
  <2>. QED
    BY <1>1, <2>2
<1>9. CASE OnBus(p)
  <2>1. answers[p] # <<>> /\ Answer1(p).kind = "bus" /\ Answer1(p) \in Returned /\ Answer1(p).ok
    BY <1>2, <1>9 DEF OnBus, a
  <2>2. Answer1(p).body.bus \in Buses
    BY <2>1, BodiesTyped
  <2>. DEFINE s == [page[p] EXCEPT !.bus = Answer1(p).body.bus]
              more == IF Answer1(p).body.ok THEN LoadParams("render cards") ELSE <<>>
  <2>3. CallBack(p, s, more) /\ UNCHANGED <<timer, applied>>
    BY <1>9, <2>1 DEF OnBus
  <2>4. /\ s \in Page /\ s.bus = Answer1(p).body.bus /\ s.params = page[p].params
        /\ s.sel = page[p].sel /\ s.cards = page[p].cards
    BY <1>1, <2>2 DEF Page
  <2>. HIDE DEF s
  <2>5. CASE Answer1(p).body.ok
    <3>. DEFINE r == Request("params", "render cards")
    <3>1. r \in Asks /\ r.kind = "params"
      BY RequestsTyped
    <3>2. more = <<r>>
      BY <2>5 DEF LoadParams
    <3>. HIDE DEF r, more
    <3>3. Called(p, s, <<r>>)
      BY <1>4, <2>1, <2>3, <2>4, <2>5, <3>1, <3>2 DEF Called
    <3>. QED
      BY <1>1, <2>2, <2>4, <3>3
  <2>6. CASE ~Answer1(p).body.ok
    <3>1. CallBack(p, s, <<>>)
      BY <2>3, <2>6
    <3>2. Called(p, s, <<>>)
      BY <1>3, <2>1, <2>3, <2>4, <2>6, <3>1 DEF Called
    <3>. QED
      BY <1>1, <2>2, <2>4, <3>2
  <2>. QED
    BY <2>5, <2>6
<1>10. CASE OnConfig(p)
  <2>. DEFINE s == ShowMain(page[p], "config")
  <2>1. /\ answers[p] # <<>> /\ Answer1(p).kind = "config"
        /\ CallBack(p, s, <<>>) /\ UNCHANGED <<timer, applied>>
    BY <1>2, <1>10 DEF OnConfig, a
  <2>2. /\ s \in Page /\ s.bus = page[p].bus /\ s.params = page[p].params /\ s.sel = page[p].sel
        /\ NoBright(s)
    BY <1>1, ShowFits DEF View
  <2>. HIDE DEF s
  <2>3. Called(p, s, <<>>)
    BY <1>3, <2>1, <2>2 DEF Called, NoBright
  <2>. QED
    BY <2>2, <2>3
<1>11. CASE OnDtc(p)
  <2>. DEFINE t == ShowMain(page[p], "dtc")
              listed == IF Answer1(p).ok THEN Answer1(p).body ELSE None
              s == [t EXCEPT !.listed = listed]
  <2>1. /\ answers[p] # <<>> /\ Answer1(p).kind = "dtc"
        /\ CallBack(p, s, <<>>) /\ UNCHANGED <<timer, applied>>
        /\ listed \in Buses \cup {None}
    <3>1. answers[p] # <<>> /\ Answer1(p).kind = "dtc" /\ Answer1(p) \in Returned
      BY <1>2, <1>11 DEF OnDtc, a
    <3>2. listed \in Buses \cup {None}
      BY <3>1, BodiesTyped
    <3>. QED
      BY <1>11, <3>1, <3>2 DEF OnDtc
  <2>2. /\ t \in Page /\ t.bus = page[p].bus /\ t.params = page[p].params /\ t.sel = page[p].sel
        /\ \A k \in Keys : t.cards[k] = "none"
    BY <1>1, ShowFits DEF View
  <2>. HIDE DEF t, listed
  <2>3. /\ s \in Page /\ s.bus = page[p].bus /\ s.params = page[p].params /\ s.sel = page[p].sel
        /\ \A k \in Keys : s.cards[k] = "none"
    BY <2>1, <2>2 DEF Page
  <2>. HIDE DEF s
  <2>4. Called(p, s, <<>>)
    BY <1>3, <2>1, <2>3 DEF Called, NoBright
  <2>. QED
    BY <2>3, <2>4
<1>12. CASE OnClear(p)
  <2>. DEFINE s == ShowMain(page[p], "dtc")
              r == Request("dtc", None)
  <2>1. /\ answers[p] # <<>> /\ Answer1(p).kind = "clear"
        /\ CallBack(p, s, <<r>>) /\ UNCHANGED <<timer, applied>>
    BY <1>2, <1>12 DEF OnClear, a
  <2>2. /\ s \in Page /\ s.bus = page[p].bus /\ s.params = page[p].params /\ s.sel = page[p].sel
        /\ NoBright(s)
    BY <1>1, ShowFits DEF View
  <2>3. r \in Asks /\ r.kind = "dtc"
    BY RequestsTyped
  <2>. HIDE DEF s, r
  <2>4. Called(p, s, <<r>>)
    BY <1>4, <2>1, <2>2, <2>3 DEF Called, NoBright
  <2>. QED
    BY <2>2, <2>4
<1>. QED
  BY <1>5, <1>6, <1>7, <1>8, <1>9, <1>10, <1>11, <1>12 DEF Listen

(* A click or a tick of the poll loop: the page is s and has sent more. *)
Acted(p, s, more) ==
  /\ Sends(more) /\ page'[p] = s
  /\ requests' = [requests EXCEPT ![p] = requests[p] \o more]
  /\ UNCHANGED <<bus, told, selection, astray, answers, applied>>
  /\ s.bus = page[p].bus /\ s.params = page[p].params
  /\ ~Adds(more, "meta")
  /\ \A r \in Asks : more = <<r>> /\ r.kind = "select" => r.arg = s.sel
  /\ ~Adds(more, "select") => s.sel = page[p].sel
  /\ \A k \in Keys : s.cards[k] = "bright" => page[p].cards[k] = "bright" /\ ~Adds(more, "select")

LEMMA ActSolo ==
  ASSUME IInv, NEW p \in Pages, SoloCore(p), page[p].bus # None, NEW s \in Page, NEW more,
         Acted(p, s, more)
  PROVE  SoloCore(p)'
<1>1. /\ page'[p] = s /\ UNCHANGED <<bus, told, selection, astray, answers, applied>>
      /\ s.bus = page[p].bus /\ s.params = page[p].params
      /\ ~Adds(more, "meta")
      /\ \A r \in Asks : more = <<r>> /\ r.kind = "select" => r.arg = s.sel
      /\ ~Adds(more, "select") => s.sel = page[p].sel
  BY DEF Acted
<1>2. SentEffect(p, more)
  BY SentFacts DEF Acted
<1>3. \A x : Has(requests'[p], x) <=> Has(requests[p], x) \/ Adds(more, x)
  BY <1>2 DEF SentEffect
<1>4. Reloading(p) => Reloading(p)'
  BY <1>1, <1>3 DEF Reloading
<1>5. StartInv(p)'
  BY <1>1, <1>3 DEF SoloCore, StartInv
<1>6. BusInv(p)' /\ ParamsInv(p)'
  BY <1>1, <1>3 DEF SoloCore, BusInv, ParamsInv
<1>7. SelInv(p)'
  <2>1. CASE Adds(more, "select")
    <3>1. PICK r \in Asks : more = <<r>> /\ r.kind = "select"
      BY <2>1 DEF Adds
    <3>2. LastArg(requests'[p], "select", r.arg) /\ r.arg = s.sel
      BY <1>1, <1>2, <3>1 DEF SentEffect
    <3>. QED
      BY <1>1, <1>3, <2>1, <3>2 DEF SelInv
  <2>2. CASE ~Adds(more, "select")
    <3>1. \A v : LastArg(requests[p], "select", v) => LastArg(requests'[p], "select", v)
      BY <1>2, <2>2 DEF SentEffect
    <3>. QED
      BY <1>1, <1>3, <1>4, <2>2, <3>1 DEF SoloCore, SelInv
  <2>. QED
    BY <2>1, <2>2
<1>8. BrightInv(p)'
  <2>. SUFFICES ASSUME NEW k \in Keys, s.cards[k] = "bright"
                PROVE  /\ NoSelectBehindPoll(requests'[p])
                       /\ k \in applied[p] \/ Reloading(p)'
                       /\ \A i \in DOMAIN answers[p] : answers[p][i].kind = "data" =>
                            k \in DOMAIN answers[p][i].body \/ Reloading(p)'
    BY <1>1 DEF BrightInv
  <2>1. page[p].cards[k] = "bright" /\ ~Adds(more, "select")
    BY DEF Acted
  <2>2. /\ NoSelectBehindPoll(requests[p])
        /\ k \in applied[p] \/ Reloading(p)
        /\ \A i \in DOMAIN answers[p] :
             answers[p][i].kind = "data" => k \in DOMAIN answers[p][i].body \/ Reloading(p)
    BY <2>1 DEF SoloCore, BrightInv
  <2>3. NoSelectBehindPoll(requests'[p])
    BY <1>2, <2>1, <2>2 DEF SentEffect
  <2>. QED
    BY <1>4, <2>2, <2>3
<1>9. \A i \in DOMAIN answers'[p] : answers'[p][i].ok
  BY <1>1 DEF SoloCore
<1>. QED
  BY <1>5, <1>6, <1>7, <1>8, <1>9 DEF SoloCore

LEMMA UserSolo ==
  ASSUME IInv, NEW p \in Pages, SoloCore(p), UserClick(p) \/ PollTick(p)
  PROVE  SoloCore(p)'
<1>1. /\ page[p] \in Page /\ Fits(page[p]) /\ page \in [Pages -> Page]
      /\ page[p].sel \subseteq KeysOf(page[p].params)
  BY DEF IInv, DashType, PageInv, Fits
<1>2. ASSUME NEW s, NEW more, Click(p, s, more)
      PROVE  /\ page'[p] = s /\ page[p].bus # None
             /\ requests' = [requests EXCEPT ![p] = requests[p] \o more]
             /\ UNCHANGED <<bus, told, selection, astray, answers, applied>>
  BY <1>1, <1>2 DEF Click, server, session
<1>3. ASSUME NEW r \in Asks
      PROVE  /\ Sends(<<r>>) /\ (\A x : Adds(<<r>>, x) <=> r.kind = x)
             /\ \A y \in Asks : <<r>> = <<y>> => y = r
  <2>1. \A y \in Asks : <<r>> = <<y>> => y = r
    OBVIOUS
  <2>. QED
    BY <2>1 DEF Sends, Adds
<1>. SUFFICES \E s \in Page : \E more : page[p].bus # None /\ Acted(p, s, more)
  BY ActSolo
<1>4. ASSUME NEW k \in Keys, Toggle(p, k)
      PROVE  \E s \in Page : \E more : page[p].bus # None /\ Acted(p, s, more)
  <2>1. PICK s \in Page :
           /\ NoBright(s) /\ s.bus = page[p].bus /\ s.params = page[p].params
           /\ Click(p, s, <<Request("select", s.sel)>>)
    BY <1>4, ToggleFits
  <2>. DEFINE r == Request("select", s.sel)
  <2>2. r \in Asks /\ r.kind = "select" /\ r.arg = s.sel
    BY RequestsTyped DEF Page
  <2>3. Click(p, s, <<r>>)
    BY <2>1
  <2>. HIDE DEF r
  <2>4. /\ page'[p] = s /\ page[p].bus # None
        /\ requests' = [requests EXCEPT ![p] = requests[p] \o <<r>>]
        /\ UNCHANGED <<bus, told, selection, astray, answers, applied>>
    BY <1>2, <2>3
  <2>5. Acted(p, s, <<r>>)
    BY <1>3, <2>1, <2>2, <2>4 DEF Acted, NoBright
  <2>. QED
    BY <2>4, <2>5
<1>5. ASSUME NEW s \in Page, NEW r \in Asks, Click(p, s, <<r>>), r.kind \notin {"meta", "select"},
             s.bus = page[p].bus, s.params = page[p].params, s.sel = page[p].sel,
             \A k \in Keys : s.cards[k] = "bright" => page[p].cards[k] = "bright"
      PROVE  \E t \in Page : \E more : page[p].bus # None /\ Acted(p, t, more)
  <2>1. /\ page'[p] = s /\ page[p].bus # None
        /\ requests' = [requests EXCEPT ![p] = requests[p] \o <<r>>]
        /\ UNCHANGED <<bus, told, selection, astray, answers, applied>>
    BY <1>2, <1>5
  <2>2. Acted(p, s, <<r>>)
    BY <1>3, <1>5, <2>1 DEF Acted
  <2>. QED
    BY <2>1, <2>2
<1>6. ASSUME NEW b \in Buses, PickBus(p, b)
      PROVE  \E s \in Page : \E more : page[p].bus # None /\ Acted(p, s, more)
  <2>1. Click(p, page[p], <<Request("bus", b)>>)
    BY <1>6 DEF PickBus
  <2>2. Request("bus", b) \in Asks /\ Request("bus", b).kind = "bus"
    BY RequestsTyped
  <2>. QED
    BY <1>1, <1>5, <2>1, <2>2
<1>7. CASE ClickLive(p)
  <2>. DEFINE s == ShowLive(page[p])
  <2>1. Click(p, s, <<>>)
    BY <1>7 DEF ClickLive
  <2>2. /\ s \in Page /\ s.bus = page[p].bus /\ s.params = page[p].params
        /\ s.sel = page[p].sel /\ NoBright(s)
    BY <1>1, LiveFits
  <2>. HIDE DEF s
  <2>3. /\ Sends(<<>>) /\ (\A x : ~Adds(<<>>, x)) /\ \A r \in Asks : <<>> # <<r>>
    <3>1. \A r \in Asks : <<>> # <<r>>
      OBVIOUS
    <3>. QED
      BY <3>1 DEF Sends, Adds
  <2>4. /\ page'[p] = s /\ page[p].bus # None
        /\ requests' = [requests EXCEPT ![p] = requests[p] \o <<>>]
        /\ UNCHANGED <<bus, told, selection, astray, answers, applied>>
    BY <1>2, <2>1
  <2>5. Acted(p, s, <<>>)
    BY <2>2, <2>3, <2>4 DEF Acted, NoBright
  <2>. QED
    BY <2>2, <2>4, <2>5
<1>8. CASE ClickClear(p)
  <2>. DEFINE s == ShowMain(page[p], "dtc")
  <2>1. Click(p, s, <<Request("clear", None)>>)
    BY <1>8 DEF ClickClear
  <2>2. /\ s \in Page /\ s.bus = page[p].bus /\ s.params = page[p].params
        /\ s.sel = page[p].sel /\ NoBright(s)
    BY <1>1, ShowFits DEF View
  <2>. HIDE DEF s
  <2>3. Request("clear", None) \in Asks /\ Request("clear", None).kind = "clear"
    BY RequestsTyped
  <2>. QED
    BY <1>5, <2>1, <2>2, <2>3 DEF NoBright
<1>9. ASSUME NEW v \in {"config", "dtc"}, ClickTab(p, v)
      PROVE  \E s \in Page : \E more : page[p].bus # None /\ Acted(p, s, more)
  <2>. DEFINE s == [ShowMain(page[p], v) EXCEPT !.view = v]
  <2>1. Click(p, s, <<Request(v, None)>>)
    BY <1>9 DEF ClickTab
  <2>2. /\ s \in Page /\ s.bus = page[p].bus /\ s.params = page[p].params
        /\ s.sel = page[p].sel /\ NoBright(s)
    BY <1>1, TabFits
  <2>. HIDE DEF s
  <2>3. Request(v, None) \in Asks /\ Request(v, None).kind = v
    BY RequestsTyped
  <2>. QED
    BY <1>5, <2>1, <2>2, <2>3 DEF NoBright
<1>10. CASE PollTick(p)
  <2>. DEFINE r == Request("data", None)
  <2>1. /\ page[p].sel # {} /\ requests' = [requests EXCEPT ![p] = Append(requests[p], r)]
        /\ UNCHANGED <<bus, told, selection, astray, page, answers, applied>>
    BY <1>10 DEF PollTick, server, session
  <2>2. r \in Asks /\ r.kind = "data"
    BY RequestsTyped
  <2>. HIDE DEF r
  <2>3. requests[p] \o <<r>> = Append(requests[p], r)
    BY <2>2, AppendFacts DEF IInv, DashType
  <2>4. page[p].bus # None
    BY <2>1 DEF SoloCore, StartInv
  <2>5. requests' = [requests EXCEPT ![p] = requests[p] \o <<r>>]
    BY <2>1, <2>3
  <2>6. Acted(p, page[p], <<r>>)
    BY <1>3, <2>1, <2>2, <2>5 DEF Acted
  <2>. QED
    BY <1>1, <2>4, <2>6
<1>. QED
  BY <1>4, <1>6, <1>7, <1>8, <1>9, <1>10 DEF UserClick

-----------------------------------------------------------------------------
(* One page *)

Alone == \E p : Pages = {p}

SoloPages == \A p \in Pages : SoloInv(p)

LEMMA SoloInit == Init => SoloPages
<1>. SUFFICES ASSUME Init, NEW p \in Pages PROVE SoloCore(p)
  BY DEF SoloPages, SoloInv
<1>1. /\ page[p].bus = None /\ page[p].sel = {} /\ page[p].main = None /\ page[p].cards = NoCards
      /\ selection = {} /\ told.bus = bus /\ ~astray
      /\ requests[p] = <<Request("meta", None)>> /\ answers[p] = <<>>
  BY DEF Init, SessionInit
<1>2. ~Has(requests[p], "select") /\ \A i \in DOMAIN answers[p] : FALSE
  <2>1. DOMAIN requests[p] = {1} /\ requests[p][1] = Request("meta", None)
    BY <1>1
  <2>2. DOMAIN answers[p] = {}
    BY <1>1
  <2>. QED
    BY <2>1, <2>2 DEF Has, Request
<1>3. StartInv(p) /\ BusInv(p) /\ ParamsInv(p)
  BY <1>1 DEF StartInv, BusInv, ParamsInv
<1>4. SelInv(p)
  BY <1>1, <1>2 DEF SelInv
<1>5. BrightInv(p)
  BY <1>1, FreshCards DEF BrightInv
<1>. QED
  BY <1>2, <1>3, <1>4, <1>5 DEF SoloCore

LEMMA SoloStep ==
  ASSUME Alone, IInv, SoloPages, [Next]_vars
  PROVE  SoloPages'
<1>1. PICK p : Pages = {p}
  BY DEF Alone
<1>. SUFFICES ASSUME lost' = 0 PROVE SoloCore(p)'
  BY <1>1 DEF SoloPages, SoloInv
<1>2. lost \in Nat
  BY DashboardAssumption DEF IInv, DashType
<1>3. p \in Pages /\ (lost = 0 => SoloCore(p))
  BY <1>1 DEF SoloPages, SoloInv
<1>4. CASE Serve(p)
  <2>1. lost' = lost
    BY <1>4 DEF Serve, ServeState, ServeData, ServeSelect, ServeBus, ServeConfig, ServeDtc,
                ServeClear, Handled
  <2>. QED
    BY <1>3, <1>4, <2>1, ServeSolo
<1>5. CASE LoseRequest(p) \/ LoseAnswer(p)
  <2>1. lost' = lost + 1
    BY <1>5 DEF LoseRequest, LoseAnswer
  <2>. QED
    BY <1>2, <2>1
<1>6. CASE Listen(p)
  <2>1. lost' = lost
    BY <1>6 DEF Listen, OnMeta, OnParams, OnData, OnSelect, OnBus, OnConfig, OnDtc, OnClear, CallBack
  <2>. QED
    BY <1>3, <1>6, <2>1, ListenSolo
<1>7. CASE UserClick(p) \/ PollTick(p)
  <2>1. lost' = lost
    BY <1>7 DEF UserClick, Toggle, PickBus, ClickLive, ClickClear, ClickTab, Click, PollTick
  <2>. QED
    BY <1>3, <1>7, <2>1, UserSolo
<1>8. CASE UNCHANGED vars
  <2>1. UNCHANGED <<bus, up, told, selection, astray, saved, page, requests, answers, timer,
                    applied, lost>>
    BY <1>8 DEF vars, server, session
  <2>. QED
    BY <1>3, <2>1 DEF SoloCore, StartInv, BusInv, ParamsInv, SelInv, Reloading, BrightInv
<1>9. CASE Next
  <2>1. \/ Serve(p) \/ LoseRequest(p) \/ LoseAnswer(p) \/ Listen(p)
        \/ UserClick(p) \/ PollTick(p)
    BY <1>1, <1>9 DEF Next, UserClick
  <2>. QED
    BY <1>4, <1>5, <1>6, <1>7, <2>1
<1>. QED
  BY <1>8, <1>9

LEMMA SoloInvariance == ASSUME Alone PROVE Spec => [](IInv /\ SoloPages)
<1>1. IInv /\ SoloPages /\ [Next]_vars => SoloPages'
  BY SoloStep
<1>. QED
  BY <1>1, SoloInit, DashboardInvariance, PTL DEF Spec

(* With nothing but polls under way nothing is reloading. *)
LEMMA QuietSolo ==
  ASSUME IInv, NEW p \in Pages, SoloCore(p), Quiet(p)
  PROVE  ~Reloading(p) /\ page[p].bus # None /\ (~astray => InSync(p))
<1>1. /\ \A x : x # "data" => ~Has(requests[p], x) /\ ~Has(answers[p], x)
      /\ ~OkBus(answers[p])
  BY DEF Quiet, Has, OkBus
<1>2. ~Reloading(p)
  BY <1>1 DEF Reloading
<1>3. page[p].bus # None
  BY DEF SoloCore, StartInv, Quiet
<1>4. ASSUME ~astray PROVE InSync(p)
  <2>1. page[p].bus = bus
    BY <1>1, <1>3, <1>4 DEF SoloCore, BusInv
  <2>2. page[p].params = bus
    <3>1. ~LastBody(answers[p], "params", bus)
      BY <1>1, LastHas
    <3>. QED
      BY <1>1, <1>3, <1>4, <3>1 DEF SoloCore, ParamsInv
  <2>3. page[p].sel = selection
    BY <1>1, <1>2 DEF SoloCore, SelInv
  <2>4. selection \subseteq KeysOn(bus)
    <3>1. page[p].sel \subseteq KeysOf(bus) /\ bus # None
      BY <2>2, DashboardAssumption DEF IInv, PageInv, Fits, DashType, SessionTypeOK
    <3>. QED
      BY <2>3, <3>1 DEF KeysOf
  <2>. QED
    BY <2>1, <2>2, <2>3, <2>4 DEF InSync
<1>. QED
  BY <1>2, <1>3, <1>4

(* A page that is alone shows the server's bus and its parameters, and the       *)
(* server reads what it has ticked, whenever nothing but polls is under way. *)
THEOREM PageAgrees == ASSUME Alone PROVE Spec => []Agreement
<1>1. IInv /\ SoloPages => Agreement
  BY QuietSolo DEF SoloPages, SoloInv, Agreement
<1>. QED
  BY <1>1, SoloInvariance, PTL

(* Its bright values were recent ones in the last answer it applied. *)
THEOREM StaleValuesDim == ASSUME Alone PROVE Spec => []StaleDims
<1>1. IInv /\ SoloPages => StaleDims
  BY QuietSolo DEF SoloPages, SoloInv, SoloCore, BrightInv, StaleDims
<1>. QED
  BY <1>1, SoloInvariance, PTL
=============================================================================
