------------------------- MODULE CommandLineProofs -------------------------
(***************************************************************************)
(* A command over UDS or OBD, for any modules, keys, identifiers, batches  *)
(* and bounds, over whichever transport: it keeps the contract of          *)
(* base.py, and what it shows is what the module asked has said.           *)
(***************************************************************************)
EXTENDS CommandLine, VolvoSweepProofs, FiniteSetTheorems, SequenceTheorems, WellFoundedInduction, TLAPS

(* What a module says. *)
Replies == [ecu : Ecus, service : Services, id : Ids, n : Nat, kind : Kinds]

(* Where a task may be. *)
Places(t) == [turn : 1 .. Turns(t), part : Services]

CallInv ==
  /\ session \in {"closed", "open"} /\ task \in Tasks
  /\ written \in BOOLEAN /\ whole \in BOOLEAN /\ asked \in Nat
  /\ pos \in Places(task) \cup {Over}
  /\ call # NoCall => /\ session = "open" /\ pos # Over /\ answer = Waiting
                      /\ call = Asks(task, pos, asked)
  /\ call = NoCall => ~written
  /\ seen \in 0 .. PendingLimit
  /\ due \in [Ecus -> Seq(Requests)]
  /\ \A e \in Ecus : \A i \in DOMAIN due[e] : due[e][i].ecu = e
  /\ failed \subseteq Ecus

(* An answer is of the module that was asked, and final. *)
AnswerInv ==
  answer # Waiting =>
    /\ call = NoCall /\ session = "open" /\ pos # Over
    /\ \/ answer \in Failures
       \/ /\ answer \in Replies /\ answer.kind # "pending"
          /\ answer.ecu = Asks(task, pos, asked).ecu

VehicleInv == CallInv /\ AnswerInv /\ ShownIsTrue

-----------------------------------------------------------------------------
(* J2534: what is in the receive queue. *)
Said(e) == {r \in Replies : r.ecu = e}

Queued ==
  {item \in [type : {"done", "start", "message"}, ecu : Ecus, reply : Replies \cup {NoCall}] :
     item.type = "message" => item.reply \in Said(item.ecu)}

J2534Inv == rx \in Seq(Queued)

(* The filters remembered are those of the channel; without one there are none. *)
PassInv ==
  /\ filters \subseteq passes
  /\ session = "closed" \/ transport # "j2534" => filters = {}

(* SocketCAN: the frames a module sends of its answers. *)
Spoken(e) ==
  {f \in [kind : {"single", "first", "consecutive"}, index : 0 .. Frames, payload : Said(e),
          total : {0, Frames}] :
     /\ f.kind = "single" => f.index = 0 /\ f.total = 0
     /\ f.kind = "first" => f.index = 0 /\ f.total = Frames
     /\ f.kind = "consecutive" => f.index > 0 /\ f.total = Frames}

Granted == {FlowControl(blockSize) : blockSize \in 0 .. 1}

Heard == {w \in [ecu : Ecus, frame : Granted \cup UNION {Spoken(e) : e \in Ecus}] :
            w.frame \in Granted \cup Spoken(w.ecu)}

Assembling(e) == [expected : Nat, next : Nat \ {0}, buffer : Seq(Spoken(e))]

SocketCanInv ==
  /\ kernel \in BOOLEAN /\ prefer \in BOOLEAN /\ bound \in BOOLEAN
  /\ inbox \in [Ecus -> Seq(Replies)]
  /\ \A e \in Ecus : inbox[e] \in Seq(Said(e))
  /\ wire \in Seq(Heard)
  /\ held \in [Ecus -> Replies \cup {NoCall}]
  /\ \A e \in Ecus : held[e] # NoCall => held[e] \in Said(e)
  /\ asks \subseteq Ecus
  /\ written /\ ~prefer => asm \in Assembling(call.ecu)

(* ELM327: an adapter that was told an address listens to it, and only what it  *)
(* heard of it is read.                                                      *)
ElmInv ==
  /\ session = "closed" => address = NoCall
  /\ address # NoCall => address = accepts /\ header \in Ecus
  /\ busy => header \in Ecus
  /\ written => address = call.ecu /\ text \in Seq(Said(call.ecu))

IInv ==
  /\ transport \in {"j2534", "socketcan", "elm"}
  /\ VehicleInv /\ PassInv
  /\ transport = "j2534" => J2534Inv
  /\ transport = "socketcan" => SocketCanInv
  /\ transport = "elm" => ElmInv

-----------------------------------------------------------------------------
(* Of the turns of a task that are left, one is the first. *)
LEMMA LeastExists ==
  ASSUME NEW T, T \subseteq Nat, T # {}
  PROVE  \E first \in T : \A k \in T : first <= k
<1>. DEFINE R == OpToRel(<, Nat)
<1>1. IsWellFoundedOn(R, Nat)
  BY NatLessThanWellFounded
<1>2. \A x, y \in Nat : y < x => <<y, x>> \in R
  BY DEF OpToRel
<1>. HIDE DEF R
<1>3. PICK first \in T : \A k \in T : ~(<<k, first>> \in R)
  BY <1>1, WFMin
<1>4. ASSUME NEW k \in T PROVE first <= k
  <2>1. k \in Nat /\ first \in Nat
    OBVIOUS
  <2>2. ~(k < first)
    BY <1>2, <1>3, <2>1
  <2>. QED
    BY <2>1, <2>2
<1>. QED
  BY <1>4

LEMMA TurnsAreFinite == ASSUME NEW t \in Tasks PROVE Turns(t) \in Nat
BY VehicleAssumption DEF Turns, Tasks

LEMMA PartsAreServices ==
  ASSUME NEW t \in Tasks, NEW i, FirstPart(t, i) # "none"
  PROVE  FirstPart(t, i) \in Services
BY DEF FirstPart, Tasks, Services

LEMMA NextTurn ==
  ASSUME NEW t \in Tasks, NEW i \in Nat, i >= 1
  PROVE  FromTurn(t, i) \in Places(t) \cup {Over}
<1>. DEFINE later == {j \in i .. Turns(t) : FirstPart(t, j) # "none"}
            next == CHOOSE j \in later : \A k \in later : j <= k
<1>1. FromTurn(t, i) = IF later = {} THEN Over ELSE At(next, FirstPart(t, next))
  BY DEF FromTurn
<1>2. Turns(t) \in Nat
  BY TurnsAreFinite
<1>3. CASE later # {}
  <2>1. later \subseteq Nat
    BY <1>2
  <2>2. \E j \in later : \A k \in later : j <= k
    <3>. HIDE DEF later
    <3>. QED
      BY <1>3, <2>1, LeastExists
  <2>3. next \in later
    BY <2>2
  <2>4. next \in 1 .. Turns(t) /\ FirstPart(t, next) \in Services
    BY <1>2, <2>3, PartsAreServices
  <2>. HIDE DEF next, later
  <2>. QED
    BY <1>1, <1>3, <2>4 DEF At, Places
<1>. QED
  BY <1>1, <1>3

LEMMA AsksTyped ==
  ASSUME NEW t \in Tasks, NEW p \in Places(t), NEW n \in Nat
  PROVE  Asks(t, p, n) \in Requests /\ Asks(t, p, n).ecu \in Ecus
         /\ Asks(t, p, n).n = n /\ Asks(t, p, n) # NoCall
<1>. USE VehicleAssumption
<1>1. p.turn \in 1 .. Turns(t) /\ p.part \in Services /\ Turns(t) \in Nat
  BY TurnsAreFinite DEF Places
<1>2. Ecm \in Ecus
  BY DEF Ecm, Ecus
<1>3. "-" \in Ids /\ "vin" \in Ids
  BY DEF Ids
<1>4. ASSUME NEW e \in Ecus, NEW s \in Services, NEW i \in Ids
      PROVE  Request(e, s, i, n) \in Requests
  BY DEF Request, Requests
<1>5. Asks(t, p, n) \in Requests
  <2>1. CASE t = "scan"
    <3>1. Addresses[p.turn] \in Ecus
      BY <1>1, <2>1 DEF Turns, Ecus
    <3>. QED
      BY <1>1, <1>3, <1>4, <2>1, <3>1 DEF Asks
  <2>2. CASE t = "engine"
    <3>1. Keys[p.turn] \in Ids
      BY <1>1, <2>2 DEF Turns
    <3>. QED
      BY <1>1, <1>2, <1>4, <2>2, <3>1 DEF Asks
  <2>3. CASE t = "vin"
    BY <1>1, <1>2, <1>3, <1>4, <2>3 DEF Asks
  <2>4. CASE t = "identify"
    <3>1. Identifiers[p.turn] \in Ids
      BY <1>1, <2>4 DEF Turns
    <3>. QED
      BY <1>1, <1>2, <1>4, <2>4, <3>1 DEF Asks
  <2>5. CASE t = "pids"
    <3>1. Bases[p.turn] \in Ids
      BY <1>1, <2>5 DEF Turns
    <3>. QED
      BY <1>1, <1>2, <1>4, <2>5, <3>1 DEF Asks
  <2>6. CASE t = "dtc"
    BY <1>2, <1>3, <1>4, <2>6 DEF Asks, DtcRequest, Services
  <2>7. CASE t = "hex"
    BY <1>2, <1>3, <1>4, <2>7 DEF Asks, HexRequest, Services
  <2>. QED
    BY <2>1, <2>2, <2>3, <2>4, <2>5, <2>6, <2>7 DEF Tasks
<1>6. Asks(t, p, n).n = n
  BY DEF Asks, DtcRequest, HexRequest, Request, Tasks
<1>. QED
  BY <1>5, <1>6 DEF Requests

LEMMA AfterTyped ==
  ASSUME NEW t \in Tasks, NEW p \in Places(t), NEW ok \in BOOLEAN, NEW more \in BOOLEAN
  PROVE  After(t, p, ok, more) \in Places(t) \cup {Over}
<1>1. p.turn \in 1 .. Turns(t) /\ Turns(t) \in Nat
  BY TurnsAreFinite DEF Places
<1>2. FromTurn(t, p.turn + 1) \in Places(t) \cup {Over}
  BY <1>1, NextTurn
<1>3. At(p.turn, "label") \in Places(t) /\ At(p.turn, "pid") \in Places(t)
  BY <1>1 DEF At, Places, Services
<1>. QED
  BY <1>2, <1>3 DEF After, ScanNext, EngineNext, VinNext, IdentifyNext, PidsNext, Tasks

-----------------------------------------------------------------------------
(* The command, and what the transports share: each of its steps keeps the     *)
(* contract.                                                                 *)
ContractStep == [Contract!Next]_(Contract!vars)

LEMMA Idles ==
  ASSUME VehicleInv, Idle
  PROVE  VehicleInv' /\ ContractStep
<1>1. UNCHANGED <<session, task, pos, asked, shown, call, written, seen, answer, whole, failed, due>>
  BY DEF Idle, vehicle, client, request
<1>2. CallInv'
  BY <1>1 DEF VehicleInv, CallInv
<1>3. AnswerInv'
  BY <1>1 DEF VehicleInv, AnswerInv
<1>4. ShownIsTrue'
  BY <1>1 DEF VehicleInv, ShownIsTrue
<1>. QED
  BY <1>1, <1>2, <1>3, <1>4 DEF VehicleInv, ContractStep, Contract!vars

LEMMA OpenKeeps ==
  ASSUME VehicleInv, Opened
  PROVE  VehicleInv' /\ ContractStep
<1>1. /\ session = "closed" /\ session' = "open" /\ task' \in Tasks /\ pos' = FromTurn(task', 1)
      /\ asked' = 0 /\ shown' = {} /\ failed' = {}
      /\ UNCHANGED <<call, written, seen, answer, whole, due>>
  BY DEF Opened
<1>2. call = NoCall /\ answer = Waiting
  BY <1>1 DEF VehicleInv, CallInv, AnswerInv
<1>3. pos' \in Places(task') \cup {Over}
  BY <1>1, NextTurn
<1>4. CallInv'
  BY <1>1, <1>2, <1>3 DEF VehicleInv, CallInv, Places, Turns
<1>5. AnswerInv' /\ ShownIsTrue'
  BY <1>1, <1>2 DEF AnswerInv, ShownIsTrue
<1>. QED
  BY <1>1, <1>4, <1>5 DEF VehicleInv, ContractStep, Contract!vars

LEMMA CloseKeeps ==
  ASSUME VehicleInv, Closed
  PROVE  VehicleInv' /\ ContractStep
<1>1. /\ session = "open" /\ pos = Over /\ session' = "closed" /\ asked' = 0 /\ shown' = {}
      /\ UNCHANGED <<task, pos, call, written, seen, answer, whole, failed, due>>
  BY DEF Closed, request
<1>2. call = NoCall /\ answer = Waiting
  BY <1>1 DEF VehicleInv, CallInv, AnswerInv
<1>3. CallInv'
  BY <1>1, <1>2 DEF VehicleInv, CallInv
<1>4. AnswerInv' /\ ShownIsTrue'
  BY <1>1, <1>2 DEF AnswerInv, ShownIsTrue
<1>. QED
  BY <1>1, <1>3, <1>4 DEF VehicleInv, ContractStep, Contract!vars

LEMMA AskKeeps ==
  ASSUME VehicleInv, Ask
  PROVE  VehicleInv' /\ ContractStep
<1>1. /\ session = "open" /\ pos # Over /\ call = NoCall /\ answer = Waiting
      /\ asked' = asked + 1 /\ call' = Asks(task, pos, asked + 1)
      /\ UNCHANGED <<session, task, pos, shown, written, seen, answer, whole, failed, due>>
  BY DEF Ask
<1>2. asked + 1 \in Nat /\ call' # NoCall
  BY <1>1, AsksTyped DEF VehicleInv, CallInv
<1>3. CallInv'
  BY <1>1, <1>2 DEF VehicleInv, CallInv
<1>4. AnswerInv' /\ ShownIsTrue'
  BY <1>1 DEF VehicleInv, AnswerInv, ShownIsTrue
<1>5. Contract!Ask
  BY <1>1, <1>2 DEF Contract!Ask
<1>. QED
  BY <1>3, <1>4, <1>5 DEF VehicleInv, ContractStep, Contract!Next

(* What is shown of an answer that was accepted is true. *)
LEMMA AcceptedIsTrue ==
  ASSUME VehicleInv, call = NoCall, answer # Waiting, NEW r, r = Asks(task, pos, asked),
         Accepted(r, answer), NEW s, s = [request |-> r, reply |-> answer]
  PROVE  /\ s.reply.ecu = s.request.ecu
         /\ s.request.service \notin {"tester", "hex"} =>
              s.reply.kind = "positive" /\ s.reply.service = s.request.service
         /\ s.request.service \in {"did", "label", "pid"} => s.reply.id = s.request.id
<1>1. answer \notin Failures /\ Echoes(r, answer)
      /\ (answer.kind = "positive" \/ r.service \in {"tester", "hex"})
  BY DEF Accepted
<1>2. answer.ecu = r.ecu
  BY <1>1 DEF VehicleInv, AnswerInv
<1>3. s.reply = answer /\ s.request = r
  OBVIOUS
<1>4. r.service \in Services
  BY AsksTyped DEF VehicleInv, CallInv, AnswerInv, Requests
<1>5. r.service \notin {"tester", "hex"} => answer.kind = "positive" /\ answer.service = r.service
  BY <1>1, <1>4 DEF Echoes, CheckUds, ParseObd, Services
<1>6. r.service \in {"did", "label", "pid"} => answer.id = r.id
  BY <1>1, <1>4 DEF Echoes, CheckUds, ParseObd, Services
<1>. QED
  BY <1>2, <1>3, <1>5, <1>6

LEMMA TakeKeeps ==
  ASSUME VehicleInv, Take
  PROVE  VehicleInv' /\ ContractStep
<1>. DEFINE r == Asks(task, pos, asked)
            ok == Accepted(r, answer)
<1>1. /\ session = "open" /\ call = NoCall /\ answer # Waiting
      /\ answer' = Waiting /\ whole' = TRUE
      /\ UNCHANGED <<session, task, asked, call, written, seen, failed, due>>
      /\ shown' = IF ok THEN shown \cup {[request |-> r, reply |-> answer]} ELSE shown
  BY DEF Take
<1>2. PICK more \in BOOLEAN :
        pos' = IF Escapes(task, pos, answer) THEN Over ELSE After(task, pos, ok, more)
  BY DEF Take
<1>3. pos \in Places(task) /\ task \in Tasks /\ pos # Over
  BY <1>1 DEF VehicleInv, CallInv, AnswerInv
<1>4. ok \in BOOLEAN
  BY DEF Accepted, Echoes, CheckUds, ParseObd
<1>5. pos' \in Places(task) \cup {Over}
  <2>. HIDE DEF ok
  <2>. QED
    BY <1>2, <1>3, <1>4, AfterTyped
<1>6. CallInv'
  BY <1>1, <1>5 DEF VehicleInv, CallInv
<1>7. AnswerInv'
  BY <1>1 DEF AnswerInv
<1>8. ShownIsTrue'
  <2>1. CASE ok
    <3>. DEFINE s == [request |-> r, reply |-> answer]
    <3>1. shown' = shown \cup {s}
      BY <1>1, <2>1
    <3>2. /\ s.reply.ecu = s.request.ecu
          /\ s.request.service \notin {"tester", "hex"} =>
               s.reply.kind = "positive" /\ s.reply.service = s.request.service
          /\ s.request.service \in {"did", "label", "pid"} => s.reply.id = s.request.id
      BY <1>1, <2>1, AcceptedIsTrue
    <3>. HIDE DEF s
    <3>. QED
      BY <3>1, <3>2 DEF VehicleInv, ShownIsTrue
  <2>2. CASE ~ok
    BY <1>1, <2>2 DEF VehicleInv, ShownIsTrue
  <2>. QED
    BY <2>1, <2>2
<1>9. Contract!Take
  BY <1>1 DEF Contract!Take
<1>. QED
  BY <1>6, <1>7, <1>8, <1>9 DEF VehicleInv, ContractStep, Contract!Next

LEMMA SentKeeps ==
  ASSUME VehicleInv, Busy, NEW e \in Ecus, Sent(e)
  PROVE  VehicleInv' /\ ContractStep
<1>1. /\ written' = TRUE /\ due' = [due EXCEPT ![e] = Append(@, [call EXCEPT !.ecu = e])]
      /\ UNCHANGED <<session, task, pos, asked, shown, call, seen, answer, whole, failed>>
      /\ session = "open" /\ call # NoCall
  BY DEF Sent, client, Busy
<1>2. call \in Requests
  BY <1>1, AsksTyped DEF VehicleInv, CallInv
<1>. DEFINE r == [call EXCEPT !.ecu = e]
<1>3. r \in Requests /\ r.ecu = e
  BY <1>2 DEF Requests
<1>. HIDE DEF r
<1>4. due \in [Ecus -> Seq(Requests)] /\ due' = [due EXCEPT ![e] = Append(due[e], r)]
  BY <1>1 DEF VehicleInv, CallInv, r
<1>5. due' \in [Ecus -> Seq(Requests)]
  BY <1>3, <1>4
<1>6. ASSUME NEW d \in Ecus, NEW i \in DOMAIN due'[d] PROVE due'[d][i].ecu = d
  <2>1. \A j \in DOMAIN due[d] : due[d][j].ecu = d
    BY DEF VehicleInv, CallInv
  <2>2. due[d] \in Seq(Requests)
    BY <1>4
  <2>3. CASE d = e
    BY <1>3, <1>4, <1>6, <2>1, <2>2, <2>3
  <2>4. CASE d # e
    BY <1>4, <1>6, <2>1, <2>4
  <2>. QED
    BY <2>3, <2>4
<1>7. CallInv'
  BY <1>1, <1>5, <1>6 DEF VehicleInv, CallInv
<1>8. AnswerInv' /\ ShownIsTrue'
  BY <1>1 DEF VehicleInv, AnswerInv, ShownIsTrue
<1>. QED
  BY <1>1, <1>7, <1>8 DEF VehicleInv, ContractStep, Contract!vars

LEMMA UnheardKeeps ==
  ASSUME VehicleInv, Busy, SentUnheard
  PROVE  VehicleInv' /\ ContractStep
<1>1. /\ written' = TRUE
      /\ UNCHANGED <<session, task, pos, asked, shown, call, seen, answer, whole, failed, due>>
      /\ session = "open" /\ call # NoCall
  BY DEF SentUnheard, client, Busy
<1>2. CallInv'
  BY <1>1 DEF VehicleInv, CallInv
<1>3. AnswerInv' /\ ShownIsTrue'
  BY <1>1 DEF VehicleInv, AnswerInv, ShownIsTrue
<1>. QED
  BY <1>1, <1>2, <1>3 DEF VehicleInv, ContractStep, Contract!vars

(* Failures and answers are told apart, and neither is what is waited for. *)
LEMMA RepliesAreAnswers ==
  ASSUME NEW a \in Replies
  PROVE  a \notin Failures /\ a # Waiting
BY DEF Replies, Kinds, Failures, Timeout, Error, Other, Waiting

LEMMA FailuresAreAnswers ==
  ASSUME NEW a \in Failures
  PROVE  a # Waiting
BY DEF Failures, Timeout, Error, Other, Waiting

LEMMA ReturnKeeps ==
  ASSUME VehicleInv, Busy, NEW a, NEW complete \in BOOLEAN, Returns(a, complete),
         a \in Failures \/ (a \in Replies /\ a.ecu = call.ecu /\ a.kind # "pending")
  PROVE  VehicleInv' /\ ContractStep
<1>1. /\ answer' = a /\ whole' = complete
      /\ call' = NoCall /\ written' = FALSE /\ seen' = 0
      /\ failed' = IF a \in Failures THEN failed \cup {call.ecu} ELSE failed
      /\ UNCHANGED <<session, task, pos, asked, shown, due>>
      /\ session = "open" /\ call # NoCall
  BY DEF Returns, client, Busy
<1>2. /\ answer = Waiting /\ pos # Over /\ call = Asks(task, pos, asked) /\ call.ecu \in Ecus
  BY <1>1, AsksTyped DEF VehicleInv, CallInv
<1>3. CallInv'
  <2>1. failed' \subseteq Ecus
    BY <1>1, <1>2 DEF VehicleInv, CallInv
  <2>2. seen' \in 0 .. PendingLimit
    BY <1>1, VehicleAssumption
  <2>. QED
    BY <1>1, <1>2, <2>1, <2>2 DEF VehicleInv, CallInv
<1>4. AnswerInv' /\ ShownIsTrue'
  BY <1>1, <1>2 DEF VehicleInv, AnswerInv, ShownIsTrue
<1>5. Contract!Return
  BY <1>1, <1>2, RepliesAreAnswers, FailuresAreAnswers DEF Contract!Return, Contract!MayReturn
<1>. QED
  BY <1>3, <1>4, <1>5 DEF VehicleInv, ContractStep, Contract!Next

LEMMA FailKeeps ==
  ASSUME VehicleInv, Busy, NEW failure \in Failures, Fails(failure)
  PROVE  VehicleInv' /\ ContractStep
BY ReturnKeeps DEF Fails

LEMMA ReceiveKeeps ==
  ASSUME VehicleInv, Busy, NEW reply \in Replies, reply.ecu = call.ecu, NEW complete \in BOOLEAN,
         Receives(reply, complete)
  PROVE  VehicleInv' /\ ContractStep
<1>1. CASE reply.kind # "pending"
  BY <1>1, ReturnKeeps DEF Receives
<1>2. CASE reply.kind = "pending" /\ TooMany(seen)
  BY <1>2, FailKeeps DEF Receives, Failures
<1>3. CASE reply.kind = "pending" /\ ~TooMany(seen)
  <2>1. /\ seen' = seen + 1 /\ seen < PendingLimit
        /\ UNCHANGED <<session, task, pos, asked, shown, call, written, answer, whole, failed, due>>
    BY <1>3, VehicleAssumption DEF Receives, Counted, TooMany, client, VehicleInv, CallInv
  <2>2. CallInv'
    BY <2>1, VehicleAssumption DEF VehicleInv, CallInv
  <2>3. AnswerInv' /\ ShownIsTrue'
    BY <2>1 DEF VehicleInv, AnswerInv, ShownIsTrue
  <2>. QED
    BY <2>1, <2>2, <2>3 DEF VehicleInv, ContractStep, Contract!vars
<1>. QED
  BY <1>1, <1>2, <1>3

(* A module is done with a request, or not. *)
LEMMA DueShrinks ==
  ASSUME VehicleInv, NEW e \in Ecus, due[e] # <<>>,
         due' = due \/ due' = [due EXCEPT ![e] = Tail(@)],
         UNCHANGED <<session, task, pos, asked, shown, call, written, seen, answer, whole, failed>>
  PROVE  VehicleInv' /\ ContractStep
<1>1. due \in [Ecus -> Seq(Requests)]
      /\ \A d \in Ecus : \A i \in DOMAIN due[d] : due[d][i].ecu = d
  BY DEF VehicleInv, CallInv
<1>2. due' \in [Ecus -> Seq(Requests)]
  BY <1>1
<1>3. ASSUME NEW d \in Ecus, NEW i \in DOMAIN due'[d] PROVE due'[d][i].ecu = d
  <2>1. CASE due'[d] = due[d]
    BY <1>1, <1>3, <2>1
  <2>2. CASE due'[d] = Tail(due[d]) /\ due[d] # <<>>
    BY <1>1, <1>3, <2>2
  <2>. QED
    BY <1>1, <2>1, <2>2
<1>4. CallInv'
  BY <1>2, <1>3 DEF VehicleInv, CallInv
<1>5. AnswerInv' /\ ShownIsTrue'
  BY DEF VehicleInv, AnswerInv, ShownIsTrue
<1>. QED
  BY <1>4, <1>5 DEF VehicleInv, ContractStep, Contract!vars

LEMMA SayKeeps ==
  ASSUME VehicleInv, NEW e \in Ecus, NEW kind \in Kinds, Says(e, kind)
  PROVE  /\ VehicleInv' /\ ContractStep /\ UNCHANGED <<client, request>>
         /\ Reply(due[e][1], kind) \in Replies /\ Reply(due[e][1], kind).ecu = e
         /\ Reply(due[e][1], kind).kind = kind
<1>1. /\ due[e] # <<>>
      /\ due' = due \/ due' = [due EXCEPT ![e] = Tail(@)]
      /\ UNCHANGED <<client, request>>
  BY DEF Says
<1>2. UNCHANGED <<session, task, pos, asked, shown, call, written, seen, answer, whole, failed>>
  BY <1>1 DEF client, request
<1>3. due[e][1] \in Requests /\ due[e][1].ecu = e
  BY <1>1 DEF VehicleInv, CallInv
<1>4. Reply(due[e][1], kind) \in Replies /\ Reply(due[e][1], kind).ecu = e
      /\ Reply(due[e][1], kind).kind = kind
  BY <1>3 DEF Reply, Requests, Replies
<1>. QED
  BY <1>1, <1>2, <1>4, DueShrinks

LEMMA IgnoreKeeps ==
  ASSUME VehicleInv, NEW e \in Ecus, Ignore(e)
  PROVE  VehicleInv' /\ ContractStep
BY DueShrinks DEF Ignore, client, request


-----------------------------------------------------------------------------
(* J2534 *)

LEMMA J2534HearsKeeps ==
  ASSUME VehicleInv, J2534Inv, NEW e \in Ecus, NEW kind \in Kinds, J2534Hears(e, kind)
  PROVE  VehicleInv' /\ ContractStep /\ J2534Inv' /\ UNCHANGED <<session, filters, passes>>
<1>. DEFINE reply == Reply(due[e][1], kind)
            start == Item("start", reply)
            message == Item("message", reply)
<1>1. Says(e, kind) /\ UNCHANGED <<filters, passes>>
  BY DEF J2534Hears
<1>2. VehicleInv' /\ ContractStep /\ reply \in Replies /\ reply.ecu = e /\ session' = session
  BY <1>1, SayKeeps DEF client
<1>3. rx' = IF e \notin passes THEN rx
            ELSE rx \o (IF Long(reply) THEN <<start>> ELSE <<>>) \o <<message>>
  BY DEF J2534Hears
<1>4. start \in Queued /\ message \in Queued
  BY <1>2 DEF Item, Queued, Said
<1>. HIDE DEF reply, start, message
<1>5. rx' \in Seq(Queued)
  BY <1>3, <1>4 DEF J2534Inv
<1>. QED
  BY <1>1, <1>2, <1>5 DEF J2534Inv

LEMMA J2534ReadKeeps ==
  ASSUME VehicleInv, J2534Inv, J2534Read
  PROVE  VehicleInv' /\ ContractStep /\ J2534Inv' /\ UNCHANGED <<session, filters, passes>>
<1>1. Busy /\ UNCHANGED <<filters, passes>>
  BY DEF J2534Read
<1>2. PICK n \in 1 .. Batch :
        /\ n <= Len(rx)
        /\ rx' = SubSeq(rx, n + 1, Len(rx))
        /\ LET good == {i \in 1 .. n : Usable(rx[i])}
           IN  IF good = {} THEN Idle
               ELSE Receives(rx[CHOOSE i \in good : \A k \in good : i <= k].reply, TRUE)
  BY DEF J2534Read
<1>. DEFINE good == {i \in 1 .. n : Usable(rx[i])}
            first == CHOOSE i \in good : \A k \in good : i <= k
<1>3. n \in Nat
  BY BatchAssumption
<1>4. J2534Inv'
  BY <1>2, <1>3 DEF J2534Inv
<1>5. CASE good = {}
  <2>1. Idle
    BY <1>2, <1>5
  <2>. QED
    BY <1>1, <1>4, <2>1, Idles DEF Idle, vehicle, client
<1>6. CASE good # {}
  <2>1. Receives(rx[first].reply, TRUE)
    BY <1>2, <1>6
  <2>2. first \in good
    <3>1. good \subseteq Nat
      BY <1>3
    <3>. HIDE DEF good
    <3>2. PICK i \in good : \A k \in good : i <= k
      BY <1>6, <3>1, LeastExists
    <3>. QED
      BY <3>2
  <2>3. rx[first] \in Queued /\ Usable(rx[first])
    BY <1>2, <1>3, <2>2 DEF J2534Inv
  <2>. HIDE DEF first, good
  <2>4. rx[first].reply \in Replies /\ rx[first].reply.ecu = call.ecu
    BY <2>3 DEF Queued, Usable, Said
  <2>5. session' = session
    BY <2>1 DEF Receives, Returns, Fails, client
  <2>. QED
    BY <1>1, <1>4, <2>1, <2>4, <2>5, ReceiveKeeps
<1>. QED
  BY <1>5, <1>6

LEMMA J2534Keeps ==
  ASSUME VehicleInv, PassInv, J2534Inv, transport = "j2534", transport' = transport, J2534Next
  PROVE  VehicleInv' /\ ContractStep /\ PassInv' /\ J2534Inv'
<1>1. /\ \A failure \in {Timeout, Error, Other} : failure \in Failures
      /\ call # NoCall => call.ecu \in Ecus
  BY AsksTyped DEF Failures, VehicleInv, CallInv
<1>2. CASE J2534Open
  <2>1. Opened /\ passes' = {} /\ rx' = <<>> /\ filters' = filters /\ session = "closed"
    BY <1>2 DEF J2534Open, Opened
  <2>. QED
    BY <2>1, OpenKeeps DEF PassInv, J2534Inv
<1>3. CASE J2534OpenFails
  <2>1. filters' = {} /\ passes' = {} /\ rx' = <<>> /\ Idle
    BY <1>3 DEF J2534OpenFails, OpenFails, Idle
  <2>. QED
    BY <2>1, Idles DEF PassInv, J2534Inv
<1>4. CASE J2534Close
  <2>1. Closed /\ filters' = {} /\ passes' = {} /\ rx' = <<>>
    BY <1>4 DEF J2534Close, DropFilters
  <2>. QED
    BY <2>1, CloseKeeps DEF PassInv, J2534Inv
<1>5. CASE J2534Write
  <2>1. /\ Busy /\ Sent(call.ecu) /\ session' = session /\ session = "open" /\ call # NoCall
        /\ filters' = filters \cup {call.ecu}
        /\ passes' = IF call.ecu \in filters THEN passes ELSE passes \cup {call.ecu}
        /\ rx' = Append(rx, [type |-> "done", ecu |-> call.ecu, reply |-> NoCall])
    BY <1>5 DEF J2534Write, Sent, client, Busy
  <2>2. [type |-> "done", ecu |-> call.ecu, reply |-> NoCall] \in Queued
    BY <1>1, <2>1 DEF Queued
  <2>3. J2534Inv'
    BY <2>1, <2>2 DEF J2534Inv
  <2>4. PassInv'
    BY <2>1 DEF PassInv
  <2>. QED
    BY <1>1, <2>1, <2>3, <2>4, SentKeeps
<1>6. CASE J2534WriteFails
  <2>1. /\ Busy /\ Fails(Error) /\ session' = session /\ session = "open" /\ rx' = rx
        /\ \/ filters' = filters /\ passes' = passes
           \/ filters' = filters \cup {call.ecu} /\ passes' = passes \cup {call.ecu}
    BY <1>6 DEF J2534WriteFails, Fails, Returns, client, Busy
  <2>2. PassInv' /\ J2534Inv'
    BY <2>1 DEF PassInv, J2534Inv
  <2>. QED
    BY <1>1, <2>1, <2>2, FailKeeps
<1>7. CASE J2534Read
  BY <1>7, J2534ReadKeeps DEF PassInv
<1>8. CASE J2534ReadFails \/ J2534Timeout
  <2>1. /\ Busy /\ (Fails(Error) \/ Fails(Timeout)) /\ session' = session
        /\ UNCHANGED <<filters, passes, rx>>
    BY <1>8 DEF J2534ReadFails, J2534Timeout, Fails, Returns, client, j2534
  <2>2. PassInv' /\ J2534Inv'
    BY <2>1 DEF PassInv, J2534Inv
  <2>. QED
    BY <1>1, <2>1, <2>2, FailKeeps
<1>9. ASSUME NEW e \in Ecus, NEW kind \in Kinds, J2534Hears(e, kind)
      PROVE  VehicleInv' /\ ContractStep /\ PassInv' /\ J2534Inv'
  BY <1>9, J2534HearsKeeps DEF PassInv
<1>. QED
  BY <1>2, <1>3, <1>4, <1>5, <1>6, <1>7, <1>8, <1>9 DEF J2534Next, J2534Step


-----------------------------------------------------------------------------
(* ELM327 *)

(* A request comes to its end, with whatever is printed. *)
LEMMA ElmReturns ==
  ASSUME VehicleInv, ElmInv, Busy, ElmAnswer, written, text # <<>>, text[1].kind # "pending"
  PROVE  VehicleInv' /\ ContractStep /\ written' = FALSE /\ session' = session
<1>1. text[1] \in Said(call.ecu)
  BY DEF ElmInv
<1>2. text[1] \in Replies /\ text[1].ecu = call.ecu
  BY <1>1 DEF Said
<1>3. Returns(text[1], Len(text) = 1 /\ prompt)
  BY DEF ElmAnswer
<1>4. CASE Len(text) = 1 /\ prompt
  BY <1>2, <1>3, <1>4, ReturnKeeps DEF Returns, client
<1>5. CASE ~(Len(text) = 1 /\ prompt)
  BY <1>2, <1>3, <1>5, ReturnKeeps DEF Returns, client
<1>. QED
  BY <1>4, <1>5

LEMMA ElmFails ==
  ASSUME VehicleInv, Busy, NEW failure \in {Timeout, Error, Other}, Fails(failure)
  PROVE  VehicleInv' /\ ContractStep /\ written' = FALSE /\ session' = session
BY FailKeeps DEF Fails, Returns, client, Failures

LEMMA ElmHearsKeeps ==
  ASSUME VehicleInv, ElmInv, NEW e \in Ecus, NEW kind \in Kinds, ElmHears(e, kind)
  PROVE  VehicleInv' /\ ContractStep /\ ElmInv'
<1>. DEFINE reply == Reply(due[e][1], kind)
<1>1. Says(e, kind) /\ UNCHANGED <<address, header, accepts, busy, prompt>>
  BY DEF ElmHears
<1>2. /\ VehicleInv' /\ ContractStep /\ reply \in Said(e)
      /\ UNCHANGED <<session, call, written>>
  BY <1>1, SayKeeps DEF client, request, Said
<1>3. text' = IF e = accepts /\ written /\ ~prompt THEN Append(text, reply) ELSE text
  BY DEF ElmHears
<1>. HIDE DEF reply
<1>4. written => address = call.ecu /\ text' \in Seq(Said(call.ecu))
  <2>. SUFFICES ASSUME written PROVE address = call.ecu /\ text' \in Seq(Said(call.ecu))
    OBVIOUS
  <2>1. /\ address = call.ecu /\ text \in Seq(Said(call.ecu)) /\ call.ecu \in Ecus
        /\ address # NoCall
    BY AsksTyped, VehicleAssumption DEF ElmInv, VehicleInv, CallInv
  <2>2. accepts = call.ecu
    BY <2>1 DEF ElmInv
  <2>3. e = accepts => reply \in Said(call.ecu)
    BY <1>2, <2>2
  <2>4. reply \in Said(call.ecu) => Append(text, reply) \in Seq(Said(call.ecu))
    BY <2>1
  <2>. QED
    BY <1>3, <2>1, <2>3, <2>4
<1>. QED
  BY <1>1, <1>2, <1>4 DEF ElmInv

LEMMA ElmKeeps ==
  ASSUME VehicleInv, ElmInv, ElmNext
  PROVE  VehicleInv' /\ ContractStep /\ ElmInv'
<1>1. /\ call # NoCall => call.ecu \in Ecus /\ call.ecu # NoCall
      /\ ~written \/ call # NoCall
  BY AsksTyped, VehicleAssumption DEF VehicleInv, CallInv
<1>2. CASE ElmOpen
  <2>1. /\ Opened /\ session = "closed" /\ session' = "open" /\ written' = written /\ header' = NoCall
        /\ accepts' = NoCall /\ busy' = FALSE /\ address' = address
    BY <1>2 DEF ElmOpen, Opened
  <2>2. ~written /\ address = NoCall
    BY <2>1 DEF ElmInv, VehicleInv, CallInv
  <2>. QED
    BY <2>1, <2>2, OpenKeeps DEF ElmInv
<1>3. CASE ElmClose
  <2>1. /\ Closed /\ session = "open" /\ pos = Over /\ written' = written
        /\ address' = NoCall /\ UNCHANGED <<header, accepts, busy, text>>
    BY <1>3 DEF ElmClose, Closed, request
  <2>2. ~written
    BY <2>1 DEF VehicleInv, CallInv
  <2>. QED
    BY <2>1, <2>2, CloseKeeps DEF ElmInv
<1>4. CASE ElmSelect
  <2>1. /\ Busy /\ ~written /\ Idle /\ address' = call.ecu /\ accepts' = call.ecu /\ busy' = FALSE
        /\ header' = IF busy THEN header ELSE call.ecu
        /\ UNCHANGED <<session, call, written>> /\ session = "open"
    BY <1>4 DEF ElmSelect, Idle, vehicle, client, request, Busy
  <2>2. ElmInv'
    BY <1>1, <2>1 DEF ElmInv, Busy
  <2>. QED
    BY <2>1, <2>2, Idles
<1>5. CASE ElmWrite
  <2>1. /\ Busy /\ ~written /\ address = call.ecu /\ text' = <<>> /\ busy' = FALSE
        /\ IF busy THEN Fails(Error) ELSE Sent(header)
        /\ UNCHANGED <<address, header, accepts>>
    BY <1>5 DEF ElmWrite, Selected
  <2>2. address # NoCall /\ header \in Ecus
    BY <1>1, <2>1 DEF ElmInv, Busy
  <2>3. CASE busy
    BY <2>1, <2>3, ElmFails DEF ElmInv
  <2>4. CASE ~busy
    <3>1. Sent(header) /\ UNCHANGED <<session, call>>
      BY <2>1, <2>4 DEF Sent, client
    <3>2. ElmInv'
      BY <2>1, <2>2, <3>1 DEF ElmInv
    <3>. QED
      BY <2>1, <2>2, <3>1, <3>2, SentKeeps
  <2>. QED
    BY <2>3, <2>4
<1>6. CASE ElmPrompt \/ ElmFinishes
  <2>1. /\ Idle /\ UNCHANGED <<session, call, written, address, header, accepts, text>>
        /\ (busy' = busy \/ busy' = FALSE)
    BY <1>6 DEF ElmPrompt, ElmFinishes, Idle, vehicle, client, request
  <2>2. ElmInv'
    BY <2>1 DEF ElmInv
  <2>. QED
    BY <2>1, <2>2, Idles
<1>7. CASE ElmRepeat
  <2>1. /\ Busy /\ written /\ text' = <<>> /\ Sent(header)
        /\ UNCHANGED <<session, call, address, header, accepts, busy>>
    BY <1>7 DEF ElmRepeat, Sent, client
  <2>2. header \in Ecus
    BY <1>1, <2>1 DEF ElmInv
  <2>3. ElmInv'
    BY <2>1 DEF ElmInv, Sent
  <2>. QED
    BY <2>1, <2>2, <2>3, SentKeeps
<1>8. CASE ElmGiveUp \/ ElmLineFails
  <2>1. /\ Busy /\ (Fails(Timeout) \/ Fails(Other)) /\ UNCHANGED <<address, header, accepts, busy, text>>
    BY <1>8 DEF ElmGiveUp, ElmLineFails, elm
  <2>. QED
    BY <2>1, ElmFails DEF ElmInv
<1>9. CASE ElmRead
  <2>1. /\ Busy /\ written /\ UNCHANGED <<address, header, accepts, busy, text>>
        /\ IF text = <<>> THEN Fails(Error) ELSE text[1].kind # "pending" /\ ElmAnswer
    BY <1>9 DEF ElmRead, elm
  <2>2. VehicleInv' /\ ContractStep /\ written' = FALSE /\ session' = session
    BY <2>1, ElmFails, ElmReturns
  <2>. QED
    BY <2>1, <2>2 DEF ElmInv
<1>10. CASE ElmReadCut
  <2>1. /\ Busy /\ written /\ UNCHANGED <<address, header, accepts, text>>
        /\ Fails(Timeout) \/ Fails(Error) \/ (text # <<>> /\ text[1].kind # "pending" /\ ElmAnswer)
    BY <1>10 DEF ElmReadCut
  <2>2. VehicleInv' /\ ContractStep /\ written' = FALSE /\ session' = session
    BY <2>1, ElmFails, ElmReturns
  <2>3. header \in Ecus
    BY <1>1, <2>1 DEF ElmInv
  <2>. QED
    BY <2>1, <2>2, <2>3 DEF ElmInv
<1>11. ASSUME NEW e \in Ecus, NEW kind \in Kinds, ElmHears(e, kind)
       PROVE  VehicleInv' /\ ContractStep /\ ElmInv'
  BY <1>11, ElmHearsKeeps
<1>. QED
  BY <1>2, <1>3, <1>4, <1>5, <1>6, <1>7, <1>8, <1>9, <1>10, <1>11 DEF ElmNext, ElmStep


-----------------------------------------------------------------------------
(* SocketCAN *)

LEMMA FramesFacts ==
  /\ Frames \in Nat \ {0} /\ IndexMod \in Nat \ {0} /\ Frames < IndexMod
  /\ \A i \in 1 .. Frames : i % IndexMod = i
<1>1. Frames \in Nat \ {0} /\ IndexMod \in Nat \ {0} /\ Frames < IndexMod
  BY SocketCanAssumption, IndexAssumption
<1>2. ASSUME NEW i \in 1 .. Frames PROVE i % IndexMod = i
  BY <1>1
<1>. QED
  BY <1>1, <1>2

(* What a module sends of an answer: a single frame, or a first frame and the    *)
(* others in order.                                                          *)
LEMMA PayloadFacts ==
  ASSUME NEW e, NEW reply \in Said(e)
  PROVE  \/ Payload(reply) = <<Frame("single", 0, reply, 0)>>
         \/ /\ Payload(reply)[1] = Frame("first", 0, reply, Frames)
            /\ Tail(Payload(reply)) = [i \in 1 .. Frames |-> Frame("consecutive", i, reply, Frames)]
            /\ Len(Payload(reply)) = Frames + 1
            /\ Payload(reply) = <<Frame("first", 0, reply, Frames)>>
                                \o [i \in 1 .. Frames |-> Frame("consecutive", i, reply, Frames)]
<1>. DEFINE rest == [i \in 1 .. Frames |-> Frame("consecutive", i % IndexMod, reply, Frames)]
            plain == [i \in 1 .. Frames |-> Frame("consecutive", i, reply, Frames)]
            head == Frame("first", 0, reply, Frames)
<1>1. rest = plain
  BY FramesFacts
<1>2. Frames \in Nat \ {0}
  BY FramesFacts
<1>3. CASE Payload(reply) = Encode(reply, 0)
  BY <1>3 DEF Encode
<1>4. CASE Payload(reply) = Encode(reply, Frames)
  <2>1. Payload(reply) = <<head>> \o plain
    BY <1>1, <1>2, <1>4 DEF Encode
  <2>2. plain \in Seq({plain[i] : i \in 1 .. Frames}) /\ Len(plain) = Frames
    BY <1>2
  <2>. HIDE DEF plain, head
  <2>3. /\ (<<head>> \o plain)[1] = head /\ Len(<<head>> \o plain) = Frames + 1
        /\ Tail(<<head>> \o plain) = plain
    <3>1. <<head>> \in Seq({head}) /\ Len(<<head>>) = 1 /\ <<head>>[1] = head
      OBVIOUS
    <3>. DEFINE S == {head} \cup {plain[i] : i \in 1 .. Frames}
    <3>2. <<head>> \in Seq(S) /\ plain \in Seq(S)
      BY <2>2
    <3>. HIDE DEF S
    <3>3. <<head>> \o plain \in Seq(S) /\ Len(<<head>> \o plain) = Frames + 1
      BY <1>2, <2>2, <3>1, <3>2
    <3>4. \A i \in 1 .. Frames : Tail(<<head>> \o plain)[i] = plain[i]
      BY <1>2, <2>2, <3>1, <3>2, <3>3
    <3>5. Tail(<<head>> \o plain) \in Seq(S) /\ Len(Tail(<<head>> \o plain)) = Frames
      BY <1>2, <3>3
    <3>6. Tail(<<head>> \o plain) = plain
      BY <2>2, <3>2, <3>4, <3>5
    <3>. QED
      BY <1>2, <2>2, <3>1, <3>2, <3>3, <3>6
  <2>4. /\ Payload(reply)[1] = head /\ Tail(Payload(reply)) = plain
        /\ Len(Payload(reply)) = Frames + 1
    BY <2>1, <2>3
  <2>. QED
    BY <2>1, <2>4 DEF plain, head
<1>. QED
  BY <1>3, <1>4 DEF Payload

LEMMA PayloadTyped ==
  ASSUME NEW e \in Ecus, NEW reply \in Said(e)
  PROVE  /\ Payload(reply)[1] \in Spoken(e) /\ Payload(reply)[1].payload = reply
         /\ Payload(reply)[1].kind \in {"single", "first"}
         /\ Tail(Payload(reply)) \in Seq(Spoken(e))
         /\ \A i \in DOMAIN Tail(Payload(reply)) :
              Tail(Payload(reply))[i] = Frame("consecutive", i, reply, Frames)
<1>1. Frame("single", 0, reply, 0) \in Spoken(e) /\ Frame("first", 0, reply, Frames) \in Spoken(e)
      /\ \A i \in 1 .. Frames : Frame("consecutive", i, reply, Frames) \in Spoken(e)
  BY FramesFacts DEF Spoken, Frame
<1>4. \A kind, index, total : /\ Frame(kind, index, reply, total).payload = reply
                             /\ Frame(kind, index, reply, total).kind = kind
  BY DEF Frame
<1>2. CASE Payload(reply) = <<Frame("single", 0, reply, 0)>>
  <2>1. Tail(Payload(reply)) = <<>> /\ Payload(reply)[1] = Frame("single", 0, reply, 0)
    BY <1>2
  <2>2. Tail(Payload(reply)) \in Seq(Spoken(e)) /\ DOMAIN Tail(Payload(reply)) = {}
    <3>1. <<>> \in Seq(Spoken(e))
      BY EmptySeq
    <3>2. DOMAIN <<>> = {}
      OBVIOUS
    <3>. QED
      BY <2>1, <3>1, <3>2
  <2>. QED
    BY <1>1, <1>4, <2>1, <2>2
<1>3. CASE /\ Payload(reply)[1] = Frame("first", 0, reply, Frames)
           /\ Tail(Payload(reply)) = [i \in 1 .. Frames |-> Frame("consecutive", i, reply, Frames)]
  <2>1. [i \in 1 .. Frames |-> Frame("consecutive", i, reply, Frames)] \in Seq(Spoken(e))
    BY <1>1, FramesFacts
  <2>2. \A i \in DOMAIN Tail(Payload(reply)) :
          Tail(Payload(reply))[i] = Frame("consecutive", i, reply, Frames)
    <3>1. ASSUME NEW r, r = [i \in 1 .. Frames |-> Frame("consecutive", i, reply, Frames)]
          PROVE  \A i \in DOMAIN r : r[i] = Frame("consecutive", i, reply, Frames)
      BY <3>1
    <3>. QED
      BY <1>3, <3>1
  <2>3. Tail(Payload(reply)) \in Seq(Spoken(e))
    BY <1>3, <2>1
  <2>4. /\ Payload(reply)[1] \in Spoken(e) /\ Payload(reply)[1].payload = reply
        /\ Payload(reply)[1].kind \in {"single", "first"}
    <3>1. Payload(reply)[1] = Frame("first", 0, reply, Frames)
      BY <1>3
    <3>. QED
      BY <1>1, <1>4, <3>1
  <2>. QED
    BY <2>2, <2>3, <2>4
<1>. QED
  BY <1>2, <1>3, PayloadFacts

LEMMA WireTyped ==
  ASSUME NEW e \in Ecus, NEW spoken \in Seq(Spoken(e))
  PROVE  OnWire(e, spoken) \in Seq(Heard) /\ Len(OnWire(e, spoken)) = Len(spoken)
<1>1. ASSUME NEW i \in DOMAIN spoken PROVE [ecu |-> e, frame |-> spoken[i]] \in Heard
  <2>1. spoken[i] \in Spoken(e)
    OBVIOUS
  <2>. HIDE DEF Spoken
  <2>. QED
    BY <2>1 DEF Heard
<1>. QED
  BY <1>1 DEF OnWire

(* The reassembler keeps to what one module says. *)
LEMMA FeedTyped ==
  ASSUME NEW e \in Ecus, NEW a \in Assembling(e), NEW f \in Granted \cup Spoken(e)
  PROVE  /\ Feed(a, f).asm \in Assembling(e)
         /\ Feed(a, f).message \in Seq(Spoken(e))
         /\ Feed(a, f).message # <<>> => Feed(a, f).message[1].payload \in Said(e)
<1>1. a.expected \in Nat /\ a.next \in Nat \ {0} /\ a.buffer \in Seq(Spoken(e))
  BY DEF Assembling
<1>2. Reset \in Assembling(e)
  BY DEF Reset, Assembling
<1>3. ASSUME NEW m \in Seq(Spoken(e)), m # <<>> PROVE m[1].payload \in Said(e)
  <2>1. m[1] \in Spoken(e)
    BY <1>3
  <2>. QED
    BY <2>1 DEF Spoken
<1>4. CASE f \in Granted
  <2>1. f.kind = "flow"
    BY <1>4 DEF Granted, FlowControl, Frame
  <2>2. Feed(a, f) = Fed(a, <<>>, FALSE, FALSE)
    BY <2>1 DEF Feed
  <2>. QED
    BY <2>2 DEF Fed
<1>5. CASE f \in Spoken(e)
  <2>1. <<f>> \in Seq(Spoken(e)) /\ Append(a.buffer, f) \in Seq(Spoken(e)) /\ f.total \in Nat
        /\ f.kind \in {"single", "first", "consecutive"}
    BY <1>1, <1>5, FramesFacts DEF Spoken
  <2>2. Start(a, f) \in Assembling(e)
    BY <2>1 DEF Start, Assembling
  <2>. DEFINE next == [expected |-> a.expected - 1, next |-> a.next + 1, buffer |-> Append(a.buffer, f)]
  <2>3. a.expected > 0 => next \in Assembling(e)
    BY <1>1, <2>1 DEF Assembling
  <2>4. /\ f.kind = "single" => Feed(a, f) = Fed(Reset, <<f>>, FALSE, FALSE)
        /\ f.kind = "first" => Feed(a, f) = Fed(Start(a, f), <<>>, TRUE, FALSE)
    BY DEF Feed
  <2>5. CASE f.kind = "consecutive"
    <3>1. CASE a.expected = 0
      <4>1. Feed(a, f) = Fed(a, <<>>, FALSE, FALSE)
        BY <1>1, <2>5, <3>1 DEF Feed, InOrder
      <4>. QED
        BY <4>1 DEF Fed
    <3>2. CASE a.expected > 0 /\ ~InOrder(a, f)
      <4>1. Feed(a, f) = Fed(a, <<>>, FALSE, TRUE)
        <5>1. a.expected # 0
          BY <1>1, <3>2
        <5>. QED
          BY <2>5, <3>2, <5>1 DEF Feed
      <4>. QED
        BY <4>1 DEF Fed
    <3>3. CASE a.expected = 1 /\ InOrder(a, f)
      <4>1. Feed(a, f) = Fed(Reset, Append(a.buffer, f), FALSE, FALSE)
        BY <2>5, <3>3 DEF Feed, InOrder
      <4>. QED
        BY <1>2, <1>3, <2>1, <4>1 DEF Fed
    <3>4. CASE a.expected > 1 /\ InOrder(a, f)
      <4>1. Feed(a, f) = Fed(next, <<>>, FALSE, FALSE)
        <5>1. a.expected # 0 /\ a.expected # 1 /\ a.expected > 0
          BY <1>1, <3>4
        <5>. QED
          BY <2>5, <3>4, <5>1 DEF Feed
      <4>2. next \in Assembling(e)
        BY <1>1, <2>3, <3>4
      <4>. HIDE DEF next
      <4>. QED
        BY <4>1, <4>2 DEF Fed
    <3>. QED
      BY <1>1, <3>1, <3>2, <3>3, <3>4
  <2>6. CASE f.kind = "single"
    <3>1. Feed(a, f).asm = Reset /\ Feed(a, f).message = <<f>>
      BY <2>4, <2>6 DEF Fed
    <3>. QED
      BY <1>2, <1>3, <2>1, <3>1
  <2>7. CASE f.kind = "first"
    <3>1. Feed(a, f).asm = Start(a, f) /\ Feed(a, f).message = <<>>
      BY <2>4, <2>7 DEF Fed
    <3>. QED
      BY <2>2, <3>1
  <2>. QED
    BY <2>1, <2>5, <2>6, <2>7
<1>. QED
  BY <1>4, <1>5


LEMMA SocketFailKeeps ==
  ASSUME VehicleInv, SocketCanInv, Busy, NEW failure \in {Timeout, Error, Other}, Fails(failure),
         UNCHANGED socketcan
  PROVE  VehicleInv' /\ ContractStep /\ SocketCanInv'
<1>1. ~written'
  BY DEF Fails, Returns
<1>2. SocketCanInv'
  BY <1>1 DEF SocketCanInv, socketcan
<1>. QED
  BY <1>2, FailKeeps DEF Failures

LEMMA KernelReadKeeps ==
  ASSUME VehicleInv, SocketCanInv, KernelRead
  PROVE  VehicleInv' /\ ContractStep /\ SocketCanInv'
<1>. DEFINE e == call.ecu
<1>1. /\ Busy /\ prefer /\ inbox[e] # <<>> /\ inbox' = [inbox EXCEPT ![e] = Tail(inbox[e])]
      /\ Receives(inbox[e][1], TRUE)
      /\ UNCHANGED <<kernel, prefer, bound, wire, asks, held>>
  BY DEF KernelRead
<1>2. e \in Ecus
  BY <1>1, AsksTyped DEF VehicleInv, CallInv, Busy
<1>. HIDE DEF e
<1>3. inbox[e] \in Seq(Said(e)) /\ inbox[e] \in Seq(Replies) /\ inbox \in [Ecus -> Seq(Replies)]
  BY <1>2 DEF SocketCanInv
<1>4. inbox[e][1] \in Said(e)
  BY <1>1, <1>3
<1>5. inbox[e][1] \in Replies /\ inbox[e][1].ecu = call.ecu
  BY <1>4 DEF Said, e
<1>6. Tail(inbox[e]) \in Seq(Said(e)) /\ Tail(inbox[e]) \in Seq(Replies)
  BY <1>1, <1>3
<1>7. /\ inbox' \in [Ecus -> Seq(Replies)]
      /\ \A d \in Ecus : inbox'[d] \in Seq(Said(d))
  BY <1>1, <1>2, <1>3, <1>6 DEF SocketCanInv
<1>8. SocketCanInv'
  BY <1>1, <1>7 DEF SocketCanInv
<1>. QED
  BY <1>1, <1>5, <1>8, ReceiveKeeps

LEMMA KernelHearsKeeps ==
  ASSUME VehicleInv, SocketCanInv, NEW e \in Ecus, NEW kind \in Kinds, KernelHears(e, kind)
  PROVE  VehicleInv' /\ ContractStep /\ SocketCanInv'
<1>. DEFINE reply == Reply(due[e][1], kind)
<1>1. /\ Says(e, kind)
      /\ inbox' = IF e \in sockets THEN [inbox EXCEPT ![e] = Append(inbox[e], reply)] ELSE inbox
      /\ UNCHANGED <<kernel, prefer, bound, wire, asks, held, asm>>
  BY DEF KernelHears
<1>2. /\ VehicleInv' /\ ContractStep /\ reply \in Said(e) /\ reply \in Replies
      /\ UNCHANGED <<call, written>>
  BY <1>1, SayKeeps DEF request, Said
<1>. HIDE DEF reply
<1>3. /\ inbox \in [Ecus -> Seq(Replies)] /\ \A d \in Ecus : inbox[d] \in Seq(Said(d))
  BY DEF SocketCanInv
<1>4. Append(inbox[e], reply) \in Seq(Said(e)) /\ Append(inbox[e], reply) \in Seq(Replies)
  BY <1>2, <1>3
<1>5. /\ inbox' \in [Ecus -> Seq(Replies)] /\ \A d \in Ecus : inbox'[d] \in Seq(Said(d))
  BY <1>1, <1>3, <1>4
<1>6. SocketCanInv'
  BY <1>1, <1>2, <1>5 DEF SocketCanInv
<1>. QED
  BY <1>2, <1>6

LEMMA RawHearsKeeps ==
  ASSUME VehicleInv, SocketCanInv, NEW e \in Ecus, NEW kind \in Kinds, RawHears(e, kind)
  PROVE  VehicleInv' /\ ContractStep /\ SocketCanInv'
<1>. DEFINE reply == Reply(due[e][1], kind)
            head == Payload(reply)[1]
<1>1. /\ Says(e, kind) /\ wire' = wire \o OnWire(e, <<head>>)
      /\ held' = held \/ held' = [held EXCEPT ![e] = reply]
      /\ UNCHANGED <<kernel, prefer, inbox, bound, asks, asm>>
  BY DEF RawHears
<1>2. /\ VehicleInv' /\ ContractStep /\ reply \in Said(e) /\ reply \in Replies
      /\ UNCHANGED <<call, written>>
  BY <1>1, SayKeeps DEF request, Said
<1>. HIDE DEF reply
<1>3. head \in Spoken(e)
  BY <1>2, PayloadTyped
<1>. HIDE DEF head
<1>4. OnWire(e, <<head>>) \in Seq(Heard)
  <2>1. <<head>> \in Seq(Spoken(e))
    BY <1>3
  <2>. QED
    BY <2>1, WireTyped
<1>5. wire' \in Seq(Heard)
  <2>1. wire \in Seq(Heard)
    BY DEF SocketCanInv
  <2>. QED
    BY <1>1, <1>4, <2>1
<1>6. /\ held' \in [Ecus -> Replies \cup {NoCall}]
      /\ \A d \in Ecus : held'[d] # NoCall => held'[d] \in Said(d)
  BY <1>1, <1>2 DEF SocketCanInv
<1>7. SocketCanInv'
  BY <1>1, <1>2, <1>5, <1>6 DEF SocketCanInv
<1>. QED
  BY <1>2, <1>7

LEMMA RawWriteKeeps ==
  ASSUME VehicleInv, SocketCanInv, RawWrite
  PROVE  VehicleInv' /\ ContractStep /\ SocketCanInv'
<1>1. /\ Busy /\ asm' = Reset /\ bound' = TRUE /\ (Sent(call.ecu) \/ SentUnheard)
      /\ (asks' = {} \/ asks' = {call.ecu})
      /\ UNCHANGED <<kernel, prefer, inbox, wire, held>>
  BY DEF RawWrite
<1>2. call.ecu \in Ecus
  BY <1>1, AsksTyped DEF VehicleInv, CallInv, Busy
<1>3. asm' \in Assembling(call'.ecu)
  BY <1>1, EmptySeq DEF Reset, Assembling
<1>4. SocketCanInv'
  BY <1>1, <1>2, <1>3 DEF SocketCanInv
<1>. QED
  BY <1>1, <1>2, <1>4, SentKeeps, UnheardKeeps

(* The frame at the head of the wire. *)
LEMMA HeadFacts ==
  ASSUME SocketCanInv, wire # <<>>
  PROVE  /\ wire[1].ecu \in Ecus /\ wire[1].frame \in Granted \cup Spoken(wire[1].ecu)
         /\ Tail(wire) \in Seq(Heard)
<1>1. wire \in Seq(Heard) /\ wire[1] \in Heard
  BY DEF SocketCanInv
<1>. QED
  BY <1>1 DEF Heard

LEMMA RawFeedKeeps ==
  ASSUME VehicleInv, SocketCanInv, Busy, written, ~prefer, NEW f \in Granted \cup Spoken(call.ecu),
         RawFeed(f)
  PROVE  VehicleInv' /\ ContractStep /\ (written' => asm' \in Assembling(call'.ecu))
<1>. DEFINE fed == Feed(asm, f)
<1>1. call.ecu \in Ecus /\ asm \in Assembling(call.ecu)
  BY AsksTyped DEF VehicleInv, CallInv, Busy, SocketCanInv
<1>2. /\ fed.asm \in Assembling(call.ecu)
      /\ fed.message # <<>> => fed.message[1].payload \in Said(call.ecu)
  BY <1>1, FeedTyped
<1>3. /\ asm' = fed.asm
      /\ IF fed.error THEN Fails(Other)
         ELSE IF fed.message # <<>>
           THEN Receives(fed.message[1].payload, IsWhole(fed.message))
           ELSE Idle
  BY DEF RawFeed
<1>. HIDE DEF fed
<1>4. CASE Fails(Other)
  BY <1>4, FailKeeps DEF Failures, Fails, Returns
<1>5. CASE fed.message # <<>> /\ Receives(fed.message[1].payload, IsWhole(fed.message))
  <2>. DEFINE reply == fed.message[1].payload
  <2>1. reply \in Replies /\ reply.ecu = call.ecu
    BY <1>2, <1>5 DEF Said
  <2>2. IsWhole(fed.message) \in BOOLEAN
    BY DEF IsWhole
  <2>3. written' => call' = call
    BY <1>5 DEF Receives, Returns, Fails
  <2>. QED
    BY <1>2, <1>3, <1>5, <2>1, <2>2, <2>3, ReceiveKeeps
<1>6. CASE Idle
  <2>1. call' = call
    BY <1>6 DEF Idle, vehicle, request
  <2>. QED
    BY <1>2, <1>3, <1>6, <2>1, Idles
<1>. QED
  BY <1>3, <1>4, <1>5, <1>6

LEMMA RawReadKeeps ==
  ASSUME VehicleInv, SocketCanInv, RawRead
  PROVE  VehicleInv' /\ ContractStep /\ SocketCanInv'
<1>. DEFINE e == wire[1].ecu
            f == wire[1].frame
<1>1. /\ Busy /\ written /\ ~prefer /\ wire # <<>>
      /\ UNCHANGED <<kernel, prefer, inbox, bound, asks>>
      /\ IF e # call.ecu
           THEN Idle /\ wire' = Tail(wire) /\ UNCHANGED <<asm, awaiting, held>>
         ELSE IF awaiting /\ f.kind = "flow"
           THEN RawContinue(f) /\ wire' = Tail(wire)
         ELSE /\ RawFeed(f)
              /\ IF Feed(asm, f).flow /\ Go(e)
                   THEN wire' = Tail(wire) \o Rest(e) /\ held' = [held EXCEPT ![e] = NoCall]
                   ELSE wire' = Tail(wire) /\ UNCHANGED held
  BY DEF RawRead
<1>2. e \in Ecus /\ f \in Granted \cup Spoken(e) /\ Tail(wire) \in Seq(Heard)
  BY <1>1, HeadFacts
<1>3. asm \in Assembling(call.ecu) /\ call.ecu \in Ecus
  BY <1>1, AsksTyped DEF SocketCanInv, VehicleInv, CallInv, Busy
<1>. HIDE DEF e, f
<1>4. CASE e # call.ecu
  <2>1. /\ Idle /\ wire' = Tail(wire) /\ UNCHANGED <<asm, held, call, written>>
    BY <1>1, <1>4 DEF Idle, vehicle, request
  <2>2. SocketCanInv'
    BY <1>1, <1>2, <2>1 DEF SocketCanInv
  <2>. QED
    BY <2>1, <2>2, Idles
<1>5. CASE e = call.ecu /\ awaiting /\ f.kind = "flow"
  <2>1. /\ Sent(call.ecu) \/ Idle
        /\ wire' = Tail(wire) /\ UNCHANGED <<asm, held>>
    BY <1>1, <1>5 DEF RawContinue
  <2>2. call' = call
    BY <2>1 DEF Idle, vehicle, request, Sent
  <2>3. SocketCanInv'
    BY <1>1, <1>2, <1>3, <2>1, <2>2 DEF SocketCanInv
  <2>. QED
    BY <1>1, <1>3, <2>1, <2>3, Idles, SentKeeps
<1>6. CASE e = call.ecu /\ ~(awaiting /\ f.kind = "flow")
  <2>1. RawFeed(f)
    BY <1>1, <1>6
  <2>2. VehicleInv' /\ ContractStep /\ (written' => asm' \in Assembling(call'.ecu))
    BY <1>1, <1>2, <1>6, <2>1, RawFeedKeeps
  <2>3. \/ wire' = Tail(wire) /\ held' = held
        \/ Go(e) /\ wire' = Tail(wire) \o Rest(e) /\ held' = [held EXCEPT ![e] = NoCall]
    BY <1>1, <1>6
  <2>4. Go(e) => Rest(e) \in Seq(Heard)
    <3>. SUFFICES ASSUME Go(e) PROVE Rest(e) \in Seq(Heard)
      OBVIOUS
    <3>1. held[e] \in Said(e)
      BY <1>2 DEF Go, SocketCanInv
    <3>2. Tail(Payload(held[e])) \in Seq(Spoken(e))
      BY <1>2, <3>1, PayloadTyped
    <3>. QED
      BY <1>2, <3>2, WireTyped DEF Rest
  <2>5. wire' \in Seq(Heard)
    <3>1. CASE wire' = Tail(wire)
      BY <1>2, <3>1
    <3>2. CASE Go(e) /\ wire' = Tail(wire) \o Rest(e)
      <4>1. Rest(e) \in Seq(Heard)
        BY <2>4, <3>2
      <4>. QED
        BY <1>2, <3>2, <4>1
    <3>. QED
      BY <2>3, <3>1, <3>2
  <2>6. /\ held' \in [Ecus -> Replies \cup {NoCall}]
        /\ \A d \in Ecus : held'[d] # NoCall => held'[d] \in Said(d)
    BY <1>2, <2>3 DEF SocketCanInv
  <2>7. SocketCanInv'
    BY <1>1, <2>2, <2>5, <2>6 DEF SocketCanInv
  <2>. QED
    BY <2>2, <2>7
<1>. QED
  BY <1>4, <1>5, <1>6

LEMMA LoseKeeps ==
  ASSUME VehicleInv, SocketCanInv, LoseFrame
  PROVE  VehicleInv' /\ ContractStep /\ SocketCanInv'
<1>1. /\ Idle /\ UNCHANGED <<kernel, prefer, inbox, bound, asm, asks, held>>
  BY DEF LoseFrame
<1>2. PICK i \in DOMAIN wire : wire' = SubSeq(wire, 1, i - 1) \o SubSeq(wire, i + 1, Len(wire))
  BY DEF LoseFrame
<1>3. wire \in Seq(Heard) /\ i \in 1 .. Len(wire)
  BY DEF SocketCanInv
<1>4. SubSeq(wire, 1, i - 1) \in Seq(Heard) /\ SubSeq(wire, i + 1, Len(wire)) \in Seq(Heard)
  BY <1>3
<1>5. wire' \in Seq(Heard)
  BY <1>2, <1>4
<1>6. UNCHANGED <<call, written>>
  BY <1>1 DEF Idle, vehicle, request
<1>7. SocketCanInv'
  BY <1>1, <1>5, <1>6 DEF SocketCanInv
<1>. QED
  BY <1>1, <1>7, Idles

LEMMA SocketCanKeeps ==
  ASSUME VehicleInv, SocketCanInv, SocketCanNext
  PROVE  VehicleInv' /\ ContractStep /\ SocketCanInv'
<1>1. /\ call # NoCall => call.ecu \in Ecus
      /\ session = "closed" \/ pos = Over => ~written
  BY AsksTyped DEF VehicleInv, CallInv
<1>2. CASE SocketCanOpen
  <2>1. /\ Opened /\ ~written /\ written' = written
        /\ UNCHANGED <<kernel, prefer, inbox, bound, wire, asks, held>>
    BY <1>1, <1>2 DEF SocketCanOpen, Opened
  <2>2. SocketCanInv'
    BY <2>1 DEF SocketCanInv
  <2>. QED
    BY <2>1, <2>2, OpenKeeps
<1>3. CASE SocketCanClose
  <2>1. /\ Closed /\ ~written /\ written' = written
        /\ inbox' = [e \in Ecus |-> <<>>] /\ bound' = FALSE /\ wire' = <<>> /\ asks' = {}
        /\ UNCHANGED <<kernel, prefer, held>>
    BY <1>1, <1>3 DEF SocketCanClose, Closed, request
  <2>2. /\ inbox' \in [Ecus -> Seq(Replies)] /\ \A e \in Ecus : inbox'[e] \in Seq(Said(e))
        /\ wire' \in Seq(Heard)
    BY <2>1, EmptySeq
  <2>3. SocketCanInv'
    BY <2>1, <2>2 DEF SocketCanInv
  <2>. QED
    BY <2>1, <2>3, CloseKeeps
<1>4. CASE FallBack
  <2>1. /\ Idle /\ ~written /\ ~written' /\ prefer' = FALSE
        /\ UNCHANGED <<kernel, inbox, bound, wire, asks, held>>
    BY <1>4 DEF FallBack, Idle, vehicle, request
  <2>2. SocketCanInv'
    BY <2>1 DEF SocketCanInv
  <2>. QED
    BY <2>1, <2>2, Idles
<1>5. CASE BindFails \/ SocketFails \/ KernelTimeout \/ RawTimeout
  BY <1>5, SocketFailKeeps DEF BindFails, SocketFails, KernelTimeout, RawTimeout
<1>6. CASE KernelWrite
  <2>1. /\ Busy /\ Sent(call.ecu) /\ prefer
        /\ UNCHANGED <<kernel, prefer, inbox, bound, wire, asks, held>>
    BY <1>6 DEF KernelWrite
  <2>2. SocketCanInv'
    BY <2>1 DEF SocketCanInv
  <2>. QED
    BY <1>1, <2>1, <2>2, SentKeeps DEF Busy
<1>7. ASSUME NEW e \in Ecus, NEW blockSize \in 0 .. 1, Grant(e, blockSize)
      PROVE  VehicleInv' /\ ContractStep /\ SocketCanInv'
  <2>1. /\ Idle /\ asks' = {} /\ wire' = Append(wire, [ecu |-> e, frame |-> FlowControl(blockSize)])
        /\ UNCHANGED <<kernel, prefer, inbox, bound, asm, held, call, written>>
    BY <1>7 DEF Grant, Idle, vehicle, request
  <2>2. [ecu |-> e, frame |-> FlowControl(blockSize)] \in Heard
    BY DEF Heard, Granted
  <2>3. SocketCanInv'
    BY <2>1, <2>2 DEF SocketCanInv
  <2>. QED
    BY <2>1, <2>3, Idles
<1>8. ASSUME NEW e \in Ecus, Abandon(e)
      PROVE  VehicleInv' /\ ContractStep /\ SocketCanInv'
  <2>1. /\ Idle /\ held' = [held EXCEPT ![e] = NoCall]
        /\ UNCHANGED <<kernel, prefer, inbox, bound, wire, asks, asm, call, written>>
    BY <1>8 DEF Abandon, Idle, vehicle, request
  <2>2. SocketCanInv'
    BY <2>1 DEF SocketCanInv
  <2>. QED
    BY <2>1, <2>2, Idles
<1>. QED
  BY <1>2, <1>3, <1>4, <1>5, <1>6, <1>7, <1>8, KernelReadKeeps, KernelHearsKeeps, RawHearsKeeps,
     RawWriteKeeps, RawReadKeeps, LoseKeeps DEF SocketCanNext, SocketCanStep

-----------------------------------------------------------------------------
LEMMA InitHolds == Init => IInv
<1>. SUFFICES ASSUME Init PROVE IInv
  OBVIOUS
<1>1. /\ session = "closed" /\ task \in Tasks /\ pos = Over /\ call = NoCall /\ written = FALSE
      /\ seen = 0 /\ answer = Waiting /\ whole = TRUE /\ asked = 0 /\ shown = {} /\ failed = {}
      /\ due = [e \in Ecus |-> <<>>]
  BY DEF Init, VehicleInit
<1>2. CallInv
  <2>1. due \in [Ecus -> Seq(Requests)] /\ \A e \in Ecus : \A i \in DOMAIN due[e] : FALSE
    <3>1. <<>> \in Seq(Requests) /\ DOMAIN <<>> = {}
      BY EmptySeq
    <3>. QED
      BY <1>1, <3>1
  <2>2. /\ pos \in Places(task) \cup {Over} /\ written \in BOOLEAN /\ whole \in BOOLEAN
        /\ asked \in Nat /\ seen \in 0 .. PendingLimit
    <3>1. PendingLimit \in Nat
      BY VehicleAssumption
    <3>2. asked \in Nat /\ seen \in 0 .. PendingLimit
      BY <1>1, <3>1
    <3>3. written \in BOOLEAN /\ whole \in BOOLEAN
      BY <1>1
    <3>. QED
      BY <1>1, <3>2, <3>3
  <2>3. \A e \in Ecus : \A i \in DOMAIN due[e] : due[e][i].ecu = e
    BY <2>1
  <2>4. call = NoCall /\ written = FALSE /\ session = "closed" /\ failed \subseteq Ecus
        /\ task \in Tasks
    BY <1>1
  <2>5. due \in [Ecus -> Seq(Requests)]
    BY <2>1
  <2>. QED
    BY <2>2, <2>3, <2>4, <2>5 DEF CallInv
<1>3. AnswerInv /\ ShownIsTrue
  BY <1>1 DEF AnswerInv, ShownIsTrue
<1>4. PassInv /\ J2534Inv
  BY EmptySeq DEF Init, J2534Init, PassInv, J2534Inv
<1>5. SocketCanInv
  <2>1. /\ kernel \in BOOLEAN /\ prefer = TRUE /\ inbox = [e \in Ecus |-> <<>>] /\ bound = FALSE
        /\ wire = <<>> /\ asks = {} /\ held = [e \in Ecus |-> NoCall]
    BY DEF Init, SocketCanInit
  <2>2. /\ inbox \in [Ecus -> Seq(Replies)] /\ \A e \in Ecus : inbox[e] \in Seq(Said(e))
        /\ wire \in Seq(Heard)
    BY <2>1, EmptySeq
  <2>. QED
    BY <1>1, <2>1, <2>2 DEF SocketCanInv
<1>6. ElmInv
  BY <1>1 DEF Init, ElmInit, ElmInv
<1>. QED
  BY <1>2, <1>3, <1>4, <1>5, <1>6 DEF Init, IInv, VehicleInv

(* What is no step of a transport leaves what the transports know about it. *)
LEMMA CommandKeeps ==
  ASSUME IInv, Command
  PROVE  IInv' /\ ContractStep
<1>1. /\ Ask \/ Take
      /\ UNCHANGED <<session, written, transport, filters, passes, rx>>
      /\ UNCHANGED <<kernel, prefer, inbox, bound, wire, asm, asks, held>>
      /\ UNCHANGED <<address, header, accepts, busy, text>>
  BY DEF Command, Ask, Take, j2534, socketcan, elm
<1>2. VehicleInv' /\ ContractStep
  BY <1>1, AskKeeps, TakeKeeps DEF IInv
<1>3. ~written
  BY <1>1 DEF Ask, Take, IInv, VehicleInv, CallInv
<1>4. PassInv'
  BY <1>1 DEF IInv, PassInv
<1>5. transport = "j2534" => J2534Inv'
  BY <1>1 DEF IInv, J2534Inv
<1>6. transport = "socketcan" => SocketCanInv'
  BY <1>1, <1>3 DEF IInv, SocketCanInv
<1>7. transport = "elm" => ElmInv'
  BY <1>1, <1>3 DEF IInv, ElmInv
<1>. QED
  BY <1>1, <1>2, <1>4, <1>5, <1>6, <1>7 DEF IInv

LEMMA SilentKeeps ==
  ASSUME IInv, Silent
  PROVE  IInv' /\ ContractStep
<1>1. PICK e \in Ecus : Ignore(e)
  BY DEF Silent
<1>2. /\ UNCHANGED <<session, call, written, transport, filters, passes, rx>>
      /\ UNCHANGED <<kernel, prefer, inbox, bound, wire, asm, asks, held>>
      /\ UNCHANGED <<address, header, accepts, busy, text>>
  BY <1>1 DEF Silent, Ignore, client, request, j2534, socketcan, elm
<1>3. VehicleInv' /\ ContractStep
  BY <1>1, IgnoreKeeps DEF IInv
<1>4. PassInv'
  BY <1>2 DEF IInv, PassInv
<1>5. transport = "j2534" => J2534Inv'
  BY <1>2 DEF IInv, J2534Inv
<1>6. transport = "socketcan" => SocketCanInv'
  BY <1>2 DEF IInv, SocketCanInv
<1>7. transport = "elm" => ElmInv'
  BY <1>2 DEF IInv, ElmInv
<1>. QED
  BY <1>2, <1>3, <1>4, <1>5, <1>6, <1>7 DEF IInv

LEMMA StepKeeps ==
  ASSUME IInv, [Next]_vars
  PROVE  IInv' /\ ContractStep
<1>1. CASE Command
  BY <1>1, CommandKeeps
<1>2. CASE Silent
  BY <1>2, SilentKeeps
<1>3. CASE Build("j2534", J2534Next)
  <2>1. transport = "j2534" /\ transport' = transport /\ J2534Next
    BY <1>3 DEF Build
  <2>2. VehicleInv' /\ ContractStep /\ PassInv' /\ J2534Inv'
    BY <2>1, J2534Keeps DEF IInv
  <2>. QED
    BY <2>1, <2>2 DEF IInv
<1>4. CASE Build("socketcan", SocketCanNext)
  <2>1. transport = "socketcan" /\ transport' = transport /\ SocketCanNext
        /\ UNCHANGED <<filters, passes, rx>>
    BY <1>4 DEF Build, j2534
  <2>2. VehicleInv' /\ ContractStep /\ SocketCanInv'
    BY <2>1, SocketCanKeeps DEF IInv
  <2>3. PassInv'
    BY <2>1 DEF IInv, PassInv
  <2>. QED
    BY <2>1, <2>2, <2>3 DEF IInv
<1>5. CASE Build("elm", ElmNext)
  <2>1. transport = "elm" /\ transport' = transport /\ ElmNext
        /\ UNCHANGED <<filters, passes, rx>>
    BY <1>5 DEF Build, j2534
  <2>2. VehicleInv' /\ ContractStep /\ ElmInv'
    BY <2>1, ElmKeeps DEF IInv
  <2>3. PassInv'
    BY <2>1 DEF IInv, PassInv
  <2>. QED
    BY <2>1, <2>2, <2>3 DEF IInv
<1>6. CASE UNCHANGED vars
  <2>1. Idle /\ UNCHANGED <<transport, j2534, socketcan, elm>>
    BY <1>6 DEF vars, Idle
  <2>2. VehicleInv' /\ ContractStep
    BY <2>1, Idles DEF IInv
  <2>3. UNCHANGED <<session, call, written>>
    BY <2>1 DEF Idle, vehicle, client, request
  <2>4. PassInv' /\ (transport = "j2534" => J2534Inv')
    BY <2>1, <2>3 DEF IInv, PassInv, J2534Inv, j2534
  <2>5. transport = "socketcan" => SocketCanInv'
    BY <2>1, <2>3 DEF IInv, SocketCanInv, socketcan
  <2>6. transport = "elm" => ElmInv'
    BY <2>1, <2>3 DEF IInv, ElmInv, elm
  <2>. QED
    BY <2>1, <2>2, <2>4, <2>5, <2>6 DEF IInv
<1>. QED
  BY <1>1, <1>2, <1>3, <1>4, <1>5, <1>6 DEF Next

(* What is shown is true, the filters are the channel's and the variables have   *)
(* their types, all by this invariant.                                       *)
THEOREM TransportsInvariance == Spec => []IInv
BY InitHolds, StepKeeps, PTL DEF Spec

(* The variables of a command have their types, and no request is called written *)
(* that is not under way.                                                    *)
THEOREM CommandTypeCorrect == Spec => []TypeOK
<1>1. IInv => TypeOK
  <2>. SUFFICES ASSUME IInv PROVE TypeOK
    OBVIOUS
  <2>1. CallInv /\ AnswerInv
    BY DEF IInv, VehicleInv
  <2>2. call # NoCall => call.ecu \in Ecus /\ call.n = asked
    BY <2>1, AsksTyped DEF CallInv
  <2>3. answer.kind \in {"waiting", "timeout", "error", "other"} \cup Kinds
    <3>1. CASE answer \in Replies
      BY <3>1 DEF Replies
    <3>2. CASE answer \notin Replies
      BY <2>1, <3>2 DEF AnswerInv, Failures, Waiting, Timeout, Error, Other
    <3>. QED
      BY <3>1, <3>2
  <2>. QED
    BY <2>1, <2>2, <2>3 DEF CallInv, TypeOK
<1>. QED
  BY <1>1, TransportsInvariance, PTL

(* What a command shows over any of the three transports is what the module it   *)
(* asked has said, to the service and identifier it asked for.               *)
THEOREM ShownAnswersAreTrue == Spec => []ShownIsTrue
<1>1. IInv => ShownIsTrue
  BY DEF IInv, VehicleInv
<1>. QED
  BY <1>1, TransportsInvariance, PTL

(* J2534: a filter is there for every module the transport believes to have one, *)
(* whatever was refused, closed or opened again.                             *)
THEOREM FiltersAreThere == Spec => []AnswersPass
<1>1. IInv => AnswersPass
  BY DEF IInv, PassInv, AnswersPass
<1>. QED
  BY <1>1, TransportsInvariance, PTL

(* Every transport implements Transport.request as base.py describes it: an      *)
(* answer of the module asked, never a responsePending, or a failure.        *)
THEOREM TransportsImplementContract == Spec => ImplementsContract
<1>1. Init => Contract!Init
  BY DEF Init, VehicleInit, Contract!Init
<1>2. IInv /\ [Next]_vars => [Contract!Next]_(Contract!vars)
  BY StepKeeps DEF ContractStep
<1>. QED
  BY <1>1, <1>2, TransportsInvariance, PTL DEF Spec, ImplementsContract, Contract!Spec

-----------------------------------------------------------------------------
(* Captures: sniff and sniff-diff.                                            *)

(* A frame tells of one of the doors, and of a counter. *)
TellsOf(f, doors) ==
  /\ f.id \in Senders /\ DOMAIN f = {"id", "data"}
  /\ f.data \in Seq(Door \cup 0 .. Rollover - 1) /\ DOMAIN f.data = 1 .. Width(f.id)
  /\ Width(f.id) > 0 => f.data[1] \in doors

AllTell(heard, doors) ==
  heard \in Seq(SniffFrame) /\ \A i \in DOMAIN heard : TellsOf(heard[i], doors)

(* What the frames of a capture tell was so during it. *)
ToldInv ==
  /\ capture \in Captures \cup {"none", "idle", "done"} /\ want \subseteq Senders
  /\ door \in Door /\ counter \in [Senders -> 0 .. Rollover - 1]
  /\ said \in [Captures -> SUBSET Door] /\ saved \in [Captures -> Seq(SniffFrame)]
  /\ onBus \in 0 .. MaxSeen /\ gone \in 0 .. MaxGone
  /\ AllTell(taken, Door) /\ AllTell(fifo, Door)
  /\ \A c \in Captures : AllTell(saved[c], said[c])
  /\ IF Capturing THEN AllTell(taken, said[capture]) /\ AllTell(fifo, said[capture]) ELSE fifo = <<>>

(* A file that is to be written does not exist yet. *)
FileInv ==
  /\ capture \in {"none", "before"} => saved["before"] = <<>>
  /\ capture # "done" => saved["after"] = <<>>

(* Once open the door stays open, until all begins anew. *)
DoorInv ==
  DoorOpen \in said["before"] =>
    /\ door = DoorOpen
    /\ capture \in {"after", "done"} => said["after"] \subseteq {DoorOpen}

(* The screen shows the last frame of each id. *)
ScreenInv ==
  /\ DOMAIN screen = Senders
  /\ \A s \in Senders :
       /\ Of(s, taken) = {} => screen[s] = <<>>
       /\ \A i \in Of(s, taken) : (\A k \in Of(s, taken) : k <= i) => screen[s] = <<taken[i].data>>

SniffInv == ToldInv /\ FileInv /\ DoorInv /\ ScreenInv

(* Each step keeps the invariant.                                             *)
LEMMA BytesTell ==
  ASSUME NEW s \in Senders, door \in Door, counter \in [Senders -> 0 .. Rollover - 1]
  PROVE  LET f == [id |-> s, data |-> Bytes(s)] IN TellsOf(f, {door}) /\ f \in SniffFrame
<1> DEFINE word == <<door, counter[s]>>
           Byte == Door \cup 0 .. Rollover - 1
           w == Width(s)
<1>1. word \in Seq(Byte) /\ Len(word) = 2 /\ word[1] = door
  <2>1. <<door, counter[s]>> \in Seq(Byte)
    OBVIOUS
  <2> QED
    BY <2>1
<1>2. w \in 0 .. 2
  BY SniffAssumption
<1>3. \A i \in 1 .. w : word[i] \in Byte
  BY <1>1, <1>2
<1> HIDE DEF word, Byte, w
<1>4. /\ SubSeq(word, 1, w) \in Seq(Byte) /\ Len(SubSeq(word, 1, w)) = w
      /\ \A i \in 1 .. w : SubSeq(word, 1, w)[i] = word[i]
  <2>1. 1 \in Int /\ w \in Int /\ w - 1 + 1 = w /\ \A i \in 1 .. w : 1 + i - 1 = i
    BY <1>2
  <2>2. /\ SubSeq(word, 1, w) \in Seq(Byte) /\ Len(SubSeq(word, 1, w)) = IF 1 <= w THEN w - 1 + 1 ELSE 0
        /\ \A i \in 1 .. w - 1 + 1 : SubSeq(word, 1, w)[i] = word[1 + i - 1]
    BY <1>3, <2>1, SubSeqProperties
  <2> QED
    BY <1>2, <2>1, <2>2
<1>5. Bytes(s) = SubSeq(word, 1, w)
  BY DEF Bytes, word, w
<1>6. Bytes(s) \in Seq(Byte) /\ DOMAIN Bytes(s) = 1 .. w /\ (w > 0 => Bytes(s)[1] = door)
  BY <1>1, <1>2, <1>4, <1>5
<1> QED
  BY <1>6 DEF TellsOf, SniffFrame, Byte, w

LEMMA TellsMore ==
  ASSUME NEW heard, NEW few, NEW many, AllTell(heard, few), few \subseteq many
  PROVE  AllTell(heard, many)
BY DEF AllTell, TellsOf

LEMMA NothingTells == ASSUME NEW doors PROVE AllTell(<<>>, doors)
BY EmptySeq DEF AllTell

LEMMA AppendTells ==
  ASSUME NEW heard, NEW doors, NEW f \in SniffFrame, AllTell(heard, doors), TellsOf(f, doors)
  PROVE  AllTell(Append(heard, f), doors)
<1>1. heard \in Seq(SniffFrame) /\ Append(heard, f) \in Seq(SniffFrame)
  BY DEF AllTell
<1>2. \A i \in DOMAIN Append(heard, f) : Append(heard, f)[i] = f \/ (i \in DOMAIN heard /\ Append(heard, f)[i] = heard[i])
  BY <1>1, AppendProperties
<1> QED
  BY <1>1, <1>2 DEF AllTell

LEMMA FirstTells ==
  ASSUME NEW heard, NEW doors, heard # <<>>, AllTell(heard, doors)
  PROVE  AllTell(Tail(heard), doors) /\ TellsOf(Head(heard), doors) /\ Head(heard) \in SniffFrame
<1>1. heard \in Seq(SniffFrame) /\ Len(heard) \in Nat \ {0} /\ DOMAIN heard = 1 .. Len(heard)
  BY EmptySeq DEF AllTell
<1>2. /\ Tail(heard) \in Seq(SniffFrame) /\ Len(Tail(heard)) = Len(heard) - 1
      /\ Head(heard) = heard[1] /\ Head(heard) \in SniffFrame
      /\ \A i \in 1 .. Len(Tail(heard)) : Tail(heard)[i] = heard[i + 1]
  BY <1>1, HeadTailProperties
<1>3. DOMAIN Tail(heard) = 1 .. Len(heard) - 1
  BY <1>2
<1>4. \A i \in DOMAIN Tail(heard) : i + 1 \in DOMAIN heard /\ Tail(heard)[i] = heard[i + 1]
  BY <1>1, <1>2, <1>3
<1>5. 1 \in DOMAIN heard
  BY <1>1
<1> QED
  BY <1>2, <1>4, <1>5 DEF AllTell

LEMMA StepTold == ASSUME ToldInv, FileInv, [SniffNext]_sniff PROVE ToldInv'
<1> USE DEF Captures
<1>1. CASE BeginCapture
  <2>1. /\ capture' \in {"before", "after"} /\ want' \subseteq Senders /\ fifo' = <<>> /\ taken' = <<>>
        /\ UNCHANGED <<saved, door, counter>> /\ onBus' = 0 /\ gone' = 0
        /\ said' = [said EXCEPT ![capture'] = {}]
    BY <1>1, SniffAssumption DEF BeginCapture
  <2>2. said' \in [Captures -> SUBSET Door] /\ \A c \in Captures : c # capture' => said'[c] = said[c]
    BY <2>1 DEF ToldInv
  <2>3. saved[capture'] = <<>>
    BY <1>1 DEF BeginCapture, FileInv
  <2>4. \A c \in Captures : AllTell(saved'[c], said'[c])
    BY <2>1, <2>2, <2>3, NothingTells DEF ToldInv
  <2> QED
    BY <2>1, <2>2, <2>4, NothingTells, SniffAssumption DEF ToldInv, Capturing
<1>2. CASE SniffReceive
  <2>1. Capturing /\ fifo # <<>> /\ fifo' = Tail(fifo)
        /\ UNCHANGED <<capture, want, saved, door, counter, said, onBus, gone>>
    BY <1>2 DEF SniffReceive
  <2>2. taken' = taken \/ taken' = Append(taken, Head(fifo))
    BY <1>2 DEF SniffReceive
  <2>3. ASSUME NEW doors, AllTell(taken, doors), AllTell(fifo, doors)
        PROVE  AllTell(taken', doors) /\ AllTell(fifo', doors)
    <3>1. AllTell(Tail(fifo), doors) /\ TellsOf(Head(fifo), doors) /\ Head(fifo) \in SniffFrame
      BY <2>1, <2>3, FirstTells
    <3>2. AllTell(Append(taken, Head(fifo)), doors)
      BY <2>3, <3>1, AppendTells
    <3> QED
      BY <2>1, <2>2, <2>3, <3>1, <3>2
  <2> QED
    BY <2>1, <2>3 DEF ToldInv, Capturing
<1>3. CASE EndCapture
  <2>1. /\ Capturing /\ fifo' = <<>> /\ saved' = [saved EXCEPT ![capture] = taken]
        /\ capture' \in {"idle", "done"} /\ UNCHANGED <<want, taken, door, counter, said, onBus, gone>>
    BY <1>3 DEF EndCapture
  <2>2. \A c \in Captures : AllTell(saved'[c], said'[c])
    BY <2>1 DEF ToldInv, Capturing
  <2>3. saved' \in [Captures -> Seq(SniffFrame)]
    BY <2>1 DEF ToldInv, AllTell
  <2> QED
    BY <2>1, <2>2, <2>3, NothingTells DEF ToldInv, Capturing
<1>4. CASE CaptureFails
  BY <1>4, NothingTells DEF CaptureFails, ToldInv, Capturing
<1>5. CASE StartOver
  <2>1. saved' \in [Captures -> Seq(SniffFrame)] /\ \A c \in Captures : saved'[c] = <<>>
    BY <1>5, EmptySeq DEF StartOver
  <2>2. 0 \in 0 .. Rollover - 1
    BY SniffAssumption
  <2> QED
    BY <1>5, <2>1, <2>2, NothingTells, SniffAssumption DEF StartOver, ToldInv, Capturing, Door
<1>6. CASE Event
  BY <1>6 DEF Event, ToldInv, Capturing, Door
<1>7. ASSUME NEW s \in Senders, Broadcast(s) PROVE ToldInv'
  <2> DEFINE f == [id |-> s, data |-> Bytes(s)]
             told == said[capture] \cup {door}
  <2>1. Capturing /\ UNCHANGED <<capture, want, taken, screen, saved, door>>
        /\ said' = [said EXCEPT ![capture] = told] /\ counter' = [counter EXCEPT ![s] = (@ + 1) % Rollover]
    BY <1>7 DEF Broadcast
  <2>2. f \in SniffFrame /\ TellsOf(f, {door})
    BY BytesTell DEF ToldInv
  <2>3. fifo' = fifo \/ fifo' = Append(fifo, f)
    BY <1>7 DEF Broadcast
  <2>4. said[capture] \subseteq told /\ {door} \subseteq told /\ told \subseteq Door /\ capture \in Captures
    BY <2>1 DEF ToldInv, Capturing
  <2>5. TellsOf(f, told) /\ TellsOf(f, Door)
    BY <2>2, <2>4 DEF TellsOf
  <2>6. AllTell(taken, told) /\ AllTell(fifo, told)
    BY <2>1, <2>4, TellsMore DEF ToldInv
  <2> HIDE DEF f, told
  <2>7. AllTell(fifo', told) /\ AllTell(fifo', Door)
    <3>1. AllTell(Append(fifo, f), told)
      BY <2>2, <2>5, <2>6, AppendTells
    <3>2. AllTell(fifo, Door) /\ AllTell(Append(fifo, f), Door)
      BY <2>2, <2>5, AppendTells DEF ToldInv
    <3> QED
      BY <2>3, <2>6, <3>1, <3>2
  <2>8. said'[capture] = told /\ said' \in [Captures -> SUBSET Door] /\ \A c \in Captures : c # capture => said'[c] = said[c]
    BY <2>1, <2>4 DEF ToldInv
  <2>9. \A c \in Captures : AllTell(saved'[c], said'[c])
    BY <2>1, <2>4, <2>8, TellsMore DEF ToldInv
  <2>10. counter' \in [Senders -> 0 .. Rollover - 1]
    <3>1. Rollover \in Nat \ {0} /\ counter[s] \in Nat
      BY SniffAssumption DEF ToldInv
    <3>2. (counter[s] + 1) % Rollover \in 0 .. Rollover - 1
      BY <3>1
    <3> QED
      BY <2>1, <3>2 DEF ToldInv
  <2>11. onBus' \in 0 .. MaxSeen /\ gone' \in 0 .. MaxGone
    BY <1>7, SniffAssumption DEF Broadcast, ToldInv
  <2> QED
    BY <2>1, <2>6, <2>7, <2>8, <2>9, <2>10, <2>11 DEF ToldInv, Capturing
<1>8. CASE UNCHANGED sniff
  BY <1>8 DEF sniff, ToldInv, Capturing
<1> QED
  BY <1>1, <1>2, <1>3, <1>4, <1>5, <1>6, <1>7, <1>8 DEF SniffNext

LEMMA StepFiles == ASSUME ToldInv, FileInv, [SniffNext]_sniff PROVE FileInv'
<1> USE DEF FileInv, ToldInv, Captures
<1>1. CASE BeginCapture
  BY <1>1 DEF BeginCapture
<1>2. CASE SniffReceive \/ CaptureFails \/ Event \/ UNCHANGED sniff
  BY <1>2 DEF SniffReceive, CaptureFails, Event, sniff, Capturing
<1>3. CASE EndCapture
  BY <1>3 DEF EndCapture, Capturing
<1>4. CASE StartOver
  BY <1>4 DEF StartOver
<1>5. ASSUME NEW s \in Senders, Broadcast(s) PROVE FileInv'
  BY <1>5 DEF Broadcast
<1> QED
  BY <1>1, <1>2, <1>3, <1>4, <1>5 DEF SniffNext

LEMMA StepDoors == ASSUME ToldInv, DoorInv, [SniffNext]_sniff PROVE DoorInv'
<1> USE DEF DoorInv, ToldInv, Captures, Door, DoorShut, DoorOpen
<1>1. CASE BeginCapture
  BY <1>1 DEF BeginCapture
<1>2. CASE SniffReceive \/ CaptureFails \/ Event \/ UNCHANGED sniff
  BY <1>2 DEF SniffReceive, CaptureFails, Event, sniff, Capturing
<1>3. CASE EndCapture
  BY <1>3 DEF EndCapture, Capturing
<1>4. CASE StartOver
  BY <1>4 DEF StartOver
<1>5. ASSUME NEW s \in Senders, Broadcast(s) PROVE DoorInv'
  BY <1>5 DEF Broadcast, Capturing
<1> QED
  BY <1>1, <1>2, <1>3, <1>4, <1>5 DEF SniffNext

LEMMA StepScreen == ASSUME ToldInv, ScreenInv, [SniffNext]_sniff PROVE ScreenInv'
<1>1. CASE taken' = <<>> /\ screen' = [s \in Senders |-> <<>>]
  BY <1>1 DEF ScreenInv, Of
<1>2. CASE UNCHANGED <<taken, screen>>
  BY <1>2 DEF ScreenInv, Of
<1>3. CASE SniffReceive /\ Head(fifo).id \in want
  <2> DEFINE f == Head(fifo)
             n == Len(taken)
  <2>1. taken' = Append(taken, f) /\ screen' = Show(f) /\ fifo # <<>>
    BY <1>3 DEF SniffReceive
  <2>2. f \in SniffFrame /\ f.id \in Senders /\ taken \in Seq(SniffFrame)
    BY <2>1, FirstTells DEF ToldInv, AllTell, TellsOf
  <2> HIDE DEF f
  <2>3. /\ n \in Nat /\ DOMAIN taken = 1 .. n /\ DOMAIN taken' = 1 .. n + 1
        /\ taken'[n + 1] = f /\ \A i \in 1 .. n : taken'[i] = taken[i]
    BY <2>1, <2>2, AppendProperties, LenProperties
  <2> HIDE DEF n
  <2>4. ASSUME NEW s \in Senders, s # f.id
        PROVE  Of(s, taken') = Of(s, taken) /\ \A i \in Of(s, taken) : taken'[i] = taken[i]
    BY <2>3, <2>4 DEF Of
  <2>5. n + 1 \in Of(f.id, taken') /\ \A i \in Of(f.id, taken') : i <= n + 1
    BY <2>3 DEF Of
  <2>6. ASSUME NEW s \in Senders
        PROVE  screen'[s] = IF s = f.id THEN <<f.data>> ELSE screen[s]
    BY <2>1, <2>2 DEF Show, ScreenInv
  <2>7. ASSUME NEW s \in Senders
        PROVE  /\ Of(s, taken') = {} => screen'[s] = <<>>
               /\ \A i \in Of(s, taken') :
                    (\A k \in Of(s, taken') : k <= i) => screen'[s] = <<taken'[i].data>>
    <3>1. CASE s = f.id
      <4>1. ASSUME NEW i \in Of(s, taken'), \A k \in Of(s, taken') : k <= i PROVE i = n + 1
        <5>1. i <= n + 1 /\ n + 1 <= i /\ i \in Int
          BY <2>3, <2>5, <3>1, <4>1 DEF Of
        <5> QED
          BY <2>3, <5>1
      <4> QED
        BY <2>3, <2>5, <2>6, <3>1, <4>1
    <3>2. CASE s # f.id
      BY <2>4, <2>6, <3>2 DEF ScreenInv
    <3> QED
      BY <3>1, <3>2
  <2>8. DOMAIN screen' = Senders
    BY <2>1 DEF Show, ScreenInv
  <2> QED
    BY <2>7, <2>8 DEF ScreenInv
<1>4. SniffNext => \/ taken' = <<>> /\ screen' = [s \in Senders |-> <<>>]
                   \/ UNCHANGED <<taken, screen>> \/ (SniffReceive /\ Head(fifo).id \in want)
  BY DEF SniffNext, BeginCapture, SniffReceive, EndCapture, CaptureFails, StartOver, Event, Broadcast
<1> QED
  BY <1>1, <1>2, <1>3, <1>4 DEF sniff
LEMMA SniffBegins == SniffInit => SniffInv
<1> SUFFICES ASSUME SniffInit PROVE SniffInv
  OBVIOUS
<1>1. 0 \in 0 .. Rollover - 1
  BY SniffAssumption
<1>2. saved \in [Captures -> Seq(SniffFrame)] /\ \A c \in Captures : saved[c] = <<>> /\ said[c] = {}
  BY EmptySeq DEF SniffInit
<1>3. ToldInv
  BY <1>1, <1>2, NothingTells, SniffAssumption DEF SniffInit, ToldInv, Capturing, Captures, Door
<1>4. FileInv /\ DoorInv
  BY <1>2 DEF SniffInit, FileInv, DoorInv, Captures
<1>5. ScreenInv
  BY DEF SniffInit, ScreenInv, Of
<1> QED
  BY <1>3, <1>4, <1>5 DEF SniffInv

LEMMA SniffInvariance == SniffSpec => []SniffInv
<1>1. SniffInv /\ [SniffNext]_sniff => SniffInv'
  BY StepTold, StepFiles, StepDoors, StepScreen DEF SniffInv
<1> QED
  BY <1>1, SniffBegins, PTL DEF SniffSpec

(* The first and the last of the places of an id. *)
LEMMA PlacesEnd ==
  ASSUME NEW s, NEW heard \in Seq(SniffFrame), Of(s, heard) # {}
  PROVE  /\ Min(Of(s, heard)) \in Of(s, heard)
         /\ Max(Of(s, heard)) \in Of(s, heard)
         /\ \A k \in Of(s, heard) : k <= Max(Of(s, heard))
<1> DEFINE S == Of(s, heard)
           n == Len(heard)
<1>1. S \subseteq Nat /\ S # {} /\ n \in Nat /\ \A i \in S : i <= n
  BY LenProperties DEF Of
<1>2. \E x \in S : \A y \in S : x <= y
  BY <1>1, FirstExists
<1>3. \E x \in S : \A y \in S : x >= y
  <2> DEFINE T == {k \in Nat : n - k \in S}
  <2>1. PICK i \in S : TRUE
    BY <1>1
  <2>2. i \in Nat /\ n - i \in Nat /\ n - (n - i) = i
    BY <1>1
  <2>3. n - i \in T
    BY <2>2
  <2>4. PICK t \in T : \A k \in T : t <= k
    <3> HIDE DEF T
    <3>1. T \subseteq Nat
      BY DEF T
    <3> QED
      BY <2>3, <3>1, FirstExists
  <2>5. \A y \in S : y \in Nat /\ n - y \in T /\ t <= n - y
    <3>1. ASSUME NEW y \in S PROVE y \in Nat /\ n - y \in Nat /\ n - (n - y) = y
      BY <1>1
    <3> QED
      BY <2>4, <3>1
  <2>6. n - t \in S /\ t \in Nat
    BY <2>4
  <2>7. ASSUME NEW y \in S PROVE n - t >= y
    <3>1. y \in Nat /\ t <= n - y
      BY <2>5
    <3> QED
      BY <1>1, <2>6, <3>1
  <2> QED
    BY <2>6, <2>7
<1> HIDE DEF S
<1>4. Min(S) \in S
  BY <1>2 DEF Min
<1>5. Max(S) \in S /\ \A k \in S : Max(S) >= k
  BY <1>3 DEF Max
<1>6. \A k \in S : k <= Max(S)
  BY <1>1, <1>5
<1> QED
  BY <1>4, <1>5, <1>6 DEF S

LEMMA SniffTyped == ToldInv /\ ScreenInv => SniffTypeOK
<1> SUFFICES ASSUME ToldInv, ScreenInv PROVE SniffTypeOK
  OBVIOUS
<1>1. \A s \in Senders : screen[s] \in {<<>>} \cup {<<taken[i].data>> : i \in DOMAIN taken}
  <2> SUFFICES ASSUME NEW s \in Senders, Of(s, taken) # {}
               PROVE  screen[s] \in {<<taken[i].data>> : i \in DOMAIN taken}
    BY DEF ScreenInv
  <2>1. taken \in Seq(SniffFrame)
    BY DEF ToldInv, AllTell
  <2>2. PICK i \in Of(s, taken) : \A k \in Of(s, taken) : k <= i
    BY <2>1, PlacesEnd
  <2> QED
    BY <2>2 DEF ScreenInv, Of
<1> QED
  BY <1>1 DEF SniffTypeOK, ToldInv, AllTell

(* The values a byte of an id had in a capture. *)
Slot(s, c, byte) == {saved[c][i].data[byte] : i \in Of(s, saved[c])}

(* A frame without data is not read back, and carries no byte to compare.        *)
LEMMA LoadedPlaces ==
  ASSUME ToldInv, NEW c \in Captures, NEW s \in Senders
  PROVE  /\ \A i \in Of(s, saved[c]) : DOMAIN saved[c][i].data = 1 .. Width(s) /\ saved[c][i].data \in Seq(Door \cup 0 .. Rollover - 1)
         /\ \A i \in DOMAIN LoadSniff(c) : LoadSniff(c)[i] = saved[c][i]
         /\ Of(s, LoadSniff(c)) = IF Width(s) > 0 THEN Of(s, saved[c]) ELSE {}
<1>1. \A i \in Of(s, saved[c]) : DOMAIN saved[c][i].data = 1 .. Width(s) /\ saved[c][i].data \in Seq(Door \cup 0 .. Rollover - 1)
  BY DEF ToldInv, AllTell, TellsOf, Of
<1>2. \A i \in Of(s, saved[c]) : saved[c][i].data # <<>> <=> Width(s) > 0
  <2> SUFFICES ASSUME NEW i \in Of(s, saved[c]) PROVE saved[c][i].data # <<>> <=> Width(s) > 0
    OBVIOUS
  <2> DEFINE d == saved[c][i].data
  <2>1. d \in Seq(Door \cup 0 .. Rollover - 1) /\ DOMAIN d = 1 .. Width(s) /\ Width(s) \in Nat
    BY <1>1, SniffAssumption
  <2> HIDE DEF d
  <2>2. Len(d) = Width(s)
    BY <2>1, LenProperties
  <2>3. d # <<>> <=> Width(s) > 0
    BY <2>1, <2>2, EmptySeq
  <2> QED
    BY <2>3 DEF d
<1>3. /\ DOMAIN LoadSniff(c) = {i \in DOMAIN saved[c] : saved[c][i].data # <<>>}
      /\ \A i \in DOMAIN LoadSniff(c) : LoadSniff(c)[i] = saved[c][i]
  BY DEF LoadSniff, Restrict
<1>4. Of(s, LoadSniff(c)) = {i \in Of(s, saved[c]) : saved[c][i].data # <<>>}
  BY <1>3 DEF Of
<1> QED
  BY <1>1, <1>2, <1>3, <1>4

LEMMA ProfileIs ==
  ASSUME ToldInv, NEW c \in Captures, NEW s \in Senders, Of(s, LoadSniff(c)) # {}
  PROVE  /\ Width(s) > 0 /\ Of(s, saved[c]) # {}
         /\ DOMAIN Profile(s, LoadSniff(c)) = 1 .. Width(s)
         /\ \A byte \in 1 .. Width(s) : Profile(s, LoadSniff(c))[byte] = Slot(s, c, byte)
<1> DEFINE heard == LoadSniff(c)
           first == Min(Of(s, heard))
<1>1. /\ Width(s) > 0 /\ Of(s, heard) = Of(s, saved[c]) /\ Of(s, saved[c]) # {}
      /\ \A i \in Of(s, saved[c]) : DOMAIN saved[c][i].data = 1 .. Width(s)
      /\ \A i \in DOMAIN heard : heard[i] = saved[c][i]
  BY LoadedPlaces
<1>2. saved[c] \in Seq(SniffFrame)
  BY DEF ToldInv, AllTell
<1>3. first \in Of(s, saved[c])
  BY <1>1, <1>2, PlacesEnd
<1>4. \A i \in Of(s, heard) : i \in DOMAIN heard /\ heard[i] = saved[c][i]
  BY <1>1 DEF Of
<1>5. DOMAIN heard[first].data = 1 .. Width(s)
  BY <1>1, <1>3, <1>4
<1>6. ASSUME NEW byte \in 1 .. Width(s)
      PROVE  {heard[i].data[byte] : i \in {k \in Of(s, heard) : byte \in DOMAIN heard[k].data}} = Slot(s, c, byte)
  <2>1. {k \in Of(s, heard) : byte \in DOMAIN heard[k].data} = Of(s, saved[c])
    BY <1>1, <1>4
  <2> QED
    BY <1>1, <1>4, <2>1 DEF Slot
<1>7. /\ DOMAIN Profile(s, heard) = DOMAIN heard[first].data
      /\ \A byte \in DOMAIN heard[first].data :
           Profile(s, heard)[byte] =
             {heard[i].data[byte] : i \in {k \in Of(s, heard) : byte \in DOMAIN heard[k].data}}
  BY DEF Profile
<1> QED
  BY <1>1, <1>5, <1>6, <1>7

(* The slots are finite; the one of the door tells of doors seen in the capture. *)
LEMMA SlotFacts ==
  ASSUME ToldInv, NEW c \in Captures, NEW s \in Senders, NEW byte \in 1 .. Width(s)
  PROVE  /\ IsFiniteSet(Slot(s, c, byte))
         /\ byte = 1 => Slot(s, c, byte) \subseteq said[c]
         /\ Of(s, saved[c]) # {} => Slot(s, c, byte) # {}
<1> DEFINE Byte == Door \cup 0 .. Rollover - 1
<1>1. IsFiniteSet(Byte)
  <2>1. IsFiniteSet(0 .. 1) /\ IsFiniteSet(0 .. Rollover - 1)
    <3>1. Rollover - 1 \in Int /\ 0 \in Int /\ 1 \in Int
      BY SniffAssumption
    <3> QED
      BY <3>1, FS_Interval
  <2>2. Door = 0 .. 1
    BY DEF Door, DoorShut, DoorOpen
  <2> QED
    BY <2>1, <2>2, FS_Union
<1>2. \A i \in Of(s, saved[c]) : saved[c][i].data \in Seq(Byte) /\ DOMAIN saved[c][i].data = 1 .. Width(s)
  BY LoadedPlaces
<1>3. Slot(s, c, byte) \subseteq Byte
  <2>1. ASSUME NEW i \in Of(s, saved[c]) PROVE saved[c][i].data[byte] \in Byte
    <3> DEFINE d == saved[c][i].data
    <3>1. d \in Seq(Byte) /\ byte \in DOMAIN d
      BY <1>2
    <3> HIDE DEF d, Byte
    <3>2. d[byte] \in Byte
      BY <3>1, ElementOfSeq, LenProperties
    <3> QED
      BY <3>2 DEF d
  <2> QED
    BY <2>1 DEF Slot
<1>4. byte = 1 => Slot(s, c, byte) \subseteq said[c]
  <2> SUFFICES ASSUME byte = 1, NEW i \in Of(s, saved[c]) PROVE saved[c][i].data[1] \in said[c]
    BY DEF Slot
  <2>1. TellsOf(saved[c][i], said[c]) /\ saved[c][i].id = s
    BY DEF ToldInv, AllTell, Of
  <2>2. Width(s) > 0
    BY SniffAssumption
  <2> QED
    BY <2>1, <2>2 DEF TellsOf
<1> QED
  BY <1>1, <1>3, <1>4, FS_Subset DEF Slot

LEMMA StableIs ==
  ASSUME ToldInv, NEW c \in Captures, NEW s \in Senders, NEW byte \in 1 .. Width(s)
  PROVE  Stable(Slot(s, c, byte)) <=> \E v : Slot(s, c, byte) = {v}
<1>1. IsFiniteSet(Slot(s, c, byte))
  BY SlotFacts
<1> QED
  BY <1>1, FS_Singleton DEF Stable

(* What sniff-diff reports: a byte stable in both captures, at different values.  *)
LEMMA ChangesAre ==
  ASSUME ToldInv, NEW change
  PROVE  change \in Changes <=>
           \E s \in Senders : \E byte \in 1 .. Width(s) : \E v, w :
             /\ \A c \in Captures : Of(s, saved[c]) # {}
             /\ Slot(s, "before", byte) = {v} /\ Slot(s, "after", byte) = {w} /\ v # w
             /\ change = [id |-> s, byte |-> byte, before |-> v, after |-> w]
<1> DEFINE b == LoadSniff("before")
           a == LoadSniff("after")
           ids == {id \in Senders : Of(id, b) # {} /\ Of(id, a) # {}}
           pb(s) == Profile(s, b)
           pa(s) == Profile(s, a)
           Turned(s) == {i \in (DOMAIN pb(s)) \cap (DOMAIN pa(s)) :
                         Stable(pb(s)[i]) /\ Stable(pa(s)[i]) /\ pb(s)[i] # pa(s)[i]}
           Record(s, i) == [id |-> s, byte |-> i, before |-> CHOOSE v \in pb(s)[i] : TRUE,
                            after |-> CHOOSE v \in pa(s)[i] : TRUE]
<1>1. change \in Changes <=> \E s \in ids : \E i \in Turned(s) : change = Record(s, i)
  BY SMTT(30) DEF Changes, SniffDiff
<1>2. "before" \in Captures /\ "after" \in Captures /\ \A c \in Captures : c \in {"before", "after"}
  BY DEF Captures
<1>3. ASSUME NEW s \in ids
      PROVE  /\ \A c \in Captures : Of(s, saved[c]) # {}
             /\ DOMAIN pb(s) = 1 .. Width(s) /\ \A i \in 1 .. Width(s) : pb(s)[i] = Slot(s, "before", i)
             /\ DOMAIN pa(s) = 1 .. Width(s) /\ \A i \in 1 .. Width(s) : pa(s)[i] = Slot(s, "after", i)
  <2>1. Of(s, saved["before"]) # {} /\ DOMAIN pb(s) = 1 .. Width(s) /\ \A i \in 1 .. Width(s) : pb(s)[i] = Slot(s, "before", i)
    BY <1>2, ProfileIs
  <2>2. Of(s, saved["after"]) # {} /\ DOMAIN pa(s) = 1 .. Width(s) /\ \A i \in 1 .. Width(s) : pa(s)[i] = Slot(s, "after", i)
    BY <1>2, ProfileIs
  <2> QED
    BY <1>2, <2>1, <2>2
<1>4. ASSUME NEW s \in Senders, NEW byte \in 1 .. Width(s), \A c \in Captures : Of(s, saved[c]) # {}
      PROVE  s \in ids
  <2>1. Width(s) > 0
    BY SniffAssumption
  <2>2. Of(s, b) # {} /\ Of(s, a) # {}
    BY <1>2, <1>4, <2>1, LoadedPlaces
  <2> QED
    BY <2>2
<1> HIDE DEF ids, pb, pa, b, a
<1>5. ASSUME NEW s \in Senders, NEW byte \in 1 .. Width(s), NEW c \in Captures
      PROVE  Stable(Slot(s, c, byte)) <=> \E x : Slot(s, c, byte) = {x}
  BY <1>5, StableIs
<1>6. \A v : (CHOOSE x \in {v} : TRUE) = v
  OBVIOUS
<1>7. ASSUME NEW s \in ids, NEW i \in Turned(s), change = Record(s, i)
      PROVE  /\ s \in Senders /\ i \in 1 .. Width(s) /\ \A c \in Captures : Of(s, saved[c]) # {}
             /\ \E v, w : /\ Slot(s, "before", i) = {v} /\ Slot(s, "after", i) = {w} /\ v # w
                          /\ change = [id |-> s, byte |-> i, before |-> v, after |-> w]
  <2>1. s \in Senders /\ i \in 1 .. Width(s) /\ pb(s)[i] = Slot(s, "before", i) /\ pa(s)[i] = Slot(s, "after", i)
    BY <1>3 DEF ids
  <2>2. Stable(Slot(s, "before", i)) /\ Stable(Slot(s, "after", i)) /\ Slot(s, "before", i) # Slot(s, "after", i)
    BY <2>1
  <2>3. PICK v : Slot(s, "before", i) = {v}
    BY <1>2, <1>5, <2>1, <2>2
  <2>4. PICK w : Slot(s, "after", i) = {w}
    BY <1>2, <1>5, <2>1, <2>2
  <2>5. (CHOOSE x \in pb(s)[i] : TRUE) = v /\ (CHOOSE x \in pa(s)[i] : TRUE) = w
    BY <1>6, <2>1, <2>3, <2>4
  <2>6. change = [id |-> s, byte |-> i, before |-> v, after |-> w]
    BY <1>7, <2>5
  <2>7. v # w
    BY <2>2, <2>3, <2>4
  <2> QED
    BY <1>3, <2>1, <2>3, <2>4, <2>6, <2>7
<1>8. ASSUME NEW s \in Senders, NEW byte \in 1 .. Width(s), NEW v, NEW w,
             \A c \in Captures : Of(s, saved[c]) # {},
             Slot(s, "before", byte) = {v}, Slot(s, "after", byte) = {w}, v # w
      PROVE  s \in ids /\ byte \in Turned(s) /\ Record(s, byte) = [id |-> s, byte |-> byte, before |-> v, after |-> w]
  <2>1. s \in ids
    BY <1>4, <1>8
  <2>2. /\ pb(s)[byte] = Slot(s, "before", byte) /\ pa(s)[byte] = Slot(s, "after", byte)
        /\ byte \in DOMAIN pb(s) /\ byte \in DOMAIN pa(s)
    BY <1>3, <2>1
  <2>3. Stable(pb(s)[byte]) /\ Stable(pa(s)[byte])
    <3>1. Stable(Slot(s, "before", byte))
      BY <1>2, <1>5, <1>8
    <3>2. Stable(Slot(s, "after", byte))
      BY <1>2, <1>5, <1>8
    <3> QED
      BY <2>2, <3>1, <3>2
  <2>4. pb(s)[byte] # pa(s)[byte]
    BY <1>8, <2>2
  <2>5. (CHOOSE x \in pb(s)[byte] : TRUE) = v /\ (CHOOSE x \in pa(s)[byte] : TRUE) = w
    BY <1>6, <1>8, <2>2
  <2> QED
    BY <2>1, <2>2, <2>3, <2>4, <2>5
<1>9. ASSUME change \in Changes
      PROVE  \E s \in Senders : \E byte \in 1 .. Width(s) : \E v, w :
               /\ \A c \in Captures : Of(s, saved[c]) # {}
               /\ Slot(s, "before", byte) = {v} /\ Slot(s, "after", byte) = {w} /\ v # w
               /\ change = [id |-> s, byte |-> byte, before |-> v, after |-> w]
  <2>1. PICK s \in ids : \E i \in Turned(s) : change = Record(s, i)
    BY <1>1, <1>9
  <2>2. PICK i \in Turned(s) : change = Record(s, i)
    BY <2>1
  <2> HIDE DEF Turned, Record
  <2> QED
    BY <1>7, <2>2
<1>10. ASSUME NEW s \in Senders, NEW byte \in 1 .. Width(s), NEW v, NEW w,
              \A c \in Captures : Of(s, saved[c]) # {},
              Slot(s, "before", byte) = {v}, Slot(s, "after", byte) = {w}, v # w,
              change = [id |-> s, byte |-> byte, before |-> v, after |-> w]
       PROVE  change \in Changes
  <2>1. s \in ids /\ byte \in Turned(s) /\ change = Record(s, byte)
    BY <1>8, <1>10
  <2> HIDE DEF Turned, Record
  <2> QED
    BY <1>1, <2>1
<1> QED
  BY <1>9, <1>10

(* Of one byte, two payloads are the two positions of the door.                  *)
LEMMA FlaggedIs ==
  ASSUME ToldInv, NEW s \in Senders, Width(s) = 1
  PROVE  Flagged(s) <=> \A d \in Door : \E i \in Of(s, taken) : taken[i].data = <<d>>
<1> DEFINE D == {taken[i].data : i \in Of(s, taken)}
<1>1. \A i \in Of(s, taken) : \E d \in Door : taken[i].data = <<d>>
  <2> SUFFICES ASSUME NEW i \in Of(s, taken) PROVE \E d \in Door : taken[i].data = <<d>>
    OBVIOUS
  <2> DEFINE data == taken[i].data
  <2>1. data \in Seq(Door \cup 0 .. Rollover - 1) /\ DOMAIN data = 1 .. 1 /\ data[1] \in Door
    BY DEF ToldInv, AllTell, TellsOf, Of
  <2> HIDE DEF data
  <2>2. Len(data) = 1
    BY <2>1, LenProperties
  <2>3. data = <<data[1]>>
    BY <2>1, <2>2
  <2> QED
    BY <2>1, <2>3 DEF data
<1>2. D \subseteq {<<0>>, <<1>>} /\ Door = {0, 1} /\ <<0>> # <<1>>
  <2>1. D \subseteq {<<d>> : d \in Door}
    BY <1>1
  <2>2. Door = {0, 1}
    BY DEF Door, DoorShut, DoorOpen
  <2>3. {<<d>> : d \in {0, 1}} = {<<0>>, <<1>>}
    BY Zenon
  <2>4. <<0>> # <<1>>
    <3>1. <<0>>[1] = 0 /\ <<1>>[1] = 1
      OBVIOUS
    <3> QED
      BY <3>1
  <2> QED
    BY <2>1, <2>2, <2>3, <2>4
<1>3. (\A d \in Door : \E i \in Of(s, taken) : taken[i].data = <<d>>) <=> <<0>> \in D /\ <<1>> \in D
  BY <1>2
<1> HIDE DEF D
<1> DEFINE shut == <<0>>
           open == <<1>>
<1>4. D \subseteq {shut, open} /\ shut # open
  BY <1>2
<1> HIDE DEF shut, open
<1>5. D = {} \/ D = {shut} \/ D = {open} \/ D = {shut, open}
  BY <1>4
<1>6. /\ Cardinality({}) = 0 /\ Cardinality({shut}) = 1 /\ Cardinality({open}) = 1
      /\ IsFiniteSet({shut})
  BY FS_EmptySet, FS_Singleton
<1>7. Cardinality({shut, open}) = 2
  <2>1. Cardinality({shut} \cup {open}) = Cardinality({shut}) + 1
    BY <1>4, <1>6, FS_AddElement
  <2>2. {shut} \cup {open} = {shut, open}
    OBVIOUS
  <2> QED
    BY <1>6, <2>1, <2>2
<1>8. Cardinality(D) \in 2 .. 8 <=> D = {shut, open}
  BY <1>4, <1>5, <1>6, <1>7
<1>9. D = {shut, open} <=> shut \in D /\ open \in D
  BY <1>4
<1> QED
  BY <1>3, <1>8, <1>9 DEF Flagged, D, shut, open

(* All that the captures promise follows from the invariant.                     *)
LEMMA SniffTells == SniffInv => SniffTrue
<1> SUFFICES ASSUME SniffInv PROVE SniffTrue
  OBVIOUS
<1> USE DEF SniffInv
<1>1. "before" \in Captures /\ "after" \in Captures
  BY DEF Captures
<1>2. ASSUME said["before"] = {DoorShut}, said["after"] = {DoorOpen}, NEW s \in Senders,
             Width(s) > 0, \A c \in Captures : Of(s, saved[c]) # {}
      PROVE  [id |-> s, byte |-> 1, before |-> DoorShut, after |-> DoorOpen] \in Changes
  <2>1. 1 \in 1 .. Width(s)
    BY <1>2, SniffAssumption
  <2>2. Slot(s, "before", 1) = {DoorShut}
    BY <1>1, <1>2, <2>1, SlotFacts
  <2>3. Slot(s, "after", 1) = {DoorOpen}
    BY <1>1, <1>2, <2>1, SlotFacts
  <2>4. DoorShut # DoorOpen
    BY DEF DoorShut, DoorOpen
  <2> QED
    BY <1>2, <2>1, <2>2, <2>3, <2>4, ChangesAre
<1>3. ASSUME capture = "done", NEW change \in Changes
      PROVE  /\ change.byte = 1 => change.before = DoorShut /\ change.after = DoorOpen
             /\ change.byte = 2 => ~Rolls(change.id, "before") /\ ~Rolls(change.id, "after")
  <2>1. PICK s \in Senders : \E byte \in 1 .. Width(s) : \E v, w :
          /\ \A c \in Captures : Of(s, saved[c]) # {}
          /\ Slot(s, "before", byte) = {v} /\ Slot(s, "after", byte) = {w} /\ v # w
          /\ change = [id |-> s, byte |-> byte, before |-> v, after |-> w]
    BY <1>3, ChangesAre
  <2>2. PICK byte \in 1 .. Width(s) : \E v, w :
          /\ Slot(s, "before", byte) = {v} /\ Slot(s, "after", byte) = {w} /\ v # w
          /\ change = [id |-> s, byte |-> byte, before |-> v, after |-> w]
    BY <2>1
  <2>3. PICK v, w :
          /\ Slot(s, "before", byte) = {v} /\ Slot(s, "after", byte) = {w} /\ v # w
          /\ change = [id |-> s, byte |-> byte, before |-> v, after |-> w]
    BY <2>2
  <2>4. change.id = s /\ change.byte = byte /\ change.before = v /\ change.after = w
    BY <2>3
  <2>5. ASSUME byte = 1 PROVE v = DoorShut /\ w = DoorOpen
    <3>1. v \in said["before"] /\ w \in said["after"]
      BY <1>1, <2>3, <2>5, SlotFacts
    <3>2. v \in Door /\ w \in Door
      BY <1>1, <3>1 DEF ToldInv
    <3>3. DoorOpen \in said["before"] => said["after"] \subseteq {DoorOpen}
      BY <1>3 DEF DoorInv
    <3> QED
      BY <2>3, <3>1, <3>2, <3>3 DEF Door
  <2>6. ASSUME byte = 2, NEW c \in {"before", "after"} PROVE ~Rolls(s, c)
    <3>1. \E x : Slot(s, c, 2) = {x}
      BY <2>3, <2>6
    <3>2. \A i \in Of(s, saved[c]) : saved[c][i].data[2] \in Slot(s, c, 2)
      BY DEF Slot
    <3> QED
      BY <3>1, <3>2 DEF Rolls
  <2> QED
    BY <2>4, <2>5, <2>6
<1>4. ASSUME NEW s \in want, Of(s, taken) # {} PROVE screen[s] = <<taken[Max(Of(s, taken))].data>>
  <2>1. taken \in Seq(SniffFrame) /\ s \in Senders
    BY DEF ToldInv, AllTell
  <2>2. Max(Of(s, taken)) \in Of(s, taken) /\ \A k \in Of(s, taken) : k <= Max(Of(s, taken))
    BY <1>4, <2>1, PlacesEnd
  <2> QED
    BY <2>1, <2>2 DEF ScreenInv
<1> QED
  BY <1>2, <1>3, <1>4, FlaggedIs DEF SniffTrue

(* The variables of a capture have their types, and what is on the screen was    *)
(* received.                                                                 *)
THEOREM SniffTypeCorrect == SniffSpec => []SniffTypeOK
<1>1. SniffInv => SniffTypeOK
  BY SniffTyped DEF SniffInv
<1>. QED
  BY <1>1, SniffInvariance, PTL

(* Whatever the senders repeat and the FIFO loses, sniff-diff reports the opening *)
(* of the door from each id that told of it in both captures, nothing else   *)
(* of that byte, and no byte caught rolling; the screen has the last word of *)
(* every id.                                                                 *)
THEOREM CapturesTell == SniffSpec => []SniffTrue
BY SniffTells, SniffInvariance, PTL

-----------------------------------------------------------------------------
(* The command line adds the Volvo commands and the captures, which leave the    *)
(* transports alone.                                                         *)
LEMMA CommandLineIsCommand == CommandLineSpec => Spec
<1>1. CommandLineInit => Init
  BY DEF CommandLineInit
<1>2. [CommandLineNext]_toolkit => [Next]_vars
  <2>1. UdsCommand => Next
    BY DEF UdsCommand
  <2>2. VolvoCommand \/ SniffCommand \/ (\E c \in Commands : OpenReader(c)) => UNCHANGED vars
    BY DEF VolvoCommand, SniffCommand, OpenReader
  <2>3. UNCHANGED toolkit => UNCHANGED vars
    BY DEF toolkit
  <2>. QED
    BY <2>1, <2>2, <2>3 DEF CommandLineNext
<1>. QED
  BY <1>1, <1>2, PTL DEF CommandLineSpec, Spec

(* All of this holds of the command line.                                    *)
THEOREM CommandLineKeepsTheContract ==
  CommandLineSpec => [](TypeOK /\ ShownIsTrue /\ AnswersPass) /\ ImplementsContract
BY CommandLineIsCommand, CommandTypeCorrect, ShownAnswersAreTrue, FiltersAreThere,
   TransportsImplementContract, PTL

LEMMA CommandLineIsSweep == CommandLineSpec => SweepSpec
<1>1. CommandLineInit => SweepInit
  BY DEF CommandLineInit
<1>2. [CommandLineNext]_toolkit => [SweepNext]_sweepVars
  <2>1. VolvoCommand => SweepNext
    BY DEF VolvoCommand, SweepNext
  <2>2. ASSUME NEW c \in Commands, OpenReader(c) PROVE SweepNext
    <3>1. PICK l \in {"vxdiag", "elm"} : Run(l, c)
      BY <2>2 DEF OpenReader
    <3>. QED
      BY <3>1 DEF SweepNext
  <2>3. UdsCommand \/ SniffCommand \/ UNCHANGED toolkit => UNCHANGED sweepVars
    BY DEF UdsCommand, SniffCommand, toolkit
  <2>. QED
    BY <2>1, <2>2, <2>3 DEF CommandLineNext
<1>. QED
  BY <1>1, <1>2, PTL DEF CommandLineSpec, SweepSpec

LEMMA CommandLineIsSniff == CommandLineSpec => SniffSpec
<1>1. CommandLineInit => SniffInit
  BY DEF CommandLineInit
<1>2. [CommandLineNext]_toolkit => [SniffNext]_sniff
  <2>1. SniffCommand => SniffNext
    BY DEF SniffCommand
  <2>2. UdsCommand \/ VolvoCommand \/ (\E c \in Commands : OpenReader(c)) => UNCHANGED sniff
    BY DEF UdsCommand, VolvoCommand, OpenReader
  <2>3. UNCHANGED toolkit => UNCHANGED sniff
    BY DEF toolkit
  <2>. QED
    BY <2>1, <2>2, <2>3 DEF CommandLineNext
<1>. QED
  BY <1>1, <1>2, PTL DEF CommandLineSpec, SniffSpec

(* The variables of the whole command line have their types.                 *)
THEOREM CommandLineTypeCorrect == CommandLineSpec => []TypesOK
<1>1. TypeOK /\ SweepTypeOK /\ SniffTypeOK => TypesOK
  BY DEF TypesOK
<1>. QED
  BY <1>1, CommandLineIsCommand, CommandLineIsSweep, CommandLineIsSniff, CommandTypeCorrect,
     SweepTypeCorrect, SniffTypeCorrect, PTL

(* And what is proved of a sweep and of the captures holds of the command line:  *)
(* nothing a command over UDS or OBD does reaches them.                      *)
THEOREM CommandLineSweepsAndCaptures ==
  CommandLineSpec => [](ClearedIsWiped /\ SweepAccounted /\ FreshFrames /\ ReportsOwn /\ SniffTrue)
BY CommandLineIsSweep, CommandLineIsSniff, ClaimsHold, SweepsAccount, SweepsFresh, SweepsReportOwn,
   CapturesTell, PTL

=============================================================================
