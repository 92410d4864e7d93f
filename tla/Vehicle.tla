------------------------------ MODULE Vehicle ------------------------------
(***************************************************************************)
(* The commands that talk UDS and OBD (python/volvo_diag/cli.py) down to   *)
(* Transport.request: Vehicle (volvo/vehicle.py), Ecu (volvo/ecm.py) and   *)
(* the checks of protocol/uds.py and protocol/obd.py.  A command is one    *)
(* task: the requests it makes, one after the other, and what it shows of  *)
(* the answers.  How a request travels is left to the transports, which    *)
(* extend this module; the modules in the car are external and answer late *)
(* or never, refuse, or ask for more time.                                 *)
(***************************************************************************)
EXTENDS Integers, Sequences, FiniteSets

CONSTANTS
  Addresses,    \* the addresses scanned, the first is the ECM
  Keys,         \* the keys of engine_state, in order
  Defined,      \* those with a UDS parameter in the database
  Fallback,     \* those with an OBD pid in OBD_FALLBACKS
  Identifiers,  \* COMMON_IDENTIFIERS
  Bases,        \* SUPPORT_PIDS
  NoCall,
  PendingLimit, \* responsePending answers waited out, 20
  MaxPending    \* bound: responsePending answers on their way at a time

Ecus == {Addresses[i] : i \in DOMAIN Addresses}
Ecm == Addresses[1]

Tasks == {"scan", "engine", "vin", "identify", "pids", "dtc", "hex"}

Services == {"tester", "label", "did", "pid", "dtc", "hex"}

(* What a request asks for; "-" where there is nothing to name. *)
Ids ==
  {"-", "vin"} \cup {Keys[i] : i \in DOMAIN Keys}
  \cup {Identifiers[i] : i \in DOMAIN Identifiers} \cup {Bases[i] : i \in DOMAIN Bases}

Requests == [ecu : Ecus, service : Services, id : Ids, n : Nat]

ASSUME VehicleAssumption ==
  /\ Addresses # <<>> /\ Addresses \in Seq(Ecus)
  /\ Keys # <<>> /\ Keys \in Seq(Ids)
  /\ Identifiers # <<>> /\ Identifiers \in Seq(Ids)
  /\ Bases # <<>> /\ Bases \in Seq(Ids)
  /\ NoCall \notin Ecus /\ NoCall \notin Requests
  /\ PendingLimit \in Nat /\ MaxPending \in Nat

VARIABLES
  session,  \* "closed" or "open"
  task,     \* the command of this session
  pos,      \* where it is: the number of the turn and the part of it
  call,     \* the request the transport is busy with
  written,  \* it has been sent
  seen,     \* responsePending answers waited out for it
  answer,   \* what it returned or raised
  whole,    \* every byte of it is there
  asked,    \* requests made in this session
  shown,    \* what the command has presented as answers, with the request
  due,      \* requests each module has heard and not yet answered
  failed    \* history: modules a request to which has failed

client == <<session, task, pos, asked, shown>>
request == <<call, written, seen, answer, whole, failed>>
vehicle == <<client, request, due>>

Waiting == [kind |-> "waiting"]
Timeout == [kind |-> "timeout"]        \* TransportTimeout
Error == [kind |-> "error"]            \* any other TransportError
Other == [kind |-> "other"]            \* IsoTpError, or an OSError of the socket or the port
Failures == {Timeout, Error, Other}

Over == [turn |-> 0, part |-> "over"]
At(turn, part) == [turn |-> turn, part |-> part]

(* Requests and replies carry the number of the request, which no protocol  *)
(* has: only the history properties look at it.                              *)
Request(ecu, service, id, n) == [ecu |-> ecu, service |-> service, id |-> id, n |-> n]

Reply(r, kind) == [ecu |-> r.ecu, service |-> r.service, id |-> r.id, n |-> r.n, kind |-> kind]

Kinds == {"positive", "negative", "pending"}

-----------------------------------------------------------------------------
(* The tasks *)

Turns(t) ==
  CASE t = "scan" -> Len(Addresses)
    [] t = "engine" -> Len(Keys)
    [] t = "identify" -> Len(Identifiers)
    [] t = "pids" -> Len(Bases)
    [] OTHER -> 1

(* The part a turn begins with.  engine_state asks for a key without a definition *)
(* by its pid at once and passes over a key with neither.                    *)
FirstPart(t, i) ==
  CASE t = "scan" -> "tester"
    [] t = "engine" -> IF Keys[i] \in Defined THEN "did"
                       ELSE IF Keys[i] \in Fallback THEN "pid" ELSE "none"
    [] t \in {"vin", "identify"} -> "did"
    [] t = "pids" -> "pid"
    [] OTHER -> t

FromTurn(t, i) ==
  LET later == {j \in i .. Turns(t) : FirstPart(t, j) # "none"}
  IN  IF later = {} THEN Over
      ELSE LET next == CHOOSE j \in later : \A k \in later : j <= k
           IN  At(next, FirstPart(t, next))

(* cmd_dtc over UDS: service 19. *)
DtcRequest(n) == Request(Ecm, "dtc", "-", n)

(* cmd_read with a payload: whatever the user typed. *)
HexRequest(n) == Request(Ecm, "hex", "-", n)

(* What the task asks at a position. *)
Asks(t, p, n) ==
  CASE t = "scan" -> Request(Addresses[p.turn], p.part, "-", n)
    [] t = "engine" -> Request(Ecm, p.part, Keys[p.turn], n)
    [] t = "vin" -> Request(Ecm, p.part, "vin", n)
    [] t = "identify" -> Request(Ecm, p.part, Identifiers[p.turn], n)
    [] t = "pids" -> Request(Ecm, p.part, Bases[p.turn], n)
    [] t = "dtc" -> DtcRequest(n)
    [] t = "hex" -> HexRequest(n)

(* uds.check: the service, and the identifier of service 22 alone. *)
CheckUds(r, reply) ==
  reply.service = r.service /\ (r.service \in {"did", "label"} => reply.id = r.id)

(* mutant: obd.parse looks at the mode and not at the pid *)
ParseMode(r, reply) == reply.service = r.service

ParseObd(r, reply) == reply.service = r.service /\ reply.id = r.id

(* scan's tester present and read <hex> take whatever comes. *)
Echoes(r, reply) ==
  CASE r.service \in {"did", "label", "dtc"} -> CheckUds(r, reply)
    [] r.service = "pid" -> ParseObd(r, reply)
    [] r.service \in {"tester", "hex"} -> TRUE

Accepted(r, a) ==
  /\ a \notin Failures
  /\ Echoes(r, a)
  /\ (a.kind = "positive" \/ r.service \in {"tester", "hex"})

(* An exception that is no TransportError: only scan's identification catches   *)
(* everything.                                                               *)
Escapes(t, p, a) == a = Other /\ p.part # "label"

(* scan: what answered is asked for its label. *)
ScanNext(p, ok) ==
  IF p.part = "tester" /\ ok THEN At(p.turn, "label") ELSE FromTurn("scan", p.turn + 1)

(* engine_state falls back on the pid of the key. *)
EngineNext(p, ok) ==
  IF p.part = "did" /\ ~ok /\ Keys[p.turn] \in Fallback THEN At(p.turn, "pid")
  ELSE FromTurn("engine", p.turn + 1)

VinNext(p, ok) == IF p.part = "did" /\ ~ok THEN At(p.turn, "pid") ELSE Over

IdentifyNext(p) == FromTurn("identify", p.turn + 1)

(* supported_pids goes on while the last bit of the mask is set. *)
PidsNext(p, ok, more) == IF ok /\ more THEN FromTurn("pids", p.turn + 1) ELSE Over

After(t, p, ok, more) ==
  CASE t = "scan" -> ScanNext(p, ok)
    [] t = "engine" -> EngineNext(p, ok)
    [] t = "vin" -> VinNext(p, ok)
    [] t = "identify" -> IdentifyNext(p)
    [] t = "pids" -> PidsNext(p, ok, more)
    [] t \in {"dtc", "hex"} -> Over

-----------------------------------------------------------------------------
TypeOK ==
  /\ session \in {"closed", "open"}
  /\ task \in Tasks
  /\ written \in BOOLEAN /\ whole \in BOOLEAN /\ asked \in Nat
  /\ call # NoCall => call.ecu \in Ecus /\ call.n = asked
  /\ call = NoCall => ~written
  /\ seen \in 0 .. PendingLimit
  /\ answer.kind \in {"waiting", "timeout", "error", "other"} \cup Kinds
  /\ \A e \in Ecus : \A i \in DOMAIN due[e] : due[e][i].ecu = e
  /\ failed \subseteq Ecus

VehicleInit ==
  /\ session = "closed"
  /\ task \in Tasks /\ pos = Over
  /\ call = NoCall /\ written = FALSE /\ seen = 0 /\ answer = Waiting /\ whole = TRUE
  /\ asked = 0 /\ shown = {}
  /\ due = [e \in Ecus |-> <<>>] /\ failed = {}

-----------------------------------------------------------------------------
(* The command *)

(* with build_transport(args): open, run the command, close.  The transport   *)
(* adds what its open does and whether it succeeds.  (Bound: nobody in the   *)
(* car still owes an answer to an earlier session.)                          *)
Opened ==
  /\ session = "closed" /\ \A e \in Ecus : due[e] = <<>>
  /\ session' = "open"
  /\ task' \in Tasks /\ pos' = FromTurn(task', 1)
  /\ asked' = 0 /\ shown' = {} /\ failed' = {}
  /\ UNCHANGED <<call, written, seen, answer, whole, due>>

OpenFails == session = "closed" /\ UNCHANGED vehicle

Closed ==
  /\ session = "open" /\ pos = Over
  /\ session' = "closed" /\ asked' = 0 /\ shown' = {}
  /\ UNCHANGED <<task, pos, request, due>>

Ask ==
  /\ session = "open" /\ pos # Over
  /\ call = NoCall /\ answer = Waiting
  /\ asked' = asked + 1
  /\ call' = Asks(task, pos, asked + 1)
  /\ UNCHANGED <<session, task, pos, shown, written, seen, answer, whole, failed, due>>

(* The code between two requests. *)
Take ==
  /\ session = "open" /\ call = NoCall /\ answer # Waiting
  /\ LET r == Asks(task, pos, asked)
         ok == Accepted(r, answer)
     IN  /\ shown' = IF ok THEN shown \cup {[request |-> r, reply |-> answer]} ELSE shown
         /\ \E more \in BOOLEAN :
              pos' = IF Escapes(task, pos, answer) THEN Over
                     ELSE After(task, pos, ok, more)
  /\ answer' = Waiting /\ whole' = TRUE
  /\ UNCHANGED <<session, task, asked, call, written, seen, failed, due>>

-----------------------------------------------------------------------------
(* What the transports share *)

Busy == session = "open" /\ call # NoCall

(* A request has gone out, and a module hears it. *)
Sent(e) ==
  /\ written' = TRUE
  /\ due' = [due EXCEPT ![e] = Append(@, [call EXCEPT !.ecu = e])]
  /\ UNCHANGED <<client, call, seen, answer, whole, failed>>

SentUnheard == written' = TRUE /\ UNCHANGED <<client, call, seen, answer, whole, failed, due>>

(* request returns or raises. *)
Returns(a, complete) ==
  /\ answer' = a /\ whole' = complete
  /\ call' = NoCall /\ written' = FALSE /\ seen' = 0
  /\ failed' = IF a \in Failures THEN failed \cup {call.ecu} ELSE failed
  /\ UNCHANGED <<client, due>>

Fails(failure) == Returns(failure, TRUE)

(* mutant: one responsePending too many is waited out *)
OneMore(n) == n > PendingLimit

TooMany(n) == n >= PendingLimit

(* mutant: responsePending is waited out and not counted *)
Uncounted(n) == n

Counted(n) == n + 1

(* An answer is there: responsePending is counted and waited out, anything else *)
(* returned.                                                                 *)
Receives(reply, complete) ==
  IF reply.kind # "pending" THEN Returns(reply, complete)
  ELSE IF TooMany(seen) THEN Fails(Timeout)
  ELSE seen' = Counted(seen) /\ UNCHANGED <<client, call, written, answer, whole, failed, due>>

(* A module answers the oldest request it has; any but a final answer leaves   *)
(* it to be answered.  (Bound: responsePending only to the request under     *)
(* way, so that an old one does not go on for ever.)                         *)
Says(e, kind) ==
  /\ due[e] # <<>>
  /\ kind = "pending" => call # NoCall /\ due[e][1].n = asked
  /\ due' = IF kind = "pending" THEN due ELSE [due EXCEPT ![e] = Tail(@)]
  /\ UNCHANGED <<client, request>>

(* It never will. *)
Ignore(e) ==
  /\ due[e] # <<>>
  /\ due' = [due EXCEPT ![e] = Tail(@)]
  /\ UNCHANGED <<client, request>>

Idle == UNCHANGED vehicle
=============================================================================
