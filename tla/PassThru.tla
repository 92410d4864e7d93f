------------------------------ MODULE PassThru ------------------------------
(***************************************************************************)
(* What a program that drives a J2534 interface sees of the vendor's       *)
(* driver: threads that call its entry points, each call performed once    *)
(* and its result returned.  proxy/src/exports.cpp promises that a program *)
(* cannot tell the proxy from it.  The driver and the modules behind it    *)
(* are external.                                                           *)
(***************************************************************************)
EXTENDS Integers, Sequences

CONSTANTS
  Threads,
  Channels,
  Writes,     \* what is written: the channel and what its messages ask
  Answers,    \* how what is asked may be answered: "positive", "negative", "pending"
  Others,     \* entry points called beside PassThruReadMsgs and PassThruWriteMsgs
  Exports,    \* the sets of entry points a driver may have
  NotLoaded,
  Requested,  \* messages a read asks for
  MaxCalls,   \* bound: calls of one process
  MaxOwing    \* bound: requests of a channel that wait for their answer

VARIABLES
  host,       \* each thread: "idle", "called" or "done", its call and the result
  exports,    \* the entry points the driver has
  owing,      \* the requests of each channel nobody has answered yet
  inbox,      \* messages received on it
  calls       \* calls made so far

driver == <<exports, owing, inbox>>
passThru == <<host, driver, calls>>

Call(fn, channel, asks) == [fn |-> fn, channel |-> channel, asks |-> asks]

Calls ==
  {Call("write", w.channel, w.asks) : w \in Writes} \cup {Call("read", c, <<>>) : c \in Channels}
    \cup {Call(fn, 0, <<>>) : fn \in Others}

Idle == [state |-> "idle"]
Called(call) == [state |-> "called", call |-> call]
Done(call, result) == [state |-> "done", call |-> call, result |-> result]

Result(rc, msgs) == [rc |-> rc, msgs |-> msgs]

(* The proxy's own answer for an entry point the driver lacks, and its own text    *)
(* for the last error.                                                       *)
Unavailable == Result("not_connected", <<>>)
Told == Result("told", <<>>)

(* A message: the request it belongs to, and what it says about it. *)
Message(kind, request) == [kind |-> kind, of |-> request.of, ask |-> request.ask]

(* The requests that a write asks to be sent. *)
Asked(call) == [i \in DOMAIN call.asks |-> [of |-> <<call.id, i>>, ask |-> call.asks[i]]]

Least(m, n) == IF m < n THEN m ELSE n

(* A read returns what there is, a write sends all of its messages or fails at one. *)
(* "empty" is a read that returned no message, whatever its return code: only *)
(* the count is looked at (exports.cpp, returned == 0).                      *)
Results(call) ==
  CASE call.fn = "read" ->
         LET n == Least(Len(inbox[call.channel]), Requested)
         IN  {Result(IF n = 0 THEN "empty" ELSE "ok", SubSeq(inbox[call.channel], 1, n))}
    [] call.fn = "write" ->
         {Result(IF n = Len(call.asks) THEN "ok" ELSE "error", SubSeq(Asked(call), 1, n)) :
            n \in 0 .. Least(Len(call.asks), MaxOwing - Len(owing[call.channel]))}
    [] OTHER -> {Result("ok", <<>>)}

Outcomes(call) == IF call.fn = "get_last_error" THEN Results(call) \cup {Told} ELSE Results(call)

(* A call of the driver.  What is written is answered later, and comes back as an  *)
(* indication that it was sent.                                              *)
Effect(call, result) ==
  CASE call.fn = "write" ->
         /\ owing' = [owing EXCEPT ![call.channel] = @ \o result.msgs]
         /\ inbox' = [inbox EXCEPT ![call.channel] = @ \o
              [i \in DOMAIN result.msgs |-> Message("echo", result.msgs[i])]]
    [] call.fn = "read" ->
         /\ inbox' = [inbox EXCEPT ![call.channel] = SubSeq(@, Len(result.msgs) + 1, Len(@))]
         /\ UNCHANGED owing
    [] OTHER -> UNCHANGED <<owing, inbox>>

PassThruInit ==
  /\ host = [t \in Threads |-> Idle] /\ calls = 0
  /\ exports = NotLoaded
  /\ owing = [c \in Channels |-> <<>>] /\ inbox = [c \in Channels |-> <<>>]

NewCall(call) ==
  [fn |-> call.fn, channel |-> call.channel, asks |-> call.asks, id |-> calls + 1]

Invoke(t, call) ==
  /\ host[t] = Idle /\ calls < MaxCalls
  /\ host' = [host EXCEPT ![t] = Called(NewCall(call))]
  /\ calls' = calls + 1 /\ UNCHANGED driver

Load == exports = NotLoaded /\ exports' \in Exports /\ UNCHANGED <<host, calls, owing, inbox>>

(* Where the proxy still holds the text of a failure of its own, it says that    *)
(* instead of asking the driver.                                             *)
Has(fn) == exports # NotLoaded /\ (fn \in exports \/ fn = "get_last_error")

Perform(t) ==
  /\ host[t].state = "called" /\ Has(host[t].call.fn)
  /\ \E result \in Outcomes(host[t].call) :
       /\ Effect(host[t].call, result)
       /\ host' = [host EXCEPT ![t] = Done(host[t].call, result)]
  /\ UNCHANGED <<calls, exports>>

Refuse(t) ==
  /\ host[t].state = "called" /\ exports # NotLoaded /\ ~Has(host[t].call.fn)
  /\ host' = [host EXCEPT ![t] = Done(host[t].call, Unavailable)]
  /\ UNCHANGED <<calls, driver>>

Return(t) ==
  /\ host[t].state = "done"
  /\ host' = [host EXCEPT ![t] = Idle] /\ UNCHANGED <<calls, driver>>

(* A module answers a request, or asks for more time. *)
Answer(c, i, kind) ==
  /\ inbox' = [inbox EXCEPT ![c] = Append(@, Message(kind, owing[c][i]))]
  /\ owing' = IF kind = "pending" THEN owing
             ELSE [owing EXCEPT ![c] = SubSeq(@, 1, i - 1) \o SubSeq(@, i + 1, Len(@))]
  /\ UNCHANGED <<host, exports, calls>>

(* The program is started anew. *)
Restart ==
  /\ host' = [t \in Threads |-> Idle] /\ calls' = 0
  /\ exports' = NotLoaded
  /\ owing' = [c \in Channels |-> <<>>] /\ inbox' = [c \in Channels |-> <<>>]

PassThruNext ==
  \/ \E t \in Threads : (\E call \in Calls : Invoke(t, call)) \/ Perform(t) \/ Refuse(t) \/ Return(t)
  \/ \E c \in Channels : \E i \in DOMAIN owing[c] : \E kind \in Answers[owing[c][i].ask] :
       Answer(c, i, kind)
  \/ Load \/ Restart

PassThruSpec == PassThruInit /\ [][PassThruNext]_passThru
=============================================================================
