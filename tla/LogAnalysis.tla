---------------------------- MODULE LogAnalysis ----------------------------
(***************************************************************************)
(* The analysis of a proxy log (python/volvo_diag/logs): frame by frame it *)
(* pairs the answers with the requests (parser.py), and it counts them by  *)
(* channel, CAN id and request (summarize.py, diff.py).                    *)
(*                                                                         *)
(* A log is any sequence of frames, of several channels and threads, that  *)
(* may break off anywhere.  Which request an answer belongs to is not in   *)
(* the log: the number (of) is there for the properties alone.             *)
(***************************************************************************)
EXTENDS ProxyLog, FiniteSets, FiniteSetsExt

CONSTANTS
  Logged,     \* the requests of the logs: a channel, and what is asked on it
  Selective,  \* the services whose key keeps the item
  Window,     \* window_us, the time a request waits for its answer
  Pauses,     \* the time from one frame of a channel to the next, where it is not 1
  MaxFrames,  \* bound: frames of a log
  MaxExtras   \* bound: those that are not a request or the answer to one, and pauses

VARIABLES
  frames,     \* the frames read so far (iter_frames)
  exchanges,  \* pair's result so far
  open,       \* the places in it of those that wait for an answer (pending)
  now,        \* when the last frame of each channel was logged
  extras

analysis == <<frames, exchanges, open, now, extras>>
logsVars == <<proxyVars, analysis>>

ASSUME AnalysisAssumption ==
  /\ Logged \subseteq [channel : Channels, ask : Asks]
  /\ Window \in Nat /\ Pauses \subseteq Int /\ MaxFrames \in Nat /\ MaxExtras \in Nat

AnswerKinds == {"echo", "pending", "positive", "negative"}

Frame ==
  [dir : {"tx", "rx"}, channel : Channels, kind : AnswerKinds \cup {"request"}, ask : Asks,
   of : Nat, at : Int]

(* request_key: of most services the item that is asked for is part of the key. *)
RequestKey(ask) ==
  IF ask.service \in Selective THEN [service |-> ask.service, item |-> ask.item]
                               ELSE [service |-> ask.service]

(* response_key: a positive answer repeats what was asked. *)
ResponseKey(frame) == RequestKey(frame.ask)

(* is_tx_confirmation *)
IsTxConfirmation(frame) == frame.kind = "echo"

(* mutant: responsePending is an answer like any other *)
AllAnswers(frame) == FALSE

(* 0x78: the real answer is still coming. *)
StillComing(frame) == frame.kind = "pending"

(* What ends the wait for an answer. *)
IsFinal(frame) == frame.dir = "rx" /\ frame.kind \in {"positive", "negative"}

NoResponse == [kind |-> "none"]

(* mutant: one queue for all channels *)
AnyChannel(exchange, frame) == TRUE

(* pending[frame.channel] *)
SameChannel(exchange, frame) == exchange.request.channel = frame.channel

(* A request is forgotten when an answer to it would be too late. *)
Waits(exchange, frame) ==
  SameChannel(exchange, frame) => frame.at - exchange.request.at <= Window

(* A negative answer echoes the service alone. *)
Fits(exchange, frame) ==
  /\ SameChannel(exchange, frame)
  /\ IF frame.kind \in {"negative", "pending"}
       THEN exchange.request.ask.service = frame.ask.service
       ELSE exchange.key = ResponseKey(frame)

-----------------------------------------------------------------------------
(* pair, for one frame *)

OpenExchange(frame) ==
  /\ frame.dir = "tx"
  /\ exchanges' = Append(exchanges,
                         [key |-> RequestKey(frame.ask), request |-> frame, response |-> NoResponse])
  /\ open' = open \cup {Len(exchanges) + 1}

PassOver(frame) ==
  /\ frame.dir = "rx" /\ IsTxConfirmation(frame)
  /\ UNCHANGED <<exchanges, open>>

(* The queue without the requests that have waited too long. *)
Waiting(frame) == {n \in open : Waits(exchanges[n], frame)}

Fitting(frame) == {n \in Waiting(frame) : Fits(exchanges[n], frame)}

NoMatch(frame) ==
  /\ frame.dir = "rx" /\ ~IsTxConfirmation(frame)
  /\ StillComing(frame) \/ Fitting(frame) = {}
  /\ open' = Waiting(frame) /\ UNCHANGED exchanges

(* The oldest that fits. *)
Match(frame) ==
  /\ frame.dir = "rx" /\ ~IsTxConfirmation(frame) /\ ~StillComing(frame)
  /\ Fitting(frame) # {}
  /\ LET n == Min(Fitting(frame))
     IN  /\ exchanges' = [exchanges EXCEPT ![n] = [@ EXCEPT !.response = frame]]
         /\ open' = Waiting(frame) \ {n}

PairFrame(frame) ==
  /\ frames' = Append(frames, frame)
  /\ now' = [now EXCEPT ![frame.channel] = frame.at]
  /\ OpenExchange(frame) \/ PassOver(frame) \/ NoMatch(frame) \/ Match(frame)

-----------------------------------------------------------------------------
(* The log *)

(* A request; they are numbered as they are logged. *)
LogRequest(c, ask, at) ==
  PairFrame([dir |-> "tx", channel |-> c, kind |-> "request", ask |-> ask,
             of |-> Len(exchanges) + 1, at |-> at])

(* An echo of request n or an answer to it, or an answer to a request that is not in *)
(* the log, or not yet (number 0).                                           *)
LogAnswer(c, ask, n, kind, at) ==
  /\ n > 0 => exchanges[n].request.channel = c /\ exchanges[n].request.ask = ask
  /\ PairFrame([dir |-> "rx", channel |-> c, kind |-> kind, ask |-> ask, of |-> n, at |-> at])

(* Request n is in the log, and no answer to it yet. *)
Unheard(n) == n > 0 /\ \A j \in DOMAIN frames : ~(IsFinal(frames[j]) /\ frames[j].of = n)

ReadFrame ==
  /\ Len(frames) < MaxFrames
  /\ \E send \in Logged, pause \in {1} \cup Pauses :
       LET at == now[send.channel] + pause
           extra(n, kind) == kind \in {"echo", "pending"} \/ ~Unheard(n) \/ pause # 1
       IN \/ /\ LogRequest(send.channel, send.ask, at)
             /\ extras' = extras + (IF pause = 1 THEN 0 ELSE 1)
          \/ \E n \in 0 .. Len(exchanges), kind \in {"echo"} \cup Answers[send.ask] :
               /\ LogAnswer(send.channel, send.ask, n, kind, at)
               /\ extras' = extras + (IF extra(n, kind) THEN 1 ELSE 0)
  /\ extras' <= MaxExtras

AnalysisInit ==
  /\ frames = <<>> /\ exchanges = <<>> /\ open = {} /\ now = [c \in Channels |-> 0] /\ extras = 0

(* Another log is read. *)
NextLog ==
  /\ frames # <<>>
  /\ frames' = <<>> /\ exchanges' = <<>> /\ open' = {} /\ now' = [c \in Channels |-> 0]
  /\ extras' = 0

(* The analysis and a program with the proxy share nothing but files.  (Bound: a   *)
(* log is read before the program is started.)                               *)
NotBegun == running /\ once = Nobody /\ calls = 0 /\ log = <<>>

LogsInit == ProxyInit /\ AnalysisInit

LogsNext ==
  \/ frames = <<>> /\ ProxyNext /\ UNCHANGED analysis
  \/ NotBegun /\ (ReadFrame \/ NextLog) /\ UNCHANGED proxyVars

LogsSpec ==
  /\ LogsInit /\ [][LogsNext]_logsVars
  /\ \A t \in Threads : WF_proxyVars(ProxyStep(t))

-----------------------------------------------------------------------------
(* summarize.py, diff.py *)

Latency(exchange) == exchange.response.at - exchange.request.at

CountKind(places, kinds) == Cardinality({n \in places : exchanges[n].response.kind \in kinds})

StatsOf(places) ==
  [count |-> Cardinality(places), answered |-> CountKind(places, {"positive"}),
   negative |-> CountKind(places, {"negative", "pending"})]

(* collect: the entry of one channel, CAN id and key. *)
Collect(c, module, key) ==
  StatsOf({n \in DOMAIN exchanges : exchanges[n].request.channel = c
             /\ exchanges[n].request.ask.module = module /\ exchanges[n].key = key})

(* diff.py, _by_key: the entries of a key are merged. *)
ByKey(key) == StatsOf({n \in DOMAIN exchanges : exchanges[n].key = key})

(* print_unanswered: "no response seen" *)
Unanswered(key) ==
  Cardinality({n \in DOMAIN exchanges : exchanges[n].key = key /\ exchanges[n].response = NoResponse})

-----------------------------------------------------------------------------
(* Properties *)

On(c) == {i \in DOMAIN frames : frames[i].channel = c}

Requests(c) == {i \in On(c) : frames[i].dir = "tx"}

Finals(n) == {j \in DOMAIN frames : IsFinal(frames[j]) /\ frames[j].of = n}

(* The answer j to request i could be taken for one to request k. *)
Confusable(i, j, k) ==
  \/ RequestKey(frames[k].ask) = RequestKey(frames[i].ask)
  \/ frames[j].kind = "negative" /\ frames[k].ask.service = frames[i].ask.service

(* The answer j comes after request i and in time, and in turn where it could be   *)
(* confused: what was asked before is answered, or longer ago than a request *)
(* is given.                                                                 *)
InTime(c, i, j) ==
  /\ i < j /\ frames[j].at - frames[i].at <= Window
  /\ \A k \in Requests(c) :
       k < i /\ Confusable(i, j, k) /\ (\A r \in Finals(frames[k].of) : r > j) =>
         frames[j].at - frames[k].at > Window

(* What the pairing takes for granted of a channel: its frames are in the order of *)
(* their times, as those of one thread are (InTurn), and each answer is to a *)
(* request of the log, the only one to it, and in turn.                      *)
Tame(c) ==
  /\ \A i, j \in On(c) : i < j => frames[i].at <= frames[j].at
  /\ \A j \in On(c) : IsFinal(frames[j]) =>
       /\ Finals(frames[j].of) = {j}
       /\ \E i \in Requests(c) : frames[i].of = frames[j].of /\ InTime(c, i, j)

(* The numbers of the requests of a key: all, and those sent to one module on one  *)
(* channel.                                                                  *)
Asked(key) ==
  {frames[i].of : i \in {k \in DOMAIN frames :
     frames[k].dir = "tx" /\ RequestKey(frames[k].ask) = key}}

AskedOf(c, module, key) ==
  {frames[i].of : i \in {k \in Requests(c) :
     frames[k].ask.module = module /\ RequestKey(frames[k].ask) = key}}

(* How many they are, and how they were really answered. *)
Got(numbers, kind) == {n \in numbers : \E j \in Finals(n) : frames[j].kind = kind}

TrueStats(numbers) ==
  [count |-> Cardinality(numbers), answered |-> Cardinality(Got(numbers, "positive")),
   negative |-> Cardinality(Got(numbers, "negative"))]

(* An exchange has the answer to its own request, within the window, or none. *)
OwnAnswer(n) ==
  exchanges[n].response # NoResponse =>
    exchanges[n].response.of = n /\ Latency(exchanges[n]) \in 0 .. Window

(* Of a tame channel the summary is true, whatever other channels and threads wrote *)
(* to the log in between, wherever it breaks off, and however many requests  *)
(* are open at a time, or were repeated: each request is counted for the     *)
(* module it was sent to, with its own answer.  The entries merged by        *)
(* request, and the requests reported to be unanswered, are true where all   *)
(* channels are tame.                                                        *)
SummaryTrue ==
  LET keys == {RequestKey(ask) : ask \in Asks}
      modules == {ask.module : ask \in Asks}
  IN  /\ \A c \in Channels : Tame(c) =>
           /\ \A m \in modules, key \in keys : Collect(c, m, key) = TrueStats(AskedOf(c, m, key))
           /\ \A n \in DOMAIN exchanges : exchanges[n].request.channel = c => OwnAnswer(n)
      /\ (\A c \in Channels : Tame(c)) => \A key \in keys :
           /\ ByKey(key) = TrueStats(Asked(key))
           /\ Unanswered(key) = Cardinality({n \in Asked(key) : Finals(n) = {}})
=============================================================================
