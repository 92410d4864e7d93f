--------------------------- MODULE ProxyLogProofs ---------------------------
(***************************************************************************)
(* ProxyLog for any number of threads, channels and calls: types and       *)
(* one-time initialisation, the refinement of PassThru (the program that   *)
(* loads the proxy cannot tell it from the driver), and that the log is    *)
(* what happened; and LogAnalysis for any log: that the summary is true.   *)
(*                                                                         *)
(* All need what the place of a thread in a call says of the proxy: that   *)
(* past its entry the proxy is initialised, and that only the question for *)
(* the last error is answered by the proxy itself.  The log needs that     *)
(* what a thread has still to record comes after all it has recorded.      *)
(***************************************************************************)
EXTENDS LogAnalysis, SequenceTheorems, WellFoundedInduction, TLAPS

(* A log is a sequence, of whatever records. *)
LogInv == log \in Seq({log[i] : i \in DOMAIN log})

(* What the place of a thread says of the shared state and of its call. *)
StageInv ==
  /\ DOMAIN call = Threads /\ DOMAIN result = Threads /\ DOMAIN line = Threads
  /\ \A t \in Threads :
       /\ pc[t] \in {"tell", "record", "line"} => once = Everybody
       /\ pc[t] = "tell" => call[t].fn = "get_last_error"

IInv == ProxyTypeOK /\ LogInv /\ StageInv

-----------------------------------------------------------------------------
(* A sequence over any set is one over its own elements. *)
LEMMA OwnElements ==
  ASSUME NEW S, NEW s \in Seq(S)
  PROVE  s \in Seq({s[i] : i \in DOMAIN s})
<1> DEFINE R == {s[i] : i \in DOMAIN s}
<1>1. Len(s) \in Nat /\ DOMAIN s = 1 .. Len(s)
  BY LenProperties
<1>2. \A i \in 1 .. Len(s) : s[i] \in R
  BY <1>1
<1>3. SubSeq(s, 1, Len(s)) \in Seq(R)
  <2> HIDE DEF R
  <2> QED
    BY <1>1, <1>2, SubSeqProperties
<1> QED
  BY <1>3, SubSeqFull

(* A log stays a log when a record is added to it, and has one record more. *)
LEMMA AppendLog ==
  ASSUME NEW s, s \in Seq({s[i] : i \in DOMAIN s}), NEW x
  PROVE  /\ Append(s, x) \in Seq({Append(s, x)[i] : i \in DOMAIN Append(s, x)})
         /\ Len(Append(s, x)) = Len(s) + 1
         /\ Len(s) \in Nat
<1> DEFINE R == {s[i] : i \in DOMAIN s}
           S == R \cup {x}
<1>1. s \in Seq(S)
  <2>1. s \in Seq(R) /\ R \subseteq S
    OBVIOUS
  <2> HIDE DEF R, S
  <2> QED
    BY <2>1, SeqMonotonic
<1> HIDE DEF S
<1>2. x \in S
  BY DEF S
<1>3. Append(s, x) \in Seq(S) /\ Len(Append(s, x)) = Len(s) + 1 /\ Len(s) \in Nat
  BY <1>1, <1>2
<1> QED
  BY <1>3, OwnElements

-----------------------------------------------------------------------------
(* A stage, a call and the proxy's own error, or the log, change with most steps; *)
(* the two halves of IInv are kept apart.                                    *)
FlushInv == LogInv /\ flushed \in 0 .. Len(log)

(* Everything but the log. *)
CallInv ==
  /\ pc \in [Threads -> Stages]
  /\ once \in Threads \cup {Nobody, Everybody}
  /\ \A t \in Threads : pc[t] \in {"config", "start", "load"} <=> once = t
  /\ exports = NotLoaded <=> once # Everybody
  /\ proxyError \in {"none", "load", "slot"}
  /\ file \in {"none", "open", "closed"}
  /\ seq \in Nat /\ calls \in 0 .. MaxCalls
  /\ running \in BOOLEAN
  /\ StageInv

LEMMA Halves == IInv <=> FlushInv /\ CallInv
BY DEF IInv, FlushInv, CallInv, ProxyTypeOK

LEMMA InitialCalls == ProxyInit => CallInv
BY ProxyAssumption DEF ProxyInit, CallInv, StageInv, Stages

LEMMA InitialLog == ProxyInit => FlushInv
<1> SUFFICES ASSUME ProxyInit PROVE FlushInv
  OBVIOUS
<1>1. log = <<>> /\ flushed = 0
  BY DEF ProxyInit
<1>2. <<>> \in Seq({log[i] : i \in DOMAIN log}) /\ Len(<<>>) = 0
  BY EmptySeq
<1> QED
  BY <1>1, <1>2 DEF FlushInv, LogInv

-----------------------------------------------------------------------------
(* Initialisation leaves the rest of the invariant alone: only the thread that has *)
(* it goes on, and it ends with the entry points known.                      *)
LEMMA InitialisationCalls ==
  ASSUME CallInv, NEW t \in Threads,
         InitOnce(t) \/ LoadConfig(t) \/ StartLog(t) \/ LoadVendorDll(t)
  PROVE  CallInv'
<1> USE ProxyAssumption DEF CallInv, StageInv, Stages, Goto, environment
<1>1. CASE InitOnce(t)
  BY <1>1 DEF InitOnce
<1>2. CASE LoadConfig(t)
  BY <1>2 DEF LoadConfig
<1>3. CASE StartLog(t)
  BY <1>3 DEF StartLog
<1>4. CASE LoadVendorDll(t)
  <2>1. exports' \in Exports /\ exports' # NotLoaded /\ once' = Everybody
    BY <1>4 DEF LoadVendorDll, InitDone
  <2>2. seq' \in Nat /\ proxyError' \in {"none", "load", "slot"}
    BY <1>4 DEF LoadVendorDll, InitRecord
  <2>3. /\ pc' = [pc EXCEPT ![t] = "enter"] /\ once = t
        /\ UNCHANGED <<call, result, line, file, calls, running>>
    BY <1>4 DEF LoadVendorDll
  <2> QED
    BY <2>1, <2>2, <2>3
<1> QED
  BY <1>1, <1>2, <1>3, <1>4

(* A call and its record. *)
LEMMA CallCalls ==
  ASSUME CallInv, NEW t \in Threads,
         \/ Forward(t) \/ NotAvailable(t) \/ HaveProxyError(t) \/ TellProxyError(t)
         \/ BeginRecord(t) \/ NoRecord(t) \/ EndRecord(t)
  PROVE  CallInv'
<1> USE ProxyAssumption DEF CallInv, StageInv, Stages, Goto, environment, shared
<1>1. CASE Forward(t)
  BY <1>1 DEF Forward, Ready
<1>2. CASE NotAvailable(t)
  BY <1>2 DEF NotAvailable, Ready
<1>3. CASE HaveProxyError(t)
  BY <1>3 DEF HaveProxyError, OwnError, Ready
<1>4. CASE TellProxyError(t)
  BY <1>4 DEF TellProxyError
<1>5. CASE BeginRecord(t)
  BY <1>5 DEF BeginRecord
<1>6. CASE NoRecord(t)
  BY <1>6 DEF NoRecord, Returns
<1>7. CASE EndRecord(t)
  BY <1>7 DEF EndRecord, Returns
<1> QED
  BY <1>1, <1>2, <1>3, <1>4, <1>5, <1>6, <1>7

(* The program, the process and the modules. *)
LEMMA OutsideCalls ==
  ASSUME CallInv,
         \/ \E t \in Threads : \E new \in Vendor!Calls : Enter(t, new)
         \/ \E c \in Channels : \E i \in DOMAIN owing[c] : \E kind \in Answers[owing[c][i].ask] :
              Answer(c, i, kind)
         \/ StopLog \/ Crash \/ NewProcess \/ UNCHANGED proxyVars
  PROVE  CallInv'
<1> USE ProxyAssumption DEF CallInv, StageInv, Stages, Goto, environment, shared, proxyThread
<1>1. CASE \E t \in Threads : \E new \in Vendor!Calls : Enter(t, new)
  BY <1>1 DEF Enter
<1>2. CASE \E c \in Channels : \E i \in DOMAIN owing[c] : \E kind \in Answers[owing[c][i].ask] :
              Answer(c, i, kind)
  BY <1>2 DEF Answer, Vendor!Answer
<1>3. CASE StopLog
  BY <1>3 DEF StopLog
<1>4. CASE Crash
  <2>1. Reset /\ running' \in BOOLEAN
    BY <1>4 DEF Crash
  <2> QED
    BY <2>1 DEF Reset
<1>5. CASE NewProcess
  BY <1>5 DEF NewProcess, Reset
<1>6. CASE UNCHANGED proxyVars
  BY <1>6 DEF proxyVars
<1> QED
  BY <1>1, <1>2, <1>3, <1>4, <1>5, <1>6

-----------------------------------------------------------------------------
(* A line is added, and some or all of the log is flushed. *)
LEMMA LineAdded ==
  ASSUME FlushInv, NEW x, log' = Append(log, x), flushed' \in {flushed, Len(log) + 1}
  PROVE  FlushInv'
<1>1. /\ log' \in Seq({log'[i] : i \in DOMAIN log'})
      /\ Len(log') = Len(log) + 1 /\ Len(log) \in Nat
  BY AppendLog DEF FlushInv, LogInv
<1>2. LogInv'
  BY <1>1 DEF LogInv
<1>3. flushed' \in 0 .. Len(log')
  BY <1>1 DEF FlushInv
<1> QED
  BY <1>2, <1>3 DEF FlushInv

LEMMA LogStarts ==
  ASSUME NEW x, log' = <<x>>, flushed' = 1
  PROVE  FlushInv'
<1>1. log' = Append(<<>>, x)
  OBVIOUS
<1>2. <<>> \in Seq({x}) /\ Len(<<>>) = 0
  BY EmptySeq
<1>3. log' \in Seq({x}) /\ Len(log') = 1
  BY <1>1, <1>2
<1>4. log' \in Seq({log'[i] : i \in DOMAIN log'})
  BY <1>3, OwnElements
<1> QED
  BY <1>3, <1>4 DEF FlushInv, LogInv

LEMMA LogEmpty ==
  ASSUME log' = <<>>, flushed' = 0
  PROVE  FlushInv'
<1>1. <<>> \in Seq({log'[i] : i \in DOMAIN log'}) /\ Len(<<>>) = 0
  BY EmptySeq
<1> QED
  BY <1>1 DEF FlushInv, LogInv

(* What a crash leaves is a log, of which nothing counts as flushed any more. *)
LEMMA CrashLog == FlushInv /\ Crash => FlushInv'
<1> SUFFICES ASSUME FlushInv, Crash PROVE FlushInv'
  OBVIOUS
<1>1. PICK kept \in flushed .. Len(log), torn \in BOOLEAN :
        log' = SubSeq(log, 1, kept) \o (IF torn THEN <<[ev |-> "torn"]>> ELSE <<>>)
  BY DEF Crash
<1> DEFINE R == {log[i] : i \in DOMAIN log}
           S == R \cup {[ev |-> "torn"]}
           rest == IF torn THEN <<[ev |-> "torn"]>> ELSE <<>>
<1>2. log \in Seq(R) /\ R \subseteq S /\ [ev |-> "torn"] \in S
  BY DEF FlushInv, LogInv
<1>3. rest \in Seq(S)
  <2>1. <<>> \in Seq(S) /\ <<[ev |-> "torn"]>> = Append(<<>>, [ev |-> "torn"])
    BY EmptySeq
  <2> HIDE DEF S
  <2> QED
    BY <1>2, <2>1
<1> HIDE DEF R, S, rest
<1>4. log \in Seq(S) /\ Len(log) \in Nat /\ DOMAIN log = 1 .. Len(log)
  BY <1>2, SeqMonotonic, LenProperties
<1>5. kept \in 0 .. Len(log)
  BY <1>1, <1>4 DEF FlushInv
<1>6. \A i \in 1 .. kept : log[i] \in S
  BY <1>4, <1>5, ElementOfSeq
<1>7. SubSeq(log, 1, kept) \in Seq(S)
  BY <1>5, <1>6, SubSeqProperties
<1>8. log' \in Seq(S)
  BY <1>1, <1>3, <1>7, ConcatProperties DEF rest
<1>9. log' \in Seq({log'[i] : i \in DOMAIN log'}) /\ Len(log') \in Nat
  BY <1>8, OwnElements, LenProperties
<1>10. flushed' = 0
  BY DEF Crash, Reset
<1> QED
  BY <1>9, <1>10 DEF FlushInv, LogInv

(* Each step that touches the log appends to it, begins it, or cuts it. *)
LEMMA StepLog == FlushInv /\ [ProxyNext]_proxyVars => FlushInv'
<1> SUFFICES ASSUME FlushInv, [ProxyNext]_proxyVars PROVE FlushInv'
  OBVIOUS
<1>1. ASSUME UNCHANGED <<log, flushed>> PROVE FlushInv'
  BY <1>1 DEF FlushInv, LogInv
<1>2. CASE \E t \in Threads : StartLog(t)
  <2>1. PICK t \in Threads : StartLog(t)
    BY <1>2
  <2>2. CASE log' = <<[ev |-> "session"]>> /\ flushed' = 1
    BY <2>2, LogStarts
  <2> QED
    BY <1>1, <2>1, <2>2 DEF StartLog
<1>3. CASE \E t \in Threads : LoadVendorDll(t)
  <2>1. PICK t \in Threads, ev \in {"driver_loaded", "driver_load_failed"} : InitRecord(t, ev)
    BY <1>3 DEF LoadVendorDll
  <2>2. CASE file = "open"
    <3>1. /\ log' = Append(log, [ev |-> ev, thread |-> t, id |-> 0, mono |-> clock, n |-> seq + 1])
          /\ flushed' \in {flushed, Len(log) + 1}
      BY <2>1, <2>2 DEF InitRecord
    <3> QED
      BY <3>1, LineAdded
  <2> QED
    BY <1>1, <2>1, <2>2 DEF InitRecord
<1>4. CASE \E t \in Threads : EndRecord(t)
  <2>1. PICK t \in Threads : EndRecord(t)
    BY <1>4
  <2>2. CASE StillOpen(t)
    <3>1. log' = Append(log, [line[t] EXCEPT !.n = seq + 1]) /\ flushed' \in {flushed, Len(log) + 1}
      BY <2>1, <2>2 DEF EndRecord
    <3> QED
      BY <3>1, LineAdded
  <2> QED
    BY <1>1, <2>1, <2>2 DEF EndRecord
<1>5. CASE StopLog
  <2>1. log' = Append(log, [ev |-> "session_end"]) /\ flushed' = Len(log) + 1
    BY <1>5 DEF StopLog
  <2> QED
    BY <2>1, LineAdded
<1>6. CASE Crash
  BY <1>6, CrashLog
<1>7. CASE NewProcess
  BY <1>7, LogEmpty DEF NewProcess, Reset
<1>8. CASE \E t \in Threads :
             \/ InitOnce(t) \/ LoadConfig(t) \/ Forward(t) \/ NotAvailable(t)
             \/ HaveProxyError(t) \/ TellProxyError(t) \/ BeginRecord(t) \/ NoRecord(t)
             \/ \E new \in Vendor!Calls : Enter(t, new)
  BY <1>1, <1>8
  DEF InitOnce, LoadConfig, Forward, NotAvailable, HaveProxyError, TellProxyError, BeginRecord,
      NoRecord, Enter, shared
<1>9. CASE \/ \E c \in Channels : \E i \in DOMAIN owing[c] : \E kind \in Answers[owing[c][i].ask] :
                Answer(c, i, kind)
           \/ UNCHANGED proxyVars
  BY <1>1, <1>9 DEF Answer, proxyVars, shared
<1> QED
  BY <1>2, <1>3, <1>4, <1>5, <1>6, <1>7, <1>8, <1>9 DEF ProxyNext, ProxyStep

-----------------------------------------------------------------------------
LEMMA Invariance == ProxySpec => []IInv
<1>1. ProxyInit => IInv
  BY InitialCalls, InitialLog, Halves
<1>2. IInv /\ [ProxyNext]_proxyVars => IInv'
  <2> SUFFICES ASSUME IInv, [ProxyNext]_proxyVars PROVE IInv'
    OBVIOUS
  <2>1. FlushInv /\ CallInv
    BY Halves
  <2>2. FlushInv'
    BY <2>1, StepLog
  <2>3. CallInv'
    BY <2>1, InitialisationCalls, CallCalls, OutsideCalls DEF ProxyNext, ProxyStep
  <2> QED
    BY <2>2, <2>3, Halves DEF IInv, FlushInv, CallInv, ProxyTypeOK
<1> QED
  BY <1>1, <1>2, PTL DEF ProxySpec

(* Every variable of the proxy stays in its domain; initialisation has at most one   *)
(* thread, is done once, and the driver's entry points are known exactly     *)
(* from then on (ensure_init, call_once).                                    *)
THEOREM ProxyTypes == ProxySpec => []ProxyTypeOK
<1>1. IInv => ProxyTypeOK
  BY DEF IInv
<1> QED
  BY <1>1, Invariance, PTL

-----------------------------------------------------------------------------
(* The program's view of the thread that moves changes, and nobody else's. *)
LEMMA OneThread ==
  ASSUME CallInv, NEW t \in Threads, NEW stage, pc' = [pc EXCEPT ![t] = stage],
         \A u \in Threads \ {t} : call'[u] = call[u] /\ result'[u] = result[u]
  PROVE  Host' = [Host EXCEPT ![t] = Host'[t]]
<1>1. \A u \in Threads \ {t} : pc'[u] = pc[u]
  BY DEF CallInv
<1>2. \A u \in Threads \ {t} : Host'[u] = Host[u]
  BY <1>1 DEF Host
<1> QED
  BY <1>2 DEF Host

(* What the program sees of a thread at each stage. *)
LEMMA View ==
  ASSUME NEW t \in Threads
  PROVE  /\ pc[t] = "idle" => Host[t] = Vendor!Idle
         /\ pc[t] \in {"record", "line"} => Host[t] = Vendor!Done(call[t], result[t])
         /\ pc[t] \in {"enter", "config", "start", "load", "tell"} => Host[t] = Vendor!Called(call[t])
BY DEF Host, Vendor!Idle, Vendor!Done, Vendor!Called

LEMMA NextView ==
  ASSUME NEW t \in Threads
  PROVE  /\ pc'[t] = "idle" => Host'[t] = Vendor!Idle
         /\ pc'[t] \in {"record", "line"} => Host'[t] = Vendor!Done(call'[t], result'[t])
         /\ pc'[t] \in {"enter", "config", "start", "load", "tell"} => Host'[t] = Vendor!Called(call'[t])
BY DEF Host, Vendor!Idle, Vendor!Done, Vendor!Called

(* Between entering the proxy and the driver's call, and between that and the end   *)
(* of the record, the program sees nothing.                                  *)
LEMMA SameView ==
  ASSUME CallInv, NEW t \in Threads, NEW stage, pc' = [pc EXCEPT ![t] = stage],
         UNCHANGED <<call, result>>,
         \/ pc[t] \in {"record", "line"} /\ stage \in {"record", "line"}
         \/ /\ pc[t] \in {"enter", "config", "start", "load", "tell"}
            /\ stage \in {"enter", "config", "start", "load", "tell"}
  PROVE  UNCHANGED Host
<1>1. pc'[t] = stage
  BY DEF CallInv
<1>2. Host'[t] = Host[t]
  BY <1>1, View, NextView
<1>3. Host' = [Host EXCEPT ![t] = Host'[t]]
  BY OneThread
<1> QED
  BY <1>2, <1>3 DEF Host

LEMMA EnterRefines ==
  ASSUME CallInv, NEW t \in Threads, NEW new \in Vendor!Calls, Enter(t, new)
  PROVE  Vendor!Invoke(t, new)
<1>1. pc' = [pc EXCEPT ![t] = "enter"] /\ call' = [call EXCEPT ![t] = Vendor!NewCall(new)]
  BY DEF Enter, Goto
<1>2. pc'[t] = "enter" /\ call'[t] = Vendor!NewCall(new)
  BY <1>1 DEF CallInv, StageInv
<1>3. Host' = [Host EXCEPT ![t] = Vendor!Called(Vendor!NewCall(new))]
  <2>1. \A u \in Threads \ {t} : call'[u] = call[u] /\ result'[u] = result[u]
    BY <1>1 DEF Enter, CallInv, StageInv
  <2> QED
    BY <1>1, <1>2, <2>1, OneThread, NextView
<1>4. Host[t] = Vendor!Idle
  BY View DEF Enter
<1> QED
  BY <1>3, <1>4 DEF Enter, shared, Vendor!Invoke, Vendor!driver

(* Initialisation is invisible, up to the entry points that become known. *)
LEMMA InitialisationRefines ==
  ASSUME CallInv, NEW t \in Threads,
         InitOnce(t) \/ LoadConfig(t) \/ StartLog(t) \/ LoadVendorDll(t)
  PROVE  Vendor!Load \/ UNCHANGED Vendor!passThru
<1>1. CASE InitOnce(t)
  <2>1. UNCHANGED Host
    BY <1>1, SameView DEF InitOnce, Goto
  <2> QED
    BY <1>1, <2>1 DEF InitOnce, environment, Vendor!passThru, Vendor!driver
<1>2. CASE LoadConfig(t)
  <2>1. UNCHANGED Host
    BY <1>2, SameView DEF LoadConfig, Goto
  <2> QED
    BY <1>2, <2>1 DEF LoadConfig, environment, Vendor!passThru, Vendor!driver
<1>3. CASE StartLog(t)
  <2>1. UNCHANGED Host
    BY <1>3, SameView DEF StartLog, Goto
  <2> QED
    BY <1>3, <2>1 DEF StartLog, environment, Vendor!passThru, Vendor!driver
<1>4. CASE LoadVendorDll(t)
  <2>1. UNCHANGED Host
    BY <1>4, SameView DEF LoadVendorDll, Goto
  <2>2. once = t /\ exports = NotLoaded
    BY <1>4, ProxyAssumption DEF LoadVendorDll, CallInv
  <2>3. exports' \in Exports /\ UNCHANGED <<calls, owing, inbox>>
    BY <1>4 DEF LoadVendorDll, environment
  <2> QED
    BY <2>1, <2>2, <2>3 DEF Vendor!Load
<1> QED
  BY <1>1, <1>2, <1>3, <1>4

(* A thread past the entry finds the entry points known. *)
LEMMA Known ==
  ASSUME CallInv, NEW t \in Threads, Ready(t) \/ pc[t] = "tell"
  PROVE  exports # NotLoaded
BY ProxyAssumption DEF CallInv, StageInv, Ready

(* The driver's call is where the program's call happens. *)
LEMMA ForwardRefines ==
  ASSUME CallInv, NEW t \in Threads, Forward(t)
  PROVE  Vendor!Perform(t)
<1>1. PICK r \in Vendor!Results(call[t]) :
        Vendor!Effect(call[t], r) /\ result' = [result EXCEPT ![t] = r]
  BY DEF Forward
<1>2. pc' = [pc EXCEPT ![t] = "record"] /\ call' = call /\ UNCHANGED <<calls, exports>>
  BY DEF Forward, Goto, shared
<1>3. pc'[t] = "record" /\ result'[t] = r
  BY <1>1, <1>2 DEF CallInv, StageInv
<1>4. Host' = [Host EXCEPT ![t] = Vendor!Done(call[t], r)]
  <2>1. \A u \in Threads \ {t} : call'[u] = call[u] /\ result'[u] = result[u]
    BY <1>1, <1>2
  <2> QED
    BY <1>2, <1>3, <2>1, OneThread, NextView
<1>5. Host[t] = Vendor!Called(call[t])
  BY View DEF Forward, Ready
<1>6. Host[t].state = "called" /\ Host[t].call = call[t]
  BY <1>5 DEF Vendor!Called
<1>7. Vendor!Has(call[t].fn)
  BY Known DEF Forward, Resolved, Vendor!Has
<1>8. r \in Vendor!Outcomes(call[t])
  BY DEF Vendor!Outcomes
<1> QED
  BY <1>1, <1>2, <1>4, <1>6, <1>7, <1>8 DEF Vendor!Perform

(* So is the answer the proxy gives itself, for the last error ... *)
LEMMA TellRefines ==
  ASSUME CallInv, NEW t \in Threads, TellProxyError(t)
  PROVE  Vendor!Perform(t)
<1>1. /\ pc' = [pc EXCEPT ![t] = "record"] /\ result' = [result EXCEPT ![t] = Vendor!Told]
      /\ pc[t] = "tell" /\ UNCHANGED <<call, calls, exports, owing, inbox>>
  BY DEF TellProxyError, Goto, environment
<1>2. call[t].fn = "get_last_error"
  BY <1>1 DEF CallInv, StageInv
<1>3. Host' = [Host EXCEPT ![t] = Vendor!Done(call[t], Vendor!Told)]
  <2>1. \A u \in Threads \ {t} : call'[u] = call[u] /\ result'[u] = result[u]
    BY <1>1
  <2>2. pc'[t] = "record" /\ result'[t] = Vendor!Told /\ call'[t] = call[t]
    BY <1>1 DEF CallInv, StageInv
  <2> QED
    BY <1>1, <2>1, <2>2, OneThread, NextView
<1>4. Host[t].state = "called" /\ Host[t].call = call[t]
  <2>1. Host[t] = Vendor!Called(call[t])
    BY <1>1, View
  <2> QED
    BY <2>1 DEF Vendor!Called
<1>5. Vendor!Has(call[t].fn)
  BY <1>1, <1>2, Known DEF Vendor!Has
<1>6. Vendor!Told \in Vendor!Outcomes(call[t])
  BY <1>2 DEF Vendor!Outcomes
<1>7. Vendor!Effect(call[t], Vendor!Told)
  BY <1>1, <1>2 DEF Vendor!Effect
<1> QED
  BY <1>1, <1>3, <1>4, <1>5, <1>6, <1>7 DEF Vendor!Perform

(* ... and its refusal of an entry point that the driver lacks. *)
LEMMA NotAvailableRefines ==
  ASSUME CallInv, NEW t \in Threads, NotAvailable(t)
  PROVE  Vendor!Refuse(t)
<1>1. /\ pc' = [pc EXCEPT ![t] = "record"]
      /\ result' = [result EXCEPT ![t] = Vendor!Unavailable]
      /\ pc[t] = "enter" /\ UNCHANGED <<call, calls, exports, owing, inbox>>
  BY DEF NotAvailable, Goto, Ready, environment
<1>2. Host' = [Host EXCEPT ![t] = Vendor!Done(call[t], Vendor!Unavailable)]
  <2>1. \A u \in Threads \ {t} : call'[u] = call[u] /\ result'[u] = result[u]
    BY <1>1
  <2>2. pc'[t] = "record" /\ result'[t] = Vendor!Unavailable /\ call'[t] = call[t]
    BY <1>1 DEF CallInv, StageInv
  <2> QED
    BY <1>1, <2>1, <2>2, OneThread, NextView
<1>3. Host[t].state = "called" /\ Host[t].call = call[t]
  <2>1. Host[t] = Vendor!Called(call[t])
    BY <1>1, View
  <2> QED
    BY <2>1 DEF Vendor!Called
<1>4. ~Vendor!Has(call[t].fn)
  BY DEF NotAvailable, OwnError, Resolved, Vendor!Has
<1>5. exports # NotLoaded
  BY Known DEF NotAvailable
<1> QED
  BY <1>1, <1>2, <1>3, <1>4, <1>5 DEF Vendor!Refuse, Vendor!driver

(* The end of the record is where the call returns. *)
LEMMA ReturnRefines ==
  ASSUME CallInv, NEW t \in Threads, NoRecord(t) \/ EndRecord(t)
  PROVE  Vendor!Return(t)
<1>1. /\ pc[t] \in {"record", "line"} /\ Returns(t, result[t]) /\ exports' = exports
  BY DEF NoRecord, EndRecord, shared
<1>2. /\ pc' = [pc EXCEPT ![t] = "idle"]
      /\ \A u \in Threads \ {t} : call'[u] = call[u] /\ result'[u] = result[u]
      /\ UNCHANGED <<calls, owing, inbox>>
  BY <1>1 DEF Returns, Goto
<1>3. Host' = [Host EXCEPT ![t] = Vendor!Idle]
  <2>1. pc'[t] = "idle"
    BY <1>2 DEF CallInv
  <2> QED
    BY <1>2, <2>1, OneThread, NextView
<1>4. Host[t].state = "done"
  <2>1. Host[t] = Vendor!Done(call[t], result[t])
    BY <1>1, View
  <2> QED
    BY <2>1 DEF Vendor!Done
<1> QED
  BY <1>1, <1>2, <1>3, <1>4 DEF Vendor!Return, Vendor!driver

(* The process ends, and another one begins. *)
LEMMA RestartRefines ==
  ASSUME CallInv, Crash \/ NewProcess
  PROVE  Vendor!Restart
<1>1. Reset
  BY DEF Crash, NewProcess
<1>2. pc' = [t \in Threads |-> "idle"]
  BY <1>1 DEF Reset
<1>3. Host' = [t \in Threads |-> Vendor!Idle]
  BY <1>2 DEF Host, Vendor!Idle
<1> QED
  BY <1>1, <1>3 DEF Reset, Vendor!Restart

(* The remaining steps touch nothing the program sees. *)
LEMMA Unseen ==
  ASSUME CallInv,
         \/ \E t \in Threads : HaveProxyError(t) \/ BeginRecord(t)
         \/ StopLog \/ UNCHANGED proxyVars
  PROVE  UNCHANGED Vendor!passThru
<1>1. CASE \E t \in Threads : HaveProxyError(t) \/ BeginRecord(t)
  <2>1. PICK t \in Threads : HaveProxyError(t) \/ BeginRecord(t)
    BY <1>1
  <2>2. UNCHANGED Host
    <3>1. CASE HaveProxyError(t)
      BY <3>1, SameView DEF HaveProxyError, Ready, Goto
    <3>2. CASE BeginRecord(t)
      BY <3>2, SameView DEF BeginRecord, Goto
    <3> QED
      BY <2>1, <3>1, <3>2
  <2>3. UNCHANGED <<exports, owing, inbox, calls>>
    BY <2>1 DEF HaveProxyError, BeginRecord, shared, environment
  <2> QED
    BY <2>2, <2>3 DEF Vendor!passThru, Vendor!driver
<1>2. CASE StopLog \/ UNCHANGED proxyVars
  <2>1. UNCHANGED <<pc, call, result, exports, owing, inbox, calls>>
    BY <1>2 DEF StopLog, proxyVars, proxyThread, shared, environment
  <2>2. UNCHANGED Host
    BY <2>1 DEF Host
  <2> QED
    BY <2>1, <2>2 DEF Vendor!passThru, Vendor!driver
<1> QED
  BY <1>1, <1>2

LEMMA StepRefines ==
  IInv /\ [ProxyNext]_proxyVars => [Vendor!PassThruNext]_(Vendor!passThru)
<1> SUFFICES ASSUME IInv, [ProxyNext]_proxyVars
             PROVE  [Vendor!PassThruNext]_(Vendor!passThru)
  OBVIOUS
<1> CallInv
  BY Halves
<1>1. CASE \E t \in Threads : \E new \in Vendor!Calls : Enter(t, new)
  BY <1>1, EnterRefines DEF Vendor!PassThruNext
<1>2. CASE \E t \in Threads : InitOnce(t) \/ LoadConfig(t) \/ StartLog(t) \/ LoadVendorDll(t)
  BY <1>2, InitialisationRefines DEF Vendor!PassThruNext
<1>3. CASE \E t \in Threads : Forward(t) \/ TellProxyError(t)
  BY <1>3, ForwardRefines, TellRefines DEF Vendor!PassThruNext
<1>4. CASE \E t \in Threads : NotAvailable(t)
  BY <1>4, NotAvailableRefines DEF Vendor!PassThruNext
<1>5. CASE \E t \in Threads : NoRecord(t) \/ EndRecord(t)
  BY <1>5, ReturnRefines DEF Vendor!PassThruNext
<1>6. CASE \E c \in Channels : \E i \in DOMAIN owing[c] : \E kind \in Answers[owing[c][i].ask] :
             Answer(c, i, kind)
  BY <1>6 DEF Answer, Vendor!PassThruNext
<1>7. CASE Crash \/ NewProcess
  BY <1>7, RestartRefines DEF Vendor!PassThruNext
<1>8. CASE \/ \E t \in Threads : HaveProxyError(t) \/ BeginRecord(t)
           \/ StopLog \/ UNCHANGED proxyVars
  BY <1>8, Unseen
<1> QED
  BY <1>1, <1>2, <1>3, <1>4, <1>5, <1>6, <1>7, <1>8 DEF ProxyNext, ProxyStep

(* The program cannot tell the proxy from the driver (exports.cpp): whatever the    *)
(* threads, the configuration and the log do, each call is performed by the  *)
(* driver exactly once, or refused for want of the entry point, and returns  *)
(* what the driver returned.                                                 *)
THEOREM Transparent == ProxySpec => ImplementsDriver
<1>1. ProxyInit => Vendor!PassThruInit
  BY DEF ProxyInit, Vendor!PassThruInit, Host, Vendor!Idle
<1> QED
  BY <1>1, StepRefines, Invariance, PTL DEF ProxySpec, ImplementsDriver, Vendor!PassThruSpec

-----------------------------------------------------------------------------
(* What is written.  A record is numbered when it is added to the file, and follows *)
(* those of its thread because it was begun after they were: every record of *)
(* the file is of an earlier call than the one the thread is in, and older   *)
(* than the one under construction.  That a call which has returned is in    *)
(* the file needs that none returned before the file was opened.             *)

(* Nothing is done before the proxy is initialised. *)
StartInv == once # Everybody => returned = {} /\ seq = 0 /\ Records = {}

FileInv ==
  /\ file = "none" => log = <<>>
  /\ file # "none" => flushed >= 1
  /\ file = "open" => Len(log) = seq + 1
  /\ \A i \in DOMAIN log : log[i].ev # "torn" /\ (log[i].ev = "session_end" => file = "closed")

ClockInv ==
  /\ clock \in Nat
  /\ \A i \in Records : log[i].id \in 0 .. calls /\ log[i].mono \in Nat /\ log[i].mono < clock

(* What a thread will record comes after what it has recorded. *)
CallAhead(t) ==
  /\ call[t].fn \in {"read", "write"} \cup OtherCalls /\ call[t].id \in 1 .. calls
  /\ \A i \in Records : log[i].thread = t => log[i].id < call[t].id

LineAhead(t) ==
  /\ DOMAIN line[t] = {"ev", "thread", "id", "channel", "msgs", "rc", "mono", "n"}
  /\ line[t].ev \notin {"session", "session_end", "torn"}
  /\ line[t].thread = t /\ line[t].id = call[t].id /\ line[t].rc = result[t].rc
  /\ call[t].fn = "read" => line[t].msgs = result[t].msgs
  /\ line[t].mono \in Nat /\ line[t].mono < clock
  /\ \A i \in Records : log[i].thread = t => log[i].mono < line[t].mono

Ahead(t) == (pc[t] # "idle" => CallAhead(t)) /\ (pc[t] = "line" => LineAhead(t))

WrittenInv ==
  /\ Numbered /\ InTurn /\ Framed
  /\ IF running
       THEN /\ StartInv /\ FileInv /\ ClockInv /\ (\A t \in Threads : Ahead(t))
            /\ file = "open" => Covered
       ELSE file = "none"

LEMMA InitiallyWritten == ProxyInit => WrittenInv
<1>. SUFFICES ASSUME ProxyInit PROVE WrittenInv
  OBVIOUS
<1>1. /\ log = <<>> /\ pc = [t \in Threads |-> "idle"]
      /\ returned = {} /\ seq = 0 /\ clock = 0 /\ file = "none"
  BY DEF ProxyInit
<1>2. DOMAIN log = {} /\ Records = {}
  BY <1>1 DEF Records
<1>3. Numbered /\ InTurn /\ Framed /\ FileInv
  BY <1>1, <1>2 DEF Numbered, InTurn, Framed, FileInv
<1>4. StartInv /\ ClockInv
  BY <1>1, <1>2 DEF StartInv, ClockInv
<1>5. \A t \in Threads : Ahead(t)
  BY <1>1 DEF Ahead
<1>. QED
  BY <1>1, <1>3, <1>4, <1>5 DEF WrittenInv

(* The places of a log with a record more. *)
LEMMA Places ==
  ASSUME LogInv, NEW x, log' = Append(log, x)
  PROVE  /\ Len(log) \in Nat /\ DOMAIN log = 1 .. Len(log)
         /\ DOMAIN log' = DOMAIN log \cup {Len(log) + 1} /\ Len(log') = Len(log) + 1
         /\ Len(log) + 1 \notin DOMAIN log
         /\ \A i \in DOMAIN log : log'[i] = log[i]
         /\ log'[Len(log) + 1] = x
<1>. DEFINE R == {log[i] : i \in DOMAIN log}
           S == R \cup {x}
<1>1. log \in Seq(R) /\ R \subseteq S /\ x \in S
  BY DEF LogInv
<1>. HIDE DEF R, S
<1>2. log \in Seq(S)
  BY <1>1, SeqMonotonic
<1>3. /\ Len(log) \in Nat /\ DOMAIN log = 1 .. Len(log)
      /\ log' \in Seq(S) /\ Len(log') = Len(log) + 1
      /\ \A i \in 1 .. Len(log) : log'[i] = log[i]
      /\ log'[Len(log) + 1] = x
  BY <1>1, <1>2, AppendProperties, LenProperties
<1>4. DOMAIN log' = 1 .. Len(log) + 1
  BY <1>3, LenProperties
<1>. QED
  BY <1>3, <1>4

(* A record that comes after those of its thread keeps the order of the log. *)
LEMMA RecordAdded ==
  ASSUME LogInv, WrittenInv, running, file = "open", seq \in Nat,
         NEW x, log' = Append(log, x), x.n = seq + 1,
         x.ev \notin {"session", "session_end", "torn"},
         \A i \in Records : log[i].thread = x.thread => log[i].id < x.id /\ log[i].mono < x.mono
  PROVE  /\ Records' = Records \cup {Len(log) + 1} /\ Len(log) + 1 \notin Records
         /\ \A i \in Records : log'[i] = log[i]
         /\ log'[Len(log) + 1] = x
         /\ Len(log') = Len(log) + 1 /\ Len(log) = seq + 1
         /\ (Numbered /\ InTurn /\ Framed)'
         /\ \A i \in DOMAIN log' : log'[i].ev \notin {"torn", "session_end"}
<1>. DEFINE last == Len(log) + 1
<1>1. /\ Len(log) \in Nat /\ DOMAIN log = 1 .. Len(log)
      /\ DOMAIN log' = DOMAIN log \cup {last} /\ Len(log') = last
      /\ last \notin DOMAIN log
      /\ \A i \in DOMAIN log : log'[i] = log[i]
      /\ log'[last] = x
  BY Places
<1>2. Len(log) = seq + 1 /\ \A i \in DOMAIN log : log[i].ev \notin {"torn", "session_end"}
  BY DEF WrittenInv, FileInv
<1>3. Records' = Records \cup {last} /\ Records \subseteq DOMAIN log
  BY <1>1 DEF Records
<1>4. Numbered'
  BY <1>1, <1>2, <1>3 DEF Numbered, WrittenInv
<1>5. \A k, i \in Records' : k < i => k \in Records
  BY <1>1, <1>3
<1>6. InTurn'
  BY <1>1, <1>3, <1>5 DEF InTurn, WrittenInv
<1>7. Framed'
  BY <1>1, <1>2 DEF Framed, WrittenInv
<1>. QED
  BY <1>1, <1>2, <1>3, <1>4, <1>6, <1>7

(* A thread is as far ahead of the log as it was, when nothing of its own is written. *)
LEMMA StillAhead ==
  ASSUME NEW t \in Threads, Ahead(t), ClockInv, calls \in Nat,
         \A i \in Records' : (i \in Records /\ log'[i] = log[i]) \/ log'[i].thread # t,
         clock' \in Nat, clock <= clock', calls' \in Nat, calls <= calls',
         pc'[t] = pc[t], call'[t] = call[t], result'[t] = result[t], line'[t] = line[t]
  PROVE  Ahead(t)'
<1>1. ASSUME CallAhead(t) PROVE CallAhead(t)'
  BY <1>1 DEF CallAhead
<1>2. ASSUME LineAhead(t) PROVE LineAhead(t)'
  BY <1>2 DEF LineAhead, ClockInv
<1>. QED
  BY <1>1, <1>2 DEF Ahead

(* A step that leaves the log alone. *)
LEMMA QuietStep ==
  ASSUME WrittenInv, running, UNCHANGED <<log, file, flushed, seq, running>>,
         calls \in Nat, clock' \in Nat, clock <= clock', calls' \in Nat, calls <= calls',
         once' # Everybody => once # Everybody /\ returned' = returned,
         \A t \in Threads : Ahead(t)',
         file = "open" => Covered'
  PROVE  WrittenInv'
<1>1. Records' = Records
  BY DEF Records
<1>2. (Numbered /\ InTurn /\ Framed)'
  BY <1>1 DEF WrittenInv, Numbered, InTurn, Framed
<1>3. StartInv' /\ FileInv'
  BY <1>1 DEF WrittenInv, StartInv, FileInv
<1>4. ClockInv'
  BY <1>1 DEF WrittenInv, ClockInv
<1>. QED
  BY <1>2, <1>3, <1>4 DEF WrittenInv

(* A thread goes on in its call: what it and the others will record is still ahead. *)
LEMMA StepAhead ==
  ASSUME WrittenInv, running, CallInv, NEW t \in Threads,
         UNCHANGED <<log, clock, calls, line>>,
         \A u \in Threads \ {t} : pc'[u] = pc[u] /\ call'[u] = call[u] /\ result'[u] = result[u],
         pc[t] # "idle", call'[t] = call[t], pc'[t] # "line"
  PROVE  \A u \in Threads : Ahead(u)'
<1>1. Records' = Records /\ calls \in Nat /\ ClockInv
  BY DEF Records, CallInv, WrittenInv
<1>2. clock \in Nat /\ \A i \in Records' : i \in Records /\ log'[i] = log[i]
  BY <1>1 DEF ClockInv
<1>3. ASSUME NEW u \in Threads, u # t PROVE Ahead(u)'
  <2>1. Ahead(u) /\ pc'[u] = pc[u] /\ call'[u] = call[u] /\ result'[u] = result[u] /\ line'[u] = line[u]
    BY <1>3 DEF WrittenInv
  <2>. QED
    BY <1>1, <1>2, <2>1, StillAhead
<1>4. CallAhead(t)'
  <2>1. CallAhead(t)
    BY DEF WrittenInv, Ahead
  <2>. QED
    BY <1>1, <2>1 DEF CallAhead
<1>5. Ahead(t)'
  BY <1>4 DEF Ahead
<1>. QED
  BY <1>3, <1>5

(* The call is over, and the thread has nothing more to record. *)
LEMMA ReturnAhead ==
  ASSUME ClockInv, CallInv, NEW t \in Threads, \A u \in Threads : Ahead(u),
         \A i \in Records' : (i \in Records /\ log'[i] = log[i]) \/ log'[i].thread = t,
         UNCHANGED <<clock>>, Returns(t, result[t])
  PROVE  \A u \in Threads : Ahead(u)'
<1>1. /\ pc' = [pc EXCEPT ![t] = "idle"] /\ calls' = calls
      /\ \A u \in Threads \ {t} : call'[u] = call[u] /\ result'[u] = result[u] /\ line'[u] = line[u]
  BY DEF Returns, Goto
<1>2. pc \in [Threads -> Stages] /\ calls \in Nat /\ clock \in Nat
  BY DEF CallInv, ClockInv
<1>3. ASSUME NEW u \in Threads, u # t PROVE Ahead(u)'
  <2>1. Ahead(u) /\ pc'[u] = pc[u] /\ call'[u] = call[u] /\ result'[u] = result[u] /\ line'[u] = line[u]
    BY <1>1, <1>2, <1>3
  <2>2. \A i \in Records' : (i \in Records /\ log'[i] = log[i]) \/ log'[i].thread # u
    BY <1>3
  <2>. QED
    BY <1>1, <1>2, <2>1, <2>2, StillAhead
<1>4. Ahead(t)'
  BY <1>1, <1>2 DEF Ahead
<1>. QED
  BY <1>3, <1>4

LEMMA CallGoesOn ==
  ASSUME WrittenInv, CallInv, NEW t \in Threads,
         \/ InitOnce(t) \/ LoadConfig(t) \/ Forward(t) \/ NotAvailable(t)
         \/ HaveProxyError(t) \/ TellProxyError(t)
  PROVE  WrittenInv'
<1>1. /\ running /\ UNCHANGED <<log, file, flushed, seq, clock, calls, running, returned, call, line>>
      /\ pc[t] # "idle"
      /\ \E stage \in Stages \ {"idle", "line"} : pc' = [pc EXCEPT ![t] = stage]
  BY DEF InitOnce, LoadConfig, Forward, NotAvailable, HaveProxyError, TellProxyError, Ready, Goto,
         shared, environment, Stages
<1>2. \A u \in Threads \ {t} : result'[u] = result[u]
  <2>1. result' = result \/ \E r : result' = [result EXCEPT ![t] = r]
    BY DEF InitOnce, LoadConfig, Forward, NotAvailable, HaveProxyError, TellProxyError
  <2>. QED
    BY <2>1 DEF CallInv, StageInv
<1>3. pc \in [Threads -> Stages] /\ calls \in Nat /\ clock \in Nat
  BY <1>1 DEF CallInv, WrittenInv, ClockInv
<1>4. \A u \in Threads : Ahead(u)'
  <2>1. /\ \A u \in Threads \ {t} : pc'[u] = pc[u] /\ call'[u] = call[u] /\ result'[u] = result[u]
        /\ call'[t] = call[t] /\ pc'[t] # "line"
    BY <1>1, <1>2, <1>3
  <2>. QED
    BY <1>1, <2>1, StepAhead
<1>5. once' # Everybody => once # Everybody
  BY ProxyAssumption
  DEF InitOnce, LoadConfig, Forward, NotAvailable, HaveProxyError, TellProxyError, shared
<1>6. file = "open" => Covered'
  BY <1>1 DEF WrittenInv, Covered, Records
<1>. QED
  BY <1>1, <1>3, <1>4, <1>5, <1>6, QuietStep

(* A new call has a number above all that were recorded. *)
LEMMA EnterWrites ==
  ASSUME WrittenInv, CallInv, NEW t \in Threads, NEW new \in Vendor!Calls, Enter(t, new)
  PROVE  WrittenInv'
<1>1. /\ running /\ UNCHANGED <<log, file, flushed, seq, clock, running, returned, once, line, result>>
      /\ pc' = [pc EXCEPT ![t] = "enter"] /\ call' = [call EXCEPT ![t] = Vendor!NewCall(new)]
      /\ calls' = calls + 1
  BY DEF Enter, Goto, shared
<1>2. /\ pc \in [Threads -> Stages] /\ calls \in Nat /\ clock \in Nat /\ DOMAIN call = Threads
      /\ ClockInv /\ Records' = Records
  BY <1>1 DEF CallInv, StageInv, WrittenInv, ClockInv, Records
<1>3. ASSUME NEW u \in Threads, u # t PROVE Ahead(u)'
  <2>1. Ahead(u) /\ pc'[u] = pc[u] /\ call'[u] = call[u] /\ result'[u] = result[u] /\ line'[u] = line[u]
    BY <1>1, <1>2, <1>3 DEF WrittenInv
  <2>2. \A i \in Records' : i \in Records /\ log'[i] = log[i]
    BY <1>1, <1>2
  <2>. QED
    BY <1>1, <1>2, <2>1, <2>2, StillAhead
<1>4. Ahead(t)'
  <2>1. pc'[t] = "enter" /\ call'[t] = Vendor!NewCall(new)
    BY <1>1, <1>2
  <2>2. new.fn \in {"read", "write"} \cup OtherCalls
    BY ProxyAssumption DEF Vendor!Calls, Vendor!Call
  <2>3. CallAhead(t)'
    BY <1>1, <1>2, <2>1, <2>2 DEF CallAhead, ClockInv, Vendor!NewCall
  <2>. QED
    BY <2>1, <2>3 DEF Ahead
<1>5. \A u \in Threads : Ahead(u)'
  BY <1>3, <1>4
<1>6. file = "open" => Covered'
  BY <1>1 DEF WrittenInv, Covered, Records
<1>. QED
  BY <1>1, <1>2, <1>5, <1>6, QuietStep

(* A record is begun: what it says is taken now, the number when it is written. *)
LEMMA BeginWrites ==
  ASSUME WrittenInv, CallInv, NEW t \in Threads, BeginRecord(t)
  PROVE  WrittenInv'
<1>1. /\ running /\ pc[t] = "record"
      /\ UNCHANGED <<log, file, flushed, seq, running, returned, once, call, result, calls>>
      /\ pc' = [pc EXCEPT ![t] = "line"] /\ line' = [line EXCEPT ![t] = RecordOf(t)]
      /\ clock' = clock + 1
  BY DEF BeginRecord, Goto, environment
<1>2. /\ pc \in [Threads -> Stages] /\ calls \in Nat /\ clock \in Nat
      /\ ClockInv /\ Records' = Records
  BY <1>1 DEF CallInv, WrittenInv, ClockInv, Records
<1>3. ASSUME NEW u \in Threads, u # t PROVE Ahead(u)'
  <2>1. Ahead(u) /\ pc'[u] = pc[u] /\ call'[u] = call[u] /\ result'[u] = result[u] /\ line'[u] = line[u]
    BY <1>1, <1>2, <1>3 DEF WrittenInv
  <2>2. \A i \in Records' : i \in Records /\ log'[i] = log[i]
    BY <1>1, <1>2
  <2>. QED
    BY <1>1, <1>2, <2>1, <2>2, StillAhead
<1>4. Ahead(t)'
  <2>1. pc'[t] = "line" /\ line'[t] = RecordOf(t)
    BY <1>1, <1>2 DEF CallInv, StageInv
  <2>2. CallAhead(t)
    BY <1>1 DEF WrittenInv, Ahead
  <2>3. CallAhead(t)'
    BY <1>1, <1>2, <2>2 DEF CallAhead
  <2>4. LineAhead(t)'
    <3>1. /\ DOMAIN RecordOf(t) = {"ev", "thread", "id", "channel", "msgs", "rc", "mono", "n"}
          /\ RecordOf(t).ev \in {"proxy_error", call[t].fn}
          /\ RecordOf(t).thread = t /\ RecordOf(t).id = call[t].id /\ RecordOf(t).rc = result[t].rc
          /\ RecordOf(t).mono = clock
          /\ call[t].fn = "read" => RecordOf(t).msgs = result[t].msgs
      BY DEF RecordOf, MessagesOf
    <3>2. call[t].fn \notin {"session", "session_end", "torn"}
      BY <2>2 DEF CallAhead, OtherCalls, DeviceCalls, ChannelCalls, PeriodicCalls, FilterCalls,
                  AdapterCalls, IoctlCalls
    <3>3. \A i \in Records' : log'[i].mono < clock
      BY <1>1, <1>2 DEF ClockInv
    <3>. QED
      BY <1>1, <1>2, <2>1, <3>1, <3>2, <3>3 DEF LineAhead
  <2>. QED
    BY <2>3, <2>4 DEF Ahead
<1>5. \A u \in Threads : Ahead(u)'
  BY <1>3, <1>4
<1>6. file = "open" => Covered'
  BY <1>1 DEF WrittenInv, Covered, Records
<1>. QED
  BY <1>1, <1>2, <1>5, <1>6, QuietStep

(* A call that is not logged leaves nothing to be covered. *)
LEMMA NoRecordWrites ==
  ASSUME WrittenInv, CallInv, NEW t \in Threads, NoRecord(t)
  PROVE  WrittenInv'
<1>1. /\ running /\ pc[t] = "record" /\ (Unlogged(t) \/ file # "open") /\ Returns(t, result[t])
      /\ UNCHANGED <<log, file, flushed, seq, clock, once, running, calls>>
      /\ returned' = returned \cup {[thread |-> t, call |-> call[t], result |-> result[t]]}
  BY DEF NoRecord, Returns, shared
<1>2. /\ calls \in Nat /\ clock \in Nat /\ once = Everybody /\ ClockInv /\ Records' = Records
      /\ \A u \in Threads : Ahead(u)
  BY <1>1 DEF CallInv, StageInv, WrittenInv, ClockInv, Records
<1>3. \A u \in Threads : Ahead(u)'
  BY <1>1, <1>2, ReturnAhead
<1>4. file = "open" => Covered'
  <2>. SUFFICES ASSUME file = "open" PROVE Covered'
    OBVIOUS
  <2>1. Covered
    BY <1>1 DEF WrittenInv
  <2>2. call[t].fn = "get_last_error" \/ result[t].rc = "empty"
    BY <1>1 DEF Unlogged
  <2>. QED
    BY <1>1, <1>2, <2>1, <2>2 DEF Covered
<1>. QED
  BY <1>1, <1>2, <1>3, <1>4, QuietStep

(* The module. *)
LEMMA OthersWrite ==
  ASSUME WrittenInv, CallInv,
         \E c \in Channels : \E i \in DOMAIN owing[c] : \E kind \in Answers[owing[c][i].ask] :
           Answer(c, i, kind)
  PROVE  WrittenInv'
<1>1. /\ running /\ UNCHANGED <<log, file, flushed, seq, running, returned, once, pc, call, result, line,
                                calls>>
      /\ clock' = clock
  BY DEF Answer, Vendor!Answer, proxyThread, environment
<1>2. /\ calls \in Nat /\ clock \in Nat /\ clock' \in Nat /\ clock <= clock'
      /\ ClockInv /\ Records' = Records
  BY <1>1, ProxyAssumption DEF CallInv, WrittenInv, ClockInv, Records
<1>3. ASSUME NEW u \in Threads PROVE Ahead(u)'
  <2>1. Ahead(u) /\ pc'[u] = pc[u] /\ call'[u] = call[u] /\ result'[u] = result[u] /\ line'[u] = line[u]
    BY <1>1 DEF WrittenInv
  <2>2. \A i \in Records' : i \in Records /\ log'[i] = log[i]
    BY <1>1, <1>2
  <2>. QED
    BY <1>1, <1>2, <2>1, <2>2, StillAhead
<1>4. file = "open" => Covered'
  BY <1>1 DEF WrittenInv, Covered, Records
<1>. QED
  BY <1>1, <1>2, <1>3, <1>4, QuietStep

(* A record is numbered and written, and the call returns: it is covered. *)
LEMMA EndWrites ==
  ASSUME WrittenInv, CallInv, LogInv, NEW t \in Threads, EndRecord(t)
  PROVE  WrittenInv'
<1>1. /\ running /\ pc[t] = "line" /\ Returns(t, result[t])
      /\ UNCHANGED <<file, clock, once, running, calls>>
      /\ returned' = returned \cup {[thread |-> t, call |-> call[t], result |-> result[t]]}
  BY DEF EndRecord, Returns
<1>2. /\ calls \in Nat /\ clock \in Nat /\ seq \in Nat /\ once = Everybody /\ ClockInv /\ FileInv
      /\ \A u \in Threads : Ahead(u)
  BY <1>1 DEF CallInv, StageInv, WrittenInv, ClockInv
<1>3. CASE file # "open"
  <2>1. UNCHANGED <<log, flushed, seq>>
    BY <1>3 DEF EndRecord, StillOpen
  <2>2. Records' = Records
    BY <2>1 DEF Records
  <2>3. \A u \in Threads : Ahead(u)'
    BY <1>1, <1>2, <2>1, <2>2, ReturnAhead
  <2>. QED
    BY <1>1, <1>2, <1>3, <2>1, <2>3, QuietStep
<1>4. CASE file = "open"
  <2>. DEFINE x == [line[t] EXCEPT !.n = seq + 1]
              last == Len(log) + 1
  <2>1. CallAhead(t) /\ LineAhead(t)
    BY <1>1, <1>2 DEF Ahead
  <2>2. /\ x.ev = line[t].ev /\ x.thread = t /\ x.id = call[t].id /\ x.rc = result[t].rc
        /\ x.mono = line[t].mono /\ x.n = seq + 1
        /\ call[t].fn = "read" => x.msgs = result[t].msgs
    <3>1. DOMAIN line[t] = {"ev", "thread", "id", "channel", "msgs", "rc", "mono", "n"}
      BY <2>1 DEF LineAhead
    <3>2. /\ x.ev = line[t].ev /\ x.thread = line[t].thread /\ x.id = line[t].id
          /\ x.rc = line[t].rc /\ x.msgs = line[t].msgs /\ x.mono = line[t].mono /\ x.n = seq + 1
      BY <3>1
    <3>. HIDE DEF x
    <3>. QED
      BY <2>1, <3>2 DEF LineAhead
  <2>3. log' = Append(log, x) /\ seq' = seq + 1 /\ flushed' \in {flushed, last}
    BY <1>4 DEF EndRecord, StillOpen
  <2>4. x.ev \notin {"session", "session_end", "torn"}
    BY <2>1, <2>2 DEF LineAhead
  <2>. HIDE DEF x
  <2>5. \A i \in Records : log[i].thread = x.thread => log[i].id < x.id /\ log[i].mono < x.mono
    BY <2>1, <2>2 DEF CallAhead, LineAhead
  <2>6. /\ Records' = Records \cup {last} /\ \A i \in Records : log'[i] = log[i]
        /\ log'[last] = x /\ Len(log') = last /\ Len(log) = seq + 1
        /\ (Numbered /\ InTurn /\ Framed)'
        /\ \A i \in DOMAIN log' : log'[i].ev \notin {"torn", "session_end"}
    BY <1>1, <1>2, <1>4, <2>2, <2>3, <2>4, <2>5, RecordAdded
  <2>7. \A u \in Threads : Ahead(u)'
    BY <1>1, <1>2, <2>2, <2>6, ReturnAhead
  <2>8. StartInv' /\ FileInv'
    BY <1>1, <1>2, <1>4, <2>3, <2>6 DEF StartInv, FileInv
  <2>9. ClockInv'
    <3>1. x.id \in 0 .. calls /\ x.mono \in Nat /\ x.mono < clock
      BY <1>2, <2>1, <2>2 DEF CallAhead, LineAhead
    <3>. QED
      BY <1>1, <1>2, <2>6, <3>1 DEF ClockInv
  <2>10. Covered'
    <3>1. Covered
      BY <1>1, <1>4 DEF WrittenInv
    <3>. QED
      BY <1>1, <2>2, <2>6, <3>1 DEF Covered
  <2>. QED
    BY <1>1, <2>6, <2>7, <2>8, <2>9, <2>10 DEF WrittenInv
<1>. QED
  BY <1>3, <1>4

(* The first record is that of the thread that initialises, before any other. *)
LEMMA LoadWrites ==
  ASSUME WrittenInv, CallInv, LogInv, NEW t \in Threads, LoadVendorDll(t)
  PROVE  WrittenInv'
<1>1. /\ running /\ pc[t] = "load" /\ once = t
      /\ UNCHANGED <<file, running, calls, call, result, line, returned>>
      /\ once' = Everybody /\ pc' = [pc EXCEPT ![t] = "enter"]
  BY DEF LoadVendorDll, InitDone, Goto, environment, CallInv
<1>2. PICK ev \in {"driver_loaded", "driver_load_failed"} : InitRecord(t, ev)
  BY DEF LoadVendorDll
<1>3. /\ pc \in [Threads -> Stages] /\ calls \in Nat /\ clock \in Nat /\ seq \in Nat
      /\ ClockInv /\ FileInv /\ returned = {} /\ Records = {}
      /\ \A u \in Threads : Ahead(u)
  BY <1>1, ProxyAssumption DEF CallInv, WrittenInv, ClockInv, StartInv
<1>4. CASE file # "open"
  <2>1. UNCHANGED <<log, flushed, seq, clock>>
    BY <1>2, <1>4 DEF InitRecord
  <2>2. \A u \in Threads \ {t} : pc'[u] = pc[u] /\ call'[u] = call[u] /\ result'[u] = result[u]
    BY <1>1, <1>3
  <2>3. pc'[t] # "line" /\ pc[t] # "idle"
    BY <1>1, <1>3
  <2>4. \A u \in Threads : Ahead(u)'
    BY <1>1, <2>1, <2>2, <2>3, StepAhead
  <2>. QED
    BY <1>1, <1>3, <1>4, <2>1, <2>4, QuietStep
<1>5. CASE file = "open"
  <2>. DEFINE x == [ev |-> ev, thread |-> t, id |-> 0, mono |-> clock, n |-> seq + 1]
              last == Len(log) + 1
  <2>1. /\ log' = Append(log, x) /\ seq' = seq + 1 /\ flushed' \in {flushed, last}
        /\ clock' = clock + 1
    BY <1>2, <1>5 DEF InitRecord
  <2>2. /\ x.ev \notin {"session", "session_end", "torn"} /\ x.thread = t /\ x.id = 0
        /\ x.mono = clock /\ x.n = seq + 1
    BY <1>2
  <2>. HIDE DEF x
  <2>3. /\ Records' = Records \cup {last} /\ \A i \in Records : log'[i] = log[i]
        /\ log'[last] = x /\ Len(log') = last /\ Len(log) = seq + 1
        /\ (Numbered /\ InTurn /\ Framed)'
        /\ \A i \in DOMAIN log' : log'[i].ev \notin {"torn", "session_end"}
    BY <1>1, <1>3, <1>5, <2>1, <2>2, RecordAdded
  <2>4. ASSUME NEW u \in Threads, u # t PROVE Ahead(u)'
    <3>1. Ahead(u) /\ pc'[u] = pc[u] /\ call'[u] = call[u] /\ result'[u] = result[u] /\ line'[u] = line[u]
      BY <1>1, <1>3, <2>4
    <3>2. \A i \in Records' : (i \in Records /\ log'[i] = log[i]) \/ log'[i].thread # u
      BY <2>2, <2>3, <2>4
    <3>3. clock' \in Nat /\ clock <= clock' /\ calls' \in Nat /\ calls <= calls'
      BY <1>1, <1>3, <2>1
    <3>. QED
      BY <1>3, <3>1, <3>2, <3>3, StillAhead
  <2>5. Ahead(t)'
    <3>1. CallAhead(t)
      BY <1>1, <1>3 DEF Ahead
    <3>2. CallAhead(t)'
      BY <1>1, <1>3, <2>2, <2>3, <3>1 DEF CallAhead
    <3>3. pc'[t] = "enter"
      BY <1>1, <1>3
    <3>. QED
      BY <3>2, <3>3 DEF Ahead
  <2>6. StartInv' /\ FileInv'
    BY <1>1, <1>3, <1>5, <2>1, <2>3 DEF StartInv, FileInv
  <2>7. ClockInv'
    BY <1>1, <1>3, <2>1, <2>2, <2>3 DEF ClockInv
  <2>8. Covered'
    BY <1>1, <1>3 DEF Covered
  <2>. QED
    BY <1>1, <2>3, <2>4, <2>5, <2>6, <2>7, <2>8 DEF WrittenInv
<1>. QED
  BY <1>4, <1>5

(* The session begins: a file of one line. *)
LEMMA StartWrites ==
  ASSUME WrittenInv, CallInv, NEW t \in Threads, StartLog(t)
  PROVE  WrittenInv'
<1>1. /\ running /\ pc[t] = "start" /\ once = t
      /\ UNCHANGED <<running, calls, call, result, line, returned, once, seq, clock>>
      /\ pc' = [pc EXCEPT ![t] = "load"]
  BY DEF StartLog, Goto, environment, CallInv
<1>2. /\ pc \in [Threads -> Stages] /\ calls \in Nat /\ clock \in Nat /\ once # Everybody
      /\ ClockInv /\ FileInv /\ returned = {} /\ Records = {} /\ seq = 0
      /\ \A u \in Threads : Ahead(u)
  BY <1>1, ProxyAssumption DEF CallInv, WrittenInv, ClockInv, StartInv
<1>3. CASE UNCHANGED <<file, log, flushed>>
  <2>1. \A u \in Threads \ {t} : pc'[u] = pc[u] /\ call'[u] = call[u] /\ result'[u] = result[u]
    BY <1>1, <1>2
  <2>2. pc'[t] # "line" /\ pc[t] # "idle"
    BY <1>1, <1>2
  <2>3. \A u \in Threads : Ahead(u)'
    BY <1>1, <1>3, <2>1, <2>2, StepAhead
  <2>4. Covered'
    BY <1>1, <1>2 DEF Covered
  <2>. QED
    BY <1>1, <1>2, <1>3, <2>3, <2>4, QuietStep
<1>4. CASE file' = "open" /\ log' = <<[ev |-> "session"]>> /\ flushed' = 1
  <2>1. DOMAIN log' = {1} /\ Len(log') = 1 /\ log'[1].ev = "session"
    BY <1>4
  <2>2. Records' = {}
    BY <2>1 DEF Records
  <2>3. (Numbered /\ InTurn /\ Framed)'
    BY <2>1, <2>2 DEF Numbered, InTurn, Framed
  <2>4. StartInv' /\ FileInv' /\ ClockInv' /\ Covered'
    BY <1>1, <1>2, <1>4, <2>1, <2>2 DEF StartInv, FileInv, ClockInv, Covered
  <2>5. ASSUME NEW u \in Threads PROVE Ahead(u)'
    <3>1. Ahead(u) /\ pc'[u] \in {pc[u], "load"} /\ (pc[u] = "idle" => pc'[u] = "idle")
      BY <1>1, <1>2
    <3>. QED
      BY <1>1, <2>2, <3>1 DEF Ahead, CallAhead, LineAhead
  <2>. QED
    BY <1>1, <2>3, <2>4, <2>5 DEF WrittenInv
<1>. QED
  BY <1>3, <1>4 DEF StartLog

(* The session ends, and nothing is written after its last line. *)
LEMMA StopWrites ==
  ASSUME WrittenInv, CallInv, LogInv, StopLog
  PROVE  WrittenInv'
<1>1. /\ running /\ file = "open" /\ file' = "closed"
      /\ log' = Append(log, [ev |-> "session_end"]) /\ flushed' = Len(log) + 1
      /\ UNCHANGED <<running, calls, pc, call, result, line, returned, once, seq, clock>>
  BY DEF StopLog, proxyThread, environment
<1>2. /\ calls \in Nat /\ clock \in Nat /\ seq \in Nat /\ ClockInv /\ StartInv
      /\ Numbered /\ InTurn /\ Framed
      /\ \A i \in DOMAIN log : log[i].ev \notin {"torn", "session_end"}
      /\ Len(log) = seq + 1
      /\ \A u \in Threads : Ahead(u)
  BY <1>1 DEF CallInv, WrittenInv, ClockInv, FileInv
<1>3. /\ Len(log) \in Nat /\ DOMAIN log = 1 .. Len(log)
      /\ DOMAIN log' = DOMAIN log \cup {Len(log) + 1} /\ Len(log') = Len(log) + 1
      /\ Len(log) + 1 \notin DOMAIN log
      /\ \A i \in DOMAIN log : log'[i] = log[i]
      /\ log'[Len(log) + 1] = [ev |-> "session_end"]
  BY <1>1, Places
<1>4. log'[Len(log) + 1].ev = "session_end"
  BY <1>3
<1>5. Records' = Records /\ \A i \in Records : log'[i] = log[i]
  BY <1>3, <1>4 DEF Records
<1>6. Numbered' /\ InTurn'
  BY <1>2, <1>5 DEF Numbered, InTurn
<1>7. Framed'
  BY <1>2, <1>3, <1>4 DEF Framed
<1>8. StartInv' /\ FileInv' /\ ClockInv'
  <2>1. StartInv' /\ ClockInv'
    BY <1>1, <1>2, <1>5 DEF StartInv, ClockInv
  <2>2. \A i \in DOMAIN log' : log'[i].ev # "torn"
    BY <1>2, <1>3, <1>4
  <2>3. flushed' >= 1
    BY <1>1, <1>3
  <2>. QED
    BY <1>1, <2>1, <2>2, <2>3 DEF FileInv
<1>9. ASSUME NEW u \in Threads PROVE Ahead(u)'
  <2>1. Ahead(u) /\ pc'[u] = pc[u] /\ call'[u] = call[u] /\ result'[u] = result[u] /\ line'[u] = line[u]
    BY <1>1, <1>2
  <2>2. \A i \in Records' : i \in Records /\ log'[i] = log[i]
    BY <1>5
  <2>3. clock' \in Nat /\ clock <= clock' /\ calls' \in Nat /\ calls <= calls'
    BY <1>1, <1>2
  <2>. QED
    BY <1>2, <2>1, <2>2, <2>3, StillAhead
<1>. QED
  BY <1>1, <1>6, <1>7, <1>8, <1>9 DEF WrittenInv

(* A crash leaves the beginning of the file, and perhaps part of a line. *)
LEMMA CrashWrites ==
  ASSUME WrittenInv, FlushInv, Crash
  PROVE  WrittenInv'
<1>1. PICK kept \in flushed .. Len(log), torn \in BOOLEAN :
        /\ torn => kept < Len(log)
        /\ log' = SubSeq(log, 1, kept) \o (IF torn THEN <<[ev |-> "torn"]>> ELSE <<>>)
  BY DEF Crash
<1>2. running /\ ~running' /\ file' = "none"
  BY DEF Crash, Reset
<1>3. Numbered /\ InTurn /\ Framed /\ FileInv
  BY <1>2 DEF WrittenInv
<1>. DEFINE rest == IF torn THEN <<[ev |-> "torn"]>> ELSE <<>>
            R == {log[i] : i \in DOMAIN log}
            S == R \cup {[ev |-> "torn"]}
<1>4. /\ log \in Seq(S) /\ rest \in Seq(S) /\ Len(log) \in Nat /\ DOMAIN log = 1 .. Len(log)
      /\ Len(rest) = IF torn THEN 1 ELSE 0
      /\ torn => rest[1] = [ev |-> "torn"]
  <2>1. log \in Seq(R) /\ R \subseteq S /\ [ev |-> "torn"] \in S
    BY DEF FlushInv, LogInv
  <2>2. <<>> \in Seq(S) /\ <<[ev |-> "torn"]>> = Append(<<>>, [ev |-> "torn"])
    BY EmptySeq
  <2>. HIDE DEF R, S
  <2>3. log \in Seq(S) /\ Len(log) \in Nat /\ DOMAIN log = 1 .. Len(log)
    BY <2>1, SeqMonotonic, LenProperties
  <2>4. rest \in Seq(S)
    BY <2>1, <2>2
  <2>5. Len(rest) = (IF torn THEN 1 ELSE 0) /\ (torn => rest[1] = [ev |-> "torn"])
    OBVIOUS
  <2>. QED
    BY <2>3, <2>4, <2>5
<1>. HIDE DEF R, S, rest
<1>5. kept \in 0 .. Len(log)
  BY <1>1, <1>4 DEF FlushInv
<1>. DEFINE head == SubSeq(log, 1, kept)
<1>6. /\ head \in Seq(S) /\ Len(head) = kept /\ \A i \in 1 .. kept : head[i] = log[i]
  <2>1. \A i \in 1 .. kept : log[i] \in S
    BY <1>4, <1>5, ElementOfSeq
  <2>. QED
    BY <1>5, <2>1, SubSeqProperties
<1>7. log' = head \o rest
  BY <1>1 DEF rest
<1>. HIDE DEF head
<1>8. /\ log' \in Seq(S) /\ Len(log') = kept + Len(rest)
      /\ \A i \in 1 .. kept : log'[i] = log[i]
      /\ torn => log'[kept + 1] = [ev |-> "torn"]
  BY <1>4, <1>5, <1>6, <1>7, ConcatProperties
<1>9. /\ DOMAIN log' = 1 .. Len(log')
      /\ Len(log') = IF torn THEN kept + 1 ELSE kept
      /\ torn => log'[kept + 1].ev = "torn"
  <2>1. DOMAIN log' = 1 .. Len(log')
    BY <1>8, LenProperties
  <2>2. Len(log') = IF torn THEN kept + 1 ELSE kept
    BY <1>4, <1>5, <1>8
  <2>. QED
    BY <1>8, <2>1, <2>2
<1>10. \A i \in DOMAIN log' : i \in 1 .. kept \/ (torn /\ i = kept + 1)
  BY <1>5, <1>9
<1>11. Records' \subseteq Records \cap 1 .. kept /\ \A i \in Records' : log'[i] = log[i]
  BY <1>4, <1>5, <1>8, <1>9, <1>10 DEF Records
<1>12. Numbered' /\ InTurn'
  BY <1>3, <1>11 DEF Numbered, InTurn
<1>13. Framed'
  <2>1. torn => kept >= 1
    BY <1>1, <1>3, <1>4, <1>5 DEF FileInv, FlushInv
  <2>2. ASSUME NEW i \in 1 .. kept
        PROVE  /\ log'[i].ev = "session" <=> i = 1
               /\ log'[i].ev \in {"session_end", "torn"} => i = Len(log')
    <3>1. i \in DOMAIN log
      BY <1>4, <1>5
    <3>2. /\ log[i].ev = "session" <=> i = 1
          /\ log[i].ev # "torn"
          /\ log[i].ev = "session_end" => i = Len(log)
      BY <1>3, <3>1 DEF Framed, FileInv
    <3>3. i = Len(log) => kept = Len(log)
      <4>1. Len(log) \in Nat
        BY <1>4
      <4>. QED
        BY <1>5, <4>1
    <3>4. kept = Len(log) => Len(log') = kept
      <4>1. kept = Len(log) => ~torn
        <5>1. Len(log) \in Nat /\ (torn => kept < Len(log))
          BY <1>1, <1>4
        <5>2. ~(Len(log) < Len(log))
          BY <5>1
        <5>. QED
          BY <5>1, <5>2, Zenon
      <4>2. ~torn => Len(log') = kept
        BY <1>9
      <4>. QED
        BY <4>1, <4>2, Zenon
    <3>. QED
      BY <1>8, <3>2, <3>3, <3>4
  <2>3. ASSUME torn
        PROVE  /\ log'[kept + 1].ev = "session" <=> kept + 1 = 1
               /\ log'[kept + 1].ev \in {"session_end", "torn"} => kept + 1 = Len(log')
    BY <1>5, <1>9, <2>1, <2>3
  <2>. QED
    BY <1>10, <2>2, <2>3 DEF Framed
<1>. QED
  BY <1>2, <1>12, <1>13 DEF WrittenInv

LEMMA RestartWrites == NewProcess => WrittenInv'
<1>. SUFFICES ASSUME NewProcess PROVE WrittenInv'
  OBVIOUS
<1>1. /\ log' = <<>> /\ pc' = [t \in Threads |-> "idle"]
      /\ returned' = {} /\ seq' = 0 /\ clock' = 0 /\ file' = "none" /\ running'
  BY DEF NewProcess, Reset
<1>2. DOMAIN log' = {} /\ Records' = {}
  BY <1>1 DEF Records
<1>3. (Numbered /\ InTurn /\ Framed /\ FileInv)'
  BY <1>1, <1>2 DEF Numbered, InTurn, Framed, FileInv
<1>4. StartInv' /\ ClockInv'
  BY <1>1, <1>2 DEF StartInv, ClockInv
<1>5. \A t \in Threads : Ahead(t)'
  BY <1>1 DEF Ahead
<1>. QED
  BY <1>1, <1>3, <1>4, <1>5 DEF WrittenInv

LEMMA StepWrites == IInv /\ WrittenInv /\ [ProxyNext]_proxyVars => WrittenInv'
<1>. SUFFICES ASSUME IInv, WrittenInv, [ProxyNext]_proxyVars PROVE WrittenInv'
  OBVIOUS
<1>. CallInv /\ FlushInv /\ LogInv
  BY Halves DEF IInv
<1>1. CASE \E t \in Threads :
             \/ InitOnce(t) \/ LoadConfig(t) \/ Forward(t) \/ NotAvailable(t)
             \/ HaveProxyError(t) \/ TellProxyError(t)
  BY <1>1, CallGoesOn
<1>2. CASE \E t \in Threads : StartLog(t) \/ LoadVendorDll(t)
  BY <1>2, StartWrites, LoadWrites
<1>3. CASE \E t \in Threads : BeginRecord(t) \/ NoRecord(t) \/ EndRecord(t)
  BY <1>3, BeginWrites, NoRecordWrites, EndWrites
<1>4. CASE \E t \in Threads : \E new \in Vendor!Calls : Enter(t, new)
  BY <1>4, EnterWrites
<1>5. CASE \E c \in Channels : \E i \in DOMAIN owing[c] : \E kind \in Answers[owing[c][i].ask] :
             Answer(c, i, kind)
  BY <1>5, OthersWrite
<1>6. CASE StopLog \/ Crash \/ NewProcess
  BY <1>6, StopWrites, CrashWrites, RestartWrites
<1>7. CASE UNCHANGED proxyVars
  <2>1. UNCHANGED <<log, file, flushed, seq, clock, calls, running, returned, once, pc, call, result, line>>
    BY <1>7 DEF proxyVars, proxyThread, shared, environment
  <2>2. Records' = Records
    BY <2>1 DEF Records
  <2>3. (Numbered /\ InTurn /\ Framed)' <=> (Numbered /\ InTurn /\ Framed)
    BY <2>1, <2>2 DEF Numbered, InTurn, Framed
  <2>4. Covered' <=> Covered
    BY <2>1, <2>2 DEF Covered
  <2>5. \A t \in Threads : Ahead(t)' <=> Ahead(t)
    BY <2>1, <2>2 DEF Ahead, CallAhead, LineAhead
  <2>6. (StartInv /\ FileInv /\ ClockInv)' <=> (StartInv /\ FileInv /\ ClockInv)
    BY <2>1, <2>2 DEF StartInv, FileInv, ClockInv
  <2>. QED
    BY <2>1, <2>3, <2>4, <2>5, <2>6 DEF WrittenInv
<1>. QED
  BY <1>1, <1>2, <1>3, <1>4, <1>5, <1>6, <1>7 DEF ProxyNext, ProxyStep

LEMMA Writing == ProxySpec => []WrittenInv
<1>1. IInv /\ WrittenInv /\ [ProxyNext]_proxyVars => WrittenInv'
  BY StepWrites
<1>. QED
  BY <1>1, InitiallyWritten, Invariance, PTL DEF ProxySpec

(* The log is what happened (logger.cpp, Rec), whatever threads, configuration and  *)
(* crashes do: records are numbered in the order of the file and each        *)
(* thread's stand in the order of its calls, nothing follows the end of the  *)
(* session or a cut line, and while the file is open every call that has     *)
(* returned and is to be logged is in it, with its result.                   *)
THEOREM TheLogIsFaithful == ProxySpec => []LogFaithful
<1>1. WrittenInv => LogFaithful
  BY DEF WrittenInv, LogFaithful
<1>. QED
  BY <1>1, Writing, PTL

(* The proxy is the same with the analysis beside it: what is shown of it holds there *)
(* too.                                                                      *)
THEOREM ProxyBeside == LogsSpec => ProxySpec
<1>1. LogsInit => ProxyInit
  BY DEF LogsInit
<1>2. [LogsNext]_logsVars => [ProxyNext]_proxyVars
  BY DEF LogsNext, logsVars
<1>. QED
  BY <1>1, <1>2, PTL DEF LogsSpec, ProxySpec

-----------------------------------------------------------------------------
(* The analysis, of any log.  All that is read of an exchange is the frame that    *)
(* opened it and the one that closed it; what makes the summary true is that *)
(* a request which has no answer yet either waits or is too old.             *)

Exchange ==
  [key : {RequestKey(ask) : ask \in Asks}, request : Frame, response : Frame \cup {NoResponse}]

PairTypes ==
  /\ frames \in Seq(Frame) /\ exchanges \in Seq(Exchange)
  /\ open \subseteq DOMAIN exchanges
  /\ now \in [Channels -> Int]

IsRequest(i) == frames[i].dir = "tx"

(* The exchanges are the requests, in their order. *)
RequestsInv ==
  /\ \A n \in DOMAIN exchanges : \E i \in DOMAIN frames : IsRequest(i) /\ frames[i].of = n
  /\ \A i \in DOMAIN frames : IsRequest(i) =>
       /\ frames[i].of \in DOMAIN exchanges
       /\ exchanges[frames[i].of].request = frames[i]
       /\ exchanges[frames[i].of].key = RequestKey(frames[i].ask)
  /\ \A i, k \in DOMAIN frames : IsRequest(i) /\ IsRequest(k) /\ i < k => frames[i].of < frames[k].of

(* An answer was given on the channel of its request. *)
AnswersInv ==
  \A j \in DOMAIN frames : ~IsRequest(j) /\ frames[j].of # 0 =>
    /\ frames[j].of \in DOMAIN exchanges
    /\ exchanges[frames[j].of].request.channel = frames[j].channel

(* What waits has no response, and a response is a frame of the log. *)
ResponsesInv ==
  \A n \in DOMAIN exchanges :
    /\ n \in open => exchanges[n].response = NoResponse
    /\ exchanges[n].response # NoResponse =>
         \E j \in DOMAIN frames : IsFinal(frames[j]) /\ frames[j] = exchanges[n].response

(* Nothing on the channel is answered by another's answer; what has been answered  *)
(* is closed; and only what was too old has been forgotten.                  *)
OwnInv(c) ==
  \A n \in DOMAIN exchanges : exchanges[n].request.channel = c =>
    /\ OwnAnswer(n)
    /\ exchanges[n].response = NoResponse =>
         /\ Finals(n) = {}
         /\ n \notin open => \E l \in On(c) : frames[l].at - exchanges[n].request.at > Window

PairInv ==
  /\ PairTypes /\ RequestsInv /\ AnswersInv /\ ResponsesInv
  /\ \A c \in Channels : Tame(c) => OwnInv(c)

(* A frame that may be read next. *)
NewFrame(f) ==
  /\ f \in Frame
  /\ f.dir = "tx" => f.of = Len(exchanges) + 1
  /\ f.dir = "rx" =>
       /\ f.kind \in AnswerKinds /\ f.of \in 0 .. Len(exchanges)
       /\ f.of # 0 => /\ exchanges[f.of].request.channel = f.channel
                      /\ exchanges[f.of].request.ask = f.ask

-----------------------------------------------------------------------------
(* The frames and exchanges there are. *)
LEMMA Read ==
  ASSUME PairTypes
  PROVE  /\ Len(frames) \in Nat /\ DOMAIN frames = 1 .. Len(frames)
         /\ \A i \in DOMAIN frames : frames[i] \in Frame
         /\ Len(exchanges) \in Nat /\ DOMAIN exchanges = 1 .. Len(exchanges)
         /\ \A n \in DOMAIN exchanges : exchanges[n] \in Exchange
<1>1. frames \in Seq(Frame) /\ exchanges \in Seq(Exchange)
  BY DEF PairTypes
<1>. HIDE DEF Frame, Exchange
<1>. QED
  BY <1>1, LenProperties, ElementOfSeq

LEMMA InitiallyPaired == AnalysisInit => PairInv
<1>. SUFFICES ASSUME AnalysisInit PROVE PairInv
  OBVIOUS
<1>1. frames = <<>> /\ exchanges = <<>> /\ open = {} /\ now \in [Channels -> Int]
  BY DEF AnalysisInit
<1>2. <<>> \in Seq(Frame) /\ <<>> \in Seq(Exchange) /\ DOMAIN <<>> = {}
  BY EmptySeq
<1>3. PairTypes /\ DOMAIN exchanges = {} /\ DOMAIN frames = {}
  BY <1>1, <1>2 DEF PairTypes
<1>. QED
  BY <1>3 DEF PairInv, RequestsInv, AnswersInv, ResponsesInv, OwnInv

(* What is read is a frame that may be read, and it is paired. *)
LEMMA Reads ==
  ASSUME PairTypes, ReadFrame
  PROVE  \E f : NewFrame(f) /\ PairFrame(f)
<1>1. PICK send \in Logged, pause \in {1} \cup Pauses :
        \/ LogRequest(send.channel, send.ask, now[send.channel] + pause)
        \/ \E n \in 0 .. Len(exchanges), kind \in {"echo"} \cup Answers[send.ask] :
             LogAnswer(send.channel, send.ask, n, kind, now[send.channel] + pause)
  BY DEF ReadFrame
<1> DEFINE c == send.channel
           ask == send.ask
           at == now[c] + pause
<1>2. c \in Channels /\ ask \in Asks
  BY AnalysisAssumption
<1>3. pause \in Int /\ now \in [Channels -> Int] /\ Len(exchanges) \in Nat
  BY AnalysisAssumption, Read DEF PairTypes
<1>4. at \in Int
  BY <1>2, <1>3
<1>5. Answers[ask] \subseteq {"positive", "negative", "pending"}
  BY <1>2, ProxyAssumption
<1>. HIDE DEF c, ask, at
<1>6. CASE LogRequest(c, ask, at)
  <2> DEFINE f == [dir |-> "tx", channel |-> c, kind |-> "request", ask |-> ask,
                   of |-> Len(exchanges) + 1, at |-> at]
  <2>1. NewFrame(f)
    BY <1>2, <1>3, <1>4 DEF NewFrame, Frame
  <2>2. PairFrame(f)
    BY <1>6 DEF LogRequest
  <2>. QED
    BY <2>1, <2>2
<1>7. CASE \E n \in 0 .. Len(exchanges), kind \in {"echo"} \cup Answers[ask] :
             LogAnswer(c, ask, n, kind, at)
  <2>1. PICK n \in 0 .. Len(exchanges), kind \in {"echo"} \cup Answers[ask] :
          LogAnswer(c, ask, n, kind, at)
    BY <1>7
  <2> DEFINE f == [dir |-> "rx", channel |-> c, kind |-> kind, ask |-> ask, of |-> n, at |-> at]
  <2>2. kind \in AnswerKinds
    BY <1>5 DEF AnswerKinds
  <2>3. f \in Frame
    BY <1>2, <1>3, <1>4, <2>2 DEF Frame
  <2>4. n # 0 => exchanges[n].request.channel = c /\ exchanges[n].request.ask = ask
    BY <2>1, <1>3 DEF LogAnswer
  <2>5. NewFrame(f)
    BY <2>2, <2>3, <2>4 DEF NewFrame
  <2>6. PairFrame(f)
    BY <2>1 DEF LogAnswer
  <2>. QED
    BY <2>5, <2>6
<1>. QED
  BY <1>1, <1>6, <1>7 DEF c, ask, at

(* The log grows by the frame. *)
LEMMA Grows ==
  ASSUME PairTypes, NEW f \in Frame, PairFrame(f)
  PROVE  /\ Len(frames) \in Nat /\ DOMAIN frames = 1 .. Len(frames)
         /\ frames' \in Seq(Frame) /\ DOMAIN frames' = 1 .. (Len(frames) + 1)
         /\ \A i \in DOMAIN frames : frames'[i] = frames[i]
         /\ frames'[Len(frames) + 1] = f
         /\ \A i \in DOMAIN frames' : i \in DOMAIN frames \/ (i = Len(frames) + 1 /\ i \notin DOMAIN frames)
<1>1. frames \in Seq(Frame) /\ frames' = Append(frames, f)
  BY DEF PairTypes, PairFrame
<1>. HIDE DEF Frame
<1>2. /\ Len(frames) \in Nat /\ DOMAIN frames = 1 .. Len(frames)
      /\ frames' \in Seq(Frame) /\ Len(frames') = Len(frames) + 1
      /\ \A i \in 1 .. Len(frames) : frames'[i] = frames[i]
      /\ frames'[Len(frames) + 1] = f
  BY <1>1, AppendProperties, LenProperties
<1>3. DOMAIN frames' = 1 .. (Len(frames) + 1)
  BY <1>2, LenProperties
<1>. QED
  BY <1>2, <1>3

(* The least of some places of the result. *)
LEMMA Oldest ==
  ASSUME PairTypes, NEW S \in SUBSET DOMAIN exchanges, S # {}
  PROVE  Min(S) \in S /\ \A n \in S : Min(S) <= n
<1>. DEFINE R == OpToRel(<, Nat)
<1>1. IsWellFoundedOn(R, Nat)
  BY NatLessThanWellFounded
<1>2. \A x, y \in Nat : y < x => <<y, x>> \in R
  BY DEF OpToRel
<1>3. S \subseteq Nat
  BY Read
<1>. HIDE DEF R
<1>4. PICK first \in S : \A k \in S : ~(<<k, first>> \in R)
  BY <1>1, <1>3, WFMin
<1>5. ASSUME NEW k \in S PROVE first <= k
  <2>1. k \in Nat /\ first \in Nat
    BY <1>3
  <2>2. ~(k < first)
    BY <1>2, <1>4, <2>1
  <2>. QED
    BY <2>1, <2>2
<1>. QED
  BY <1>4, <1>5 DEF Min

(* A request opens an exchange ... *)
LEMMA Opens ==
  ASSUME PairTypes, NEW f, NewFrame(f), PairFrame(f), f.dir = "tx"
  PROVE  /\ exchanges' \in Seq(Exchange) /\ DOMAIN exchanges' = 1 .. (Len(exchanges) + 1)
         /\ \A n \in DOMAIN exchanges : exchanges'[n] = exchanges[n]
         /\ exchanges'[Len(exchanges) + 1] =
              [key |-> RequestKey(f.ask), request |-> f, response |-> NoResponse]
         /\ open' = open \cup {Len(exchanges) + 1}
<1> DEFINE e == [key |-> RequestKey(f.ask), request |-> f, response |-> NoResponse]
<1>1. exchanges' = Append(exchanges, e) /\ open' = open \cup {Len(exchanges) + 1}
  BY DEF PairFrame, OpenExchange, PassOver, NoMatch, Match
<1>2. f \in Frame /\ f.ask \in Asks
  BY DEF NewFrame, Frame
<1>3. e \in Exchange
  BY <1>2 DEF Exchange
<1>4. exchanges \in Seq(Exchange)
  BY DEF PairTypes
<1>. HIDE DEF e, Exchange
<1>5. /\ Len(exchanges) \in Nat /\ DOMAIN exchanges = 1 .. Len(exchanges)
      /\ exchanges' \in Seq(Exchange) /\ Len(exchanges') = Len(exchanges) + 1
      /\ \A n \in 1 .. Len(exchanges) : exchanges'[n] = exchanges[n]
      /\ exchanges'[Len(exchanges) + 1] = e
  BY <1>1, <1>3, <1>4, AppendProperties, LenProperties
<1>6. DOMAIN exchanges' = 1 .. (Len(exchanges) + 1)
  BY <1>5, LenProperties
<1>. QED
  BY <1>1, <1>5, <1>6 DEF e

(* The frame f closes exchange n. *)
Closed(f, n) ==
  /\ IsFinal(f) /\ Fitting(f) # {} /\ n = Min(Fitting(f))
  /\ exchanges'[n].response = f

(* ... and anything else closes one, the oldest that fits, or none. *)
LEMMA Closes ==
  ASSUME PairTypes, NEW f, NewFrame(f), PairFrame(f), f.dir = "rx"
  PROVE  /\ exchanges' \in Seq(Exchange) /\ DOMAIN exchanges' = DOMAIN exchanges
         /\ \A n \in DOMAIN exchanges :
              /\ exchanges'[n].request = exchanges[n].request /\ exchanges'[n].key = exchanges[n].key
              /\ exchanges'[n].response = exchanges[n].response \/ Closed(f, n)
              /\ Closed(f, n) => n \notin open' /\ n \in open
         /\ open' \subseteq open
         /\ \A n \in open : n \in open' \/ ~Waits(exchanges[n], f) \/ Closed(f, n)
         /\ IsFinal(f) /\ Fitting(f) # {} => Closed(f, Min(Fitting(f)))
<1>1. /\ f \in Frame /\ f.kind \in AnswerKinds
      /\ exchanges \in Seq(Exchange) /\ open \subseteq DOMAIN exchanges
  BY DEF NewFrame, PairTypes
<1>2. /\ Len(exchanges) \in Nat /\ DOMAIN exchanges = 1 .. Len(exchanges)
      /\ \A n \in DOMAIN exchanges : exchanges[n] \in Exchange
  BY Read
<1>3. CASE PassOver(f)
  <2>1. ~IsFinal(f) /\ UNCHANGED <<exchanges, open>>
    BY <1>3 DEF PassOver, IsTxConfirmation, IsFinal
  <2>. QED
    BY <1>1, <2>1 DEF Closed
<1>4. CASE NoMatch(f)
  <2>1. /\ ~IsFinal(f) \/ Fitting(f) = {}
        /\ open' = {n \in open : Waits(exchanges[n], f)} /\ UNCHANGED exchanges
    BY <1>4 DEF NoMatch, StillComing, IsFinal, Waiting
  <2>. QED
    BY <1>1, <2>1 DEF Closed
<1>5. CASE Match(f)
  <2> DEFINE m == Min(Fitting(f))
  <2>1. /\ IsFinal(f) /\ Fitting(f) # {}
        /\ exchanges' = [exchanges EXCEPT ![m] = [@ EXCEPT !.response = f]]
        /\ open' = Waiting(f) \ {m}
    BY <1>1, <1>5 DEF Match, IsTxConfirmation, StillComing, IsFinal, AnswerKinds
  <2>2. Fitting(f) \subseteq Waiting(f) /\ Waiting(f) \subseteq open
    BY DEF Fitting, Waiting
  <2>3. m \in Fitting(f)
    BY <1>1, <2>1, <2>2, Oldest
  <2>4. m \in open /\ m \in DOMAIN exchanges
    BY <1>1, <2>2, <2>3
  <2>5. Closed(f, m) <=> exchanges'[m].response = f
    BY <2>1 DEF Closed
  <2>6. \A n : Closed(f, n) => n = m
    BY DEF Closed
  <2>7. \A n \in open : n \in Waiting(f) \/ ~Waits(exchanges[n], f)
    BY DEF Waiting
  <2>. HIDE DEF m, Closed
  <2>8. /\ exchanges[m] \in Exchange
        /\ exchanges'[m] = [exchanges[m] EXCEPT !.response = f]
        /\ \A n \in DOMAIN exchanges : n # m => exchanges'[n] = exchanges[n]
        /\ DOMAIN exchanges' = DOMAIN exchanges
    BY <1>2, <2>1, <2>4
  <2>9. /\ exchanges'[m].request = exchanges[m].request /\ exchanges'[m].key = exchanges[m].key
        /\ exchanges'[m].response = f /\ exchanges'[m] \in Exchange
    BY <1>1, <2>8 DEF Exchange
  <2>10. exchanges' \in Seq(Exchange)
    <3>1. \A n \in 1 .. Len(exchanges) : exchanges'[n] \in Exchange
      BY <1>2, <2>8, <2>9
    <3>2. exchanges' = [n \in 1 .. Len(exchanges) |-> exchanges'[n]]
      BY <1>2, <2>1
    <3>. HIDE DEF Exchange
    <3>3. exchanges' \in [1 .. Len(exchanges) -> Exchange]
      BY <3>1, <3>2
    <3>. QED
      BY <1>2, <3>3, SeqDef
  <2>11. m \notin open' /\ open' \subseteq open
    BY <2>1, <2>2
  <2>12. \A n \in open : n \in open' \/ ~Waits(exchanges[n], f) \/ Closed(f, n)
    BY <2>1, <2>5, <2>7, <2>9
  <2>13. IsFinal(f) /\ Fitting(f) # {} => Closed(f, Min(Fitting(f)))
    BY <2>5, <2>9 DEF m
  <2>14. ASSUME NEW n \in DOMAIN exchanges
         PROVE  /\ exchanges'[n].request = exchanges[n].request /\ exchanges'[n].key = exchanges[n].key
                /\ exchanges'[n].response = exchanges[n].response \/ Closed(f, n)
                /\ Closed(f, n) => n \notin open' /\ n \in open
    BY <2>4, <2>5, <2>6, <2>8, <2>9, <2>11
  <2>. QED
    BY <2>8, <2>10, <2>11, <2>12, <2>13, <2>14
<1>6. ~OpenExchange(f)
  BY DEF OpenExchange
<1>. QED
  BY <1>3, <1>4, <1>5, <1>6 DEF PairFrame

(* What a request is, and its key, once it is there. *)
LEMMA Keeps ==
  ASSUME PairTypes, NEW f, NewFrame(f), PairFrame(f)
  PROVE  /\ DOMAIN exchanges \subseteq DOMAIN exchanges'
         /\ \A n \in DOMAIN exchanges :
              exchanges'[n].request = exchanges[n].request /\ exchanges'[n].key = exchanges[n].key
<1>1. f.dir \in {"tx", "rx"}
  BY DEF NewFrame, Frame
<1>2. Len(exchanges) \in Nat /\ DOMAIN exchanges = 1 .. Len(exchanges)
  BY Read
<1>3. CASE f.dir = "tx"
  <2>1. DOMAIN exchanges' = 1 .. (Len(exchanges) + 1)
    BY <1>3, Opens
  <2>2. \A n \in DOMAIN exchanges : exchanges'[n] = exchanges[n]
    BY <1>3, Opens
  <2>. QED
    BY <1>2, <2>1, <2>2
<1>4. CASE f.dir = "rx"
  BY <1>4, Closes
<1>. QED
  BY <1>1, <1>3, <1>4

LEMMA TypesStay ==
  ASSUME PairTypes, NEW f, NewFrame(f), PairFrame(f)
  PROVE  PairTypes'
<1>1. f \in Frame /\ f.dir \in {"tx", "rx"} /\ f.channel \in Channels /\ f.at \in Int
  BY DEF NewFrame, Frame
<1>2. frames' \in Seq(Frame)
  BY <1>1, Grows
<1>3. now' \in [Channels -> Int]
  BY <1>1 DEF PairFrame, PairTypes
<1>4. Len(exchanges) \in Nat /\ DOMAIN exchanges = 1 .. Len(exchanges) /\ open \subseteq DOMAIN exchanges
  BY Read DEF PairTypes
<1>5. exchanges' \in Seq(Exchange) /\ open' \subseteq DOMAIN exchanges'
  <2>1. CASE f.dir = "tx"
    <3>1. DOMAIN exchanges' = 1 .. (Len(exchanges) + 1) /\ open' = open \cup {Len(exchanges) + 1}
      BY <2>1, Opens
    <3>2. exchanges' \in Seq(Exchange)
      BY <2>1, Opens
    <3>. QED
      BY <1>4, <3>1, <3>2
  <2>2. CASE f.dir = "rx"
    BY <1>4, <2>2, Closes
  <2>. QED
    BY <1>1, <2>1, <2>2
<1>. QED
  BY <1>2, <1>3, <1>5 DEF PairTypes

LEMMA RequestsStay ==
  ASSUME PairTypes, RequestsInv, NEW f, NewFrame(f), PairFrame(f)
  PROVE  RequestsInv'
<1> DEFINE N == Len(frames) + 1
           E == Len(exchanges) + 1
<1>1. f \in Frame /\ f.dir \in {"tx", "rx"}
  BY DEF NewFrame, Frame
<1>2. /\ DOMAIN frames = 1 .. Len(frames) /\ Len(frames) \in Nat /\ N \in DOMAIN frames'
      /\ \A i \in DOMAIN frames : i \in DOMAIN frames' /\ frames'[i] = frames[i] /\ i < N
      /\ frames'[N] = f
      /\ \A i \in DOMAIN frames' : i \in DOMAIN frames \/ i = N
  BY <1>1, Grows
<1>3. /\ Len(exchanges) \in Nat /\ DOMAIN exchanges = 1 .. Len(exchanges)
      /\ DOMAIN exchanges \subseteq DOMAIN exchanges'
      /\ \A n \in DOMAIN exchanges :
           exchanges'[n].request = exchanges[n].request /\ exchanges'[n].key = exchanges[n].key
  BY Read, Keeps
<1>4. f.dir = "tx" =>
        /\ DOMAIN exchanges' = 1 .. E /\ f.of = E
        /\ exchanges'[E].request = f /\ exchanges'[E].key = RequestKey(f.ask)
  <2>. SUFFICES ASSUME f.dir = "tx"
                PROVE  /\ DOMAIN exchanges' = 1 .. E /\ f.of = E
                       /\ exchanges'[E].request = f /\ exchanges'[E].key = RequestKey(f.ask)
    OBVIOUS
  <2>1. exchanges'[E] = [key |-> RequestKey(f.ask), request |-> f, response |-> NoResponse]
    BY Opens
  <2>2. DOMAIN exchanges' = 1 .. E
    BY Opens
  <2>. QED
    BY <2>1, <2>2 DEF NewFrame
<1>5. f.dir = "rx" => DOMAIN exchanges' = DOMAIN exchanges
  BY Closes
<1>. HIDE DEF N, E
<1>6. ASSUME NEW n \in DOMAIN exchanges'
      PROVE  \E i \in DOMAIN frames' : frames'[i].dir = "tx" /\ frames'[i].of = n
  <2>1. CASE n \in DOMAIN exchanges
    BY <1>2, <2>1 DEF RequestsInv, IsRequest
  <2>2. CASE n \notin DOMAIN exchanges
    <3>1. f.dir = "tx" /\ n = E
      BY <1>1, <1>3, <1>4, <1>5, <2>2 DEF E
    <3>. QED
      BY <1>2, <1>4, <3>1
  <2>. QED
    BY <2>1, <2>2
<1>7. ASSUME NEW i \in DOMAIN frames', frames'[i].dir = "tx"
      PROVE  /\ frames'[i].of \in DOMAIN exchanges'
             /\ exchanges'[frames'[i].of].request = frames'[i]
             /\ exchanges'[frames'[i].of].key = RequestKey(frames'[i].ask)
  <2>1. CASE i \in DOMAIN frames
    <3>1. frames'[i] = frames[i] /\ IsRequest(i)
      BY <1>2, <1>7, <2>1 DEF IsRequest
    <3>. QED
      BY <1>3, <2>1, <3>1 DEF RequestsInv
  <2>2. CASE i = N
    BY <1>2, <1>3, <1>4, <1>7, <2>2 DEF E
  <2>. QED
    BY <1>2, <2>1, <2>2
<1>8. ASSUME NEW i \in DOMAIN frames', NEW k \in DOMAIN frames',
             frames'[i].dir = "tx", frames'[k].dir = "tx", i < k
      PROVE  frames'[i].of < frames'[k].of
  <2>1. i \in DOMAIN frames
    BY <1>2, <1>8 DEF N
  <2>2. frames'[i] = frames[i] /\ IsRequest(i)
    BY <1>2, <1>8, <2>1 DEF IsRequest
  <2>3. CASE k \in DOMAIN frames
    <3>1. frames'[k] = frames[k] /\ IsRequest(k)
      BY <1>2, <1>8, <2>3 DEF IsRequest
    <3>. QED
      BY <1>8, <2>1, <2>2, <2>3, <3>1 DEF RequestsInv
  <2>4. CASE k = N
    <3>1. frames[i].of \in 1 .. Len(exchanges)
      BY <1>3, <2>1, <2>2 DEF RequestsInv
    <3>2. frames'[k].of = E
      BY <1>2, <1>4, <1>8, <2>4
    <3>. QED
      BY <1>3, <2>2, <3>1, <3>2 DEF E
  <2>. QED
    BY <1>2, <2>3, <2>4
<1>. QED
  BY <1>6, <1>7, <1>8 DEF RequestsInv, IsRequest

LEMMA AnswersStay ==
  ASSUME PairTypes, AnswersInv, NEW f, NewFrame(f), PairFrame(f)
  PROVE  AnswersInv'
<1>1. f \in Frame /\ f.dir \in {"tx", "rx"}
  BY DEF NewFrame, Frame
<1>2. /\ \A i \in DOMAIN frames : frames'[i] = frames[i]
      /\ \A i \in DOMAIN frames' : i \in DOMAIN frames \/ frames'[i] = f
  BY <1>1, Grows
<1>3. /\ Len(exchanges) \in Nat /\ DOMAIN exchanges = 1 .. Len(exchanges)
      /\ DOMAIN exchanges \subseteq DOMAIN exchanges'
      /\ \A n \in DOMAIN exchanges : exchanges'[n].request = exchanges[n].request
  BY Read, Keeps
<1>4. ASSUME NEW j \in DOMAIN frames', frames'[j].dir # "tx", frames'[j].of # 0
      PROVE  /\ frames'[j].of \in DOMAIN exchanges'
             /\ exchanges'[frames'[j].of].request.channel = frames'[j].channel
  <2>1. CASE j \in DOMAIN frames
    <3>1. frames'[j] = frames[j] /\ ~IsRequest(j)
      BY <1>2, <1>4, <2>1 DEF IsRequest
    <3>. QED
      BY <1>3, <1>4, <2>1, <3>1 DEF AnswersInv
  <2>2. CASE frames'[j] = f
    <3>1. f.of \in 0 .. Len(exchanges) /\ exchanges[f.of].request.channel = f.channel
      BY <1>1, <1>4, <2>2 DEF NewFrame
    <3>2. f.of \in DOMAIN exchanges
      BY <1>3, <1>4, <2>2, <3>1
    <3>. QED
      BY <1>3, <2>2, <3>1, <3>2
  <2>. QED
    BY <1>2, <2>1, <2>2
<1>. QED
  BY <1>4 DEF AnswersInv, IsRequest

LEMMA ResponsesStay ==
  ASSUME PairTypes, ResponsesInv, NEW f, NewFrame(f), PairFrame(f)
  PROVE  ResponsesInv'
<1>1. f \in Frame /\ f.dir \in {"tx", "rx"}
  BY DEF NewFrame, Frame
<1>2. /\ \A i \in DOMAIN frames : i \in DOMAIN frames' /\ frames'[i] = frames[i]
      /\ \E i \in DOMAIN frames' : frames'[i] = f
  BY <1>1, Grows
<1>3. Len(exchanges) \in Nat /\ DOMAIN exchanges = 1 .. Len(exchanges) /\ open \subseteq DOMAIN exchanges
  BY Read DEF PairTypes
<1>4. ASSUME NEW n \in DOMAIN exchanges, exchanges'[n].response = exchanges[n].response,
             exchanges'[n].response # NoResponse
      PROVE  \E j \in DOMAIN frames' : IsFinal(frames'[j]) /\ frames'[j] = exchanges'[n].response
  BY <1>2, <1>4 DEF ResponsesInv
<1>5. CASE f.dir = "tx"
  <2>1. /\ DOMAIN exchanges' = 1 .. (Len(exchanges) + 1) /\ open' = open \cup {Len(exchanges) + 1}
        /\ \A n \in DOMAIN exchanges : exchanges'[n] = exchanges[n]
    BY <1>5, Opens
  <2>2. exchanges'[Len(exchanges) + 1].response = NoResponse
    <3>1. exchanges'[Len(exchanges) + 1] =
            [key |-> RequestKey(f.ask), request |-> f, response |-> NoResponse]
      BY <1>5, Opens
    <3>. QED
      BY <3>1
  <2>3. ASSUME NEW n \in DOMAIN exchanges'
        PROVE  /\ n \in open' => exchanges'[n].response = NoResponse
               /\ exchanges'[n].response # NoResponse =>
                    \E j \in DOMAIN frames' : IsFinal(frames'[j]) /\ frames'[j] = exchanges'[n].response
    <3>1. CASE n = Len(exchanges) + 1
      BY <2>2, <3>1
    <3>2. CASE n \in DOMAIN exchanges
      <4>1. n # Len(exchanges) + 1
        BY <1>3, <3>2
      <4>. QED
        BY <1>4, <2>1, <3>2, <4>1 DEF ResponsesInv
    <3>. QED
      BY <1>3, <2>1, <3>1, <3>2
  <2>. QED
    BY <2>3 DEF ResponsesInv
<1>6. CASE f.dir = "rx"
  <2>1. ASSUME NEW n \in DOMAIN exchanges'
        PROVE  /\ n \in open' => exchanges'[n].response = NoResponse
               /\ exchanges'[n].response # NoResponse =>
                    \E j \in DOMAIN frames' : IsFinal(frames'[j]) /\ frames'[j] = exchanges'[n].response
    <3>1. /\ n \in DOMAIN exchanges /\ open' \subseteq open
          /\ exchanges'[n].response = exchanges[n].response \/ Closed(f, n)
          /\ Closed(f, n) => n \notin open'
      BY <1>6, Closes
    <3>2. CASE exchanges'[n].response = exchanges[n].response
      BY <1>4, <3>1, <3>2 DEF ResponsesInv
    <3>3. CASE Closed(f, n)
      BY <1>2, <3>1, <3>3 DEF Closed
    <3>. QED
      BY <3>1, <3>2, <3>3
  <2>. QED
    BY <2>1 DEF ResponsesInv
<1>. QED
  BY <1>1, <1>5, <1>6

-----------------------------------------------------------------------------
(* The answers to a request: one more, if the frame is one. *)
LEMMA FinalsGrow ==
  ASSUME PairTypes, NEW f, NewFrame(f), PairFrame(f), NEW n
  PROVE  /\ Finals(n) \subseteq Finals(n)'
         /\ \A j \in Finals(n)' : j \in Finals(n) \/ (j = Len(frames) + 1 /\ IsFinal(f) /\ f.of = n)
         /\ IsFinal(f) /\ f.of = n => Len(frames) + 1 \in Finals(n)'
         /\ ~(IsFinal(f) /\ f.of = n) => Finals(n)' = Finals(n)
<1>1. f \in Frame
  BY DEF NewFrame
<1>2. /\ \A i \in DOMAIN frames : i \in DOMAIN frames' /\ frames'[i] = frames[i]
      /\ Len(frames) + 1 \in DOMAIN frames' /\ frames'[Len(frames) + 1] = f
      /\ \A i \in DOMAIN frames' : i \in DOMAIN frames \/ (i = Len(frames) + 1 /\ i \notin DOMAIN frames)
  BY <1>1, Grows
<1>3. Finals(n)' = {j \in DOMAIN frames' : IsFinal(frames'[j]) /\ frames'[j].of = n}
  BY DEF Finals
<1>4. Finals(n) = {j \in DOMAIN frames : IsFinal(frames[j]) /\ frames[j].of = n}
  BY DEF Finals
<1>. QED
  BY <1>2, <1>3, <1>4

(* A channel that is tame was so before. *)
LEMMA TameBefore ==
  ASSUME PairTypes, NEW f, NewFrame(f), PairFrame(f), NEW c \in Channels, Tame(c)'
  PROVE  Tame(c)
<1>1. f \in Frame
  BY DEF NewFrame
<1>2. /\ Len(frames) \in Nat /\ DOMAIN frames = 1 .. Len(frames)
      /\ \A i \in DOMAIN frames : i \in DOMAIN frames' /\ frames'[i] = frames[i]
      /\ \A i \in DOMAIN frames' : i \in DOMAIN frames \/ i = Len(frames) + 1
  BY <1>1, Grows
<1>3. \A i \in DOMAIN frames : (i \in On(c) <=> i \in On(c)') /\ (i \in Requests(c) <=> i \in Requests(c)')
  BY <1>2 DEF On, Requests
<1>4. On(c) \subseteq DOMAIN frames /\ Requests(c) \subseteq On(c)
  BY DEF On, Requests
<1>5. ASSUME NEW i \in On(c), NEW j \in On(c), i < j
      PROVE  frames[i].at <= frames[j].at
  BY <1>2, <1>3, <1>4, <1>5 DEF Tame
<1>6. ASSUME NEW j \in On(c), IsFinal(frames[j])
      PROVE  /\ Finals(frames[j].of) = {j}
             /\ \E i \in Requests(c) : frames[i].of = frames[j].of /\ InTime(c, i, j)
  <2>1. j \in DOMAIN frames /\ j \in On(c)' /\ frames'[j] = frames[j]
    BY <1>2, <1>3, <1>4
  <2>. PICK n : n = frames[j].of
    OBVIOUS
  <2>2. Finals(n)' = {j}
    BY <1>6, <2>1 DEF Tame
  <2>3. Finals(frames[j].of) = {j}
    <3>1. j \in Finals(frames[j].of)
      BY <1>6, <2>1 DEF Finals
    <3>2. Finals(n) \subseteq Finals(n)'
      BY FinalsGrow
    <3>. QED
      BY <2>2, <3>1, <3>2
  <2>4. PICK i \in Requests(c)' : frames'[i].of = frames[j].of /\ InTime(c, i, j)'
    BY <1>6, <2>1 DEF Tame
  <2>5. i < j /\ i \in DOMAIN frames
    <3>1. i < j
      BY <2>4 DEF InTime
    <3>2. i \in DOMAIN frames'
      BY <2>4 DEF Requests, On
    <3>. QED
      BY <1>2, <2>1, <3>1, <3>2
  <2>6. i \in Requests(c) /\ frames'[i] = frames[i] /\ frames[i].of = frames[j].of
    BY <1>2, <1>3, <2>4, <2>5
  <2>7. frames[j].at - frames[i].at <= Window
    BY <2>1, <2>4, <2>6 DEF InTime
  <2>8. ASSUME NEW k \in Requests(c), k < i, Confusable(i, j, k), \A r \in Finals(frames[k].of) : r > j
        PROVE  frames[j].at - frames[k].at > Window
    <3>1. k \in DOMAIN frames /\ k \in Requests(c)' /\ frames'[k] = frames[k]
      BY <1>2, <1>3, <1>4, <2>8
    <3>2. Confusable(i, j, k)'
      BY <2>1, <2>6, <2>8, <3>1 DEF Confusable
    <3>. PICK m : m = frames[k].of
      OBVIOUS
    <3>3. ASSUME NEW r \in Finals(m)' PROVE r > j
      <4>1. r \in Finals(m) \/ r = Len(frames) + 1
        BY FinalsGrow
      <4>. QED
        BY <1>2, <2>1, <2>8, <4>1
    <3>4. frames'[j].at - frames'[k].at > Window
      BY <2>4, <2>8, <3>1, <3>2, <3>3 DEF InTime
    <3>. QED
      BY <2>1, <3>1, <3>4
  <2>9. InTime(c, i, j)
    BY <2>5, <2>7, <2>8 DEF InTime
  <2>. QED
    BY <2>3, <2>6, <2>9
<1>. QED
  BY <1>5, <1>6 DEF Tame

(* On a tame channel the oldest exchange that an answer fits is its own. *)
LEMMA OwnFits ==
  ASSUME PairInv, NEW f, NewFrame(f), PairFrame(f), IsFinal(f), Tame(f.channel)', NEW n, n = f.of
  PROVE  /\ n \in DOMAIN exchanges /\ n \in Fitting(f) /\ Min(Fitting(f)) = n
         /\ f.at - exchanges[n].request.at \in 0 .. Window
<1>. PICK N : N = Len(frames) + 1
  OBVIOUS
<1>. PICK c \in Channels : c = f.channel
  BY DEF NewFrame, Frame
<1>1. /\ f \in Frame /\ f.dir = "rx" /\ f.kind \in {"positive", "negative"} /\ f.at \in Int
      /\ PairTypes /\ RequestsInv /\ ResponsesInv
  BY DEF NewFrame, IsFinal, PairInv, Frame
<1>2. /\ Len(frames) \in Nat /\ DOMAIN frames = 1 .. Len(frames)
      /\ \A i \in DOMAIN frames : i \in DOMAIN frames' /\ frames'[i] = frames[i]
      /\ N \in DOMAIN frames' /\ frames'[N] = f
      /\ \A i \in DOMAIN frames' : i \in DOMAIN frames \/ i = N
  BY <1>1, Grows
<1>3. /\ \A i \in DOMAIN frames : frames[i] \in Frame /\ frames[i].at \in Int
      /\ Len(exchanges) \in Nat /\ DOMAIN exchanges = 1 .. Len(exchanges)
  <2>1. \A i \in DOMAIN frames : frames[i] \in Frame
    BY <1>1, Read
  <2>2. Len(exchanges) \in Nat /\ DOMAIN exchanges = 1 .. Len(exchanges)
    BY <1>1, Read
  <2>. QED
    BY <2>1, <2>2 DEF Frame
<1>4. Tame(c)' /\ Tame(c)
  <2>1. Tame(c)'
    OBVIOUS
  <2>. QED
    BY <1>1, <2>1, TameBefore
<1>5. OwnInv(c)
  BY <1>4 DEF PairInv
<1>6. \A i \in On(c) : i \in DOMAIN frames /\ i \in On(c)' /\ frames'[i] = frames[i]
  BY <1>2 DEF On
<1>7. N \in On(c)'
  BY <1>2 DEF On
<1>8. Finals(n)' = {N}
  BY <1>2, <1>4, <1>7 DEF Tame
<1>9. PICK i \in Requests(c)' : frames'[i].of = n /\ InTime(c, i, N)'
  BY <1>2, <1>4, <1>7 DEF Tame
<1>10. /\ i \in DOMAIN frames /\ frames'[i] = frames[i] /\ IsRequest(i)
       /\ frames[i].of = n /\ frames[i].channel = c
  <2>1. i < N /\ i \in DOMAIN frames' /\ frames'[i].dir = "tx" /\ frames'[i].channel = c
    BY <1>9 DEF InTime, Requests, On
  <2>2. i \in DOMAIN frames
    BY <1>2, <2>1
  <2>. QED
    BY <1>2, <1>9, <2>1, <2>2 DEF IsRequest
<1>11. n \in DOMAIN exchanges /\ exchanges[n].request = frames[i]
       /\ exchanges[n].key = RequestKey(frames[i].ask)
  BY <1>1, <1>10 DEF RequestsInv
<1>12. f.at - frames[i].at <= Window
  BY <1>2, <1>9, <1>10 DEF InTime
<1>13. frames[i].at <= f.at
  <2>1. i \in On(c)' /\ i < N
    BY <1>9 DEF Requests, InTime
  <2>. QED
    BY <1>2, <1>4, <1>7, <1>10, <2>1 DEF Tame
<1>14. exchanges[n].response = NoResponse
  <2>. SUFFICES ASSUME exchanges[n].response # NoResponse PROVE FALSE
    OBVIOUS
  <2>1. exchanges[n].response.of = n
    BY <1>5, <1>10, <1>11 DEF OwnInv, OwnAnswer
  <2>2. PICK j \in DOMAIN frames : IsFinal(frames[j]) /\ frames[j] = exchanges[n].response
    BY <1>1, <1>11 DEF ResponsesInv
  <2>3. j \in Finals(n)
    BY <2>1, <2>2 DEF Finals
  <2>4. Finals(n) \subseteq Finals(n)'
    BY <1>1, FinalsGrow
  <2>5. j = N
    BY <1>8, <2>3, <2>4
  <2>. QED
    BY <1>2, <2>2, <2>5
<1>15. n \in open
  <2>. SUFFICES ASSUME n \notin open PROVE FALSE
    OBVIOUS
  <2>1. PICK l \in On(c) : frames[l].at - frames[i].at > Window
    BY <1>5, <1>10, <1>11, <1>14 DEF OwnInv
  <2>2. l < N /\ l \in On(c)' /\ frames'[l] = frames[l] /\ frames[l].at \in Int
    BY <1>2, <1>3, <1>6
  <2>3. frames[l].at <= f.at
    BY <1>2, <1>4, <1>7, <2>2 DEF Tame
  <2>4. frames[i].at \in Int /\ Window \in Int
    BY <1>3, <1>10, AnalysisAssumption
  <2>. QED
    BY <1>1, <1>12, <2>1, <2>2, <2>3, <2>4
<1>16. frames[i].ask = f.ask
  <2>1. n # 0
    BY <1>3, <1>11
  <2>. QED
    BY <1>1, <1>11, <2>1 DEF NewFrame
<1>17. n \in Fitting(f)
  BY <1>1, <1>10, <1>11, <1>12, <1>15, <1>16
  DEF Fitting, Waiting, Waits, Fits, SameChannel, ResponseKey
<1>18. ASSUME NEW m \in Fitting(f) PROVE n <= m
  <2>1. m \in open /\ Waits(exchanges[m], f) /\ Fits(exchanges[m], f)
    BY DEF Fitting, Waiting
  <2>2. m \in DOMAIN exchanges
    BY <1>1, <2>1 DEF PairTypes
  <2>3. PICK k \in DOMAIN frames : IsRequest(k) /\ frames[k].of = m
    BY <1>1, <2>2 DEF RequestsInv
  <2>4. exchanges[m].request = frames[k] /\ exchanges[m].key = RequestKey(frames[k].ask)
    BY <1>1, <2>3 DEF RequestsInv
  <2>5. frames[k].channel = c /\ f.at - frames[k].at <= Window
    BY <2>1, <2>4 DEF Fits, Waits, SameChannel
  <2>. SUFFICES ASSUME m < n PROVE FALSE
    BY <1>3, <1>11, <2>2
  <2>6. k < i
    <3>1. ~(i < k)
      <4>. SUFFICES ASSUME i < k PROVE FALSE
        OBVIOUS
      <4>1. n < m
        BY <1>1, <1>10, <2>3 DEF RequestsInv
      <4>. QED
        BY <1>3, <1>11, <2>2, <4>1
    <3>2. i # k
      BY <1>3, <1>10, <1>11, <2>2, <2>3
    <3>. QED
      BY <1>2, <1>10, <3>1, <3>2
  <2>7. k \in Requests(c)' /\ frames'[k] = frames[k]
    BY <1>2, <2>3, <2>5 DEF Requests, On, IsRequest
  <2>8. Confusable(i, N, k)'
    BY <1>1, <1>2, <1>10, <1>16, <2>1, <2>4, <2>7 DEF Confusable, Fits, ResponseKey
  <2>9. Finals(m)' = {}
    <3>1. exchanges[m].response = NoResponse
      BY <1>1, <2>1, <2>2 DEF ResponsesInv
    <3>2. Finals(m) = {}
      BY <1>5, <2>2, <2>4, <2>5, <3>1 DEF OwnInv
    <3>3. f.of # m
      BY <1>3, <1>11, <2>2
    <3>4. Finals(m)' = Finals(m)
      BY <1>1, <3>3, FinalsGrow
    <3>. QED
      BY <3>2, <3>4
  <2>10. f.at - frames[k].at > Window
    BY <1>2, <1>9, <2>3, <2>6, <2>7, <2>8, <2>9 DEF InTime
  <2>11. frames[k].at \in Int /\ Window \in Int
    BY <1>3, AnalysisAssumption
  <2>. QED
    BY <1>1, <2>5, <2>10, <2>11
<1>19. Min(Fitting(f)) = n
  <2> DEFINE S == Fitting(f)
  <2>1. n \in S /\ \A m \in S : n <= m
    BY <1>17, <1>18
  <2>2. S \subseteq DOMAIN exchanges
    BY <1>1 DEF Fitting, Waiting, PairTypes
  <2>. HIDE DEF S
  <2>3. Min(S) \in S /\ Min(S) <= n
    BY <1>1, <2>1, <2>2, Oldest
  <2>4. n <= Min(S) /\ n \in Nat /\ Min(S) \in Nat
    BY <1>3, <2>1, <2>2, <2>3
  <2>5. Min(S) = n
    BY <2>3, <2>4
  <2>. QED
    BY <2>5 DEF S
<1>20. f.at - exchanges[n].request.at \in 0 .. Window
  <2>1. frames[i].at \in Int /\ Window \in Nat
    BY <1>3, <1>10, AnalysisAssumption
  <2>. QED
    BY <1>1, <1>11, <1>12, <1>13, <2>1
<1>. QED
  BY <1>11, <1>17, <1>19, <1>20

(* So on a tame channel a frame closes its own exchange and no other, and what it   *)
(* drops has waited too long.                                                *)
LEMMA OwnStays ==
  ASSUME PairInv, NEW f, NewFrame(f), PairFrame(f), NEW c \in Channels, Tame(c)'
  PROVE  OwnInv(c)'
<1>. PICK N : N = Len(frames) + 1
  OBVIOUS
<1>1. /\ f \in Frame /\ f.dir \in {"tx", "rx"} /\ f.at \in Int /\ f.channel \in Channels
      /\ PairTypes /\ RequestsInv /\ AnswersInv /\ ResponsesInv
  BY DEF NewFrame, PairInv, Frame
<1>2. /\ \A i \in DOMAIN frames : i \in DOMAIN frames' /\ frames'[i] = frames[i]
      /\ N \in DOMAIN frames' /\ frames'[N] = f
  BY <1>1, Grows
<1>3. /\ Len(exchanges) \in Nat /\ DOMAIN exchanges = 1 .. Len(exchanges)
      /\ \A n \in DOMAIN exchanges : exchanges[n].request.at \in Int
  <2>1. \A n \in DOMAIN exchanges : exchanges[n] \in Exchange
    BY <1>1, Read
  <2>2. Len(exchanges) \in Nat /\ DOMAIN exchanges = 1 .. Len(exchanges)
    BY <1>1, Read
  <2>. QED
    BY <2>1, <2>2 DEF Exchange, Frame
<1>4. OwnInv(c)
  BY <1>1, TameBefore DEF PairInv
<1>5. \A l \in On(c) : l \in On(c)' /\ frames'[l] = frames[l]
  BY <1>2 DEF On
<1>6. ASSUME NEW n \in DOMAIN exchanges, exchanges[n].request.channel = c,
             exchanges'[n].request = exchanges[n].request,
             exchanges'[n].response = exchanges[n].response,
             ~(IsFinal(f) /\ f.of = n),
             n \in open => n \in open' \/ ~Waits(exchanges[n], f)
      PROVE  /\ OwnAnswer(n)'
             /\ exchanges'[n].response = NoResponse =>
                  /\ Finals(n)' = {}
                  /\ n \notin open' =>
                       \E l \in On(c)' : frames'[l].at - exchanges'[n].request.at > Window
  <2>1. OwnAnswer(n)'
    BY <1>4, <1>6 DEF OwnInv, OwnAnswer, Latency
  <2>2. ASSUME exchanges'[n].response = NoResponse PROVE Finals(n)' = {}
    <3>1. Finals(n) = {}
      BY <1>4, <1>6, <2>2 DEF OwnInv
    <3>2. Finals(n)' = Finals(n)
      BY <1>1, <1>6, FinalsGrow
    <3>. QED
      BY <3>1, <3>2
  <2>3. ASSUME exchanges'[n].response = NoResponse, n \notin open'
        PROVE  \E l \in On(c)' : frames'[l].at - exchanges'[n].request.at > Window
    <3>1. CASE n \in open
      <4>1. f.channel = c /\ ~(f.at - exchanges[n].request.at <= Window)
        BY <1>6, <2>3, <3>1 DEF Waits, SameChannel
      <4>2. N \in On(c)'
        BY <1>2, <4>1 DEF On
      <4>3. f.at - exchanges[n].request.at > Window
        BY <1>1, <1>3, <4>1, AnalysisAssumption
      <4>. QED
        BY <1>2, <1>6, <4>2, <4>3
    <3>2. CASE n \notin open
      <4>1. PICK l \in On(c) : frames[l].at - exchanges[n].request.at > Window
        BY <1>4, <1>6, <2>3, <3>2 DEF OwnInv
      <4>. QED
        BY <1>5, <1>6, <4>1
    <3>. QED
      BY <3>1, <3>2
  <2>. QED
    BY <2>1, <2>2, <2>3
<1>. SUFFICES ASSUME NEW n \in DOMAIN exchanges', exchanges'[n].request.channel = c
              PROVE  /\ OwnAnswer(n)'
                     /\ exchanges'[n].response = NoResponse =>
                          /\ Finals(n)' = {}
                          /\ n \notin open' =>
                               \E l \in On(c)' : frames'[l].at - exchanges'[n].request.at > Window
  BY DEF OwnInv
<1>7. CASE f.dir = "tx"
  <2>1. /\ DOMAIN exchanges' = 1 .. (Len(exchanges) + 1) /\ open' = open \cup {Len(exchanges) + 1}
        /\ \A k \in DOMAIN exchanges : exchanges'[k] = exchanges[k]
    BY <1>1, <1>7, Opens
  <2>2. ~IsFinal(f)
    BY <1>7 DEF IsFinal
  <2>3. CASE n \in DOMAIN exchanges
    BY <1>6, <2>1, <2>2, <2>3
  <2>4. CASE n \notin DOMAIN exchanges
    <3>1. n = Len(exchanges) + 1
      BY <1>3, <2>1, <2>4
    <3>2. exchanges'[n].response = NoResponse
      <4>1. exchanges'[Len(exchanges) + 1] =
              [key |-> RequestKey(f.ask), request |-> f, response |-> NoResponse]
        BY <1>1, <1>7, Opens
      <4>. QED
        BY <3>1, <4>1
    <3>3. Finals(n) = {}
      <4>. SUFFICES ASSUME NEW j \in Finals(n) PROVE FALSE
        OBVIOUS
      <4>1. j \in DOMAIN frames /\ ~IsRequest(j) /\ frames[j].of = n
        BY DEF Finals, IsFinal, IsRequest
      <4>. QED
        BY <1>1, <1>3, <2>4, <3>1, <4>1 DEF AnswersInv
    <3>4. Finals(n)' = {}
      BY <1>1, <2>2, <3>3, FinalsGrow
    <3>5. n \in open' /\ OwnAnswer(n)'
      BY <2>1, <3>1, <3>2 DEF OwnAnswer
    <3>. QED
      BY <3>4, <3>5
  <2>. QED
    BY <2>3, <2>4
<1>8. CASE f.dir = "rx"
  <2>1. /\ n \in DOMAIN exchanges /\ exchanges'[n].request = exchanges[n].request
        /\ exchanges'[n].response = exchanges[n].response \/ Closed(f, n)
        /\ n \in open => n \in open' \/ ~Waits(exchanges[n], f) \/ Closed(f, n)
        /\ IsFinal(f) /\ Fitting(f) # {} => Closed(f, Min(Fitting(f)))
    BY <1>1, <1>8, Closes
  <2>2. exchanges[n].request.channel = c
    BY <2>1
  <2>3. CASE Closed(f, n)
    <3>1. IsFinal(f) /\ Fitting(f) # {} /\ n = Min(Fitting(f)) /\ exchanges'[n].response = f
      BY <2>3 DEF Closed
    <3>2. n \in Fitting(f)
      <4>1. Fitting(f) \subseteq DOMAIN exchanges
        BY <1>1 DEF Fitting, Waiting, PairTypes
      <4>. QED
        BY <1>1, <3>1, <4>1, Oldest
    <3>3. f.channel = c
      BY <2>2, <3>2 DEF Fitting, Fits, SameChannel
    <3>. PICK m : m = f.of
      OBVIOUS
    <3>4. Min(Fitting(f)) = m /\ f.at - exchanges[m].request.at \in 0 .. Window
      BY <3>1, <3>3, OwnFits
    <3>5. n = f.of /\ f.at - exchanges'[n].request.at \in 0 .. Window
      BY <2>1, <3>1, <3>4
    <3>6. OwnAnswer(n)'
      BY <3>1, <3>5 DEF OwnAnswer, Latency
    <3>7. exchanges'[n].response # NoResponse
      BY <3>1 DEF IsFinal, NoResponse
    <3>. QED
      BY <3>6, <3>7
  <2>4. CASE ~Closed(f, n)
    <3>1. ~(IsFinal(f) /\ f.of = n)
      <4>. SUFFICES ASSUME IsFinal(f), f.of = n PROVE FALSE
        OBVIOUS
      <4>1. f.channel = c
        <5>1. n # 0
          BY <1>3, <2>1
        <5>. QED
          BY <1>8, <2>2, <5>1 DEF NewFrame
      <4>2. n \in Fitting(f) /\ Min(Fitting(f)) = n
        BY <4>1, OwnFits
      <4>. QED
        BY <2>1, <2>4, <4>2
    <3>. QED
      BY <1>6, <2>1, <2>2, <2>4, <3>1
  <2>. QED
    BY <2>3, <2>4
<1>. QED
  BY <1>1, <1>7, <1>8

LEMMA PairStep ==
  ASSUME PairInv, [LogsNext]_logsVars
  PROVE  PairInv'
<1>1. CASE ReadFrame
  <2>1. PairTypes /\ RequestsInv /\ AnswersInv /\ ResponsesInv
    BY DEF PairInv
  <2>2. PICK f : NewFrame(f) /\ PairFrame(f)
    BY <1>1, <2>1, Reads
  <2>3. PairTypes' /\ RequestsInv' /\ AnswersInv' /\ ResponsesInv'
    BY <2>1, <2>2, TypesStay, RequestsStay, AnswersStay, ResponsesStay
  <2>4. ASSUME NEW c \in Channels, Tame(c)' PROVE OwnInv(c)'
    BY <2>2, <2>4, OwnStays
  <2>. QED
    BY <2>3, <2>4 DEF PairInv
<1>2. CASE NextLog
  <2>1. AnalysisInit'
    BY <1>2 DEF NextLog, AnalysisInit
  <2>. QED
    BY <2>1, InitiallyPaired, PTL
<1>3. CASE UNCHANGED analysis
  <2>1. frames' = frames /\ exchanges' = exchanges /\ open' = open /\ now' = now
    BY <1>3 DEF analysis
  <2>2. (PairTypes /\ RequestsInv /\ AnswersInv /\ ResponsesInv)'
    BY <2>1 DEF PairInv, PairTypes, RequestsInv, AnswersInv, ResponsesInv, IsRequest
  <2>3. ASSUME NEW c \in Channels, Tame(c)' PROVE OwnInv(c)'
    <3>1. Tame(c)
      BY <2>1, <2>3 DEF Tame, On, Requests, Finals, InTime, Confusable
    <3>2. OwnInv(c)
      BY <3>1 DEF PairInv
    <3>. QED
      BY <2>1, <3>2 DEF OwnInv, OwnAnswer, Latency, Finals, On
  <2>. QED
    BY <2>2, <2>3 DEF PairInv
<1>. QED
  BY <1>1, <1>2, <1>3 DEF LogsNext, logsVars

-----------------------------------------------------------------------------
(* An exchange of a tame channel has an answer of a kind exactly if its request was *)
(* given one.                                                                *)
LEMMA Told ==
  ASSUME PairInv, NEW c \in Channels, Tame(c),
         NEW n \in DOMAIN exchanges, exchanges[n].request.channel = c
  PROVE  /\ \A kind \in {"positive", "negative"} :
              exchanges[n].response.kind = kind <=> \E j \in Finals(n) : frames[j].kind = kind
         /\ exchanges[n].response.kind # "pending"
         /\ exchanges[n].response = NoResponse <=> Finals(n) = {}
<1>1. PairTypes /\ AnswersInv /\ ResponsesInv /\ OwnInv(c)
  BY DEF PairInv
<1>2. n # 0
  BY <1>1, Read
<1>3. CASE exchanges[n].response = NoResponse
  <2>1. Finals(n) = {} /\ exchanges[n].response.kind = "none"
    BY <1>1, <1>3 DEF OwnInv, NoResponse
  <2>. QED
    BY <1>3, <2>1
<1>4. CASE exchanges[n].response # NoResponse
  <2>1. exchanges[n].response.of = n
    BY <1>1, <1>4 DEF OwnInv, OwnAnswer
  <2>2. PICK j \in DOMAIN frames : IsFinal(frames[j]) /\ frames[j] = exchanges[n].response
    BY <1>1, <1>4 DEF ResponsesInv
  <2>3. frames[j].of = n /\ frames[j].kind \in {"positive", "negative"} /\ ~IsRequest(j)
    BY <2>1, <2>2 DEF IsFinal, IsRequest
  <2>4. j \in On(c)
    BY <1>1, <1>2, <2>2, <2>3 DEF AnswersInv, On
  <2>5. Finals(n) = {j}
    BY <2>2, <2>3, <2>4 DEF Tame
  <2>. QED
    BY <1>4, <2>2, <2>3, <2>5
<1>. QED
  BY <1>3, <1>4

(* The counts of a set of requests of tame channels are true. *)
LEMMA TrueCounts ==
  ASSUME PairInv, NEW S \in SUBSET DOMAIN exchanges,
         \A n \in S : exchanges[n].request.channel \in Channels /\ Tame(exchanges[n].request.channel)
  PROVE  StatsOf(S) = TrueStats(S)
<1>1. ASSUME NEW n \in S
      PROVE  /\ \A kind \in {"positive", "negative"} :
                  exchanges[n].response.kind = kind <=> \E j \in Finals(n) : frames[j].kind = kind
             /\ exchanges[n].response.kind # "pending"
  <2>. PICK c \in Channels : c = exchanges[n].request.channel
    OBVIOUS
  <2>1. n \in DOMAIN exchanges /\ Tame(c)
    OBVIOUS
  <2>. QED
    BY <2>1, Told
<1>2. {n \in S : exchanges[n].response.kind \in {"positive"}} = Got(S, "positive")
  BY <1>1 DEF Got
<1>3. {n \in S : exchanges[n].response.kind \in {"negative", "pending"}} = Got(S, "negative")
  BY <1>1 DEF Got
<1>. QED
  BY <1>2, <1>3 DEF StatsOf, CountKind, TrueStats

(* Of every log: the answers that the analysis shows and counts for a tame channel  *)
(* are those its requests were given (parser.py, pair; summarize.py; diff.py).*)
THEOREM SummariesAreTrue == LogsSpec => []SummaryTrue
<1>1. LogsInit => PairInv
  BY InitiallyPaired DEF LogsInit
<1>2. PairInv /\ [LogsNext]_logsVars => PairInv'
  BY PairStep
<1>3. PairInv => SummaryTrue
  <2>. SUFFICES ASSUME PairInv PROVE SummaryTrue
    OBVIOUS
  <2>1. /\ RequestsInv /\ DOMAIN exchanges = 1 .. Len(exchanges) /\ Len(exchanges) \in Nat
        /\ \A i \in DOMAIN frames : frames[i] \in Frame
    BY Read DEF PairInv
  <2>2. \A n \in DOMAIN exchanges : exchanges[n].request.channel \in Channels
    <3>1. \A n \in DOMAIN exchanges : exchanges[n] \in Exchange
      BY Read DEF PairInv
    <3>. QED
      BY <3>1 DEF Exchange, Frame
  <2>3. ASSUME NEW n \in DOMAIN exchanges
        PROVE  \E i \in DOMAIN frames : /\ frames[i].dir = "tx" /\ frames[i].of = n
                                        /\ exchanges[n].request = frames[i]
                                        /\ exchanges[n].key = RequestKey(frames[i].ask)
    BY <2>1 DEF RequestsInv, IsRequest
  <2>4. ASSUME NEW i \in DOMAIN frames, frames[i].dir = "tx"
        PROVE  /\ frames[i].of \in DOMAIN exchanges
               /\ exchanges[frames[i].of].request = frames[i]
               /\ exchanges[frames[i].of].key = RequestKey(frames[i].ask)
    BY <2>1, <2>4 DEF RequestsInv, IsRequest
  <2>5. ASSUME NEW c \in Channels, Tame(c), NEW m, NEW key
        PROVE  Collect(c, m, key) = TrueStats(AskedOf(c, m, key))
    <3> DEFINE S == {n \in DOMAIN exchanges : /\ exchanges[n].request.channel = c
                       /\ exchanges[n].request.ask.module = m /\ exchanges[n].key = key}
    <3>1. S = AskedOf(c, m, key)
      <4>1. ASSUME NEW n \in S PROVE n \in AskedOf(c, m, key)
        BY <2>3 DEF AskedOf, Requests, On
      <4>2. ASSUME NEW n \in AskedOf(c, m, key) PROVE n \in S
        BY <2>4 DEF AskedOf, Requests, On
      <4>. QED
        BY <4>1, <4>2
    <3>2. StatsOf(S) = TrueStats(S)
      BY <2>2, <2>5, TrueCounts
    <3>. QED
      BY <3>1, <3>2 DEF Collect
  <2>6. ASSUME NEW c \in Channels, Tame(c), NEW n \in DOMAIN exchanges,
               exchanges[n].request.channel = c
        PROVE  OwnAnswer(n)
    BY <2>6 DEF PairInv, OwnInv
  <2>7. ASSUME \A c \in Channels : Tame(c), NEW key
        PROVE  /\ ByKey(key) = TrueStats(Asked(key))
               /\ Unanswered(key) = Cardinality({n \in Asked(key) : Finals(n) = {}})
    <3> DEFINE S == {n \in DOMAIN exchanges : exchanges[n].key = key}
    <3>1. S = Asked(key)
      <4>1. ASSUME NEW n \in S PROVE n \in Asked(key)
        BY <2>3 DEF Asked
      <4>2. ASSUME NEW n \in Asked(key) PROVE n \in S
        BY <2>4 DEF Asked
      <4>. QED
        BY <4>1, <4>2
    <3>2. StatsOf(S) = TrueStats(S)
      BY <2>2, <2>7, TrueCounts
    <3>3. \A n \in S : exchanges[n].response = NoResponse <=> Finals(n) = {}
      <4>1. ASSUME NEW n \in S PROVE exchanges[n].response = NoResponse <=> Finals(n) = {}
        <5>. PICK c \in Channels : c = exchanges[n].request.channel
          BY <2>2
        <5>1. n \in DOMAIN exchanges /\ Tame(c)
          BY <2>7
        <5>. QED
          BY <5>1, Told
      <4>. QED
        BY <4>1
    <3>4. {n \in DOMAIN exchanges : exchanges[n].key = key /\ exchanges[n].response = NoResponse}
            = {n \in Asked(key) : Finals(n) = {}}
      BY <3>1, <3>3
    <3>. QED
      BY <3>1, <3>2, <3>4 DEF ByKey, Unanswered
  <2>. QED
    BY <2>5, <2>6, <2>7 DEF SummaryTrue
<1>. QED
  BY <1>1, <1>2, <1>3, PTL DEF LogsSpec
=============================================================================
