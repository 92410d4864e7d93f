------------------------------ MODULE ProxyLog ------------------------------
(***************************************************************************)
(* The J2534 logging proxy (proxy/src): a DLL that a diagnostic program    *)
(* loads in place of the vendor's driver.  Every entry point (exports.cpp) *)
(* initialises the proxy once (real_driver.cpp), forwards the call and     *)
(* writes one record of it to the session's log (logger.cpp).  Several     *)
(* threads may be in it; the process may unload it, or crash.              *)
(***************************************************************************)
EXTENDS Integers, Sequences

CONSTANTS
  Threads, Channels, Asks, Writes, Answers, Others, Exports, NotLoaded, Requested, MaxCalls, MaxOwing,
  IniFiles,  \* what the file may say of each setting: "unset", "on" or "off"
  Nobody,
  Everybody  \* the proxy is initialised

VARIABLES
  pc,          \* where each thread is in the proxy
  call,        \* the call it makes
  result,      \* what the driver returned
  line,        \* the record under construction
  calls,
  once,        \* g_once: Nobody, the thread that initialises, or Everybody
  exports,     \* the entry points resolved in the vendor's DLL
  settings,    \* the Config
  proxyError,  \* g_proxy_error: "none", "load" (the DLL) or "slot" (a missing entry point)
  file,        \* g_file: "none", "open" or "closed"
  log,         \* the lines written to it
  flushed,     \* how many of them have left the process
  seq,         \* g_seq
  clock,       \* now_micros
  running,     \* the process has not crashed
  owing, inbox,
  returned     \* history: the calls that have returned, with their results

proxyThread == <<pc, call, result, line>>
shared == <<once, exports, settings, proxyError, file, log, flushed, seq, clock>>
environment == <<calls, owing, inbox, running, returned>>
proxyVars == <<proxyThread, shared, environment>>

(* Config, as it is constructed. *)
Defaults == [logging |-> TRUE, emptyReads |-> FALSE, lastErrors |-> FALSE, flushEach |-> TRUE]

NoCall == [fn |-> "none"]
NoLine == [ev |-> "none"]

(* What the program sees: a call is done once the driver has performed it. *)
Host == [t \in Threads |->
  CASE pc[t] = "idle" -> [state |-> "idle"]
    [] pc[t] \in {"record", "line"} -> [state |-> "done", call |-> call[t], result |-> result[t]]
    [] OTHER -> [state |-> "called", call |-> call[t]]]

Vendor == INSTANCE PassThru WITH host <- Host

(* The entry points beside those that carry messages.  Each is forwarded and recorded *)
(* like any other; only PassThruGetLastError differs.                        *)
DeviceCalls == {"open", "close"}
ChannelCalls == {"connect", "disconnect"}
PeriodicCalls == {"start_periodic", "stop_periodic"}
FilterCalls == {"start_filter", "stop_filter"}
AdapterCalls == {"set_programming_voltage", "read_version"}
IoctlCalls == {"ioctl"}
OtherCalls == DeviceCalls \cup ChannelCalls \cup PeriodicCalls \cup FilterCalls \cup AdapterCalls
                \cup IoctlCalls \cup {"get_last_error"}

ASSUME ProxyAssumption ==
  /\ Nobody \notin Threads /\ Everybody \notin Threads \cup {Nobody}
  /\ Others \subseteq OtherCalls
  /\ \A set \in Exports : set \subseteq Others \cup {"open", "read", "write"}
  /\ NotLoaded \notin Exports /\ Answers \in [Asks -> SUBSET {"positive", "negative", "pending"}]
  /\ MaxCalls \in Nat

Stages == {"idle", "enter", "config", "start", "load", "tell", "record", "line"}

ProxyTypeOK ==
  /\ pc \in [Threads -> Stages]
  /\ once \in Threads \cup {Nobody, Everybody}
  /\ \A t \in Threads : pc[t] \in {"config", "start", "load"} <=> once = t
  /\ exports = NotLoaded <=> once # Everybody
  /\ proxyError \in {"none", "load", "slot"}
  /\ file \in {"none", "open", "closed"}
  /\ flushed \in 0 .. Len(log)
  /\ seq \in Nat /\ calls \in 0 .. MaxCalls
  /\ running \in BOOLEAN

ProxyInit ==
  /\ pc = [t \in Threads |-> "idle"] /\ call = [t \in Threads |-> NoCall]
  /\ result = [t \in Threads |-> Vendor!Unavailable] /\ line = [t \in Threads |-> NoLine]
  /\ calls = 0 /\ once = Nobody /\ exports = NotLoaded
  /\ settings = Defaults
  /\ proxyError = "none" /\ file = "none" /\ log = <<>> /\ flushed = 0 /\ seq = 0 /\ clock = 0
  /\ running = TRUE
  /\ owing = [c \in Channels |-> <<>>] /\ inbox = [c \in Channels |-> <<>>]
  /\ returned = {}

Goto(t, stage) == pc' = [pc EXCEPT ![t] = stage]

-----------------------------------------------------------------------------
(* Initialisation: the first call does it, the others wait. *)

Enter(t, new) ==
  /\ running /\ pc[t] = "idle" /\ calls < MaxCalls /\ file # "closed"
  /\ Goto(t, "enter") /\ call' = [call EXCEPT ![t] = Vendor!NewCall(new)] /\ calls' = calls + 1
  /\ UNCHANGED <<result, line, shared, owing, inbox, running, returned>>

(* ensure_init *)
InitOnce(t) ==
  /\ running /\ pc[t] = "enter" /\ once = Nobody
  /\ once' = t /\ Goto(t, "config")
  /\ UNCHANGED <<call, result, line, exports, settings, proxyError, file, log, flushed, seq, clock,
                 environment>>

(* to_bool, for a setting that is given and one that is not. *)
ToBool(given, default) == IF given = "unset" THEN default ELSE given = "on"

(* parse_ini overwrites the default, and the environment the file; only logging   *)
(* has a variable.                                                           *)
LoadConfig(t) ==
  /\ running /\ pc[t] = "config" /\ Goto(t, "start")
  /\ \E ini \in IniFiles, env \in {"unset", "on", "off"} :
       settings' = [field \in DOMAIN settings |->
         LET fromFile == ToBool(ini[field], settings[field])
         IN  IF field = "logging" THEN ToBool(env, fromFile) ELSE fromFile]
  /\ UNCHANGED <<call, result, line, once, exports, proxyError, file, log, flushed, seq, clock,
                 environment>>

(* logger::start: the file cannot always be opened. *)
StartLog(t) ==
  /\ running /\ pc[t] = "start" /\ Goto(t, "load")
  /\ \/ /\ settings.logging /\ file' = "open"
        /\ log' = <<[ev |-> "session"]>> /\ flushed' = 1
     \/ UNCHANGED <<file, log, flushed>>
  /\ UNCHANGED <<call, result, line, once, exports, settings, proxyError, seq, clock, environment>>

(* mutant: the flag is set only when the driver was loaded *)
DoneIfLoaded(loaded) == IF loaded THEN Everybody ELSE once

(* call_once: whatever came of it. *)
InitDone(loaded) == Everybody

(* The record that init_once writes with the log in hand. *)
InitRecord(t, ev) ==
  IF file = "open"
    THEN /\ log' = Append(log, [ev |-> ev, thread |-> t, id |-> 0, mono |-> clock, n |-> seq + 1])
         /\ seq' = seq + 1 /\ clock' = clock + 1
         /\ flushed' = IF settings.flushEach THEN Len(log) + 1 ELSE flushed
    ELSE UNCHANGED <<log, seq, clock, flushed>>

(* load_vendor_dll: what has no PassThruOpen is not a driver, yet the entry points *)
(* it has are called.                                                        *)
LoadVendorDll(t) ==
  /\ running /\ pc[t] = "load"
  /\ \E found \in Exports :
       LET loaded == "open" \in found
       IN  /\ exports' = found
           /\ InitRecord(t, IF loaded THEN "driver_loaded" ELSE "driver_load_failed")
           /\ proxyError' = IF loaded THEN proxyError ELSE "load"
           /\ once' = InitDone(loaded)
           /\ Goto(t, "enter")
  /\ UNCHANGED <<call, result, line, settings, file, environment>>

-----------------------------------------------------------------------------
(* A call *)

Ready(t) == running /\ pc[t] = "enter" /\ once = Everybody

(* mutant: a driver that was not loaded is never called *)
ResolvedIfLoaded(fn) == fn \in exports /\ "open" \in exports

(* if (!d.Open), and so on for every slot *)
Resolved(fn) == fn \in exports

OwnError(fn) == fn = "get_last_error" /\ (proxyError # "none" \/ ~Resolved(fn))

(* The vendor's entry point is called and returns. *)
Forward(t) ==
  /\ Ready(t) /\ Resolved(call[t].fn) /\ ~OwnError(call[t].fn)
  /\ \E r \in Vendor!Results(call[t]) :
       Vendor!Effect(call[t], r) /\ result' = [result EXCEPT ![t] = r]
  /\ Goto(t, "record")
  /\ UNCHANGED <<call, line, shared, calls, running, returned>>

(* not_available *)
NotAvailable(t) ==
  /\ Ready(t) /\ ~Resolved(call[t].fn) /\ ~OwnError(call[t].fn)
  /\ proxyError' = IF "open" \in exports THEN "slot" ELSE "load"
  /\ result' = [result EXCEPT ![t] = Vendor!Unavailable]
  /\ Goto(t, "record")
  /\ UNCHANGED <<call, line, once, exports, settings, file, log, flushed, seq, clock, environment>>

(* PassThruGetLastError looks whether the failure was the proxy's own ...  (Its    *)
(* check of the pointer it is given is left out.)                            *)
HaveProxyError(t) ==
  /\ Ready(t) /\ OwnError(call[t].fn)
  /\ Goto(t, "tell")
  /\ UNCHANGED <<call, result, line, shared, environment>>

Returns(t, r) ==
  /\ Goto(t, "idle")
  /\ returned' = returned \cup {[thread |-> t, call |-> call[t], result |-> r]}
  /\ call' = [call EXCEPT ![t] = NoCall]
  /\ result' = [result EXCEPT ![t] = Vendor!Unavailable]
  /\ line' = [line EXCEPT ![t] = NoLine]
  /\ UNCHANGED <<calls, owing, inbox, running>>

(* ... and copies and clears its text; nothing guards it against the others. *)
TellProxyError(t) ==
  /\ running /\ pc[t] = "tell"
  /\ result' = [result EXCEPT ![t] = Vendor!Told]
  /\ proxyError' = "none" /\ Goto(t, "record")
  /\ UNCHANGED <<call, line, once, exports, settings, file, log, flushed, seq, clock, environment>>

-----------------------------------------------------------------------------
(* Its record *)

(* Most reads are empty and every error is asked for: neither is logged unless the *)
(* configuration says so.                                                    *)
Unlogged(t) ==
  \/ result[t].rc = "empty" /\ ~settings.emptyReads
  \/ call[t].fn = "get_last_error" /\ (result[t].rc = "told" \/ ~settings.lastErrors)

(* The messages of a write are rendered before the call, those of a read after it. *)
MessagesOf(t) ==
  IF call[t].fn = "write"
    THEN [i \in DOMAIN call[t].asks |-> Vendor!Message("request", Vendor!Asked(call[t])[i])]
    ELSE result[t].msgs

RecordOf(t) ==
  [ev |-> IF result[t].rc = "not_connected" THEN "proxy_error" ELSE call[t].fn,
   thread |-> t, id |-> call[t].id, channel |-> call[t].channel, msgs |-> MessagesOf(t),
   rc |-> result[t].rc, mono |-> clock, n |-> 0]

(* Rec::Rec looks at g_file without the lock; the record has no number (n) yet. *)
BeginRecord(t) ==
  /\ running /\ pc[t] = "record" /\ ~Unlogged(t) /\ file = "open"
  /\ line' = [line EXCEPT ![t] = RecordOf(t)]
  /\ clock' = clock + 1 /\ Goto(t, "line")
  /\ UNCHANGED <<call, result, once, exports, settings, proxyError, file, log, flushed, seq,
                 environment>>

NoRecord(t) ==
  /\ running /\ pc[t] = "record" /\ (Unlogged(t) \/ file # "open")
  /\ Returns(t, result[t])
  /\ UNCHANGED shared

(* mutant: the file that was open at the beginning of the record is written *)
OnceOpen(t) == TRUE

StillOpen(t) == file = "open"

(* Rec::~Rec numbers and writes the record with the lock held. *)
EndRecord(t) ==
  /\ running /\ pc[t] = "line"
  /\ IF StillOpen(t)
       THEN /\ log' = Append(log, [line[t] EXCEPT !.n = seq + 1]) /\ seq' = seq + 1
            /\ flushed' = IF settings.flushEach THEN Len(log) + 1 ELSE flushed
       ELSE UNCHANGED <<log, seq, flushed>>
  /\ Returns(t, result[t])
  /\ UNCHANGED <<once, exports, settings, proxyError, file, clock>>

-----------------------------------------------------------------------------
(* The process and the modules *)

(* logger::stop, when the DLL is unloaded: nobody calls it after that. *)
StopLog ==
  /\ running /\ file = "open" /\ file' = "closed"
  /\ log' = Append(log, [ev |-> "session_end"]) /\ flushed' = Len(log) + 1
  /\ UNCHANGED <<proxyThread, once, exports, settings, proxyError, seq, clock, environment>>

(* Nothing of the process is left but its log. *)
Reset ==
  /\ pc' = [t \in Threads |-> "idle"] /\ call' = [t \in Threads |-> NoCall]
  /\ result' = [t \in Threads |-> Vendor!Unavailable] /\ line' = [t \in Threads |-> NoLine]
  /\ calls' = 0 /\ once' = Nobody /\ exports' = NotLoaded /\ settings' = Defaults
  /\ proxyError' = "none" /\ file' = "none" /\ flushed' = 0 /\ seq' = 0 /\ clock' = 0
  /\ owing' = [c \in Channels |-> <<>>] /\ inbox' = [c \in Channels |-> <<>>]
  /\ returned' = {}

(* What has been written and not flushed may be gone, and a line cut in two. *)
Crash ==
  /\ running /\ once # Nobody /\ running' = FALSE
  /\ \E kept \in flushed .. Len(log), torn \in BOOLEAN :
       /\ torn => kept < Len(log)
       /\ log' = SubSeq(log, 1, kept) \o (IF torn THEN <<[ev |-> "torn"]>> ELSE <<>>)
  /\ Reset

(* The program is started anew, with a log of its own. *)
NewProcess ==
  /\ ~running \/ ((calls = MaxCalls \/ file = "closed") /\ \A t \in Threads : pc[t] = "idle")
  /\ running' = TRUE /\ log' = <<>> /\ Reset

(* A module answers, or asks for more time once.  (Bound: one "pending" in an inbox.) *)
Answer(c, i, kind) ==
  /\ running
  /\ kind = "pending" => ~\E k \in DOMAIN inbox[c] : inbox[c][k].kind = "pending"
  /\ UNCHANGED <<proxyThread, once, settings, proxyError, file, log, flushed, seq, clock, running,
                 returned>>
  /\ Vendor!Answer(c, i, kind)

ProxyStep(t) ==
  \/ InitOnce(t) \/ LoadConfig(t) \/ StartLog(t) \/ LoadVendorDll(t)
  \/ Forward(t) \/ NotAvailable(t) \/ HaveProxyError(t) \/ TellProxyError(t)
  \/ BeginRecord(t) \/ NoRecord(t) \/ EndRecord(t)

ProxyNext ==
  \/ \E t \in Threads : ProxyStep(t) \/ (\E new \in Vendor!Calls : Enter(t, new))
  \/ \E c \in Channels : \E i \in DOMAIN owing[c] : \E kind \in Answers[owing[c][i].ask] :
       Answer(c, i, kind)
  \/ StopLog \/ Crash \/ NewProcess

(* The threads go on, and the driver returns; nothing makes a module answer or the *)
(* program call.                                                             *)
ProxySpec == ProxyInit /\ [][ProxyNext]_proxyVars /\ \A t \in Threads : WF_proxyVars(ProxyStep(t))

-----------------------------------------------------------------------------
(* Properties *)

(* The program cannot tell the proxy from the driver: every call is performed     *)
(* exactly once by the driver, if it has the entry point, and returns the    *)
(* driver's result; initialisation and logging show in nothing.  The one     *)
(* exception is PassThruGetLastError, which may return a text of the proxy's *)
(* own, and a stale one, to any thread (Told).                               *)
ImplementsDriver == Vendor!PassThruSpec

(* The lines that record something: all but the two ends of the session, and what is *)
(* left of a line that a crash has cut.                                      *)
Records == {i \in DOMAIN log : log[i].ev \notin {"session", "session_end", "torn"}}

Numbered == \A i \in Records : log[i].n = i - 1

InTurn ==
  \A k, i \in Records : k < i /\ log[k].thread = log[i].thread =>
    log[k].id < log[i].id /\ log[k].mono < log[i].mono

Framed ==
  \A i \in DOMAIN log :
    /\ log[i].ev = "session" <=> i = 1
    /\ log[i].ev \in {"session_end", "torn"} => i = Len(log)

Covered ==
  \A r \in returned : r.call.fn # "get_last_error" /\ r.result.rc # "empty" =>
    \E i \in Records :
      /\ log[i].id = r.call.id /\ log[i].thread = r.thread
      /\ log[i].rc = r.result.rc
      /\ r.call.fn = "read" => log[i].msgs = r.result.msgs

(* The log is what happened: records are numbered in the order of the file, each   *)
(* thread's in the order of its calls, none twice, none after the end of the *)
(* session; and while it is open every call that has returned is in it with  *)
(* its result, empty reads and questions for the last error left out.  All   *)
(* but the last holds of what a crash has left as well, of which only the    *)
(* last line can be cut.                                                     *)
LogFaithful == Numbered /\ InTurn /\ Framed /\ (running /\ file = "open" => Covered)

(* Every call comes back, the ones that wait for another thread to initialise the   *)
(* proxy included, whatever that finds.                                      *)
CallsReturn == \A t \in Threads : pc[t] # "idle" ~> (pc[t] = "idle" \/ ~running)
=============================================================================
