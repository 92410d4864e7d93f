------------------------------- MODULE Backend -------------------------------
(***************************************************************************)
(* VolvoBackend (python/volvo_diag/backend.py): the dashboard's single     *)
(* owner of the adapter.  It opens one bus at a time, switches buses with  *)
(* a rollback, visits the configuration module's bus and returns, sweeps   *)
(* the modules for trouble codes and clears them.                          *)
(*                                                                         *)
(* web.serve runs one request at a time, so a request starts only when pc  *)
(* is "idle"; inside it every driver call is a step that may fail.         *)
(***************************************************************************)
EXTENDS J2534Link, Integers

CONSTANTS
  ConfigBus,     \* topo.bus
  Requested,     \* the bus ids a page may ask for; some are in no profile
  Modules,       \* Volvo modules, by diagnostic group number
  ModulesOn(_)   \* the modules wired to a bus

ASSUME BackendAssumption ==
  /\ ConfigBus \in Buses
  /\ Modules \subseteq Nat
  /\ \A b \in Buses : ModulesOn(b) \subseteq Modules

VARIABLES
  bus,       \* self._bus
  link,      \* self._link
  ecm,       \* self._ecm: the link object its VolvoEcm sends on
  pc,        \* the step the request being served is at
  errand,    \* on whose behalf switch_bus runs
  prev,      \* switch_bus's local: the bus to roll back to; None outside it
  home,      \* read_config's local: the bus to return to; None outside it
  falling,   \* switch_bus is reopening prev
  cand,      \* the link object open() is working on
  writes,    \* --enable-writes
  codes,     \* modules that hold stored trouble codes
  todo,      \* modules the running sweep has not reached
  hits,      \* of those it has: codes read (a scan), or acknowledged (a clear)
  misses,    \* of those it has: silent, or not acknowledged
  said,      \* history: what each module said in the running scan
  reply,     \* the answer to the last request, until the next one starts
  told       \* the answer to the last bus command

busVars   == <<bus, link, ecm, prev, home, falling, cand, errand>>
sweepVars == <<codes, todo, hits, misses, said>>
vars == <<linkVars, busVars, sweepVars, pc, writes, reply, told>>

PC == {"idle", "construct", "connect", "filter", "refused",
       "blocks", "dtc", "clear"}
Errand == {"command", "visit", "return"}

Unasked == [m \in Modules |-> "unasked"]

Reply == [to : {"none", "config", "dtc", "clear"}, ok : BOOLEAN,
          bus : Buses \cup {None}, dtcs : SUBSET Modules,
          cleared : SUBSET Modules, failed : SUBSET Modules]

NoReply == [to |-> "none", ok |-> TRUE, bus |-> None, dtcs |-> {},
            cleared |-> {}, failed |-> {}]

(* {"error": ...}, and nothing else *)
ErrorReply(to) == [NoReply EXCEPT !.to = to, !.ok = FALSE]

ConfigReply(b) == [NoReply EXCEPT !.to = "config", !.bus = b]

ScanReply(b, ms) == [NoReply EXCEPT !.to = "dtc", !.bus = b, !.dtcs = ms]

TypeOK ==
  /\ LinkTypeOK
  /\ bus \in Buses
  /\ link \in LinkIds \cup {None}
  /\ ecm \in LinkIds \cup {None}
  /\ pc \in PC
  /\ errand \in Errand
  /\ prev \in Buses \cup {None} /\ home \in Buses \cup {None}
  /\ falling \in BOOLEAN
  /\ cand \in LinkIds \cup {None}
  /\ writes \in BOOLEAN
  /\ codes \subseteq Modules /\ todo \subseteq Modules
  /\ hits \subseteq Modules /\ misses \subseteq Modules
  /\ said \in [Modules -> {"unasked", "silent", "clean", "codes"}]
  /\ reply \in Reply
  /\ told \in [ok : BOOLEAN, bus : Buses]

(* __init__ returned: the primary bus is open.  (When its _open raises, the   *)
(* process ends before it serves anything.)                                  *)
Init ==
  /\ bus \in Buses
  /\ link \in LinkIds
  /\ ecm = link
  /\ links = [l \in LinkIds |->
                IF l = link THEN [bus |-> bus, stage |-> "open"]
                            ELSE [bus |-> None, stage |-> "shut"]]
  /\ device = TRUE
  /\ channel = bus
  /\ pc = "idle"
  /\ errand = "command"
  /\ prev = None /\ home = None
  /\ falling = FALSE
  /\ cand = None
  /\ writes \in BOOLEAN
  /\ codes \in SUBSET Modules
  /\ todo = {} /\ hits = {} /\ misses = {} /\ said = Unasked
  /\ reply = NoReply
  /\ told = [ok |-> TRUE, bus |-> bus]

-----------------------------------------------------------------------------
(* switch_bus *)

(* Close the link, if there is one. *)
CloseCurrent ==
  IF link = None THEN UNCHANGED linkVars ELSE CloseLink(link)

(* From the call to switch_bus(b) up to its first _open(). *)
EnterSwitch(b, why) ==
  /\ prev' = bus
  /\ CloseCurrent
  /\ bus' = b
  /\ errand' = why
  /\ falling' = FALSE
  /\ pc' = "construct"
  /\ UNCHANGED <<link, ecm, cand>>

StayPut == UNCHANGED <<linkVars, bus, link, ecm, prev, falling, cand, errand>>

(* POST /bus: the id is validated before the link is touched. *)
KnownBusUnchecked(b) == TRUE   \* mutant: no validation

KnownBus(b) == b \in Buses

SwitchCommand(b) ==
  /\ pc = "idle"
  /\ IF KnownBus(b)
       THEN EnterSwitch(b, "command") /\ UNCHANGED told
       ELSE /\ told' = [ok |-> FALSE, bus |-> bus]
            /\ StayPut
            /\ UNCHANGED pc
  /\ reply' = NoReply
  /\ UNCHANGED <<home, sweepVars, writes>>

(* _open(): a new link for self._bus; PassThruOpen succeeds. *)
Construct ==
  /\ pc = "construct"
  /\ \E l \in LinkIds \ {link, ecm} :
       /\ OpenDevice(l, bus)
       /\ cand' = l
  /\ pc' = "connect"
  /\ UNCHANGED <<bus, link, ecm, prev, home, falling, errand, sweepVars,
                 writes, reply, told>>

(* The DLL does not load, or PassThruOpen is refused: nothing was acquired. *)
ConstructFails ==
  /\ pc = "construct"
  /\ pc' = "refused"
  /\ UNCHANGED <<linkVars, busVars, sweepVars, writes, reply, told>>

Connect ==
  /\ pc = "connect"
  /\ ConnectChannel(cand)
  /\ pc' = "filter"
  /\ UNCHANGED <<busVars, sweepVars, writes, reply, told>>

(* PassThruConnect or the filter is rejected. *)
OpenFails ==
  /\ pc \in {"connect", "filter"}
  /\ AbandonOpen(cand)
  /\ cand' = None
  /\ pc' = "refused"
  /\ UNCHANGED <<bus, link, ecm, prev, home, falling, errand, sweepVars,
                 writes, reply, told>>

(* mutant: the rollback reopens without restoring self._bus *)
RollBackForgetsBus ==
  /\ pc = "refused" /\ ~falling
  /\ falling' = TRUE
  /\ pc' = "construct"
  /\ UNCHANGED <<linkVars, bus, link, ecm, prev, home, cand, errand, sweepVars,
                 writes, reply, told>>

(* mutant: a rollback that fails is tried again, without end *)
RollBackRetries ==
  /\ pc = "refused" /\ ~falling
  /\ bus' = prev
  /\ pc' = "construct"
  /\ UNCHANGED <<linkVars, link, ecm, prev, home, falling, cand, errand, sweepVars,
                 writes, reply, told>>

(* The first _open() raised: reopen the bus that was working. *)
RollBack ==
  /\ pc = "refused" /\ ~falling
  /\ bus' = prev
  /\ falling' = TRUE
  /\ pc' = "construct"
  /\ UNCHANGED <<linkVars, link, ecm, prev, home, cand, errand, sweepVars,
                 writes, reply, told>>

(* Where a finished switch_bus goes back to.  A visit that failed ends        *)
(* read_config before its try, so nothing is restored; a return that failed   *)
(* is swallowed, and the answer built before it stands.                      *)
SwitchReturns(ok) ==
  /\ prev' = None
  /\ falling' = FALSE
  /\ \/ /\ errand = "command"
        /\ told' = [ok |-> ok, bus |-> bus]
        /\ pc' = "idle"
        /\ UNCHANGED <<home, reply>>
     \/ /\ errand = "visit" /\ ok
        /\ pc' = "blocks"
        /\ UNCHANGED <<home, reply, told>>
     \/ /\ errand = "visit" /\ ~ok
        /\ reply' = ErrorReply("config")
        /\ home' = None
        /\ pc' = "idle"
        /\ UNCHANGED told
     \/ /\ errand = "return"
        /\ home' = None
        /\ pc' = "idle"
        /\ UNCHANGED <<reply, told>>

(* The last step of open(): _open installs the link and its VolvoEcm, and      *)
(* switch_bus returns - or raises, when what was opened is the previous bus. *)
FilterAndInstall ==
  /\ pc = "filter"
  /\ SetFilter(cand)
  /\ link' = cand
  /\ ecm' = cand
  /\ cand' = None
  /\ SwitchReturns(~falling)
  /\ UNCHANGED <<bus, errand, sweepVars, writes>>

(* mutant: the VolvoEcm of the closed link stays *)
DropLinkOnly ==
  /\ link' = None
  /\ UNCHANGED ecm

(* The rollback failed too: no link, and no VolvoEcm to read through. *)
DropLink ==
  /\ link' = None
  /\ ecm' = None

GiveUp ==
  /\ pc = "refused" /\ falling
  /\ DropLink
  /\ SwitchReturns(FALSE)
  /\ UNCHANGED <<linkVars, bus, cand, errand, sweepVars, writes>>

-----------------------------------------------------------------------------
(* read_config *)

ReadConfig ==
  /\ pc = "idle"
  /\ \/ /\ ecm = None
        /\ reply' = ErrorReply("config")
        /\ StayPut
        /\ UNCHANGED <<home, pc>>
     \/ /\ ecm # None
        /\ reply' = NoReply
        /\ home' = bus
        /\ IF bus = ConfigBus
             THEN pc' = "blocks" /\ StayPut
             ELSE EnterSwitch(ConfigBus, "visit")
  /\ UNCHANGED <<sweepVars, writes, told>>

(* The identity block decides between an error and an answer, which is fixed   *)
(* before the finally clause switches back.                                  *)
ReadBlocks ==
  /\ pc = "blocks"
  /\ reply' \in {ErrorReply("config"), ConfigReply(bus)}
  /\ IF home # ConfigBus /\ bus = ConfigBus
       THEN EnterSwitch(home, "return") /\ UNCHANGED home
       ELSE pc' = "idle" /\ home' = None /\ StayPut
  /\ UNCHANGED <<sweepVars, writes, told>>

-----------------------------------------------------------------------------
(* Trouble codes.  A sweep goes through the modules of the current bus by     *)
(* group number, over the link as it is.                                     *)

(* Start the sweep, or answer with an error. *)
StartSweep(refused, what) ==
  /\ pc = "idle"
  /\ IF refused
       THEN /\ reply' = ErrorReply(what)
            /\ UNCHANGED <<pc, todo>>
       ELSE /\ reply' = NoReply
            /\ pc' = what
            /\ todo' = ModulesOn(bus)
  /\ UNCHANGED <<linkVars, busVars, codes, hits, misses, said, writes, told>>

UpNext(m) == m \in todo /\ \A n \in todo : m <= n

(* Only a module wired to the connected channel can answer, and only through   *)
(* an open link; any module may stay silent.                                 *)
Hears(m) == Usable(ecm) /\ m \in ModulesOn(channel)

Miss(m) == misses' = misses \cup {m} /\ UNCHANGED <<codes, hits>>

EndSweep(answer) ==
  /\ todo = {}
  /\ reply' = answer
  /\ pc' = "idle"
  /\ hits' = {} /\ misses' = {} /\ said' = Unasked
  /\ UNCHANGED <<linkVars, busVars, codes, todo, writes, told>>

ReadDtcs == StartSweep(ecm = None, "dtc")

(* mutant: the list is begun anew for every module *)
TakeLast(m) == hits' = codes \cap {m}

(* A module that holds codes is added to the list. *)
TakeCodes(m) == hits' = hits \cup (codes \cap {m})

(* read_dtcs of one module: a TransportError skips the module silently. *)
ScanModule(m) ==
  /\ pc = "dtc"
  /\ UpNext(m)
  /\ todo' = todo \ {m}
  /\ \/ /\ Hears(m)
        /\ TakeCodes(m)
        /\ said' = [said EXCEPT ![m] = IF m \in codes THEN "codes" ELSE "clean"]
        /\ UNCHANGED <<codes, misses>>
     \/ Miss(m) /\ said' = [said EXCEPT ![m] = "silent"]
  /\ UNCHANGED <<linkVars, busVars, pc, writes, reply, told>>

ScanEnds ==
  /\ pc = "dtc"
  /\ EndSweep(ScanReply(bus, hits))

(* mutant: --enable-writes is not consulted *)
ClearDtcsUngated == StartSweep(ecm = None, "clear")

(* clear_dtcs refuses without --enable-writes, then without a link. *)
ClearDtcs == StartSweep(~writes \/ ecm = None, "clear")

(* The module clears and acknowledges; or it clears and the acknowledgement   *)
(* is lost; or it does neither.                                              *)
ClearModule(m) ==
  /\ pc = "clear"
  /\ UpNext(m)
  /\ todo' = todo \ {m}
  /\ \/ /\ Hears(m)
        /\ codes' = codes \ {m}
        /\ \/ hits' = hits \cup {m} /\ UNCHANGED misses
           \/ misses' = misses \cup {m} /\ UNCHANGED hits
     \/ Miss(m)
  /\ UNCHANGED <<linkVars, busVars, said, pc, writes, reply, told>>

(* After the loop clear_dtcs resets self._miss.  VolvoBackend has no such     *)
(* attribute (the back-off moved into PollScheduler), so the statement raises *)
(* and web.serve answers with the exception; the report after it is never     *)
(* built.                                                                    *)
ClearEnds ==
  /\ pc = "clear"
  /\ EndSweep(ErrorReply("clear"))

(* The car stores a new code at any time. *)
NewFault(m) ==
  /\ m \notin codes
  /\ codes' = codes \cup {m}
  /\ UNCHANGED <<linkVars, busVars, todo, hits, misses, said, pc, writes, reply, told>>

-----------------------------------------------------------------------------
Next ==
  \/ \E b \in Requested : SwitchCommand(b)
  \/ Construct \/ ConstructFails \/ Connect \/ FilterAndInstall \/ OpenFails
  \/ RollBack \/ GiveUp
  \/ ReadConfig \/ ReadBlocks
  \/ ReadDtcs \/ ScanEnds \/ ClearDtcs \/ ClearEnds
  \/ \E m \in Modules : ScanModule(m) \/ ClearModule(m) \/ NewFault(m)

Spec == Init /\ [][Next]_vars

(* A request that was accepted runs on: serve_forever does not abandon one.   *)
Serving ==
  \/ Construct \/ ConstructFails \/ Connect \/ FilterAndInstall \/ OpenFails
  \/ RollBack \/ GiveUp \/ ReadBlocks \/ ScanEnds \/ ClearEnds
  \/ \E m \in Modules : ScanModule(m) \/ ClearModule(m)

FairSpec == Spec /\ WF_vars(Serving)
-----------------------------------------------------------------------------
(* Properties *)

Switching == pc \in {"construct", "connect", "filter", "refused"}

(* Whenever a request may read the car, the VolvoEcm sends on the backend's    *)
(* own link, that link is open, and the channel speaks the bus the backend   *)
(* says it is on; configuration blocks are read on ConfigBus only.           *)
LinkCoherent ==
  ~Switching =>
    /\ ecm = link
    /\ link # None => Usable(link) /\ links[link].bus = bus /\ channel = bus
    /\ pc = "blocks" => link # None /\ bus = ConfigBus

(* The backend never stands in its own way: when it asks the driver for the    *)
(* device - first attempt, rollback, or recovery after both failed - no      *)
(* earlier link still holds it, and a session that reports no link holds     *)
(* nothing.  At most one link object is ever past PassThruOpen.              *)
NeverBlocksItself ==
  /\ pc \in {"construct", "refused"} => ~device
  /\ pc = "idle" /\ link = None => ~device
  /\ \A k, l \in LinkIds :
       links[k].stage # "shut" /\ links[l].stage # "shut" => k = l

(* A stored code disappears only while the user has enabled writes, and only   *)
(* from a module of the backend's own bus (_bus), on which the channel is.   *)
ClearScope ==
  [][\A m \in codes \ codes' : writes /\ channel = bus /\ m \in ModulesOn(bus)]_vars

(* A scan asks every module of its bus and no other.  Its answer names the bus *)
(* and lists exactly the modules that said they hold codes, even if another  *)
(* has stored one since; one that it does not list said that it holds none,  *)
(* or was silent: the answer does not tell which.                            *)
ScanAccounted ==
  [][pc = "dtc" /\ pc' = "idle" =>
       /\ reply'.bus = channel
       /\ {m \in Modules : said[m] # "unasked"} = ModulesOn(channel)
       /\ reply'.dtcs = {m \in Modules : said[m] = "codes"}]_vars

(* Every accepted request ends, whatever the driver refuses on the way. *)
ServesAgain == pc # "idle" ~> pc = "idle"

(* switch_bus is atomic and read_config a round trip, as BusSession says.      *)
(* While a request runs, the session is still where it was when it began.    *)
SessionBus ==
  IF Switching /\ errand = "command" THEN prev
  ELSE IF Switching \/ pc = "blocks" THEN home
  ELSE bus

Session == INSTANCE BusSession WITH bus <- SessionBus, up <- link # None

ImplementsSession == Session!SessionSpec

(* "Returns {cleared:[ecu], failed:[ecu]} or {error}": a sweep that sent its   *)
(* clear requests reports what each module did.                              *)
ClearReported ==
  [][pc = "clear" /\ pc' = "idle" =>
       reply'.ok /\ reply'.cleared = hits /\ reply'.failed = misses]_vars
=============================================================================
