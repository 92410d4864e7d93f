---------------------------- MODULE BackendProofs ----------------------------
(***************************************************************************)
(* Backend for any profile: type correctness, one coherent link whenever a *)
(* request reads the car, a device that is never left claimed, clears that *)
(* stay on the shown bus, and the refinement of BusSession.                *)
(*                                                                         *)
(* LinkCoherent and NeverBlocksItself are not inductive: what a request    *)
(* finds in front of the driver depends on which object open() was working *)
(* on and on what switch_bus and read_config remember.  IInv adds both.    *)
(***************************************************************************)
EXTENDS Backend, TLAPS

(* The only link object that can hold driver resources at this step. *)
Owner ==
  IF pc \in {"connect", "filter"} THEN cand
  ELSE IF pc \in {"construct", "refused"} THEN None
  ELSE link

(* Driver resources at each step of open(), and between requests. *)
HoldInv ==
  /\ ecm = link
  /\ \A l \in LinkIds : links[l].stage # "shut" => l = Owner
  /\ pc \in {"construct", "refused"} => ~device
  /\ pc = "connect" => /\ cand \in LinkIds
                       /\ links[cand] = [bus |-> bus, stage |-> "device"]
  /\ pc = "filter" => /\ cand \in LinkIds
                      /\ links[cand] = [bus |-> bus, stage |-> "channel"]
                      /\ channel = bus
  /\ ~Switching => /\ link = None => ~device
                   /\ link # None => /\ links[link] = [bus |-> bus, stage |-> "open"]
                                     /\ channel = bus

(* What switch_bus and read_config remember while they run. *)
SwitchInv ==
  /\ Switching => prev \in Buses
  /\ Switching /\ falling => bus = prev
  /\ Switching /\ errand = "visit" => /\ link # None
                                      /\ home = prev /\ home # ConfigBus
                                      /\ ~falling => bus = ConfigBus
  /\ Switching /\ errand = "return" => /\ link # None
                                       /\ prev = ConfigBus
                                       /\ home \in Buses /\ home # ConfigBus
                                       /\ ~falling => bus = home
  /\ pc = "blocks" => /\ link # None
                      /\ bus = ConfigBus
                      /\ home \in Buses

(* A sweep partitions the modules of the bus it runs on. *)
SweepInv ==
  /\ pc \in {"dtc", "clear"} => /\ link # None
                                /\ todo \subseteq ModulesOn(bus)
                                /\ hits \cup misses \subseteq ModulesOn(bus)
                                /\ hits \cap misses = {}
                                /\ todo \cap (hits \cup misses) = {}
  /\ pc \notin {"dtc", "clear"} => hits = {} /\ misses = {}
  /\ pc = "clear" => writes
  /\ pc # "dtc" => said = Unasked
  /\ pc = "dtc" => \A m \in Modules :
       /\ said[m] = "unasked" <=> m \notin ModulesOn(bus) \ todo
       /\ said[m] = "codes" <=> m \in hits

IInv == TypeOK /\ HoldInv /\ SwitchInv /\ SweepInv

-----------------------------------------------------------------------------
(* The answers a request can give are of the type the page expects. *)
LEMMA ReplyTypes ==
  /\ NoReply \in Reply
  /\ \A what \in {"config", "dtc", "clear"} : ErrorReply(what) \in Reply
  /\ \A b \in Buses : ConfigReply(b) \in Reply
  /\ \A b \in Buses : \A ms \in SUBSET Modules : ScanReply(b, ms) \in Reply
  BY DEF NoReply, ErrorReply, ConfigReply, ScanReply, Reply

(* close() leaves nothing held, whatever the link's stage, and keeps the types. *)
LEMMA CloseReleases ==
  ASSUME NEW l \in LinkIds, LinkTypeOK, CloseLink(l),
         \A k \in LinkIds : links[k].stage # "shut" => k = l,
         links[l].stage = "shut" => ~device
  PROVE  /\ LinkTypeOK'
         /\ \A k \in LinkIds : links'[k].stage = "shut"
         /\ ~device'
<1>1. CASE links[l].stage = "shut"
  <2>1. UNCHANGED <<links, device, channel>>
    BY <1>1 DEF CloseLink, linkVars
  <2>2. QED BY <1>1, <2>1 DEF LinkTypeOK
<1>2. CASE links[l].stage # "shut"
  <2>1. /\ links' = [links EXCEPT ![l] = [bus |-> None, stage |-> "shut"]]
        /\ device' = FALSE
        /\ channel' = None
    BY <1>2 DEF CloseLink, PassThruClose
  <2>2. QED BY <2>1 DEF LinkTypeOK, Stage
<1>3. QED BY <1>1, <1>2

(* Whenever a request is about to call switch_bus, closing the current link    *)
(* gives everything back to the driver.                                      *)
LEMMA SwitchReleases ==
  ASSUME IInv, ~Switching, CloseCurrent
  PROVE  /\ LinkTypeOK'
         /\ \A k \in LinkIds : links'[k].stage = "shut"
         /\ ~device'
<1>1. CASE link = None
  BY <1>1, LinkAssumption DEF CloseCurrent, IInv, HoldInv, TypeOK, Switching, Owner,
     LinkTypeOK, linkVars
<1>2. CASE link # None
  <2>1. link \in LinkIds /\ CloseLink(link) /\ LinkTypeOK
    BY <1>2 DEF CloseCurrent, IInv, TypeOK
  <2>2. \A k \in LinkIds : links[k].stage # "shut" => k = link
    BY DEF IInv, HoldInv, Owner, Switching
  <2>3. links[link].stage # "shut"
    BY <1>2 DEF IInv, HoldInv
  <2>4. QED BY <2>1, <2>2, <2>3, CloseReleases
<1>3. QED BY <1>1, <1>2

LEMMA InvInit == Init => IInv
<1> SUFFICES ASSUME Init PROVE IInv
  OBVIOUS
<1> USE LinkAssumption, BackendAssumption DEF Init
<1>1. TypeOK
  BY ReplyTypes DEF TypeOK, LinkTypeOK, Stage, PC, Errand, Unasked
<1>2. HoldInv
  BY DEF HoldInv, Owner, Switching
<1>3. SwitchInv /\ SweepInv
  BY DEF SwitchInv, SweepInv, Switching
<1>4. QED BY <1>1, <1>2, <1>3 DEF IInv

-----------------------------------------------------------------------------
(* One lemma for each kind of step. *)

(* A request that starts a switch: the old link is given back, and what to     *)
(* return to is remembered.                                                  *)
LEMMA EnterSwitchStep ==
  ASSUME IInv, ~Switching, pc \notin {"dtc", "clear"},
         NEW b \in Buses, NEW why \in Errand, EnterSwitch(b, why),
         UNCHANGED <<sweepVars, writes>>,
         reply' \in Reply, told' \in [ok : BOOLEAN, bus : Buses],
         home' \in Buses \cup {None},
         why # "command" => link # None,
         why = "visit" => home' = bus /\ bus # ConfigBus /\ b = ConfigBus,
         why = "return" => home' = b /\ bus = ConfigBus /\ b # ConfigBus
  PROVE  IInv'
<1> USE DEF EnterSwitch
<1>1. CloseCurrent
  OBVIOUS
<1>2. /\ LinkTypeOK'
      /\ \A k \in LinkIds : links'[k].stage = "shut"
      /\ ~device'
  BY <1>1, SwitchReleases
<1>3. TypeOK'
  BY <1>2 DEF IInv, TypeOK, PC, sweepVars
<1>4. HoldInv'
  BY <1>2 DEF IInv, HoldInv, Owner, Switching
<1>5. SwitchInv'
  BY BackendAssumption DEF IInv, TypeOK, SwitchInv, Switching
<1>6. SweepInv'
  BY DEF IInv, SweepInv, sweepVars
<1>7. QED BY <1>3, <1>4, <1>5, <1>6 DEF IInv

(* A step that changes only what requests answer leaves the link alone. *)
LEMMA StayStep ==
  ASSUME IInv, UNCHANGED <<linkVars, bus, link, ecm, prev, falling, cand, errand, writes>>,
         UNCHANGED <<codes, todo, hits, misses, said>>,
         ~Switching, pc \notin {"dtc", "clear"}, pc' \in {"idle", "blocks"},
         reply' \in Reply, told' \in [ok : BOOLEAN, bus : Buses],
         home' \in Buses \cup {None},
         pc' = "blocks" => link # None /\ bus = ConfigBus /\ home' \in Buses
  PROVE  IInv'
<1>1. TypeOK'
  BY DEF IInv, TypeOK, LinkTypeOK, PC, linkVars
<1>2. HoldInv'
  BY DEF IInv, HoldInv, Owner, Switching, Usable, linkVars
<1>3. SwitchInv'
  BY DEF IInv, SwitchInv, Switching, linkVars
<1>4. SweepInv'
  BY DEF IInv, SweepInv
<1>5. QED BY <1>1, <1>2, <1>3, <1>4 DEF IInv

LEMMA SwitchCommandStep ==
  ASSUME IInv, NEW b \in Requested, SwitchCommand(b)
  PROVE  IInv'
<1> USE DEF SwitchCommand
<1>1. /\ ~Switching
      /\ pc \notin {"dtc", "clear"}
      /\ reply' \in Reply
  BY ReplyTypes DEF Switching
<1>2. home' \in Buses \cup {None}
  BY DEF IInv, TypeOK
<1>3. CASE KnownBus(b)
  <2>1. b \in Buses /\ EnterSwitch(b, "command") /\ told' = told
    BY <1>3 DEF KnownBus
  <2>2. told' \in [ok : BOOLEAN, bus : Buses]
    BY <2>1 DEF IInv, TypeOK
  <2>3. UNCHANGED <<sweepVars, writes>>
    OBVIOUS
  <2>4. QED BY <1>1, <1>2, <2>1, <2>2, <2>3, EnterSwitchStep DEF Errand
<1>4. CASE ~KnownBus(b)
  <2>1. told' = [ok |-> FALSE, bus |-> bus] /\ StayPut /\ pc' = pc
    BY <1>4
  <2>2. told' \in [ok : BOOLEAN, bus : Buses]
    BY <2>1 DEF IInv, TypeOK
  <2>3. QED BY <1>1, <1>2, <2>1, <2>2, StayStep DEF StayPut, sweepVars
<1>5. QED BY <1>3, <1>4

LEMMA ReadConfigStep ==
  ASSUME IInv, ReadConfig
  PROVE  IInv'
<1> USE DEF ReadConfig
<1>1. /\ ~Switching
      /\ pc \notin {"dtc", "clear"}
      /\ reply' \in Reply
      /\ told' \in [ok : BOOLEAN, bus : Buses]
      /\ ecm = link
  BY ReplyTypes DEF Switching, IInv, TypeOK, HoldInv
<1>2. home' \in Buses \cup {None}
  BY DEF IInv, TypeOK
<1>3. CASE ecm # None /\ bus # ConfigBus
  <2>1. EnterSwitch(ConfigBus, "visit") /\ home' = bus
    BY <1>3
  <2>2. QED BY <1>1, <1>2, <1>3, <2>1, EnterSwitchStep, BackendAssumption DEF Errand
<1>4. CASE ~(ecm # None /\ bus # ConfigBus)
  <2>1. /\ StayPut
        /\ pc' \in {"idle", "blocks"}
        /\ pc' = "blocks" => link # None /\ bus = ConfigBus /\ home' \in Buses
    BY <1>1, <1>4 DEF IInv, TypeOK
  <2>2. QED BY <1>1, <1>2, <2>1, StayStep DEF StayPut, sweepVars
<1>5. QED BY <1>3, <1>4

LEMMA ReadBlocksStep ==
  ASSUME IInv, ReadBlocks
  PROVE  IInv'
<1> USE DEF ReadBlocks
<1>1. /\ ~Switching
      /\ pc \notin {"dtc", "clear"}
      /\ told' \in [ok : BOOLEAN, bus : Buses]
      /\ link # None /\ bus = ConfigBus /\ home \in Buses
  BY DEF Switching, IInv, TypeOK, SwitchInv
<1>2. reply' \in Reply
  BY ReplyTypes, <1>1, BackendAssumption
<1>3. CASE home # ConfigBus
  <2>1. EnterSwitch(home, "return") /\ home' = home
    BY <1>1, <1>3
  <2>2. QED BY <1>1, <1>2, <1>3, <2>1, EnterSwitchStep DEF Errand
<1>4. CASE home = ConfigBus
  <2>1. StayPut /\ pc' = "idle" /\ home' = None
    BY <1>1, <1>4
  <2>2. QED BY <1>1, <1>2, <2>1, StayStep DEF StayPut, sweepVars
<1>5. QED BY <1>3, <1>4

LEMMA ConstructStep ==
  ASSUME IInv, Construct
  PROVE  IInv'
<1> USE DEF Construct
<1>1. PICK l \in LinkIds \ {link, ecm} : OpenDevice(l, bus) /\ cand' = l
  OBVIOUS
<1>2. /\ ~device /\ device' = TRUE /\ channel' = channel
      /\ links' = [links EXCEPT ![l] = [bus |-> bus, stage |-> "device"]]
  BY <1>1 DEF OpenDevice, PassThruOpen
<1>3. TypeOK'
  BY <1>1, <1>2 DEF IInv, TypeOK, LinkTypeOK, Stage, PC, sweepVars
<1>4. HoldInv'
  BY <1>1, <1>2, LinkAssumption DEF IInv, TypeOK, LinkTypeOK, HoldInv, Owner, Switching
<1>5. SwitchInv' /\ SweepInv'
  BY DEF IInv, SwitchInv, SweepInv, Switching, sweepVars
<1>6. QED BY <1>3, <1>4, <1>5 DEF IInv

LEMMA ConstructFailsStep ==
  ASSUME IInv, ConstructFails
  PROVE  IInv'
<1> USE DEF ConstructFails, busVars, sweepVars, linkVars
<1>1. TypeOK'
  BY DEF IInv, TypeOK, LinkTypeOK, PC
<1>2. HoldInv'
  BY DEF IInv, HoldInv, Owner, Switching
<1>3. SwitchInv' /\ SweepInv'
  BY DEF IInv, SwitchInv, SweepInv, Switching
<1>4. QED BY <1>1, <1>2, <1>3 DEF IInv

LEMMA ConnectStep ==
  ASSUME IInv, Connect
  PROVE  IInv'
<1> USE DEF Connect, busVars, sweepVars
<1>1. /\ cand \in LinkIds
      /\ links[cand] = [bus |-> bus, stage |-> "device"]
  BY DEF IInv, HoldInv
<1>2. /\ channel' = bus /\ device' = device
      /\ links' = [links EXCEPT ![cand].stage = "channel"]
  BY <1>1 DEF ConnectChannel, PassThruConnect
<1>3. TypeOK'
  BY <1>1, <1>2 DEF IInv, TypeOK, LinkTypeOK, Stage, PC
<1>4. HoldInv'
  BY <1>1, <1>2 DEF IInv, TypeOK, LinkTypeOK, HoldInv, Owner, Switching
<1>5. SwitchInv' /\ SweepInv'
  BY DEF IInv, SwitchInv, SweepInv, Switching
<1>6. QED BY <1>3, <1>4, <1>5 DEF IInv

LEMMA OpenFailsStep ==
  ASSUME IInv, OpenFails
  PROVE  IInv'
<1> USE DEF OpenFails
<1>1. /\ cand \in LinkIds
      /\ links[cand].stage # "shut"
      /\ \A k \in LinkIds : links[k].stage # "shut" => k = cand
      /\ LinkTypeOK
      /\ CloseLink(cand)
  BY DEF IInv, HoldInv, TypeOK, Owner, AbandonOpen
<1>2. /\ LinkTypeOK'
      /\ \A k \in LinkIds : links'[k].stage = "shut"
      /\ ~device'
  BY <1>1, CloseReleases
<1>3. TypeOK'
  BY <1>2 DEF IInv, TypeOK, PC, sweepVars
<1>4. HoldInv'
  BY <1>2 DEF IInv, HoldInv, Owner, Switching
<1>5. SwitchInv' /\ SweepInv'
  BY DEF IInv, SwitchInv, SweepInv, Switching, sweepVars
<1>6. QED BY <1>3, <1>4, <1>5 DEF IInv

LEMMA RollBackStep ==
  ASSUME IInv, RollBack
  PROVE  IInv'
<1> USE DEF RollBack, sweepVars, linkVars
<1>1. TypeOK'
  BY DEF IInv, TypeOK, LinkTypeOK, PC, SwitchInv, Switching
<1>2. HoldInv'
  BY DEF IInv, HoldInv, Owner, Switching
<1>3. SwitchInv' /\ SweepInv'
  BY DEF IInv, SwitchInv, SweepInv, Switching
<1>4. QED BY <1>1, <1>2, <1>3 DEF IInv

(* switch_bus returning or raising, whatever called it. *)
LEMMA ReturnTypes ==
  ASSUME IInv, Switching, NEW ok \in BOOLEAN, SwitchReturns(ok)
  PROVE  /\ prev' \in Buses \cup {None}
         /\ falling' \in BOOLEAN
         /\ home' \in Buses \cup {None}
         /\ pc' \in {"idle", "blocks"}
         /\ reply' \in Reply
         /\ told' \in [ok : BOOLEAN, bus : Buses]
         /\ pc' = "blocks" => errand = "visit" /\ ok /\ home' = home
<1> USE DEF SwitchReturns
<1>1. prev' \in Buses \cup {None} /\ falling' \in BOOLEAN
  OBVIOUS
<1>2. home' \in Buses \cup {None} /\ pc' \in {"idle", "blocks"}
  BY DEF IInv, TypeOK
<1>3. reply' \in Reply
  BY ReplyTypes DEF IInv, TypeOK
<1>4. told' \in [ok : BOOLEAN, bus : Buses]
  BY DEF IInv, TypeOK
<1>5. pc' = "blocks" => errand = "visit" /\ ok /\ home' = home
  OBVIOUS
<1>6. QED BY <1>1, <1>2, <1>3, <1>4, <1>5

LEMMA FilterAndInstallStep ==
  ASSUME IInv, FilterAndInstall
  PROVE  IInv'
<1> USE DEF FilterAndInstall
<1>1. /\ cand \in LinkIds
      /\ links[cand] = [bus |-> bus, stage |-> "channel"]
      /\ channel = bus
      /\ Switching
      /\ falling \in BOOLEAN
  BY DEF IInv, HoldInv, TypeOK, Switching
<1>2. /\ channel' = channel /\ device' = device
      /\ links' = [links EXCEPT ![cand].stage = "open"]
  BY DEF SetFilter
<1>3. /\ prev' \in Buses \cup {None}
      /\ falling' \in BOOLEAN
      /\ home' \in Buses \cup {None}
      /\ pc' \in {"idle", "blocks"}
      /\ reply' \in Reply
      /\ told' \in [ok : BOOLEAN, bus : Buses]
      /\ pc' = "blocks" => errand = "visit" /\ ~falling /\ home' = home
  BY <1>1, ReturnTypes
<1>4. TypeOK'
  BY <1>1, <1>2, <1>3 DEF IInv, TypeOK, LinkTypeOK, Stage, PC, sweepVars
<1>5. HoldInv'
  BY <1>1, <1>2, <1>3, LinkAssumption
  DEF IInv, TypeOK, LinkTypeOK, HoldInv, Owner, Switching
<1>6. SwitchInv'
  BY <1>1, <1>3, LinkAssumption DEF IInv, SwitchInv, Switching
<1>7. SweepInv'
  BY <1>1, <1>3 DEF IInv, SweepInv, Switching, sweepVars
<1>8. QED BY <1>4, <1>5, <1>6, <1>7 DEF IInv

LEMMA GiveUpStep ==
  ASSUME IInv, GiveUp
  PROVE  IInv'
<1> USE DEF GiveUp, DropLink, linkVars
<1>1. Switching
  BY DEF Switching
<1>2. /\ prev' \in Buses \cup {None}
      /\ falling' \in BOOLEAN
      /\ home' \in Buses \cup {None}
      /\ pc' = "idle"
      /\ reply' \in Reply
      /\ told' \in [ok : BOOLEAN, bus : Buses]
  BY <1>1, ReturnTypes
<1>3. TypeOK'
  BY <1>2 DEF IInv, TypeOK, LinkTypeOK, PC, sweepVars
<1>4. HoldInv'
  BY <1>2, LinkAssumption DEF IInv, HoldInv, Owner, Switching
<1>5. SwitchInv' /\ SweepInv'
  BY <1>1, <1>2 DEF IInv, SwitchInv, SweepInv, Switching, sweepVars
<1>6. QED BY <1>3, <1>4, <1>5 DEF IInv

(* Sweeps move modules from todo to hits or misses and touch no link. *)
LEMMA SweepStep ==
  ASSUME IInv, UNCHANGED <<linkVars, busVars, writes, told>>,
         pc \in {"idle", "dtc", "clear"}, pc' \in {"idle", "dtc", "clear"},
         reply' \in Reply, codes' \subseteq Modules,
         pc' # "idle" => /\ link # None
                         /\ todo' \subseteq ModulesOn(bus)
                         /\ hits' \cup misses' \subseteq ModulesOn(bus)
                         /\ hits' \cap misses' = {}
                         /\ todo' \cap (hits' \cup misses') = {},
         pc' = "idle" => hits' = {} /\ misses' = {} /\ todo' \subseteq todo,
         pc' = "clear" => writes,
         said' \in [Modules -> {"unasked", "silent", "clean", "codes"}],
         pc' # "dtc" => said' = Unasked,
         pc' = "dtc" => \A m \in Modules :
           /\ said'[m] = "unasked" <=> m \notin ModulesOn(bus) \ todo'
           /\ said'[m] = "codes" <=> m \in hits'
  PROVE  IInv'
<1>1. /\ todo' \subseteq Modules
      /\ hits' \subseteq Modules
      /\ misses' \subseteq Modules
  BY BackendAssumption DEF IInv, TypeOK
<1>2. TypeOK'
  BY <1>1 DEF IInv, TypeOK, LinkTypeOK, PC, linkVars, busVars
<1>3. HoldInv'
  BY DEF IInv, HoldInv, Owner, Switching, linkVars, busVars
<1>4. SwitchInv'
  BY DEF IInv, SwitchInv, Switching, busVars
<1>5. SweepInv'
  <2>1. bus' = bus /\ link' = link /\ writes' = writes
    BY DEF busVars
  <2>2. Unasked' = Unasked
    BY DEF Unasked
  <2>3. QED BY <2>1, <2>2 DEF IInv, SweepInv
<1>6. QED BY <1>2, <1>3, <1>4, <1>5 DEF IInv

LEMMA StartSweepStep ==
  ASSUME IInv, NEW refused, NEW what \in {"dtc", "clear"},
         StartSweep(refused, what), ~refused => ecm # None,
         what = "clear" /\ ~refused => writes
  PROVE  IInv'
<1> USE DEF StartSweep
<1>1. reply' \in Reply
  BY ReplyTypes
<1>2. /\ hits = {} /\ misses = {} /\ ecm = link /\ codes \subseteq Modules
      /\ said' = Unasked /\ said' \in [Modules -> {"unasked", "silent", "clean", "codes"}]
      /\ \A m \in Modules : said'[m] = "unasked"
  BY DEF IInv, SweepInv, HoldInv, TypeOK, Unasked
<1>3. CASE refused
  BY <1>1, <1>2, <1>3, SweepStep
<1>4. CASE ~refused
  BY <1>1, <1>2, <1>4, SweepStep
<1>5. QED BY <1>3, <1>4

LEMMA ModuleStep ==
  ASSUME IInv, NEW m \in Modules, ScanModule(m) \/ ClearModule(m)
  PROVE  IInv'
<1>1. /\ pc \in {"dtc", "clear"} /\ pc' = pc
      /\ m \in todo
      /\ todo' = todo \ {m}
      /\ UNCHANGED <<linkVars, busVars, writes, reply, told>>
      /\ codes' \subseteq codes
      /\ \/ hits' \subseteq hits \cup {m} /\ misses' = misses
         \/ misses' = misses \cup {m} /\ hits' = hits
  BY DEF ScanModule, TakeCodes, ClearModule, UpNext, Miss
<1>2. /\ link # None
      /\ todo \subseteq ModulesOn(bus)
      /\ hits \cup misses \subseteq ModulesOn(bus)
      /\ hits \cap misses = {}
      /\ todo \cap (hits \cup misses) = {}
      /\ pc = "clear" => writes
      /\ reply \in Reply /\ codes \subseteq Modules
  BY <1>1 DEF IInv, SweepInv, TypeOK
<1>3. /\ todo' \subseteq ModulesOn(bus)
      /\ hits' \cup misses' \subseteq ModulesOn(bus)
      /\ hits' \cap misses' = {}
      /\ todo' \cap (hits' \cup misses') = {}
  BY <1>1, <1>2
<1>4. said' \in [Modules -> {"unasked", "silent", "clean", "codes"}]
  BY DEF ScanModule, ClearModule, IInv, TypeOK
<1>5. CASE ScanModule(m)
  <2>1. /\ pc = "dtc" /\ pc' = "dtc"
        /\ \/ /\ hits' = hits \cup (codes \cap {m})
              /\ said' = [said EXCEPT ![m] = IF m \in codes THEN "codes" ELSE "clean"]
           \/ hits' = hits /\ said' = [said EXCEPT ![m] = "silent"]
    BY <1>5 DEF ScanModule, TakeCodes, Miss
  <2>2. m \notin hits /\ m \in ModulesOn(bus)
    BY <1>1, <1>2
  <2>3. ASSUME NEW k \in Modules
        PROVE  /\ said'[k] = "unasked" <=> k \notin ModulesOn(bus) \ todo'
               /\ said'[k] = "codes" <=> k \in hits'
    <3>1. /\ said[k] = "unasked" <=> k \notin ModulesOn(bus) \ todo
          /\ said[k] = "codes" <=> k \in hits
      BY <2>1 DEF IInv, SweepInv
    <3>2. said \in [Modules -> {"unasked", "silent", "clean", "codes"}]
      BY DEF IInv, TypeOK
    <3>3. CASE k = m
      BY <1>1, <2>1, <2>2, <3>2, <3>3
    <3>4. CASE k # m
      BY <1>1, <2>1, <3>1, <3>2, <3>4
    <3>5. QED BY <3>3, <3>4
  <2>4. QED BY <1>1, <1>2, <1>3, <1>4, <2>1, <2>3, SweepStep
<1>6. CASE ClearModule(m)
  <2>1. pc = "clear" /\ said' = said /\ said = Unasked
    BY <1>6 DEF ClearModule, IInv, SweepInv
  <2>2. QED BY <1>1, <1>2, <1>3, <1>4, <2>1, SweepStep
<1>7. QED BY <1>5, <1>6

LEMMA SweepEndsStep ==
  ASSUME IInv, ScanEnds \/ ClearEnds
  PROVE  IInv'
<1>1. /\ pc \in {"dtc", "clear"} /\ pc' = "idle"
      /\ reply' \in {ScanReply(bus, hits), ErrorReply("clear")}
      /\ hits' = {} /\ misses' = {} /\ todo' = todo /\ codes' = codes
      /\ said' = Unasked
      /\ UNCHANGED <<linkVars, busVars, writes, told>>
  BY DEF ScanEnds, ClearEnds, EndSweep
<1>2. reply' \in Reply /\ codes' \subseteq Modules
  BY <1>1, ReplyTypes DEF IInv, TypeOK
<1>3. said' \in [Modules -> {"unasked", "silent", "clean", "codes"}]
  BY <1>1 DEF Unasked
<1>4. QED BY <1>1, <1>2, <1>3, SweepStep

LEMMA NewFaultStep ==
  ASSUME IInv, NEW m \in Modules, NewFault(m)
  PROVE  IInv'
<1> USE DEF NewFault, linkVars, busVars
<1>1. TypeOK'
  BY DEF IInv, TypeOK, LinkTypeOK
<1>2. HoldInv'
  BY DEF IInv, HoldInv, Owner, Switching
<1>3. SwitchInv' /\ SweepInv'
  BY DEF IInv, SwitchInv, SweepInv, Switching
<1>4. QED BY <1>1, <1>2, <1>3 DEF IInv

LEMMA StutterStep ==
  ASSUME IInv, UNCHANGED vars
  PROVE  IInv'
<1> USE DEF vars, linkVars, busVars, sweepVars
<1>1. TypeOK'
  BY DEF IInv, TypeOK, LinkTypeOK
<1>2. HoldInv'
  BY DEF IInv, HoldInv, Owner, Switching
<1>3. SwitchInv' /\ SweepInv'
  BY DEF IInv, SwitchInv, SweepInv, Switching
<1>4. QED BY <1>1, <1>2, <1>3 DEF IInv

LEMMA InvStep == IInv /\ [Next]_vars => IInv'
<1> SUFFICES ASSUME IInv, [Next]_vars PROVE IInv'
  OBVIOUS
<1>1. ASSUME NEW b \in Requested, SwitchCommand(b) PROVE IInv'
  BY <1>1, SwitchCommandStep
<1>2. CASE Construct
  BY <1>2, ConstructStep
<1>3. CASE ConstructFails
  BY <1>3, ConstructFailsStep
<1>4. CASE Connect
  BY <1>4, ConnectStep
<1>5. CASE FilterAndInstall
  BY <1>5, FilterAndInstallStep
<1>6. CASE OpenFails
  BY <1>6, OpenFailsStep
<1>7. CASE RollBack
  BY <1>7, RollBackStep
<1>8. CASE GiveUp
  BY <1>8, GiveUpStep
<1>9. CASE ReadConfig
  BY <1>9, ReadConfigStep
<1>10. CASE ReadBlocks
  BY <1>10, ReadBlocksStep
<1>11. CASE ReadDtcs
  BY <1>11, StartSweepStep DEF ReadDtcs
<1>12. CASE ClearDtcs
  BY <1>12, StartSweepStep DEF ClearDtcs
<1>13. CASE ScanEnds \/ ClearEnds
  BY <1>13, SweepEndsStep
<1>14. ASSUME NEW m \in Modules, ScanModule(m) \/ ClearModule(m) PROVE IInv'
  BY <1>14, ModuleStep
<1>15. ASSUME NEW m \in Modules, NewFault(m) PROVE IInv'
  BY <1>15, NewFaultStep
<1>16. CASE UNCHANGED vars
  BY <1>16, StutterStep
<1>17. QED
  BY <1>1, <1>2, <1>3, <1>4, <1>5, <1>6, <1>7, <1>8, <1>9, <1>10, <1>11, <1>12,
     <1>13, <1>14, <1>15, <1>16 DEF Next

THEOREM Invariance == Spec => []IInv
  BY InvInit, InvStep, PTL DEF Spec

-----------------------------------------------------------------------------
(* Every reachable state is well typed (VolvoBackend and its link). *)
THEOREM TypeCorrect == Spec => []TypeOK
<1>1. IInv => TypeOK
  BY DEF IInv
<1>2. QED BY <1>1, Invariance, PTL

(* Reads go out on the backend's own open link, to the bus the backend names   *)
(* (switch_bus, read_config, read_dtcs, clear_dtcs).                         *)
THEOREM LinkCoherence == Spec => []LinkCoherent
<1>1. IInv => LinkCoherent
  BY DEF IInv, HoldInv, SwitchInv, LinkCoherent, Usable
<1>2. QED BY <1>1, Invariance, PTL

(* No failed open, rollback or lost link leaves the driver's device claimed    *)
(* (J2534CanLink.open and close).                                            *)
THEOREM DeviceDiscipline == Spec => []NeverBlocksItself
<1>1. IInv => NeverBlocksItself
  BY DEF IInv, HoldInv, NeverBlocksItself, Owner, Switching
<1>2. QED BY <1>1, Invariance, PTL

(* Codes are cleared only with --enable-writes and only on the shown bus       *)
(* (clear_dtcs).                                                             *)
THEOREM ClearsStayOnTheBus == Spec => ClearScope
<1> DEFINE Scoped == \A m \in codes \ codes' :
                       writes /\ channel = bus /\ m \in ModulesOn(bus)
<1>1. ASSUME IInv, [Next]_vars PROVE [Scoped]_vars
  <2>1. CASE \E m \in Modules : ClearModule(m)
    <3>1. PICK m \in Modules : ClearModule(m)
      BY <2>1
    <3>2. codes \ codes' \subseteq {m}
      BY <3>1 DEF ClearModule, Miss
    <3>3. /\ pc = "clear" /\ m \in todo
      BY <3>1 DEF ClearModule, UpNext
    <3>4. /\ writes /\ link # None /\ m \in ModulesOn(bus)
      BY <1>1, <3>3 DEF IInv, SweepInv
    <3>5. channel = bus
      BY <1>1, <3>3, <3>4 DEF IInv, HoldInv, Switching
    <3>6. QED BY <3>2, <3>4, <3>5
  <2>2. CASE ~ \E m \in Modules : ClearModule(m)
    <3>1. codes \subseteq codes'
      BY <1>1, <2>2 DEF Next, vars, sweepVars, SwitchCommand, Construct,
         ConstructFails, Connect, FilterAndInstall, OpenFails, RollBack, GiveUp,
         ReadConfig, ReadBlocks, ReadDtcs, ClearDtcs, StartSweep, ScanEnds,
         ClearEnds, EndSweep, ScanModule, Miss, NewFault
    <3>2. QED BY <3>1
  <2>3. QED BY <2>1, <2>2
<1>2. QED BY <1>1, Invariance, PTL DEF Spec, ClearScope

(* A scan asks the modules of its bus, all of them, and its answer lists those that *)
(* said they hold codes (read_dtcs).                                         *)
THEOREM ScansAreAccounted == Spec => ScanAccounted
<1> DEFINE Accounted ==
      pc = "dtc" /\ pc' = "idle" =>
        /\ reply'.bus = channel
        /\ {m \in Modules : said[m] # "unasked"} = ModulesOn(channel)
        /\ reply'.dtcs = {m \in Modules : said[m] = "codes"}
<1>1. ASSUME IInv, [Next]_vars PROVE [Accounted]_vars
  <2> SUFFICES ASSUME pc = "dtc", pc' = "idle" PROVE Accounted
    OBVIOUS
  <2>1. reply' = ScanReply(bus, hits) /\ todo = {}
    BY <1>1 DEF Next, vars, SwitchCommand, Construct, ConstructFails, Connect,
       FilterAndInstall, OpenFails, RollBack, GiveUp, ReadConfig, ReadBlocks,
       ReadDtcs, ClearDtcs, StartSweep, ScanEnds, ClearEnds, EndSweep, ScanModule,
       ClearModule, NewFault
  <2>2. reply'.bus = bus /\ reply'.dtcs = hits
    BY <2>1 DEF ScanReply, NoReply
  <2>3. channel = bus /\ bus \in Buses
    BY <1>1 DEF IInv, TypeOK, HoldInv, SweepInv, Switching
  <2>4. ModulesOn(bus) \subseteq Modules /\ hits \subseteq Modules
    BY <1>1, <2>3, BackendAssumption DEF IInv, TypeOK
  <2>5. \A m \in Modules : /\ said[m] = "unasked" <=> m \notin ModulesOn(bus)
                           /\ said[m] = "codes" <=> m \in hits
    BY <1>1, <2>1 DEF IInv, SweepInv
  <2>6. {m \in Modules : said[m] # "unasked"} = ModulesOn(bus)
    BY <2>4, <2>5
  <2>7. {m \in Modules : said[m] = "codes"} = hits
    BY <2>4, <2>5
  <2>8. QED BY <2>2, <2>3, <2>6, <2>7
<1>2. QED BY <1>1, Invariance, PTL DEF Spec, ScanAccounted

-----------------------------------------------------------------------------
(* VolvoBackend implements BusSession: a request takes one session step, when  *)
(* it answers; everything before is a stutter.                               *)

(* The driver calls inside switch_bus, and its rollback. *)
LEMMA SwitchingStutters ==
  ASSUME IInv,
         \/ Construct \/ ConstructFails \/ Connect \/ OpenFails \/ RollBack
  PROVE  UNCHANGED Session!session
<1>1. /\ Switching /\ Switching'
      /\ UNCHANGED <<link, told, errand, prev, home>>
  BY DEF Construct, ConstructFails, Connect, OpenFails, RollBack, Switching, busVars
<1>2. errand \in Errand
  BY DEF IInv, TypeOK
<1>3. SessionBus' = SessionBus
  BY <1>1, <1>2 DEF SessionBus, Errand
<1>4. QED BY <1>1, <1>3 DEF Session!session

LEMMA SwitchEndRefines ==
  ASSUME IInv, Switching, NEW ok \in BOOLEAN, SwitchReturns(ok),
         errand' = errand, bus' = bus,
         ok => ~falling /\ link' # None,
         ~ok => bus = prev
  PROVE  [Session!SessionNext]_(Session!session)
<1> USE DEF SwitchReturns
<1>1. /\ prev \in Buses /\ bus \in Buses /\ errand \in Errand
      /\ errand = "visit" =>
           link # None /\ home = prev /\ home # ConfigBus /\ (~falling => bus = ConfigBus)
      /\ errand = "return" =>
           link # None /\ prev = ConfigBus /\ home \in Buses /\ home # ConfigBus
           /\ (~falling => bus = home)
  BY DEF IInv, TypeOK, SwitchInv
<1>2. CASE errand = "command"
  <2>1. SessionBus = prev /\ SessionBus' = bus /\ told' = [ok |-> ok, bus |-> bus]
    BY <1>2 DEF SessionBus, Switching
  <2>2. CASE ok
    <3>1. Session!Switched(bus)
      BY <1>1, <2>1, <2>2 DEF Session!Switched
    <3>2. QED BY <1>1, <3>1 DEF Session!SessionNext
  <2>3. CASE ~ok
    <3>1. Session!SwitchRefused
      BY <2>1, <2>3 DEF Session!SwitchRefused
    <3>2. QED BY <3>1 DEF Session!SessionNext
  <2>4. QED BY <2>2, <2>3
<1>3. CASE errand = "visit"
  <2>1. SessionBus = home /\ SessionBus' = home /\ told' = told
    BY <1>1, <1>3 DEF SessionBus, Switching
  <2>2. CASE link' # None
    BY <1>1, <1>3, <2>1, <2>2 DEF Session!session
  <2>3. CASE link' = None
    <3>1. Session!ConfigRefused
      BY <1>1, <1>3, <2>1, <2>3 DEF Session!ConfigRefused
    <3>2. QED BY <3>1 DEF Session!SessionNext
  <2>4. QED BY <2>2, <2>3
<1>4. CASE errand = "return"
  <2>1. SessionBus = home /\ SessionBus' = bus /\ told' = told
    BY <1>4 DEF SessionBus, Switching
  <2>2. CASE ok
    BY <1>1, <1>4, <2>1, <2>2 DEF Session!session
  <2>3. CASE ~ok
    <3>1. Session!ConfigStranded
      BY <1>1, <1>4, <2>1, <2>3 DEF Session!ConfigStranded
    <3>2. QED BY <3>1 DEF Session!SessionNext
  <2>4. QED BY <2>2, <2>3
<1>5. QED BY <1>1, <1>2, <1>3, <1>4 DEF Errand

(* Requests that begin, and those that touch no bus, are stutters - but for a  *)
(* bus id that is in no profile, which is answered at once.                  *)
LEMMA RequestRefines ==
  ASSUME IInv, \/ \E b \in Requested : SwitchCommand(b)
               \/ ReadConfig
               \/ ReadBlocks
  PROVE  [Session!SessionNext]_(Session!session)
<1>1. /\ link = ecm /\ bus \in Buses
      /\ pc = "blocks" => bus = ConfigBus /\ home \in Buses /\ link # None
  BY DEF IInv, HoldInv, SwitchInv, TypeOK
<1>2. CASE \E b \in Requested : SwitchCommand(b)
  <2>1. PICK b \in Requested : SwitchCommand(b)
    BY <1>2
  <2>2. CASE KnownBus(b)
    <3>1. SessionBus = bus /\ SessionBus' = bus /\ UNCHANGED <<link, told>>
      BY <2>1, <2>2 DEF SwitchCommand, EnterSwitch, SessionBus, Switching
    <3>2. QED BY <3>1 DEF Session!session
  <2>3. CASE ~KnownBus(b)
    <3>1. /\ SessionBus = bus /\ SessionBus' = bus /\ UNCHANGED link
          /\ told' = [ok |-> FALSE, bus |-> bus]
      BY <2>1, <2>3 DEF SwitchCommand, StayPut, SessionBus, Switching
    <3>2. Session!SwitchInvalid
      BY <3>1 DEF Session!SwitchInvalid
    <3>3. QED BY <3>2 DEF Session!SessionNext
  <2>4. QED BY <2>2, <2>3
<1>3. CASE ReadConfig
  <2>1. SessionBus = bus /\ SessionBus' = bus /\ UNCHANGED <<link, told>>
    BY <1>3 DEF ReadConfig, EnterSwitch, StayPut, SessionBus, Switching
  <2>2. QED BY <2>1 DEF Session!session
<1>4. CASE ReadBlocks
  <2>1. SessionBus = home /\ SessionBus' = home /\ UNCHANGED <<link, told>>
    BY <1>1, <1>4 DEF ReadBlocks, EnterSwitch, StayPut, SessionBus, Switching
  <2>2. QED BY <2>1 DEF Session!session
<1>5. QED BY <1>2, <1>3, <1>4

LEMMA SweepsStutter ==
  ASSUME \/ ReadDtcs \/ ScanEnds \/ ClearDtcs \/ ClearEnds
         \/ \E m \in Modules : ScanModule(m) \/ ClearModule(m) \/ NewFault(m)
         \/ UNCHANGED vars
  PROVE  UNCHANGED Session!session
<1>1. /\ UNCHANGED <<bus, link, told, errand, prev, home>>
      /\ \/ pc' = pc
         \/ pc \in {"idle", "dtc", "clear"} /\ pc' \in {"idle", "dtc", "clear"}
  BY DEF ReadDtcs, ScanEnds, ClearDtcs, ClearEnds, StartSweep, EndSweep, ScanModule,
     ClearModule, NewFault, vars, busVars
<1>2. SessionBus' = SessionBus
  BY <1>1 DEF SessionBus, Switching
<1>3. QED BY <1>1, <1>2 DEF Session!session

LEMMA StepRefines ==
  IInv /\ IInv' /\ [Next]_vars => [Session!SessionNext]_(Session!session)
<1> SUFFICES ASSUME IInv, IInv', [Next]_vars
             PROVE  [Session!SessionNext]_(Session!session)
  OBVIOUS
<1>1. CASE \/ Construct \/ ConstructFails \/ Connect \/ OpenFails \/ RollBack
  BY <1>1, SwitchingStutters
<1>2. CASE FilterAndInstall
  <2>1. /\ Switching /\ (~falling) \in BOOLEAN /\ SwitchReturns(~falling)
        /\ errand' = errand /\ bus' = bus /\ link' # None
        /\ falling => bus = prev
    BY <1>2, LinkAssumption
    DEF FilterAndInstall, IInv, TypeOK, HoldInv, SwitchInv, Switching
  <2>2. QED BY <2>1, SwitchEndRefines
<1>3. CASE GiveUp
  <2>1. /\ Switching /\ SwitchReturns(FALSE) /\ errand' = errand /\ bus' = bus
        /\ bus = prev
    BY <1>3 DEF GiveUp, IInv, SwitchInv, Switching
  <2>2. QED BY <2>1, SwitchEndRefines
<1>4. CASE (\E b \in Requested : SwitchCommand(b)) \/ ReadConfig \/ ReadBlocks
  BY <1>4, RequestRefines
<1>5. CASE \/ ReadDtcs \/ ScanEnds \/ ClearDtcs \/ ClearEnds
           \/ \E m \in Modules : ScanModule(m) \/ ClearModule(m) \/ NewFault(m)
           \/ UNCHANGED vars
  BY <1>5, SweepsStutter
<1>6. QED BY <1>1, <1>2, <1>3, <1>4, <1>5 DEF Next

THEOREM Refinement == Spec => ImplementsSession
<1>1. Init => Session!SessionInit
  BY LinkAssumption DEF Init, Session!SessionInit, SessionBus, Switching
<1>2. QED BY <1>1, StepRefines, Invariance, PTL DEF Spec, ImplementsSession, Session!SessionSpec
=============================================================================
