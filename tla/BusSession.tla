----------------------------- MODULE BusSession -----------------------------
(***************************************************************************)
(* What VolvoBackend promises its callers about the bus: between two       *)
(* requests the dashboard is on one bus, with a working link to it or with *)
(* none.  switch_bus either arrives or stays where it was, and tells the   *)
(* page which; reading the configuration may visit the configuration       *)
(* module's bus and may be stranded there, but goes nowhere else and tells *)
(* nobody.  VolvoBackend implements this (module Backend), and the web     *)
(* server and its pages are built on it (module Dashboard).                *)
(***************************************************************************)
CONSTANTS
  Buses,      \* the buses of the profile
  ConfigBus   \* the bus the configuration module answers on (topo.bus)

ASSUME SessionAssumption == ConfigBus \in Buses

VARIABLES
  bus,        \* VolvoBackend.current_bus()
  up,         \* a link is open: reads are attempted rather than refused
  told        \* the last answer to a bus command: whether it worked, and the
              \* bus the page was told the session is on

session == <<bus, up, told>>

Answer == [ok : BOOLEAN, bus : Buses]

SessionTypeOK ==
  /\ bus \in Buses
  /\ up \in BOOLEAN
  /\ told \in Answer

SessionInit ==
  /\ bus \in Buses
  /\ up = TRUE
  /\ told = [ok |-> TRUE, bus |-> bus]

(* switch_bus(b) returned. *)
Switched(b) ==
  /\ b \in Buses
  /\ bus' = b
  /\ up' = TRUE
  /\ told' = [ok |-> TRUE, bus |-> b]

(* switch_bus raised: the previous bus was reopened, or nothing was. *)
SwitchRefused ==
  /\ bus' = bus
  /\ up' \in BOOLEAN
  /\ told' = [ok |-> FALSE, bus |-> bus]

(* The request was turned down before anything was closed. *)
SwitchInvalid ==
  /\ told' = [ok |-> FALSE, bus |-> bus]
  /\ UNCHANGED <<bus, up>>

(* The visit to ConfigBus was refused. *)
ConfigRefused ==
  /\ up
  /\ bus # ConfigBus
  /\ up' = FALSE
  /\ UNCHANGED <<bus, told>>

(* The return switch failed: its rollback leaves the session on ConfigBus. *)
ConfigStranded ==
  /\ up
  /\ bus # ConfigBus
  /\ bus' = ConfigBus
  /\ up' \in BOOLEAN
  /\ UNCHANGED told

SessionNext ==
  \/ \E b \in Buses : Switched(b)
  \/ SwitchRefused
  \/ SwitchInvalid
  \/ ConfigRefused
  \/ ConfigStranded

SessionSpec == SessionInit /\ [][SessionNext]_session
=============================================================================
