------------------------------ MODULE J2534Link ------------------------------
(***************************************************************************)
(* J2534CanLink (python/volvo_diag/transport/j2534.py): the raw-CAN link   *)
(* the Volvo protocol runs on, and the part of the vendor driver that      *)
(* gates it.                                                               *)
(*                                                                         *)
(* A link is an object: the backend builds a new one for every bus it      *)
(* opens and drops the old one, so links are identities (LinkIds) and a    *)
(* variable that held an old link keeps naming the old object.  The driver *)
(* lends its single device to one holder at a time, and a channel speaks   *)
(* one bus.                                                                *)
(***************************************************************************)
CONSTANTS
  Buses,      \* the CAN buses of the vehicle profile
  LinkIds,    \* identities of link objects; a dropped one may be used again
  None        \* Python's None, and "no channel" in the driver

ASSUME LinkAssumption ==
  /\ None \notin Buses
  /\ None \notin LinkIds
  /\ LinkIds # {}

VARIABLES
  links,      \* link object -> the bus it was built for and how far it is open
  device,     \* the driver has handed out its device
  channel     \* the bus the connected channel speaks, None when there is none

linkVars == <<links, device, channel>>

(* How far open() got: nothing held, the device open, the channel connected, *)
(* the filter set.  Only the last answers send() and receive().              *)
Stage == {"shut", "device", "channel", "open"}

LinkTypeOK ==
  /\ links \in [LinkIds -> [bus : Buses \cup {None}, stage : Stage]]
  /\ device \in BOOLEAN
  /\ channel \in Buses \cup {None}

LinkInit ==
  /\ links = [l \in LinkIds |-> [bus |-> None, stage |-> "shut"]]
  /\ device = FALSE
  /\ channel = None

(* A link that send() and receive() accept. *)
Usable(l) == l # None /\ links[l].stage = "open"

-----------------------------------------------------------------------------
(* The driver.  PassThruOpen refuses a second holder; PassThruClose takes    *)
(* back the device and every channel on it.                                  *)
PassThruOpen ==
  /\ ~device
  /\ device' = TRUE
  /\ UNCHANGED channel

PassThruConnect(b) ==
  /\ device
  /\ channel' = b
  /\ UNCHANGED device

PassThruClose ==
  /\ device' = FALSE
  /\ channel' = None

-----------------------------------------------------------------------------
(* open(), up to PassThruOpen, on a link newly built for bus b. *)
OpenDevice(l, b) ==
  /\ PassThruOpen
  /\ links' = [links EXCEPT ![l] = [bus |-> b, stage |-> "device"]]

(* PassThruConnect at the bus's protocol and baud rate. *)
ConnectChannel(l) ==
  /\ links[l].stage = "device"
  /\ PassThruConnect(links[l].bus)
  /\ links' = [links EXCEPT ![l].stage = "channel"]

(* The vendor configuration, whose refusal is only logged, and the filter    *)
(* that lets every frame through; then the link counts as open.              *)
SetFilter(l) ==
  /\ links[l].stage = "channel"
  /\ links' = [links EXCEPT ![l].stage = "open"]
  /\ UNCHANGED <<device, channel>>

(* close(): nothing when no device is held, else everything goes back.  The return *)
(* codes of the driver are not looked at; it is taken to accept the close.   *)
CloseLink(l) ==
  IF links[l].stage = "shut"
    THEN UNCHANGED linkVars
    ELSE /\ links' = [links EXCEPT ![l] = [bus |-> None, stage |-> "shut"]]
         /\ PassThruClose

(* mutant: open() without its "except: self.close()" *)
AbandonUnclosed(l) ==
  /\ links[l].stage \in {"device", "channel"}
  /\ UNCHANGED linkVars

(* A driver call inside open() failed: the link closes itself and raises. *)
AbandonOpen(l) ==
  /\ links[l].stage \in {"device", "channel"}
  /\ CloseLink(l)
=============================================================================
