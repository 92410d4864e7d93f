---------------------------- MODULE CommandLine ----------------------------
(***************************************************************************)
(* The commands of python/volvo_diag/cli.py: with a profile whose ECM      *)
(* speaks the Volvo protocol, over J2534 or an ELM327, dtc, identify,      *)
(* dump, discover, verify and read-mem go to VolvoEcm, and sniff listens   *)
(* to the bus; in every other case a command goes to UDS and OBD over the  *)
(* transport that --transport names.                                       *)
(***************************************************************************)
EXTENDS Transports, VolvoSweep, Sniff

VARIABLES
  profile,   \* "uds" or "volvo": what the ECM of the database speaks
  listening  \* the user captures the bus (bound: and runs no other command)

toolkit == <<vars, sweepVars, sniff, profile, listening>>

(* ecm_is_volvo(database) and args.transport in ("j2534", "elm") *)
EcmIsVolvo == profile = "volvo" /\ transport \in {"j2534", "elm"}

CommandLineInit ==
  /\ profile \in {"uds", "volvo"}
  /\ Init /\ SweepInit /\ SniffInit
  /\ EcmIsVolvo => task = "dtc"     \* no UDS command runs, so any will do
  /\ listening \in BOOLEAN
  /\ listening => EcmIsVolvo /\ transport = "j2534"

(* open_reader: the raw-CAN link of the transport. *)
OpenReader(c) ==
  /\ EcmIsVolvo /\ ~listening
  /\ Run(IF transport = "j2534" THEN "vxdiag" ELSE "elm", c)
  /\ UNCHANGED <<vars, sniff, profile, listening>>

VolvoCommand ==
  /\ EcmIsVolvo /\ (SweepStep \/ SweepCars)
  /\ UNCHANGED <<vars, sniff, profile, listening>>

SniffCommand ==
  /\ listening /\ SniffNext
  /\ UNCHANGED <<vars, sweepVars, profile, listening>>

UdsCommand ==
  /\ ~EcmIsVolvo /\ Next
  /\ UNCHANGED <<sweepVars, sniff, profile, listening>>

CommandLineNext ==
  UdsCommand \/ VolvoCommand \/ SniffCommand \/ \E c \in Commands : OpenReader(c)

CommandLineSpec ==
  /\ CommandLineInit /\ [][CommandLineNext]_toolkit
  /\ TransportFairness /\ SweepFairness

-----------------------------------------------------------------------------
(* Properties *)

TypesOK == TypeOK /\ SweepTypeOK /\ SniffTypeOK

(* Every command comes to its end, whatever the modules say or leave unsaid. *)
EveryCommandEnds == CommandEnds /\ SweepEnds
=============================================================================
