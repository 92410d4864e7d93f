-------------------------------- MODULE Sniff --------------------------------
(***************************************************************************)
(* sniff and sniff-diff (python/volvo_diag/cli.py): two passive captures   *)
(* of a bus, one before and one after an event, and the bytes that changed *)
(* between them.                                                           *)
(*                                                                         *)
(* The senders are external.  A frame carries up to two bytes: what the    *)
(* event changes, a door, and a counter that rolls.  Frames are lost where *)
(* the receive FIFO is full, and read one by one: a batch is a prefix of   *)
(* the FIFO, and the capture may end behind any of it.                     *)
(***************************************************************************)
EXTENDS Integers, FiniteSets, SequencesExt, Functions

CONSTANTS
  Senders,   \* the CAN ids of the broadcast frames
  Width(_),  \* the bytes in a sender's frame, 0, 1 or 2
  Wants,     \* the ids --id may restrict a capture to, each a subset of Senders
  Rollover,  \* where the counters start again
  MaxSeen,   \* bound: frames on the bus in one capture
  MaxGone    \* bound: frames lost in one capture

ASSUME SniffAssumption ==
  /\ \A s \in Senders : Width(s) \in 0 .. 2
  /\ \A w \in Wants : w \subseteq Senders
  /\ Rollover \in Nat /\ Rollover > 1 /\ MaxSeen \in Nat /\ MaxGone \in Nat

Captures == {"before", "after"}

VARIABLES
  capture,  \* the capture under way, "none" or "idle" between the two
  want,     \* the ids of it that are kept
  fifo,     \* frames the program has not read
  taken,    \* frames: what it has
  screen,    \* the last frame of each id on the screen
  saved,    \* the file of each capture
  door, counter,  \* what the senders tell
  said,     \* history: the doors told of in each capture
  onBus, gone      \* counters of the bounds

sniff == <<capture, want, fifo, taken, screen, saved, door, counter, said, onBus, gone>>

(* Bytes. *)
DoorShut == 0

DoorOpen == 1

Door == {DoorShut, DoorOpen}

Bytes(s) == SubSeq(<<door, counter[s]>>, 1, Width(s))

SniffFrame == [id : Senders, data : Seq(Door \cup 0 .. Rollover - 1)]

SniffTypeOK ==
  /\ capture \in Captures \cup {"none", "idle", "done"} /\ want \subseteq Senders
  /\ fifo \in Seq(SniffFrame) /\ taken \in Seq(SniffFrame)
  /\ \A s \in Senders : screen[s] \in {<<>>} \cup {<<taken[i].data>> : i \in DOMAIN taken}
  /\ saved \in [Captures -> Seq(SniffFrame)]
  /\ door \in Door /\ counter \in [Senders -> 0 .. Rollover - 1]
  /\ said \in [Captures -> SUBSET Door]
  /\ onBus \in 0 .. MaxSeen /\ gone \in 0 .. MaxGone

SniffInit ==
  /\ capture = "none" /\ want = Senders
  /\ fifo = <<>> /\ taken = <<>> /\ screen = [s \in Senders |-> <<>>]
  /\ saved = [c \in Captures |-> <<>>]
  /\ door = DoorShut /\ counter = [s \in Senders |-> 0]
  /\ said = [c \in Captures |-> {}]
  /\ onBus = 0 /\ gone = 0

Capturing == capture \in Captures

(* The bus is opened, and only read: every id, or the one of --id. *)
BeginCapture ==
  /\ capture \in {"none", "idle"}
  /\ capture' = IF capture = "none" THEN "before" ELSE "after"
  /\ said' = [said EXCEPT ![capture'] = {}]
  /\ fifo' = <<>> /\ taken' = <<>> /\ screen' = [s \in Senders |-> <<>>]
  /\ onBus' = 0 /\ gone' = 0
  /\ want' \in Wants
  /\ UNCHANGED <<saved, door, counter>>

(* mutant: what was printed first of an id is what counts *)
ShowOnce(f) == IF screen[f.id] = <<>> THEN [screen EXCEPT ![f.id] = <<f.data>>] ELSE screen

(* A frame is printed when it differs from the last one of its id. *)
Show(f) ==
  IF screen[f.id] # <<f.data>> THEN [screen EXCEPT ![f.id] = <<f.data>>] ELSE screen

SniffReceive ==
  /\ Capturing /\ fifo # <<>> /\ fifo' = Tail(fifo)
  /\ LET f == Head(fifo)
     IN  IF f.id \in want
           THEN taken' = Append(taken, f) /\ screen' = Show(f)
           ELSE UNCHANGED <<taken, screen>>
  /\ UNCHANGED <<capture, want, saved, door, counter, said, onBus, gone>>

(* The time is over, or Ctrl-C: the file is written. *)
EndCapture ==
  /\ Capturing
  /\ saved' = [saved EXCEPT ![capture] = taken]
  /\ capture' = IF capture = "before" THEN "idle" ELSE "done"
  /\ fifo' = <<>>
  /\ UNCHANGED <<want, taken, screen, door, counter, said, onBus, gone>>

(* The driver reports an error: no file, the capture is made again. *)
CaptureFails ==
  /\ Capturing
  /\ capture' = IF capture = "before" THEN "none" ELSE "idle"
  /\ fifo' = <<>>
  /\ UNCHANGED <<want, taken, screen, saved, door, counter, said, onBus, gone>>

(* sniff-diff has told the user of the two files, and all begins anew. *)
StartOver ==
  /\ capture = "done" /\ capture' = "none"
  /\ saved' = [c \in Captures |-> <<>>] /\ said' = [c \in Captures |-> {}]
  /\ taken' = <<>> /\ screen' = [s \in Senders |-> <<>>]
  /\ door' = DoorShut /\ counter' = [s \in Senders |-> 0] /\ onBus' = 0 /\ gone' = 0
  /\ UNCHANGED <<want, fifo>>

(* A sender repeats what it has to say. *)
Broadcast(s) ==
  /\ Capturing /\ onBus < MaxSeen /\ onBus' = onBus + 1
  /\ counter' = [counter EXCEPT ![s] = (@ + 1) % Rollover]
  /\ said' = [said EXCEPT ![capture] = @ \cup {door}]
  /\ \/ fifo' = Append(fifo, [id |-> s, data |-> Bytes(s)]) /\ UNCHANGED gone
     \/ gone < MaxGone /\ gone' = gone + 1 /\ UNCHANGED fifo
  /\ UNCHANGED <<capture, want, taken, screen, saved, door>>

(* The user opens the door, once. *)
Event ==
  /\ door = DoorShut /\ door' = DoorOpen /\ capture # "done"
  /\ UNCHANGED <<capture, want, fifo, taken, screen, saved, counter, said, onBus, gone>>

SniffNext ==
  \/ BeginCapture \/ SniffReceive \/ EndCapture \/ CaptureFails \/ StartOver \/ Event
  \/ \E s \in Senders : Broadcast(s)

SniffSpec == SniffInit /\ [][SniffNext]_sniff

-----------------------------------------------------------------------------
(* sniff_summary and sniff_diff *)

(* The places of an id among frames. *)
Of(s, frames) == {i \in DOMAIN frames : frames[i].id = s}

(* sniff_summary: two to eight distinct payloads look like a state. *)
Flagged(s) == Cardinality({taken[i].data : i \in Of(s, taken)}) \in 2 .. 8

(* _load_sniff: a frame without data is not read back. *)
LoadSniff(c) == Restrict(saved[c], {i \in DOMAIN saved[c] : saved[c][i].data # <<>>})

(* profile: the values of each byte; the first frame of an id says how many. *)
Profile(s, frames) ==
  [byte \in DOMAIN frames[Min(Of(s, frames))].data |->
     {frames[i].data[byte] : i \in {k \in Of(s, frames) : byte \in DOMAIN frames[k].data}}]

(* mutant: a byte that varies within a capture counts *)
StableAlways(slot) == TRUE

Stable(slot) == Cardinality(slot) = 1

SniffDiff(before, after) ==
  LET Changed(s) ==
        LET sb == Profile(s, before)
            sa == Profile(s, after)
        IN  {[id |-> s, byte |-> i, before |-> CHOOSE v \in sb[i] : TRUE,
              after |-> CHOOSE v \in sa[i] : TRUE] :
               i \in {k \in (DOMAIN sb) \cap (DOMAIN sa) :
                       Stable(sb[k]) /\ Stable(sa[k]) /\ sb[k] # sa[k]}}
  IN  UNION {Changed(s) : s \in {id \in Senders : Of(id, before) # {} /\ Of(id, after) # {}}}

Changes == SniffDiff(LoadSniff("before"), LoadSniff("after"))

-----------------------------------------------------------------------------
(* Properties *)

(* The counter of a sender was caught at two values. *)
Rolls(s, c) == \E i, k \in Of(s, saved[c]) : saved[c][i].data[2] # saved[c][k].data[2]

(* Of two captures with a door opened between them, whatever was lost: each id that *)
(* tells of the door and was caught in both is reported, nothing but the     *)
(* opening is reported of its byte, and no byte that was caught rolling      *)
(* is.  While a capture runs the screen has the last word of every id, and   *)
(* the ids flagged at its end are those that told of both positions.         *)
SniffTrue ==
  /\ capture = "done" =>
       /\ said["before"] = {DoorShut} /\ said["after"] = {DoorOpen} =>
            \A s \in Senders :
              Width(s) > 0 /\ (\A c \in Captures : Of(s, saved[c]) # {}) =>
                [id |-> s, byte |-> 1, before |-> DoorShut, after |-> DoorOpen] \in Changes
       /\ \A change \in Changes :
            /\ change.byte = 1 => change.before = DoorShut /\ change.after = DoorOpen
            /\ change.byte = 2 => ~Rolls(change.id, "before") /\ ~Rolls(change.id, "after")
  /\ Capturing =>
       \A s \in want : Of(s, taken) # {} => screen[s] = <<taken[Max(Of(s, taken))].data>>
  /\ \A s \in Senders :
       Width(s) = 1 => (Flagged(s) <=> \A d \in Door : \E i \in Of(s, taken) : taken[i].data = <<d>>)
=============================================================================
