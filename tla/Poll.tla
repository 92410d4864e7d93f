-------------------------------- MODULE Poll --------------------------------
(***************************************************************************)
(* PollScheduler (python/volvo_diag/poll.py): which of the selected        *)
(* parameters a cycle reads, and what it shows for the others.             *)
(*                                                                         *)
(* Trusted parameters are read every cycle.  The others share a slow lane: *)
(* at most one is read per cycle, and each no more often than              *)
(* SlowInterval.  A parameter that missed MissLimit times in a row is      *)
(* backed off: it is tried only in every RetryEvery-th cycle.              *)
(*                                                                         *)
(* Time is counted in units of the shortest cycle.  What the code keeps as *)
(* absolute times is kept relative to the start of the cycle: wait is      *)
(* _slow_next - now, and tick is _poll modulo RetryEvery.                  *)
(***************************************************************************)
EXTENDS Integers, FiniteSets, SequencesExt

CONSTANTS
  Params,        \* parameter keys
  Trusted,       \* those whose status is in FAST_STATUS
  Selections,    \* the lists a caller may ask for
  MissLimit,     \* consecutive misses before the back-off (3)
  RetryEvery,    \* cycles between tries of a backed-off id (12)
  SlowInterval,  \* slow_interval, in units of the shortest cycle
  MaxGap,        \* the longest cycle, in the same units
  MaxEdits,      \* bound: how often the selection is changed
  MaxSkipped     \* bound: where the history variable skipped stops counting

ASSUME PollAssumption ==
  /\ Trusted \subseteq Params
  /\ \A s \in Selections : s \in Seq(Params) /\ IsInjective(s)
  /\ MissLimit \in Nat \ {0}
  /\ RetryEvery \in Nat \ {0}
  /\ SlowInterval \in Nat
  /\ MaxGap \in Nat \ {0}
  /\ MaxEdits \in Nat
  /\ MaxSkipped \in Nat /\ MaxSkipped > RetryEvery

VARIABLES
  live,      \* the dashboard and monitor (TRUE), or record (FALSE)
  sel,       \* the parameters of the cycle, in order
  tick,      \* self._poll, modulo RetryEvery
  at,        \* the position in sel the cycle is at; 0 between cycles
  slowDone,  \* slow_done: this cycle's slow read is used up
  miss,      \* self._miss, up to MissLimit
  cached,    \* the keys of self._last: ids that were read at least once
  wait,      \* time until a slow id may be read again
  rows,      \* the results so far: "fresh", "cached" or "miss" for each of sel
  skipped,   \* history: cycles since the id was last tried, while selected
  edits      \* bound: changes of the selection so far

vars == <<live, sel, tick, at, slowDone, miss, cached, wait, rows, skipped, edits>>

Row == {"fresh", "cached", "miss"}

Selected == ToSet(sel)

TypeOK ==
  /\ live \in BOOLEAN
  /\ sel \in Selections
  /\ tick \in 0 .. RetryEvery - 1
  /\ at \in 0 .. Len(sel) + 1
  /\ slowDone \in BOOLEAN
  /\ miss \in [Params -> 0 .. MissLimit]
  /\ cached \subseteq Params
  /\ wait \in [Params -> 0 .. SlowInterval]
  /\ rows \in Seq(Row)
  /\ skipped \in [Params -> 0 .. MaxSkipped]
  /\ edits \in 0 .. MaxEdits

Init ==
  /\ live \in BOOLEAN
  /\ sel \in Selections
  /\ tick = 0
  /\ at = 0
  /\ slowDone = FALSE
  /\ miss = [p \in Params |-> 0]
  /\ cached = {}
  /\ wait = [p \in Params |-> 0]
  /\ rows = <<>>
  /\ skipped = [p \in Params |-> 0]
  /\ edits = 0

-----------------------------------------------------------------------------
Slow(p) == p \notin Trusted

(* mutant: a backed-off id is never tried again *)
BackedOffForever(p) == miss[p] >= MissLimit

BackedOff(p) == miss[p] >= MissLimit /\ tick # 0

(* mutant: slow_done is not consulted *)
SlowDueAlways(p) == wait[p] = 0

SlowDue(p) == ~slowDone /\ wait[p] = 0

(* mutant: recording backs off like the live view *)
PassedOverAlways(p) == BackedOff(p) \/ (Slow(p) /\ ~SlowDue(p))

PassedOver(p) == live /\ (BackedOff(p) \/ (Slow(p) /\ ~SlowDue(p)))

(* mutant: the cache is never consulted *)
StoredNowhere(p) == "miss"

(* cached(): the last good value, or a miss if there never was one. *)
Stored(p) == IF p \in cached THEN "cached" ELSE "miss"

(* A live miss rides on the cache; a recorded one is a gap. *)
Missed(p) == IF live THEN Stored(p) ELSE "miss"

(* mutant: the cycle counter is compared without the modulus *)
NextTickUnbounded(t) == t + 1

NextTick(t) == (t + 1) % RetryEvery

PassedCycle(p) == IF skipped[p] < MaxSkipped THEN skipped[p] + 1 ELSE MaxSkipped

(* A cycle starts gap units after the previous one did. *)
BeginCycle(gap) ==
  /\ at = 0
  /\ tick' = NextTick(tick)
  /\ wait' = [p \in Params |-> IF wait[p] > gap THEN wait[p] - gap ELSE 0]
  /\ slowDone' = FALSE
  /\ rows' = <<>>
  /\ skipped' = [p \in Params |-> IF p \in Selected THEN PassedCycle(p) ELSE 0]
  /\ at' = 1
  /\ UNCHANGED <<live, sel, miss, cached, edits>>

(* The id is not read this cycle. *)
Skip(p) ==
  /\ PassedOver(p)
  /\ rows' = Append(rows, Stored(p))
  /\ UNCHANGED <<slowDone, miss, cached, wait, skipped>>

(* mutant: the slow lane is taken without noting when it is free again *)
TakeLaneForgetful(p) ==
  /\ slowDone' = (slowDone \/ (live /\ Slow(p)))
  /\ UNCHANGED wait

(* A slow id takes the lane, whether or not it will answer. *)
TakeLane(p) ==
  IF live /\ Slow(p)
    THEN /\ slowDone' = TRUE
         /\ wait' = [wait EXCEPT ![p] = SlowInterval]
    ELSE UNCHANGED <<slowDone, wait>>

(* read_one returned. *)
ReadAnswers(p) ==
  /\ ~PassedOver(p)
  /\ TakeLane(p)
  /\ miss' = [miss EXCEPT ![p] = 0]
  /\ cached' = cached \cup {p}
  /\ rows' = Append(rows, "fresh")
  /\ skipped' = [skipped EXCEPT ![p] = 0]

(* read_one raised. *)
ReadMisses(p) ==
  /\ ~PassedOver(p)
  /\ TakeLane(p)
  /\ miss' = [miss EXCEPT ![p] = IF @ < MissLimit THEN @ + 1 ELSE @]
  /\ rows' = Append(rows, Missed(p))
  /\ skipped' = [skipped EXCEPT ![p] = 0]
  /\ UNCHANGED cached

Visit ==
  /\ at \in 1 .. Len(sel)
  /\ Skip(sel[at]) \/ ReadAnswers(sel[at]) \/ ReadMisses(sel[at])
  /\ at' = at + 1
  /\ UNCHANGED <<live, sel, tick, edits>>

(* The caller renders the rows. *)
EndCycle ==
  /\ at = Len(sel) + 1
  /\ at' = 0
  /\ UNCHANGED <<live, sel, tick, slowDone, miss, cached, wait, rows, skipped, edits>>

(* The page selects other parameters; what the scheduler knows of each stays. *)
Select(s) ==
  /\ live
  /\ at = 0
  /\ edits < MaxEdits
  /\ edits' = edits + 1
  /\ sel' = s
  /\ rows' = <<>>
  /\ skipped' = [p \in Params |-> IF p \in ToSet(s) THEN skipped[p] ELSE 0]
  /\ UNCHANGED <<live, tick, at, slowDone, miss, cached, wait>>

Next ==
  \/ \E gap \in 1 .. MaxGap : BeginCycle(gap)
  \/ Visit
  \/ EndCycle
  \/ \E s \in Selections : Select(s)

Spec == Init /\ [][Next]_vars

(* The page polls for ever (pollLoop), and a cycle that began runs to its end. *)
Polling == (\E gap \in 1 .. MaxGap : BeginCycle(gap)) \/ Visit \/ EndCycle

FairSpec == Spec /\ WF_vars(Polling)
-----------------------------------------------------------------------------
(* Properties *)

(* A trusted id is tried in every cycle unless it is backed off, and even then *)
(* in one cycle out of RetryEvery, whatever else is selected and however the *)
(* selection changes.                                                        *)
TrustedRetried ==
  at = 0 => \A p \in Selected \cap Trusted :
              /\ skipped[p] < RetryEvery
              /\ miss[p] < MissLimit => skipped[p] = 0

(* The live view spends at most one read of a cycle on an untrusted id. *)
OneSlowRead ==
  live /\ at > 0 =>
    Cardinality({p \in Selected \ Trusted : skipped[p] = 0}) <= 1

(* Of a recording, and of the live view. *)
RecordFaithful ==
  ~live => /\ \A i \in DOMAIN rows : rows[i] # "cached"
           /\ at = 0 => \A p \in Selected : skipped[p] = 0

NeverBlanks ==
  live => \A i \in DOMAIN rows : sel[i] \in cached => rows[i] # "miss"

(* A recorded sample was read in its own cycle, and every parameter was asked  *)
(* in every cycle: no stale value passes for a sample, no id is left out.    *)
(* And once the live view has shown a value it never shows a blank for that  *)
(* id again: a dropped frame is covered by the cache.                        *)
RowsFaithful == RecordFaithful /\ NeverBlanks

(* The slow lane has room when the other slow ids of the selection are done    *)
(* before the first of them is due again.                                    *)
SlowIds == Selected \ Trusted

LaneHasRoom == (Cardinality(SlowIds) - 1) * MaxGap < SlowInterval

(* With room in the lane every answering slow id gets its turn, although the   *)
(* lane is granted in list order and not in order of waiting; and a silent   *)
(* slow id that has the lane to itself is still tried again.                 *)
SlowTurn ==
  at = 0 /\ edits = 0 =>
    \A p \in SlowIds :
      /\ LaneHasRoom /\ miss[p] < MissLimit =>
           skipped[p] < SlowInterval + Cardinality(SlowIds)
      /\ SlowIds = {p} => skipped[p] < SlowInterval + RetryEvery

(* "an id that keeps missing is retried only occasionally": but it is retried. *)
BackedOffRetried == \A p \in Params : []<>(skipped[p] = 0)
=============================================================================
