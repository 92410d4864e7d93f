----------------------------- MODULE PollProofs -----------------------------
(***************************************************************************)
(* Poll for any parameters, selections and intervals: type correctness,    *)
(* when a trusted id is tried, one slow read per cycle, faithful recording *)
(* and a display that is never blanked, and the turn of every slow id.     *)
(* Trip for any bounds: a recorded trip is a behaviour of the scheduler,   *)
(* so all of this holds while a file is written, a recording says in every *)
(* cell what was read in its own cycle, and the report of it is true.      *)
(*                                                                         *)
(* The properties speak of whole cycles; IInv says what holds in the       *)
(* middle of one, of the ids it has reached (Done) and those it has not.   *)
(***************************************************************************)
EXTENDS Trip, FiniteSetTheorems, SequenceTheorems, WellFoundedInduction, TLAPS

(* The ids the cycle has reached; between cycles, all of them. *)
Done == IF at = 0 THEN Selected ELSE {sel[i] : i \in 1 .. at - 1}

(* One row for every id reached. *)
RowsInv ==
  /\ Len(rows) <= Len(sel)
  /\ at > 0 => Len(rows) = at - 1

(* The history is kept for selected ids only. *)
HistoryInv == \A p \in Params \ Selected : skipped[p] = 0

RecordInv ==
  ~live => /\ \A i \in DOMAIN rows : rows[i] # "cached"
           /\ \A p \in Done : skipped[p] = 0

(* A trusted id that was passed over since the last retry cycle (tick = 0)    *)
(* cannot have been passed over for longer than the cycles since then.       *)
TrustedInv ==
  /\ \A p \in Done \cap Trusted :
       /\ skipped[p] <= tick
       /\ miss[p] < MissLimit => skipped[p] = 0
  /\ \A p \in (Selected \cap Trusted) \ Done :
       skipped[p] <= IF tick = 0 THEN RetryEvery ELSE tick

LaneInv ==
  live /\ at > 0 =>
    /\ \A p, q \in Selected \ Trusted : skipped[p] = 0 /\ skipped[q] = 0 => p = q
    /\ ~slowDone => \A p \in Selected \ Trusted : skipped[p] > 0

IInv == /\ TypeOK /\ RowsInv /\ HistoryInv
        /\ RecordInv /\ TrustedInv /\ LaneInv /\ NeverBlanks

-----------------------------------------------------------------------------
(* A selection is a list of parameters without repetition. *)
LEMMA SelectionFacts ==
  ASSUME NEW s \in Selections
  PROVE  /\ s \in Seq(Params)
         /\ \A i, j \in 1 .. Len(s) : s[i] = s[j] => i = j
         /\ ToSet(s) = {s[i] : i \in 1 .. Len(s)}
         /\ ToSet(s) \subseteq Params
<1>1. s \in Seq(Params) /\ IsInjective(s)
  BY PollAssumption
<1>2. DOMAIN s = 1 .. Len(s) /\ \A i \in 1 .. Len(s) : s[i] \in Params
  BY <1>1
<1>. QED
  BY <1>1, <1>2 DEF IsInjective, ToSet

(* The cycle counter stays within a round of RetryEvery cycles. *)
LEMMA TickFacts ==
  ASSUME NEW t \in 0 .. RetryEvery - 1
  PROVE  /\ NextTick(t) \in 0 .. RetryEvery - 1
         /\ NextTick(t) = IF t + 1 = RetryEvery THEN 0 ELSE t + 1
<1>1. CASE t + 1 = RetryEvery
  BY <1>1, PollAssumption DEF NextTick
<1>2. CASE t + 1 # RetryEvery
  <2>1. t + 1 \in 0 .. RetryEvery - 1
    BY <1>2, PollAssumption
  <2>. QED
    BY <2>1, <1>2, PollAssumption DEF NextTick
<1>. QED
  BY <1>1, <1>2
-----------------------------------------------------------------------------
LEMMA Initially == Init => IInv
<1>. SUFFICES ASSUME Init PROVE IInv
  OBVIOUS
<1>1. /\ sel \in Seq(Params) /\ Selected \subseteq Params
      /\ Selected = {sel[i] : i \in 1 .. Len(sel)}
  BY SelectionFacts DEF Init, Selected
<1>2. TypeOK
  <2>1. Len(sel) \in Nat /\ 0 \in 0 .. Len(sel) + 1
    BY <1>1
  <2>2. /\ 0 \in 0 .. RetryEvery - 1 /\ 0 \in 0 .. MissLimit
        /\ 0 \in 0 .. SlowInterval /\ 0 \in 0 .. MaxSkipped /\ 0 \in 0 .. MaxEdits
    BY PollAssumption
  <2>3. rows \in Seq(Row)
    BY DEF Init
  <2>. QED
    BY <2>1, <2>2, <2>3 DEF Init, TypeOK
<1>3. RowsInv /\ HistoryInv /\ RecordInv /\ NeverBlanks /\ LaneInv
  BY <1>1 DEF Init, RowsInv, HistoryInv, RecordInv, NeverBlanks, LaneInv, Done
<1>4. TrustedInv
  BY <1>1, PollAssumption DEF Init, TrustedInv, Done
<1>. QED
  BY <1>2, <1>3, <1>4 DEF IInv

-----------------------------------------------------------------------------
(* BeginCycle: nothing is reached yet, and every selected id is one cycle     *)
(* further from its last try.                                                *)
LEMMA BeginKeeps ==
  ASSUME IInv, NEW gap \in 1 .. MaxGap, BeginCycle(gap)
  PROVE  IInv'
<1>. USE PollAssumption DEF IInv
<1>1. /\ sel \in Selections /\ sel' = sel /\ Selected' = Selected
      /\ Selected \subseteq Params /\ sel \in Seq(Params)
  BY SelectionFacts DEF TypeOK, BeginCycle, Selected
<1>2. at = 0 /\ at' = 1 /\ rows' = <<>> /\ miss' = miss /\ cached' = cached
      /\ live' = live /\ edits' = edits /\ slowDone' = FALSE
  BY DEF BeginCycle
<1>3. /\ tick \in 0 .. RetryEvery - 1
      /\ tick' \in 0 .. RetryEvery - 1
      /\ tick' = IF tick + 1 = RetryEvery THEN 0 ELSE tick + 1
  BY TickFacts DEF TypeOK, BeginCycle
<1>4. \A p \in Params :
        /\ skipped'[p] \in 0 .. MaxSkipped
        /\ p \in Selected => skipped'[p] > 0 /\ skipped'[p] <= skipped[p] + 1
        /\ p \notin Selected => skipped'[p] = 0
  BY DEF TypeOK, BeginCycle, PassedCycle
<1>5. wait' \in [Params -> 0 .. SlowInterval]
  <2>1. ASSUME NEW p \in Params
        PROVE  (IF wait[p] > gap THEN wait[p] - gap ELSE 0) \in 0 .. SlowInterval
    BY DEF TypeOK
  <2>. QED
    BY <2>1 DEF BeginCycle
<1>6. skipped' \in [Params -> 0 .. MaxSkipped]
  <2>1. skipped' = [p \in Params |-> IF p \in Selected THEN PassedCycle(p) ELSE 0]
    BY DEF BeginCycle
  <2>. QED
    BY <2>1, <1>4
<1>7. Done = Selected /\ Done' = {}
  BY <1>2 DEF Done
<1>8. TypeOK'
  <2>1. rows' \in Seq(Row)
    BY <1>2
  <2>2. at' \in 0 .. Len(sel') + 1
    BY <1>1, <1>2
  <2>4. slowDone' \in BOOLEAN
    BY <1>2
  <2>3. /\ sel' \in Selections /\ live' \in BOOLEAN /\ cached' \subseteq Params
        /\ miss' \in [Params -> 0 .. MissLimit] /\ edits' \in 0 .. MaxEdits
    BY <1>1, <1>2 DEF TypeOK
  <2>. QED
    BY <2>1, <2>2, <2>3, <2>4, <1>3, <1>5, <1>6 DEF TypeOK
<1>9. RowsInv' /\ NeverBlanks' /\ HistoryInv' /\ RecordInv' /\ LaneInv'
  BY <1>1, <1>2, <1>4, <1>7
  DEF RowsInv, NeverBlanks, HistoryInv, RecordInv, LaneInv
<1>10. TrustedInv'
  <2>1. ASSUME NEW p \in Selected \cap Trusted
        PROVE  skipped'[p] <= IF tick' = 0 THEN RetryEvery ELSE tick'
    <3>1. skipped[p] <= tick /\ skipped[p] \in 0 .. MaxSkipped
      BY <1>1, <1>7 DEF TrustedInv, TypeOK
    <3>2. skipped'[p] <= tick + 1 /\ skipped'[p] \in 0 .. MaxSkipped
      BY <1>1, <1>3, <1>4, <3>1
    <3>. QED
      BY <1>3, <3>2
  <2>. QED
    BY <2>1, <1>1, <1>7 DEF TrustedInv
<1>. QED
  BY <1>8, <1>9, <1>10 DEF IInv

-----------------------------------------------------------------------------
(* What every visit of an id leaves behind. *)
LEMMA VisitFacts ==
  ASSUME IInv, Visit
  PROVE  /\ at \in 1 .. Len(sel) /\ at' = at + 1
         /\ sel' = sel /\ sel \in Selections /\ Len(sel) \in Nat
         /\ Selected' = Selected /\ Selected \subseteq Params
         /\ sel[at] \in Selected /\ sel[at] \in Params
         /\ Done' = Done \cup {sel[at]}
         /\ sel[at] \notin Done
         /\ Done \subseteq Selected
         /\ live' = live /\ tick' = tick /\ edits' = edits
<1>1. at \in 1 .. Len(sel) /\ at' = at + 1 /\ sel' = sel
      /\ live' = live /\ tick' = tick /\ edits' = edits
  BY DEF Visit
<1>2. /\ sel \in Selections /\ sel \in Seq(Params) /\ Len(sel) \in Nat
      /\ Selected \subseteq Params /\ Selected = {sel[i] : i \in 1 .. Len(sel)}
      /\ \A i, j \in 1 .. Len(sel) : sel[i] = sel[j] => i = j
  <2>1. sel \in Selections
    BY DEF IInv, TypeOK
  <2>2. sel \in Seq(Params)
    BY <2>1, SelectionFacts
  <2>. QED
    BY <2>1, <2>2, SelectionFacts DEF Selected
<1>3. Selected' = Selected
  BY <1>1 DEF Selected
<1>4. Done = {sel[i] : i \in 1 .. at - 1} /\ Done' = {sel[i] : i \in 1 .. at}
  BY <1>1, <1>2 DEF Done
<1>5. Done' = Done \cup {sel[at]} /\ sel[at] \notin Done /\ Done \subseteq Selected
  BY <1>1, <1>2, <1>4
<1>. QED
  BY <1>1, <1>2, <1>3, <1>5
-----------------------------------------------------------------------------
(* Skip: a trusted id is passed over only outside the retry cycle and only    *)
(* after MissLimit misses; recording passes over nothing.                    *)
LEMMA SkipKeeps ==
  ASSUME IInv, Visit, Skip(sel[at])
  PROVE  IInv'
<1>. DEFINE p == sel[at]
<1>1. /\ at \in 1 .. Len(sel) /\ at' = at + 1 /\ Len(sel) \in Nat
      /\ sel' = sel /\ sel \in Selections /\ Selected' = Selected
      /\ p \in Selected /\ p \in Params
      /\ Done' = Done \cup {p} /\ p \notin Done /\ Done \subseteq Selected
      /\ live' = live /\ tick' = tick /\ edits' = edits
  BY VisitFacts
<1>2. /\ live /\ (BackedOff(p) \/ Slow(p))
      /\ rows' = Append(rows, Stored(p))
      /\ slowDone' = slowDone /\ miss' = miss /\ cached' = cached
      /\ wait' = wait /\ skipped' = skipped
  BY DEF Skip, PassedOver
<1>3. Stored(p) \in Row /\ (p \in cached => Stored(p) # "miss")
  BY DEF Stored, Row
<1>. HIDE DEF p
<1>4. /\ rows \in Seq(Row) /\ Len(rows) = at - 1
      /\ rows' \in Seq(Row) /\ Len(rows') = at
      /\ \A i \in 1 .. at - 1 : rows'[i] = rows[i]
      /\ rows'[at] = Stored(p)
      /\ DOMAIN rows = 1 .. at - 1 /\ DOMAIN rows' = 1 .. at
  BY <1>1, <1>2, <1>3 DEF IInv, TypeOK, RowsInv
<1>5. TypeOK'
  BY <1>1, <1>2, <1>4 DEF IInv, TypeOK
<1>6. RowsInv' /\ HistoryInv' /\ RecordInv'
  BY <1>1, <1>2, <1>4 DEF IInv, RowsInv, HistoryInv, RecordInv
<1>7. LaneInv'
  BY <1>1, <1>2 DEF IInv, LaneInv
<1>8. NeverBlanks'
  BY <1>1, <1>2, <1>3, <1>4 DEF IInv, NeverBlanks, p
<1>9. TrustedInv'
  <2>1. p \in Trusted => tick # 0 /\ miss[p] >= MissLimit
    BY <1>2 DEF BackedOff, Slow
  <2>2. p \in Trusted => skipped[p] <= tick /\ ~(miss[p] < MissLimit)
    BY <2>1, <1>1, PollAssumption DEF IInv, TypeOK, TrustedInv
  <2>. QED
    BY <1>1, <1>2, <2>2 DEF IInv, TrustedInv
<1>. QED
  BY <1>5, <1>6, <1>7, <1>8, <1>9 DEF IInv

(* ReadAnswers and ReadMisses: the id was tried.  Only the lane, the miss      *)
(* counter, the cache and its row tell the two apart.                        *)
LEMMA ReadKeeps ==
  ASSUME IInv, Visit, ReadAnswers(sel[at]) \/ ReadMisses(sel[at])
  PROVE  IInv'
<1>. DEFINE p == sel[at]
<1>1. /\ at \in 1 .. Len(sel) /\ at' = at + 1 /\ Len(sel) \in Nat
      /\ sel' = sel /\ sel \in Selections /\ Selected' = Selected
      /\ Selected \subseteq Params
      /\ p \in Selected /\ p \in Params
      /\ Done' = Done \cup {p} /\ p \notin Done /\ Done \subseteq Selected
      /\ live' = live /\ tick' = tick /\ edits' = edits
  BY VisitFacts
<1>2. skipped' = [skipped EXCEPT ![p] = 0]
  BY DEF ReadAnswers, ReadMisses
<1>3. PICK r \in Row :
        /\ rows' = Append(rows, r)
        /\ ~live => r # "cached"
        /\ live /\ p \in cached' => r # "miss"
        /\ cached' = cached \/ cached' = cached \cup {p}
  BY DEF ReadAnswers, ReadMisses, Missed, Stored, Row
<1>4. /\ miss' = [miss EXCEPT ![p] = 0]
         \/ miss' = [miss EXCEPT ![p] = IF @ < MissLimit THEN @ + 1 ELSE @]
      /\ IF live /\ Slow(p)
           THEN slowDone' = TRUE /\ wait' = [wait EXCEPT ![p] = SlowInterval]
           ELSE slowDone' = slowDone /\ wait' = wait
      /\ live /\ Slow(p) => ~slowDone
  BY DEF ReadAnswers, ReadMisses, TakeLane, PassedOver, SlowDue
<1>5. /\ live \in BOOLEAN /\ slowDone \in BOOLEAN /\ cached \subseteq Params
      /\ tick \in 0 .. RetryEvery - 1 /\ edits \in 0 .. MaxEdits
      /\ miss \in [Params -> 0 .. MissLimit]
      /\ wait \in [Params -> 0 .. SlowInterval]
      /\ skipped \in [Params -> 0 .. MaxSkipped]
  BY DEF IInv, TypeOK
<1>. HIDE DEF p
<1>6. /\ rows \in Seq(Row) /\ Len(rows) = at - 1
      /\ rows' \in Seq(Row) /\ Len(rows') = at
      /\ \A i \in 1 .. at - 1 : rows'[i] = rows[i]
      /\ rows'[at] = r
      /\ DOMAIN rows = 1 .. at - 1 /\ DOMAIN rows' = 1 .. at
  BY <1>1, <1>3 DEF IInv, TypeOK, RowsInv
<1>7. /\ skipped' \in [Params -> 0 .. MaxSkipped]
      /\ skipped'[p] = 0
      /\ \A q \in Params : q # p => skipped'[q] = skipped[q]
  BY <1>1, <1>2, <1>5, PollAssumption
<1>8. TypeOK'
  <2>0. MissLimit \in Nat /\ SlowInterval \in Nat
    BY PollAssumption
  <2>1. miss' \in [Params -> 0 .. MissLimit]
    <3>1. CASE miss' = [miss EXCEPT ![p] = 0]
      BY <3>1, <2>0, <1>1, <1>5
    <3>2. CASE miss' = [miss EXCEPT ![p] = IF @ < MissLimit THEN @ + 1 ELSE @]
      BY <3>2, <2>0, <1>1, <1>5
    <3>. QED
      BY <3>1, <3>2, <1>4
  <2>2. wait' \in [Params -> 0 .. SlowInterval]
    <3>1. CASE live /\ Slow(p)
      BY <3>1, <2>0, <1>1, <1>4, <1>5
    <3>2. CASE ~(live /\ Slow(p))
      BY <3>2, <1>4, <1>5
    <3>. QED
      BY <3>1, <3>2
  <2>4. slowDone' \in BOOLEAN
    BY <1>4, <1>5
  <2>3. at' \in 0 .. Len(sel) + 1 /\ cached' \subseteq Params
    BY <1>1, <1>3, <1>5
  <2>. QED
    BY <2>1, <2>2, <2>3, <2>4, <1>1, <1>5, <1>6, <1>7 DEF TypeOK
<1>9. RowsInv' /\ HistoryInv'
  BY <1>1, <1>6, <1>7 DEF IInv, RowsInv, HistoryInv
<1>10. RecordInv'
  BY <1>1, <1>3, <1>6, <1>7 DEF IInv, RecordInv
<1>11. LaneInv'
  <2>. SUFFICES ASSUME live
                PROVE  /\ \A q, s \in Selected \ Trusted :
                            skipped'[q] = 0 /\ skipped'[s] = 0 => q = s
                       /\ ~slowDone' => \A q \in Selected \ Trusted : skipped'[q] > 0
    BY <1>1 DEF LaneInv
  <2>1. /\ \A q, s \in Selected \ Trusted :
             skipped[q] = 0 /\ skipped[s] = 0 => q = s
        /\ ~slowDone => \A q \in Selected \ Trusted : skipped[q] > 0
    BY <1>1 DEF IInv, LaneInv
  <2>2. CASE p \in Trusted
    BY <2>1, <2>2, <1>1, <1>4, <1>7 DEF Slow
  <2>3. CASE p \notin Trusted
    <3>1. slowDone' /\ \A q \in Selected \ Trusted : skipped[q] > 0
      BY <2>1, <2>3, <1>4 DEF Slow
    <3>. QED
      BY <3>1, <1>1, <1>7
  <2>. QED
    BY <2>2, <2>3
<1>12. NeverBlanks'
  <2>. SUFFICES ASSUME live, NEW i \in 1 .. at, sel[i] \in cached'
                PROVE  rows'[i] # "miss"
    BY <1>1, <1>6 DEF NeverBlanks
  <2>1. CASE i = at
    BY <2>1, <1>3, <1>6 DEF p
  <2>2. CASE i \in 1 .. at - 1
    <3>1. sel[i] # p
      BY <2>2, <1>1, SelectionFacts DEF p
    <3>. QED
      BY <2>2, <3>1, <1>3, <1>6 DEF IInv, NeverBlanks
  <2>. QED
    BY <2>1, <2>2, <1>1
<1>13. TrustedInv'
  <2>1. \A q \in Params : q # p => miss'[q] = miss[q] /\ skipped'[q] = skipped[q]
    BY <1>1, <1>4, <1>5, <1>7
  <2>2. TrustedInv
    BY DEF IInv
  <2>. QED
    BY <2>1, <2>2, <1>1, <1>5, <1>7 DEF TrustedInv
<1>. QED
  BY <1>8, <1>9, <1>10, <1>11, <1>12, <1>13 DEF IInv

-----------------------------------------------------------------------------
(* EndCycle: every selected id was reached. *)
LEMMA EndKeeps ==
  ASSUME IInv, EndCycle
  PROVE  IInv'
<1>1. /\ at = Len(sel) + 1 /\ at' = 0 /\ live' = live /\ sel' = sel
      /\ tick' = tick /\ slowDone' = slowDone /\ miss' = miss /\ cached' = cached
      /\ wait' = wait /\ rows' = rows /\ skipped' = skipped /\ edits' = edits
  BY DEF EndCycle
<1>2. sel \in Selections
  BY DEF IInv, TypeOK
<1>3. /\ Len(sel) \in Nat /\ Selected = {sel[i] : i \in 1 .. Len(sel)}
      /\ Selected' = Selected
  <2>1. sel \in Seq(Params) /\ Selected = {sel[i] : i \in 1 .. Len(sel)}
    BY <1>2, SelectionFacts DEF Selected
  <2>. QED
    BY <2>1, <1>1 DEF Selected
<1>4. Done = Selected /\ Done' = Selected
  <2>1. at # 0 /\ at - 1 = Len(sel)
    BY <1>1, <1>3
  <2>. QED
    BY <2>1, <1>1, <1>3 DEF Done
<1>5. TypeOK'
  <2>1. at' \in 0 .. Len(sel') + 1
    BY <1>1, <1>3
  <2>. QED
    BY <2>1, <1>1 DEF IInv, TypeOK
<1>6. RowsInv' /\ HistoryInv'
  BY <1>1, <1>3 DEF IInv, RowsInv, HistoryInv
<1>7. RecordInv' /\ NeverBlanks' /\ LaneInv'
  BY <1>1, <1>4 DEF IInv, RecordInv, NeverBlanks, LaneInv
<1>8. TrustedInv'
  BY <1>1, <1>3, <1>4 DEF IInv, TrustedInv
<1>. QED
  BY <1>5, <1>6, <1>7, <1>8 DEF IInv

(* Select: an id that was not selected has no cycles to count. *)
LEMMA SelectKeeps ==
  ASSUME IInv, NEW s \in Selections, Select(s)
  PROVE  IInv'
<1>1. /\ live /\ at = 0 /\ at' = 0 /\ live' = live /\ sel' = s /\ rows' = <<>>
      /\ tick' = tick /\ slowDone' = slowDone /\ miss' = miss /\ cached' = cached
      /\ wait' = wait /\ edits < MaxEdits /\ edits' = edits + 1
      /\ skipped' = [p \in Params |-> IF p \in ToSet(s) THEN skipped[p] ELSE 0]
  BY DEF Select
<1>2. /\ s \in Seq(Params) /\ Selected' = ToSet(s) /\ ToSet(s) \subseteq Params
      /\ Len(s) \in Nat
  BY <1>1, SelectionFacts DEF Selected
<1>3. Done = Selected /\ Done' = ToSet(s)
  BY <1>1, <1>2 DEF Done
<1>4. skipped \in [Params -> 0 .. MaxSkipped] /\ tick \in 0 .. RetryEvery - 1
      /\ edits \in 0 .. MaxEdits
  BY DEF IInv, TypeOK
<1>5. \A p \in Params : /\ p \in ToSet(s) => skipped'[p] = skipped[p]
                        /\ p \notin ToSet(s) => skipped'[p] = 0
                        /\ p \notin Selected => skipped'[p] = 0
  BY <1>1, <1>4 DEF IInv, HistoryInv
<1>6. TypeOK'
  <2>1. at' \in 0 .. Len(sel') + 1 /\ edits' \in 0 .. MaxEdits
    BY <1>1, <1>2, <1>4, PollAssumption
  <2>2. rows' \in Seq(Row)
    BY <1>1
  <2>3. skipped' \in [Params -> 0 .. MaxSkipped]
    BY <1>1, <1>4, PollAssumption
  <2>4. /\ live' \in BOOLEAN /\ sel' \in Selections /\ tick' \in 0 .. RetryEvery - 1
        /\ slowDone' \in BOOLEAN /\ miss' \in [Params -> 0 .. MissLimit]
        /\ cached' \subseteq Params /\ wait' \in [Params -> 0 .. SlowInterval]
    BY <1>1 DEF IInv, TypeOK
  <2>. QED
    BY <2>1, <2>2, <2>3, <2>4 DEF TypeOK
<1>7. RowsInv' /\ HistoryInv' /\ RecordInv' /\ NeverBlanks' /\ LaneInv'
  BY <1>1, <1>2, <1>5
  DEF RowsInv, HistoryInv, RecordInv, NeverBlanks, LaneInv
<1>8. TrustedInv'
  <2>. SUFFICES ASSUME NEW p \in ToSet(s) \cap Trusted
                PROVE  /\ skipped'[p] <= tick
                       /\ miss[p] < MissLimit => skipped'[p] = 0
    BY <1>1, <1>2, <1>3 DEF TrustedInv
  <2>1. CASE p \in Selected
    BY <2>1, <1>2, <1>3, <1>5 DEF IInv, TrustedInv
  <2>2. CASE p \notin Selected
    BY <2>2, <1>2, <1>4, <1>5
  <2>. QED
    BY <2>1, <2>2
<1>. QED
  BY <1>6, <1>7, <1>8 DEF IInv

-----------------------------------------------------------------------------
(* The slow lane.  A slow id waits for its interval to pass, and then for the  *)
(* lane: in each cycle it is due and passed over another id, one that was    *)
(* not due since, has taken the lane.  Q are those ids.  With room in the    *)
(* lane none of them is due again before there are no more of them.          *)
Pending(p) == IF p \in Done \/ slowDone THEN 0 ELSE 1

Behind(p, Q) ==
  /\ skipped[p] <= SlowInterval - 1 + Cardinality(Q) + Pending(p)
  /\ \A q \in Q : wait[q] >= SlowInterval - (Cardinality(Q) - 1 + Pending(p)) * MaxGap

Room(p) ==
  miss[p] < MissLimit =>
    IF wait[p] > 0 THEN skipped[p] + wait[p] <= SlowInterval
    ELSE \E Q \in SUBSET (SlowIds \ {p}) : Behind(p, Q)

(* A slow id that has the lane to itself is passed over until its interval has *)
(* passed, and then, if it is backed off, until the next retry cycle.        *)
Lone(p) ==
  /\ p \notin Done => ~slowDone
  /\ IF wait[p] > 0 THEN skipped[p] + wait[p] <= SlowInterval
     ELSE skipped[p] <= SlowInterval + (IF p \notin Done /\ tick = 0 THEN RetryEvery ELSE tick)

SlowInv ==
  live /\ edits = 0 =>
    \A p \in SlowIds :
      /\ LaneHasRoom => Room(p)
      /\ SlowIds = {p} => Lone(p)

LEMMA ProductGrows ==
  ASSUME NEW a \in Int, NEW b \in Int, NEW g \in Nat, a <= b
  PROVE  a * g <= b * g
<1>1. (b - a) * g >= 0
  <2>1. b - a \in Nat
    OBVIOUS
  <2>2. \A d \in Nat : d * g >= 0
    OBVIOUS
  <2>. QED
    BY <2>1, <2>2
<1>2. (b - a) * g = b * g - a * g
  OBVIOUS
<1>3. a * g \in Int /\ b * g \in Int
  OBVIOUS
<1>. QED
  BY <1>1, <1>2, <1>3

(* The slow ids of a selection are finitely many. *)
LEMMA SlowIdsFinite ==
  ASSUME TypeOK
  PROVE  /\ SlowIds \subseteq Params /\ SlowIds \subseteq Selected /\ IsFiniteSet(SlowIds)
         /\ Cardinality(SlowIds) \in Nat
<1>1. /\ sel \in Seq(Params) /\ Selected = {sel[i] : i \in 1 .. Len(sel)}
      /\ Selected \subseteq Params
  BY SelectionFacts DEF TypeOK, Selected
<1>2. [i \in 1 .. Len(sel) |-> sel[i]] \in Surjection(1 .. Len(sel), Selected)
  BY <1>1 DEF Surjection
<1>3. IsFiniteSet(1 .. Len(sel))
  BY <1>1, FS_Interval
<1>4. IsFiniteSet(Selected)
  BY <1>2, <1>3, FS_Surjection
<1>5. SlowIds \subseteq Selected
  BY DEF SlowIds
<1>. QED
  BY <1>1, <1>4, <1>5, FS_Subset, FS_CardinalityType

(* With room in the lane there are fewer cycles behind the others than it takes *)
(* the first of them to be due again.                                        *)
LEMMA RoomFacts ==
  ASSUME TypeOK, LaneHasRoom, NEW p \in SlowIds, NEW Q \in SUBSET (SlowIds \ {p})
  PROVE  /\ IsFiniteSet(Q) /\ Cardinality(Q) \in Nat
         /\ Cardinality(Q) <= Cardinality(SlowIds) - 1
         /\ Cardinality(Q) * MaxGap < SlowInterval /\ SlowInterval > 0
         /\ Q # {} => Cardinality(Q) >= 1
<1>1. /\ IsFiniteSet(SlowIds) /\ IsFiniteSet(SlowIds \ {p}) /\ Cardinality(SlowIds) \in Nat
      /\ Cardinality(SlowIds \ {p}) = Cardinality(SlowIds) - 1
  BY SlowIdsFinite, FS_RemoveElement
<1>2. IsFiniteSet(Q) /\ Cardinality(Q) <= Cardinality(SlowIds) - 1
  BY <1>1, FS_Subset
<1>3. Cardinality(Q) \in Nat
  BY <1>2, FS_CardinalityType
<1>4. Q # {} => Cardinality(Q) # 0
  BY <1>2, FS_EmptySet
<1>5. Cardinality(Q) * MaxGap <= (Cardinality(SlowIds) - 1) * MaxGap
  BY <1>1, <1>2, <1>3, PollAssumption, ProductGrows
<1>6. 0 <= Cardinality(Q) * MaxGap
  BY <1>3, PollAssumption, ProductGrows
<1>. QED
  BY <1>1, <1>2, <1>3, <1>4, <1>5, <1>6, PollAssumption DEF LaneHasRoom

LEMMA SlowBegin ==
  ASSUME IInv, SlowInv, NEW gap \in 1 .. MaxGap, BeginCycle(gap)
  PROVE  SlowInv'
<1>. USE PollAssumption
<1>1. /\ at = 0 /\ at' = 1 /\ UNCHANGED <<live, sel, miss, edits>> /\ slowDone' = FALSE
      /\ wait' = [p \in Params |-> IF wait[p] > gap THEN wait[p] - gap ELSE 0]
  BY DEF BeginCycle
<1>2. /\ SlowIds' = SlowIds /\ (LaneHasRoom' <=> LaneHasRoom) /\ Done = Selected /\ Done' = {}
      /\ TypeOK /\ SlowIds \subseteq Params /\ SlowIds \subseteq Selected
  BY <1>1, SlowIdsFinite DEF SlowIds, Selected, LaneHasRoom, Done, IInv
<1>3. /\ wait \in [Params -> 0 .. SlowInterval] /\ skipped \in [Params -> 0 .. MaxSkipped]
      /\ tick \in 0 .. RetryEvery - 1
      /\ tick' = IF tick + 1 = RetryEvery THEN 0 ELSE tick + 1
  BY <1>2, TickFacts DEF TypeOK, BeginCycle
<1>4. \A p \in SlowIds : skipped'[p] \in Nat /\ skipped'[p] <= skipped[p] + 1
  BY <1>2, <1>3 DEF BeginCycle, PassedCycle
<1>5. \A p \in SlowIds :
        wait'[p] \in Nat /\ wait'[p] >= wait[p] - gap /\ (wait'[p] > 0 => wait'[p] = wait[p] - gap)
  BY <1>1, <1>2, <1>3
<1>. SUFFICES ASSUME live, edits = 0, NEW p \in SlowIds
              PROVE  (LaneHasRoom => Room(p)') /\ (SlowIds = {p} => Lone(p)')
  BY <1>1, <1>2 DEF SlowInv
<1>6. Pending(p) = 0 /\ Pending(p)' = 1
  BY <1>1, <1>2 DEF Pending
<1>7. wait[p] \in Nat /\ skipped[p] \in Nat /\ SlowInterval \in Nat
  BY <1>2, <1>3
<1>8. ASSUME wait[p] > 0, skipped[p] + wait[p] <= SlowInterval
      PROVE  /\ wait'[p] > 0 => skipped'[p] + wait'[p] <= SlowInterval
             /\ skipped'[p] <= SlowInterval
  BY <1>4, <1>5, <1>7, <1>8
<1>9. ASSUME LaneHasRoom, miss[p] < MissLimit, ~(wait'[p] > 0)
      PROVE  \E Q \in SUBSET (SlowIds \ {p}) : Behind(p, Q)'
  <2>1. CASE wait[p] > 0
    <3>1. skipped'[p] <= SlowInterval
      BY <1>2, <1>8, <1>9, <2>1 DEF SlowInv, Room
    <3>2. Cardinality({}) = 0
      BY FS_EmptySet
    <3>3. Behind(p, {})'
      BY <1>4, <1>6, <1>7, <3>1, <3>2 DEF Behind
    <3>. QED
      BY <3>3
  <2>2. CASE ~(wait[p] > 0)
    <3>1. PICK Q \in SUBSET (SlowIds \ {p}) : Behind(p, Q)
      BY <1>9, <2>2 DEF SlowInv, Room
    <3>. DEFINE c == Cardinality(Q)
    <3>2. c \in Nat /\ gap <= MaxGap /\ gap \in Nat
      BY <1>2, <1>9, RoomFacts
    <3>3. /\ skipped[p] <= SlowInterval - 1 + c
          /\ \A q \in Q : wait[q] >= SlowInterval - (c - 1) * MaxGap
      BY <1>6, <3>1, <3>2 DEF Behind
    <3>4. (c - 1) * MaxGap + MaxGap = c * MaxGap /\ c * MaxGap \in Int /\ (c - 1) * MaxGap \in Int
      BY <3>2
    <3>5. ASSUME NEW q \in Q PROVE wait'[q] >= SlowInterval - c * MaxGap
      <4>1. wait[q] >= SlowInterval - (c - 1) * MaxGap /\ q \in SlowIds
        BY <3>3
      <4>2. wait'[q] >= wait[q] - gap /\ wait'[q] \in Nat /\ wait[q] \in Nat
        BY <1>2, <1>3, <1>5, <4>1
      <4>. HIDE DEF c
      <4>. QED
        BY <3>2, <3>4, <4>1, <4>2
    <3>6. skipped'[p] <= SlowInterval - 1 + c + 1 /\ c - 1 + 1 = c
      BY <1>4, <1>7, <3>2, <3>3
    <3>7. Behind(p, Q)'
      BY <1>6, <3>5, <3>6 DEF Behind
    <3>. QED
      BY <3>7
  <2>. QED
    BY <2>1, <2>2
<1>10. LaneHasRoom => Room(p)'
  <2>1. ASSUME LaneHasRoom, miss[p] < MissLimit, wait'[p] > 0
        PROVE  skipped'[p] + wait'[p] <= SlowInterval
    <3>1. wait[p] > 0
      BY <1>3, <1>5, <1>7, <2>1
    <3>. QED
      BY <1>8, <2>1, <3>1 DEF SlowInv, Room
  <2>. QED
    BY <1>1, <1>2, <1>9, <2>1 DEF Room
<1>11. SlowIds = {p} => Lone(p)'
  <2>. SUFFICES ASSUME SlowIds = {p} PROVE Lone(p)'
    OBVIOUS
  <2>1. Lone(p)
    BY DEF SlowInv
  <2>2. p \in Done /\ p \notin Done'
    BY <1>2
  <2>3. CASE wait[p] > 0
    <3>1. /\ wait'[p] > 0 => skipped'[p] + wait'[p] <= SlowInterval
          /\ skipped'[p] <= SlowInterval
      BY <1>8, <2>1, <2>3 DEF Lone
    <3>. QED
      BY <1>1, <1>3, <1>4, <1>7, <3>1 DEF Lone
  <2>4. CASE ~(wait[p] > 0)
    <3>1. skipped[p] <= SlowInterval + tick /\ ~(wait'[p] > 0)
      BY <1>5, <1>7, <2>1, <2>2, <2>4 DEF Lone
    <3>2. skipped'[p] <= SlowInterval + (IF tick' = 0 THEN RetryEvery ELSE tick')
      <4>1. skipped'[p] \in Nat /\ skipped'[p] <= skipped[p] + 1
        BY <1>4
      <4>2. skipped'[p] <= SlowInterval + tick + 1
        BY <1>3, <1>7, <3>1, <4>1
      <4>3. CASE tick + 1 = RetryEvery
        BY <1>3, <1>7, <4>1, <4>2, <4>3
      <4>4. CASE tick + 1 # RetryEvery
        BY <1>3, <1>7, <4>1, <4>2, <4>4
      <4>. QED
        BY <4>3, <4>4
    <3>. QED
      BY <1>1, <2>2, <3>1, <3>2 DEF Lone
  <2>. QED
    BY <2>3, <2>4
<1>. QED
  BY <1>10, <1>11

(* A visit leaves alone what is known of the ids it is not about, unless it takes *)
(* the lane from them.                                                       *)
LEMMA SlowSkip ==
  ASSUME IInv, SlowInv, Visit, Skip(sel[at])
  PROVE  SlowInv'
<1>. DEFINE r == sel[at]
<1>1. /\ sel' = sel /\ Selected' = Selected /\ r \in Selected /\ Done' = Done \cup {r}
      /\ live' = live /\ tick' = tick /\ edits' = edits
  BY VisitFacts
<1>2. /\ live /\ (BackedOff(r) \/ (Slow(r) /\ ~SlowDue(r)))
      /\ UNCHANGED <<slowDone, miss, wait, skipped>>
  BY DEF Skip, PassedOver
<1>. HIDE DEF r
<1>3. SlowIds' = SlowIds /\ (LaneHasRoom' <=> LaneHasRoom) /\ TypeOK
  BY <1>1 DEF SlowIds, LaneHasRoom, IInv
<1>. SUFFICES ASSUME edits = 0, NEW p \in SlowIds
              PROVE  (LaneHasRoom => Room(p)') /\ (SlowIds = {p} => Lone(p)')
  BY <1>1, <1>2, <1>3 DEF SlowInv
<1>4. /\ wait[p] \in Nat /\ skipped[p] \in Nat /\ tick \in Nat
      /\ slowDone \in BOOLEAN /\ miss[p] \in Nat
  BY <1>3, SlowIdsFinite, PollAssumption DEF TypeOK
<1>5. CASE p # r
  <2>1. Pending(p)' = Pending(p) /\ (p \in Done' <=> p \in Done)
    BY <1>1, <1>2, <1>5 DEF Pending
  <2>2. \A Q : Behind(p, Q) => Behind(p, Q)'
    BY <1>2, <2>1 DEF Behind
  <2>3. LaneHasRoom => Room(p)'
    BY <1>2, <1>3, <2>2 DEF SlowInv, Room
  <2>4. Lone(p) => Lone(p)'
    BY <1>1, <1>2, <2>1 DEF Lone
  <2>. QED
    BY <1>2, <2>3, <2>4 DEF SlowInv
<1>6. CASE p = r
  <2>1. LaneHasRoom => Room(p)'
    <3>. SUFFICES ASSUME LaneHasRoom, miss[p] < MissLimit, ~(wait[p] > 0)
                  PROVE  \E Q \in SUBSET (SlowIds \ {p}) : Behind(p, Q)'
      BY <1>2, <1>3 DEF SlowInv, Room
    <3>1. slowDone
      BY <1>2, <1>4, <1>6, PollAssumption DEF BackedOff, SlowDue
    <3>2. Pending(p)' = Pending(p)
      BY <1>2, <3>1 DEF Pending
    <3>3. PICK Q \in SUBSET (SlowIds \ {p}) : Behind(p, Q)
      BY <1>2 DEF SlowInv, Room
    <3>4. Behind(p, Q)'
      BY <1>2, <3>2, <3>3 DEF Behind
    <3>. QED
      BY <3>4
  <2>2. SlowIds = {p} => Lone(p)'
    <3>. SUFFICES ASSUME SlowIds = {p} PROVE Lone(p)'
      OBVIOUS
    <3>1. Lone(p) /\ p \in Done' /\ p \notin Done
      BY <1>1, <1>2, <1>6, VisitFacts DEF SlowInv, r
    <3>2. ~(wait[p] > 0) => tick # 0
      BY <1>2, <1>4, <1>6, <3>1 DEF Lone, BackedOff, SlowDue
    <3>. QED
      BY <1>1, <1>2, <3>1, <3>2 DEF Lone
  <2>. QED
    BY <2>1, <2>2
<1>. QED
  BY <1>5, <1>6

LEMMA SlowRead ==
  ASSUME IInv, SlowInv, Visit, ReadAnswers(sel[at]) \/ ReadMisses(sel[at])
  PROVE  SlowInv'
<1>. USE PollAssumption
<1>. DEFINE r == sel[at]
<1>1. /\ sel' = sel /\ Selected' = Selected /\ r \in Selected /\ Done' = Done \cup {r}
      /\ r \in Params /\ r \notin Done /\ live' = live /\ tick' = tick /\ edits' = edits
  BY VisitFacts
<1>2. skipped' = [skipped EXCEPT ![r] = 0]
  BY DEF ReadAnswers, ReadMisses
<1>3. /\ miss' = [miss EXCEPT ![r] = 0]
         \/ miss' = [miss EXCEPT ![r] = IF @ < MissLimit THEN @ + 1 ELSE @]
      /\ IF live /\ Slow(r)
           THEN slowDone' = TRUE /\ wait' = [wait EXCEPT ![r] = SlowInterval]
           ELSE slowDone' = slowDone /\ wait' = wait
      /\ live /\ Slow(r) => ~slowDone /\ wait[r] = 0
  BY DEF ReadAnswers, ReadMisses, TakeLane, PassedOver, SlowDue
<1>. HIDE DEF r
<1>4. SlowIds' = SlowIds /\ (LaneHasRoom' <=> LaneHasRoom) /\ TypeOK /\ SlowIds \subseteq Params
  BY <1>1, SlowIdsFinite DEF SlowIds, LaneHasRoom, IInv
<1>5. /\ wait \in [Params -> 0 .. SlowInterval] /\ skipped \in [Params -> 0 .. MaxSkipped]
      /\ miss \in [Params -> 0 .. MissLimit]
  BY <1>4 DEF TypeOK
<1>. SUFFICES ASSUME live, edits = 0, NEW p \in SlowIds
              PROVE  (LaneHasRoom => Room(p)') /\ (SlowIds = {p} => Lone(p)')
  BY <1>1, <1>4 DEF SlowInv
<1>6. \A q \in Params : q # r => skipped'[q] = skipped[q] /\ miss'[q] = miss[q]
  BY <1>2, <1>3, <1>5
<1>7. CASE r \in Trusted
  <2>1. /\ p # r /\ p \in Params /\ slowDone' = slowDone /\ wait' = wait
        /\ skipped'[p] = skipped[p] /\ miss'[p] = miss[p]
    BY <1>3, <1>4, <1>6, <1>7 DEF SlowIds, Slow
  <2>2. Pending(p)' = Pending(p) /\ (p \in Done' <=> p \in Done)
    BY <1>1, <2>1 DEF Pending
  <2>3. \A Q : Behind(p, Q) => Behind(p, Q)'
    BY <2>1, <2>2 DEF Behind
  <2>4. LaneHasRoom => Room(p)'
    BY <1>4, <2>1, <2>3 DEF SlowInv, Room
  <2>5. Lone(p) => Lone(p)'
    BY <1>1, <2>1, <2>2 DEF Lone
  <2>. QED
    BY <2>4, <2>5 DEF SlowInv
<1>8. CASE r \notin Trusted
  <2>1. /\ r \in SlowIds /\ ~slowDone /\ slowDone' /\ wait[r] = 0
        /\ wait' = [wait EXCEPT ![r] = SlowInterval]
    BY <1>1, <1>3, <1>8 DEF SlowIds, Slow
  <2>2. wait'[r] = SlowInterval /\ skipped'[r] = 0 /\ \A q \in Params : q # r => wait'[q] = wait[q]
    BY <1>1, <1>2, <1>5, <2>1
  <2>3. CASE p = r
    <3>1. LaneHasRoom => SlowInterval > 0
      <4>1. {} \in SUBSET (SlowIds \ {p})
        OBVIOUS
      <4>. QED
        BY <1>4, <4>1, RoomFacts
    <3>2. LaneHasRoom => Room(p)'
      BY <2>2, <2>3, <3>1 DEF Room
    <3>3. Lone(p)'
      <4>1. p \in Done' /\ wait'[p] = SlowInterval /\ skipped'[p] = 0 /\ tick' \in Nat
            /\ SlowInterval \in Nat
        BY <1>1, <1>4, <2>2, <2>3 DEF TypeOK
      <4>2. 0 + SlowInterval <= SlowInterval
        OBVIOUS
      <4>3. SlowInterval \in Nat /\ tick' \in Nat
        BY <4>1
      <4>4. 0 <= SlowInterval + tick'
        <5>1. \A a, b \in Nat : 0 <= a + b
          OBVIOUS
        <5>. QED
          BY <4>3, <5>1
      <4>. QED
        BY <4>1, <4>2, <4>4 DEF Lone
    <3>. QED
      BY <3>2, <3>3
  <2>4. CASE p # r
    <3>1. /\ p \in Params /\ wait'[p] = wait[p] /\ skipped'[p] = skipped[p] /\ miss'[p] = miss[p]
          /\ wait[p] \in Nat /\ skipped[p] \in Nat /\ SlowInterval \in Nat
      BY <1>4, <1>5, <1>6, <2>2, <2>4
    <3>2. SlowIds # {p}
      BY <2>1, <2>4
    <3>. SUFFICES ASSUME LaneHasRoom, miss[p] < MissLimit, ~(wait[p] > 0)
                  PROVE  \E Q \in SUBSET (SlowIds \ {p}) : Behind(p, Q)'
      <4>1. LaneHasRoom => Room(p)
        BY DEF SlowInv
      <4>2. ASSUME LaneHasRoom /\ miss[p] < MissLimit /\ ~(wait[p] > 0) =>
                     \E Q \in SUBSET (SlowIds \ {p}) : Behind(p, Q)'
            PROVE  LaneHasRoom => Room(p)'
        BY <1>4, <3>1, <4>1, <4>2 DEF Room
      <4>. QED
        BY <3>2, <4>2
    <3>3. PICK Q \in SUBSET (SlowIds \ {p}) : Behind(p, Q)
      BY DEF SlowInv, Room
    <3>. DEFINE c == Cardinality(Q)
    <3>4. /\ IsFiniteSet(Q) /\ c \in Nat /\ (Q # {} => c >= 1)
          /\ c * MaxGap < SlowInterval /\ c * MaxGap \in Int /\ c * MaxGap >= 0
      <4>1. c \in Nat /\ IsFiniteSet(Q) /\ c * MaxGap < SlowInterval /\ (Q # {} => c >= 1)
        BY <1>4, RoomFacts
      <4>2. 0 * MaxGap <= c * MaxGap /\ 0 * MaxGap = 0
        BY <4>1, ProductGrows
      <4>. QED
        BY <4>1, <4>2
    <3>5. Pending(p)' = 0
      BY <2>1 DEF Pending
    <3>6. CASE p \in Done
      <4>1. Pending(p) = 0
        BY <3>6 DEF Pending
      <4>2. /\ skipped[p] <= SlowInterval - 1 + c
            /\ \A q \in Q : wait[q] >= SlowInterval - (c - 1) * MaxGap
        BY <3>3, <3>4, <4>1 DEF Behind
      <4>3. ASSUME NEW q \in Q PROVE wait'[q] >= SlowInterval - (c - 1) * MaxGap
        <5>1. 0 * MaxGap <= (c - 1) * MaxGap /\ 0 * MaxGap = 0 /\ (c - 1) * MaxGap \in Int
          BY <3>4, ProductGrows
        <5>2. q \in Params
          BY <1>4
        <5>. HIDE DEF c
        <5>. QED
          BY <2>2, <3>1, <4>2, <5>1, <5>2
      <4>4. Behind(p, Q)'
        BY <3>1, <3>4, <3>5, <4>2, <4>3 DEF Behind
      <4>. QED
        BY <4>4
    <3>7. CASE p \notin Done
      <4>1. Pending(p) = 1
        BY <2>1, <3>7 DEF Pending
      <4>2. /\ skipped[p] <= SlowInterval - 1 + c + 1
            /\ \A q \in Q : wait[q] >= SlowInterval - c * MaxGap
        BY <3>3, <3>4, <4>1 DEF Behind
      <4>3. r \notin Q
        BY <2>1, <3>1, <3>4, <4>2
      <4>4. PICK Q2 \in SUBSET (SlowIds \ {p}) : Q2 = Q \cup {r}
        BY <2>1, <2>4
      <4>5. Cardinality(Q2) = c + 1
        BY <3>4, <4>3, <4>4, FS_AddElement
      <4>6. ASSUME NEW q \in Q2 PROVE wait'[q] >= SlowInterval - c * MaxGap
        <5>1. CASE q = r
          BY <2>2, <3>1, <3>4, <5>1
        <5>2. CASE q # r
          BY <1>4, <2>2, <4>2, <4>4, <5>2
        <5>. QED
          BY <5>1, <5>2
      <4>7. c + 1 - 1 + 0 = c /\ SlowInterval - 1 + (c + 1) + 0 = SlowInterval - 1 + c + 1
        BY <3>1, <3>4
      <4>8. skipped'[p] <= SlowInterval - 1 + Cardinality(Q2) + Pending(p)'
        BY <3>1, <3>5, <4>2, <4>7, <4>5
      <4>9. Cardinality(Q2) - 1 + Pending(p)' = c
        BY <3>4, <3>5, <4>5
      <4>10. Behind(p, Q2)'
        BY <4>6, <4>8, <4>9 DEF Behind
      <4>. QED
        BY Zenon, <4>4, <4>10
    <3>. QED
      BY <3>6, <3>7
  <2>. QED
    BY <2>3, <2>4
<1>. QED
  BY <1>7, <1>8

LEMMA SlowStays ==
  ASSUME IInv, SlowInv,
         UNCHANGED <<live, sel, tick, slowDone, miss, wait, skipped, edits>>,
         UNCHANGED at \/ EndCycle
  PROVE  SlowInv'
<1>1. /\ Selected' = Selected /\ SlowIds' = SlowIds /\ (LaneHasRoom' <=> LaneHasRoom)
  BY DEF Selected, SlowIds, LaneHasRoom
<1>2. Done' = Done
  <2>1. CASE UNCHANGED at
    BY <1>1, <2>1 DEF Done
  <2>2. CASE EndCycle
    <3>1. at = Len(sel) + 1 /\ at' = 0 /\ sel \in Selections
      BY <2>2 DEF EndCycle, IInv, TypeOK
    <3>2. Len(sel) \in Nat /\ Selected = {sel[i] : i \in 1 .. Len(sel)}
      BY <3>1, SelectionFacts DEF Selected
    <3>. QED
      BY <1>1, <3>1, <3>2 DEF Done
  <2>. QED
    BY <2>1, <2>2
<1>3. \A p : Pending(p)' = Pending(p)
  BY <1>2 DEF Pending
<1>4. \A p, Q : Behind(p, Q)' <=> Behind(p, Q)
  BY <1>3 DEF Behind
<1>5. \A p : (Room(p)' <=> Room(p)) /\ (Lone(p)' <=> Lone(p))
  BY <1>1, <1>2, <1>4 DEF Room, Lone
<1>. QED
  BY <1>1, <1>5 DEF SlowInv
-----------------------------------------------------------------------------
(* The scheduler's state is as IInv says in every cycle of every run. *)
THEOREM Invariance == Spec => []IInv
<1>1. IInv /\ [Next]_vars => IInv'
  <2>. SUFFICES ASSUME IInv, [Next]_vars PROVE IInv'
    OBVIOUS
  <2>1. ASSUME NEW gap \in 1 .. MaxGap, BeginCycle(gap) PROVE IInv'
    BY <2>1, BeginKeeps
  <2>2. CASE Visit
    <3>1. Skip(sel[at]) \/ ReadAnswers(sel[at]) \/ ReadMisses(sel[at])
      BY <2>2 DEF Visit
    <3>. QED
      BY <3>1, <2>2, SkipKeeps, ReadKeeps
  <2>3. CASE EndCycle
    BY <2>3, EndKeeps
  <2>4. ASSUME NEW s \in Selections, Select(s) PROVE IInv'
    BY <2>4, SelectKeeps
  <2>5. CASE UNCHANGED vars
    <3>1. /\ live' = live /\ sel' = sel /\ tick' = tick /\ at' = at
          /\ slowDone' = slowDone /\ miss' = miss /\ cached' = cached
          /\ wait' = wait /\ rows' = rows /\ skipped' = skipped /\ edits' = edits
      BY <2>5 DEF vars
    <3>2. TypeOK' /\ RowsInv' /\ HistoryInv' /\ NeverBlanks'
      BY <3>1 DEF IInv, TypeOK, RowsInv, HistoryInv, NeverBlanks, Selected
    <3>3. Done' = Done /\ Selected' = Selected
      BY <3>1 DEF Done, Selected
    <3>4. RecordInv' /\ TrustedInv' /\ LaneInv'
      BY <3>1, <3>3 DEF IInv, RecordInv, TrustedInv, LaneInv
    <3>. QED
      BY <3>2, <3>4 DEF IInv
  <2>. QED
    BY <2>1, <2>2, <2>3, <2>4, <2>5 DEF Next
<1>. QED
  BY Initially, <1>1, PTL DEF Spec

(* Every variable of the scheduler keeps its type, for any parameters. *)
THEOREM TypeCorrect == Spec => []TypeOK
<1>1. IInv => TypeOK
  BY DEF IInv
<1>. QED
  BY Invariance, <1>1, PTL

(* However many silent and untrusted ids share the list, and however often it  *)
(* is edited, a trusted id is tried in each cycle, or at worst once in every *)
(* RetryEvery cycles while it is backed off.                                 *)
THEOREM TrustedAreRetried == Spec => []TrustedRetried
<1>1. IInv => TrustedRetried
  <2>. SUFFICES ASSUME IInv, at = 0, NEW p \in Selected \cap Trusted
                PROVE  /\ skipped[p] < RetryEvery
                       /\ miss[p] < MissLimit => skipped[p] = 0
    BY DEF TrustedRetried
  <2>1. p \in Done /\ tick \in 0 .. RetryEvery - 1 /\ p \in Params
        /\ skipped \in [Params -> 0 .. MaxSkipped]
    BY PollAssumption DEF Done, IInv, TypeOK
  <2>2. skipped[p] <= tick /\ (miss[p] < MissLimit => skipped[p] = 0)
    BY <2>1 DEF IInv, TrustedInv
  <2>. QED
    BY <2>1, <2>2, PollAssumption
<1>. QED
  BY Invariance, <1>1, PTL

(* At most one untrusted id is read in a live cycle, however many are chosen. *)
THEOREM SlowReadsAreBounded == Spec => []OneSlowRead
<1>1. IInv => OneSlowRead
  <2>. SUFFICES ASSUME IInv, live, at > 0
                PROVE  Cardinality({p \in Selected \ Trusted : skipped[p] = 0}) <= 1
    BY DEF OneSlowRead
  <2>. DEFINE S == {p \in Selected \ Trusted : skipped[p] = 0}
  <2>1. \A p, q \in S : p = q
    BY DEF IInv, LaneInv
  <2>. HIDE DEF S
  <2>5. Cardinality({}) = 0 /\ \A x : Cardinality({x}) = 1
    BY FS_EmptySet, FS_Singleton
  <2>2. S = {} \/ \E p : S = {p}
    BY <2>1
  <2>3. Cardinality(S) = 0 \/ Cardinality(S) = 1
    BY <2>2, <2>5
  <2>4. Cardinality(S) <= 1
    BY <2>3
  <2>. QED
    BY <2>4 DEF S
<1>. QED
  BY Invariance, <1>1, PTL

(* Recording asks for every parameter in every cycle and shows no old value;  *)
(* the live view never goes back from a value to a blank.                    *)
THEOREM RowsAreFaithful == Spec => []RowsFaithful
<1>1. IInv => RowsFaithful
  BY DEF IInv, RecordInv, RecordFaithful, Done, RowsFaithful
<1>. QED
  BY Invariance, <1>1, PTL


(* A slow id gets its turn: with room in the lane after its interval and one    *)
(* cycle for each of the others, and alone in it at the latest in the retry  *)
(* cycle after its interval.                                                 *)
THEOREM SlowIdsGetTheirTurn == Spec => []SlowTurn
<1>1. Init => SlowInv
  <2>. SUFFICES ASSUME Init, NEW p \in SlowIds PROVE (LaneHasRoom => Room(p)) /\ Lone(p)
    BY DEF SlowInv
  <2>1. IInv /\ TypeOK /\ p \in Selected /\ p \in Params
    BY Initially, SlowIdsFinite DEF IInv
  <2>2. p \in Done /\ wait[p] = 0 /\ skipped[p] = 0 /\ tick = 0
    BY <2>1 DEF Init, Done
  <2>3. Lone(p)
    BY <2>2, PollAssumption DEF Lone
  <2>4. ASSUME LaneHasRoom PROVE Behind(p, {})
    <3>1. Cardinality({}) = 0 /\ {} \in SUBSET (SlowIds \ {p})
      BY FS_EmptySet
    <3>2. SlowInterval > 0
      BY <2>1, <2>4, <3>1, RoomFacts
    <3>. QED
      BY <2>2, <3>1, <3>2, PollAssumption DEF Behind, Pending
  <2>5. LaneHasRoom => Room(p)
    BY <2>2, <2>4 DEF Room
  <2>. QED
    BY <2>3, <2>5
<1>2. IInv /\ SlowInv /\ [Next]_vars => SlowInv'
  <2>. SUFFICES ASSUME IInv, SlowInv, [Next]_vars PROVE SlowInv'
    OBVIOUS
  <2>1. ASSUME NEW gap \in 1 .. MaxGap, BeginCycle(gap) PROVE SlowInv'
    BY <2>1, SlowBegin
  <2>2. CASE Visit
    BY <2>2, SlowSkip, SlowRead DEF Visit
  <2>3. CASE EndCycle
    BY <2>3, SlowStays DEF EndCycle
  <2>4. ASSUME NEW s \in Selections, Select(s) PROVE SlowInv'
    <3>1. edits' # 0
      BY <2>4 DEF Select, IInv, TypeOK
    <3>. QED
      BY <3>1 DEF SlowInv
  <2>5. CASE UNCHANGED vars
    BY <2>5, SlowStays DEF vars
  <2>. QED
    BY <2>1, <2>2, <2>3, <2>4, <2>5 DEF Next
<1>3. IInv /\ SlowInv => SlowTurn
  <2>. SUFFICES ASSUME IInv, SlowInv, at = 0, edits = 0, NEW p \in SlowIds
                PROVE  /\ LaneHasRoom /\ miss[p] < MissLimit =>
                            skipped[p] < SlowInterval + Cardinality(SlowIds)
                       /\ SlowIds = {p} => skipped[p] < SlowInterval + RetryEvery
    BY DEF SlowTurn
  <2>1. /\ TypeOK /\ p \in Selected /\ p \in Params /\ p \in Done
        /\ skipped[p] \in Nat /\ wait[p] \in Nat /\ tick \in 0 .. RetryEvery - 1
        /\ SlowInterval \in Nat /\ RetryEvery \in Nat \ {0} /\ live \in BOOLEAN
    <3>1. TypeOK /\ p \in Selected /\ p \in Params /\ p \in Done
      BY SlowIdsFinite DEF IInv, Done
    <3>. QED
      BY <3>1, PollAssumption DEF TypeOK
  <2>2. Cardinality(SlowIds) \in Nat /\ Cardinality(SlowIds) >= 1
    BY <2>1, SlowIdsFinite, FS_EmptySet
  <2>3. CASE ~live
    <3>1. skipped[p] = 0
      BY <2>1, <2>3 DEF IInv, RecordInv
    <3>. QED
      BY <2>1, <2>2, <3>1
  <2>4. CASE live
    <3>1. ASSUME LaneHasRoom, miss[p] < MissLimit
          PROVE  skipped[p] < SlowInterval + Cardinality(SlowIds)
      <4>1. CASE wait[p] > 0
        BY <2>1, <2>2, <2>4, <3>1, <4>1 DEF SlowInv, Room
      <4>2. CASE ~(wait[p] > 0)
        <5>1. PICK Q \in SUBSET (SlowIds \ {p}) : Behind(p, Q)
          BY <2>4, <3>1, <4>2 DEF SlowInv, Room
        <5>2. Cardinality(Q) \in Nat /\ Cardinality(Q) <= Cardinality(SlowIds) - 1
          BY <2>1, <3>1, RoomFacts
        <5>3. Pending(p) = 0
          BY <2>1 DEF Pending
        <5>4. skipped[p] <= SlowInterval - 1 + Cardinality(Q)
          BY <2>1, <5>1, <5>2, <5>3 DEF Behind
        <5>. QED
          BY <2>1, <2>2, <5>2, <5>4
      <4>. QED
        BY <4>1, <4>2
    <3>2. ASSUME SlowIds = {p} PROVE skipped[p] < SlowInterval + RetryEvery
      <4>1. Lone(p)
        BY <2>4, <3>2 DEF SlowInv
      <4>. QED
        BY <2>1, <4>1 DEF Lone
    <3>. QED
      BY <3>1, <3>2
  <2>. QED
    BY <2>3, <2>4
<1>. QED
  BY <1>1, <1>2, <1>3, Invariance, PTL DEF Spec

-----------------------------------------------------------------------------
(* Every step of a trip is a step of the scheduler, or leaves it alone. *)
LEMMA StepPolls == [TripNext]_tripVars => [Next]_vars
<1>. SUFFICES ASSUME [TripNext]_tripVars PROVE [Next]_vars
  OBVIOUS
<1>1. ASSUME NEW gap \in 1 .. MaxGap, TripBegin(gap) PROVE Next
  BY <1>1 DEF TripBegin, Next
<1>2. CASE TripVisit
  BY <1>2 DEF TripVisit, Next
<1>3. CASE TripEnd
  BY <1>3 DEF TripEnd, Next
<1>4. CASE Stop
  BY <1>4 DEF Stop
<1>5. ASSUME NEW s \in Selections, TripSelect(s) PROVE Next
  BY <1>5 DEF TripSelect, Next
<1>6. CASE UNCHANGED tripVars
  BY <1>6 DEF tripVars
<1>. QED
  BY <1>1, <1>2, <1>3, <1>4, <1>5, <1>6 DEF TripNext

(* record and monitor run the scheduler of the dashboard: a trip implements it. *)
THEOREM TripPolls == TripSpec => Spec
<1>1. TripInit => Init
  BY DEF TripInit
<1>. QED
  BY <1>1, StepPolls, PTL DEF TripSpec, Spec

(* What the scheduler guarantees holds of a trip, stopped anywhere. *)
THEOREM TripKeepsTheSchedule == TripSpec => [](TrustedRetried /\ OneSlowRead /\ RowsFaithful /\ SlowTurn)
BY TripPolls, TrustedAreRetried, SlowReadsAreBounded, RowsAreFaithful, SlowIdsGetTheirTurn, PTL

-----------------------------------------------------------------------------
(* The row TripEnd writes has a cell, and its history an entry, for each id. *)
LEMMA RowFacts ==
  ASSUME IInv, TripTypeOK
  PROVE  /\ FileRow \in [t : Nat, cells : Seq(Cell)]
         /\ ReadRow \in Seq(Value \cup {"unread"})
<1>1. /\ sel \in Seq(Params) /\ Len(sel) \in Nat /\ value \in [Params -> Value]
      /\ \A i \in 1 .. Len(sel) : sel[i] \in Params
  BY SelectionFacts DEF TripTypeOK, TypeOK
<1>2. NoCell \in Cell
  BY DEF NoCell, Cell, Value
<1>3. ASSUME NEW i \in 1 .. Len(sel)
      PROVE  /\ RecordCell(i) \in Cell /\ MonitorCell(i) \in Cell
             /\ value[sel[i]] \in Value
  <2>1. value[sel[i]] \in Value
    BY <1>1
  <2>2. [text |-> "number", value |-> value[sel[i]]] \in Cell
    BY <2>1 DEF Cell
  <2>3. [text |-> "word", value |-> value[sel[i]]] \in Cell
    BY <2>1 DEF Cell
  <2>4. RecordCell(i) \in Cell
    BY <1>2, <2>2 DEF RecordCell
  <2>5. MonitorCell(i) \in Cell
    BY <1>2, <2>2, <2>3 DEF MonitorCell
  <2>. QED
    BY <2>1, <2>4, <2>5
<1>4. [i \in 1 .. Len(sel) |-> IF live THEN MonitorCell(i) ELSE RecordCell(i)] \in Seq(Cell)
  BY <1>1, <1>3
<1>5. clock \in Nat
  BY DEF TripTypeOK
<1>6. FileRow \in [t : Nat, cells : Seq(Cell)]
  BY <1>4, <1>5 DEF FileRow
<1>7. ReadRow \in Seq(Value \cup {"unread"})
  BY <1>1, <1>3 DEF ReadRow
<1>. QED
  BY <1>6, <1>7

(* The rows of a file are in the order of time, and those of a recording say in  *)
(* each column what was read in their own cycle, or have a gap there.        *)
FileFaithful ==
  /\ \A i, j \in DOMAIN file : i < j => file[i].t < file[j].t
  /\ ~live => \A i \in DOMAIN file :
                /\ Len(file[i].cells) = Len(sel) /\ Len(read[i]) = Len(sel)
                /\ \A c \in 1 .. Len(sel) :
                     Sample(file[i].cells[c]) = IF read[i][c] = "unread" THEN "gap" ELSE read[i][c]

(* A row is written at the time its cycle began. *)
ClockInv == \A i \in DOMAIN file : IF at = 0 THEN file[i].t <= clock ELSE file[i].t < clock

TripInv ==
  /\ TripTypeOK
  /\ csv = "off" => file = <<>>
  /\ FileFaithful
  /\ ClockInv

(* The row of a recording says what was read in the cycle that ends. *)
LEMMA RowSaysWhatWasRead ==
  ASSUME IInv, TripTypeOK, ~live, at = Len(sel) + 1
  PROVE  /\ Len(FileRow.cells) = Len(sel) /\ Len(ReadRow) = Len(sel)
         /\ \A c \in 1 .. Len(sel) :
              Sample(FileRow.cells[c]) = IF ReadRow[c] = "unread" THEN "gap" ELSE ReadRow[c]
<1>1. /\ sel \in Seq(Params) /\ Len(sel) \in Nat /\ value \in [Params -> Value]
      /\ \A i \in 1 .. Len(sel) : sel[i] \in Params
  BY SelectionFacts DEF TripTypeOK, TypeOK
<1>2. /\ FileRow.cells = [i \in 1 .. Len(sel) |-> RecordCell(i)]
      /\ FileRow.cells \in Seq(Cell) /\ ReadRow \in Seq(Value \cup {"unread"})
  BY RowFacts DEF FileRow
<1>3. DOMAIN FileRow.cells = 1 .. Len(sel) /\ DOMAIN ReadRow = 1 .. Len(sel)
  BY <1>2 DEF ReadRow
<1>4. Len(FileRow.cells) = Len(sel) /\ Len(ReadRow) = Len(sel)
  BY <1>1, <1>2, <1>3
<1>5. ASSUME NEW c \in 1 .. Len(sel)
      PROVE  Sample(FileRow.cells[c]) = IF ReadRow[c] = "unread" THEN "gap" ELSE ReadRow[c]
  <2>1. FileRow.cells[c] = RecordCell(c)
    BY <1>2
  <2>2. ReadRow[c] = IF rows[c] = "fresh" THEN value[sel[c]] ELSE "unread"
    BY DEF ReadRow
  <2>3. value[sel[c]] \in Value
    BY <1>1
  <2>4. rows[c] \in Row /\ rows[c] # "cached"
    <3>1. rows \in Seq(Row) /\ Len(rows) = Len(sel) /\ c \in DOMAIN rows
      BY <1>1 DEF IInv, TypeOK, RowsInv
    <3>. QED
      BY <3>1 DEF IInv, RecordInv
  <2>5. CASE rows[c] = "fresh"
    BY <2>1, <2>2, <2>3, <2>5 DEF RecordCell, Sample, Value
  <2>6. CASE rows[c] = "miss"
    BY <2>1, <2>2, <2>6 DEF RecordCell, NoCell, Sample
  <2>. QED
    BY <2>4, <2>5, <2>6 DEF Row
<1>. QED
  BY <1>4, <1>5

LEMMA FileTimes ==
  ASSUME TripTypeOK
  PROVE  /\ DOMAIN file = 1 .. Len(file) /\ Len(file) \in Nat /\ clock \in Nat
         /\ \A i \in DOMAIN file : file[i].t \in Nat /\ file # <<>>
<1>1. file \in Seq([t : Nat, cells : Seq(Cell)]) /\ clock \in Nat
  BY DEF TripTypeOK
<1>2. ASSUME NEW i \in DOMAIN file PROVE file[i].t \in Nat /\ file # <<>>
  <2>1. file[i] \in [t : Nat, cells : Seq(Cell)]
    <3>. DEFINE E == [t : Nat, cells : Seq(Cell)]
    <3>1. file \in Seq(E)
      BY <1>1
    <3>. HIDE DEF E
    <3>2. file[i] \in E
      BY <3>1
    <3>. QED
      BY <3>2 DEF E
  <2>2. file[i].t \in Nat
    BY <2>1
  <2>3. file # <<>>
    BY <1>1
  <2>. QED
    BY <2>2, <2>3
<1>. QED
  BY <1>1, <1>2

(* A step that writes no row. *)
LEMMA UnwrittenKeeps ==
  ASSUME IInv, IInv', TripInv,
         UNCHANGED <<file, read>>, clock' \in Nat, csv' \in {"off", "open", "closed"},
         value' \in [Params -> Value], csv' = "off" => csv = "off",
         live' = live, ~live => sel' = sel,
         IF at' = 0 THEN at = 0 /\ clock' = clock
         ELSE (at > 0 /\ clock' = clock) \/ clock' > clock \/ file = <<>>
  PROVE  TripInv'
<1>1. TripTypeOK'
  BY DEF TripInv, TripTypeOK, IInv
<1>2. FileFaithful'
  BY DEF TripInv, FileFaithful
<1>3. ASSUME NEW i \in DOMAIN file
      PROVE  IF at' = 0 THEN file[i].t <= clock' ELSE file[i].t < clock'
  <2>1. clock \in Nat
    BY FileTimes DEF TripInv
  <2>2. file[i].t \in Nat /\ file # <<>>
    BY FileTimes DEF TripInv
  <2>3. IF at = 0 THEN file[i].t <= clock ELSE file[i].t < clock
    BY DEF TripInv, ClockInv
  <2>4. at \in Nat
    BY SelectionFacts DEF IInv, TypeOK
  <2>. QED
    BY <2>1, <2>2, <2>3, <2>4
<1>4. ClockInv'
  BY <1>3 DEF ClockInv
<1>. QED
  BY <1>1, <1>2, <1>4 DEF TripInv

LEMMA WrittenKeeps ==
  ASSUME IInv, IInv', TripInv, TripEnd, csv = "open"
  PROVE  TripInv'
<1>1. /\ at = Len(sel) + 1 /\ at' = 0 /\ UNCHANGED <<live, sel, clock, csv, value>>
      /\ file' = Append(file, FileRow) /\ read' = Append(read, ReadRow)
  BY DEF TripEnd, EndCycle
<1>2. /\ file \in Seq([t : Nat, cells : Seq(Cell)]) /\ clock \in Nat
      /\ read \in Seq(Seq(Value \cup {"unread"})) /\ Len(read) = Len(file)
      /\ FileRow \in [t : Nat, cells : Seq(Cell)]
      /\ ReadRow \in Seq(Value \cup {"unread"})
      /\ FileRow.t = clock /\ sel \in Seq(Params)
  BY RowFacts, SelectionFacts DEF TripInv, TripTypeOK, FileRow, IInv, TypeOK
<1>3. /\ Len(file') = Len(file) + 1 /\ Len(read') = Len(file')
      /\ file' \in Seq([t : Nat, cells : Seq(Cell)])
      /\ read' \in Seq(Seq(Value \cup {"unread"}))
      /\ DOMAIN file' = 1 .. Len(file) + 1 /\ DOMAIN file = 1 .. Len(file)
      /\ file'[Len(file) + 1] = FileRow /\ read'[Len(file) + 1] = ReadRow
      /\ \A i \in 1 .. Len(file) : file'[i] = file[i] /\ read'[i] = read[i]
  BY <1>1, <1>2
<1>4. TripTypeOK'
  BY <1>1, <1>3 DEF TripInv, TripTypeOK, IInv
<1>5. ASSUME NEW i \in DOMAIN file
      PROVE  file[i].t < clock /\ file[i].t \in Nat
  <2>1. at # 0
    <3>1. Len(sel) \in Nat
      BY <1>2
    <3>. QED
      BY <1>1, <3>1
  <2>2. file[i].t \in Nat
    BY FileTimes DEF TripInv
  <2>. QED
    BY <2>1, <2>2 DEF TripInv, ClockInv
<1>6. \A i, j \in DOMAIN file' : i < j => file'[i].t < file'[j].t
  <2>. SUFFICES ASSUME NEW i \in DOMAIN file', NEW j \in DOMAIN file', i < j
                PROVE  file'[i].t < file'[j].t
    OBVIOUS
  <2>1. i \in DOMAIN file /\ Len(file) \in Nat
    BY <1>2, <1>3
  <2>2. CASE j \in DOMAIN file
    BY <1>3, <2>1, <2>2 DEF TripInv, FileFaithful
  <2>3. CASE j = Len(file) + 1
    BY <1>2, <1>3, <1>5, <2>1, <2>3
  <2>. QED
    BY <1>3, <2>1, <2>2, <2>3
<1>7. ASSUME ~live', NEW i \in DOMAIN file'
      PROVE  /\ Len(file'[i].cells) = Len(sel') /\ Len(read'[i]) = Len(sel')
             /\ \A c \in 1 .. Len(sel') :
                  Sample(file'[i].cells[c]) = IF read'[i][c] = "unread" THEN "gap" ELSE read'[i][c]
  <2>1. CASE i \in DOMAIN file
    BY <1>1, <1>3, <1>7, <2>1 DEF TripInv, FileFaithful
  <2>2. CASE i = Len(file) + 1
    <3>1. file'[i] = FileRow /\ read'[i] = ReadRow /\ ~live
      BY <1>1, <1>3, <1>7, <2>2
    <3>2. TripTypeOK
      BY DEF TripInv
    <3>. HIDE DEF FileRow, ReadRow
    <3>. QED
      BY <1>1, <3>1, <3>2, RowSaysWhatWasRead
  <2>3. i \in DOMAIN file \/ i = Len(file) + 1
    BY <1>2, <1>3
  <2>. QED
    BY <2>1, <2>2, <2>3
<1>8. FileFaithful'
  BY <1>6, <1>7 DEF FileFaithful
<1>9. ClockInv'
  <2>. SUFFICES ASSUME NEW i \in DOMAIN file' PROVE file'[i].t <= clock
    BY <1>1 DEF ClockInv
  <2>1. CASE i \in DOMAIN file
    <3>1. file'[i] = file[i] /\ file[i].t < clock /\ file[i].t \in Nat /\ clock \in Nat
      BY <1>2, <1>3, <1>5, <2>1
    <3>. QED
      BY <3>1
  <2>2. CASE i = Len(file) + 1
    <3>1. file'[i].t = clock /\ clock \in Nat
      BY <1>2, <1>3, <2>2
    <3>. QED
      BY <3>1
  <2>3. Len(file) \in Nat
    BY <1>2
  <2>. QED
    BY <1>3, <2>1, <2>2, <2>3
<1>. QED
  BY <1>1, <1>4, <1>8, <1>9 DEF TripInv

(* The trip keeps its types, and its file is faithful. *)
THEOREM TripInvariance == TripSpec => []TripInv
<1>1. TripInit => TripInv
  <2>. SUFFICES ASSUME TripInit PROVE TripInv
    OBVIOUS
  <2>1. TypeOK /\ Len(<<>>) = 0
    BY Initially DEF TripInit, IInv
  <2>2. TripTypeOK
    BY <2>1 DEF TripInit, TripTypeOK, Value
  <2>. QED
    BY <2>2 DEF TripInit, TripInv, FileFaithful, ClockInv
<1>2. IInv /\ IInv' /\ TripInv /\ [TripNext]_tripVars => TripInv'
  <2>. SUFFICES ASSUME IInv, IInv', TripInv, [TripNext]_tripVars PROVE TripInv'
    OBVIOUS
  <2>. USE PollAssumption
  <2>1. /\ clock \in Nat /\ csv \in {"off", "open", "closed"} /\ value \in [Params -> Value]
        /\ at \in Nat /\ (csv = "off" => file = <<>>)
    BY SelectionFacts DEF TripInv, TripTypeOK, IInv, TypeOK
  <2>2. ASSUME NEW gap \in 1 .. MaxGap, TripBegin(gap) PROVE TripInv'
    <3>1. /\ UNCHANGED <<file, read, value, csv, live, sel>> /\ at' = 1
          /\ clock' \in Nat /\ (clock' > clock \/ file = <<>>)
      BY <2>1, <2>2 DEF TripBegin, BeginCycle
    <3>. QED
      BY <2>1, <3>1, UnwrittenKeeps
  <2>3. CASE TripVisit
    <3>1. /\ UNCHANGED <<file, read, clock, csv, live, sel>> /\ at > 0 /\ at' = at + 1
          /\ sel[at] \in Params
      BY <2>1, <2>3, SelectionFacts DEF TripVisit, Visit, IInv, TypeOK
    <3>2. value' \in [Params -> Value]
      <4>1. ASSUME NEW v \in Readable(sel[at]), value' = [value EXCEPT ![sel[at]] = v]
            PROVE  value' \in [Params -> Value]
        <5>1. v \in Value
          BY DEF Readable, Value
        <5>. QED
          BY <2>1, <3>1, <4>1, <5>1
      <4>. QED
        BY <2>1, <2>3, <4>1 DEF TripVisit
    <3>. QED
      BY <2>1, <3>1, <3>2, UnwrittenKeeps
  <2>4. CASE TripEnd
    <3>1. CASE csv = "open"
      BY <2>4, <3>1, WrittenKeeps
    <3>2. CASE csv # "open"
      <4>1. csv = "off" /\ file = <<>> /\ UNCHANGED <<file, read, clock, csv, value, live, sel>>
        BY <2>1, <2>4, <3>2 DEF TripEnd, EndCycle
      <4>2. TripTypeOK' /\ FileFaithful'
        BY <2>1, <4>1 DEF TripInv, TripTypeOK, FileFaithful, IInv
      <4>. QED
        BY <4>1, <4>2 DEF TripInv, ClockInv
    <3>. QED
      BY <3>1, <3>2
  <2>5. CASE Stop
    <3>1. UNCHANGED <<file, read, clock, value, live, sel, at>> /\ csv' = "closed"
      BY <2>5 DEF Stop, vars
    <3>. QED
      BY <2>1, <3>1, UnwrittenKeeps
  <2>6. ASSUME NEW s \in Selections, TripSelect(s) PROVE TripInv'
    <3>1. UNCHANGED <<file, read, clock, csv, value, live, at>> /\ live
      BY <2>6 DEF TripSelect, Select, trip
    <3>. QED
      BY <2>1, <3>1, UnwrittenKeeps
  <2>7. CASE UNCHANGED tripVars
    <3>1. UNCHANGED <<file, read, clock, csv, value, live, sel, at>>
      BY <2>7 DEF tripVars, trip, vars
    <3>. QED
      BY <2>1, <3>1, UnwrittenKeeps
  <2>. QED
    BY <2>2, <2>3, <2>4, <2>5, <2>6, <2>7 DEF TripNext
<1>. QED
  BY <1>1, <1>2, TripPolls, Invariance, PTL DEF TripSpec

(* The trip keeps its types: every row has a time and a cell of its column's kind. *)
THEOREM TripTypeCorrect == TripSpec => []TripTypeOK
BY TripInvariance, PTL DEF TripInv

(* The cells of a recording are what was read in the cycle of their row, in the *)
(* order of time, wherever the recording is stopped.                         *)
THEOREM RecordingIsFaithful == TripSpec => []FileFaithful
BY TripInvariance, PTL DEF TripInv

-----------------------------------------------------------------------------
(* The report.  detect_roles and _regen_windows go through a list one element    *)
(* after the other; that such a run exists for a list of any length, and what *)
(* it comes to, follows from the first place where it would not.             *)

(* Of a set of numbers one is the first. *)
LEMMA FirstExists ==
  ASSUME NEW T, T \subseteq Nat, T # {}
  PROVE  \E first \in T : \A k \in T : first <= k
<1>. DEFINE R == OpToRel(<, Nat)
<1>1. IsWellFoundedOn(R, Nat)
  BY NatLessThanWellFounded
<1>2. \A x, y \in Nat : y < x => <<y, x>> \in R
  BY DEF OpToRel
<1>. HIDE DEF R
<1>3. PICK first \in T : \A k \in T : ~(<<k, first>> \in R)
  BY <1>1, WFMin
<1>4. ASSUME NEW k \in T PROVE first <= k
  <2>1. k \in Nat /\ first \in Nat
    OBVIOUS
  <2>2. ~(k < first)
    BY <1>2, <1>3, <2>1
  <2>. QED
    BY <2>1, <2>2
<1>. QED
  BY <1>4

(* A step taken n times over, and what it comes to. *)
Iterates(start, step, n, g) ==
  g[0] = start /\ \A k \in 1 .. n : g[k] = step[<<k, g[k - 1]>>]

LEMMA IterationExists ==
  ASSUME NEW N \in Nat, NEW X, NEW start \in X, NEW step \in [(1 .. N) \X X -> X]
  PROVE  \E g \in [0 .. N -> X] : Iterates(start, step, N, g)
<1>. DEFINE T == {n \in 0 .. N : ~ \E g \in [0 .. n -> X] : Iterates(start, step, n, g)}
<1>1. T = {}
  <2>. SUFFICES ASSUME T # {} PROVE FALSE
    OBVIOUS
  <2>1. PICK n \in T : \A k \in T : n <= k
    <3>1. T \subseteq Nat
      OBVIOUS
    <3>. HIDE DEF T
    <3>. QED
      BY <3>1, FirstExists
  <2>2. n \in 0 .. N /\ ~ \E g \in [0 .. n -> X] : Iterates(start, step, n, g)
    BY <2>1
  <2>3. n # 0
    <3>1. [k \in 0 .. 0 |-> start] \in [0 .. 0 -> X]
      OBVIOUS
    <3>2. Iterates(start, step, 0, [k \in 0 .. 0 |-> start])
      BY DEF Iterates
    <3>. QED
      BY <2>2, <3>1, <3>2
  <2>4. n - 1 \in 0 .. N /\ ~(n <= n - 1) /\ n \in 1 .. N
    BY <2>2, <2>3
  <2>5. PICK g \in [0 .. n - 1 -> X] : Iterates(start, step, n - 1, g)
    BY <2>1, <2>4
  <2>. DEFINE h == [k \in 0 .. n |-> IF k = n THEN step[<<n, g[n - 1]>>] ELSE g[k]]
  <2>6. g[n - 1] \in X /\ step[<<n, g[n - 1]>>] \in X
    BY <2>4
  <2>7. h \in [0 .. n -> X]
    BY <2>4, <2>6
  <2>8. /\ h[n] = step[<<n, g[n - 1]>>] /\ h[n - 1] = g[n - 1] /\ h[0] = g[0]
        /\ \A k \in 1 .. n - 1 : h[k] = g[k] /\ h[k - 1] = g[k - 1]
    BY <2>4
  <2>. HIDE DEF h
  <2>9. \A k \in 1 .. n : k = n \/ k \in 1 .. n - 1
    BY <2>4
  <2>10. Iterates(start, step, n, h)
    BY <2>5, <2>8, <2>9 DEF Iterates
  <2>. QED
    BY <2>2, <2>7, <2>10
<1>. QED
  BY <1>1

(* detect_roles: the column of a role is one of the file, or none. *)
LEMMA ColumnIsThere ==
  ASSUME NEW role \in Range(Roles), NEW used, sel \in Seq(Params)
  PROVE  ColumnFor(role, used) \in 0 .. Len(sel)
<1>. DEFINE free == (DOMAIN sel) \ used
            exact == {j \in DOMAIN Exact(role) : \E c \in free : sel[c] = Exact(role)[j]}
            alike == {c \in free : sel[c] \in Similar(role)}
<1>1. DOMAIN sel = 1 .. Len(sel) /\ Len(sel) \in Nat
  BY LenProperties
<1>2. exact # {} => (CHOOSE c \in free : sel[c] = Exact(role)[Min(exact)]) \in free
  <2>. SUFFICES ASSUME exact # {} PROVE (CHOOSE c \in free : sel[c] = Exact(role)[Min(exact)]) \in free
    OBVIOUS
  <2>1. exact \subseteq Nat
    <3>1. Exact(role) \in Seq(Range(Exact(role)))
      BY TripAssumption
    <3>. QED
      BY <3>1, LenProperties
  <2>2. \E j \in exact : \A k \in exact : j <= k
    BY <2>1, FirstExists
  <2>3. Min(exact) \in exact
    <3>. HIDE DEF exact
    <3>. QED
      BY <2>2 DEF Min
  <2>4. \E c \in free : sel[c] = Exact(role)[Min(exact)]
    BY <2>3
  <2>. HIDE DEF exact, free
  <2>. QED
    BY <2>4
<1>3. alike # {} => Min(alike) \in alike
  <2>. SUFFICES ASSUME alike # {} PROVE Min(alike) \in alike
    OBVIOUS
  <2>1. alike \subseteq Nat
    BY <1>1
  <2>2. \E j \in alike : \A k \in alike : j <= k
    BY <2>1, FirstExists
  <2>. HIDE DEF alike
  <2>. QED
    BY <2>2 DEF Min
<1>4. free \subseteq 0 .. Len(sel) /\ alike \subseteq 0 .. Len(sel) /\ 0 \in 0 .. Len(sel)
  BY <1>1
<1>5. ColumnFor(role, used) = IF exact # {} THEN CHOOSE c \in free : sel[c] = Exact(role)[Min(exact)]
                              ELSE IF alike # {} THEN Min(alike) ELSE 0
  BY DEF ColumnFor
<1>. HIDE DEF exact, alike, free
<1>6. CASE exact # {}
  <2>1. ColumnFor(role, used) \in free
    BY <1>2, <1>5, <1>6
  <2>. QED
    BY <1>4, <2>1
<1>7. CASE exact = {} /\ alike # {}
  <2>1. ColumnFor(role, used) \in alike
    BY <1>3, <1>5, <1>7
  <2>. QED
    BY <1>4, <2>1
<1>8. CASE exact = {} /\ alike = {}
  BY <1>4, <1>5, <1>8
<1>. QED
  BY <1>6, <1>7, <1>8

LEMMA RoleColumnIsThere ==
  ASSUME NEW role \in Range(Roles), sel \in Seq(Params)
  PROVE  RoleColumn(role) \in 0 .. Len(sel)
<1>. DEFINE N == Len(Roles)
            C == 0 .. Len(sel)
            X == Seq(C)
            step == [kx \in (1 .. N) \X X |-> Append(kx[2], ColumnFor(Roles[kx[1]], Range(kx[2])))]
            Columns(g) == g = [n \in 0 .. N |->
                                 IF n = 0 THEN <<>>
                                 ELSE Append(g[n - 1], ColumnFor(Roles[n], Range(g[n - 1])))]
<1>1. N \in Nat /\ DOMAIN Roles = 1 .. N /\ \A n \in 1 .. N : Roles[n] \in Range(Roles)
  <2>1. Roles \in Seq(Range(Roles))
    BY TripAssumption
  <2>. QED
    BY <2>1, LenProperties DEF Range
<1>2. ASSUME NEW k \in 1 .. N, NEW x \in X
      PROVE  ColumnFor(Roles[k], Range(x)) \in C /\ Append(x, ColumnFor(Roles[k], Range(x))) \in X
  <2>1. ColumnFor(Roles[k], Range(x)) \in C
    BY <1>1, ColumnIsThere
  <2>. HIDE DEF C
  <2>. QED
    BY <2>1, AppendProperties
<1>3. <<>> \in X
  BY EmptySeq
<1>. HIDE DEF X, C, N
<1>4. step \in [(1 .. N) \X X -> X]
  BY <1>2
<1>5. \A k \in 1 .. N, x \in X : step[<<k, x>>] = Append(x, ColumnFor(Roles[k], Range(x)))
  OBVIOUS
<1>. HIDE DEF step
<1>6. PICK g \in [0 .. N -> X] : Iterates(<<>>, step, N, g)
  BY <1>1, <1>3, <1>4, IterationExists
<1>7. Columns(g)
  <2>1. ASSUME NEW n \in 0 .. N
        PROVE  g[n] = IF n = 0 THEN <<>> ELSE Append(g[n - 1], ColumnFor(Roles[n], Range(g[n - 1])))
    <3>1. CASE n = 0
      BY <1>6, <3>1 DEF Iterates
    <3>2. CASE n # 0
      <4>1. n \in 1 .. N /\ n - 1 \in 0 .. N
        BY <1>1, <3>2
      <4>2. g[n - 1] \in X /\ g[n] = step[<<n, g[n - 1]>>]
        BY <1>6, <4>1 DEF Iterates
      <4>. QED
        BY <1>5, <3>2, <4>1, <4>2
    <3>. QED
      BY <3>1, <3>2
  <2>. QED
    BY <2>1
<1>. DEFINE c == CHOOSE f : Columns(f)
<1>8. Columns(c)
  BY <1>7
<1>9. DetectRoles = c[N]
  BY DEF DetectRoles, N
<1>. HIDE DEF c
<1>10. /\ c[0] = <<>>
       /\ \A n \in 1 .. N : c[n] = Append(c[n - 1], ColumnFor(Roles[n], Range(c[n - 1])))
  <2>1. c[0] = <<>>
    BY <1>1, <1>8
  <2>2. ASSUME NEW n \in 1 .. N PROVE c[n] = Append(c[n - 1], ColumnFor(Roles[n], Range(c[n - 1])))
    <3>1. n \in 0 .. N /\ n # 0
      BY <1>1
    <3>. QED
      BY <1>8, <3>1
  <2>. QED
    BY <2>1, <2>2
<1>11. \A n \in 0 .. N : c[n] \in X /\ Len(c[n]) = n
  <2>. DEFINE T == {n \in 0 .. N : ~(c[n] \in X /\ Len(c[n]) = n)}
  <2>. SUFFICES ASSUME T # {} PROVE FALSE
    OBVIOUS
  <2>1. PICK n \in T : \A k \in T : n <= k
    <3>1. T \subseteq Nat
      OBVIOUS
    <3>. HIDE DEF T
    <3>. QED
      BY <3>1, FirstExists
  <2>2. n \in 0 .. N /\ ~(c[n] \in X /\ Len(c[n]) = n)
    BY <2>1
  <2>3. n # 0
    BY <1>3, <1>10, <2>2, EmptySeq
  <2>4. n \in 1 .. N /\ n - 1 \in 0 .. N /\ ~(n <= n - 1)
    BY <1>1, <2>2, <2>3
  <2>5. c[n - 1] \in X /\ Len(c[n - 1]) = n - 1
    BY <2>1, <2>4
  <2>6. c[n] \in X /\ c[n] = Append(c[n - 1], ColumnFor(Roles[n], Range(c[n - 1])))
    BY <1>2, <1>10, <2>4, <2>5
  <2>7. Len(c[n]) = n - 1 + 1
    BY <2>5, <2>6, AppendProperties DEF X
  <2>. QED
    BY <2>2, <2>4, <2>6, <2>7
<1>12. DetectRoles \in Seq(C) /\ Len(DetectRoles) = N
  BY <1>1, <1>9, <1>11 DEF X
<1>13. (CHOOSE n \in DOMAIN Roles : Roles[n] = role) \in 1 .. N
  <2>1. \E n \in DOMAIN Roles : Roles[n] = role
    BY DEF Range
  <2>. QED
    BY <1>1, <2>1
<1>14. RoleColumn(role) \in C
  BY <1>12, <1>13, ElementOfSeq DEF RoleColumn
<1>. QED
  BY <1>14 DEF C

(* What _regen_windows has to find among temperatures: the longest stretches of hot *)
(* ones; hot is the set of their places.                                     *)
Runs(hot, n) ==
  {w \in (1 .. n) \X (1 .. n) :
     w[1] <= w[2] /\ w[1] .. w[2] \subseteq hot /\ w[1] - 1 \notin hot /\ w[2] + 1 \notin hot}

(* After k temperatures: the stretches that are over, and the start of one that is not. *)
ScannedTo(hot, n, k, x) ==
  /\ x.start = 0 => k \notin hot
  /\ x.start # 0 => x.start \in 1 .. k /\ x.start .. k \subseteq hot /\ x.start - 1 \notin hot
  /\ x.windows = {w \in Runs(hot, n) : w[2] < k}

Scans(n) == [start : 0 .. n, windows : SUBSET ((1 .. n) \X (1 .. n))]

(* One temperature more. *)
NextScan(hot, k, x) ==
  IF k \in hot /\ x.start = 0 THEN [x EXCEPT !.start = k]
  ELSE IF k \notin hot /\ x.start # 0
    THEN [start |-> 0, windows |-> x.windows \cup {<<x.start, k - 1>>}]
  ELSE x

LEMMA ScanGoesOn ==
  ASSUME NEW n \in Nat, NEW hot \in SUBSET (1 .. n), NEW k \in 1 .. n, NEW x \in Scans(n),
         ScannedTo(hot, n, k - 1, x)
  PROVE  NextScan(hot, k, x) \in Scans(n) /\ ScannedTo(hot, n, k, NextScan(hot, k, x))
<1>. DEFINE y == NextScan(hot, k, x)
<1>1. x.start \in 0 .. n /\ x.windows \in SUBSET ((1 .. n) \X (1 .. n)) /\ k \in Nat /\ k - 1 \in Nat
  BY DEF Scans
<1>2. ASSUME NEW w \in Runs(hot, n)
      PROVE  /\ w[1] \in 1 .. n /\ w[2] \in 1 .. n /\ w = <<w[1], w[2]>>
             /\ w[1] <= w[2] /\ w[1] .. w[2] \subseteq hot /\ w[1] - 1 \notin hot /\ w[2] + 1 \notin hot
             /\ w[1] \in hot /\ w[2] \in hot
  BY DEF Runs
<1>3. CASE k \in hot
  <2>1. \A w \in Runs(hot, n) : w[2] < k <=> w[2] < k - 1
    <3>. SUFFICES ASSUME NEW w \in Runs(hot, n), w[2] < k, ~(w[2] < k - 1) PROVE FALSE
      BY <1>1, <1>2
    <3>1. w[2] + 1 = k
      BY <1>1, <1>2
    <3>. QED
      BY <1>2, <1>3, <3>1
  <2>2. y.windows = x.windows
    BY <1>1, <1>3 DEF NextScan, Scans
  <2>3. y.windows = {w \in Runs(hot, n) : w[2] < k}
    BY <2>1, <2>2 DEF ScannedTo
  <2>4. CASE x.start = 0
    <3>1. y.start = k /\ y \in Scans(n)
      BY <1>1, <1>3, <2>4 DEF NextScan, Scans
    <3>2. k .. k \subseteq hot /\ k - 1 \notin hot
      BY <1>1, <1>3, <2>4 DEF ScannedTo
    <3>. QED
      BY <1>1, <2>3, <3>1, <3>2 DEF ScannedTo
  <2>5. CASE x.start # 0
    <3>1. y = x
      BY <1>3, <2>5 DEF NextScan
    <3>2. x.start \in 1 .. k /\ x.start .. k \subseteq hot /\ x.start - 1 \notin hot
      BY <1>1, <1>3, <2>5 DEF ScannedTo
    <3>. QED
      BY <2>3, <2>5, <3>1, <3>2 DEF ScannedTo
  <2>. QED
    BY <2>4, <2>5
<1>4. CASE k \notin hot /\ x.start = 0
  <2>1. y = x
    BY <1>4 DEF NextScan
  <2>2. \A w \in Runs(hot, n) : w[2] < k <=> w[2] < k - 1
    <3>. SUFFICES ASSUME NEW w \in Runs(hot, n), w[2] < k, ~(w[2] < k - 1) PROVE FALSE
      BY <1>1, <1>2
    <3>1. w[2] = k - 1
      BY <1>1, <1>2
    <3>. QED
      BY <1>2, <1>4, <3>1 DEF ScannedTo
  <2>3. x.windows = {w \in Runs(hot, n) : w[2] < k}
    BY <2>2 DEF ScannedTo
  <2>. QED
    BY <1>4, <2>1, <2>3 DEF ScannedTo
<1>5. CASE k \notin hot /\ x.start # 0
  <2>. DEFINE v == <<x.start, k - 1>>
  <2>1. y = [start |-> 0, windows |-> x.windows \cup {v}]
    BY <1>5 DEF NextScan
  <2>2. x.start \in 1 .. k - 1 /\ x.start .. k - 1 \subseteq hot /\ x.start - 1 \notin hot
    BY <1>5 DEF ScannedTo
  <2>3. v \in Runs(hot, n) /\ v[2] < k /\ v \in (1 .. n) \X (1 .. n)
    <3>1. v[1] = x.start /\ v[2] = k - 1 /\ k - 1 + 1 = k /\ v \in (1 .. n) \X (1 .. n)
      BY <1>1, <2>2
    <3>. QED
      BY <1>1, <1>5, <2>2, <3>1 DEF Runs
  <2>4. ASSUME NEW w \in Runs(hot, n), w[2] < k, ~(w[2] < k - 1) PROVE w = v
    <3>1. w[2] = k - 1
      BY <1>1, <1>2, <2>4
    <3>2. ~(w[1] < x.start)
      <4>. SUFFICES ASSUME w[1] < x.start PROVE FALSE
        OBVIOUS
      <4>1. x.start - 1 \in w[1] .. w[2]
        BY <1>1, <1>2, <2>2, <3>1
      <4>. QED
        BY <1>2, <2>2, <4>1
    <3>3. ~(x.start < w[1])
      <4>. SUFFICES ASSUME x.start < w[1] PROVE FALSE
        OBVIOUS
      <4>1. w[1] - 1 \in x.start .. k - 1
        BY <1>1, <1>2, <2>2, <3>1
      <4>. QED
        BY <1>2, <2>2, <4>1
    <3>4. w[1] = x.start
      BY <1>1, <1>2, <3>2, <3>3
    <3>. QED
      BY <1>2, <3>1, <3>4
  <2>5. \A w \in Runs(hot, n) : w[2] < k - 1 => w[2] < k
    BY <1>1, <1>2
  <2>6. x.windows \cup {v} = {w \in Runs(hot, n) : w[2] < k}
    <3>. HIDE DEF v
    <3>. QED
      BY <2>3, <2>4, <2>5 DEF ScannedTo
  <2>7. y \in Scans(n) /\ y.start = 0 /\ y.windows = x.windows \cup {v}
    <3>. HIDE DEF v
    <3>. QED
      BY <1>1, <2>1, <2>3 DEF Scans
  <2>8. ScannedTo(hot, n, k, y)
    <3>. HIDE DEF v, y
    <3>. QED
      BY <1>5, <2>6, <2>7 DEF ScannedTo
  <2>. QED
    BY <2>7, <2>8
<1>. QED
  BY <1>3, <1>4, <1>5


LEMMA WindowsAre ==
  ASSUME NEW temp, NEW n \in Nat, DOMAIN temp = 1 .. n, Len(temp) = n
  PROVE  RegenWindows(temp) =
           {w \in Runs({i \in 1 .. n : temp[i] = "high"}, n) : file[w[2]].t - file[w[1]].t >= HotFor}
<1>. DEFINE hot == {i \in 1 .. n : temp[i] = "high"}
            X == Scans(n)
            first == [start |-> 0, windows |-> {}]
            step == [kx \in (1 .. n) \X X |->
                       IF ScannedTo(hot, n, kx[1] - 1, kx[2]) THEN NextScan(hot, kx[1], kx[2]) ELSE first]
            Step(k, x) ==
              LET before == x
                  isHot == temp[k] = "high"
              IN  IF isHot /\ before.start = 0 THEN [before EXCEPT !.start = k]
                  ELSE IF ~isHot /\ before.start # 0
                    THEN [start |-> 0, windows |-> before.windows \cup {<<before.start, k - 1>>}]
                  ELSE before
            Scan(g) == g = [k \in 0 .. n |-> IF k = 0 THEN first ELSE Step(k, g[k - 1])]
<1>1. first \in X
  BY DEF Scans
<1>2. ScannedTo(hot, n, 0, first)
  BY DEF ScannedTo, Runs
<1>3. ASSUME NEW k \in 1 .. n, NEW x PROVE NextScan(hot, k, x) = Step(k, x)
  BY DEF NextScan
<1>. HIDE DEF X, first, Step
<1>4. ASSUME NEW k \in 1 .. n, NEW x \in X, ScannedTo(hot, n, k - 1, x)
      PROVE  NextScan(hot, k, x) \in X /\ ScannedTo(hot, n, k, NextScan(hot, k, x))
  BY <1>4, ScanGoesOn DEF X
<1>. HIDE DEF hot
<1>5. step \in [(1 .. n) \X X -> X]
  BY <1>1, <1>4
<1>6. \A k \in 1 .. n, x \in X : ScannedTo(hot, n, k - 1, x) => step[<<k, x>>] = NextScan(hot, k, x)
  OBVIOUS
<1>. HIDE DEF step
<1>7. PICK g \in [0 .. n -> X] : Iterates(first, step, n, g)
  BY <1>1, <1>5, IterationExists
<1>8. \A k \in 0 .. n : ScannedTo(hot, n, k, g[k])
  <2>. DEFINE T == {k \in 0 .. n : ~ScannedTo(hot, n, k, g[k])}
  <2>. SUFFICES ASSUME T # {} PROVE FALSE
    OBVIOUS
  <2>1. PICK k \in T : \A l \in T : k <= l
    <3>1. T \subseteq Nat
      OBVIOUS
    <3>. HIDE DEF T
    <3>. QED
      BY <3>1, FirstExists
  <2>2. k \in 0 .. n /\ ~ScannedTo(hot, n, k, g[k])
    BY <2>1
  <2>3. k # 0
    BY <1>2, <1>7, <2>2 DEF Iterates
  <2>4. k \in 1 .. n /\ k - 1 \in 0 .. n /\ ~(k <= k - 1)
    BY <2>2, <2>3
  <2>5. ScannedTo(hot, n, k - 1, g[k - 1]) /\ g[k - 1] \in X
    BY <1>7, <2>1, <2>4
  <2>6. g[k] = NextScan(hot, k, g[k - 1])
    BY <1>6, <1>7, <2>4, <2>5 DEF Iterates
  <2>. QED
    BY <1>4, <2>2, <2>4, <2>5, <2>6
<1>9. Scan(g)
  <2>1. ASSUME NEW k \in 0 .. n PROVE g[k] = IF k = 0 THEN first ELSE Step(k, g[k - 1])
    <3>1. CASE k = 0
      BY <1>7, <3>1 DEF Iterates
    <3>2. CASE k # 0
      <4>1. k \in 1 .. n /\ k - 1 \in 0 .. n
        BY <3>2
      <4>2. ScannedTo(hot, n, k - 1, g[k - 1]) /\ g[k - 1] \in X
        BY <1>7, <1>8, <4>1
      <4>3. g[k] = step[<<k, g[k - 1]>>]
        BY <1>7, <4>1 DEF Iterates
      <4>4. g[k] = NextScan(hot, k, g[k - 1])
        BY <1>6, <4>1, <4>2, <4>3
      <4>. QED
        BY <1>3, <3>2, <4>1, <4>4
    <3>. QED
      BY <3>1, <3>2
  <2>. QED
    BY <2>1
<1>. DEFINE c == CHOOSE f : Scan(f)
<1>10. Scan(c)
  BY <1>9
<1>11. RegenWindows(temp) =
         {w \in CloseLast(c[n], n) : file[w[2]].t - file[w[1]].t >= HotFor}
  BY DEF RegenWindows, first, Step
<1>. HIDE DEF c
<1>12. \A k \in 0 .. n : c[k] \in X /\ ScannedTo(hot, n, k, c[k])
  <2>. DEFINE T == {k \in 0 .. n : ~(c[k] \in X /\ ScannedTo(hot, n, k, c[k]))}
  <2>. SUFFICES ASSUME T # {} PROVE FALSE
    OBVIOUS
  <2>1. PICK k \in T : \A l \in T : k <= l
    <3>1. T \subseteq Nat
      OBVIOUS
    <3>. HIDE DEF T
    <3>. QED
      BY <3>1, FirstExists
  <2>2. k \in 0 .. n /\ ~(c[k] \in X /\ ScannedTo(hot, n, k, c[k]))
    BY <2>1
  <2>3. c[k] = IF k = 0 THEN first ELSE Step(k, c[k - 1])
    BY <1>10, <2>2
  <2>4. k # 0
    BY <1>1, <1>2, <2>2, <2>3
  <2>5. k \in 1 .. n /\ k - 1 \in 0 .. n /\ ~(k <= k - 1)
    BY <2>2, <2>4
  <2>6. ScannedTo(hot, n, k - 1, c[k - 1]) /\ c[k - 1] \in X
    BY <2>1, <2>5
  <2>7. c[k] = NextScan(hot, k, c[k - 1])
    BY <1>3, <2>3, <2>4, <2>5
  <2>. QED
    BY <1>4, <2>2, <2>5, <2>6, <2>7
<1>. DEFINE x == c[n]
<1>13. x \in X /\ ScannedTo(hot, n, n, x)
  BY <1>12
<1>14. ASSUME NEW w \in Runs(hot, n)
       PROVE  /\ w[1] \in 1 .. n /\ w[2] \in 1 .. n /\ w = <<w[1], w[2]>> /\ w[1] <= w[2]
              /\ w[1] .. w[2] \subseteq hot /\ w[1] - 1 \notin hot /\ w[2] \in hot
  BY DEF Runs
<1>. HIDE DEF x
<1>15. CloseLast(x, n) = Runs(hot, n)
  <2>1. CASE x.start = 0
    <3>1. ASSUME NEW w \in Runs(hot, n) PROVE w[2] < n
      <4>1. w[2] # n
        BY <1>13, <1>14, <2>1 DEF ScannedTo
      <4>. QED
        BY <1>14, <4>1
    <3>. QED
      BY <1>13, <2>1, <3>1 DEF CloseLast, ScannedTo
  <2>2. CASE x.start # 0
    <3>. DEFINE v == <<x.start, n>>
    <3>1. x.start \in 1 .. n /\ x.start .. n \subseteq hot /\ x.start - 1 \notin hot
      BY <1>13, <2>2 DEF ScannedTo
    <3>2. v[1] = x.start /\ v[2] = n /\ n + 1 \notin hot /\ v \in (1 .. n) \X (1 .. n)
      BY <3>1 DEF hot
    <3>3. v \in Runs(hot, n)
      BY <3>1, <3>2 DEF Runs
    <3>4. ASSUME NEW w \in Runs(hot, n), ~(w[2] < n) PROVE w = v
      <4>1. w[2] = n
        BY <1>14, <3>4
      <4>2. ~(w[1] < x.start)
        <5>. SUFFICES ASSUME w[1] < x.start PROVE FALSE
          OBVIOUS
        <5>1. x.start - 1 \in w[1] .. w[2]
          BY <1>14, <3>1, <4>1
        <5>. QED
          BY <1>14, <3>1, <5>1
      <4>3. ~(x.start < w[1])
        <5>. SUFFICES ASSUME x.start < w[1] PROVE FALSE
          OBVIOUS
        <5>1. w[1] - 1 \in x.start .. n
          BY <1>14, <3>1, <4>1
        <5>. QED
          BY <1>14, <3>1, <5>1
      <4>4. w[1] = x.start
        BY <1>14, <3>1, <4>2, <4>3
      <4>. QED
        BY <1>14, <4>1, <4>4
    <3>5. CloseLast(x, n) = {w \in Runs(hot, n) : w[2] < n} \cup {v}
      BY <1>13, <2>2 DEF CloseLast, ScannedTo
    <3>. HIDE DEF v
    <3>. QED
      BY <3>3, <3>4, <3>5
  <2>. QED
    BY <2>1, <2>2
<1>. QED
  BY <1>11, <1>15 DEF hot, x

(* The report of a recording that was stopped is what its cells say.             *)
LEMMA ReportIsTrue ==
  ASSUME IInv, TripInv
  PROVE  TripTrue
<1>. SUFFICES ASSUME ~live
              PROVE  LET flagged == {i \in DOMAIN read : Said("regen", i)}
                     IN  Regeneration = IF flagged # {} THEN {<<Min(flagged), Max(flagged)>>} ELSE Stretches
  BY DEF TripTrue
<1>. DEFINE n == Len(file)
            flag == RoleColumn("regen")
            temp == RoleColumn("egt")
            flagged == {i \in DOMAIN read : Said("regen", i)}
            active == IF flag = 0 THEN {} ELSE {i \in DOMAIN file : Column(flag)[i] = "high"}
            hot == {i \in 1 .. n : Column(temp)[i] = "high"}
            long == {w \in Runs(hot, n) : file[w[2]].t - file[w[1]].t >= HotFor}
<1>1. sel \in Seq(Params) /\ Len(sel) \in Nat
  BY SelectionFacts DEF IInv, TypeOK
<1>2. /\ DOMAIN file = 1 .. n /\ n \in Nat /\ DOMAIN read = 1 .. n
      /\ \A i \in 1 .. n : file[i].t \in Nat
  <2>1. TripTypeOK
    BY DEF TripInv
  <2>2. read \in Seq(Seq(Value \cup {"unread"})) /\ Len(read) = n
    BY <2>1 DEF TripTypeOK
  <2>3. DOMAIN read = 1 .. n
    BY <2>2, LenProperties
  <2>. QED
    BY <2>1, <2>3, FileTimes
<1>3. \A i, j \in 1 .. n : i < j => file[i].t < file[j].t
  BY <1>2 DEF TripInv, FileFaithful
<1>4. ASSUME NEW c \in 1 .. Len(sel), NEW i \in 1 .. n
      PROVE  Column(c)[i] = "high" <=> read[i][c] = "high"
  <2>1. Sample(file[i].cells[c]) = IF read[i][c] = "unread" THEN "gap" ELSE read[i][c]
    BY <1>2 DEF TripInv, FileFaithful
  <2>2. Column(c)[i] = Sample(file[i].cells[c])
    BY <1>2 DEF Column
  <2>. QED
    BY <2>1, <2>2
<1>5. flag \in 0 .. Len(sel) /\ temp \in 0 .. Len(sel)
  <2>1. "egt" \in Range(Roles) /\ "regen" \in Range(Roles)
    BY TripAssumption
  <2>2. RoleColumn("egt") \in 0 .. Len(sel)
    BY <1>1, <2>1, RoleColumnIsThere
  <2>3. RoleColumn("regen") \in 0 .. Len(sel)
    BY <1>1, <2>1, RoleColumnIsThere
  <2>. QED
    BY <2>2, <2>3
<1>6. Regeneration = IF active # {} THEN {<<Min(active), Max(active)>>}
                     ELSE IF temp = 0 THEN {} ELSE RegenWindows(Column(temp))
  BY DEF Regeneration
<1>7. \A i \in 1 .. n : Said("regen", i) <=> flag # 0 /\ read[i][flag] = "high"
  BY DEF Said
<1>8. \A i \in 1 .. n : Said("egt", i) <=> temp # 0 /\ read[i][temp] = "high"
  BY DEF Said
<1>. HIDE DEF n, flag, temp
<1>9. active = flagged
  <2>1. CASE flag = 0
    BY <1>2, <1>7, <2>1
  <2>2. CASE flag # 0
    <3>1. flag \in 1 .. Len(sel)
      BY <1>1, <1>5, <2>2
    <3>. QED
      BY <1>2, <1>4, <1>7, <2>2, <3>1
  <2>. QED
    BY <2>1, <2>2
<1>10. ASSUME NEW w \in Stretches
       PROVE  /\ w[1] \in 1 .. n /\ w[2] \in 1 .. n /\ w[1] <= w[2]
              /\ \A i \in w[1] .. w[2] : Said("egt", i)
              /\ w[1] - 1 \in 1 .. n => ~Said("egt", w[1] - 1)
              /\ w[2] + 1 \in 1 .. n => ~Said("egt", w[2] + 1)
              /\ file[w[2]].t - file[w[1]].t >= HotFor
  <2>1. /\ w[1] \in 1 .. n /\ w[2] \in 1 .. n
        /\ \A i \in w[1] .. w[2] : Said("egt", i)
        /\ w[1] - 1 \in 1 .. n => ~Said("egt", w[1] - 1)
        /\ w[2] + 1 \in 1 .. n => ~Said("egt", w[2] + 1)
        /\ file[w[2]].t - file[w[1]].t >= HotFor
    BY <1>2 DEF Stretches
  <2>2. HotFor \in Nat \ {0}
    BY TripAssumption
  <2>3. ~(w[2] < w[1])
    BY <1>2, <1>3, <2>1, <2>2
  <2>. QED
    BY <1>2, <2>1, <2>3
<1>11. temp = 0 => Stretches = {}
  <2>. SUFFICES ASSUME temp = 0, NEW w \in Stretches PROVE FALSE
    OBVIOUS
  <2>1. w[1] \in w[1] .. w[2] /\ w[1] \in 1 .. n
    BY <1>2, <1>10
  <2>. QED
    BY <1>8, <1>10, <2>1
<1>12. temp # 0 => RegenWindows(Column(temp)) = Stretches
  <2>. SUFFICES ASSUME temp # 0 PROVE RegenWindows(Column(temp)) = Stretches
    OBVIOUS
  <2>1. temp \in 1 .. Len(sel)
    BY <1>1, <1>5
  <2>2. hot \in SUBSET (1 .. n) /\ \A i \in 1 .. n : i \in hot <=> Said("egt", i)
    BY <1>4, <1>8, <2>1
  <2>3. DOMAIN Column(temp) = 1 .. n /\ Len(Column(temp)) = n
    BY <1>2 DEF Column
  <2>4. RegenWindows(Column(temp)) = long
    BY <1>2, <2>3, WindowsAre
  <2>. HIDE DEF hot
  <2>5. ASSUME NEW w \in Stretches PROVE w \in long
    <3>1. w \in (1 .. n) \X (1 .. n)
      BY <1>2 DEF Stretches
    <3>2. w[1] .. w[2] \subseteq hot
      <4>1. ASSUME NEW i \in w[1] .. w[2] PROVE i \in hot
        <5>1. i \in 1 .. n
          BY <1>2, <1>10
        <5>. QED
          BY <1>10, <2>2, <5>1
      <4>. QED
        BY <4>1
    <3>3. w[1] - 1 \notin hot /\ w[2] + 1 \notin hot
      BY <1>10, <2>2
    <3>. QED
      BY <1>10, <3>1, <3>2, <3>3 DEF Runs
  <2>6. ASSUME NEW w \in long PROVE w \in Stretches
    <3>1. /\ w \in (1 .. n) \X (1 .. n)
          /\ w[1] .. w[2] \subseteq hot /\ w[1] - 1 \notin hot /\ w[2] + 1 \notin hot
          /\ file[w[2]].t - file[w[1]].t >= HotFor
      BY DEF Runs
    <3>2. \A i \in w[1] .. w[2] : Said("egt", i)
      BY <2>2, <3>1
    <3>3. /\ w[1] - 1 \in DOMAIN read => ~Said("egt", w[1] - 1)
          /\ w[2] + 1 \in DOMAIN read => ~Said("egt", w[2] + 1)
      BY <1>2, <2>2, <3>1
    <3>. QED
      BY <1>2, <3>1, <3>2, <3>3 DEF Stretches
  <2>. QED
    BY <2>4, <2>5, <2>6
<1>. HIDE DEF active, flagged
<1>13. Regeneration = IF flagged # {} THEN {<<Min(flagged), Max(flagged)>>} ELSE Stretches
  BY <1>6, <1>9, <1>11, <1>12
<1>. QED
  BY <1>13 DEF flagged

(* The report of a recording, for any parameters, roles and bounds, stopped      *)
(* anywhere: it finds each regeneration that the car has told of and no other. *)
THEOREM ReportsAreTrue == TripSpec => []TripTrue
<1>1. IInv /\ TripInv => TripTrue
  BY ReportIsTrue
<1>. QED
  BY <1>1, TripPolls, Invariance, TripInvariance, PTL
=============================================================================
