-------------------------- MODULE VolvoSweepProofs --------------------------
(***************************************************************************)
(* VolvoSweep for any bus, blocks, identifiers and parameters, any number  *)
(* of frames lost and any delay of an answer: a module said to be cleared  *)
(* is, a sweep accounts for every turn it takes, and what it shows of a    *)
(* module came from that module, after it was asked.                       *)
(*                                                                         *)
(* ClearedIsWiped is about what was read from the receive queue, so WireInv *)
(* follows an acknowledgement from the module that sends it: until it is   *)
(* sent only the request is known, once sent the module is wiped.          *)
(* SweepAccounted is about the end of a sweep; TurnInv counts along it.    *)
(*                                                                         *)
(* FreshFrames needs what emptying the queue before a request leaves in it *)
(* (CollectInv).  ReportsOwn needs four facts more: that nothing is said   *)
(* of a request before it is sent (LateInv), nor of a turn before it comes *)
(* (PastInv), so that what answers a request that is not a repetition is   *)
(* its one answer (OnceInv), whose parts come in their order (OrderInv)    *)
(* while nothing is lost.                                                  *)
(***************************************************************************)
EXTENDS VolvoSweep, SequenceTheorems, WellFoundedInduction, TLAPS

SweepRequests(m) ==
  [module : {m}, service : {"list", "clear", "block", "value", "raw"}, id : Items, n : Nat]

(* Only dtc --clear asks a module to clear: the requests m may still have to answer. *)
Owing(m) == {r \in SweepRequests(m) : r.service = "clear" => command = "clear"}

BusFrame ==
  [from : Members \cup {Nobody}, id : Items, part : 0 .. 2, codes : Nat, n : Nat, at : Nat, cut : BOOLEAN,
   service : {"list", "clear", "block", "value", "raw", "refusal", "chatter"}]

(* Acknowledgements only come from modules that have done what they acknowledge. *)
Honest(cleared) == {f \in BusFrame : f.service = "clear" => f.from \in cleared}

(* What a module is in the middle of saying: the rest of a list or of a block. *)
RestOf(m) == {f \in BusFrame : f.from = m /\ f.service \notin {"clear", "chatter"}}

PlaceInv ==
  /\ command \in Commands /\ turn \in 0 .. SweepTurns(command) /\ step \in Steps
  /\ ~Writes(command) /\ sent \in Nat
  /\ asking # Nobody => turn > 0 /\ \E m \in Members : asking \in SweepRequests(m)

WireInv ==
  /\ DOMAIN owed = Members /\ DOMAIN saying = Members /\ stored \in [Members -> 0 .. 2]
  /\ \A m \in Members : owed[m] \in Seq(Owing(m)) /\ saying[m] \in Seq(RestOf(m))
  /\ queue \in Seq(Honest(wiped))
  /\ wiped # {} => command = "clear"

(* How far a sweep has come, by its turn and its step: a turn is accounted for when *)
(* something was said in it, and nothing of an earlier turn is left when its *)
(* first request is under way.                                               *)
TurnInv ==
  /\ turn > 0 =>
       /\ ~raised
       /\ step = FirstStep(command) \/ (command = "clear" /\ step \in {"clear", "confirm"})
       /\ step = FirstStep(command) => visited = turn - 1 /\ (asking # Nobody => report = {})
       /\ step # FirstStep(command) => visited = turn /\ report # {}
       /\ step = "confirm" => \E e \in report : e.service = "clear"
       /\ asking # Nobody => asking.service = IF step = "confirm" THEN "list" ELSE step
  /\ SweepAccounted

SaidWiped == \A e \in report : e.state = "ack" => e.module \in wiped

SweepInv == PlaceInv /\ WireInv /\ TurnInv /\ SaidWiped

-----------------------------------------------------------------------------
(* The commands and steps these sets list are told apart all along. *)
USE DEF Raw, Collecting

(* Every command has a turn to take. *)
LEMMA TurnsExist == ASSUME NEW c \in Commands PROVE SweepTurns(c) \in Nat \ {0}
<1>1. /\ Len(Groups) \in Nat \ {0} /\ Len(Blocks) \in Nat \ {0}
      /\ Len(Scanned) \in Nat \ {0} /\ Len(Params) \in Nat \ {0}
  BY SweepAssumption, EmptySeq
<1> QED
  BY <1>1 DEF SweepTurns, Commands, Raw

LEMMA FirstIsStep == ASSUME NEW c \in Commands PROVE FirstStep(c) \in {"list", "block", "value", "raw"}
BY DEF FirstStep, Commands, Raw

(* What a turn asks for is a request to a module of the bus, of its step's service. *)
LEMMA SweepAsksTyped ==
  ASSUME PlaceInv, TurnInv, Running
  PROVE  /\ SweepAsks.module \in Members /\ SweepAsks \in SweepRequests(SweepAsks.module)
         /\ SweepAsks.n = sent + 1
         /\ SweepAsks.service = IF step = "confirm" THEN "list" ELSE step
         /\ SweepAsks.service = "clear" => command = "clear"
<1>1. /\ command \in Commands /\ turn \in 1 .. SweepTurns(command) /\ step \in Steps
      /\ sent + 1 \in Nat /\ command # "write-mem"
  BY DEF PlaceInv, Running, Writes
<1>2. "-" \in Items /\ "identity" \in Items
  BY DEF Items
<1>3. CASE step \in {"list", "confirm", "clear"}
  <2>1. command \in {"dtc", "clear"} /\ (step = "clear" => command = "clear")
    BY <1>1, <1>3 DEF TurnInv, Running, FirstStep, Commands, Raw
  <2>2. turn \in 1 .. Len(Groups)
    BY <1>1, <2>1 DEF SweepTurns
  <2>3. Groups[turn] \in Members
    BY <2>2, SweepAssumption, ElementOfSeq
  <2> QED
    BY <1>1, <1>2, <1>3, <2>1, <2>3 DEF SweepAsks, ListRequest, ClearRequest, Asked, SweepRequests
<1>4. CASE step = "block"
  <2>1. command \in {"identify", "dump"}
    BY <1>1, <1>4 DEF TurnInv, Running, FirstStep, Commands, Raw
  <2>2. CASE command = "identify"
    <3>1. Groups[turn] \in Members
      BY <1>1, <2>2, SweepAssumption, ElementOfSeq DEF SweepTurns
    <3> QED
      BY <1>1, <1>2, <1>4, <2>2, <3>1 DEF SweepAsks, BlockRequest, Asked, SweepRequests
  <2>3. CASE command = "dump"
    <3>1. Groups[1] \in Members
      BY SweepAssumption, EmptySeq, ElementOfSeq
    <3>2. Blocks[turn] \in Items
      BY <1>1, <2>3, SweepAssumption, ElementOfSeq DEF SweepTurns, Items
    <3> QED
      BY <1>1, <1>4, <2>3, <3>1, <3>2 DEF SweepAsks, BlockRequest, Asked, SweepRequests
  <2> QED
    BY <2>1, <2>2, <2>3
<1>5. CASE step = "value"
  <2>1. command \in {"discover", "verify"}
    BY <1>1, <1>5 DEF TurnInv, Running, FirstStep, Commands, Raw
  <2>2. CASE command = "discover"
    <3>1. Groups[1] \in Members
      BY SweepAssumption, EmptySeq, ElementOfSeq
    <3>2. Scanned[turn] \in Items
      BY <1>1, <2>2, SweepAssumption, ElementOfSeq DEF SweepTurns, Items
    <3> QED
      BY <1>1, <1>5, <2>2, <3>1, <3>2 DEF SweepAsks, ValueRequest, Asked, SweepRequests
  <2>3. CASE command = "verify"
    <3>1. Params[turn] \in Range(Params)
      BY <1>1, <2>3, SweepAssumption, ElementOfSeq DEF SweepTurns
    <3>2. Params[turn].module \in Members /\ Params[turn].id \in Items
      BY <3>1, SweepAssumption DEF Items
    <3> QED
      BY <1>1, <1>5, <2>3, <3>2 DEF SweepAsks, ValueRequest, Asked, SweepRequests
  <2> QED
    BY <2>1, <2>2, <2>3
<1>6. CASE step = "raw"
  <2>1. command = "read-mem"
    BY <1>1, <1>6 DEF TurnInv, Running, FirstStep, Commands, Raw
  <2>2. Groups[1] \in Members
    BY SweepAssumption, EmptySeq, ElementOfSeq
  <2> QED
    BY <1>1, <1>2, <1>6, <2>1, <2>2 DEF SweepAsks, RawRequest, Asked, SweepRequests
<1> QED
  BY <1>1, <1>3, <1>4, <1>5, <1>6 DEF Steps

-----------------------------------------------------------------------------
(* The turns *)

(* The turn is over: the next one begins, or the sweep is done. *)
LEMMA ContinueCounts ==
  ASSUME PlaceInv, Running, Continue, UNCHANGED <<command, sent>>, asking' = Nobody, raised' = raised
  PROVE  /\ PlaceInv'
         /\ turn' > 0 => turn' = turn + 1 /\ step' = FirstStep(command')
         /\ turn' = 0 => turn = SweepTurns(command')
<1>1. /\ command \in Commands /\ turn \in 1 .. SweepTurns(command) /\ SweepTurns(command) \in Nat
      /\ FirstStep(command) \in Steps
  BY TurnsExist, FirstIsStep DEF PlaceInv, Running, Steps
<1> QED
  BY <1>1 DEF PlaceInv, Continue

(* What ends a turn by saying something of it keeps the account. *)
LEMMA TurnEnds ==
  ASSUME PlaceInv, TurnInv, Listening, NEW entry, Tell(entry), Continue,
         UNCHANGED <<command, sent, raised>>, asking' = Nobody,
         command = "clear" =>
           \/ step = "list" /\ entry.state = "silent"
           \/ step = "confirm" /\ entry.state \in {"gone", "still"}
  PROVE  PlaceInv' /\ TurnInv'
<1>1. Running /\ asking # Nobody
  BY DEF Listening
<1>2. /\ PlaceInv'
      /\ turn' > 0 => turn' = turn + 1 /\ step' = FirstStep(command')
      /\ turn' = 0 => turn = SweepTurns(command')
  BY <1>1, ContinueCounts
<1>3. /\ command \in Commands /\ turn \in Nat \ {0} /\ turn' \in Nat /\ sent \in Nat
      /\ ~raised /\ report' = report \cup {entry}
  <2>1. /\ command \in Commands /\ SweepTurns(command) \in Nat /\ turn \in 0 .. SweepTurns(command)
        /\ sent \in Nat
    BY TurnsExist DEF PlaceInv
  <2>2. command' \in Commands /\ turn' \in 0 .. SweepTurns(command') /\ SweepTurns(command') \in Nat
    BY <1>2, TurnsExist DEF PlaceInv
  <2> QED
    BY <1>1, <2>1, <2>2 DEF TurnInv, Tell, Running
<1>4. visited' = turn
  BY <1>1, <1>3 DEF TurnInv, Tell, Running
<1>5. command = "clear" => \A e \in report' : e.state = "read" =>
        /\ \E cleared \in report' : cleared.service = "clear"
        /\ \E check \in report' : check.state \in {"gone", "still"}
  <2>1. CASE command = "clear" /\ step = "list" /\ entry.state = "silent"
    <3>1. report' = {entry}
      BY <1>1, <1>3, <2>1 DEF TurnInv, FirstStep
    <3> QED
      BY <2>1, <3>1
  <2>2. CASE command = "clear" /\ step = "confirm" /\ entry.state \in {"gone", "still"}
    <3>1. \E e \in report : e.service = "clear"
      BY <1>3, <2>2 DEF TurnInv
    <3> QED
      BY <1>3, <2>2, <3>1
  <2> QED
    BY <2>1, <2>2
<1>6. SweepAccounted'
  BY <1>2, <1>3, <1>4, <1>5 DEF SweepAccounted
<1>7. FirstStep(command') # "confirm"
  BY <1>3, FirstIsStep
<1>8. ASSUME turn' > 0
      PROVE  step' = FirstStep(command') /\ visited' = turn' - 1 /\ ~raised' /\ asking' = Nobody
  BY <1>2, <1>3, <1>4, <1>8
<1> QED
  BY <1>2, <1>6, <1>7, <1>8 DEF TurnInv

(* An exception ends the sweep without an account. *)
LEMMA RaiseEnds ==
  ASSUME PlaceInv, Raise, Done
  PROVE  PlaceInv' /\ TurnInv'
<1>1. /\ turn' = 0 /\ raised' /\ asking' = Nobody /\ UNCHANGED <<command, sent, step>>
  BY DEF Raise, Done
<1>2. command \in Commands /\ SweepTurns(command) \in Nat
  BY TurnsExist DEF PlaceInv
<1> QED
  BY <1>1, <1>2 DEF PlaceInv, TurnInv, SweepAccounted

LEMMA FailureCounts ==
  ASSUME PlaceInv, TurnInv, Listening, TransportFails
  PROVE  PlaceInv' /\ TurnInv'
<1>1. CASE step \in {"clear", "confirm", "raw"}
  BY <1>1, RaiseEnds DEF TransportFails
<1>2. CASE step \notin {"clear", "confirm", "raw"}
  <2>1. Tell(Entry(<<>>, "silent")) /\ Continue /\ Done /\ UNCHANGED raised
    BY <1>2 DEF TransportFails, NextModule
  <2>2. command = "clear" => step = "list"
    BY <1>2 DEF TurnInv, Listening, Running, FirstStep
  <2>3. Entry(<<>>, "silent").state = "silent"
    BY DEF Entry
  <2> QED
    BY <2>1, <2>2, <2>3, TurnEnds DEF Done
<1> QED
  BY <1>1, <1>2

(* With --clear, a turn goes through its three steps. *)
LEMMA ClearCounts ==
  ASSUME PlaceInv, TurnInv, Listening, NEW result, ClearRead(result), Done
  PROVE  PlaceInv' /\ TurnInv'
<1>1. /\ command = "clear" /\ UNCHANGED <<command, sent, raised>> /\ asking' = Nobody
      /\ Running /\ asking # Nobody /\ FirstStep(command) = "list" /\ FirstStep(command') = "list"
  BY DEF ClearRead, Done, Listening, FirstStep
<1>2. turn \in Nat \ {0} /\ ~raised
  BY <1>1, TurnsExist DEF PlaceInv, Running, TurnInv
<1>3. CASE step = "list" /\ step' = "clear" /\ turn' = turn /\ Tell(Entry(result, "read"))
  <2>1. visited' = turn /\ report' # {}
    BY <1>1, <1>2, <1>3 DEF TurnInv, Tell
  <2> QED
    BY <1>1, <1>2, <1>3, <2>1 DEF PlaceInv, TurnInv, SweepAccounted, Steps
<1>4. CASE /\ step = "clear" /\ step' = "confirm" /\ turn' = turn
           /\ \E state : Tell(Entry(result, state))
  <2> PICK state : Tell(Entry(result, state))
    BY <1>4
  <2>0. turn > 0 /\ step = "clear" /\ step # FirstStep(command)
    BY <1>1, <1>2, <1>4
  <2>1. visited = turn /\ report # {} /\ asking.service = "clear"
    BY <1>1, <2>0 DEF TurnInv
  <2>4. visited' = turn
    BY <2>1 DEF Tell
  <2>2. Entry(result, state).service = "clear"
    BY <2>1 DEF Entry
  <2>3. \E e \in report' : e.service = "clear"
    BY <2>2 DEF Tell
  <2> QED
    BY <1>1, <1>2, <1>4, <2>3, <2>4 DEF PlaceInv, TurnInv, SweepAccounted, Steps
<1>5. CASE /\ step = "confirm" /\ Continue
           /\ Tell(Entry(result, IF CodesIn(result) = 0 THEN "gone" ELSE "still"))
  <2>1. Entry(result, IF CodesIn(result) = 0 THEN "gone" ELSE "still").state \in {"gone", "still"}
    BY DEF Entry
  <2> QED
    BY <1>1, <1>5, <2>1, TurnEnds
<1> QED
  BY <1>3, <1>4, <1>5 DEF ClearRead

LEMMA ReturnCounts ==
  ASSUME PlaceInv, TurnInv, Listening, NEW result, SweepReturns(result)
  PROVE  PlaceInv' /\ TurnInv'
<1>1. CASE command = "clear"
  <2>1. ClearRead(result) /\ Done
    BY <1>1 DEF SweepReturns, DtcRead, IdentityRead, DumpRead, DiscoverRead, VerifyRead, MemoryRead
  <2> QED
    BY <2>1, ClearCounts
<1>2. CASE command # "clear"
  <2>1. Told(result) /\ Done
    BY <1>2
    DEF SweepReturns, DtcRead, ClearRead, IdentityRead, DumpRead, DiscoverRead, VerifyRead, MemoryRead
  <2> QED
    BY <1>2, <2>1, TurnEnds DEF Told, Done
<1> QED
  BY <1>1, <1>2

(* One step of the program, the modules or the bus. *)
LEMMA StepCounts ==
  PlaceInv /\ TurnInv /\ [SweepNext]_sweepVars => PlaceInv' /\ TurnInv'
<1> SUFFICES ASSUME PlaceInv, TurnInv, [SweepNext]_sweepVars
             PROVE  PlaceInv' /\ TurnInv'
  OBVIOUS
<1>1. ASSUME UNCHANGED <<command, turn, step, asking, sent, raised, report, visited>>
      PROVE  PlaceInv' /\ TurnInv'
  BY <1>1 DEF PlaceInv, TurnInv, SweepAccounted
<1>2. CASE \E l \in {"vxdiag", "elm"}, c \in Commands : Run(l, c)
  <2>1. /\ turn = 0 /\ command' \in Commands /\ turn' = 1 /\ step' = FirstStep(command') /\ sent' = 0
        /\ ~raised' /\ report' = {} /\ visited' = 0 /\ asking' = asking /\ ~Writes(command')
    BY <1>2 DEF Run
  <2>2. asking' = Nobody
    BY <2>1 DEF PlaceInv
  <2>3. SweepTurns(command') \in Nat \ {0} /\ FirstStep(command') \in {"list", "block", "value", "raw"}
    BY <2>1, TurnsExist, FirstIsStep
  <2> QED
    BY <2>1, <2>2, <2>3 DEF PlaceInv, TurnInv, SweepAccounted, Steps
<1>3. CASE Send
  <2>1. /\ Running /\ asking' = SweepAsks /\ sent' = sent + 1
        /\ report' = IF step = FirstStep(command) THEN {} ELSE report
        /\ UNCHANGED <<command, turn, step, raised, visited>>
    BY <1>3 DEF Send
  <2>2. /\ SweepAsks.module \in Members /\ SweepAsks \in SweepRequests(SweepAsks.module)
        /\ SweepAsks.service = IF step = "confirm" THEN "list" ELSE step
    BY <2>1, SweepAsksTyped
  <2>3. PlaceInv'
    BY <2>1, <2>2 DEF PlaceInv, Running
  <2>4. turn > 0 /\ turn \in Nat /\ command \in Commands
    BY <2>1, TurnsExist DEF PlaceInv, Running
  <2>5. SweepAccounted'
    BY <2>1, <2>4 DEF SweepAccounted, FirstStep
  <2>6. step = "confirm" => step # FirstStep(command)
    BY <2>4, FirstIsStep
  <2> QED
    BY <2>1, <2>2, <2>3, <2>4, <2>5, <2>6 DEF TurnInv
<1>4. CASE ReceiveOne \/ ReceiveAll
  BY <1>1, <1>4, ReturnCounts DEF ReceiveOne, ReceiveAll
<1>5. CASE SweepTimeout
  BY <1>5, FailureCounts, ReturnCounts DEF SweepTimeout, ValueTimeout, ClearTimeout, CollectEnds, RawEnds
<1>6. CASE LinkFails
  BY <1>6, FailureCounts, RaiseEnds DEF LinkFails
<1>7. CASE ReadCut
  BY <1>1, <1>7, RaiseEnds DEF ReadCut
<1>8. CASE SweepCars
  BY <1>1, <1>8 DEF SweepCars, Chatter, Prompt, Speak, SpeakOn, Emit, sweep
<1>9. CASE UNCHANGED sweepVars
  BY <1>1, <1>9 DEF sweepVars, sweep
<1> QED
  BY <1>2, <1>3, <1>4, <1>5, <1>6, <1>7, <1>8, <1>9 DEF SweepNext, SweepStep

-----------------------------------------------------------------------------
(* The wire *)

(* A frame comes in, or is lost. *)
LEMMA QueueGrows ==
  ASSUME queue \in Seq(Honest(wiped)), wiped \subseteq wiped',
         NEW f \in Honest(wiped'), queue' \in {queue, Append(queue, f)}
  PROVE  queue' \in Seq(Honest(wiped'))
<1>1. Honest(wiped) \subseteq Honest(wiped')
  BY DEF Honest
<1>2. queue \in Seq(Honest(wiped'))
  BY <1>1, SeqMonotonic
<1> QED
  BY <1>2

(* Frames are read. *)
LEMMA QueueShrinks ==
  ASSUME queue \in Seq(Honest(wiped)), wiped' = wiped, NEW k \in 1 .. Len(queue) + 1,
         queue' = SubSeq(queue, k, Len(queue))
  PROVE  queue' \in Seq(Honest(wiped'))
<1>1. \A i \in k .. Len(queue) : queue[i] \in Honest(wiped)
  BY ElementOfSeq, LenProperties
<1>2. Len(queue) \in Nat
  BY LenProperties
<1> QED
  BY <1>1, <1>2, SubSeqProperties

(* What a module may send next, and what it keeps for later. *)
LEMMA SpokenTyped ==
  ASSUME WireInv, NEW m \in Members, owed[m] # <<>>
  PROVE  /\ owed[m][1] \in Owing(m) /\ Tail(owed[m]) \in Seq(Owing(m))
         /\ Refusal(m) \in RestOf(m)
         /\ Head(Answered(m)) \in BusFrame /\ Head(Answered(m)).from = m
         /\ Head(Answered(m)).service = owed[m][1].service
         /\ Tail(Answered(m)) \in Seq(RestOf(m))
<1> DEFINE r == owed[m][1]
<1>1. r \in Owing(m) /\ Tail(owed[m]) \in Seq(Owing(m))
  BY HeadTailProperties, EmptySeq, ElementOfSeq DEF WireInv
<1>2. stored[m] \in 0 .. 2
  BY DEF WireInv
<1>3. \A part \in 0 .. 2, codes \in Nat :
        /\ CarFrame(r, part, codes) \in BusFrame /\ CarFrame(r, part, codes).from = m
        /\ CarFrame(r, part, codes).service = r.service
  BY <1>1 DEF CarFrame, Owing, SweepRequests, BusFrame
<1>4. Refusal(m) \in RestOf(m)
  <2>1. 0 \in 0 .. 2 /\ CarFrame(r, 0, 0) \in BusFrame /\ CarFrame(r, 0, 0).from = m
    BY <1>3
  <2>2. Refusal(m) = [CarFrame(r, 0, 0) EXCEPT !.service = "refusal"]
    BY DEF Refusal
  <2> HIDE DEF r
  <2> QED
    BY <2>1, <2>2 DEF BusFrame, RestOf
<1> HIDE DEF r
<1>5. CASE r.service \in {"value", "clear"}
  <2>1. Answered(m) = <<CarFrame(r, 0, 0)>>
    BY <1>5 DEF Answered, r
  <2>2. Head(Answered(m)) = CarFrame(r, 0, 0) /\ Tail(Answered(m)) = <<>>
    BY <2>1
  <2>3. 0 \in 0 .. 2
    OBVIOUS
  <2>4. CarFrame(r, 0, 0) \in BusFrame /\ CarFrame(r, 0, 0).from = m /\ CarFrame(r, 0, 0).service = r.service
    BY <1>3, <2>3
  <2> QED
    BY <1>1, <1>4, <2>2, <2>4, EmptySeq DEF r
<1>6. CASE r.service \in {"list", "block", "raw"}
  <2>1. PICK x \in 0 .. 2, y \in 0 .. 2 :
          Answered(m) \in {<<CarFrame(r, 1, x)>>, <<CarFrame(r, 1, x), CarFrame(r, 2, y)>>}
    <3>1. CASE r.service = "list"
      <4>1. CASE stored[m] = 2
        BY <3>1, <4>1 DEF Answered, r
      <4>2. CASE stored[m] # 2
        BY <1>2, <3>1, <4>2 DEF Answered, r
      <4> QED
        BY <4>1, <4>2
    <3>2. CASE r.service \in {"block", "raw"}
      BY <3>2 DEF Answered, r
    <3> QED
      BY <1>6, <3>1, <3>2
  <2>2. CarFrame(r, 1, x) \in BusFrame /\ CarFrame(r, 2, y) \in RestOf(m)
    BY <1>3, <1>6 DEF RestOf
  <2>3. Head(Answered(m)) = CarFrame(r, 1, x)
    BY <2>1
  <2>4. Tail(Answered(m)) = <<>> \/ Tail(Answered(m)) = <<CarFrame(r, 2, y)>>
    <3>1. CASE Answered(m) = <<CarFrame(r, 1, x)>>
      BY <3>1
    <3>2. CASE Answered(m) = <<CarFrame(r, 1, x), CarFrame(r, 2, y)>>
      BY <3>2
    <3> QED
      BY <2>1, <3>1, <3>2
  <2>5. Tail(Answered(m)) \in Seq(RestOf(m))
    <3>1. <<>> \in Seq(RestOf(m)) /\ <<CarFrame(r, 2, y)>> \in Seq(RestOf(m))
      BY <2>2, EmptySeq
    <3> QED
      BY <2>4, <3>1
  <2> QED
    BY <1>1, <1>3, <1>4, <2>3, <2>5 DEF r
<1> QED
  BY <1>1, <1>5, <1>6 DEF Owing, SweepRequests

(* Emit puts the frame in the queue, stamped with the time, or does not. *)
LEMMA EmitHonest ==
  ASSUME PlaceInv, WireInv, NEW m \in Members, NEW f, f \in Honest(wiped'), NEW rest,
         Emit(m, f, rest), wiped \subseteq wiped', rest \in Seq(RestOf(m))
  PROVE  /\ queue' \in Seq(Honest(wiped')) /\ DOMAIN saying' = Members
         /\ \A k \in Members : saying'[k] \in Seq(RestOf(k))
<1> DEFINE g == [f EXCEPT !.at = sent]
<1>1. g \in Honest(wiped')
  BY DEF Honest, BusFrame, PlaceInv
<1>2. queue' = queue \/ queue' = Append(queue, g)
  BY DEF Emit
<1>3. queue' \in Seq(Honest(wiped'))
  <2> HIDE DEF g
  <2> QED
    BY <1>1, <1>2, QueueGrows DEF WireInv
<1>4. saying' = [saying EXCEPT ![m] = rest]
  BY DEF Emit
<1> QED
  BY <1>3, <1>4 DEF WireInv

LEMMA SpeakHonest ==
  ASSUME PlaceInv, WireInv, NEW m \in Members, Speak(m)
  PROVE  WireInv'
<1>1. owed[m] # <<>> /\ owed' = [owed EXCEPT ![m] = Tail(@)] /\ command' = command
  BY DEF Speak, Emit, sweep
<1>2. DOMAIN owed' = Members /\ \A k \in Members : owed'[k] \in Seq(Owing(k))
  BY <1>1, SpokenTyped DEF WireInv
<1>3. CASE /\ Emit(m, Head(Answered(m)), Tail(Answered(m)))
           /\ IF owed[m][1].service = "clear"
                THEN stored' = [stored EXCEPT ![m] = 0] /\ wiped' = wiped \cup {m}
                ELSE UNCHANGED <<stored, wiped>>
  <2>1. /\ wiped \subseteq wiped' /\ stored' \in [Members -> 0 .. 2]
        /\ owed[m][1].service = "clear" => m \in wiped'
        /\ wiped' # {} => command = "clear"
    <3>1. CASE owed[m][1].service = "clear"
      <4>1. stored' = [stored EXCEPT ![m] = 0] /\ wiped' = wiped \cup {m}
        BY <1>3, <3>1
      <4>2. command = "clear"
        BY <1>1, <3>1, SpokenTyped DEF Owing
      <4> QED
        BY <4>1, <4>2 DEF WireInv
    <3>2. CASE owed[m][1].service # "clear"
      BY <1>3, <3>2 DEF WireInv
    <3> QED
      BY <3>1, <3>2
  <2>2. Head(Answered(m)) \in Honest(wiped') /\ Tail(Answered(m)) \in Seq(RestOf(m))
    BY <1>1, <2>1, SpokenTyped DEF Honest
  <2>3. /\ queue' \in Seq(Honest(wiped')) /\ DOMAIN saying' = Members
        /\ \A k \in Members : saying'[k] \in Seq(RestOf(k))
    BY <1>3, <2>1, <2>2, EmitHonest
  <2> QED
    BY <1>1, <1>2, <2>1, <2>3 DEF WireInv, Owing, SweepRequests
<1>4. CASE Emit(m, Refusal(m), <<>>) /\ UNCHANGED <<stored, wiped>>
  <2>1. Refusal(m) \in Honest(wiped')
    BY <1>1, SpokenTyped DEF RestOf, Honest
  <2>2. <<>> \in Seq(RestOf(m))
    BY EmptySeq
  <2>3. /\ queue' \in Seq(Honest(wiped')) /\ DOMAIN saying' = Members
        /\ \A k \in Members : saying'[k] \in Seq(RestOf(k))
    BY <1>4, <2>1, <2>2, EmitHonest
  <2> QED
    BY <1>1, <1>2, <1>4, <2>3 DEF WireInv, Owing, SweepRequests
<1>5. CASE UNCHANGED <<sweep, saying, stored, wiped, broken>>
  BY <1>1, <1>2, <1>5 DEF WireInv, Owing, SweepRequests, sweep
<1> QED
  BY <1>3, <1>4, <1>5 DEF Speak

LEMMA SpeakOnHonest ==
  ASSUME PlaceInv, WireInv, NEW m \in Members, SpeakOn(m)
  PROVE  WireInv'
<1>1. /\ saying[m] # <<>> /\ saying[m] \in Seq(RestOf(m))
      /\ Emit(m, Head(saying[m]), Tail(saying[m])) /\ UNCHANGED <<command, owed, stored, wiped>>
  BY DEF SpeakOn, Emit, WireInv
<1>2. Head(saying[m]) \in RestOf(m) /\ Tail(saying[m]) \in Seq(RestOf(m))
  BY <1>1, HeadTailProperties
<1>3. Head(saying[m]) \in Honest(wiped')
  BY <1>2 DEF RestOf, Honest
<1>4. /\ queue' \in Seq(Honest(wiped')) /\ DOMAIN saying' = Members
      /\ \A k \in Members : saying'[k] \in Seq(RestOf(k))
  BY <1>1, <1>2, <1>3, EmitHonest
<1> QED
  BY <1>1, <1>4 DEF WireInv, Owing, SweepRequests

LEMMA SendHonest ==
  ASSUME PlaceInv, TurnInv, WireInv, Send
  PROVE  WireInv'
<1> DEFINE kept(m) == IF owed[m] # <<>> /\ Head(owed[m]).n + MaxLate <= sent
                        THEN Tail(owed[m]) ELSE owed[m]
<1>1. /\ queue' = <<>> /\ Running /\ UNCHANGED <<command, saying, stored, wiped>>
      /\ owed' = [m \in Members |->
           IF m = SweepAsks.module THEN Append(kept(m), SweepAsks) ELSE kept(m)]
  BY DEF Send, Cleared
<1>2. \A m \in Members : kept(m) \in Seq(Owing(m))
  BY HeadTailProperties DEF WireInv
<1> HIDE DEF kept
<1>3. SweepAsks \in Owing(SweepAsks.module)
  BY <1>1, SweepAsksTyped DEF Owing
<1>4. \A m \in Members : owed'[m] \in Seq(Owing(m))
  BY <1>1, <1>2, <1>3
<1>5. queue' \in Seq(Honest(wiped'))
  BY <1>1, EmptySeq
<1> QED
  BY <1>1, <1>4, <1>5 DEF WireInv, Owing, SweepRequests

(* Reading takes frames from the front of the queue. *)
LEMMA ReadHonest ==
  ASSUME WireInv, ReceiveOne \/ ReceiveAll \/ ReadCut
  PROVE  WireInv'
<1>1. queue \in Seq(Honest(wiped)) /\ Len(queue) \in Nat
  BY LenProperties DEF WireInv
<1>2. UNCHANGED <<command, owed, saying, stored, wiped>>
  BY DEF ReceiveOne, ReceiveAll, ReadCut, Done, SweepReturns, cars
<1>3. PICK k \in 1 .. Len(queue) + 1 : queue' = SubSeq(queue, k, Len(queue))
  <2>1. CASE ReceiveOne \/ ReceiveAll
    <3>1. queue' = SubSeq(queue, BatchLength + 1, Len(queue))
      BY <2>1 DEF ReceiveOne, ReceiveAll
    <3>2. BatchLength \in 0 .. Len(queue)
      BY <1>1, SweepAssumption DEF BatchLength, J2534Batch, ElmLines
    <3>3. BatchLength + 1 \in 1 .. Len(queue) + 1
      BY <1>1, <3>2
    <3> HIDE DEF BatchLength
    <3> QED
      BY <3>1, <3>3
  <2>2. CASE ReadCut
    <3>1. queue # <<>> /\ queue' = Tail(queue)
      BY <2>2 DEF ReadCut
    <3>2. queue' = SubSeq(queue, 2, Len(queue)) /\ Len(queue) \in Nat \ {0}
      BY <1>1, <3>1, TailIsSubSeq, EmptySeq
    <3>3. 2 \in 1 .. Len(queue) + 1
      BY <3>2
    <3> QED
      BY <3>2, <3>3
  <2> QED
    BY <2>1, <2>2
<1>4. queue' \in Seq(Honest(wiped'))
  BY <1>1, <1>2, <1>3, QueueShrinks
<1> QED
  BY <1>2, <1>4 DEF WireInv, Owing, SweepRequests

LEMMA StepHonest ==
  PlaceInv /\ TurnInv /\ WireInv /\ [SweepNext]_sweepVars => WireInv'
<1> SUFFICES ASSUME PlaceInv, TurnInv, WireInv, [SweepNext]_sweepVars PROVE WireInv'
  OBVIOUS
<1>1. ASSUME UNCHANGED <<command, queue, owed, saying, stored, wiped>> PROVE WireInv'
  BY <1>1 DEF WireInv, Owing, SweepRequests
<1>2. CASE \E l \in {"vxdiag", "elm"}, c \in Commands : Run(l, c)
  <2>1. queue' = <<>> /\ stored' \in [Members -> CodeCounts] /\ UNCHANGED <<owed, saying>>
        /\ wiped' = {} /\ \A m \in Members : owed[m] = <<>>
    BY <1>2 DEF Run
  <2>2. queue' \in Seq(Honest(wiped')) /\ stored' \in [Members -> 0 .. 2]
    BY <2>1, EmptySeq, SweepAssumption
  <2>3. \A m \in Members : owed'[m] \in Seq(Owing(m)')
    BY <2>1, EmptySeq
  <2> QED
    BY <2>1, <2>2, <2>3 DEF WireInv
<1>3. CASE Send
  BY <1>3, SendHonest
<1>4. CASE ReceiveOne \/ ReceiveAll \/ ReadCut
  BY <1>4, ReadHonest
<1>5. CASE SweepTimeout \/ LinkFails \/ Prompt \/ UNCHANGED sweepVars
  BY <1>1, <1>5 DEF SweepTimeout, ValueTimeout, ClearTimeout, CollectEnds, RawEnds, TransportFails,
                    SweepReturns, Done, LinkFails, Prompt, sweepVars, sweep, cars
<1>6. CASE Chatter
  <2> DEFINE f == [CarFrame(asking, 0, 0) EXCEPT !.from = Nobody, !.service = "chatter"]
  <2>1. PICK m \in Members : asking \in SweepRequests(m)
    BY <1>6 DEF Chatter, Listening, PlaceInv
  <2>2. f \in Honest(wiped')
    <3>1. 0 \in 0 .. 2
      OBVIOUS
    <3>2. CarFrame(asking, 0, 0) \in [from : Members, id : Items, part : 0 .. 2, codes : Nat, n : Nat,
            at : Nat, cut : BOOLEAN, service : {"list", "clear", "block", "value", "raw"}]
      BY <2>1, <3>1 DEF CarFrame, SweepRequests
    <3> QED
      BY <3>2 DEF BusFrame, Honest
  <2>3. queue' = Append(queue, f) /\ UNCHANGED <<command, owed, saying, stored, wiped>>
    BY <1>6 DEF Chatter, cars
  <2> HIDE DEF f
  <2>4. queue' \in Seq(Honest(wiped'))
    BY <2>2, <2>3, QueueGrows DEF WireInv
  <2> QED
    BY <2>3, <2>4 DEF WireInv, Owing, SweepRequests
<1>7. CASE \E m \in Members : Speak(m) \/ SpeakOn(m)
  BY <1>7, SpeakHonest, SpeakOnHonest
<1> QED
  BY <1>2, <1>3, <1>4, <1>5, <1>6, <1>7 DEF SweepNext, SweepStep, SweepCars

-----------------------------------------------------------------------------
(* The claim *)

(* Of the frames of a batch that fit, one is the first. *)
LEMMA FirstExists ==
  ASSUME NEW T, T \subseteq Nat, T # {}
  PROVE  \E first \in T : \A k \in T : first <= k
<1> DEFINE R == OpToRel(<, Nat)
<1>1. IsWellFoundedOn(R, Nat)
  BY NatLessThanWellFounded
<1>2. \A x, y \in Nat : y < x => <<y, x>> \in R
  BY DEF OpToRel
<1> HIDE DEF R
<1>3. PICK first \in T : \A k \in T : ~(<<k, first>> \in R)
  BY <1>1, WFMin
<1>4. ASSUME NEW k \in T PROVE first <= k
  <2>1. k \in Nat /\ first \in Nat
    OBVIOUS
  <2>2. ~(k < first)
    BY <1>2, <1>3, <2>1
  <2> QED
    BY <2>1, <2>2
<1> QED
  BY <1>4

(* What is read of a clear is an acknowledgement of the module asked, and that   *)
(* module has sent it.                                                       *)
LEMMA ReturnClaims ==
  ASSUME PlaceInv, TurnInv, SaidWiped, wiped' = wiped, Listening, NEW result, SweepReturns(result),
         step = "clear" /\ result # <<>> => asking.module \in wiped
  PROVE  SaidWiped'
<1>1. CASE command = "clear" /\ step = "clear"
  <2>1. ClearRead(result)
    BY <1>1 DEF SweepReturns, DtcRead, IdentityRead, DumpRead, DiscoverRead, VerifyRead, MemoryRead
  <2>2. report' = report \cup {Entry(result, IF result # <<>> THEN "ack" ELSE "no ack")}
    BY <1>1, <2>1 DEF ClearRead, Tell
  <2>3. CASE result # <<>>
    <3>1. report' = report \cup {Entry(result, "ack")} /\ Entry(result, "ack").module = asking.module
      BY <2>2, <2>3 DEF Entry
    <3> QED
      BY <1>1, <2>3, <3>1 DEF SaidWiped
  <2>4. CASE result = <<>>
    <3>1. report' = report \cup {Entry(result, "no ack")} /\ Entry(result, "no ack").state # "ack"
      BY <2>2, <2>4 DEF Entry
    <3> QED
      BY <3>1 DEF SaidWiped
  <2> QED
    BY <2>3, <2>4
<1>2. CASE ~(command = "clear" /\ step = "clear")
  <2>1. PICK state \in {"read", "gone", "still"} : report' = report \cup {Entry(result, state)}
    BY <1>2 DEF SweepReturns, DtcRead, ClearRead, IdentityRead, DumpRead, DiscoverRead, VerifyRead, MemoryRead,
                Told, Tell
  <2>2. Entry(result, state).state # "ack"
    BY DEF Entry
  <2> QED
    BY <2>1, <2>2 DEF SaidWiped
<1> QED
  BY <1>1, <1>2

LEMMA FailureClaims ==
  ASSUME SaidWiped, wiped' = wiped, TransportFails
  PROVE  SaidWiped'
<1>1. report' = report \/ report' = report \cup {Entry(<<>>, "silent")}
  BY DEF TransportFails, Raise, NextModule, Tell
<1>2. Entry(<<>>, "silent").state # "ack"
  BY DEF Entry
<1> QED
  BY <1>1, <1>2 DEF SaidWiped

LEMMA ReceiveClaims ==
  ASSUME PlaceInv, TurnInv, WireInv, SaidWiped, ReceiveOne
  PROVE  SaidWiped'
<1>1. wiped' = wiped /\ Listening
  BY DEF ReceiveOne, cars
<1> DEFINE good == {i \in 1 .. BatchLength : IF step = "value" THEN Matches(queue[i], asking)
                                            ELSE Acks(queue[i], asking)}
           first == queue[CHOOSE i \in good : \A k \in good : i <= k]
<1>2. CASE SweepReturns(<<first>>) /\ \E i \in good : first = queue[i]
  <2>1. PICK i \in good : first = queue[i]
    BY <1>2
  <2>2. ASSUME step = "clear" PROVE asking.module \in wiped
    <3>1. Acks(queue[i], asking)
      BY <2>2
    <3>2. i \in 1 .. Len(queue) /\ queue \in Seq(Honest(wiped)) /\ Len(queue) \in Nat
      BY SweepAssumption, LenProperties DEF WireInv, BatchLength, J2534Batch, ElmLines
    <3>3. queue[i] \in Honest(wiped)
      BY <3>2, ElementOfSeq
    <3> QED
      BY <3>1, <3>3 DEF Honest, Acks
  <2> HIDE DEF first
  <2> QED
    BY <1>1, <1>2, <2>2, ReturnClaims
<1>3. CASE UNCHANGED report
  BY <1>1, <1>3 DEF SaidWiped
<1>4. ASSUME good # {} PROVE \E i \in good : first = queue[i]
  <2>1. good \subseteq Nat
    OBVIOUS
  <2>2. PICK least \in good : \A k \in good : least <= k
    <3> HIDE DEF good
    <3> QED
      BY <1>4, <2>1, FirstExists
  <2> HIDE DEF good
  <2> QED
    BY <2>2
<1>5. good = {} => UNCHANGED report
  BY DEF ReceiveOne
<1>6. good # {} => SweepReturns(<<first>>)
  BY DEF ReceiveOne
<1> QED
  BY <1>2, <1>3, <1>4, <1>5, <1>6

LEMMA StepClaims ==
  ASSUME PlaceInv, TurnInv, WireInv, SaidWiped, [SweepNext]_sweepVars
  PROVE  SaidWiped'
<1>1. ASSUME report' = report, wiped \subseteq wiped' PROVE SaidWiped'
  BY <1>1 DEF SaidWiped
<1>2. CASE \E l \in {"vxdiag", "elm"}, c \in Commands : Run(l, c)
  BY <1>2 DEF Run, SaidWiped
<1>3. CASE Send
  BY <1>3 DEF Send, SaidWiped
<1>4. CASE ReceiveOne
  BY <1>4, ReceiveClaims
<1>5. CASE SweepTimeout
  <2>1. wiped' = wiped /\ Listening
    BY <1>5 DEF SweepTimeout, cars
  <2>2. CASE TransportFails
    BY <2>1, <2>2, FailureClaims
  <2>3. CASE step = "clear" /\ SweepReturns(<<>>)
    BY <2>1, <2>3, ReturnClaims
  <2>4. ASSUME NEW result, step # "clear", SweepReturns(result) PROVE SaidWiped'
    BY <2>1, <2>4, ReturnClaims
  <2> QED
    BY <1>5, <2>2, <2>3, <2>4 DEF SweepTimeout, ValueTimeout, ClearTimeout, CollectEnds, RawEnds
<1>6. CASE LinkFails
  BY <1>1, <1>6, FailureClaims DEF LinkFails, Raise, cars
<1>7. CASE ReceiveAll \/ ReadCut \/ UNCHANGED sweepVars
  BY <1>1, <1>7 DEF ReceiveAll, ReadCut, Raise, sweepVars, sweep, cars
<1>8. CASE SweepCars
  BY <1>1, <1>8 DEF SweepCars, Chatter, Prompt, Speak, SpeakOn, Emit, sweep, cars
<1> QED
  BY <1>2, <1>3, <1>4, <1>5, <1>6, <1>7, <1>8 DEF SweepNext, SweepStep

-----------------------------------------------------------------------------
LEMMA SweepBegins == SweepInit => SweepInv
<1> SUFFICES ASSUME SweepInit PROVE SweepInv
  OBVIOUS
<1>1. PlaceInv
  BY TurnsExist DEF SweepInit, PlaceInv, Commands, Steps, Writes
<1>2. WireInv
  BY EmptySeq DEF SweepInit, WireInv
<1> QED
  BY <1>1, <1>2 DEF SweepInit, SweepInv, TurnInv, SweepAccounted, SaidWiped

LEMMA SweepInvariance == SweepSpec => []SweepInv
<1>1. SweepInv /\ [SweepNext]_sweepVars => SweepInv'
  BY StepCounts, StepHonest, StepClaims DEF SweepInv
<1> QED
  BY SweepBegins, <1>1, PTL DEF SweepSpec

(* dtc --clear: a module said to be cleared has emptied its memory in this command, *)
(* whatever other modules acknowledge, late or not; no other command empties *)
(* a memory, whatever is given to read-mem.                                  *)
THEOREM ClaimsHold == SweepSpec => []ClearedIsWiped
<1>1. SweepInv => ClearedIsWiped
  BY DEF SweepInv, SaidWiped, WireInv, ClearedIsWiped
<1> QED
  BY <1>1, SweepInvariance, PTL

(* A sweep that ends without an exception has said something of every turn, and     *)
(* what --clear begins with a module it ends before the next one.            *)
THEOREM SweepsAccount == SweepSpec => []SweepAccounted
<1>1. SweepInv => SweepAccounted
  BY DEF SweepInv, TurnInv
<1> QED
  BY <1>1, SweepInvariance, PTL

-----------------------------------------------------------------------------
(* Picked: the frames at some places of a sequence, in their order *)

(* g picks the places of the first n frames, one frame at a time.            *)
PicksTo(fs, places, n, g) ==
  g = [i \in 0 .. n |->
         IF i = 0 THEN <<>> ELSE IF i \in places THEN Append(g[i - 1], fs[i]) ELSE g[i - 1]]

(* There is such a function for every n: where it fails first, n - 1 has     *)
(* one to extend.                                                            *)
LEMMA PicksExist ==
  ASSUME NEW fs, NEW places, NEW n \in Nat
  PROVE  \E g : PicksTo(fs, places, n, g)
<1> DEFINE T == {k \in Nat : ~ \E g : PicksTo(fs, places, k, g)}
<1> SUFFICES ASSUME T # {} PROVE FALSE
  OBVIOUS
<1>1. PICK k \in T : \A l \in T : k <= l
  BY FirstExists
<1>2. CASE k = 0
  <2>1. PicksTo(fs, places, 0, [i \in 0 .. 0 |-> <<>>])
    BY DEF PicksTo
  <2> QED
    BY <1>1, <1>2, <2>1
<1>3. CASE k # 0
  <2>1. k - 1 \in Nat /\ ~(k <= k - 1)
    BY <1>1, <1>3
  <2>2. PICK g : PicksTo(fs, places, k - 1, g)
    BY <1>1, <2>1
  <2> DEFINE last == IF k \in places THEN Append(g[k - 1], fs[k]) ELSE g[k - 1]
             h == [i \in 0 .. k |-> IF i = k THEN last ELSE g[i]]
  <2>3. ASSUME NEW i \in 0 .. k
        PROVE  h[i] = IF i = 0 THEN <<>> ELSE IF i \in places THEN Append(h[i - 1], fs[i]) ELSE h[i - 1]
    <3>1. CASE i = k
      <4>1. h[k - 1] = g[k - 1] /\ h[k] = last
        BY <1>3, <2>1
      <4> QED
        BY <1>3, <3>1, <4>1
    <3>2. CASE i # k /\ i # 0
      <4>1. i \in 0 .. k - 1 /\ i - 1 \in 0 .. k - 1
        BY <2>1, <3>2
      <4>2. g[i] = IF i \in places THEN Append(g[i - 1], fs[i]) ELSE g[i - 1]
        BY <2>2, <3>2, <4>1 DEF PicksTo
      <4>3. h[i] = g[i] /\ h[i - 1] = g[i - 1]
        BY <2>1, <3>2, <4>1
      <4> QED
        BY <3>2, <4>2, <4>3
    <3>3. CASE i = 0
      <4>1. g[0] = <<>>
        BY <2>1, <2>2 DEF PicksTo
      <4> QED
        BY <1>3, <3>3, <4>1
    <3> QED
      BY <3>1, <3>2, <3>3
  <2>4. h = [i \in 0 .. k |->
               IF i = 0 THEN <<>> ELSE IF i \in places THEN Append(h[i - 1], fs[i]) ELSE h[i - 1]]
    BY <2>3
  <2> HIDE DEF h
  <2>5. PicksTo(fs, places, k, h)
    BY <2>4 DEF PicksTo
  <2> QED
    BY <1>1, <2>5
<1> QED
  BY <1>2, <1>3

(* Picked is the last of a run of picks. *)
LEMMA PickedIs ==
  ASSUME NEW S, NEW fs \in Seq(S), NEW places
  PROVE  \E g : PicksTo(fs, places, Len(fs), g) /\ Picked(fs, places) = g[Len(fs)]
<1>1. Len(fs) \in Nat
  BY LenProperties
<1>2. \E g : PicksTo(fs, places, Len(fs), g)
  BY <1>1, PicksExist
<1> DEFINE c == CHOOSE g : PicksTo(fs, places, Len(fs), g)
<1>3. PicksTo(fs, places, Len(fs), c)
  BY <1>2
<1>4. Picked(fs, places) = c[Len(fs)]
  BY DEF Picked, PicksTo
<1> QED
  BY <1>3, <1>4

(* Where the frames of ps come from: places up to the n-th, all of them, in order. *)
(* ps are the frames of the first n at these places, each once, in their     *)
(* order.                                                                    *)
ComesFrom(fs, places, n, ps, place) ==
  /\ place \in [1 .. Len(ps) -> 1 .. n]
  /\ \A k \in 1 .. Len(ps) : place[k] \in places /\ ps[k] = fs[place[k]]
  /\ \A k, l \in 1 .. Len(ps) : k < l => place[k] < place[l]
  /\ \A i \in 1 .. n : i \in places => \E k \in 1 .. Len(ps) : place[k] = i

(* What Picked returns, by the number of frames looked at: none,             *)
LEMMA PickedNone == ASSUME NEW fs, NEW places PROVE ComesFrom(fs, places, 0, <<>>, <<>>)
<1>1. Len(<<>>) = 0 /\ 1 .. 0 = {}
  BY EmptySeq
<1>2. <<>> \in [1 .. Len(<<>>) -> 1 .. 0]
  BY <1>1
<1> QED
  BY <1>1, <1>2 DEF ComesFrom

(* one that is not at a place,                                               *)
LEMMA PickedPassed ==
  ASSUME NEW fs, NEW places, NEW n \in Nat, NEW ps, Len(ps) \in Nat, NEW place,
         ComesFrom(fs, places, n, ps, place), n + 1 \notin places
  PROVE  ComesFrom(fs, places, n + 1, ps, place)
BY DEF ComesFrom

(* and one that is.                                                          *)
LEMMA PickedAppends ==
  ASSUME NEW S, NEW fs, NEW places, NEW n \in Nat, NEW ps \in Seq(S), NEW place,
         ComesFrom(fs, places, n, ps, place), n + 1 \in places, fs[n + 1] \in S
  PROVE  \E more : ComesFrom(fs, places, n + 1, Append(ps, fs[n + 1]), more)
<1> DEFINE qs == Append(ps, fs[n + 1])
           more == [k \in 1 .. Len(ps) + 1 |-> IF k = Len(ps) + 1 THEN n + 1 ELSE place[k]]
<1>1. /\ Len(ps) \in Nat /\ Len(qs) = Len(ps) + 1 /\ qs[Len(ps) + 1] = fs[n + 1]
      /\ \A k \in 1 .. Len(ps) : qs[k] = ps[k]
  BY AppendProperties, LenProperties
<1>2. /\ more[Len(ps) + 1] = n + 1
      /\ \A k \in 1 .. Len(ps) : more[k] = place[k] /\ place[k] \in 1 .. n
  BY <1>1 DEF ComesFrom
<1>3. more \in [1 .. Len(ps) + 1 -> 1 .. n + 1]
  <2>1. ASSUME NEW k \in 1 .. Len(ps) + 1
        PROVE  (IF k = Len(ps) + 1 THEN n + 1 ELSE place[k]) \in 1 .. n + 1
    <3>1. CASE k = Len(ps) + 1
      BY <3>1
    <3>2. CASE k # Len(ps) + 1
      <4>1. k \in 1 .. Len(ps)
        BY <1>1, <3>2
      <4>2. place[k] \in 1 .. n
        BY <1>2, <4>1
      <4> QED
        BY <3>2, <4>2
    <3> QED
      BY <3>1, <3>2
  <2> QED
    BY <2>1
<1> HIDE DEF qs, more
<1>4. ASSUME NEW k \in 1 .. Len(qs) PROVE more[k] \in places /\ qs[k] = fs[more[k]]
  <2>1. CASE k = Len(ps) + 1
    BY <1>1, <1>2, <2>1
  <2>2. CASE k # Len(ps) + 1
    <3>1. k \in 1 .. Len(ps)
      BY <1>1, <2>2
    <3> QED
      BY <1>1, <1>2, <3>1 DEF ComesFrom
  <2> QED
    BY <2>1, <2>2
<1>5. \A k, l \in 1 .. Len(qs) : k < l => more[k] < more[l]
  <2> SUFFICES ASSUME NEW k \in 1 .. Len(qs), NEW l \in 1 .. Len(qs), k < l PROVE more[k] < more[l]
    OBVIOUS
  <2>1. CASE l = Len(ps) + 1
    BY <1>1, <1>2, <2>1
  <2>2. CASE l # Len(ps) + 1
    <3>1. k \in 1 .. Len(ps) /\ l \in 1 .. Len(ps)
      BY <1>1, <2>2
    <3> QED
      BY <1>2, <3>1 DEF ComesFrom
  <2> QED
    BY <2>1, <2>2
<1>6. ASSUME NEW i \in 1 .. n + 1, i \in places PROVE \E k \in 1 .. Len(qs) : more[k] = i
  <2>1. CASE i = n + 1
    BY <1>1, <1>2, <2>1
  <2>2. CASE i # n + 1
    <3>1. PICK k \in 1 .. Len(ps) : place[k] = i
      BY <1>6, <2>2 DEF ComesFrom
    <3> QED
      BY <1>1, <1>2, <3>1
  <2> QED
    BY <2>1, <2>2
<1>7. ComesFrom(fs, places, n + 1, qs, more)
  BY <1>1, <1>3, <1>4, <1>5, <1>6 DEF ComesFrom
<1> QED
  BY <1>7 DEF qs

(* Picked takes the frames at the places, all of them and in their order. *)
LEMMA PickedFacts ==
  ASSUME NEW S, NEW fs \in Seq(S), NEW places
  PROVE  /\ Picked(fs, places) \in Seq(S)
         /\ \E place : ComesFrom(fs, places, Len(fs), Picked(fs, places), place)
<1>1. Len(fs) \in Nat /\ \A i \in 1 .. Len(fs) : fs[i] \in S
  BY LenProperties, ElementOfSeq
<1>2. PICK g : PicksTo(fs, places, Len(fs), g) /\ Picked(fs, places) = g[Len(fs)]
  BY PickedIs
<1>0. /\ g[0] = <<>>
      /\ \A i \in 1 .. Len(fs) : g[i] = IF i \in places THEN Append(g[i - 1], fs[i]) ELSE g[i - 1]
  <2>1. 0 \in 0 .. Len(fs) /\ \A i \in 1 .. Len(fs) : i \in 0 .. Len(fs) /\ i # 0
    BY <1>1
  <2>2. \A i \in 0 .. Len(fs) :
          g[i] = IF i = 0 THEN <<>> ELSE IF i \in places THEN Append(g[i - 1], fs[i]) ELSE g[i - 1]
    BY <1>2, Zenon DEF PicksTo
  <2> QED
    BY <2>1, <2>2
<1> DEFINE Good(k) == g[k] \in Seq(S) /\ \E place : ComesFrom(fs, places, k, g[k], place)
           T == {k \in 0 .. Len(fs) : ~Good(k)}
<1>3. ASSUME T # {} PROVE FALSE
  <2>1. PICK k \in T : \A l \in T : k <= l
    <3>1. T \subseteq Nat
      OBVIOUS
    <3> HIDE DEF T
    <3> QED
      BY <1>3, <3>1, FirstExists
  <2>2. CASE k = 0
    <3>1. Good(0)
      BY <1>0, PickedNone, EmptySeq
    <3> HIDE DEF Good
    <3> QED
      BY <2>1, <2>2, <3>1
  <2>3. CASE k # 0
    <3> DEFINE j == k - 1
    <3>1. k \in 1 .. Len(fs) /\ j \in 0 .. Len(fs) /\ j \in Nat /\ k = j + 1 /\ ~(k <= j)
      BY <1>1, <2>1, <2>3
    <3>2. Good(j)
      <4> HIDE DEF Good, j
      <4> QED
        BY <2>1, <3>1
    <3>3. g[k] = IF k \in places THEN Append(g[j], fs[k]) ELSE g[j]
      BY <1>0, <3>1
    <3> HIDE DEF j
    <3>4. PICK place : ComesFrom(fs, places, j, g[j], place)
      BY <3>2
    <3>5. CASE k \in places
      <4>1. g[j] \in Seq(S) /\ fs[k] \in S
        BY <1>1, <3>1, <3>2
      <4>2. Append(g[j], fs[k]) \in Seq(S)
        BY <4>1, AppendProperties
      <4>3. \E more : ComesFrom(fs, places, k, Append(g[j], fs[k]), more)
        BY <3>1, <3>4, <3>5, <4>1, PickedAppends
      <4>4. Good(k)
        BY <3>3, <3>5, <4>2, <4>3
      <4> HIDE DEF Good
      <4> QED
        BY <2>1, <4>4
    <3>6. CASE k \notin places
      <4>1. Len(g[j]) \in Nat
        BY <3>2, LenProperties
      <4>2. ComesFrom(fs, places, k, g[j], place)
        BY <3>1, <3>4, <3>6, <4>1, PickedPassed
      <4>3. Good(k)
        BY <3>2, <3>3, <3>6, <4>2
      <4> HIDE DEF Good
      <4> QED
        BY <2>1, <4>3
    <3> QED
      BY <3>5, <3>6
  <2> QED
    BY <2>2, <2>3
<1>4. Good(Len(fs))
  <2>1. Len(fs) \in 0 .. Len(fs)
    BY <1>1
  <2> HIDE DEF Good
  <2> QED
    BY <1>3, <2>1
<1> QED
  BY <1>2, <1>4

-----------------------------------------------------------------------------
(* Whose frames are collected *)

(* What has been collected for the request under way, and when it came in. *)
CollectInv ==
  /\ frames \in Seq(BusFrame) /\ broken \in Nat
  /\ asking = Nobody => frames = <<>>
  /\ asking # Nobody =>
       /\ asking.n = sent
       /\ \A i \in DOMAIN frames : frames[i].at = sent
       /\ \A i \in DOMAIN queue : Diagnostic(queue[i]) => queue[i].at = sent
  /\ link = "elm" => \A i \in DOMAIN queue : Diagnostic(queue[i])

(* What a module has not said yet: answers to requests that were sent, and of a  *)
(* long answer its second part.                                              *)
LateInv ==
  \A k \in Members :
    /\ \A i \in DOMAIN owed[k] : owed[k][i].n <= sent
    /\ Len(saying[k]) <= 1
    /\ \A i \in DOMAIN saying[k] : saying[k][i].n <= sent /\ saying[k][i].part = 2

(* The turns whose first request has been sent. *)
TurnsPassed == {t \in 1 .. turn : t < turn \/ asking # Nobody \/ step # FirstStep(command)}

(* What comes of a module and an identifier is of this turn of the sweep. *)
OfTurn(c, t, module, id) ==
  /\ c \in {"dtc", "clear", "identify"} => module = Groups[t]
  /\ c = "dump" => id = Blocks[t]

PastInv ==
  turn > 0 => \A k \in Members :
    /\ \A i \in DOMAIN owed[k] : \E t \in TurnsPassed : OfTurn(command, t, k, owed[k][i].id)
    /\ \A i \in DOMAIN saying[k] : \E t \in TurnsPassed : OfTurn(command, t, k, saying[k][i].id)

(* Of these requests, or of these frames, only r itself, or what answers it, is of *)
(* its kind.                                                                 *)
OwesOnce(r, rs) ==
  \A i \in DOMAIN rs : rs[i].service = r.service /\ rs[i].id = r.id => rs[i].n = r.n

AnswersOnce(r, fs) ==
  \A i \in DOMAIN fs :
    fs[i].from = r.module /\ fs[i].service = r.service /\ fs[i].id = r.id => fs[i].n = r.n

(* A list or a block is asked for once. *)
OnceInv ==
  asking # Nobody /\ step = FirstStep(command) /\ step \in {"list", "block"} /\ IsInjective(Blocks) =>
    /\ OwesOnce(asking, owed[asking.module])
    /\ AnswersOnce(asking, saying[asking.module])
    /\ AnswersOnce(asking, queue) /\ AnswersOnce(asking, frames)

(* After a frame that answers r its module sends only later parts of that answer. *)
Then(r, f, g) == f.from = r.module /\ g.from = r.module /\ f.n = r.n => g.n = r.n /\ f.part < g.part

Orderly(r, fs) == \A i, j \in DOMAIN fs : i < j => Then(r, fs[i], fs[j])

Before(r, fs, gs) == \A i \in DOMAIN fs, j \in DOMAIN gs : Then(r, fs[i], gs[j])

Older(r, fs) == \A i \in DOMAIN fs : fs[i].from = r.module => fs[i].n # r.n

(* A module answers in the order it was asked: as long as it owes an answer, what    *)
(* has come from it and what it is saying belongs to earlier requests, and   *)
(* what answers the request under way comes last.                            *)
InTurn(r, collected, coming, spoken, due) ==
  /\ Orderly(r, collected) /\ Orderly(r, coming)
  /\ Before(r, collected, coming) /\ Before(r, collected, spoken) /\ Before(r, coming, spoken)
  /\ \A i \in DOMAIN due : due[i].n = r.n => i = Len(due)
  /\ due # <<>> => Older(r, collected) /\ Older(r, coming) /\ Older(r, spoken)

OrderInv ==
  asking # Nobody /\ broken = 0 =>
    InTurn(asking, frames, queue, saying[asking.module], owed[asking.module])

-----------------------------------------------------------------------------
(* A block is made of frames of the module asked, in the order they came in, from   *)
(* the first frame of an answer of the kind asked for on.                    *)
LEMMA JoinedFacts ==
  ASSUME NEW fs \in Seq(BusFrame), NEW r
  PROVE  /\ Join(fs, r) \in Seq(BusFrame)
         /\ \E place :
              /\ place \in [DOMAIN Join(fs, r) -> DOMAIN fs]
              /\ \A k \in DOMAIN Join(fs, r) :
                   Join(fs, r)[k] = fs[place[k]] /\ fs[place[k]].from = r.module
              /\ \A k, l \in DOMAIN Join(fs, r) : k < l => place[k] < place[l]
         /\ Join(fs, r) # <<>> => IsHead(Join(fs, r)[1], r)
<1> DEFINE heads == {i \in DOMAIN fs : IsHead(fs[i], r)}
<1>1. DOMAIN fs = 1 .. Len(fs) /\ Len(fs) \in Nat
  BY LenProperties
<1>2. CASE heads = {}
  <2>1. Join(fs, r) = <<>>
    BY <1>2 DEF Join
  <2>2. <<>> \in Seq(BusFrame) /\ DOMAIN <<>> = {}
    BY EmptySeq
  <2>3. <<>> \in [DOMAIN <<>> -> DOMAIN fs]
    BY <2>2
  <2> QED
    BY <2>1, <2>2, <2>3
<1>3. CASE heads # {}
  <2> DEFINE head == CHOOSE i \in heads : \A k \in heads : i <= k
             places == {i \in DOMAIN fs : i >= head /\ fs[i].from = r.module}
             js == Picked(fs, places)
  <2>1. head \in heads
    <3>1. heads \subseteq Nat
      BY <1>1
    <3>2. \E i \in heads : \A k \in heads : i <= k
      <4> HIDE DEF heads
      <4> QED
        BY <1>3, <3>1, FirstExists
    <3> HIDE DEF heads
    <3> QED
      BY <3>2
  <2>2. Join(fs, r) = js
    BY <1>3 DEF Join
  <2>3. head \in places /\ IsHead(fs[head], r) /\ head \in 1 .. Len(fs)
    <3> HIDE DEF head
    <3> QED
      BY <1>1, <2>1 DEF IsHead
  <2>4. \A i \in places : i \in 1 .. Len(fs) /\ head <= i /\ fs[i].from = r.module
    <3> HIDE DEF head
    <3> QED
      BY <1>1, <2>3
  <2> HIDE DEF places, head
  <2>5. js \in Seq(BusFrame)
    BY PickedFacts
  <2>6. PICK place : ComesFrom(fs, places, Len(fs), js, place)
    BY PickedFacts
  <2> HIDE DEF js
  <2>7. DOMAIN js = 1 .. Len(js) /\ Len(js) \in Nat
    BY <2>5, LenProperties
  <2>8. /\ place \in [DOMAIN js -> DOMAIN fs]
        /\ \A k \in DOMAIN js : js[k] = fs[place[k]] /\ fs[place[k]].from = r.module
        /\ \A k, l \in DOMAIN js : k < l => place[k] < place[l]
    BY <1>1, <2>4, <2>6, <2>7 DEF ComesFrom
  <2>9. IsHead(js[1], r)
    <3>1. PICK k \in 1 .. Len(js) : place[k] = head
      BY <2>3, <2>6 DEF ComesFrom
    <3>2. 1 \in 1 .. Len(js) /\ (k = 1 \/ 1 < k)
      BY <2>7, <3>1
    <3>3. place[1] = head
      <4>1. head <= place[1] /\ place[1] \in 1 .. Len(fs)
        BY <2>4, <2>6, <3>2 DEF ComesFrom
      <4>2. 1 < k => place[1] < head
        BY <2>6, <3>1, <3>2 DEF ComesFrom
      <4> QED
        BY <2>3, <3>1, <3>2, <4>1, <4>2
    <3>4. js[1] = fs[head]
      BY <2>7, <2>8, <3>2, <3>3
    <3> QED
      BY <2>3, <3>4
  <2> QED
    BY <2>2, <2>5, <2>8, <2>9
<1> QED
  BY <1>2, <1>3

-----------------------------------------------------------------------------
(* The kinds of step *)

(* Nothing of the sweep or of the modules moves but the receive queue and what was  *)
(* collected from it.                                                        *)
Going == UNCHANGED <<link, command, turn, step, asking, sent, report, owed, saying>>

(* Frames are read from the front of the queue. *)
Reads == \E k \in 1 .. Len(queue) + 1 : queue' = SubSeq(queue, k, Len(queue))

(* The request under way is over. *)
RequestOver ==
  /\ asking # Nobody /\ asking' = Nobody /\ frames' = <<>> /\ Reads
  /\ UNCHANGED <<link, command, sent, owed, saying>> /\ broken' \in {broken, broken + 1}

(* Frames are collected. *)
Collects ==
  /\ Going /\ asking # Nobody /\ Reads
  /\ \/ frames' = frames /\ broken' \in {broken, broken + 1}
     \/ ReceiveAll /\ broken' = broken
     \/ ReadCut /\ broken' = broken + 1

(* The car goes on. *)
Wire == Going /\ UNCHANGED <<frames, broken>> /\ (queue' = queue \/ Chatter)

(* A receiver that drops the first frames of the queue keeps the later       *)
(* ones.                                                                     *)
LEMMA ReadsFrames ==
  ASSUME WireInv, ReceiveOne \/ ReceiveAll \/ ReadCut PROVE Reads
<1>1. Len(queue) \in Nat /\ queue \in Seq(Honest(wiped))
  BY LenProperties DEF WireInv
<1>2. CASE ReceiveOne \/ ReceiveAll
  <2>1. queue' = SubSeq(queue, BatchLength + 1, Len(queue))
    BY <1>2 DEF ReceiveOne, ReceiveAll
  <2>2. BatchLength + 1 \in 1 .. Len(queue) + 1
    <3>1. BatchLength \in 0 .. Len(queue)
      BY <1>1, SweepAssumption DEF BatchLength, J2534Batch, ElmLines
    <3> HIDE DEF BatchLength
    <3> QED
      BY <1>1, <3>1
  <2> HIDE DEF BatchLength
  <2> QED
    BY <2>1, <2>2 DEF Reads
<1>3. CASE ReadCut
  <2>1. queue # <<>> /\ queue' = Tail(queue)
    BY <1>3 DEF ReadCut
  <2>2. queue' = SubSeq(queue, 2, Len(queue)) /\ Len(queue) \in Nat \ {0}
    BY <1>1, <2>1, TailIsSubSeq, EmptySeq
  <2>3. 2 \in 1 .. Len(queue) + 1
    BY <2>2
  <2> QED
    BY <2>2, <2>3 DEF Reads
<1> QED
  BY <1>2, <1>3

LEMMA QueueStays == ASSUME WireInv, queue' = queue PROVE Reads
<1>1. Len(queue) \in Nat /\ queue \in Seq(Honest(wiped))
  BY LenProperties DEF WireInv
<1>2. queue' = SubSeq(queue, 1, Len(queue)) /\ 1 \in 1 .. Len(queue) + 1
  BY <1>1, SubSeqFull
<1> QED
  BY <1>2 DEF Reads

(* Every step of the program and of the cars, by what it does to the queue,  *)
(* to what is collected and to what is owed.                                 *)
LEMMA StepKinds ==
  ASSUME WireInv, CollectInv, [SweepNext]_sweepVars
  PROVE  \/ \E l \in {"vxdiag", "elm"}, c \in Commands : Run(l, c)
         \/ Send \/ RequestOver \/ Collects \/ Wire
         \/ \E m \in Members : Speak(m) \/ SpeakOn(m)
<1>0. broken \in Nat
  BY DEF CollectInv
<1>1. CASE ReceiveOne
  <2>1. Reads /\ UNCHANGED <<owed, saying, broken>> /\ asking # Nobody
    BY <1>1, ReadsFrames DEF ReceiveOne, cars, Listening
  <2>2. CASE UNCHANGED <<link, command, turn, step, asking, sent, frames, silent, raised, report, visited>>
    BY <1>0, <2>1, <2>2 DEF Collects, Going
  <2>3. CASE Done
    BY <1>0, <2>1, <2>3 DEF RequestOver, Done
  <2> QED
    BY <1>1, <2>2, <2>3 DEF ReceiveOne, SweepReturns
<1>2. CASE ReceiveAll
  <2>1. Reads
    BY <1>2, ReadsFrames
  <2>2. /\ UNCHANGED <<link, command, turn, step, asking, sent, report, owed, saying, broken>>
        /\ asking # Nobody
    BY <1>2 DEF ReceiveAll, cars, Listening
  <2> QED
    BY <1>0, <1>2, <2>1, <2>2 DEF Collects, Going
<1>3. CASE SweepTimeout \/ LinkFails
  <2>1. Done /\ UNCHANGED <<queue, owed, saying, broken>> /\ asking # Nobody
    BY <1>3 DEF SweepTimeout, ValueTimeout, ClearTimeout, CollectEnds, RawEnds, TransportFails,
                SweepReturns, LinkFails, cars, Listening
  <2> QED
    BY <1>0, <2>1, QueueStays DEF RequestOver, Done
<1>4. CASE ReadCut
  <2>1. Reads /\ UNCHANGED <<owed, saying>> /\ asking # Nobody /\ broken' = broken + 1
    BY <1>4, ReadsFrames DEF ReadCut, Listening
  <2>3. CASE Done
    BY <2>1, <2>3 DEF RequestOver, Done
  <2>4. CASE UNCHANGED <<link, command, turn, step, asking, sent, report>>
    BY <1>4, <2>1, <2>4 DEF Collects, Going
  <2> QED
    BY <1>4, <2>3, <2>4 DEF ReadCut
<1>5. CASE Chatter \/ Prompt \/ UNCHANGED sweepVars
  BY <1>5 DEF Chatter, Prompt, sweepVars, sweep, cars, Wire, Going
<1> QED
  BY <1>1, <1>2, <1>3, <1>4, <1>5 DEF SweepNext, SweepStep, SweepCars

(* What is left of the queue was in it, in the same order. *)
LEMMA ReadsLeave ==
  ASSUME WireInv, Reads
  PROVE  /\ queue' \in Seq(BusFrame)
         /\ \E past \in Nat : \A i \in DOMAIN queue' : i + past \in DOMAIN queue /\ queue'[i] = queue[i + past]
<1>1. PICK k \in 1 .. Len(queue) + 1 : queue' = SubSeq(queue, k, Len(queue))
  BY DEF Reads
<1>2. queue \in Seq(BusFrame) /\ Len(queue) \in Nat /\ DOMAIN queue = 1 .. Len(queue)
  <2>1. queue \in Seq(Honest(wiped)) /\ Honest(wiped) \subseteq BusFrame
    BY DEF WireInv, Honest
  <2> QED
    BY <2>1, SeqMonotonic, LenProperties
<1>3. \A i \in k .. Len(queue) : queue[i] \in BusFrame
  BY <1>2, ElementOfSeq
<1>4. /\ queue' \in Seq(BusFrame)
      /\ Len(queue') = IF k <= Len(queue) THEN Len(queue) - k + 1 ELSE 0
      /\ \A i \in 1 .. Len(queue) - k + 1 : queue'[i] = queue[k + i - 1]
  BY <1>1, <1>2, <1>3, SubSeqProperties
<1>5. DOMAIN queue' = 1 .. Len(queue')
  BY <1>4, LenProperties
<1>6. k - 1 \in Nat /\ \A i \in DOMAIN queue' : i + (k - 1) \in DOMAIN queue /\ queue'[i] = queue[i + (k - 1)]
  <2>1. \A i \in DOMAIN queue' : i \in 1 .. Len(queue) - k + 1 /\ i + (k - 1) = k + i - 1
    BY <1>2, <1>4, <1>5
  <2>2. \A i \in DOMAIN queue' : i + (k - 1) \in 1 .. Len(queue)
    BY <1>2, <2>1
  <2>3. ASSUME NEW i \in DOMAIN queue' PROVE queue'[i] = queue[i + (k - 1)]
    <3>1. queue'[i] = queue[k + i - 1]
      BY <1>4, <2>1
    <3>2. k + i - 1 = i + (k - 1)
      BY <2>1
    <3> QED
      BY <3>1, <3>2
  <2>4. k - 1 \in Nat
    BY <1>2
  <2> QED
    BY <1>2, <2>2, <2>3, <2>4
<1> QED
  BY <1>4, <1>6

(* What a module does with the oldest request it owes: a frame, and the rest of a  *)
(* long answer.                                                              *)
ReplyOf(r, f, rest) ==
  /\ f \in BusFrame /\ f.from = r.module /\ f.n = r.n /\ f.id = r.id
  /\ f.service \in {r.service, "refusal"} /\ f.service # "chatter" /\ f.part < 2
  /\ rest \in Seq(BusFrame) /\ Len(rest) <= 1
  /\ \A i \in DOMAIN rest :
       /\ rest[i].from = r.module /\ rest[i].service = r.service /\ rest[i].id = r.id
       /\ rest[i].n = r.n /\ rest[i].part = 2

(* What a module answers comes from it, repeats the request's number, is of its *)
(* kind or a refusal, and has one part or two.                               *)
LEMMA RepliesAre ==
  ASSUME WireInv, NEW m \in Members, owed[m] # <<>>
  PROVE  /\ ReplyOf(owed[m][1], Head(Answered(m)), Tail(Answered(m)))
         /\ ReplyOf(owed[m][1], Refusal(m), <<>>)
<1> DEFINE r == owed[m][1]
<1>1. r \in Owing(m)
  BY SpokenTyped
<1>2. stored[m] \in 0 .. 2
  BY DEF WireInv
<1> DEFINE Said(f) == /\ f \in BusFrame /\ f.from = r.module /\ f.n = r.n /\ f.id = r.id
                      /\ f.service = r.service /\ f.service # "chatter"
<1>3. \A part \in 0 .. 2, codes \in Nat :
        Said(CarFrame(r, part, codes)) /\ CarFrame(r, part, codes).part = part
  BY <1>1 DEF CarFrame, Owing, SweepRequests, BusFrame
<1>4. 0 \in 0 .. 2 /\ 1 \in 0 .. 2 /\ 2 \in 0 .. 2 /\ 0 < 2 /\ 1 < 2 /\ Len(<<>>) = 0 /\ DOMAIN <<>> = {}
  BY EmptySeq
<1>5. ReplyOf(r, Refusal(m), <<>>)
  <2>1. Said(CarFrame(r, 0, 0)) /\ CarFrame(r, 0, 0).part = 0
    BY <1>3, <1>4
  <2>2. Refusal(m) = [CarFrame(r, 0, 0) EXCEPT !.service = "refusal"]
    BY DEF Refusal
  <2> HIDE DEF r
  <2>3. /\ Refusal(m) \in BusFrame /\ Refusal(m).from = r.module /\ Refusal(m).n = r.n /\ Refusal(m).id = r.id
        /\ Refusal(m).service = "refusal" /\ Refusal(m).part = 0
    BY <2>1, <2>2 DEF BusFrame
  <2> QED
    BY <1>4, <2>3, EmptySeq DEF ReplyOf
<1> HIDE DEF r, Said
<1>6. ASSUME NEW part \in {0, 1}, NEW codes \in Nat, Answered(m) = <<CarFrame(r, part, codes)>>
      PROVE  ReplyOf(r, Head(Answered(m)), Tail(Answered(m)))
  <2>1. Head(Answered(m)) = CarFrame(r, part, codes) /\ Tail(Answered(m)) = <<>>
    BY <1>6
  <2>2. Said(CarFrame(r, part, codes)) /\ CarFrame(r, part, codes).part = part
    BY <1>3, <1>4
  <2>3. part < 2 /\ <<>> \in Seq(BusFrame) /\ Len(<<>>) <= 1
    BY <1>4, EmptySeq
  <2> QED
    BY <1>4, <2>1, <2>2, <2>3 DEF ReplyOf, Said
<1>7. ASSUME NEW x \in Nat, NEW y \in Nat, Answered(m) = <<CarFrame(r, 1, x), CarFrame(r, 2, y)>>
      PROVE  ReplyOf(r, Head(Answered(m)), Tail(Answered(m)))
  <2> DEFINE rest == <<CarFrame(r, 2, y)>>
  <2>1. Head(Answered(m)) = CarFrame(r, 1, x) /\ Tail(Answered(m)) = rest
    BY <1>7
  <2>2. Said(CarFrame(r, 1, x)) /\ CarFrame(r, 1, x).part = 1
    BY <1>3, <1>4
  <2>3. Said(CarFrame(r, 2, y)) /\ CarFrame(r, 2, y).part = 2
    BY <1>3, <1>4
  <2>4. rest \in Seq(BusFrame) /\ Len(rest) <= 1 /\ DOMAIN rest = {1} /\ rest[1] = CarFrame(r, 2, y)
    BY <2>3 DEF Said
  <2> HIDE DEF rest
  <2> QED
    BY <1>4, <2>1, <2>2, <2>3, <2>4 DEF ReplyOf, Said
<1>8. CASE r.service \in {"value", "clear"}
  <2>1. Answered(m) = <<CarFrame(r, 0, 0)>> /\ 0 \in {0, 1} /\ 0 \in Nat
    BY <1>8 DEF Answered, r
  <2> QED
    BY <1>5, <1>6, <2>1 DEF r
<1>9. CASE r.service = "list" /\ stored[m] = 2
  <2>1. Answered(m) = <<CarFrame(r, 1, 1), CarFrame(r, 2, 1)>> /\ 1 \in Nat
    BY <1>9 DEF Answered, r
  <2> QED
    BY <1>5, <1>7, <2>1 DEF r
<1>10. CASE r.service = "list" /\ stored[m] # 2
  <2>1. Answered(m) = <<CarFrame(r, 1, stored[m])>> /\ stored[m] \in Nat /\ 1 \in {0, 1}
    BY <1>2, <1>10 DEF Answered, r
  <2> QED
    BY <1>5, <1>6, <2>1 DEF r
<1>11. CASE r.service \in {"block", "raw"}
  <2>1. Answered(m) = <<CarFrame(r, 1, 0), CarFrame(r, 2, 0)>> /\ 0 \in Nat
    BY <1>11 DEF Answered, r
  <2> QED
    BY <1>5, <1>7, <2>1 DEF r
<1> QED
  BY <1>1, <1>8, <1>9, <1>10, <1>11 DEF Owing, SweepRequests

(* A frame of m goes on the bus, and rest is what m says next. *)
SaysNext(m, f, rest) ==
  /\ saying' = [saying EXCEPT ![m] = rest]
  /\ queue' = queue \/ queue' = Append(queue, [f EXCEPT !.at = sent])
  /\ UNCHANGED <<link, command, turn, step, asking, sent, frames, report>>
  /\ broken' \in {broken, broken + 1}

LEMMA EmitSays ==
  ASSUME CollectInv, NEW m, NEW f, NEW rest, Emit(m, f, rest) PROVE SaysNext(m, f, rest)
<1>1. broken \in Nat
  BY DEF CollectInv
<1> QED
  BY <1>1 DEF Emit, SaysNext

(* A module answers, or does not. *)
LEMMA SpeakSays ==
  ASSUME WireInv, CollectInv, NEW m \in Members, Speak(m)
  PROVE  /\ owed[m] # <<>> /\ saying[m] = <<>> /\ owed' = [owed EXCEPT ![m] = Tail(@)]
         /\ \/ \E f, rest : ReplyOf(owed[m][1], f, rest) /\ SaysNext(m, f, rest)
            \/ UNCHANGED <<link, command, turn, step, asking, sent, report, saying, queue, frames, broken>>
<1>1. owed[m] # <<>> /\ saying[m] = <<>> /\ owed' = [owed EXCEPT ![m] = Tail(@)]
  BY DEF Speak
<1>2. CASE Emit(m, Head(Answered(m)), Tail(Answered(m)))
  BY <1>1, <1>2, RepliesAre, EmitSays
<1>3. CASE Emit(m, Refusal(m), <<>>)
  BY <1>1, <1>3, RepliesAre, EmitSays
<1>4. CASE UNCHANGED <<sweep, saying, stored, wiped, broken>>
  BY <1>1, <1>4 DEF sweep
<1> QED
  BY <1>1, <1>2, <1>3, <1>4 DEF Speak

(* ... and goes on with the second part. *)
LEMMA SpeakOnSays ==
  ASSUME WireInv, CollectInv, LateInv, NEW m \in Members, SpeakOn(m)
  PROVE  /\ 1 \in DOMAIN saying[m] /\ saying[m][1] \in BusFrame /\ saying[m][1].service # "chatter"
         /\ saying[m][1].from = m
         /\ SaysNext(m, saying[m][1], <<>>) /\ UNCHANGED owed
<1>1. saying[m] # <<>> /\ saying[m] \in Seq(RestOf(m)) /\ Len(saying[m]) <= 1
  BY DEF SpeakOn, WireInv, LateInv
<1>2. Len(saying[m]) = 1 /\ 1 \in DOMAIN saying[m]
  <2>1. Len(saying[m]) \in Nat /\ DOMAIN saying[m] = 1 .. Len(saying[m]) /\ Len(saying[m]) # 0
    BY <1>1, EmptySeq, LenProperties
  <2>2. Len(saying[m]) = 1
    <3> DEFINE len == Len(saying[m])
    <3>1. len <= 1 /\ len \in Nat /\ len # 0
      BY <1>1, <2>1
    <3> HIDE DEF len
    <3>2. len = 1
      BY <3>1
    <3> QED
      BY <3>2 DEF len
  <2> QED
    BY <2>1, <2>2
<1>3. saying[m][1] \in RestOf(m) /\ Head(saying[m]) = saying[m][1]
  BY <1>1, <1>2, ElementOfSeq
<1>4. Tail(saying[m]) = <<>>
  <2>1. Tail(saying[m]) \in Seq(RestOf(m)) /\ Len(Tail(saying[m])) = Len(saying[m]) - 1
    BY <1>1, HeadTailProperties
  <2>2. Len(Tail(saying[m])) = 0
    BY <1>2, <2>1
  <2> QED
    BY <2>1, <2>2, EmptySeq
<1>5. SaysNext(m, Head(saying[m]), Tail(saying[m])) /\ UNCHANGED owed
  BY EmitSays DEF SpeakOn
<1> QED
  BY <1>2, <1>3, <1>4, <1>5 DEF RestOf

(* After a send the module asked owes the new request last; the rest was owed before. *)
LEMMA SendOwes ==
  ASSUME PlaceInv, TurnInv, WireInv, Send, NEW k \in Members, NEW i \in DOMAIN owed'[k]
  PROVE  \/ \E j \in DOMAIN owed[k] : owed'[k][i] = owed[k][j]
         \/ k = asking'.module /\ i = Len(owed'[k]) /\ owed'[k][i] = asking'
<1> DEFINE kept == IF owed[k] # <<>> /\ Head(owed[k]).n + MaxLate <= sent THEN Tail(owed[k]) ELSE owed[k]
<1>1. asking' = SweepAsks /\ owed'[k] = IF k = SweepAsks.module THEN Append(kept, SweepAsks) ELSE kept
  BY DEF Send
<1>2. owed[k] \in Seq(Owing(k)) /\ Len(owed[k]) \in Nat /\ DOMAIN owed[k] = 1 .. Len(owed[k])
  BY LenProperties DEF WireInv
<1>3. /\ kept \in Seq(Owing(k)) /\ DOMAIN kept = 1 .. Len(kept) /\ Len(kept) \in Nat
      /\ \A l \in DOMAIN kept : \E j \in DOMAIN owed[k] : kept[l] = owed[k][j]
  <2>1. CASE kept = owed[k]
    BY <1>2, <2>1
  <2>2. CASE owed[k] # <<>> /\ kept = Tail(owed[k])
    <3>1. /\ kept \in Seq(Owing(k)) /\ Len(kept) = Len(owed[k]) - 1 /\ Len(owed[k]) \in Nat \ {0}
          /\ \A l \in 1 .. Len(kept) : kept[l] = owed[k][l + 1]
      BY <1>2, <2>2, HeadTailProperties, EmptySeq
    <3>2. DOMAIN kept = 1 .. Len(kept) /\ Len(kept) \in Nat
      BY <3>1, LenProperties
    <3>3. \A l \in DOMAIN kept : l + 1 \in DOMAIN owed[k]
      BY <1>2, <3>1, <3>2
    <3> HIDE DEF kept
    <3> QED
      BY <3>1, <3>2, <3>3
  <2>3. kept = owed[k] \/ (owed[k] # <<>> /\ kept = Tail(owed[k]))
    OBVIOUS
  <2> QED
    BY <2>1, <2>2, <2>3
<1> HIDE DEF kept
<1>4. CASE k = SweepAsks.module
  <2>1. /\ Len(Append(kept, SweepAsks)) = Len(kept) + 1
        /\ Append(kept, SweepAsks)[Len(kept) + 1] = SweepAsks
        /\ \A l \in 1 .. Len(kept) : Append(kept, SweepAsks)[l] = kept[l]
        /\ DOMAIN Append(kept, SweepAsks) = 1 .. Len(kept) + 1
    BY <1>3
  <2>2. i \in 1 .. Len(kept) \/ i = Len(kept) + 1
    BY <1>1, <1>3, <1>4, <2>1
  <2> QED
    BY <1>1, <1>3, <1>4, <2>1, <2>2
<1>5. CASE k # SweepAsks.module
  BY <1>1, <1>3, <1>5
<1> QED
  BY <1>4, <1>5

(* What is left of a sequence is what was in it.                             *)
LEMMA TailOf ==
  ASSUME NEW S, NEW s \in Seq(S), s # <<>>
  PROVE  /\ 1 \in DOMAIN s /\ Len(Tail(s)) = Len(s) - 1
         /\ \A i \in DOMAIN Tail(s) : i + 1 \in DOMAIN s /\ Tail(s)[i] = s[i + 1]
<1>1. /\ Tail(s) \in Seq(S) /\ Len(s) \in Nat \ {0} /\ Len(Tail(s)) = Len(s) - 1
      /\ \A i \in 1 .. Len(Tail(s)) : Tail(s)[i] = s[i + 1]
  BY HeadTailProperties, EmptySeq
<1>2. DOMAIN Tail(s) = 1 .. Len(Tail(s)) /\ DOMAIN s = 1 .. Len(s)
  BY <1>1, LenProperties
<1>3. \A i \in 1 .. Len(s) - 1 : i + 1 \in 1 .. Len(s)
  BY <1>1
<1> QED
  BY <1>1, <1>2, <1>3

(* What a module owes after it answered, or not, it owed before. *)
LEMMA StillOwes ==
  ASSUME WireInv, CollectInv, NEW m \in Members, Speak(m), NEW k \in Members, NEW i \in DOMAIN owed'[k]
  PROVE  \E j \in DOMAIN owed[k] : owed'[k][i] = owed[k][j]
<1>0. owed[m] # <<>> /\ owed' = [owed EXCEPT ![m] = Tail(owed[m])]
  BY SpeakSays
<1>1. owed[m] \in Seq(Owing(m)) /\ owed[k] \in Seq(Owing(k)) /\ DOMAIN owed = Members
  BY DEF WireInv
<1>2. 1 \in DOMAIN owed[m] /\ \A j \in DOMAIN Tail(owed[m]) :
        j + 1 \in DOMAIN owed[m] /\ Tail(owed[m])[j] = owed[m][j + 1]
  BY <1>0, <1>1, TailOf
<1>3. CASE k = m
  BY <1>0, <1>1, <1>2, <1>3
<1>4. CASE k # m
  BY <1>0, <1>1, <1>2, <1>4
<1> QED
  BY <1>3, <1>4

(* No step lets a module answer a request that has not been sent.            *)
LEMMA StepLate ==
  ASSUME PlaceInv, TurnInv, WireInv, CollectInv, LateInv, [SweepNext]_sweepVars
  PROVE  LateInv'
<1>0. /\ sent \in Nat /\ DOMAIN saying = Members
      /\ \A k \in Members : \A i \in DOMAIN owed[k] : owed[k][i].n \in Nat /\ owed[k][i].n <= sent
      /\ \A k \in Members : Len(saying[k]) <= 1 /\ \A i \in DOMAIN saying[k] :
           saying[k][i].n \in Nat /\ saying[k][i].n <= sent /\ saying[k][i].part = 2
  <2>1. ASSUME NEW k \in Members
        PROVE  /\ \A i \in DOMAIN owed[k] : owed[k][i].n \in Nat
               /\ \A i \in DOMAIN saying[k] : saying[k][i].n \in Nat
    <3>1. owed[k] \in Seq(Owing(k)) /\ saying[k] \in Seq(RestOf(k))
      BY DEF WireInv
    <3>2. DOMAIN owed[k] = 1 .. Len(owed[k]) /\ DOMAIN saying[k] = 1 .. Len(saying[k])
      BY <3>1, LenProperties
    <3>3. \A i \in DOMAIN owed[k] : owed[k][i] \in Owing(k)
      BY <3>1, <3>2, ElementOfSeq
    <3>4. \A i \in DOMAIN saying[k] : saying[k][i] \in RestOf(k)
      BY <3>1, <3>2, ElementOfSeq
    <3> QED
      BY <3>3, <3>4 DEF Owing, SweepRequests, RestOf, BusFrame
  <2> QED
    BY <2>1 DEF PlaceInv, WireInv, LateInv
<1>1. CASE \E l \in {"vxdiag", "elm"}, c \in Commands : Run(l, c)
  <2>1. \A k \in Members : owed'[k] = <<>> /\ saying'[k] = <<>>
    BY <1>1 DEF Run
  <2>2. DOMAIN <<>> = {} /\ Len(<<>>) <= 1
    BY EmptySeq
  <2> QED
    BY <2>1, <2>2 DEF LateInv
<1>2. CASE Send
  <2>1. saying' = saying /\ sent' = sent + 1 /\ asking'.n = sent'
    BY <1>2, SweepAsksTyped DEF Send
  <2>2. ASSUME NEW k \in Members, NEW i \in DOMAIN owed'[k] PROVE owed'[k][i].n <= sent'
    <3>1. CASE \E j \in DOMAIN owed[k] : owed'[k][i] = owed[k][j]
      BY <1>0, <2>1, <3>1
    <3>2. CASE owed'[k][i] = asking'
      BY <1>0, <2>1, <3>2
    <3> QED
      BY <1>2, <3>1, <3>2, SendOwes
  <2>3. \A k \in Members : \A i \in DOMAIN saying[k] : saying[k][i].n <= sent'
    BY <1>0, <2>1
  <2> QED
    BY <1>0, <2>1, <2>2, <2>3 DEF LateInv
<1>3. CASE RequestOver \/ Collects \/ Wire
  BY <1>3 DEF RequestOver, Collects, Wire, Going, LateInv
<1>4. ASSUME NEW m \in Members, Speak(m) PROVE LateInv'
  <2>1. owed[m] # <<>> /\ owed' = [owed EXCEPT ![m] = Tail(@)]
    BY <1>4, SpeakSays
  <2>2. ASSUME NEW k \in Members, NEW i \in DOMAIN owed'[k] PROVE owed'[k][i].n <= sent
    <3>1. PICK j \in DOMAIN owed[k] : owed'[k][i] = owed[k][j]
      BY <1>4, StillOwes
    <3> QED
      BY <1>0, <3>1
  <2>3. CASE UNCHANGED <<sent, saying>>
    BY <1>0, <2>2, <2>3 DEF LateInv
  <2>4. ASSUME NEW f, NEW rest, ReplyOf(owed[m][1], f, rest), SaysNext(m, f, rest) PROVE LateInv'
    <3>1. saying' = [saying EXCEPT ![m] = rest] /\ sent' = sent
      BY <2>4 DEF SaysNext
    <3>2. owed[m][1].n <= sent
      <4>1. 1 \in DOMAIN owed[m]
        BY <2>1, TailOf DEF WireInv
      <4> QED
        BY <1>0, <4>1
    <3>3. Len(rest) <= 1 /\ \A i \in DOMAIN rest : rest[i].n <= sent /\ rest[i].part = 2
      BY <2>4, <3>2 DEF ReplyOf
    <3>4. \A k \in Members : saying'[k] = IF k = m THEN rest ELSE saying[k]
      BY <1>0, <3>1
    <3>5. \A k \in Members : Len(saying'[k]) <= 1 /\ \A i \in DOMAIN saying'[k] :
            saying'[k][i].n <= sent /\ saying'[k][i].part = 2
      BY <1>0, <3>3, <3>4
    <3> QED
      BY <2>2, <3>1, <3>5 DEF LateInv
  <2> QED
    BY <1>4, <2>3, <2>4, SpeakSays
<1>5. ASSUME NEW m \in Members, SpeakOn(m) PROVE LateInv'
  <2>1. saying' = [saying EXCEPT ![m] = <<>>] /\ UNCHANGED <<sent, owed>>
    BY <1>5, SpeakOnSays DEF SaysNext
  <2>2. DOMAIN <<>> = {} /\ Len(<<>>) <= 1
    BY EmptySeq
  <2>3. \A k \in Members : saying'[k] = IF k = m THEN <<>> ELSE saying[k]
    BY <1>0, <2>1
  <2>4. \A k \in Members : Len(saying'[k]) <= 1 /\ \A i \in DOMAIN saying'[k] :
          saying'[k][i].n <= sent /\ saying'[k][i].part = 2
    BY <1>0, <2>2, <2>3
  <2> QED
    BY <1>0, <2>1, <2>4 DEF LateInv
<1> QED
  BY <1>1, <1>2, <1>3, <1>4, <1>5, StepKinds

(* A turn whose request was sent stays passed. *)
LEMMA PassedGrows ==
  ASSUME PlaceInv, TurnInv, WireInv, CollectInv, [SweepNext]_sweepVars, turn' > 0,
         ~ \E l \in {"vxdiag", "elm"}, c \in Commands : Run(l, c)
  PROVE  TurnsPassed \subseteq TurnsPassed' /\ command' = command /\ turn > 0
<1>0. command \in Commands /\ turn \in Nat
  BY TurnsExist DEF PlaceInv
<1>1. ASSUME UNCHANGED <<command, turn, step, asking>> PROVE TurnsPassed \subseteq TurnsPassed' /\ command' = command /\ turn > 0
  BY <1>1 DEF TurnsPassed
<1>2. CASE Send
  BY <1>0, <1>2, SweepAsksTyped, SweepAssumption DEF Send, TurnsPassed, PlaceInv, SweepRequests
<1>3. ASSUME turn > 0, command' = command, turn' = turn + 1 PROVE TurnsPassed \subseteq TurnsPassed' /\ command' = command /\ turn > 0
  BY <1>0, <1>3 DEF TurnsPassed
<1>4. ASSUME command' = command, turn' = turn, step' # FirstStep(command')
      PROVE  TurnsPassed \subseteq TurnsPassed' /\ command' = command /\ turn > 0
  BY <1>4 DEF TurnsPassed
<1>5. ASSUME Listening, TransportFails PROVE TurnsPassed \subseteq TurnsPassed' /\ command' = command /\ turn > 0
  BY <1>3, <1>5 DEF TransportFails, Raise, NextModule, Continue, Done, Listening, Running
<1>6. ASSUME Listening, NEW result, SweepReturns(result) PROVE TurnsPassed \subseteq TurnsPassed' /\ command' = command /\ turn > 0
  <2>1. command' = command /\ turn > 0
    BY <1>6 DEF SweepReturns, Done, Listening, Running
  <2>2. CASE Continue
    BY <1>3, <2>1, <2>2 DEF Continue
  <2>3. CASE command = "clear" /\ turn' = turn /\ step' \in {"clear", "confirm"}
    <3>1. step' # FirstStep(command')
      BY <2>1, <2>3 DEF FirstStep
    <3> QED
      BY <1>4, <2>1, <2>3, <3>1
  <2> QED
    BY <1>6, <2>2, <2>3 DEF SweepReturns, DtcRead, ClearRead, IdentityRead, DumpRead, DiscoverRead,
                            VerifyRead, MemoryRead, Told
<1>7. CASE ReceiveOne \/ ReceiveAll
  BY <1>1, <1>6, <1>7 DEF ReceiveOne, ReceiveAll
<1>8. CASE SweepTimeout
  BY <1>5, <1>6, <1>8 DEF SweepTimeout, ValueTimeout, ClearTimeout, CollectEnds, RawEnds
<1>9. CASE LinkFails
  BY <1>5, <1>9 DEF LinkFails, Raise
<1>10. CASE ReadCut
  <2>1. UNCHANGED <<command, turn, step, asking>> \/ turn' = 0
    BY <1>10, Zenon DEF ReadCut, Raise
  <2> QED
    BY <1>1, <2>1
<1>11. CASE SweepCars \/ UNCHANGED sweepVars
  BY <1>1, <1>11 DEF SweepCars, Chatter, Prompt, Speak, SpeakOn, Emit, sweep, sweepVars
<1> QED
  BY <1>2, <1>7, <1>8, <1>9, <1>10, <1>11 DEF SweepNext, SweepStep

LEMMA AsksSomething == ASSUME PlaceInv, TurnInv, Running PROVE SweepAsks # Nobody
<1>1. SweepAsks.module \in Members /\ SweepAsks \in SweepRequests(SweepAsks.module)
  BY SweepAsksTyped
<1>2. SweepAsks \in [module : Members, service : {"list", "clear", "block", "value", "raw"}, id : Items, n : Nat]
  BY <1>1 DEF SweepRequests
<1> QED
  BY <1>2, SweepAssumption

(* What a turn asks is of that turn.                                         *)
LEMMA AsksOfTurn ==
  ASSUME PlaceInv, TurnInv, Running
  PROVE  OfTurn(command, turn, SweepAsks.module, SweepAsks.id)
<1>1. command \in Commands /\ turn > 0
  BY DEF PlaceInv, Running
<1>2. CASE command \in {"dtc", "clear"}
  <2>1. step \in {"list", "clear", "confirm"}
    BY <1>1, <1>2 DEF TurnInv, FirstStep
  <2>2. SweepAsks.module = Groups[turn]
    BY <2>1 DEF SweepAsks, ListRequest, ClearRequest, Asked
  <2> QED
    BY <1>2, <2>2 DEF OfTurn
<1>3. CASE command \in {"identify", "dump"}
  <2>1. step = "block"
    BY <1>1, <1>3 DEF TurnInv, FirstStep
  <2>2. SweepAsks = BlockRequest
    BY <2>1 DEF SweepAsks
  <2> QED
    BY <1>3, <2>2 DEF OfTurn, BlockRequest, Asked
<1>4. CASE command \notin {"dtc", "clear", "identify", "dump"}
  BY <1>4 DEF OfTurn
<1> QED
  BY <1>2, <1>3, <1>4

(* No step makes a module owe an answer to a turn that has not begun.        *)
LEMMA StepPast ==
  ASSUME PlaceInv, TurnInv, WireInv, CollectInv, LateInv, PastInv, [SweepNext]_sweepVars
  PROVE  PastInv'
<1> SUFFICES ASSUME turn' > 0
             PROVE  \A k \in Members :
                      /\ \A i \in DOMAIN owed'[k] : \E t \in TurnsPassed' : OfTurn(command', t, k, owed'[k][i].id)
                      /\ \A i \in DOMAIN saying'[k] : \E t \in TurnsPassed' : OfTurn(command', t, k, saying'[k][i].id)
  BY DEF PastInv
<1>1. CASE \E l \in {"vxdiag", "elm"}, c \in Commands : Run(l, c)
  <2>1. \A k \in Members : owed'[k] = <<>> /\ saying'[k] = <<>>
    BY <1>1 DEF Run
  <2>2. DOMAIN <<>> = {}
    BY EmptySeq
  <2> QED
    BY <2>1, <2>2
<1>2. CASE ~ \E l \in {"vxdiag", "elm"}, c \in Commands : Run(l, c)
  <2>1. TurnsPassed \subseteq TurnsPassed' /\ command' = command /\ turn > 0
    BY <1>2, PassedGrows
  <2> DEFINE Old(k, id) == \E t \in TurnsPassed : OfTurn(command, t, k, id)
             New(k, id) == \E t \in TurnsPassed' : OfTurn(command', t, k, id)
  <2>3. \A k, id : Old(k, id) => New(k, id)
    BY <2>1
  <2>4. \A k \in Members : /\ \A i \in DOMAIN owed[k] : Old(k, owed[k][i].id)
                           /\ \A i \in DOMAIN saying[k] : Old(k, saying[k][i].id)
    BY <2>1 DEF PastInv
  <2> SUFFICES ASSUME NEW k \in Members
               PROVE  /\ \A i \in DOMAIN owed'[k] : New(k, owed'[k][i].id)
                      /\ \A i \in DOMAIN saying'[k] : New(k, saying'[k][i].id)
    OBVIOUS
  <2>5. CASE Send
    <3>1. /\ Running /\ asking' = SweepAsks /\ saying' = saying /\ turn' = turn /\ turn \in Nat
          /\ asking' # Nobody
      BY <2>5, AsksSomething, TurnsExist DEF Send, PlaceInv
    <3>2. turn \in TurnsPassed' /\ OfTurn(command', turn, asking'.module, asking'.id)
      BY <2>1, <3>1, AsksOfTurn DEF TurnsPassed
    <3>3. New(asking'.module, asking'.id)
      BY <3>2
    <3> HIDE DEF Old, New
    <3>4. \A i \in DOMAIN owed'[k] : New(k, owed'[k][i].id)
      BY <2>3, <2>4, <2>5, <3>3, SendOwes
    <3> QED
      BY <2>3, <2>4, <3>1, <3>4
  <2>6. CASE RequestOver \/ Collects \/ Wire
    <3>1. owed' = owed /\ saying' = saying
      BY <2>6 DEF RequestOver, Collects, Wire, Going
    <3> HIDE DEF Old, New
    <3> QED
      BY <2>3, <2>4, <3>1
  <2>7. ASSUME NEW m \in Members, Speak(m)
        PROVE  /\ \A i \in DOMAIN owed'[k] : New(k, owed'[k][i].id)
               /\ \A i \in DOMAIN saying'[k] : New(k, saying'[k][i].id)
    <3> HIDE DEF Old, New
    <3>1. \A i \in DOMAIN owed'[k] : New(k, owed'[k][i].id)
      BY <2>3, <2>4, <2>7, StillOwes
    <3>2. 1 \in DOMAIN owed[m] /\ DOMAIN saying = Members
      BY <2>7, SpeakSays, TailOf DEF WireInv
    <3>3. CASE saying' = saying
      BY <2>3, <2>4, <3>1, <3>3
    <3>4. ASSUME NEW f, NEW rest, ReplyOf(owed[m][1], f, rest), SaysNext(m, f, rest)
          PROVE  \A i \in DOMAIN saying'[k] : New(k, saying'[k][i].id)
      <4>1. saying'[k] = IF k = m THEN rest ELSE saying[k]
        BY <3>2, <3>4 DEF SaysNext
      <4>2. \A i \in DOMAIN rest : rest[i].id = owed[m][1].id
        BY <3>4 DEF ReplyOf
      <4>3. New(m, owed[m][1].id)
        BY <2>3, <2>4, <3>2
      <4> QED
        BY <2>3, <2>4, <4>1, <4>2, <4>3
    <3> QED
      BY <2>7, <3>1, <3>3, <3>4, SpeakSays
  <2>8. ASSUME NEW m \in Members, SpeakOn(m)
        PROVE  /\ \A i \in DOMAIN owed'[k] : New(k, owed'[k][i].id)
               /\ \A i \in DOMAIN saying'[k] : New(k, saying'[k][i].id)
    <3> HIDE DEF Old, New
    <3>1. saying'[k] = (IF k = m THEN <<>> ELSE saying[k]) /\ owed' = owed
      <4>1. saying' = [saying EXCEPT ![m] = <<>>] /\ owed' = owed
        BY <2>8, SpeakOnSays DEF SaysNext
      <4> QED
        BY <4>1 DEF WireInv
    <3>2. DOMAIN <<>> = {}
      BY EmptySeq
    <3> QED
      BY <2>3, <2>4, <3>1, <3>2
  <2> QED
    BY <1>2, <2>5, <2>6, <2>7, <2>8, StepKinds
<1> QED
  BY <1>1, <1>2

(* The same frame, whole or in part. *)
Alike(f, g) == f.from = g.from /\ f.service = g.service /\ f.id = g.id /\ f.n = g.n /\ f.at = g.at

LEMMA QueueTyped == ASSUME WireInv PROVE queue \in Seq(BusFrame) /\ DOMAIN queue = 1 .. Len(queue) /\ Len(queue) \in Nat
<1>1. queue \in Seq(Honest(wiped)) /\ Honest(wiped) \subseteq BusFrame
  BY DEF WireInv, Honest
<1> QED
  BY <1>1, SeqMonotonic, LenProperties

LEMMA BatchFits == ASSUME WireInv PROVE BatchLength \in 0 .. Len(queue)
<1>1. Len(queue) \in Nat
  BY QueueTyped
<1> QED
  BY <1>1, SweepAssumption DEF BatchLength, J2534Batch, ElmLines

(* What a batch adds to what was collected: its diagnostic frames, in their order. *)
LEMMA BatchAdds ==
  ASSUME WireInv, CollectInv, ReceiveAll
  PROVE  \E new, place :
           /\ new \in Seq(BusFrame) /\ frames' = frames \o new
           /\ \A k \in DOMAIN new :
                /\ place[k] \in 1 .. BatchLength /\ place[k] \in DOMAIN queue
                /\ new[k] = queue[place[k]] /\ Diagnostic(queue[place[k]])
           /\ \A k, l \in DOMAIN new : k < l => place[k] < place[l]
<1> DEFINE places == {i \in 1 .. BatchLength : Diagnostic(queue[i])}
           new == Picked(queue, places)
<1>1. frames' = frames \o new
  BY DEF ReceiveAll
<1>2. queue \in Seq(BusFrame) /\ DOMAIN queue = 1 .. Len(queue) /\ Len(queue) \in Nat
  BY QueueTyped
<1>3. \A i \in places : i \in 1 .. BatchLength /\ Diagnostic(queue[i])
  OBVIOUS
<1> HIDE DEF places
<1>4. new \in Seq(BusFrame)
  BY <1>2, PickedFacts
<1>5. PICK place : ComesFrom(queue, places, Len(queue), new, place)
  BY <1>2, PickedFacts
<1> HIDE DEF new
<1>6. DOMAIN new = 1 .. Len(new)
  BY <1>4, LenProperties
<1>7. \A k \in DOMAIN new :
        /\ place[k] \in 1 .. BatchLength /\ place[k] \in DOMAIN queue
        /\ new[k] = queue[place[k]] /\ Diagnostic(queue[place[k]])
  BY <1>2, <1>3, <1>5, <1>6 DEF ComesFrom
<1>8. \A k, l \in DOMAIN new : k < l => place[k] < place[l]
  BY <1>5, <1>6 DEF ComesFrom
<1> QED
  BY <1>1, <1>4, <1>7, <1>8

(* What is collected was collected before or has just been read. *)
LEMMA CollectsFrames ==
  ASSUME WireInv, CollectInv, Collects
  PROVE  /\ frames' \in Seq(BusFrame)
         /\ \A j \in DOMAIN frames' :
              \/ \E i \in DOMAIN frames : frames'[j] = frames[i]
              \/ \E i \in DOMAIN queue : Alike(frames'[j], queue[i]) /\ Diagnostic(queue[i])
<1>1. frames \in Seq(BusFrame) /\ DOMAIN frames = 1 .. Len(frames) /\ Len(frames) \in Nat
  BY LenProperties DEF CollectInv
<1>2. queue \in Seq(BusFrame) /\ DOMAIN queue = 1 .. Len(queue) /\ Len(queue) \in Nat
  BY QueueTyped
<1>3. CASE frames' = frames
  BY <1>1, <1>3
<1>4. CASE ReceiveAll
  <2>1. PICK new, place :
          /\ new \in Seq(BusFrame) /\ frames' = frames \o new
          /\ \A k \in DOMAIN new : /\ place[k] \in DOMAIN queue /\ new[k] = queue[place[k]]
                                   /\ Diagnostic(queue[place[k]])
    BY <1>4, BatchAdds
  <2>2. /\ frames \o new \in Seq(BusFrame) /\ Len(frames \o new) = Len(frames) + Len(new)
        /\ \A i \in 1 .. Len(frames) + Len(new) :
             (frames \o new)[i] = IF i <= Len(frames) THEN frames[i] ELSE new[i - Len(frames)]
    BY <1>1, <2>1, ConcatProperties
  <2>3. DOMAIN (frames \o new) = 1 .. Len(frames) + Len(new) /\ DOMAIN new = 1 .. Len(new) /\ Len(new) \in Nat
    BY <2>1, <2>2, LenProperties
  <2>4. ASSUME NEW j \in 1 .. Len(frames) + Len(new)
        PROVE  \/ \E i \in DOMAIN frames : (frames \o new)[j] = frames[i]
               \/ \E i \in DOMAIN queue : Alike((frames \o new)[j], queue[i]) /\ Diagnostic(queue[i])
    <3>1. CASE j <= Len(frames)
      <4>1. j \in DOMAIN frames /\ (frames \o new)[j] = frames[j]
        BY <1>1, <2>2, <3>1
      <4> QED
        BY <4>1
    <3>2. CASE ~(j <= Len(frames))
      <4> DEFINE k == j - Len(frames)
      <4>1. k \in DOMAIN new /\ (frames \o new)[j] = new[k]
        BY <1>1, <2>2, <2>3, <3>2
      <4> HIDE DEF k
      <4>2. (frames \o new)[j] = queue[place[k]] /\ place[k] \in DOMAIN queue /\ Diagnostic(queue[place[k]])
        BY <2>1, <4>1
      <4> QED
        BY <4>2 DEF Alike
    <3> QED
      BY <3>1, <3>2
  <2>5. frames' = frames \o new
    BY <2>1
  <2> QED
    BY <2>2, <2>3, <2>4, <2>5
<1>5. CASE ReadCut /\ frames' # frames
  <2>1. /\ queue # <<>> /\ link = "elm"
        /\ \E part \in {queue[1].part, 2}, codes \in 0 .. queue[1].codes :
             frames' = Append(frames, [queue[1] EXCEPT !.cut = TRUE, !.part = part, !.codes = codes])
    <3>1. frames' # <<>> \/ frames' = <<>>
      OBVIOUS
    <3>2. asking' # Nobody
      BY DEF Collects, Going
    <3> QED
      BY <1>5, <3>2, Zenon DEF ReadCut, Done
  <2>2. 1 \in DOMAIN queue /\ queue[1] \in BusFrame /\ Diagnostic(queue[1])
    <3>1. 1 \in DOMAIN queue
      BY <1>2, <2>1, EmptySeq
    <3> QED
      BY <1>2, <2>1, <3>1, ElementOfSeq DEF CollectInv
  <2>3. PICK part \in {queue[1].part, 2}, codes \in 0 .. queue[1].codes :
          frames' = Append(frames, [queue[1] EXCEPT !.cut = TRUE, !.part = part, !.codes = codes])
    BY <2>1
  <2> DEFINE f == [queue[1] EXCEPT !.cut = TRUE, !.part = part, !.codes = codes]
  <2>4. f \in BusFrame /\ Alike(f, queue[1])
    <3>1. part \in 0 .. 2 /\ codes \in Nat
      BY <2>2 DEF BusFrame
    <3> QED
      BY <2>2, <3>1 DEF BusFrame, Alike
  <2> HIDE DEF f
  <2>5. /\ frames' \in Seq(BusFrame) /\ DOMAIN frames' = 1 .. Len(frames) + 1
        /\ frames'[Len(frames) + 1] = f /\ \A i \in 1 .. Len(frames) : frames'[i] = frames[i]
    <3>1. frames' = Append(frames, f)
      BY <2>3 DEF f
    <3>2. /\ Append(frames, f) \in Seq(BusFrame) /\ Len(Append(frames, f)) = Len(frames) + 1
          /\ \A i \in 1 .. Len(frames) : Append(frames, f)[i] = frames[i]
          /\ Append(frames, f)[Len(frames) + 1] = f
      BY <1>1, <2>4, AppendProperties
    <3>3. DOMAIN Append(frames, f) = 1 .. Len(frames) + 1
      BY <3>2, LenProperties
    <3> QED
      BY <3>1, <3>2, <3>3
  <2>6. ASSUME NEW j \in DOMAIN frames'
        PROVE  \/ \E i \in DOMAIN frames : frames'[j] = frames[i]
               \/ \E i \in DOMAIN queue : Alike(frames'[j], queue[i]) /\ Diagnostic(queue[i])
    <3>1. CASE j = Len(frames) + 1
      BY <2>2, <2>4, <2>5, <3>1
    <3>2. CASE j # Len(frames) + 1
      <4>1. j \in 1 .. Len(frames)
        BY <1>1, <2>5, <3>2
      <4> QED
        BY <1>1, <2>5, <4>1
    <3> QED
      BY <3>1, <3>2
  <2> QED
    BY <2>5, <2>6
<1> QED
  BY <1>3, <1>4, <1>5 DEF Collects

(* A frame comes last in the queue. *)
Joins(g) ==
  /\ DOMAIN queue' = 1 .. Len(queue) + 1 /\ queue'[Len(queue) + 1] = g
  /\ \A i \in DOMAIN queue : queue'[i] = queue[i]

LEMMA AppendJoins == ASSUME WireInv, NEW g \in BusFrame, queue' = Append(queue, g) PROVE Joins(g)
<1>1. queue \in Seq(BusFrame) /\ DOMAIN queue = 1 .. Len(queue) /\ Len(queue) \in Nat
  BY QueueTyped
<1>2. /\ Append(queue, g) \in Seq(BusFrame) /\ Len(Append(queue, g)) = Len(queue) + 1
      /\ \A i \in 1 .. Len(queue) : Append(queue, g)[i] = queue[i]
      /\ Append(queue, g)[Len(queue) + 1] = g
  BY <1>1, AppendProperties
<1>3. DOMAIN Append(queue, g) = 1 .. Len(queue) + 1
  BY <1>2, LenProperties
<1> QED
  BY <1>1, <1>2, <1>3 DEF Joins

(* What a module says is in the queue with the time it came in, or nowhere. *)
LEMMA SaysJoins ==
  ASSUME PlaceInv, WireInv, NEW m, NEW f \in BusFrame, NEW rest, SaysNext(m, f, rest)
  PROVE  \/ queue' = queue
         \/ \E g : /\ Joins(g) /\ g.from = f.from /\ g.service = f.service /\ g.id = f.id /\ g.n = f.n
                   /\ g.part = f.part /\ g.at = sent
<1> DEFINE g == [f EXCEPT !.at = sent]
<1>1. /\ g \in BusFrame /\ g.from = f.from /\ g.service = f.service /\ g.id = f.id /\ g.n = f.n
      /\ g.part = f.part /\ g.at = sent
  BY DEF BusFrame, PlaceInv
<1>2. queue' = queue \/ queue' = Append(queue, g)
  BY DEF SaysNext
<1> HIDE DEF g
<1> QED
  BY <1>1, <1>2, AppendJoins

LEMMA JoinsIs ==
  ASSUME WireInv, NEW g, Joins(g), NEW i \in DOMAIN queue'
  PROVE  (i \in DOMAIN queue /\ queue'[i] = queue[i]) \/ (i = Len(queue) + 1 /\ queue'[i] = g)
<1>1. DOMAIN queue = 1 .. Len(queue) /\ Len(queue) \in Nat
  BY QueueTyped
<1>2. i \in 1 .. Len(queue) + 1
  BY DEF Joins
<1>3. i \in 1 .. Len(queue) \/ i = Len(queue) + 1
  BY <1>1, <1>2
<1> QED
  BY <1>1, <1>3 DEF Joins

(* Other traffic is from nobody. *)
LEMMA ChatterJoins ==
  ASSUME PlaceInv, WireInv, Chatter
  PROVE  link = "vxdiag" /\ \E g : Joins(g) /\ g.from = Nobody /\ ~Diagnostic(g)
<1> DEFINE g == [CarFrame(asking, 0, 0) EXCEPT !.from = Nobody, !.service = "chatter"]
<1>1. PICK m \in Members : asking \in SweepRequests(m)
  BY DEF Chatter, Listening, PlaceInv
<1>2. 0 \in 0 .. 2
  OBVIOUS
<1>3. CarFrame(asking, 0, 0) \in [from : Members, id : Items, part : 0 .. 2, codes : Nat, n : Nat,
        at : Nat, cut : BOOLEAN, service : {"list", "clear", "block", "value", "raw"}]
  BY <1>1, <1>2 DEF CarFrame, SweepRequests
<1>4. g \in BusFrame /\ g.from = Nobody /\ ~Diagnostic(g)
  BY <1>3 DEF BusFrame, Diagnostic
<1>5. queue' = Append(queue, g) /\ link = "vxdiag"
  BY DEF Chatter
<1> HIDE DEF g
<1> QED
  BY <1>4, <1>5, AppendJoins

(* No step collects a frame that came in before the request under way.       *)
LEMMA StepCollect ==
  ASSUME PlaceInv, TurnInv, WireInv, CollectInv, LateInv, [SweepNext]_sweepVars
  PROVE  CollectInv'
<1>0. sent \in Nat /\ broken \in Nat /\ broken + 1 \in Nat
  BY DEF PlaceInv, CollectInv
<1>1. CASE \E l \in {"vxdiag", "elm"}, c \in Commands : Run(l, c)
  <2>1. turn = 0 /\ frames' = frames /\ asking' = asking /\ queue' = <<>> /\ broken' = 0
    BY <1>1 DEF Run
  <2>2. asking = Nobody /\ DOMAIN <<>> = {}
    BY <2>1, EmptySeq DEF PlaceInv
  <2> QED
    BY <2>1, <2>2 DEF CollectInv
<1>2. CASE Send
  <2>1. /\ frames' = frames /\ asking = Nobody /\ queue' = <<>> /\ sent' = sent + 1 /\ broken' = broken
        /\ Running /\ asking' = SweepAsks
    BY <1>2 DEF Send, Cleared
  <2>2. asking'.n = sent' /\ asking' # Nobody
    BY <2>1, SweepAsksTyped, AsksSomething
  <2>3. frames = <<>> /\ DOMAIN <<>> = {} /\ <<>> \in Seq(BusFrame)
    BY <2>1, EmptySeq DEF CollectInv
  <2> QED
    BY <1>0, <2>1, <2>2, <2>3 DEF CollectInv
<1>3. CASE RequestOver
  <2>1. asking' = Nobody /\ frames' = <<>> /\ broken' \in Nat /\ link' = link /\ Reads
    BY <1>0, <1>3 DEF RequestOver
  <2>2. link = "elm" => \A i \in DOMAIN queue' : Diagnostic(queue'[i])
    BY <2>1, ReadsLeave DEF CollectInv
  <2> QED
    BY <2>1, <2>2, EmptySeq DEF CollectInv
<1>4. CASE Collects
  <2>1. /\ asking' = asking /\ asking # Nobody /\ sent' = sent /\ link' = link /\ Reads
        /\ broken' \in Nat
    BY <1>0, <1>4 DEF Collects, Going
  <2>2. asking.n = sent
    BY <2>1 DEF CollectInv
  <2>3. /\ \A i \in DOMAIN queue' : Diagnostic(queue'[i]) => queue'[i].at = sent
        /\ link = "elm" => \A i \in DOMAIN queue' : Diagnostic(queue'[i])
    <3>1. PICK past \in Nat : \A i \in DOMAIN queue' : i + past \in DOMAIN queue /\ queue'[i] = queue[i + past]
      BY <2>1, ReadsLeave
    <3> QED
      BY <2>1, <3>1 DEF CollectInv
  <2>4. frames' \in Seq(BusFrame) /\ \A j \in DOMAIN frames' : frames'[j].at = sent
    <3>1. ASSUME NEW j \in DOMAIN frames' PROVE frames'[j].at = sent
      <4>1. CASE \E i \in DOMAIN frames : frames'[j] = frames[i]
        BY <2>1, <4>1 DEF CollectInv
      <4>2. CASE \E i \in DOMAIN queue : Alike(frames'[j], queue[i]) /\ Diagnostic(queue[i])
        BY <2>1, <4>2 DEF CollectInv, Alike
      <4> QED
        BY <1>4, <4>1, <4>2, CollectsFrames
    <3> QED
      BY <1>4, <3>1, CollectsFrames
  <2> QED
    BY <2>1, <2>2, <2>3, <2>4 DEF CollectInv
<1>5. ASSUME UNCHANGED <<link, asking, sent, frames>>, broken' \in {broken, broken + 1},
             queue' = queue \/ \E g : /\ Joins(g)
                                      /\ Diagnostic(g) => g.at = sent
                                      /\ link = "elm" => Diagnostic(g)
      PROVE  CollectInv'
  <2>1. CASE queue' = queue
    BY <1>0, <1>5, <2>1 DEF CollectInv
  <2>2. CASE \E g : Joins(g) /\ (Diagnostic(g) => g.at = sent) /\ (link = "elm" => Diagnostic(g))
    <3>1. PICK g : Joins(g) /\ (Diagnostic(g) => g.at = sent) /\ (link = "elm" => Diagnostic(g))
      BY <2>2
    <3>2. \A i \in DOMAIN queue' : (i \in DOMAIN queue /\ queue'[i] = queue[i]) \/ queue'[i] = g
      BY <3>1, JoinsIs
    <3>3. /\ asking # Nobody => \A i \in DOMAIN queue' : Diagnostic(queue'[i]) => queue'[i].at = sent
          /\ link = "elm" => \A i \in DOMAIN queue' : Diagnostic(queue'[i])
      BY <3>1, <3>2 DEF CollectInv
    <3> QED
      BY <1>0, <1>5, <3>3 DEF CollectInv
  <2> QED
    BY <1>5, <2>1, <2>2
<1>6. CASE Wire
  <2>1. UNCHANGED <<link, asking, sent, frames, broken>> /\ (queue' = queue \/ Chatter)
    BY <1>6 DEF Wire, Going
  <2> QED
    BY <1>5, <2>1, ChatterJoins
<1>7. ASSUME NEW m, NEW f \in BusFrame, NEW rest, SaysNext(m, f, rest), f.service # "chatter" PROVE CollectInv'
  <2>1. UNCHANGED <<link, asking, sent, frames>> /\ broken' \in {broken, broken + 1}
    BY <1>7 DEF SaysNext
  <2>2. CASE queue' = queue
    BY <1>5, <2>1, <2>2
  <2>3. ASSUME NEW g, Joins(g), g.service = f.service, g.at = sent PROVE CollectInv'
    BY <1>5, <1>7, <2>1, <2>3 DEF Diagnostic
  <2> QED
    BY <1>7, <2>2, <2>3, SaysJoins
<1>8. ASSUME NEW m \in Members, Speak(m) PROVE CollectInv'
  <2>1. ASSUME NEW f, NEW rest, ReplyOf(owed[m][1], f, rest), SaysNext(m, f, rest) PROVE CollectInv'
    <3>1. f \in BusFrame /\ f.service # "chatter"
      BY <2>1 DEF ReplyOf
    <3> QED
      BY <1>7, <2>1, <3>1
  <2>2. CASE UNCHANGED <<link, command, turn, step, asking, sent, report, saying, queue, frames, broken>>
    BY <1>5, <2>2
  <2> QED
    BY <1>8, <2>1, <2>2, SpeakSays
<1>9. ASSUME NEW m \in Members, SpeakOn(m) PROVE CollectInv'
  BY <1>7, <1>9, SpeakOnSays
<1> QED
  BY <1>1, <1>2, <1>3, <1>4, <1>6, <1>8, <1>9, StepKinds

(* An entry is about the request under way. *)
Entered(e, result) ==
  /\ e.module = asking.module /\ e.service = asking.service /\ e.id = asking.id /\ e.n = asking.n
  /\ e.frames = result

(* What an exception, or an answer, adds to the report.                      *)
LEMMA FailureEnters ==
  ASSUME TransportFails, NEW e \in report', e \notin report
  PROVE  Entered(e, <<>>)
<1>1. e = Entry(<<>>, "silent")
  BY DEF TransportFails, Raise, NextModule, Tell
<1> QED
  BY <1>1 DEF Entry, Entered

LEMMA ReturnEnters ==
  ASSUME PlaceInv, TurnInv, Listening, NEW result, SweepReturns(result), NEW e \in report', e \notin report
  PROVE  Entered(e, result) /\ (step = "confirm" => e.state # "read")
<1>1. \E state : e = Entry(result, state) /\ (step = "confirm" => state # "read")
  <2>1. CASE Told(result) /\ command # "clear"
    <3>1. e = Entry(result, "read")
      BY <2>1 DEF Told, Tell
    <3>2. step # "confirm"
      <4>1. step = FirstStep(command) /\ command \in Commands
        BY <2>1 DEF TurnInv, PlaceInv, Listening, Running
      <4> QED
        BY <4>1, FirstIsStep
    <3> QED
      BY <3>1, <3>2
  <2>2. CASE ClearRead(result)
    <3>1. CASE step = "confirm"
      <4>1. e = Entry(result, IF CodesIn(result) = 0 THEN "gone" ELSE "still")
        BY <2>2, <3>1 DEF ClearRead, Tell
      <4> QED
        BY <4>1
    <3>2. CASE step # "confirm"
      <4>1. \E state : e = Entry(result, state)
        BY <2>2, <3>2 DEF ClearRead, Tell
      <4> QED
        BY <3>2, <4>1
    <3> QED
      BY <3>1, <3>2
  <2> QED
    BY <2>1, <2>2 DEF SweepReturns, DtcRead, IdentityRead, DumpRead, DiscoverRead, VerifyRead, MemoryRead
<1> QED
  BY <1>1 DEF Entry, Entered

(* The head of an answer is a diagnostic frame.                              *)
LEMMA FirstIsDiagnostic ==
  ASSUME WireInv, NEW good, good \subseteq 1 .. BatchLength, good # {},
         \A i \in good : Matches(queue[i], asking) \/ Acks(queue[i], asking)
  PROVE  LET first == CHOOSE i \in good : \A k \in good : i <= k
         IN  first \in DOMAIN queue /\ Diagnostic(queue[first])
<1> DEFINE first == CHOOSE i \in good : \A k \in good : i <= k
<1>1. BatchLength \in 0 .. Len(queue) /\ DOMAIN queue = 1 .. Len(queue) /\ Len(queue) \in Nat
  BY BatchFits, QueueTyped
<1> HIDE DEF BatchLength
<1>2. good \subseteq Nat /\ good \subseteq DOMAIN queue
  BY <1>1
<1>3. \E i \in good : \A k \in good : i <= k
  BY <1>2, FirstExists
<1>4. first \in good
  BY <1>3
<1> HIDE DEF first
<1>5. first \in DOMAIN queue /\ Diagnostic(queue[first])
  BY <1>2, <1>4 DEF Matches, Acks, Diagnostic
<1> QED
  BY <1>5 DEF first

(* What is printed anew is what was read for the request under way. *)
LEMMA ReportsWhat ==
  ASSUME PlaceInv, TurnInv, WireInv, CollectInv, [SweepNext]_sweepVars, NEW e \in report', e \notin report
  PROVE  /\ asking # Nobody
         /\ \/ Entered(e, <<>>)
            \/ step = "raw" /\ Entered(e, frames)
            \/ step \in {"list", "confirm", "block"} /\ Entered(e, Join(frames, asking))
            \/ /\ step \in {"value", "clear"}
               /\ \E i \in DOMAIN queue : Diagnostic(queue[i]) /\ Entered(e, <<queue[i]>>)
         /\ step = "confirm" => e.frames = <<>> \/ e.state # "read"
<1>1. CASE ReceiveOne
  <2> DEFINE good == {i \in 1 .. BatchLength : IF step = "value" THEN Matches(queue[i], asking)
                                              ELSE Acks(queue[i], asking)}
             first == CHOOSE i \in good : \A k \in good : i <= k
  <2>1. Listening /\ asking # Nobody /\ step \in {"value", "clear"}
    BY <1>1 DEF ReceiveOne, Listening
  <2>2. good # {} /\ SweepReturns(<<queue[first]>>)
    BY <1>1 DEF ReceiveOne
  <2>3. first \in DOMAIN queue /\ Diagnostic(queue[first])
    <3>1. good \subseteq 1 .. BatchLength /\ \A i \in good : Matches(queue[i], asking) \/ Acks(queue[i], asking)
      OBVIOUS
    <3> HIDE DEF good
    <3> QED
      BY <2>2, <3>1, FirstIsDiagnostic
  <2> HIDE DEF first
  <2>4. Entered(e, <<queue[first]>>)
    BY <2>1, <2>2, ReturnEnters
  <2> QED
    BY <2>1, <2>3, <2>4
<1>2. CASE SweepTimeout
  <2>1. Listening /\ asking # Nobody
    BY <1>2 DEF SweepTimeout, Listening
  <2>2. CASE TransportFails
    BY <2>1, <2>2, FailureEnters DEF Entered
  <2>3. CASE step = "clear" /\ SweepReturns(<<>>)
    BY <2>1, <2>3, ReturnEnters DEF Entered
  <2>4. CASE step \in {"list", "confirm", "block"} /\ SweepReturns(Join(frames, asking))
    BY <2>1, <2>4, ReturnEnters
  <2>5. CASE step = "raw" /\ SweepReturns(frames)
    BY <2>1, <2>5, ReturnEnters
  <2>6. step \in Collecting \ {"raw"} => step \in {"list", "confirm", "block"}
    OBVIOUS
  <2> QED
    BY <1>2, <2>2, <2>3, <2>4, <2>5, <2>6 DEF SweepTimeout, ValueTimeout, ClearTimeout, CollectEnds, RawEnds
<1>3. CASE LinkFails
  <2>1. Listening /\ asking # Nobody /\ TransportFails
    BY <1>3 DEF LinkFails, Listening, Raise
  <2> QED
    BY <2>1, FailureEnters DEF Entered
<1>4. CASE \E l \in {"vxdiag", "elm"}, c \in Commands : Run(l, c)
  BY <1>4 DEF Run
<1>5. CASE Send
  BY <1>5 DEF Send
<1>6. CASE ReceiveAll \/ UNCHANGED sweepVars
  BY <1>6 DEF ReceiveAll, sweepVars, sweep
<1>7. CASE ReadCut
  BY <1>7, Zenon DEF ReadCut, Raise
<1>8. CASE SweepCars
  BY <1>8 DEF SweepCars, Chatter, Prompt, Speak, SpeakOn, Emit, sweep
<1> QED
  BY <1>1, <1>2, <1>3, <1>4, <1>5, <1>6, <1>7, <1>8 DEF SweepNext, SweepStep

(* No step reports a frame that came in before its request.                  *)
LEMMA StepFresh ==
  ASSUME PlaceInv, TurnInv, WireInv, CollectInv, FreshFrames, [SweepNext]_sweepVars
  PROVE  FreshFrames'
<1> SUFFICES ASSUME NEW e \in report' PROVE \A i \in DOMAIN e.frames : e.frames[i].at = e.n
  BY DEF FreshFrames
<1>1. CASE e \in report
  BY <1>1 DEF FreshFrames
<1>2. CASE e \notin report
  <2>1. asking # Nobody
    BY <1>2, ReportsWhat
  <2>2. /\ asking.n = sent /\ \A i \in DOMAIN frames : frames[i].at = sent
        /\ \A i \in DOMAIN queue : Diagnostic(queue[i]) => queue[i].at = sent
        /\ frames \in Seq(BusFrame)
    BY <2>1 DEF CollectInv
  <2>3. CASE Entered(e, <<>>)
    BY <2>3, EmptySeq DEF Entered
  <2>4. CASE Entered(e, frames)
    BY <2>2, <2>4 DEF Entered
  <2>5. CASE Entered(e, Join(frames, asking))
    <3> DEFINE js == Join(frames, asking)
    <3>1. PICK place :
            /\ place \in [DOMAIN js -> DOMAIN frames]
            /\ \A k \in DOMAIN js : js[k] = frames[place[k]] /\ frames[place[k]].from = asking.module
            /\ \A k, l \in DOMAIN js : k < l => place[k] < place[l]
      BY <2>2, JoinedFacts
    <3>2. \A k \in DOMAIN Join(frames, asking) : Join(frames, asking)[k].at = sent
      BY <2>2, <3>1
    <3> QED
      BY <2>2, <2>5, <3>2 DEF Entered
  <2>6. ASSUME NEW i \in DOMAIN queue, Diagnostic(queue[i]), Entered(e, <<queue[i]>>)
        PROVE  \A k \in DOMAIN e.frames : e.frames[k].at = e.n
    <3>1. e.n = sent /\ e.frames = <<queue[i]>> /\ queue[i].at = sent
      BY <2>2, <2>6 DEF Entered
    <3> QED
      BY <3>1
  <2> QED
    BY <1>2, <2>3, <2>4, <2>5, <2>6, ReportsWhat
<1> QED
  BY <1>1, <1>2

(* What comes of a turn that has passed is of another module or block than what is   *)
(* asked for next.                                                           *)
LEMMA NotAskedBefore ==
  ASSUME PlaceInv, TurnInv, Running, asking = Nobody, step = FirstStep(command), step \in {"list", "block"},
         IsInjective(Blocks), NEW t \in TurnsPassed, NEW id, OfTurn(command, t, SweepAsks.module, id)
  PROVE  id # SweepAsks.id
<1>1. command \in {"dtc", "clear", "identify", "dump"} /\ command \in Commands /\ turn \in 1 .. SweepTurns(command)
  BY DEF PlaceInv, FirstStep, Commands, Running
<1>2. t \in 1 .. turn /\ t # turn
  BY <1>1, TurnsExist DEF TurnsPassed
<1>3. OfTurn(command, turn, SweepAsks.module, SweepAsks.id)
  BY AsksOfTurn
<1>4. CASE command \in {"dtc", "clear", "identify"}
  <2>1. Groups[t] = Groups[turn]
    BY <1>3, <1>4 DEF OfTurn
  <2>2. SweepTurns(command) = Len(Groups) /\ DOMAIN Groups = 1 .. Len(Groups) /\ Len(Groups) \in Nat
    BY <1>4, SweepAssumption, LenProperties DEF SweepTurns
  <2>3. t \in DOMAIN Groups /\ turn \in DOMAIN Groups
    BY <1>1, <1>2, <2>2
  <2> QED
    BY <1>2, <2>1, <2>3, SweepAssumption DEF IsInjective
<1>5. CASE command = "dump"
  <2>1. id = Blocks[t] /\ SweepAsks.id = Blocks[turn]
    BY <1>3, <1>5 DEF OfTurn
  <2>2. SweepTurns(command) = Len(Blocks) /\ DOMAIN Blocks = 1 .. Len(Blocks) /\ Len(Blocks) \in Nat
    BY <1>5, SweepAssumption, LenProperties DEF SweepTurns
  <2>3. t \in DOMAIN Blocks /\ turn \in DOMAIN Blocks
    BY <1>1, <1>2, <2>2
  <2> QED
    BY <1>2, <2>1, <2>3 DEF IsInjective
<1> QED
  BY <1>1, <1>4, <1>5

(* The first request of a turn is owed once: earlier turns asked for         *)
(* something else.                                                           *)
LEMMA SendOnce ==
  ASSUME PlaceInv, TurnInv, WireInv, CollectInv, PastInv, Send,
         step = FirstStep(command), step \in {"list", "block"}, IsInjective(Blocks)
  PROVE  /\ OwesOnce(asking', owed'[asking'.module]) /\ AnswersOnce(asking', saying'[asking'.module])
         /\ AnswersOnce(asking', queue') /\ AnswersOnce(asking', frames')
<1>1. /\ Running /\ asking = Nobody /\ asking' = SweepAsks /\ frames' = frames /\ queue' = <<>>
      /\ saying' = saying
  BY DEF Send, Cleared
<1>2. frames' = <<>> /\ DOMAIN <<>> = {}
  BY <1>1, EmptySeq DEF CollectInv
<1> DEFINE m == SweepAsks.module
<1>3. m \in Members /\ turn > 0
  BY <1>1, SweepAsksTyped DEF Running
<1>4. /\ \A i \in DOMAIN owed[m] : owed[m][i].id # SweepAsks.id
      /\ \A i \in DOMAIN saying[m] : saying[m][i].id # SweepAsks.id
  BY <1>1, <1>3, NotAskedBefore DEF PastInv
<1> HIDE DEF m
<1>5. \A i \in DOMAIN owed'[m] : owed'[m][i].id = SweepAsks.id => owed'[m][i] = SweepAsks
  <2> SUFFICES ASSUME NEW i \in DOMAIN owed'[m], owed'[m][i].id = SweepAsks.id PROVE owed'[m][i] = SweepAsks
    OBVIOUS
  <2>1. ~ \E j \in DOMAIN owed[m] : owed'[m][i] = owed[m][j]
    BY <1>4
  <2> QED
    BY <1>1, <1>3, <2>1, SendOwes
<1>6. OwesOnce(SweepAsks, owed'[m]) /\ AnswersOnce(SweepAsks, saying'[m])
  BY <1>1, <1>4, <1>5 DEF OwesOnce, AnswersOnce
<1> QED
  BY <1>1, <1>2, <1>6 DEF AnswersOnce, m

(* No step brings a second answer to the first request of a turn.            *)
LEMMA StepOnce ==
  ASSUME PlaceInv, TurnInv, WireInv, CollectInv, LateInv, PastInv, OnceInv, [SweepNext]_sweepVars
  PROVE  OnceInv'
<1> SUFFICES ASSUME asking' # Nobody, step' = FirstStep(command'), step' \in {"list", "block"},
                    IsInjective(Blocks)
             PROVE  /\ OwesOnce(asking', owed'[asking'.module])
                    /\ AnswersOnce(asking', saying'[asking'.module])
                    /\ AnswersOnce(asking', queue') /\ AnswersOnce(asking', frames')
  BY DEF OnceInv
<1>1. CASE \E l \in {"vxdiag", "elm"}, c \in Commands : Run(l, c)
  BY <1>1 DEF Run, PlaceInv
<1>2. CASE Send
  <2>1. step' = step /\ command' = command
    BY <1>2 DEF Send
  <2> QED
    BY <1>2, <2>1, SendOnce
<1>3. CASE RequestOver
  BY <1>3 DEF RequestOver
<1> DEFINE r == asking
           m == asking.module
<1>4. ASSUME UNCHANGED <<command, step, asking>>
      PROVE  /\ r.module \in Members /\ r.service # "refusal"
             /\ OwesOnce(r, owed[m]) /\ AnswersOnce(r, saying[m])
             /\ AnswersOnce(r, queue) /\ AnswersOnce(r, frames)
  BY <1>4 DEF OnceInv, PlaceInv, SweepRequests
<1>5. CASE Collects
  <2>1. UNCHANGED <<command, step, asking, owed, saying>> /\ Reads
    BY <1>5 DEF Collects, Going
  <2>2. /\ OwesOnce(r, owed[m]) /\ AnswersOnce(r, saying[m]) /\ AnswersOnce(r, queue)
        /\ AnswersOnce(r, frames)
    BY <1>4, <2>1
  <2>3. AnswersOnce(r, queue')
    <3>1. PICK past \in Nat : \A i \in DOMAIN queue' : i + past \in DOMAIN queue /\ queue'[i] = queue[i + past]
      BY <2>1, ReadsLeave
    <3> QED
      BY <2>2, <3>1 DEF AnswersOnce
  <2>4. AnswersOnce(r, frames')
    <3>1. ASSUME NEW j \in DOMAIN frames', frames'[j].from = r.module, frames'[j].service = r.service,
                 frames'[j].id = r.id
          PROVE  frames'[j].n = r.n
      <4>1. CASE \E i \in DOMAIN frames : frames'[j] = frames[i]
        BY <2>2, <3>1, <4>1 DEF AnswersOnce
      <4>2. CASE \E i \in DOMAIN queue : Alike(frames'[j], queue[i]) /\ Diagnostic(queue[i])
        BY <2>2, <3>1, <4>2 DEF AnswersOnce, Alike
      <4> QED
        BY <1>5, <4>1, <4>2, CollectsFrames
    <3> QED
      BY <3>1 DEF AnswersOnce
  <2> QED
    BY <2>1, <2>2, <2>3, <2>4
<1>6. ASSUME AnswersOnce(r, queue), NEW g, Joins(g),
             g.from = r.module /\ g.service = r.service /\ g.id = r.id => g.n = r.n
      PROVE  AnswersOnce(r, queue')
  <2>1. \A i \in DOMAIN queue' : (i \in DOMAIN queue /\ queue'[i] = queue[i]) \/ queue'[i] = g
    BY <1>6, JoinsIs
  <2> QED
    BY <1>6, <2>1 DEF AnswersOnce
<1>7. CASE Wire
  <2>1. UNCHANGED <<command, step, asking, owed, saying, frames>> /\ (queue' = queue \/ Chatter)
    BY <1>7 DEF Wire, Going
  <2>2. /\ r.module \in Members /\ OwesOnce(r, owed[m]) /\ AnswersOnce(r, saying[m])
        /\ AnswersOnce(r, queue) /\ AnswersOnce(r, frames)
    BY <1>4, <2>1
  <2>3. CASE queue' = queue
    BY <2>1, <2>2, <2>3
  <2>4. CASE Chatter
    <3>1. PICK g : Joins(g) /\ g.from = Nobody
      BY <2>4, ChatterJoins
    <3>2. AnswersOnce(r, queue')
      BY <1>6, <2>2, <3>1, SweepAssumption
    <3> QED
      BY <2>1, <2>2, <3>2
  <2> QED
    BY <2>1, <2>3, <2>4
<1>8. ASSUME AnswersOnce(r, queue), NEW k, NEW f \in BusFrame, NEW rest, SaysNext(k, f, rest),
             f.from = r.module /\ f.service = r.service /\ f.id = r.id => f.n = r.n
      PROVE  AnswersOnce(r, queue')
  <2>1. ASSUME NEW g, Joins(g), g.from = f.from, g.service = f.service, g.id = f.id, g.n = f.n
        PROVE  AnswersOnce(r, queue')
    BY <1>6, <1>8, <2>1
  <2>2. CASE queue' = queue
    BY <1>8, <2>2
  <2> QED
    BY <1>8, <2>1, <2>2, SaysJoins
<1>9. ASSUME NEW k \in Members, Speak(k)
      PROVE  /\ OwesOnce(asking', owed'[asking'.module])
             /\ AnswersOnce(asking', saying'[asking'.module])
             /\ AnswersOnce(asking', queue') /\ AnswersOnce(asking', frames')
  <2>1. UNCHANGED <<command, step, asking, frames>>
    BY <1>9, SpeakSays DEF SaysNext
  <2>2. /\ r.module \in Members /\ r.service # "refusal" /\ OwesOnce(r, owed[m])
        /\ AnswersOnce(r, saying[m]) /\ AnswersOnce(r, queue) /\ AnswersOnce(r, frames)
    BY <1>4, <2>1
  <2>3. OwesOnce(r, owed'[m])
    BY <1>9, <2>2, StillOwes DEF OwesOnce
  <2>4. 1 \in DOMAIN owed[k] /\ owed[k][1].module = k /\ DOMAIN saying = Members
    BY <1>9, SpeakSays, TailOf, SpokenTyped DEF WireInv, Owing, SweepRequests
  <2>5. ASSUME NEW f, NEW rest, ReplyOf(owed[k][1], f, rest), SaysNext(k, f, rest)
        PROVE  AnswersOnce(r, saying'[m]) /\ AnswersOnce(r, queue')
    <3>1. k = m => (owed[k][1].service = r.service /\ owed[k][1].id = r.id => owed[k][1].n = r.n)
      BY <2>2, <2>4 DEF OwesOnce
    <3>2. f \in BusFrame /\ f.from = k /\ f.id = owed[k][1].id /\ f.n = owed[k][1].n
          /\ f.service \in {owed[k][1].service, "refusal"}
      BY <2>4, <2>5 DEF ReplyOf
    <3>3. f.from = r.module /\ f.service = r.service /\ f.id = r.id => f.n = r.n
      BY <2>2, <3>1, <3>2
    <3>4. AnswersOnce(r, queue')
      BY <1>8, <2>2, <2>5, <3>2, <3>3
    <3>5. saying'[m] = IF k = m THEN rest ELSE saying[m]
      BY <2>2, <2>4, <2>5 DEF SaysNext
    <3>6. k = m => AnswersOnce(r, rest)
      BY <2>5, <3>1 DEF ReplyOf, AnswersOnce
    <3> QED
      BY <2>2, <3>4, <3>5, <3>6
  <2>6. CASE saying' = saying /\ queue' = queue
    BY <2>1, <2>2, <2>3, <2>6
  <2> QED
    BY <1>9, <2>1, <2>2, <2>3, <2>5, <2>6, SpeakSays
<1>10. ASSUME NEW k \in Members, SpeakOn(k)
       PROVE  /\ OwesOnce(asking', owed'[asking'.module])
              /\ AnswersOnce(asking', saying'[asking'.module])
              /\ AnswersOnce(asking', queue') /\ AnswersOnce(asking', frames')
  <2>1. /\ 1 \in DOMAIN saying[k] /\ saying[k][1] \in BusFrame /\ saying[k][1].from = k
        /\ SaysNext(k, saying[k][1], <<>>) /\ owed' = owed
    BY <1>10, SpeakOnSays
  <2>2. UNCHANGED <<command, step, asking, frames>> /\ saying' = [saying EXCEPT ![k] = <<>>]
    BY <2>1 DEF SaysNext
  <2>3. /\ r.module \in Members /\ OwesOnce(r, owed[m]) /\ AnswersOnce(r, saying[m])
        /\ AnswersOnce(r, queue) /\ AnswersOnce(r, frames)
    BY <1>4, <2>2
  <2>4. AnswersOnce(r, queue')
    <3>1. LET f == saying[k][1] IN f.from = r.module /\ f.service = r.service /\ f.id = r.id => f.n = r.n
      BY <2>1, <2>3 DEF AnswersOnce
    <3> QED
      BY <1>8, <2>1, <2>3, <3>1
  <2>5. AnswersOnce(r, saying'[m])
    <3>1. saying'[m] = IF k = m THEN <<>> ELSE saying[m]
      BY <2>2, <2>3 DEF WireInv
    <3>2. DOMAIN <<>> = {}
      BY EmptySeq
    <3> QED
      BY <2>3, <3>1, <3>2 DEF AnswersOnce
  <2> QED
    BY <2>1, <2>2, <2>3, <2>4, <2>5
<1> QED
  BY <1>1, <1>2, <1>3, <1>5, <1>7, <1>9, <1>10, StepKinds

(* The order of what is left of the queue is the queue's. *)
LEMMA ReadsOrder ==
  ASSUME WireInv, Reads, NEW r, NEW fs, NEW gs
  PROVE  /\ Orderly(r, queue) => Orderly(r, queue')
         /\ Before(r, fs, queue) => Before(r, fs, queue')
         /\ Before(r, queue, gs) => Before(r, queue', gs)
         /\ Older(r, queue) => Older(r, queue')
<1>1. PICK past \in Nat : \A i \in DOMAIN queue' : i + past \in DOMAIN queue /\ queue'[i] = queue[i + past]
  BY ReadsLeave
<1>2. DOMAIN queue' \subseteq Nat
  <2>1. DOMAIN queue' = 1 .. Len(queue') /\ Len(queue') \in Nat
    BY ReadsLeave, LenProperties
  <2> QED
    BY <2>1
<1>3. ASSUME Orderly(r, queue) PROVE Orderly(r, queue')
  <2>1. ASSUME NEW i \in DOMAIN queue', NEW j \in DOMAIN queue', i < j PROVE Then(r, queue'[i], queue'[j])
    <3>1. i + past < j + past
      BY <1>2, <2>1
    <3> QED
      BY <1>1, <1>3, <3>1 DEF Orderly
  <2> QED
    BY <2>1 DEF Orderly
<1> QED
  BY <1>1, <1>3 DEF Before, Older

(* A frame that comes last in the queue. *)
LEMMA JoinsOrder ==
  ASSUME WireInv, NEW g, Joins(g), NEW r, NEW fs, NEW gs
  PROVE  /\ Orderly(r, queue) /\ (\A i \in DOMAIN queue : Then(r, queue[i], g)) => Orderly(r, queue')
         /\ Before(r, fs, queue) /\ (\A i \in DOMAIN fs : Then(r, fs[i], g)) => Before(r, fs, queue')
         /\ Before(r, queue, gs) /\ (\A i \in DOMAIN gs : Then(r, g, gs[i])) => Before(r, queue', gs)
         /\ Older(r, queue) /\ (g.from = r.module => g.n # r.n) => Older(r, queue')
<1>1. \A i \in DOMAIN queue' : (i \in DOMAIN queue /\ queue'[i] = queue[i]) \/ (i = Len(queue) + 1 /\ queue'[i] = g)
  BY JoinsIs
<1>2. DOMAIN queue = 1 .. Len(queue) /\ Len(queue) \in Nat
  BY QueueTyped
<1>3. ASSUME Orderly(r, queue), \A i \in DOMAIN queue : Then(r, queue[i], g) PROVE Orderly(r, queue')
  <2>1. ASSUME NEW i \in DOMAIN queue', NEW j \in DOMAIN queue', i < j PROVE Then(r, queue'[i], queue'[j])
    <3>1. i \in DOMAIN queue /\ queue'[i] = queue[i]
      <4>1. i # Len(queue) + 1
        BY <1>1, <1>2, <2>1
      <4> QED
        BY <1>1, <4>1
    <3>2. CASE j \in DOMAIN queue /\ queue'[j] = queue[j]
      BY <1>3, <2>1, <3>1, <3>2 DEF Orderly
    <3>3. CASE queue'[j] = g
      BY <1>3, <3>1, <3>3
    <3> QED
      BY <1>1, <3>2, <3>3
  <2> QED
    BY <2>1 DEF Orderly
<1> QED
  BY <1>1, <1>3 DEF Before, Older

(* A batch moves from the front of the queue to the end of what was collected. *)
LEMMA BatchOrder ==
  ASSUME WireInv, CollectInv, ReceiveAll, NEW r, NEW gs,
         Orderly(r, frames), Orderly(r, queue), Before(r, frames, queue),
         Before(r, frames, gs), Before(r, queue, gs)
  PROVE  /\ Orderly(r, frames') /\ Before(r, frames', queue') /\ Before(r, frames', gs)
         /\ Older(r, frames) /\ Older(r, queue) => Older(r, frames')
<1>1. PICK new, place :
        /\ new \in Seq(BusFrame) /\ frames' = frames \o new
        /\ \A k \in DOMAIN new :
             /\ place[k] \in 1 .. BatchLength /\ place[k] \in DOMAIN queue
             /\ new[k] = queue[place[k]] /\ Diagnostic(queue[place[k]])
        /\ \A k, l \in DOMAIN new : k < l => place[k] < place[l]
  BY BatchAdds
<1>2. frames \in Seq(BusFrame) /\ DOMAIN frames = 1 .. Len(frames) /\ Len(frames) \in Nat
  BY LenProperties DEF CollectInv
<1>3. DOMAIN new = 1 .. Len(new) /\ Len(new) \in Nat
  BY <1>1, LenProperties
<1>4. /\ DOMAIN frames' = 1 .. Len(frames) + Len(new)
      /\ \A i \in 1 .. Len(frames) + Len(new) :
           frames'[i] = IF i <= Len(frames) THEN frames[i] ELSE new[i - Len(frames)]
  <2>1. /\ frames \o new \in Seq(BusFrame) /\ Len(frames \o new) = Len(frames) + Len(new)
        /\ \A i \in 1 .. Len(frames) + Len(new) :
             (frames \o new)[i] = IF i <= Len(frames) THEN frames[i] ELSE new[i - Len(frames)]
    BY <1>1, <1>2, ConcatProperties
  <2>2. DOMAIN (frames \o new) = 1 .. Len(frames) + Len(new)
    BY <2>1, LenProperties
  <2> QED
    BY <1>1, <2>1, <2>2
<1> DEFINE Kept(j) == j \in DOMAIN frames /\ frames'[j] = frames[j]
           From(j, p) == p \in DOMAIN queue /\ p <= BatchLength /\ frames'[j] = queue[p]
<1>5. \A j \in DOMAIN frames' :
        Kept(j) \/ (~(j <= Len(frames)) /\ j - Len(frames) \in DOMAIN new /\ From(j, place[j - Len(frames)]))
  <2> SUFFICES ASSUME NEW j \in DOMAIN frames', ~Kept(j)
               PROVE  ~(j <= Len(frames)) /\ j - Len(frames) \in DOMAIN new /\ From(j, place[j - Len(frames)])
    OBVIOUS
  <2>1. ~(j <= Len(frames)) /\ j \in 1 .. Len(frames) + Len(new)
    BY <1>2, <1>4
  <2> DEFINE k == j - Len(frames)
  <2>2. k \in DOMAIN new /\ frames'[j] = new[k]
    BY <1>2, <1>3, <1>4, <2>1
  <2> HIDE DEF k
  <2>3. From(j, place[k])
    <3>1. BatchLength \in Nat
      <4>1. BatchLength \in 0 .. Len(queue) /\ Len(queue) \in Nat
        BY BatchFits, QueueTyped
      <4> HIDE DEF BatchLength
      <4> QED
        BY <4>1
    <3> HIDE DEF BatchLength
    <3> QED
      BY <1>1, <2>2, <3>1
  <2> QED
    BY <2>1, <2>2, <2>3 DEF k
<1>6. Orderly(r, frames')
  <2> SUFFICES ASSUME NEW i \in DOMAIN frames', NEW j \in DOMAIN frames', i < j
               PROVE  Then(r, frames'[i], frames'[j])
    BY DEF Orderly
  <2>0. i \in Nat /\ j \in Nat
    BY <1>4
  <2>1. CASE Kept(i) /\ Kept(j)
    BY <2>1 DEF Orderly
  <2>2. ASSUME Kept(i), NEW p, From(j, p) PROVE Then(r, frames'[i], frames'[j])
    BY <2>2 DEF Before
  <2>3. CASE ~Kept(i)
    <3>1. /\ ~(i <= Len(frames)) /\ i - Len(frames) \in DOMAIN new /\ From(i, place[i - Len(frames)])
      BY <1>5, <2>3
    <3>2. ~Kept(j)
      BY <1>2, <2>0, <3>1
    <3>3. j - Len(frames) \in DOMAIN new /\ From(j, place[j - Len(frames)])
      BY <1>5, <3>2
    <3>4. i - Len(frames) < j - Len(frames)
      BY <1>2, <2>0
    <3>5. place[i - Len(frames)] < place[j - Len(frames)]
      BY <1>1, <3>1, <3>3, <3>4
    <3> QED
      BY <3>1, <3>3, <3>5 DEF Orderly
  <2> HIDE DEF Kept, From
  <2> QED
    BY <1>5, <2>1, <2>2, <2>3
<1>7. \A j \in DOMAIN queue' : j + BatchLength \in DOMAIN queue /\ BatchLength < j + BatchLength /\ queue'[j] = queue[j + BatchLength]
  <2>1. BatchLength \in 0 .. Len(queue) /\ Len(queue) \in Nat /\ queue \in Seq(BusFrame) /\ DOMAIN queue = 1 .. Len(queue)
    BY BatchFits, QueueTyped
  <2>2. queue' = SubSeq(queue, BatchLength + 1, Len(queue))
    BY DEF ReceiveAll
  <2> HIDE DEF BatchLength
  <2> DEFINE b == BatchLength
  <2>3. /\ \A i \in b + 1 .. Len(queue) : queue[i] \in BusFrame
        /\ b + 1 \in Int /\ Len(queue) \in Int
    BY <2>1, ElementOfSeq
  <2>4. /\ queue' \in Seq(BusFrame)
        /\ Len(queue') = IF b + 1 <= Len(queue) THEN Len(queue) - (b + 1) + 1 ELSE 0
        /\ \A i \in 1 .. Len(queue) - (b + 1) + 1 : queue'[i] = queue[b + 1 + i - 1]
    BY <2>1, <2>2, <2>3, SubSeqProperties
  <2>5. DOMAIN queue' = 1 .. Len(queue')
    BY <2>4, LenProperties
  <2>6. ASSUME NEW j \in DOMAIN queue' PROVE j + b \in DOMAIN queue /\ b < j + b /\ queue'[j] = queue[j + b]
    <3>1. j \in 1 .. Len(queue) - (b + 1) + 1 /\ b + 1 + j - 1 = j + b
      <4> DEFINE left == Len(queue')
                 all == Len(queue)
      <4>1. b \in Nat /\ all \in Nat
        BY <2>1
      <4>2. left = IF b + 1 <= all THEN all - (b + 1) + 1 ELSE 0
        BY <2>4
      <4>3. j \in 1 .. left
        BY <2>5
      <4> HIDE DEF b, left, all
      <4>4. j \in 1 .. all - (b + 1) + 1 /\ b + 1 + j - 1 = j + b
        BY <4>1, <4>2, <4>3
      <4> QED
        BY <4>4 DEF all
    <3>2. queue'[j] = queue[b + 1 + j - 1]
      BY <2>4, <3>1
    <3>3. j + b \in 1 .. Len(queue) /\ b < j + b
      BY <2>1, <3>1
    <3> QED
      BY <2>1, <3>1, <3>2, <3>3
  <2> QED
    BY <2>6
<1>8. BatchLength \in Nat /\ DOMAIN queue \subseteq Nat
  <2>1. BatchLength \in 0 .. Len(queue) /\ Len(queue) \in Nat /\ DOMAIN queue = 1 .. Len(queue)
    BY BatchFits, QueueTyped
  <2> HIDE DEF BatchLength
  <2> QED
    BY <2>1
<1> HIDE DEF BatchLength
<1>9. Before(r, frames', queue')
  <2> SUFFICES ASSUME NEW i \in DOMAIN frames', NEW j \in DOMAIN queue'
               PROVE  Then(r, frames'[i], queue'[j])
    BY DEF Before
  <2>1. j + BatchLength \in DOMAIN queue /\ BatchLength < j + BatchLength /\ queue'[j] = queue[j + BatchLength]
    BY <1>7
  <2>2. CASE Kept(i)
    BY <2>1, <2>2 DEF Before
  <2>3. ASSUME NEW p, From(i, p) PROVE Then(r, frames'[i], queue'[j])
    <3>1. p < j + BatchLength
      BY <1>8, <2>1, <2>3
    <3> QED
      BY <2>1, <2>3, <3>1 DEF Orderly
  <2> HIDE DEF Kept, From
  <2> QED
    BY <1>5, <2>2, <2>3
<1>10. Before(r, frames', gs)
  <2> SUFFICES ASSUME NEW i \in DOMAIN frames', NEW j \in DOMAIN gs
               PROVE  Then(r, frames'[i], gs[j])
    BY DEF Before
  <2>1. CASE Kept(i)
    BY <2>1 DEF Before
  <2>2. ASSUME NEW p, From(i, p) PROVE Then(r, frames'[i], gs[j])
    BY <2>2 DEF Before
  <2> HIDE DEF Kept, From
  <2> QED
    BY <1>5, <2>1, <2>2
<1>11. ASSUME Older(r, frames), Older(r, queue), NEW j \in DOMAIN frames', frames'[j].from = r.module
       PROVE  frames'[j].n # r.n
  <2>1. CASE Kept(j)
    BY <1>11, <2>1 DEF Older
  <2>2. ASSUME NEW p, From(j, p) PROVE frames'[j].n # r.n
    BY <1>11, <2>2 DEF Older
  <2> HIDE DEF Kept, From
  <2> QED
    BY <1>5, <2>1, <2>2
<1>12. Older(r, frames) /\ Older(r, queue) => Older(r, frames')
  BY <1>11 DEF Older
<1> QED
  BY <1>6, <1>9, <1>10, <1>12

(* A request that has just been sent has no parts anywhere yet.              *)
LEMMA SendOrder ==
  ASSUME PlaceInv, TurnInv, WireInv, CollectInv, LateInv, Send
  PROVE  InTurn(asking', frames', queue', saying'[asking'.module], owed'[asking'.module])
<1>1. /\ Running /\ asking = Nobody /\ asking' = SweepAsks /\ frames' = frames /\ queue' = <<>>
      /\ saying' = saying
  BY DEF Send, Cleared
<1>2. frames' = <<>> /\ DOMAIN <<>> = {}
  BY <1>1, EmptySeq DEF CollectInv
<1>3. asking'.module \in Members /\ asking'.n = sent + 1 /\ sent \in Nat
  BY <1>1, SweepAsksTyped DEF PlaceInv
<1> DEFINE m == asking'.module
<1>4. \A i \in DOMAIN saying[m] : saying[m][i].n # sent + 1
  <2>1. \A i \in DOMAIN saying[m] : saying[m][i].n \in Nat /\ saying[m][i].n <= sent
    <3>1. saying[m] \in Seq(RestOf(m)) /\ \A i \in DOMAIN saying[m] : saying[m][i].n <= sent
      BY <1>3 DEF WireInv, LateInv
    <3>2. \A i \in DOMAIN saying[m] : saying[m][i] \in RestOf(m)
      BY <3>1, LenProperties, ElementOfSeq
    <3> QED
      BY <3>1, <3>2 DEF RestOf, BusFrame
  <2> HIDE DEF m
  <2> QED
    BY <1>3, <2>1
<1>5. \A i \in DOMAIN owed[m] : owed[m][i].n # sent + 1
  <2>1. \A i \in DOMAIN owed[m] : owed[m][i].n \in Nat /\ owed[m][i].n <= sent
    <3>1. owed[m] \in Seq(Owing(m)) /\ \A i \in DOMAIN owed[m] : owed[m][i].n <= sent
      BY <1>3 DEF WireInv, LateInv
    <3>2. \A i \in DOMAIN owed[m] : owed[m][i] \in Owing(m)
      BY <3>1, LenProperties, ElementOfSeq
    <3> QED
      BY <3>1, <3>2 DEF Owing, SweepRequests
  <2> HIDE DEF m
  <2> QED
    BY <1>3, <2>1
<1>6. ASSUME NEW i \in DOMAIN owed'[m], owed'[m][i].n = asking'.n PROVE i = Len(owed'[m])
  <2>1. ~ \E j \in DOMAIN owed[m] : owed'[m][i] = owed[m][j]
    BY <1>3, <1>5, <1>6
  <2> QED
    BY <1>3, <2>1, SendOwes
<1>7. Older(asking', saying'[m])
  BY <1>1, <1>3, <1>4 DEF Older
<1>8. Older(asking', <<>>) /\ Orderly(asking', <<>>) /\ Before(asking', <<>>, <<>>) /\ Before(asking', <<>>, saying'[m])
  BY <1>2 DEF Older, Orderly, Before
<1> HIDE DEF m
<1>9. InTurn(asking', frames', queue', saying'[m], owed'[m])
  BY <1>1, <1>2, <1>6, <1>7, <1>8 DEF InTurn
<1> QED
  BY <1>9 DEF m

(* Parts keep their order when they are collected,                           *)
LEMMA CollectOrder ==
  ASSUME WireInv, CollectInv, Collects, broken' = 0, NEW gs, NEW due, InTurn(asking, frames, queue, gs, due)
  PROVE  InTurn(asking, frames', queue', gs, due)
<1>1. Reads /\ broken \in Nat
  BY DEF Collects, CollectInv
<1>2. /\ Orderly(asking, queue') /\ Before(asking, queue', gs) /\ Before(asking, frames, queue')
      /\ due # <<>> => Older(asking, queue')
  BY <1>1, ReadsOrder DEF InTurn
<1>3. CASE frames' = frames
  BY <1>2, <1>3 DEF InTurn
<1>4. CASE ReceiveAll
  <2>1. /\ Orderly(asking, frames') /\ Before(asking, frames', queue') /\ Before(asking, frames', gs)
        /\ due # <<>> => Older(asking, frames')
    BY <1>4, BatchOrder DEF InTurn
  <2> QED
    BY <1>2, <2>1 DEF InTurn
<1>5. broken' # broken + 1
  BY <1>1
<1> QED
  BY <1>3, <1>4, <1>5 DEF Collects

(* when the module asked begins its answer,                                  *)
LEMMA AnswerOrder ==
  ASSUME PlaceInv, WireInv, CollectInv, NEW m \in Members, Speak(m), m = asking.module,
         InTurn(asking, frames, queue, saying[m], owed[m])
  PROVE  InTurn(asking, frames', queue', saying'[m], owed'[m])
<1>1. owed[m] # <<>> /\ saying[m] = <<>> /\ owed' = [owed EXCEPT ![m] = Tail(owed[m])]
  BY SpeakSays
<1>2. /\ owed[m] \in Seq(Owing(m)) /\ DOMAIN owed = Members /\ DOMAIN saying = Members
      /\ owed[m][1].module = m
  BY <1>1, SpokenTyped DEF WireInv, Owing, SweepRequests
<1>3. owed'[m] = Tail(owed[m])
  BY <1>1, <1>2
<1>4. /\ 1 \in DOMAIN owed[m] /\ Len(owed'[m]) = Len(owed[m]) - 1 /\ Len(owed[m]) \in Nat
      /\ owed'[m] \in Seq(Owing(m))
      /\ \A i \in DOMAIN owed'[m] : i \in Nat /\ i + 1 \in DOMAIN owed[m] /\ owed'[m][i] = owed[m][i + 1]
  <2>1. Tail(owed[m]) \in Seq(Owing(m)) /\ Len(owed[m]) \in Nat
    BY <1>1, <1>2, HeadTailProperties, LenProperties
  <2>2. DOMAIN Tail(owed[m]) = 1 .. Len(Tail(owed[m]))
    BY <2>1, LenProperties
  <2> QED
    BY <1>1, <1>2, <1>3, <2>1, <2>2, TailOf
<1>5. ASSUME NEW i \in DOMAIN owed'[m], owed'[m][i].n = asking.n PROVE i = Len(owed'[m])
  <2>1. i + 1 = Len(owed[m])
    BY <1>4, <1>5 DEF InTurn
  <2> QED
    BY <1>4, <2>1
<1>6. Older(asking, frames) /\ Older(asking, queue)
  BY <1>1 DEF InTurn
<1>7. owed[m][1].n = asking.n => owed'[m] = <<>>
  <2>1. ASSUME owed[m][1].n = asking.n PROVE Len(owed'[m]) = 0
    <3>1. 1 = Len(owed[m])
      BY <1>4, <2>1 DEF InTurn
    <3> QED
      BY <1>4, <3>1
  <2> QED
    BY <1>4, <2>1, EmptySeq
<1>8. CASE UNCHANGED <<saying, queue, frames>>
  BY <1>5, <1>6, <1>8, <1>1, EmptySeq DEF InTurn, Older
<1>9. ASSUME NEW f, NEW rest, ReplyOf(owed[m][1], f, rest), SaysNext(m, f, rest)
      PROVE  InTurn(asking, frames', queue', saying'[m], owed'[m])
  <2>1. frames' = frames /\ saying'[m] = rest
    BY <1>2, <1>9 DEF SaysNext
  <2>2. /\ f \in BusFrame /\ f.part < 2 /\ f.part \in 0 .. 2 /\ f.n = owed[m][1].n /\ f.from = m
        /\ \A i \in DOMAIN rest : rest[i].from = m /\ rest[i].n = owed[m][1].n /\ rest[i].part = 2
    BY <1>2, <1>9 DEF ReplyOf, BusFrame
  <2>3. Before(asking, frames, rest) /\ Before(asking, queue, rest)
    BY <1>6 DEF Before, Older, Then
  <2>4. owed'[m] # <<>> => Older(asking, rest)
    BY <1>7, <2>2 DEF Older
  <2>5. CASE queue' = queue
    BY <1>5, <1>6, <2>1, <2>3, <2>4, <2>5 DEF InTurn
  <2>6. ASSUME NEW g, Joins(g), g.from = f.from, g.n = f.n, g.part = f.part
        PROVE  InTurn(asking, frames', queue', saying'[m], owed'[m])
    <3>1. /\ \A i \in DOMAIN queue : Then(asking, queue[i], g)
          /\ \A i \in DOMAIN frames : Then(asking, frames[i], g)
      BY <1>6 DEF Older, Then
    <3>2. \A i \in DOMAIN rest : Then(asking, g, rest[i])
      BY <2>2, <2>6 DEF Then
    <3>3. owed'[m] # <<>> => g.n # asking.n
      BY <1>7, <2>2, <2>6
    <3>4. /\ Orderly(asking, queue') /\ Before(asking, frames, queue') /\ Before(asking, queue', rest)
          /\ owed'[m] # <<>> => Older(asking, queue')
      BY <1>6, <2>3, <2>6, <3>1, <3>2, <3>3, JoinsOrder DEF InTurn
    <3> QED
      BY <1>5, <1>6, <2>1, <2>3, <2>4, <3>4 DEF InTurn
  <2> QED
    BY <1>9, <2>2, <2>5, <2>6, SaysJoins
<1> QED
  BY <1>8, <1>9, SpeakSays

(* and when it ends it.                                                      *)
LEMMA SecondOrder ==
  ASSUME PlaceInv, WireInv, CollectInv, LateInv, NEW m \in Members, SpeakOn(m), m = asking.module,
         InTurn(asking, frames, queue, saying[m], owed[m])
  PROVE  InTurn(asking, frames', queue', saying'[m], owed'[m])
<1> DEFINE f == saying[m][1]
<1>1. 1 \in DOMAIN saying[m] /\ f \in BusFrame /\ f.from = m /\ SaysNext(m, f, <<>>) /\ owed' = owed
  BY SpeakOnSays
<1>2. frames' = frames /\ saying'[m] = <<>>
  BY <1>1 DEF SaysNext, WireInv
<1>3. DOMAIN <<>> = {}
  BY EmptySeq
<1>4. Before(asking, frames, <<>>) /\ Before(asking, queue, <<>>) /\ Older(asking, <<>>)
  BY <1>3 DEF Before, Older
<1>5. /\ \A i \in DOMAIN queue : Then(asking, queue[i], f)
      /\ \A i \in DOMAIN frames : Then(asking, frames[i], f)
      /\ owed[m] # <<>> => f.n # asking.n
  BY <1>1 DEF InTurn, Before, Older
<1> HIDE DEF f
<1>6. CASE queue' = queue
  BY <1>1, <1>2, <1>4, <1>6 DEF InTurn
<1>7. ASSUME NEW g, Joins(g), g.from = f.from, g.n = f.n, g.part = f.part
      PROVE  InTurn(asking, frames', queue', saying'[m], owed'[m])
  <2>1. /\ \A i \in DOMAIN queue : Then(asking, queue[i], g)
        /\ \A i \in DOMAIN frames : Then(asking, frames[i], g)
        /\ \A i \in DOMAIN <<>> : Then(asking, g, <<>>[i])
        /\ owed[m] # <<>> => g.n # asking.n
    BY <1>3, <1>5, <1>7 DEF Then
  <2>2. /\ Orderly(asking, queue') /\ Before(asking, frames, queue') /\ Before(asking, queue', <<>>)
        /\ owed[m] # <<>> => Older(asking, queue')
    BY <1>4, <1>7, <2>1, JoinsOrder DEF InTurn
  <2> QED
    BY <1>1, <1>2, <1>4, <2>2 DEF InTurn
<1> QED
  BY <1>1, <1>6, <1>7, SaysJoins

(* What comes from elsewhere does not matter. *)
LEMMA OtherOrder ==
  ASSUME WireInv, NEW g, Joins(g), g.from # asking.module, NEW gs, NEW due,
         InTurn(asking, frames, queue, gs, due)
  PROVE  InTurn(asking, frames, queue', gs, due)
<1>1. /\ \A i \in DOMAIN queue : Then(asking, queue[i], g)
      /\ \A i \in DOMAIN frames : Then(asking, frames[i], g)
      /\ \A i \in DOMAIN gs : Then(asking, g, gs[i])
  BY DEF Then
<1> QED
  BY <1>1, JoinsOrder DEF InTurn

(* While nothing is lost no step changes the order of the parts of an        *)
(* answer.                                                                   *)
LEMMA StepOrder ==
  ASSUME PlaceInv, TurnInv, WireInv, CollectInv, LateInv, OrderInv, [SweepNext]_sweepVars
  PROVE  OrderInv'
<1> SUFFICES ASSUME asking' # Nobody, broken' = 0
             PROVE  InTurn(asking', frames', queue', saying'[asking'.module], owed'[asking'.module])
  BY DEF OrderInv
<1>0. broken \in Nat /\ broken + 1 # 0
  BY DEF CollectInv
<1>1. CASE \E l \in {"vxdiag", "elm"}, c \in Commands : Run(l, c)
  BY <1>1 DEF Run, PlaceInv
<1>2. CASE Send
  BY <1>2, SendOrder
<1>3. CASE RequestOver
  BY <1>3 DEF RequestOver
<1> DEFINE m == asking.module
<1>4. ASSUME asking' = asking, broken' \in {broken, broken + 1}
      PROVE  InTurn(asking, frames, queue, saying[m], owed[m]) /\ m \in Members
  BY <1>0, <1>4 DEF OrderInv, PlaceInv, SweepRequests
<1>5. CASE Collects
  <2>1. UNCHANGED <<asking, saying, owed>> /\ broken' \in {broken, broken + 1}
    BY <1>5 DEF Collects, Going
  <2>2. InTurn(asking, frames, queue, saying[m], owed[m])
    BY <1>4, <2>1
  <2>3. InTurn(asking, frames', queue', saying[m], owed[m])
    BY <1>5, <2>2, CollectOrder
  <2> QED
    BY <2>1, <2>3
<1>6. CASE Wire
  <2>1. UNCHANGED <<asking, saying, owed, frames, broken>> /\ (queue' = queue \/ Chatter)
    BY <1>6 DEF Wire, Going
  <2>2. InTurn(asking, frames, queue, saying[m], owed[m]) /\ m \in Members
    BY <1>4, <2>1
  <2>3. CASE queue' = queue
    BY <2>1, <2>2, <2>3
  <2>4. CASE Chatter
    <3>1. PICK g : Joins(g) /\ g.from = Nobody
      BY <2>4, ChatterJoins
    <3>2. InTurn(asking, frames, queue', saying[m], owed[m])
      BY <2>2, <3>1, OtherOrder, SweepAssumption
    <3> QED
      BY <2>1, <3>2
  <2> QED
    BY <2>1, <2>3, <2>4
<1>7. ASSUME NEW k \in Members, NEW f \in BusFrame, NEW rest, SaysNext(k, f, rest), f.from = k, k # m,
             owed'[m] = owed[m]
      PROVE  InTurn(asking', frames', queue', saying'[asking'.module], owed'[asking'.module])
  <2>1. /\ asking' = asking /\ broken' \in {broken, broken + 1} /\ frames' = frames
        /\ saying' = [saying EXCEPT ![k] = rest]
    BY <1>7 DEF SaysNext
  <2>2. InTurn(asking, frames, queue, saying[m], owed[m]) /\ m \in Members
    BY <1>4, <2>1
  <2>3. saying'[m] = saying[m]
    BY <1>7, <2>1, <2>2 DEF WireInv
  <2>4. CASE queue' = queue
    BY <1>7, <2>1, <2>2, <2>3, <2>4
  <2>5. ASSUME NEW g, Joins(g), g.from = f.from
        PROVE  InTurn(asking', frames', queue', saying'[asking'.module], owed'[asking'.module])
    <3>1. InTurn(asking, frames, queue', saying[m], owed[m])
      BY <1>7, <2>2, <2>5, OtherOrder
    <3> QED
      BY <1>7, <2>1, <2>3, <3>1
  <2> QED
    BY <1>7, <2>4, <2>5, SaysJoins
<1>8. ASSUME NEW k \in Members, Speak(k)
      PROVE  InTurn(asking', frames', queue', saying'[asking'.module], owed'[asking'.module])
  <2>1. asking' = asking /\ broken' \in {broken, broken + 1}
    BY <1>8, SpeakSays DEF SaysNext
  <2>2. InTurn(asking, frames, queue, saying[m], owed[m]) /\ m \in Members
    BY <1>4, <2>1
  <2>3. CASE k = m
    BY <1>8, <2>1, <2>2, <2>3, AnswerOrder
  <2>4. CASE k # m
    <3>1. owed'[m] = owed[m]
      BY <1>8, <2>2, <2>4, SpeakSays DEF WireInv
    <3>2. ASSUME NEW f, NEW rest, ReplyOf(owed[k][1], f, rest), SaysNext(k, f, rest)
          PROVE  InTurn(asking', frames', queue', saying'[asking'.module], owed'[asking'.module])
      <4>1. f \in BusFrame /\ f.from = k
        BY <1>8, <3>2, SpeakSays, SpokenTyped DEF ReplyOf, Owing, SweepRequests
      <4> QED
        BY <1>7, <2>4, <3>1, <3>2, <4>1
    <3>3. CASE UNCHANGED <<link, command, turn, step, asking, sent, report, saying, queue, frames, broken>>
      BY <2>2, <3>1, <3>3
    <3> QED
      BY <1>8, <3>2, <3>3, SpeakSays
  <2> QED
    BY <2>3, <2>4
<1>9. ASSUME NEW k \in Members, SpeakOn(k)
      PROVE  InTurn(asking', frames', queue', saying'[asking'.module], owed'[asking'.module])
  <2>1. asking' = asking /\ broken' \in {broken, broken + 1} /\ owed' = owed
    BY <1>9, SpeakOnSays DEF SaysNext
  <2>2. InTurn(asking, frames, queue, saying[m], owed[m]) /\ m \in Members
    BY <1>4, <2>1
  <2>3. CASE k = m
    BY <1>9, <2>1, <2>2, <2>3, SecondOrder
  <2>4. CASE k # m
    <3>1. saying[k][1] \in BusFrame /\ saying[k][1].from = k /\ SaysNext(k, saying[k][1], <<>>)
      BY <1>9, SpeakOnSays
    <3> QED
      BY <1>7, <2>1, <2>4, <3>1
  <2> QED
    BY <2>3, <2>4
<1> QED
  BY <1>1, <1>2, <1>3, <1>5, <1>6, <1>8, <1>9, StepKinds

(* What is lost is lost for the rest of the command. *)
LEMMA BrokenStays ==
  ASSUME WireInv, CollectInv, LateInv, [SweepNext]_sweepVars, broken' = 0, NEW e \in report', e \in report
  PROVE  broken = 0
<1>0. broken \in Nat
  BY DEF CollectInv
<1>1. ~ \E l \in {"vxdiag", "elm"}, c \in Commands : Run(l, c)
  BY DEF Run
<1>2. broken' \in {broken, broken + 1}
  <2>1. CASE Send \/ RequestOver \/ Collects \/ Wire
    BY <2>1 DEF Send, RequestOver, Collects, Wire
  <2>2. ASSUME NEW m \in Members, Speak(m) \/ SpeakOn(m) PROVE broken' \in {broken, broken + 1}
    BY <2>2, SpeakSays, SpeakOnSays DEF SaysNext
  <2> QED
    BY <1>1, <2>1, <2>2, StepKinds
<1> QED
  BY <1>0, <1>2

(* A list or a block without a loss is the one answer, from its first part on. *)
LEMMA JoinIsTheAnswer ==
  ASSUME CollectInv, AnswersOnce(asking, frames), Orderly(asking, frames),
         NEW i \in DOMAIN Join(frames, asking)
  PROVE  Join(frames, asking)[i].part = i /\ Join(frames, asking)[i].n = asking.n
<1> DEFINE js == Join(frames, asking)
<1>1. /\ js \in Seq(BusFrame) /\ frames \in Seq(BusFrame)
      /\ js # <<>> => IsHead(js[1], asking)
  BY JoinedFacts DEF CollectInv
<1>2. PICK place :
        /\ place \in [DOMAIN js -> DOMAIN frames]
        /\ \A k \in DOMAIN js : js[k] = frames[place[k]] /\ frames[place[k]].from = asking.module
        /\ \A k, l \in DOMAIN js : k < l => place[k] < place[l]
  BY <1>1, JoinedFacts
<1> HIDE DEF js
<1>3. /\ DOMAIN js = 1 .. Len(js) /\ Len(js) \in Nat
      /\ \A k \in DOMAIN js : js[k] \in BusFrame /\ js[k].part \in 0 .. 2
  <2>1. DOMAIN js = 1 .. Len(js) /\ Len(js) \in Nat
    BY <1>1, LenProperties
  <2>2. \A k \in DOMAIN js : js[k] \in BusFrame
    BY <1>1, <2>1, ElementOfSeq
  <2> QED
    BY <2>1, <2>2 DEF BusFrame
<1>4. i \in 1 .. Len(js)
  BY <1>3 DEF js
<1>5. 1 \in DOMAIN js /\ js # <<>> /\ i \in DOMAIN js /\ i \in Nat
  <2>1. 1 \in 1 .. Len(js)
    BY <1>3, <1>4
  <2> QED
    BY <1>3, <1>4, <2>1, EmptySeq
<1>6. IsHead(js[1], asking)
  BY <1>1, <1>5
<1>7. js[1].n = asking.n /\ js[1].part = 1
  <2>1. place[1] \in DOMAIN frames /\ js[1] = frames[place[1]]
    BY <1>2, <1>5
  <2> QED
    BY <1>6, <2>1 DEF AnswersOnce, IsHead
<1>8. \A k, l \in DOMAIN js : k < l => (js[k].n = asking.n => js[l].n = asking.n /\ js[k].part < js[l].part)
  BY <1>2 DEF Orderly, Then
<1>9. CASE i = 1
  BY <1>7, <1>9 DEF js
<1>10. CASE i # 1
  <2>1. 1 < i
    BY <1>4, <1>10
  <2>2. js[i].n = asking.n /\ 1 < js[i].part
    BY <1>5, <1>7, <1>8, <2>1
  <2>3. js[i].part = 2
    BY <1>3, <1>5, <2>2
  <2>4. CASE i = 2
    BY <2>2, <2>3, <2>4 DEF js
  <2>5. CASE 2 < i
    <3>1. 2 \in DOMAIN js
      BY <1>3, <1>4, <2>5
    <3>2. js[2].n = asking.n /\ 1 < js[2].part /\ js[2].part < js[i].part
      BY <1>5, <1>7, <1>8, <2>5, <3>1
    <3> QED
      BY <1>3, <2>3, <3>1, <3>2
  <2> QED
    BY <1>5, <2>1, <2>4, <2>5
<1> QED
  BY <1>9, <1>10

(* No step reports what another module, or an earlier turn, said.            *)
LEMMA StepOwn ==
  ASSUME PlaceInv, TurnInv, WireInv, CollectInv, LateInv, OnceInv, OrderInv, ReportsOwn, [SweepNext]_sweepVars
  PROVE  ReportsOwn'
<1> SUFFICES ASSUME NEW e \in report', e.service \in {"list", "block"}, e.frames # <<>>
             PROVE  /\ IsHead(e.frames[1], e)
                    /\ \A i \in DOMAIN e.frames :
                         /\ e.frames[i].from = e.module
                         /\ broken' = 0 /\ e.state = "read" /\ IsInjective(Blocks) =>
                              e.frames[i].part = i /\ e.frames[i].n = e.n
  BY DEF ReportsOwn
<1>1. CASE e \in report
  <2>1. broken' = 0 => broken = 0
    BY <1>1, BrokenStays
  <2> QED
    BY <1>1, <2>1 DEF ReportsOwn
<1>2. CASE e \notin report
  <2> DEFINE js == Join(frames, asking)
  <2>1. asking # Nobody /\ turn > 0 /\ frames \in Seq(BusFrame)
    BY <1>2, ReportsWhat DEF PlaceInv, CollectInv
  <2>2. asking.service = IF step = "confirm" THEN "list" ELSE step
    BY <2>1 DEF TurnInv
  <2>3. step \in {"list", "confirm", "block"} /\ Entered(e, js) /\ (step = "confirm" => e.state # "read")
    BY <1>2, <2>2, ReportsWhat DEF Entered
  <2>4. /\ e.frames = js /\ e.module = asking.module /\ e.service = asking.service /\ e.id = asking.id
        /\ e.n = asking.n /\ js # <<>>
    BY <2>3 DEF Entered
  <2>5. IsHead(e.frames[1], e)
    <3>1. IsHead(js[1], asking)
      BY <2>1, <2>4, JoinedFacts
    <3> QED
      BY <2>4, <3>1 DEF IsHead
  <2>6. \A i \in DOMAIN js : js[i].from = asking.module
    <3>1. PICK place :
            /\ place \in [DOMAIN js -> DOMAIN frames]
            /\ \A k \in DOMAIN js : js[k] = frames[place[k]] /\ frames[place[k]].from = asking.module
            /\ \A k, l \in DOMAIN js : k < l => place[k] < place[l]
      BY <2>1, JoinedFacts
    <3> QED
      BY <3>1
  <2>7. ASSUME broken' = 0, e.state = "read", IsInjective(Blocks), NEW i \in DOMAIN js
        PROVE  js[i].part = i /\ js[i].n = asking.n
    <3>1. step = FirstStep(command) /\ step \in {"list", "block"}
      BY <2>1, <2>3, <2>7 DEF TurnInv
    <3>2. AnswersOnce(asking, frames)
      BY <2>1, <2>7, <3>1 DEF OnceInv
    <3>3. broken = 0
      <4>1. broken' \in {broken, broken + 1} /\ broken \in Nat
        <5>1. CASE \E l \in {"vxdiag", "elm"}, c \in Commands : Run(l, c)
          BY <5>1 DEF Run
        <5>2. CASE Send \/ RequestOver \/ Collects \/ Wire
          BY <5>2 DEF Send, RequestOver, Collects, Wire, CollectInv
        <5>3. ASSUME NEW m \in Members, Speak(m) \/ SpeakOn(m) PROVE broken' \in {broken, broken + 1}
          BY <5>3, SpeakSays, SpeakOnSays DEF SaysNext
        <5> QED
          BY <5>1, <5>2, <5>3, StepKinds DEF CollectInv
      <4> QED
        BY <2>7, <4>1
    <3>4. Orderly(asking, frames)
      BY <2>1, <3>3 DEF OrderInv, InTurn
    <3> QED
      BY <3>2, <3>4, JoinIsTheAnswer
  <2> HIDE DEF js
  <2> QED
    BY <2>4, <2>5, <2>6, <2>7
<1> QED
  BY <1>1, <1>2

-----------------------------------------------------------------------------
(* The inductive invariant of FreshFrames and ReportsOwn.                    *)
FramesInv ==
  SweepInv /\ CollectInv /\ LateInv /\ PastInv /\ OnceInv /\ OrderInv /\ FreshFrames /\ ReportsOwn

LEMMA FramesBegin == SweepInit => FramesInv
<1> SUFFICES ASSUME SweepInit PROVE FramesInv
  OBVIOUS
<1>1. SweepInv
  BY SweepBegins
<1>2. CollectInv
  BY EmptySeq DEF SweepInit, CollectInv
<1>3. LateInv
  BY EmptySeq DEF SweepInit, LateInv
<1>4. PastInv /\ OnceInv /\ OrderInv /\ FreshFrames /\ ReportsOwn
  BY DEF SweepInit, PastInv, OnceInv, OrderInv, FreshFrames, ReportsOwn
<1> QED
  BY <1>1, <1>2, <1>3, <1>4 DEF FramesInv

LEMMA FramesInvariance == SweepSpec => []FramesInv
<1>1. FramesInv /\ [SweepNext]_sweepVars => FramesInv'
  BY StepCounts, StepHonest, StepClaims, StepCollect, StepLate, StepPast, StepOnce, StepOrder, StepFresh, StepOwn
  DEF FramesInv, SweepInv
<1> QED
  BY FramesBegin, <1>1, PTL DEF SweepSpec

(* What a sweep shows as the answer to a request came in after that request was     *)
(* sent: Send empties the receive queue, whatever the modules say late.      *)
THEOREM SweepsFresh == SweepSpec => []FreshFrames
<1>1. FramesInv => FreshFrames
  BY DEF FramesInv
<1> QED
  BY <1>1, FramesInvariance, PTL

(* A list or a block that is shown is made of frames of the module asked and begins *)
(* with the head of an answer of that kind; when nothing was lost or cut, and *)
(* no block is asked for twice, its frames are the parts of the one answer to *)
(* this request, in their order, for any number of modules that share the bus. *)
THEOREM SweepsReportOwn == SweepSpec => []ReportsOwn
<1>1. FramesInv => ReportsOwn
  BY DEF FramesInv
<1> QED
  BY <1>1, FramesInvariance, PTL

-----------------------------------------------------------------------------
(* Types *)

(* What SweepInv leaves open of the types. *)
RunInv ==
  /\ link \in {"vxdiag", "elm"} /\ silent \in BOOLEAN /\ raised \in BOOLEAN
  /\ visited \in 0 .. SweepTurns(command) /\ wiped \subseteq Members

(* A turn is visited when the first thing is said of it. *)
LEMMA TellTyped ==
  ASSUME PlaceInv, TurnInv, RunInv, Running, NEW e, Tell(e)
  PROVE  visited' \in 0 .. SweepTurns(command)
<1>1. command \in Commands /\ turn \in 1 .. SweepTurns(command) /\ SweepTurns(command) \in Nat
  BY TurnsExist DEF PlaceInv, Running
<1>2. report = {} => visited = turn - 1
  BY <1>1 DEF TurnInv
<1> QED
  BY <1>1, <1>2 DEF Tell, RunInv

(* The end of a request leaves the types alone. *)
LEMMA EndsTyped ==
  ASSUME PlaceInv, TurnInv, RunInv, Listening, wiped' \subseteq Members,
         TransportFails \/ (Raise /\ Done) \/ \E result : SweepReturns(result)
  PROVE  RunInv'
<1>1. UNCHANGED <<link, command, silent>> /\ raised' \in BOOLEAN
  BY DEF TransportFails, SweepReturns, Done, Raise, NextModule, DtcRead, ClearRead, IdentityRead, DumpRead,
         DiscoverRead, VerifyRead, MemoryRead, Told, RunInv
<1>2. visited' = visited \/ \E e : Tell(e)
  BY DEF TransportFails, SweepReturns, Raise, NextModule, DtcRead, ClearRead, IdentityRead, DumpRead,
         DiscoverRead, VerifyRead, MemoryRead, Told
<1>3. visited' \in 0 .. SweepTurns(command)
  BY <1>2, TellTyped DEF RunInv, Listening
<1> QED
  BY <1>1, <1>3 DEF RunInv

LEMMA StepTyped ==
  ASSUME PlaceInv, TurnInv, RunInv, [SweepNext]_sweepVars
  PROVE  RunInv'
<1>1. CASE \E l \in {"vxdiag", "elm"}, c \in Commands : Run(l, c)
  <2>1. /\ link' \in {"vxdiag", "elm"} /\ command' \in Commands /\ silent' = FALSE /\ raised' = FALSE
        /\ visited' = 0 /\ wiped' = {}
    BY <1>1 DEF Run
  <2>2. SweepTurns(command') \in Nat
    BY <2>1, TurnsExist
  <2>3. SweepTurns(command)' = SweepTurns(command')
    BY DEF SweepTurns
  <2>4. 0 \in 0 .. SweepTurns(command')
    BY <2>2
  <2> QED
    BY <2>1, <2>3, <2>4 DEF RunInv
<1>2. CASE Send \/ ReceiveAll \/ Chatter \/ Prompt \/ UNCHANGED sweepVars
  BY <1>2 DEF Send, ReceiveAll, Chatter, Prompt, sweepVars, sweep, cars, RunInv
<1>3. CASE ReceiveOne
  <2>1. Listening /\ wiped' = wiped
    BY <1>3 DEF ReceiveOne, cars
  <2>2. CASE UNCHANGED <<link, command, silent, raised, visited>>
    BY <2>1, <2>2 DEF RunInv
  <2>3. CASE \E result : SweepReturns(result)
    BY <2>1, <2>3, EndsTyped DEF RunInv
  <2> QED
    BY <1>3, <2>2, <2>3 DEF ReceiveOne
<1>4. CASE SweepTimeout \/ LinkFails
  <2>1. Listening /\ wiped' = wiped
    BY <1>4 DEF SweepTimeout, LinkFails, cars
  <2>2. TransportFails \/ (Raise /\ Done) \/ \E result : SweepReturns(result)
    BY <1>4 DEF SweepTimeout, LinkFails, ValueTimeout, ClearTimeout, CollectEnds, RawEnds
  <2> QED
    BY <2>1, <2>2, EndsTyped DEF RunInv
<1>5. CASE ReadCut
  <2>1. Listening /\ wiped' = wiped
    BY <1>5 DEF ReadCut
  <2>2. (Raise /\ Done) \/ UNCHANGED <<link, command, silent, raised, visited>>
    BY <1>5 DEF ReadCut
  <2> QED
    BY <2>1, <2>2, EndsTyped DEF RunInv
<1>6. ASSUME NEW m \in Members, Speak(m) \/ SpeakOn(m) PROVE RunInv'
  BY <1>6 DEF Speak, SpeakOn, Emit, sweep, RunInv
<1> QED
  BY <1>1, <1>2, <1>3, <1>4, <1>5, <1>6 DEF SweepNext, SweepStep, SweepCars

(* Every variable of a sweep has its type, for any bus. *)
THEOREM SweepTypeCorrect == SweepSpec => []SweepTypeOK
<1>1. SweepInit => RunInv
  <2> SUFFICES ASSUME SweepInit PROVE RunInv
    OBVIOUS
  <2>1. command \in Commands
    BY DEF SweepInit, Commands
  <2>2. SweepTurns(command) \in Nat
    BY <2>1, TurnsExist
  <2>3. 0 \in 0 .. SweepTurns(command)
    BY <2>2
  <2> QED
    BY <2>3 DEF SweepInit, RunInv
<1>2. SweepInv /\ RunInv /\ [SweepNext]_sweepVars => RunInv'
  BY StepTyped DEF SweepInv
<1>3. FramesInv /\ RunInv => SweepTypeOK
  <2> SUFFICES ASSUME FramesInv, RunInv PROVE SweepTypeOK
    OBVIOUS
  <2>1. ASSUME NEW m \in Members
        PROVE  /\ \A i \in DOMAIN owed[m] : owed[m][i].module = m
               /\ \A i \in DOMAIN saying[m] : saying[m][i].from = m
    <3>1. owed[m] \in Seq(Owing(m)) /\ saying[m] \in Seq(RestOf(m))
      BY DEF FramesInv, SweepInv, WireInv
    <3>2. /\ \A i \in DOMAIN owed[m] : owed[m][i] \in Owing(m)
          /\ \A i \in DOMAIN saying[m] : saying[m][i] \in RestOf(m)
      BY <3>1, ElementOfSeq, LenProperties
    <3> QED
      BY <3>2 DEF Owing, RestOf, SweepRequests
  <2>2. asking # Nobody => turn > 0 /\ asking.module \in Members
    BY DEF FramesInv, SweepInv, PlaceInv, SweepRequests
  <2>3. (frames # <<>> => asking # Nobody) /\ broken \in Nat
    BY DEF FramesInv, CollectInv
  <2> QED
    BY <2>1, <2>2, <2>3 DEF FramesInv, SweepInv, PlaceInv, WireInv, RunInv, SweepTypeOK
<1> QED
  BY <1>1, <1>2, <1>3, SweepInvariance, FramesInvariance, PTL DEF SweepSpec
=============================================================================
