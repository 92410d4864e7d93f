--------------------------- MODULE BlockReadProofs ---------------------------
(***************************************************************************)
(* BlockRead for blocks of any length, any number of attempts and any      *)
(* losses: type correctness, what a block may hold, that a clean block is  *)
(* a prefix of what was sent, and that the retry keeps the best in hand.   *)
(*                                                                         *)
(* The properties speak of results; IInv speaks of the block being joined, *)
(* the one kept, and the order of what is still on the wire.               *)
(***************************************************************************)
EXTENDS BlockRead, TLAPS

(* A block of b: own first frame, nothing of others. *)
Own(data, b) ==
  \A n \in DOMAIN data :
    /\ n = 1 => IsHead(data[n], b)
    /\ data[n].from = "module"
    /\ data[n].block \in {b, None}
    /\ data[n].block = None => data[n].i = 0

(* Answers come in the order asked, so what follows a first frame of the        *)
(* configuration is nothing of the identity.                                 *)
WireInv ==
  /\ \A n \in DOMAIN wire :
       wire[n].from = "module" /\ (wire[n].block = None => wire[n].i = 0)
  /\ block = IdentityBlock => \A n \in DOMAIN wire : wire[n].block # ConfigBlock
  /\ block = ConfigBlock /\ raw # <<>> =>
       \A n \in DOMAIN wire : wire[n].block # IdentityBlock
  /\ \A m, n \in DOMAIN wire :
       m < n /\ wire[m].block = ConfigBlock => wire[n].block # IdentityBlock

(* What is being joined, and what is kept. *)
RawInv ==
  /\ Own(raw, block) /\ Own(best, block)
  /\ raw # <<>> => phase = "collect"
  /\ Contiguous(raw) /\ StartsRight(raw) => IsPrefix(raw)

(* Until the block is returned the kept one is the longest, and there is one    *)
(* when anything was heard.                                                  *)
RetryInv ==
  /\ phase # "done" =>
       /\ Len(best) = longest[block]
       /\ block \in heard => best # <<>>
       /\ result[block] = Nothing
  /\ block = IdentityBlock =>
       longest[ConfigBlock] = 0 /\ ConfigBlock \notin heard /\ result[ConfigBlock] = Nothing

FailedUnheard == \A b \in Blocks : result[b].kind = "failed" => b \notin heard

ResultInv == CleanIsPrefix /\ OwnFrames /\ LongestOfBroken /\ FailedUnheard

(* The terminal is told as it goes, the page at the end; until then every block *)
(* has a result, but for the configuration behind an identity that failed.   *)
ToldInv ==
  /\ caller = "terminal" \/ phase = "done" => told = {b \in Blocks : result[b].kind = "block"}
  /\ phase = "done" => result[block].kind # "none"
  /\ block = ConfigBlock => result[IdentityBlock].kind = "block"

IInv == WireInv /\ RawInv /\ RetryInv /\ ResultInv /\ ToldInv
-----------------------------------------------------------------------------
(* Types *)

LEMMA FrameTypes ==
  /\ Refusal \in Frame /\ Stray \in Frame
  /\ <<>> \in Seq(Frame) /\ <<Refusal>> \in Seq(Frame)
  /\ \A b \in Blocks : Answer(b) \in Seq(Frame)
<1>1. Refusal \in Frame /\ Stray \in Frame
  BY DEF Refusal, Stray, Frame
<1>2. <<>> \in Seq(Frame) /\ <<Refusal>> \in Seq(Frame)
  BY <1>1
<1>3. ASSUME NEW b \in Blocks PROVE Answer(b) \in Seq(Frame)
  <2>1. Final(b) + 1 \in Nat
    BY BlockAssumption
  <2>2. \A n \in 1 .. Final(b) + 1 : [from |-> "module", block |-> b, i |-> n - 1] \in Frame
    BY <2>1 DEF Frame
  <2>3. Answer(b) \in [1 .. Final(b) + 1 -> Frame]
    BY <2>2 DEF Answer
  <2>4. QED
    BY <2>1, <2>3, SMTT(20)
<1>4. QED
  BY <1>1, <1>2, <1>3

LEMMA JoinType ==
  ASSUME NEW data \in Seq(Frame), NEW f \in Frame, NEW b
  PROVE  Join(data, f, b) \in Seq(Frame)
BY DEF Join

LEMMA ReturnType ==
  ASSUME TypeOK, NEW r \in Result, Return(r)
  PROVE  /\ phase' \in {"ask", "collect", "done"} /\ block' \in Blocks
         /\ attempt' \in 1 .. Attempts /\ best' \in Seq(Frame)
         /\ result' \in [Blocks -> Result] /\ told' \subseteq Blocks
BY BlockAssumption DEF TypeOK, Return, Blocks, ReadConfig, PrintBlock

LEMMA TryAgainType ==
  ASSUME TypeOK, NEW kept \in Seq(Frame), TryAgain(kept)
  PROVE  /\ phase' \in {"ask", "collect", "done"} /\ block' \in Blocks
         /\ attempt' \in 1 .. Attempts /\ best' \in Seq(Frame)
         /\ result' \in [Blocks -> Result] /\ told' \subseteq Blocks
<1>1. GiveUp(kept) \in Result
  BY DEF GiveUp, Block, Failed, Result
<1>2. CASE LastAttempt(attempt)
  BY <1>1, <1>2, ReturnType DEF TryAgain
<1>3. CASE ~LastAttempt(attempt)
  BY <1>3, BlockAssumption DEF TryAgain, TypeOK, LastAttempt
<1>4. QED
  BY <1>2, <1>3

LEMMA TypeStep == TypeOK /\ [Next]_vars => TypeOK'
<1> SUFFICES ASSUME TypeOK, [Next]_vars PROVE TypeOK'
  OBVIOUS
<1>1. CASE Ask
  <2>1. PICK arrived \in 0 .. Len(wire), reply \in {<<>>, <<Refusal>>, Answer(block)} :
          wire' = SubSeq(wire, arrived + 1, Len(wire)) \o reply
    BY <1>1 DEF Ask
  <2>2. reply \in Seq(Frame)
    BY FrameTypes DEF TypeOK
  <2>3. SubSeq(wire, arrived + 1, Len(wire)) \in Seq(Frame)
    BY DEF TypeOK
  <2>4. wire' \in Seq(Frame)
    BY <2>1, <2>2, <2>3
  <2>5. QED
    BY <1>1, <2>4 DEF Ask, TypeOK, bounds
<1>2. CASE Receive
  <2>1. Head(wire) \in Frame /\ wire' \in Seq(Frame)
    BY <1>2 DEF Receive, TypeOK
  <2>2. raw' \in Seq(Frame)
    BY <1>2, <2>1, JoinType DEF Receive, Collect, TypeOK
  <2>3. QED
    BY <1>2, <2>1, <2>2 DEF Receive, Collect, TypeOK
<1>3. CASE ReceiveStray
  <2>1. raw' \in Seq(Frame)
    BY <1>3, FrameTypes, JoinType DEF ReceiveStray, Collect, TypeOK
  <2>2. QED
    BY <1>3, <2>1, BlockAssumption DEF ReceiveStray, Collect, TypeOK
<1>4. CASE NoAnswer
  <2>1. TryAgain(best) /\ best \in Seq(Frame)
    BY <1>4 DEF NoAnswer, TypeOK
  <2>2. late' \in 0 .. MaxLate
    BY <1>4, BlockAssumption DEF NoAnswer, Silence, TypeOK
  <2>3. QED
    BY <1>4, <2>1, <2>2, FrameTypes, TryAgainType DEF NoAnswer, Silence, TypeOK
<1>5. CASE ReadBlock
  <2>1. late' \in 0 .. MaxLate
    BY <1>5, BlockAssumption DEF ReadBlock, Silence, TypeOK
  <2>2. /\ phase' \in {"ask", "collect", "done"} /\ block' \in Blocks
        /\ attempt' \in 1 .. Attempts /\ best' \in Seq(Frame)
        /\ result' \in [Blocks -> Result] /\ told' \subseteq Blocks
    <3>1. CASE Contiguous(raw)
      <4>1. Block(raw, TRUE) \in Result
        BY DEF Block, Result, TypeOK
      <4>2. QED
        BY <1>5, <3>1, <4>1, ReturnType DEF ReadBlock
    <3>2. CASE ~Contiguous(raw)
      <4>1. Keep(raw) \in Seq(Frame)
        BY DEF Keep, TypeOK
      <4>2. QED
        BY <1>5, <3>2, <4>1, TryAgainType DEF ReadBlock
    <3>3. QED
      BY <3>1, <3>2
  <2>3. longest' \in [Blocks -> Nat]
    BY <1>5 DEF ReadBlock, TypeOK
  <2>4. QED
    BY <1>5, <2>1, <2>2, <2>3, FrameTypes DEF ReadBlock, Silence, TypeOK
<1>6. CASE LinkFails
  <2>1. TryAgain(best) /\ best \in Seq(Frame)
    BY <1>6 DEF LinkFails, TypeOK
  <2>2. QED
    BY <1>6, <2>1, FrameTypes, TryAgainType DEF LinkFails, TypeOK, bounds
<1>7. CASE LoseFrames
  <2>1. wire' \in Seq(Frame)
    BY <1>7 DEF LoseFrames, TypeOK
  <2>2. QED
    BY <1>7, <2>1, BlockAssumption DEF LoseFrames, TypeOK
<1>8. CASE UNCHANGED vars
  BY <1>8 DEF TypeOK, vars, bounds
<1>9. QED
  BY <1>1, <1>2, <1>3, <1>4, <1>5, <1>6, <1>7, <1>8 DEF Next

(* Every variable keeps its type. *)
THEOREM TypeCorrect == Spec => []TypeOK
<1>1. Init => TypeOK
  <2>1. Nothing \in Result
    BY FrameTypes DEF Nothing, Result
  <2>2. [b \in Blocks |-> Nothing] \in [Blocks -> Result] /\ [b \in Blocks |-> 0] \in [Blocks -> Nat]
    BY <2>1
  <2>3. 1 \in 1 .. Attempts /\ 0 \in 0 .. MaxBursts /\ 0 \in 0 .. MaxLate /\ 0 \in 0 .. MaxStray
    BY BlockAssumption
  <2>4. IdentityBlock \in Blocks
    BY DEF Blocks
  <2>5. QED
    BY <2>2, <2>3, <2>4, FrameTypes DEF Init, TypeOK
<1>2. QED
  BY <1>1, TypeStep, PTL DEF Spec
-----------------------------------------------------------------------------
(* The wire *)

(* Frames arriving, lost or discarded leave the end of the wire. *)
LEMMA WireShorter ==
  ASSUME TypeOK, WireInv, NEW k \in Nat, k <= Len(wire),
         wire' = SubSeq(wire, k + 1, Len(wire)), UNCHANGED block,
         block = ConfigBlock /\ raw' # <<>> =>
           raw # <<>> \/ \E m \in 1 .. k : wire[m].block = ConfigBlock
  PROVE  WireInv'
<1>0. wire \in Seq(Frame)
  BY DEF TypeOK
<1>1. /\ Len(wire') = Len(wire) - k
      /\ \A n \in DOMAIN wire' : n + k \in DOMAIN wire /\ wire'[n] = wire[n + k]
  BY <1>0
<1>2. \A n \in DOMAIN wire' : n + k \in DOMAIN wire /\ wire'[n] = wire[n + k] /\ n \in Nat
  BY <1>1 DEF TypeOK
<1>3. block = ConfigBlock /\ raw' # <<>> =>
        \A n \in DOMAIN wire' : wire'[n].block # IdentityBlock
  <2> SUFFICES ASSUME block = ConfigBlock, raw' # <<>>, NEW n \in DOMAIN wire'
               PROVE  wire'[n].block # IdentityBlock
    OBVIOUS
  <2>1. CASE raw # <<>>
    BY <1>2, <2>1 DEF WireInv
  <2>2. CASE \E m \in 1 .. k : wire[m].block = ConfigBlock
    <3>1. PICK m \in 1 .. k : wire[m].block = ConfigBlock
      BY <2>2
    <3>2. m \in DOMAIN wire /\ n + k \in DOMAIN wire /\ m < n + k
      <4>1. DOMAIN wire = 1 .. Len(wire) /\ Len(wire) \in Nat /\ m \in Nat /\ m >= 1 /\ m <= k
        BY <1>0
      <4>2. DOMAIN wire' = 1 .. Len(wire) - k
        BY <1>0, <4>1
      <4>3. n \in Nat /\ n >= 1
        BY <4>1, <4>2
      <4>. QED
        BY <1>2, <4>1, <4>3
    <3>3. QED
      BY <1>2, <3>1, <3>2 DEF WireInv
  <2>3. QED
    BY <2>1, <2>2
<1>4. ASSUME NEW m \in DOMAIN wire', NEW n \in DOMAIN wire', m < n,
             wire'[m].block = ConfigBlock
      PROVE  wire'[n].block # IdentityBlock
  <2>1. m + k \in DOMAIN wire /\ n + k \in DOMAIN wire /\ m + k < n + k
    BY <1>2, <1>4
  <2>2. QED
    BY <1>2, <1>4, <2>1 DEF WireInv
<1>5. QED
  BY <1>2, <1>3, <1>4 DEF WireInv

(* A new request puts its answer behind what is left of earlier ones. *)
LEMMA WireAsked == TypeOK /\ WireInv /\ RawInv /\ Ask => WireInv'
<1> SUFFICES ASSUME TypeOK, WireInv, RawInv, Ask PROVE WireInv'
  OBVIOUS
<1>1. PICK arrived \in 0 .. Len(wire), reply \in {<<>>, <<Refusal>>, Answer(block)} :
        wire' = SubSeq(wire, arrived + 1, Len(wire)) \o reply
  BY DEF Ask
<1> DEFINE left == SubSeq(wire, arrived + 1, Len(wire))
<1>2. /\ left \in Seq(Frame) /\ Len(left) = Len(wire) - arrived
      /\ \A n \in DOMAIN left : n + arrived \in DOMAIN wire /\ left[n] = wire[n + arrived]
  <2>1. wire \in Seq(Frame) /\ arrived \in Nat /\ Len(wire) \in Nat /\ arrived <= Len(wire)
    BY DEF TypeOK
  <2>2. left \in Seq(Frame) /\ Len(left) = Len(wire) - arrived
    BY <2>1
  <2>3. ASSUME NEW n \in DOMAIN left
        PROVE  n + arrived \in DOMAIN wire /\ left[n] = wire[n + arrived]
    BY <2>1
  <2>4. QED
    BY <2>2, <2>3
<1>3. /\ reply \in Seq(Frame)
      /\ \A n \in DOMAIN reply :
           /\ reply[n].from = "module" /\ reply[n].block \in {block, None}
           /\ reply[n].block = None => reply[n].i = 0
  <2>1. CASE reply = <<>>
    BY <2>1, FrameTypes
  <2>2. CASE reply = <<Refusal>>
    BY <2>2, FrameTypes DEF Refusal
  <2>3. CASE reply = Answer(block)
    BY <2>3, FrameTypes, BlockAssumption DEF Answer, TypeOK
  <2>4. QED
    BY <2>1, <2>2, <2>3
<1>4. wire' = left \o reply
  BY <1>1
<1> HIDE DEF left
<1>5. \A n \in DOMAIN wire' :
        \/ n \in DOMAIN left /\ wire'[n] = left[n]
        \/ n - Len(left) \in DOMAIN reply /\ wire'[n] = reply[n - Len(left)]
           /\ n > Len(left)
  BY <1>2, <1>3, <1>4
<1>6. UNCHANGED <<block, raw>> /\ raw = <<>>
  BY DEF Ask, RawInv
<1>7. \A n \in DOMAIN wire' :
        wire'[n].from = "module" /\ (wire'[n].block = None => wire'[n].i = 0)
  BY <1>2, <1>3, <1>5 DEF WireInv
<1>8. block = IdentityBlock => \A n \in DOMAIN wire' : wire'[n].block # ConfigBlock
  BY <1>2, <1>3, <1>5, BlockAssumption DEF WireInv, Blocks
<1>9. ASSUME NEW m \in DOMAIN wire', NEW n \in DOMAIN wire', m < n,
             wire'[m].block = ConfigBlock
      PROVE  wire'[n].block # IdentityBlock
  <2>1. block = ConfigBlock
    BY <1>8, <1>9 DEF TypeOK, Blocks
  <2>2. CASE n \in DOMAIN left /\ wire'[n] = left[n]
    <3>1. m \in DOMAIN left /\ wire'[m] = left[m]
      BY <1>2, <1>3, <1>4, <1>9, <2>2
    <3>2. m + arrived < n + arrived
      BY <1>2, <1>9, <2>2, <3>1
    <3>3. QED
      BY <1>2, <1>9, <2>2, <3>1, <3>2 DEF WireInv
  <2>3. CASE n - Len(left) \in DOMAIN reply /\ wire'[n] = reply[n - Len(left)]
    BY <1>3, <2>1, <2>3, BlockAssumption DEF Blocks
  <2>4. QED
    BY <1>5, <2>2, <2>3
<1>10. QED
  BY <1>6, <1>7, <1>8, <1>9 DEF WireInv
-----------------------------------------------------------------------------
(* The block being joined *)

(* Counters that count to 8 or to 16 tell apart up to seven lost frames. *)
LEMMA StepNumber ==
  ASSUME NEW base \in {0, 8}, NEW p \in Nat, NEW q \in p + 1 .. p + 8,
         StepOk(base + (p % 8), base + (q % 8))
  PROVE  q = p + 1
<1>1. base + (q % 8) = (base + (p % 8) + 1) % 8 \/ base + (q % 8) = (base + (p % 8) + 1) % 16
  BY DEF StepOk
<1>2. CASE base = 0
  BY <1>1, <1>2, SMTT(30)
<1>3. CASE base = 8
  BY <1>1, <1>3, SMTT(30)
<1>4. QED
  BY <1>2, <1>3

(* One more frame of the block keeps a right beginning a prefix. *)
LEMMA AppendPrefix ==
  ASSUME NEW b \in Blocks, NEW data \in Seq(Frame), NEW f \in Frame, data # <<>>,
         Own(Append(data, f), b),
         Contiguous(data) /\ StartsRight(data) => IsPrefix(data),
         Contiguous(Append(data, f)), StartsRight(Append(data, f))
  PROVE  IsPrefix(Append(data, f))
<1> DEFINE more == Append(data, f)
           last == Len(data)
<1>0. last \in Nat \ {0}
  OBVIOUS
<1>1. /\ last \in Nat \ {0} /\ Len(more) = last + 1 /\ DOMAIN more = 1 .. last + 1
      /\ more[last + 1] = f
      /\ \A n \in 1 .. last : more[n] = data[n]
  OBVIOUS
<1>2. Contiguous(data)
  BY <1>1 DEF Contiguous
<1>3. StartsRight(data)
  <2>1. OneAnswer(data)
    <3> SUFFICES ASSUME NEW n \in 1 .. last - 1
                 PROVE  data[n + 1].i \in data[n].i + 1 .. data[n].i + 8
      BY DEF OneAnswer
    <3>1. n \in 1 .. Len(more) - 1 /\ n \in 1 .. last /\ n + 1 \in 1 .. last
      BY <1>1
    <3>2. more[n + 1].i \in more[n].i + 1 .. more[n].i + 8
      BY <3>1 DEF StartsRight, OneAnswer
    <3>3. QED
      BY <1>1, <3>1, <3>2
  <2>2. last > 1 => data[2].i = 1
    BY <1>1 DEF StartsRight
  <2>3. QED
    BY <2>1, <2>2 DEF StartsRight
<1>4. \A n \in 1 .. last : data[n].i = n - 1
  BY <1>1, <1>2, <1>3 DEF IsPrefix
<1>5. f.i \in data[last].i + 1 .. data[last].i + 8
  BY <1>1 DEF StartsRight, OneAnswer
<1>6. f.i = last
  <2>1. CASE last = 1
    BY <1>1, <2>1 DEF StartsRight
  <2>2. CASE last > 1
    <3>1. data[last].i = last - 1 /\ f.i \in last .. last + 7
      BY <1>1, <1>4, <1>5
    <3>2. data[last].block = b /\ f.block = b
      BY <1>1, <2>2, <3>1 DEF Own
    <3>3. StepOk(Marker(data[last]), Marker(f))
      BY <1>1, <2>2 DEF Contiguous
    <3>4. /\ Marker(data[last]) = Base(b) + ((last - 1) % 8)
          /\ Marker(f) = Base(b) + (f.i % 8)
      BY <1>1, <2>2, <3>1, <3>2, BlockAssumption DEF Marker
    <3>5. /\ last - 1 \in Nat /\ Base(b) \in {0, 8}
          /\ f.i \in (last - 1) + 1 .. (last - 1) + 8
      BY <1>0, <2>2, <3>1, BlockAssumption
    <3>6. StepOk(Base(b) + ((last - 1) % 8), Base(b) + (f.i % 8))
      BY <3>3, <3>4
    <3>7. f.i = (last - 1) + 1
      BY <3>5, <3>6, StepNumber
    <3>8. QED
      BY <1>0, <3>7
  <2>3. last = 1 \/ last > 1
    <3>1. \A k \in Nat \ {0} : k = 1 \/ k > 1
      OBVIOUS
    <3>2. QED
      BY <1>0, <3>1
  <2>4. QED
    BY <2>1, <2>2, <2>3
<1>7. QED
  BY <1>1, <1>4, <1>6 DEF IsPrefix

LEMMA RawCollected ==
  ASSUME TypeOK, WireInv, RawInv, NEW f \in Frame, Collect(f),
         f = Stray \/ (wire # <<>> /\ f = wire[1])
  PROVE  RawInv' /\ (raw' # <<>> => raw # <<>> \/ f.block = block)
<1>1. CASE raw' = raw
  BY <1>1 DEF Collect, RawInv
<1>2. CASE raw' # raw
  <2>1. raw' = Append(raw, f) /\ IF raw = <<>> THEN IsHead(f, block) ELSE f.from = raw[1].from
    BY <1>2 DEF Collect, Join
  <2>2. raw \in Seq(Frame) /\ block \in Blocks
    BY DEF TypeOK
  <2>3. raw # <<>> => raw[1].from = "module"
    BY <2>2 DEF RawInv, Own
  <2>4. f # Stray
    BY <2>1, <2>2, <2>3, BlockAssumption DEF Stray, IsHead
  <2>5. wire # <<>> /\ f = wire[1] /\ 1 \in DOMAIN wire
    BY <2>4 DEF TypeOK
  <2>6. f.from = "module" /\ (f.block = None => f.i = 0)
    BY <2>5 DEF WireInv
  <2>7. f.block \in {block, None}
    <3>1. CASE raw = <<>>
      BY <2>1, <3>1 DEF IsHead
    <3>2. CASE raw # <<>>
      BY <2>2, <2>5, <3>2 DEF WireInv, Frame, Blocks
    <3>3. QED
      BY <3>1, <3>2
  <2>8. Own(raw', block')
    <3>1. UNCHANGED block /\ raw' = Append(raw, f) /\ Own(raw, block)
      BY <2>1 DEF Collect, RawInv
    <3>2. /\ DOMAIN raw' = 1 .. Len(raw) + 1 /\ raw'[Len(raw) + 1] = f
          /\ \A n \in 1 .. Len(raw) : raw'[n] = raw[n]
          /\ Len(raw) \in Nat /\ DOMAIN raw = 1 .. Len(raw)
          /\ Len(raw) = 0 => raw = <<>>
      BY <2>2, <3>1
    <3>3. QED
      BY <2>1, <2>6, <2>7, <3>1, <3>2 DEF Own
  <2>9. Contiguous(raw') /\ StartsRight(raw') => IsPrefix(raw')
    <3>1. CASE raw = <<>>
      BY <2>1, <3>1 DEF IsPrefix, IsHead
    <3>2. CASE raw # <<>>
      <4>1. Own(Append(raw, f), block)
        BY <2>1, <2>8 DEF Collect
      <4>2. Contiguous(raw) /\ StartsRight(raw) => IsPrefix(raw)
        BY DEF RawInv
      <4>3. QED
        BY <2>1, <2>2, <3>2, <4>1, <4>2, AppendPrefix
    <3>3. QED
      BY <3>1, <3>2
  <2>10. QED
    BY <2>1, <2>8, <2>9 DEF Collect, RawInv, IsHead
<1>3. QED
  BY <1>1, <1>2
-----------------------------------------------------------------------------
(* The retry *)

(* What a block is given for: what TryAgain and Return leave behind. *)
LEMMA ReturnKeeps ==
  ASSUME TypeOK, IInv, NEW r \in Result, phase # "done", Return(r), UNCHANGED caller,
         r.kind # "none",
         Own(r.raw, block),
         r.clean /\ StartsRight(r.raw) => IsPrefix(r.raw),
         r.kind = "block" /\ ~r.clean => Len(r.raw) = longest'[block],
         r.kind = "failed" => block \notin heard',
         \A b \in Blocks \ {block} : longest'[b] = longest[b] /\ (b \in heard' <=> b \in heard)
  PROVE  RetryInv' /\ ResultInv' /\ ToldInv' /\ Own(best', block')
<1>1. /\ result'[block] = r
      /\ \A b \in Blocks \ {block} : result'[b] = result[b]
  BY DEF TypeOK, Return
<1>2. ResultInv'
  <2>1. CleanIsPrefix'
    BY <1>1 DEF IInv, ResultInv, CleanIsPrefix
  <2>2. OwnFrames'
    BY <1>1 DEF IInv, ResultInv, OwnFrames, Own
  <2>3. LongestOfBroken'
    BY <1>1 DEF IInv, ResultInv, LongestOfBroken
  <2>4. FailedUnheard'
    BY <1>1 DEF IInv, ResultInv, FailedUnheard
  <2>5. QED
    BY <2>1, <2>2, <2>3, <2>4 DEF ResultInv
<1>3. best' = <<>> /\ Own(best', block')
  BY DEF Return, Own
<1>4. RetryInv'
  <2>1. CASE block = IdentityBlock /\ r.kind = "block"
    <3>1. block' = ConfigBlock /\ ConfigBlock \in Blocks \ {block}
      BY <2>1, BlockAssumption DEF Return, Blocks
    <3>2. longest'[ConfigBlock] = 0 /\ ConfigBlock \notin heard' /\ result'[ConfigBlock] = Nothing
      BY <1>1, <2>1, <3>1 DEF IInv, RetryInv
    <3>3. QED
      BY <1>3, <3>1, <3>2, BlockAssumption DEF RetryInv
  <2>2. CASE ~(block = IdentityBlock /\ r.kind = "block")
    <3>1. phase' = "done" /\ UNCHANGED block
      BY <2>2 DEF Return
    <3>2. block = IdentityBlock => ConfigBlock \in Blocks \ {block}
      BY BlockAssumption DEF Blocks
    <3>3. QED
      BY <1>1, <3>1, <3>2 DEF IInv, RetryInv
  <2>3. QED
    BY <2>1, <2>2
<1>5. ToldInv'
  <2>1. caller = "page" => told' = IF phase' = "done" THEN {b \in Blocks : Read(b)} ELSE {}
    BY DEF Return, ReadConfig
  <2>2. caller = "terminal" => told' = IF Read(block) THEN told \cup {block} ELSE told
    BY DEF Return, PrintBlock
  <2>3. caller = "terminal" => told' = {b \in Blocks : result'[b].kind = "block"}
    <3>1. caller = "terminal" => told = {b \in Blocks : result[b].kind = "block"}
      BY DEF IInv, ToldInv
    <3>2. result[block].kind # "block" /\ block \in Blocks
      BY DEF IInv, RetryInv, Nothing, TypeOK
    <3> QED
      BY <1>1, <2>2, <3>1, <3>2 DEF Read
  <2>4. block' = ConfigBlock => result'[IdentityBlock].kind = "block"
    <3>1. IdentityBlock \in Blocks /\ (block = IdentityBlock \/ block = ConfigBlock)
      BY DEF TypeOK, Blocks
    <3>2. CASE block = ConfigBlock
      BY <1>1, <3>1, <3>2, BlockAssumption DEF IInv, ToldInv
    <3>3. CASE block = IdentityBlock
      BY <1>1, <3>3, BlockAssumption DEF Return
    <3> QED
      BY <3>1, <3>2, <3>3
  <2>5. phase' = "done" => result'[block'].kind # "none"
    BY <1>1 DEF Return
  <2> QED
    BY <2>1, <2>3, <2>4, <2>5 DEF ToldInv, TypeOK, Read
<1>6. QED
  BY <1>2, <1>3, <1>4, <1>5

LEMMA TryAgainKeeps ==
  ASSUME TypeOK, IInv, NEW kept \in Seq(Frame), phase # "done", TryAgain(kept), UNCHANGED caller,
         Own(kept, block), Len(kept) = longest'[block],
         block \in heard' => kept # <<>>,
         \A b \in Blocks \ {block} : longest'[b] = longest[b] /\ (b \in heard' <=> b \in heard)
  PROVE  RetryInv' /\ ResultInv' /\ ToldInv' /\ Own(best', block')
<1>1. CASE LastAttempt(attempt)
  <2>1. GiveUp(kept) \in Result
    BY DEF GiveUp, Block, Failed, Result
  <2>2. /\ GiveUp(kept).clean = FALSE
        /\ GiveUp(kept).kind = "block" => GiveUp(kept).raw = kept
        /\ GiveUp(kept).kind = "failed" => GiveUp(kept).raw = <<>> /\ kept = <<>>
        /\ GiveUp(kept).kind \in {"block", "failed"}
    BY DEF GiveUp, Block, Failed
  <2>3. Own(GiveUp(kept).raw, block)
    BY <2>2 DEF Own
  <2>4. QED
    BY <1>1, <2>1, <2>2, <2>3, ReturnKeeps DEF TryAgain
<1>2. CASE ~LastAttempt(attempt)
  <2>1. UNCHANGED <<block, result>> /\ phase' = "ask" /\ best' = kept
    BY <1>2 DEF TryAgain
  <2>2. block = IdentityBlock => ConfigBlock \in Blocks \ {block}
    BY BlockAssumption DEF Blocks
  <2>3. RetryInv'
    BY <2>1, <2>2 DEF IInv, RetryInv
  <2>4. LongestOfBroken'
    <3> SUFFICES ASSUME NEW b \in Blocks, result[b].kind = "block", ~result[b].clean
                 PROVE  Len(result[b].raw) = longest'[b]
      BY <2>1 DEF LongestOfBroken
    <3>1. b # block
      BY DEF IInv, RetryInv, Nothing
    <3>2. QED
      BY <3>1 DEF IInv, ResultInv, LongestOfBroken
  <2>5. FailedUnheard'
    <3> SUFFICES ASSUME NEW b \in Blocks, result[b].kind = "failed"
                 PROVE  b \notin heard'
      BY <2>1 DEF FailedUnheard
    <3>1. b # block
      BY DEF IInv, RetryInv, Nothing
    <3>2. QED
      BY <3>1 DEF IInv, ResultInv, FailedUnheard
  <2>6. CleanIsPrefix' /\ OwnFrames'
    BY <2>1 DEF IInv, ResultInv, CleanIsPrefix, OwnFrames
  <2>7. ToldInv'
    BY <1>2, <2>1 DEF TryAgain, IInv, ToldInv
  <2>8. QED
    BY <2>1, <2>3, <2>4, <2>5, <2>6, <2>7 DEF ResultInv
<1>3. QED
  BY <1>1, <1>2
-----------------------------------------------------------------------------
(* The invariant *)

LEMMA InvInit == Init => IInv
<1> SUFFICES ASSUME Init PROVE IInv
  OBVIOUS
<1>1. WireInv
  BY DEF Init, WireInv
<1>2. RawInv
  BY DEF Init, RawInv, Own, IsPrefix
<1>3. RetryInv
  BY DEF Init, RetryInv, Blocks
<1>4. CleanIsPrefix /\ OwnFrames /\ LongestOfBroken /\ FailedUnheard
  BY DEF Init, CleanIsPrefix, OwnFrames, LongestOfBroken, FailedUnheard, Nothing
<1>5. ToldInv
  BY BlockAssumption DEF Init, ToldInv, Nothing
<1>6. QED
  BY <1>1, <1>2, <1>3, <1>4, <1>5 DEF IInv, ResultInv

(* The properties and RetryInv read nothing that a frame on its way changes. *)
LEMMA RetryUntouched ==
  ASSUME IInv, UNCHANGED <<caller, block, best, result, told, heard, longest>>,
         phase # "done" => phase' # "done", phase' # "done" => phase # "done"
  PROVE  RetryInv' /\ ResultInv' /\ ToldInv'
<1>1. RetryInv'
  BY DEF IInv, RetryInv
<1>2. ResultInv'
  BY DEF IInv, ResultInv, CleanIsPrefix, OwnFrames, LongestOfBroken, FailedUnheard
<1>3. ToldInv'
  BY DEF IInv, ToldInv
<1>4. QED
  BY <1>1, <1>2, <1>3

LEMMA CollectKeeps ==
  ASSUME TypeOK, IInv, NEW f \in Frame, Collect(f),
         f = Stray \/ (wire # <<>> /\ f = wire[1])
  PROVE  RawInv' /\ RetryInv' /\ ResultInv' /\ ToldInv'
BY RawCollected, RetryUntouched DEF Collect, IInv

(* An attempt without a block leaves what was kept, heard and counted. *)
LEMMA FailedAttempt ==
  ASSUME TypeOK, IInv, phase \in {"ask", "collect"}, TryAgain(best), raw' = <<>>,
         UNCHANGED <<caller, wire, heard, longest>>
  PROVE  IInv'
<1>1. best \in Seq(Frame) /\ Own(best, block) /\ Len(best) = longest[block]
      /\ (block \in heard => best # <<>>)
  BY DEF TypeOK, IInv, RawInv, RetryInv
<1>2. RetryInv' /\ ResultInv' /\ ToldInv' /\ Own(best', block')
  BY <1>1, TryAgainKeeps
<1>3. RawInv'
  BY <1>2 DEF RawInv, Own, IsPrefix
<1>4. block' = block \/ (block = IdentityBlock /\ block' = ConfigBlock)
  BY DEF TryAgain, Return
<1>5. WireInv'
  BY <1>4 DEF IInv, WireInv
<1>6. QED
  BY <1>2, <1>3, <1>5 DEF IInv

(* A collection with frames ends: the joined block is returned or weighed      *)
(* against the one in hand.                                                  *)
LEMMA BlockJudged == TypeOK /\ IInv /\ ReadBlock => IInv'
<1> SUFFICES ASSUME TypeOK, IInv, ReadBlock PROVE IInv'
  OBVIOUS
<1>1. /\ phase = "collect" /\ raw' = <<>> /\ UNCHANGED <<caller, wire>>
      /\ heard' = heard \cup {block}
      /\ longest' = [longest EXCEPT ![block] = IF Len(raw) > @ THEN Len(raw) ELSE @]
  BY DEF ReadBlock, Silence
<1>2. \A b \in Blocks \ {block} : longest'[b] = longest[b] /\ (b \in heard' <=> b \in heard)
  BY <1>1 DEF TypeOK
<1>3. raw \in Seq(Frame) /\ Own(raw, block) /\ best \in Seq(Frame) /\ Own(best, block)
  BY DEF TypeOK, IInv, RawInv
<1>4. RetryInv' /\ ResultInv' /\ ToldInv' /\ Own(best', block')
  <2>1. CASE Contiguous(raw)
    <3>1. Return(Block(raw, TRUE)) /\ Block(raw, TRUE) \in Result
      BY <1>3, <2>1 DEF ReadBlock, Block, Result
    <3>2. StartsRight(raw) => IsPrefix(raw)
      BY <2>1 DEF IInv, RawInv
    <3>3. QED
      BY <1>1, <1>2, <1>3, <3>1, <3>2, ReturnKeeps DEF Block
  <2>2. CASE ~Contiguous(raw)
    <3>1. TryAgain(Keep(raw)) /\ Keep(raw) \in Seq(Frame) /\ Own(Keep(raw), block)
      BY <1>3, <2>2 DEF ReadBlock, Keep
    <3>2. Len(raw) > 0
      BY <1>3, <2>2 DEF Contiguous
    <3>3. Len(best) = longest[block] /\ block \in Blocks
      BY <1>1 DEF IInv, RetryInv, TypeOK
    <3>4. Len(Keep(raw)) = longest'[block]
      BY <1>1, <3>3 DEF Keep, TypeOK
    <3>5. Keep(raw) # <<>>
      <4>1. Len(raw) \in Nat /\ Len(best) \in Nat
        BY <1>3
      <4>2. CASE Len(raw) > Len(best)
        BY <3>2, <4>2 DEF Keep
      <4>3. CASE ~(Len(raw) > Len(best))
        BY <1>3, <3>2, <4>1, <4>3 DEF Keep
      <4>4. QED
        BY <4>2, <4>3
    <3>6. QED
      BY <1>1, <1>2, <3>1, <3>4, <3>5, TryAgainKeeps
  <2>3. QED
    BY <2>1, <2>2
<1>5. RawInv'
  BY <1>1, <1>4 DEF RawInv, Own, IsPrefix
<1>6. block' = block \/ (block = IdentityBlock /\ block' = ConfigBlock)
  BY DEF ReadBlock, TryAgain, Return
<1>7. WireInv'
  BY <1>1, <1>6 DEF IInv, WireInv
<1>8. QED
  BY <1>4, <1>5, <1>7 DEF IInv

LEMMA InvStep == TypeOK /\ IInv /\ [Next]_vars => IInv'
<1> SUFFICES ASSUME TypeOK, IInv, [Next]_vars PROVE IInv'
  OBVIOUS
<1>1. CASE Ask
  <2>1. WireInv'
    BY <1>1, WireAsked DEF IInv
  <2>2. RawInv'
    BY <1>1 DEF Ask, IInv, RawInv
  <2>3. RetryInv' /\ ResultInv' /\ ToldInv'
    BY <1>1, RetryUntouched DEF Ask
  <2>4. QED
    BY <2>1, <2>2, <2>3 DEF IInv
<1>2. CASE Receive
  <2>1. /\ Collect(wire[1]) /\ wire # <<>> /\ wire[1] \in Frame
        /\ wire' = SubSeq(wire, 1 + 1, Len(wire)) /\ 1 \in Nat /\ 1 <= Len(wire)
    BY <1>2 DEF Receive, TypeOK
  <2>2. RawInv' /\ RetryInv' /\ ResultInv' /\ ToldInv'
    BY <2>1, CollectKeeps
  <2>3. raw' # <<>> => raw # <<>> \/ wire[1].block = block
    BY <2>1, RawCollected DEF IInv
  <2>4. WireInv'
    BY <2>1, <2>3, WireShorter DEF Collect, IInv
  <2>5. QED
    BY <2>2, <2>4 DEF IInv
<1>3. CASE ReceiveStray
  <2>1. Collect(Stray) /\ Stray \in Frame /\ UNCHANGED wire
    BY <1>3, FrameTypes DEF ReceiveStray
  <2>2. RawInv' /\ RetryInv' /\ ResultInv' /\ ToldInv'
    BY <2>1, CollectKeeps
  <2>3. raw' # <<>> => raw # <<>>
    BY <2>1, RawCollected, BlockAssumption DEF IInv, Stray, TypeOK
  <2>4. WireInv'
    BY <2>1, <2>3 DEF Collect, IInv, WireInv
  <2>5. QED
    BY <2>2, <2>4 DEF IInv
<1>4. CASE NoAnswer
  BY <1>4, FailedAttempt DEF NoAnswer, Silence
<1>5. CASE ReadBlock
  BY <1>5, BlockJudged
<1>6. CASE LinkFails
  BY <1>6, FailedAttempt DEF LinkFails
<1>7. CASE LoseFrames
  <2>1. PICK n \in 1 .. Len(wire) : wire' = SubSeq(wire, n + 1, Len(wire))
    BY <1>7 DEF LoseFrames
  <2>2. n \in Nat /\ n <= Len(wire)
    BY DEF TypeOK
  <2>3. UNCHANGED <<caller, phase, block, raw, best, result, told, heard, longest>>
    BY <1>7 DEF LoseFrames
  <2>4. WireInv'
    BY <2>1, <2>2, <2>3, WireShorter DEF IInv
  <2>5. RawInv' /\ RetryInv' /\ ResultInv' /\ ToldInv'
    BY <2>3, RetryUntouched DEF IInv, RawInv
  <2>6. QED
    BY <2>4, <2>5 DEF IInv
<1>8. CASE UNCHANGED vars
  <2>1. UNCHANGED <<caller, phase, block, raw, best, result, told, wire, heard, longest>>
    BY <1>8 DEF vars
  <2>2. QED
    BY <2>1, RetryUntouched DEF IInv, RawInv, WireInv
<1>9. QED
  BY <1>1, <1>2, <1>3, <1>4, <1>5, <1>6, <1>7, <1>8 DEF Next

THEOREM Invariant == Spec => []IInv
BY InvInit, InvStep, TypeCorrect, PTL DEF Spec

(* A clean block that starts right is a prefix of what the module sent. *)
THEOREM CleanPrefix == Spec => []CleanIsPrefix
<1>1. IInv => CleanIsPrefix
  BY DEF IInv, ResultInv
<1>2. QED
  BY <1>1, Invariant, PTL

(* No byte of another module or block gets into a block. *)
THEOREM FramesOwned == Spec => []OwnFrames
<1>1. IInv => OwnFrames
  BY DEF IInv, ResultInv
<1>2. QED
  BY <1>1, Invariant, PTL

(* Of broken blocks the longest is returned. *)
THEOREM BestKept == Spec => []LongestOfBroken
<1>1. IInv => LongestOfBroken
  BY DEF IInv, ResultInv
<1>2. QED
  BY <1>1, Invariant, PTL

(* A block fails only if nothing was heard of it, and every block of which     *)
(* anything was heard is shown in the end, by the page and by the terminal.  *)
THEOREM HeardReturned == Spec => []FailsOnlyUnheard
<1>1. ASSUME TypeOK, IInv PROVE FailsOnlyUnheard
  <2>1. ASSUME phase = "done", NEW b \in heard PROVE b \in told
    <3>1. /\ told = {x \in Blocks : result[x].kind = "block"}
          /\ b \in Blocks /\ block \in Blocks /\ result[b] \in Result
          /\ result[block].kind # "none" /\ result[b].kind # "failed"
      BY <1>1, <2>1 DEF TypeOK, IInv, ToldInv, ResultInv, FailedUnheard
    <3>2. result[b].kind \in {"none", "block", "failed"}
      BY <3>1 DEF Result
    <3>3. b # block => b = IdentityBlock /\ block = ConfigBlock
      BY <1>1, <3>1 DEF Blocks, IInv, RetryInv
    <3>4. result[b].kind = "block"
      BY <1>1, <3>1, <3>2, <3>3 DEF IInv, ToldInv
    <3> QED
      BY <3>1, <3>4
  <2> QED
    BY <1>1, <2>1 DEF IInv, ResultInv, FailedUnheard, FailsOnlyUnheard
<1>2. QED
  BY <1>1, TypeCorrect, Invariant, PTL
=============================================================================
