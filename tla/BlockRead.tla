------------------------------ MODULE BlockRead ------------------------------
(***************************************************************************)
(* The blocks of read_config (python/volvo_diag/backend.py) and of the     *)
(* command config (python/volvo_diag/cli.py): how frames of a multi-frame  *)
(* answer are collected (transport/volvo_ecm.py), joined and judged        *)
(* (protocol/volvo.py), how a block is read again, and what the page or    *)
(* the terminal shows of it.                                               *)
(*                                                                         *)
(* A frame stands for its eight bytes, a block for the sequence of frames  *)
(* that went into it: every frame but the first adds as many bytes.  The   *)
(* module and the gateway before it are external: they answer in the order *)
(* asked, late or not at all, and frames get lost on the way.              *)
(***************************************************************************)
EXTENDS Integers, Sequences, FiniteSets

CONSTANTS
  IdentityBlock, ConfigBlock,  \* what read_config reads, in this order
  None,
  Final(_),      \* the number of the last frame of a block; the first is 0
  Base(_),       \* markers of a block count Base .. Base + 7
  Attempts,      \* attempts=4
  MaxBursts,     \* bound: runs of frames lost
  MaxLate,       \* bound: collections that end before the answer has
  MaxStray       \* bound: frames of other modules

Blocks == {IdentityBlock, ConfigBlock}

ASSUME BlockAssumption ==
  /\ None \notin Blocks
  /\ IdentityBlock # ConfigBlock
  /\ \A b \in Blocks : Final(b) \in Nat /\ Base(b) \in {0, 8}
  /\ Attempts \in Nat \ {0}
  /\ MaxBursts \in Nat /\ MaxLate \in Nat /\ MaxStray \in Nat

VARIABLES
  caller,    \* "page" (read_config) or "terminal" (config)
  phase,     \* "ask", "collect" or "done"
  block,     \* ident: the block being read
  attempt,
  answered,  \* _collect has frames
  raw,       \* what reassemble_block makes of them
  best,      \* the longest broken block of this read
  result,    \* what read_block_retry returned for each block
  told,      \* the blocks the caller has shown
  wire,      \* frames of answers on their way
  heard,     \* history: the blocks for which an attempt collected something
  longest,   \* history: the longest block an attempt returned
  bursts, late, strays  \* counters of the bounds

bounds == <<bursts, late, strays>>
vars == <<caller, phase, block, attempt, answered, raw, best, result, told, wire, heard, longest, bounds>>

(* A frame on a diagnostic CAN id.  Without a block it is a refusal or another *)
(* module's.                                                                 *)
Frame == [from : {"module", "other"}, block : Blocks \cup {None}, i : Nat]

Refusal == [from |-> "module", block |-> None, i |-> 0]
Stray == [from |-> "other", block |-> None, i |-> 0]

Answer(b) == [n \in 1 .. Final(b) + 1 |-> [from |-> "module", block |-> b, i |-> n - 1]]

(* The low nibble of the first byte.  First frames are x7 or xF, a refusal CB. *)
Marker(f) ==
  CASE f.block = None -> 11
    [] f.block # None /\ f.i = 0 -> Base(f.block) + 7
    [] OTHER -> Base(f.block) + (f.i % 8)

Result == [kind : {"none", "block", "failed"}, raw : Seq(Frame), clean : BOOLEAN]

Nothing == [kind |-> "none", raw |-> <<>>, clean |-> FALSE]
Failed == [kind |-> "failed", raw |-> <<>>, clean |-> FALSE]
Block(data, clean) == [kind |-> "block", raw |-> data, clean |-> clean]

TypeOK ==
  /\ caller \in {"page", "terminal"}
  /\ phase \in {"ask", "collect", "done"}
  /\ block \in Blocks
  /\ attempt \in 1 .. Attempts
  /\ answered \in BOOLEAN
  /\ raw \in Seq(Frame) /\ best \in Seq(Frame) /\ wire \in Seq(Frame)
  /\ result \in [Blocks -> Result]
  /\ told \subseteq Blocks /\ heard \subseteq Blocks
  /\ longest \in [Blocks -> Nat]
  /\ bursts \in 0 .. MaxBursts /\ late \in 0 .. MaxLate /\ strays \in 0 .. MaxStray

Init ==
  /\ caller \in {"page", "terminal"}
  /\ phase = "ask" /\ block = IdentityBlock /\ attempt = 1
  /\ answered = FALSE
  /\ raw = <<>> /\ best = <<>> /\ wire = <<>>
  /\ result = [b \in Blocks |-> Nothing] /\ told = {}
  /\ heard = {} /\ longest = [b \in Blocks |-> 0]
  /\ bursts = 0 /\ late = 0 /\ strays = 0

-----------------------------------------------------------------------------
(* Joining and judging.  The code does both when the collection has ended; the  *)
(* loop of reassemble_block takes one frame after the other, and so does the *)
(* model, as they come.                                                      *)

IsHead(f, b) == f.block = b /\ f.i = 0

(* mutant: whatever follows the first frame is taken for the block *)
JoinAny(data, f, b) ==
  IF data # <<>> \/ IsHead(f, b) THEN Append(data, f) ELSE data

(* reassemble_block: the frame that echoes the request, then every frame on its *)
(* CAN id.                                                                   *)
Join(data, f, b) ==
  IF IF data = <<>> THEN IsHead(f, b) ELSE f.from = data[1].from
    THEN Append(data, f) ELSE data

(* mutant: a single lost frame is within the tolerance for the counter's width *)
StepLoose(prev, cur) == cur \in {(prev + 1) % 8, (prev + 1) % 16, (prev + 2) % 16}

(* Counters of 8 and of 16 are both in use. *)
StepOk(prev, cur) == cur = (prev + 1) % 8 \/ cur = (prev + 1) % 16

(* block_frames_contiguous: the frames behind the first; true without any. *)
Contiguous(data) ==
  \A n \in 2 .. Len(data) - 1 : StepOk(Marker(data[n]), Marker(data[n + 1]))

-----------------------------------------------------------------------------
(* The callers, and the loop both have: read_block_retry, read_block_verified *)

Read(b) == result'[b].kind = "block"

(* The page gets one answer when all is done: an error instead of the identity, *)
(* no list of options instead of the configuration.                          *)
ReadConfig ==
  told' = IF phase' = "done" THEN {b \in Blocks : Read(b)} ELSE {}

(* mutant: without the configuration the command prints nothing *)
PrintAtEnd ==
  told' = IF phase' = "done" /\ Read(block) THEN {b \in Blocks : Read(b)} ELSE {}

(* The command prints a block as soon as it has it. *)
PrintBlock == told' = IF Read(block) THEN told \cup {block} ELSE told

(* A block has been read, or could not be: the car configuration is read after  *)
(* the identity, an identity that failed ends the request.                   *)
Return(r) ==
  /\ result' = [result EXCEPT ![block] = r]
  /\ best' = <<>>
  /\ IF block = IdentityBlock /\ r.kind = "block"
       THEN phase' = "ask" /\ block' = ConfigBlock /\ attempt' = 1
       ELSE phase' = "done" /\ UNCHANGED <<block, attempt>>
  /\ IF caller = "page" THEN ReadConfig ELSE PrintBlock

(* mutant: one attempt too many *)
LastOver(n) == n > Attempts

LastAttempt(n) == n = Attempts

(* mutant: an error in the last attempt is raised whatever there is in hand *)
GiveUpRaising(kept) == Failed

GiveUp(kept) == IF kept # <<>> THEN Block(kept, FALSE) ELSE Failed

(* The attempt gave no clean block; kept is the longest broken one so far. *)
TryAgain(kept) ==
  IF LastAttempt(attempt)
    THEN Return(GiveUp(kept))
    ELSE /\ attempt' = attempt + 1 /\ phase' = "ask" /\ best' = kept
         /\ UNCHANGED <<block, result, told>>

(* mutant: the last broken block is kept, not the longest *)
KeepLast(data) == data

Keep(data) == IF Len(data) > Len(best) THEN data ELSE best

(* send: what has arrived by now is discarded; the module answers, refuses or   *)
(* does not hear.                                                            *)
Ask ==
  /\ phase = "ask"
  /\ phase' = "collect"
  /\ \E arrived \in 0 .. Len(wire), reply \in {<<>>, <<Refusal>>, Answer(block)} :
       wire' = SubSeq(wire, arrived + 1, Len(wire)) \o reply
  /\ UNCHANGED <<caller, block, attempt, answered, raw, best, result, told, heard, longest, bounds>>

(* _collect: a frame on a diagnostic id. *)
Collect(f) ==
  /\ phase = "collect"
  /\ answered' = TRUE /\ raw' = Join(raw, f, block)
  /\ UNCHANGED <<caller, phase, block, attempt, best, result, told, heard, longest, bursts, late>>

Receive == wire # <<>> /\ Collect(Head(wire)) /\ wire' = Tail(wire) /\ UNCHANGED strays

ReceiveStray ==
  strays < MaxStray /\ Collect(Stray) /\ strays' = strays + 1 /\ UNCHANGED wire

(* Silence: for 0.3 s after a frame, for two seconds without any.  The rest of  *)
(* the answer may still be to come.                                          *)
Silence ==
  /\ phase = "collect"
  /\ \/ wire = <<>> /\ UNCHANGED late
     \/ wire # <<>> /\ late < MaxLate /\ late' = late + 1
  /\ answered' = FALSE /\ raw' = <<>>
  /\ UNCHANGED <<caller, wire, bursts, strays>>

(* No answer at all is a timeout, and the attempt has failed. *)
NoAnswer ==
  /\ Silence /\ ~answered
  /\ TryAgain(best)
  /\ UNCHANGED <<heard, longest>>

(* The first clean block is returned. *)
ReadBlock ==
  /\ Silence /\ answered
  /\ IF Contiguous(raw) THEN Return(Block(raw, TRUE)) ELSE TryAgain(Keep(raw))
  /\ heard' = heard \cup {block}
  /\ longest' = [longest EXCEPT ![block] = IF Len(raw) > @ THEN Len(raw) ELSE @]

(* The driver reports an error in send or receive: the attempt has failed. *)
LinkFails ==
  /\ phase \in {"ask", "collect"}
  /\ TryAgain(best)
  /\ answered' = FALSE /\ raw' = <<>>
  /\ UNCHANGED <<caller, wire, heard, longest, bounds>>

(* A run of frames is lost: a full FIFO, a gateway that cannot keep up. *)
LoseFrames ==
  /\ bursts < MaxBursts /\ bursts' = bursts + 1
  /\ \E n \in 1 .. Len(wire) : wire' = SubSeq(wire, n + 1, Len(wire))
  /\ UNCHANGED <<caller, phase, block, attempt, answered, raw, best, result, told, heard, longest,
                 late, strays>>

Next ==
  Ask \/ Receive \/ ReceiveStray \/ NoAnswer \/ ReadBlock \/ LinkFails \/ LoseFrames

Spec == Init /\ [][Next]_vars
-----------------------------------------------------------------------------
(* Properties *)

(* The frames come from one answer to this request, in order. *)
OneAnswer(data) ==
  \A n \in 1 .. Len(data) - 1 : data[n + 1].i \in data[n].i + 1 .. data[n].i + 8

StartsRight(data) == OneAnswer(data) /\ (Len(data) > 1 => data[2].i = 1)

IsPrefix(data) == \A n \in DOMAIN data : data[n].i = n - 1

(* A block returned as clean has every byte where the catalogue says, up to its *)
(* end: as far as a lost frame is not the one the count starts from, nor     *)
(* eight or more in a row.  What an earlier answer left on the wire does not *)
(* change that.                                                              *)
CleanIsPrefix ==
  \A b \in Blocks : result[b].clean /\ StartsRight(result[b].raw) => IsPrefix(result[b].raw)

(* Whatever was lost, late or sent by others, a block starts with its own first *)
(* frame and holds nothing of another module or another block.  (A refusal   *)
(* behind a late answer can end it.)                                         *)
OwnFrames ==
  \A b \in Blocks : \A n \in DOMAIN result[b].raw :
    LET f == result[b].raw[n]
    IN  /\ n = 1 => IsHead(f, b)
        /\ f.from = "module"
        /\ f.block \in {b, None}

(* "so we never do worse than a single read": of broken blocks the longest is   *)
(* returned.                                                                 *)
LongestOfBroken ==
  \A b \in Blocks :
    result[b].kind = "block" /\ ~result[b].clean => Len(result[b].raw) = longest[b]

(* A block fails only if no attempt collected a frame: a broken block in hand   *)
(* survives the timeouts and driver errors after it.  And in the end the     *)
(* user is shown every block of which anything was heard, on the page and    *)
(* on the terminal: a configuration that failed does not hide the identity.  *)
FailsOnlyUnheard ==
  /\ \A b \in Blocks : result[b].kind = "failed" => b \notin heard
  /\ phase = "done" => heard \subseteq told

(* "and never an empty block while a partial is in hand". *)
NeverEmptyHanded ==
  \A b \in Blocks :
    result[b].kind = "block" /\ result[b].raw = <<>> => longest[b] = 0

(* "accepts a clean, wrapping counter": a block that came whole is taken for    *)
(* clean.                                                                    *)
WholeIsClean ==
  \A b \in Blocks :
    result[b].kind = "block" /\ result[b].raw = Answer(b) => result[b].clean
=============================================================================
