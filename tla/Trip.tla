-------------------------------- MODULE Trip --------------------------------
(***************************************************************************)
(* A recorded trip: record and monitor --csv (python/volvo_diag/cli.py)    *)
(* write a row for every cycle of the poll scheduler, and analyze          *)
(* (python/volvo_diag/analyze.py) reports on the file.                     *)
(*                                                                         *)
(* Of a value the model keeps whether it is high: a temperature at or      *)
(* above EGT_REGEN_C, a flag that is set.  The module extends Poll: what   *)
(* a cycle reads, and what it has for the ids it does not read, is there.  *)
(***************************************************************************)
EXTENDS Poll

CONSTANTS
  Flags,       \* the parameters whose value is a bool
  Roles,       \* the roles of ROLES, in order; "egt" and "regen" decide here
  Exact(_),    \* the column keys a role prefers, in order
  Similar(_),  \* the keys that contain one of its substrings
  HotFor,      \* REGEN_MIN_S, in units of the shortest cycle
  MaxRows      \* bound: rows of a file

ASSUME TripAssumption ==
  /\ Flags \subseteq Params
  /\ Roles \in Seq(Range(Roles)) /\ IsInjective(Roles) /\ {"egt", "regen"} \subseteq Range(Roles)
  /\ \A r \in Range(Roles) : Exact(r) \in Seq(Range(Exact(r)))
  /\ HotFor \in Nat \ {0} /\ MaxRows \in Nat

VARIABLES
  csv,    \* "off" without a file, "open" while it is written, "closed"
  clock,  \* time since the command was started
  value,  \* the values in the scheduler's _last
  file,   \* the rows behind the header
  read    \* history: for each row what was read in its own cycle

trip == <<csv, clock, value, file, read>>
tripVars == <<vars, trip>>

Value == {"low", "high"}

(* A cell: nothing, a number, or a word no number can be made of. *)
Cell == [text : {"empty", "number", "word"}, value : Value]

TripTypeOK ==
  /\ TypeOK
  /\ csv \in {"off", "open", "closed"}
  /\ clock \in Nat
  /\ value \in [Params -> Value]
  /\ file \in Seq([t : Nat, cells : Seq(Cell)])
  /\ read \in Seq(Seq(Value \cup {"unread"}))
  /\ Len(read) = Len(file)

(* record has a file, monitor may. *)
TripInit ==
  /\ Init
  /\ csv \in {"off", "open"} /\ (live \/ csv = "open")
  /\ clock = 0
  /\ value = [p \in Params |-> "low"]
  /\ file = <<>> /\ read = <<>>

-----------------------------------------------------------------------------
(* The commands *)

(* (Bound: the user stops a command with a file after MaxRows rows at the latest.) *)
TripBegin(gap) ==
  /\ csv # "closed" /\ (csv = "open" => Len(file) < MaxRows)
  /\ BeginCycle(gap)
  /\ clock' = IF csv = "open" THEN clock + gap ELSE clock
  /\ UNCHANGED <<csv, value, file, read>>

(* What the parameter of a column may read.  Values matter only to a file. *)
Readable(p) ==
  IF \E r \in Range(Roles) : p \in Similar(r) \cup Range(Exact(r)) THEN Value ELSE {"low"}

(* _reading_read_cb: the value, or an exception the scheduler counts as a miss. *)
TripVisit ==
  /\ csv # "closed" /\ Visit
  /\ IF csv = "open" /\ rows'[at] = "fresh"
       THEN \E v \in Readable(sel[at]) : value' = [value EXCEPT ![sel[at]] = v]
       ELSE UNCHANGED value
  /\ UNCHANGED <<csv, clock, file, read>>

NoCell == [text |-> "empty", value |-> "low"]

(* record writes a bool as 1 or 0. *)
RecordCell(i) ==
  IF rows[i] = "miss" THEN NoCell ELSE [text |-> "number", value |-> value[sel[i]]]

(* monitor writes what it shows, a bool as True or False. *)
MonitorCell(i) ==
  IF rows[i] = "miss" THEN NoCell
  ELSE [text |-> IF sel[i] \in Flags THEN "word" ELSE "number", value |-> value[sel[i]]]

FileRow ==
  [t |-> clock,
   cells |-> [i \in 1 .. Len(sel) |-> IF live THEN MonitorCell(i) ELSE RecordCell(i)]]

ReadRow == [i \in 1 .. Len(sel) |-> IF rows[i] = "fresh" THEN value[sel[i]] ELSE "unread"]

TripEnd ==
  /\ csv # "closed" /\ EndCycle
  /\ IF csv = "open"
       THEN file' = Append(file, FileRow) /\ read' = Append(read, ReadRow)
       ELSE UNCHANGED <<file, read>>
  /\ UNCHANGED <<csv, clock, value>>

(* Ctrl-C, wherever the cycle is, and monitor --once: the row under way is lost. *)
Stop ==
  /\ csv = "open" /\ csv' = "closed"
  /\ UNCHANGED <<vars, clock, value, file, read>>

(* The page selects; a command keeps the parameters it was started with. *)
TripSelect(s) == csv = "off" /\ Select(s) /\ UNCHANGED trip

TripNext ==
  \/ \E gap \in 1 .. MaxGap : TripBegin(gap)
  \/ TripVisit \/ TripEnd \/ Stop
  \/ \E s \in Selections : TripSelect(s)

TripSpec == TripInit /\ [][TripNext]_tripVars

-----------------------------------------------------------------------------
(* analyze *)

(* load_trip: a cell float() refuses is a missing sample. *)
Sample(cell) == IF cell.text = "number" THEN cell.value ELSE "gap"

Column(c) == [i \in DOMAIN file |-> Sample(file[i].cells[c])]

(* detect_roles: the column of a key it prefers, otherwise the first column with a *)
(* similar key; 0 if there is none that no other role has.                   *)
ColumnFor(role, used) ==
  LET free  == (DOMAIN sel) \ used
      exact == {j \in DOMAIN Exact(role) : \E c \in free : sel[c] = Exact(role)[j]}
      alike == {c \in free : sel[c] \in Similar(role)}
  IN  IF exact # {} THEN CHOOSE c \in free : sel[c] = Exact(role)[Min(exact)]
      ELSE IF alike # {} THEN Min(alike) ELSE 0

DetectRoles ==
  LET columns[n \in 0 .. Len(Roles)] ==
        IF n = 0 THEN <<>>
        ELSE Append(columns[n - 1], ColumnFor(Roles[n], Range(columns[n - 1])))
  IN  columns[Len(Roles)]

RoleColumn(role) == DetectRoles[CHOOSE n \in DOMAIN Roles : Roles[n] = role]

(* mutant: a stretch that lasts to the end of the file is forgotten *)
CloseNever(scan, n) == scan.windows

CloseLast(scan, n) ==
  IF scan.start = 0 THEN scan.windows ELSE scan.windows \cup {<<scan.start, n>>}

(* _regen_windows: one row after the other, start is the first of a hot stretch. *)
RegenWindows(temp) ==
  LET scan[n \in 0 .. Len(temp)] ==
        IF n = 0 THEN [start |-> 0, windows |-> {}]
        ELSE LET before == scan[n - 1]
                 hot    == temp[n] = "high"
             IN  IF hot /\ before.start = 0 THEN [before EXCEPT !.start = n]
                 ELSE IF ~hot /\ before.start # 0
                   THEN [start |-> 0,
                         windows |-> before.windows \cup {<<before.start, n - 1>>}]
                 ELSE before
  IN  {w \in CloseLast(scan[Len(temp)], Len(temp)) : file[w[2]].t - file[w[1]].t >= HotFor}

(* analyze: the regeneration, from the first to the last sample with the flag set, *)
(* or where the exhaust was hot when no sample has it.                       *)
Regeneration ==
  LET flag   == RoleColumn("regen")
      temp   == RoleColumn("egt")
      active == IF flag = 0 THEN {} ELSE {i \in DOMAIN file : Column(flag)[i] = "high"}
  IN  IF active # {} THEN {<<Min(active), Max(active)>>}
      ELSE IF temp = 0 THEN {} ELSE RegenWindows(Column(temp))

-----------------------------------------------------------------------------
(* Properties *)

(* What the car said in the cycle of a row, for a role. *)
Said(role, i) == RoleColumn(role) # 0 /\ read[i][RoleColumn(role)] = "high"

Stretches ==
  {w \in (DOMAIN read) \X (DOMAIN read) :
     /\ \A i \in w[1] .. w[2] : Said("egt", i)
     /\ w[1] - 1 \in DOMAIN read => ~Said("egt", w[1] - 1)
     /\ w[2] + 1 \in DOMAIN read => ~Said("egt", w[2] + 1)
     /\ file[w[2]].t - file[w[1]].t >= HotFor}

(* Of a recording that was stopped anywhere, with whatever reads missed, the     *)
(* report says that the filter regenerated exactly where the car has said    *)
(* so: from the first to the last flag that was read, or in each stretch of  *)
(* hot readings without a miss that is long enough.  No value of an earlier  *)
(* cycle counts, and no stretch is forgotten.                                *)
TripTrue ==
  csv = "closed" /\ ~live =>
    LET flagged == {i \in DOMAIN read : Said("regen", i)}
    IN  Regeneration = IF flagged # {} THEN {<<Min(flagged), Max(flagged)>>} ELSE Stretches
=============================================================================
