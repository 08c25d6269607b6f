---------------------------- MODULE HcicsCommand ----------------------------
(***************************************************************************)
(* The command parsers of hcics_protocol.c, run by the UDP thread on one    *)
(* packet, and the use the mission makes of an accepted fault: the panel    *)
(* the track module drives to.                                              *)
(*                                                                         *)
(* A packet has a head (FAULT, STOP or something else) and a text, which    *)
(* ends with the NUL the UDP thread has written behind it.  Of the          *)
(* characters the parsers tell apart digits, the comma, blanks (space, tab, *)
(* CR, LF) and the characters of the token.  The parsers move a cursor over *)
(* the text; one step looks at one character.                               *)
(***************************************************************************)
EXTENDS Naturals, Sequences

CONSTANTS
  Token,    \* HCICS_UDP_TOKEN
  Texts     \* what packets may hold behind their heads

\* Digits are the numbers 0 to 9.
Digits == 0 .. 9
Comma == 10
Blank == 11
Other == 12
Nul == 13

\* hcics_token_is_usable.
ASSUME TokenAssumption ==
  /\ Token \in Seq(Digits \cup {Other}) /\ Token # <<>>
  /\ Texts \subseteq Seq(0 .. 12)

VARIABLES
  head, text,   \* the packet
  place,        \* what the parser is reading
  p,            \* its cursor
  parsed,       \* the number being read
  values,       \* the numbers read: id, row, column, severity
  verdict,      \* none yet, a fault, a stop, or refused
  fault         \* hcics_fault_t

vars == <<head, text, place, p, parsed, values, verdict, fault>>

Heads == {"FAULT", "STOP", "other"}

\* The character under the cursor.
Char == IF p <= Len(text) THEN text[p] ELSE Nul

-----------------------------------------------------------------------------
(* The grid.                                                               *)

GridCols == 3
TargetMax == 9

\* hcics_fault_id_to_grid, and hcics_track_target_to_grid with its own copy of
\* the constants.
RowOfId(id) == ((id - 1) \div GridCols) + 1
ColOfId(id) == ((id - 1) % GridCols) + 1

\* hcics_fault_grid_to_id.
OnGrid(row, col) == row \in 1 .. 3 /\ col \in 1 .. 3
GridToId(row, col) == ((row - 1) * GridCols) + col

\* hcics_protocol_fault_is_valid.
FaultIsValid(f) ==
  /\ f.id \in 1 .. TargetMax
  /\ f.row = RowOfId(f.id) /\ f.col = ColOfId(f.id)
  /\ f.severity # 0

\* hcics_fault_to_track_target; 0 is home.
FaultToTrackTarget(f) == IF FaultIsValid(f) THEN f.id ELSE 0

\* hcics_fault_defaults.
FaultDefaults == [id |-> 1, row |-> 1, col |-> 1, severity |-> 1]

-----------------------------------------------------------------------------

Init ==
  /\ head \in Heads /\ text \in Texts
  /\ place = "head" /\ p = 1 /\ parsed = 0 /\ values = <<>>
  /\ verdict = "none" /\ fault = FaultDefaults

Packet == UNCHANGED <<head, text>>
Refuse == verdict' = "refused" /\ UNCHANGED <<place, p, parsed, values, fault>>
Reading == verdict = "none" /\ Packet

\* hcics_protocol_parse_fault_text, then hcics_protocol_parse_stop_text, compare
\* the start of the text.
ReadHead ==
  /\ Reading /\ place = "head"
  /\ IF head = "other" THEN Refuse
     ELSE place' = "token" /\ UNCHANGED <<p, parsed, values, verdict, fault>>

\* hcics_parse_token_field: the token, then its delimiter.
ReadToken ==
  /\ Reading /\ place = "token"
  /\ IF p <= Len(Token)
       THEN IF Char = Token[p]
              THEN p' = p + 1 /\ UNCHANGED <<place, parsed, values, verdict, fault>>
              ELSE Refuse
     ELSE IF head = "STOP"
       THEN place' = "blanks" /\ UNCHANGED <<p, parsed, values, verdict, fault>>
     ELSE IF Char = Comma
       THEN p' = p + 1 /\ place' = "number" /\ UNCHANGED <<parsed, values, verdict, fault>>
       ELSE Refuse

\* hcics_parse_uint_field begins: there must be a digit.
BeginNumber ==
  /\ Reading /\ place = "number"
  /\ IF Char \in Digits
       THEN place' = "digits" /\ parsed' = 0 /\ UNCHANGED <<p, values, verdict, fault>>
       ELSE Refuse

\* Mutant: the limit is not checked, and the number kept in a byte.
ReadDigitWraps ==
  /\ Reading /\ place = "digits" /\ Char \in Digits
  /\ parsed' = (10 * parsed + Char) % 256
  /\ p' = p + 1
  /\ UNCHANGED <<place, values, verdict, fault>>

\* Mutant: the limit is not checked.
ReadDigitUnlimited ==
  /\ Reading /\ place = "digits" /\ Char \in Digits
  /\ parsed' = 10 * parsed + Char
  /\ p' = p + 1
  /\ UNCHANGED <<place, values, verdict, fault>>

ReadDigit ==
  /\ Reading /\ place = "digits" /\ Char \in Digits
  /\ IF 10 * parsed + Char > 255
       THEN Refuse
       ELSE /\ parsed' = 10 * parsed + Char
            /\ p' = p + 1
            /\ UNCHANGED <<place, values, verdict, fault>>

\* The delimiter of a number: a comma, or for the last one blanks and the end.
EndNumber ==
  /\ Reading /\ place = "digits" /\ Char \notin Digits
  /\ IF Len(values) = 3
       THEN /\ values' = Append(values, parsed) /\ place' = "blanks"
            /\ parsed' = 0 /\ UNCHANGED <<p, verdict, fault>>
     ELSE IF Char = Comma
       THEN /\ values' = Append(values, parsed) /\ place' = "number" /\ p' = p + 1
            /\ parsed' = 0 /\ UNCHANGED <<verdict, fault>>
     ELSE Refuse

SkipBlank ==
  /\ Reading /\ place = "blanks" /\ Char = Blank
  /\ p' = p + 1
  /\ UNCHANGED <<place, parsed, values, verdict, fault>>

\* What the fields of the fault are set to.
FaultRead ==
  [id |-> values[1], row |-> values[2], col |-> values[3], severity |-> values[4]]

\* The text must end here; a fault must name a panel of the grid.
EndText ==
  /\ Reading /\ place = "blanks" /\ Char # Blank
  /\ IF Char # Nul THEN Refuse
     ELSE IF head = "STOP"
       THEN verdict' = "stop" /\ UNCHANGED <<place, p, parsed, values, fault>>
     ELSE IF ~OnGrid(values[2], values[3]) THEN Refuse
     ELSE /\ fault' = FaultRead
          /\ verdict' = IF FaultIsValid(FaultRead) THEN "fault" ELSE "refused"
          /\ UNCHANGED <<place, p, parsed, values>>

Next ==
  \/ ReadHead \/ ReadToken \/ BeginNumber \/ ReadDigit \/ EndNumber
  \/ SkipBlank \/ EndText

Spec == Init /\ [][Next]_vars

-----------------------------------------------------------------------------
(* The format that hcics_protocol.h gives, read off the whole text.        *)

\* The part of a text between two of its positions.
Cut(s, i, j) == SubSeq(s, i + 1, j - 1)

IsNumber(s) == s # <<>> /\ \A i \in 1 .. Len(s) : s[i] \in Digits

Decimal(s) ==
  LET upTo[n \in 0 .. Len(s)] == IF n = 0 THEN 0 ELSE 10 * upTo[n - 1] + s[n]
  IN upTo[Len(s)]

BlankFrom(s, e) == \A i \in e .. Len(s) : s[i] = Blank

\* The ways to read a text as <token>,<id>,<row>,<col>,<severity>: where its four
\* commas are, and where its last number ends.
Marks(s) ==
  LET commas == {i \in 1 .. Len(s) : s[i] = Comma}
  IN {m \in commas \X commas \X commas \X commas \X (1 .. Len(s) + 1) :
        /\ m[1] < m[2] /\ m[2] < m[3] /\ m[3] < m[4] /\ m[4] < m[5]
        /\ commas = {m[1], m[2], m[3], m[4]}
        /\ Cut(s, 0, m[1]) = Token
        /\ \A i \in 1 .. 4 : IsNumber(Cut(s, m[i], m[i + 1]))
        /\ BlankFrom(s, m[5])}

\* The fault a text then says.
FaultAt(s, m) ==
  [id |-> Decimal(Cut(s, m[1], m[2])), row |-> Decimal(Cut(s, m[2], m[3])),
   col |-> Decimal(Cut(s, m[3], m[4])), severity |-> Decimal(Cut(s, m[4], m[5]))]

Readings(s) == {FaultAt(s, m) : m \in Marks(s)}

\* A fault that names its panel twice in the same way, by number and by place.
NamesPanel(f) ==
  OnGrid(f.row, f.col) /\ f.id = GridToId(f.row, f.col) /\ f.severity \in 1 .. 255

IsStopText(s) ==
  /\ Len(s) >= Len(Token) /\ SubSeq(s, 1, Len(Token)) = Token
  /\ BlankFrom(s, Len(Token) + 1)

-----------------------------------------------------------------------------
(* Properties.                                                             *)

Byte == 0 .. 255
Faults == [id : Byte, row : Byte, col : Byte, severity : Byte]

\* The cursor never passes the NUL that ends the text, and every number fits the
\* byte it is stored in.
TypeOK ==
  /\ head \in Heads /\ text \in Seq(0 .. 12)
  /\ place \in {"head", "token", "number", "digits", "blanks"}
  /\ p \in 1 .. Len(text) + 1
  /\ parsed \in Byte
  /\ values \in Seq(Byte) /\ Len(values) <= 4
  /\ verdict \in {"none", "fault", "stop", "refused"}
  /\ fault \in Faults

\* An accepted packet says what was written: the fault is a reading of the text,
\* its number and its place agree, and the track module drives to that place; a
\* stop is the token and nothing else.  And no command that follows the format is
\* refused, whatever zeros its numbers begin with and whatever blanks follow it.
AcceptsWhatIsWritten ==
  /\ verdict = "fault" =>
       /\ head = "FAULT" /\ fault \in Readings(text) /\ NamesPanel(fault)
       /\ RowOfId(FaultToTrackTarget(fault)) = fault.row
       /\ ColOfId(FaultToTrackTarget(fault)) = fault.col
  /\ verdict = "stop" => head = "STOP" /\ IsStopText(text)
  /\ verdict = "refused" =>
       /\ head = "FAULT" => \A f \in Readings(text) : ~NamesPanel(f)
       /\ head = "STOP" => ~IsStopText(text)
=============================================================================
