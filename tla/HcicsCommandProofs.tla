------------------------- MODULE HcicsCommandProofs -------------------------
(***************************************************************************)
(* Proofs about HcicsCommand, for every token and every text: the parser    *)
(* stays within the text and its numbers within a byte, a fault it accepts  *)
(* names its panel by number and by place in the same way, and it accepts   *)
(* what follows the format of hcics_protocol.h, as what it says, and        *)
(* nothing else.  The last needs what the parser has learnt of the text at  *)
(* each place (Found), that a text can be read in one way only (SameMarks), *)
(* and how the decimal value of a text grows with its digits.               *)
(***************************************************************************)
EXTENDS HcicsCommand, WellFoundedInduction, SequenceTheorems, TLAPS

\* How many numbers have been read at each place of the parser.
Counted ==
  /\ place \in {"head", "token"} => values = <<>>
  /\ place \in {"number", "digits"} => Len(values) <= 3
  /\ place = "blanks" /\ head # "STOP" => Len(values) = 4

\* An accepted fault has passed hcics_protocol_fault_is_valid and the grid check.
Accepted ==
  verdict = "fault" => FaultIsValid(fault) /\ OnGrid(fault.row, fault.col)

IInv == TypeOK /\ Counted /\ Accepted

\* A fault the parser accepts names the panel at its row and column, which is
\* where the track module drives.
AcceptedNamesPanel ==
  verdict = "fault" =>
    /\ NamesPanel(fault)
    /\ RowOfId(FaultToTrackTarget(fault)) = fault.row
    /\ ColOfId(FaultToTrackTarget(fault)) = fault.col

-----------------------------------------------------------------------------

\* The two numberings of hcics_protocol.c agree: a panel's number is that of its
\* row and column, and different panels have different places.
THEOREM GridNumbering ==
  /\ \A id \in 1 .. TargetMax :
       /\ OnGrid(RowOfId(id), ColOfId(id))
       /\ GridToId(RowOfId(id), ColOfId(id)) = id
  /\ \A row \in 1 .. 3, col \in 1 .. 3 :
       /\ GridToId(row, col) \in 1 .. TargetMax
       /\ RowOfId(GridToId(row, col)) = row /\ ColOfId(GridToId(row, col)) = col
BY DEF TargetMax, GridCols, OnGrid, RowOfId, ColOfId, GridToId

\* A character that is not NUL lies within the text.
LEMMA CharWithin ==
  ASSUME TypeOK, Char # Nul
  PROVE  p + 1 \in 1 .. Len(text) + 1
<1>1. Len(text) \in Nat /\ p \in 1 .. Len(text) + 1 BY DEF TypeOK
<1>2. p <= Len(text) BY DEF Char
<1> QED BY <1>1, <1>2

\* Digits, commas, blanks and the characters of the token are not NUL.
LEMMA NotNul ==
  /\ \A d \in Digits : d # Nul
  /\ Comma # Nul /\ Blank # Nul
  /\ \A i \in 1 .. Len(Token) : Token[i] # Nul
BY TokenAssumption DEF Digits, Comma, Blank, Other, Nul

\* A number read before the last makes at most three.
LEMMA BelowThree ==
  ASSUME NEW n \in Nat, n <= 3, n # 3
  PROVE  n + 1 <= 3
OBVIOUS

\* An element of a sequence lies in the set the sequence is over.
LEMMA Element ==
  ASSUME NEW S, NEW s \in Seq(S), NEW i \in 1 .. Len(s)
  PROVE  s[i] \in S
OBVIOUS

\* The invariant holds before the first character is read.
LEMMA InitInv == Init => IInv
<1> SUFFICES ASSUME Init PROVE IInv OBVIOUS
<1>1. text \in Seq(0 .. 12) BY TokenAssumption DEF Init
<1>2. FaultDefaults \in Faults BY DEF FaultDefaults, Faults, Byte
<1>3. <<>> \in Seq(Byte) /\ Len(<<>>) = 0 OBVIOUS
<1> QED BY <1>1, <1>2, <1>3 DEF Init, IInv, TypeOK, Counted, Accepted, Byte

\* A refusal changes nothing but the verdict.
LEMMA RefuseStep ==
  ASSUME IInv, Packet, Refuse
  PROVE  IInv'
BY DEF IInv, TypeOK, Counted, Accepted, Packet, Refuse

\* The comparison of the head keeps the invariant.
LEMMA ReadHeadStep ==
  ASSUME IInv, ReadHead
  PROVE  IInv'
<1>1. CASE Refuse BY <1>1, RefuseStep DEF ReadHead, Reading
<1>2. CASE place' = "token" /\ UNCHANGED <<p, parsed, values, verdict, fault>>
  BY <1>2 DEF ReadHead, Reading, Packet, IInv, TypeOK, Counted, Accepted
<1> QED BY <1>1, <1>2 DEF ReadHead

\* hcics_parse_token_field: its cursor stays within the text.
LEMMA ReadTokenStep ==
  ASSUME IInv, ReadToken
  PROVE  IInv'
<1> USE DEF ReadToken, Reading
<1>1. CASE Refuse BY <1>1, RefuseStep
<1>2. CASE /\ p <= Len(Token) /\ Char = Token[p] /\ p' = p + 1
           /\ UNCHANGED <<place, parsed, values, verdict, fault>>
  <2>1. p \in 1 .. Len(Token) BY <1>2, TokenAssumption DEF IInv, TypeOK
  <2>2. Char # Nul BY <1>2, <2>1, NotNul
  <2>3. p' \in 1 .. Len(text) + 1 BY <1>2, <2>2, CharWithin DEF IInv
  <2> QED BY <1>2, <2>3 DEF Packet, IInv, TypeOK, Counted, Accepted
<1>3. CASE /\ head = "STOP" /\ place' = "blanks"
           /\ UNCHANGED <<p, parsed, values, verdict, fault>>
  BY <1>3 DEF Packet, IInv, TypeOK, Counted, Accepted
<1>4. CASE /\ Char = Comma /\ p' = p + 1 /\ place' = "number"
           /\ UNCHANGED <<parsed, values, verdict, fault>>
  <2>1. p' \in 1 .. Len(text) + 1 BY <1>4, NotNul, CharWithin DEF IInv
  <2>2. Len(values) = 0 BY DEF IInv, Counted
  <2> QED BY <1>4, <2>1, <2>2 DEF Packet, IInv, TypeOK, Counted, Accepted
<1> QED BY <1>1, <1>2, <1>3, <1>4

\* hcics_parse_uint_field: a digit is added only while the number fits a byte.
LEMMA NumberStep ==
  ASSUME IInv, BeginNumber \/ ReadDigit
  PROVE  IInv'
<1>1. CASE BeginNumber
  <2>1. CASE Refuse BY <1>1, <2>1, RefuseStep DEF BeginNumber, Reading
  <2>2. CASE /\ place' = "digits" /\ parsed' = 0
             /\ UNCHANGED <<p, values, verdict, fault>>
    BY <1>1, <2>2 DEF BeginNumber, Reading, Packet, IInv, TypeOK, Counted, Accepted, Byte
  <2> QED BY <1>1, <2>1, <2>2 DEF BeginNumber
<1>2. CASE ReadDigit
  <2>1. CASE Refuse BY <1>2, <2>1, RefuseStep DEF ReadDigit, Reading
  <2>2. CASE /\ ~(10 * parsed + Char > 255) /\ parsed' = 10 * parsed + Char
             /\ p' = p + 1 /\ UNCHANGED <<place, values, verdict, fault>>
    <3>1. Char \in Digits BY <1>2 DEF ReadDigit
    <3>2. p' \in 1 .. Len(text) + 1 BY <2>2, <3>1, NotNul, CharWithin DEF IInv
    <3>3. parsed' \in Byte BY <2>2, <3>1 DEF Digits, Byte, IInv, TypeOK
    <3> QED BY <1>2, <2>2, <3>2, <3>3
         DEF ReadDigit, Reading, Packet, IInv, TypeOK, Counted, Accepted
  <2> QED BY <1>2, <2>1, <2>2 DEF ReadDigit
<1> QED BY <1>1, <1>2

\* The end of a number: one more value, and never a fifth.
LEMMA EndNumberStep ==
  ASSUME IInv, EndNumber
  PROVE  IInv'
<1> USE DEF EndNumber, Reading
<1>1. CASE Refuse BY <1>1, RefuseStep
<1>2. ASSUME values' = Append(values, parsed)
      PROVE  values' \in Seq(Byte) /\ Len(values') = Len(values) + 1 /\ Len(values) <= 3
  BY <1>2 DEF IInv, TypeOK, Counted
<1>3. 0 \in Byte BY DEF Byte
<1>4. CASE /\ Len(values) = 3 /\ values' = Append(values, parsed)
           /\ place' = "blanks" /\ parsed' = 0 /\ UNCHANGED <<p, verdict, fault>>
  BY <1>2, <1>3, <1>4 DEF Packet, IInv, TypeOK, Counted, Accepted
<1>5. CASE /\ Len(values) # 3 /\ Char = Comma /\ values' = Append(values, parsed)
           /\ place' = "number" /\ p' = p + 1 /\ parsed' = 0
           /\ UNCHANGED <<verdict, fault>>
  <2>1. p' \in 1 .. Len(text) + 1 BY <1>5, NotNul, CharWithin DEF IInv
  <2>2. Len(values') <= 3
    <3>1. Len(values) \in Nat BY DEF IInv, TypeOK
    <3>2. Len(values) <= 3 /\ Len(values) # 3 BY <1>2, <1>5
    <3>3. Len(values') = Len(values) + 1 BY <1>2, <1>5
    <3>4. Len(values) + 1 <= 3 BY <3>1, <3>2, BelowThree
    <3> QED BY <3>3, <3>4
  <2> QED BY <1>2, <1>3, <1>5, <2>1, <2>2 DEF Packet, IInv, TypeOK, Counted, Accepted
<1> QED BY <1>1, <1>4, <1>5

\* The end of the text: an accepted fault has passed hcics_protocol_fault_is_valid.
LEMMA EndStep ==
  ASSUME IInv, SkipBlank \/ EndText
  PROVE  IInv'
<1>1. CASE SkipBlank
  <2>1. p' \in 1 .. Len(text) + 1 BY <1>1, NotNul, CharWithin DEF SkipBlank, IInv
  <2> QED BY <1>1, <2>1 DEF SkipBlank, Reading, Packet, IInv, TypeOK, Counted, Accepted
<1>2. CASE EndText
  <2>1. CASE Refuse BY <1>2, <2>1, RefuseStep DEF EndText, Reading
  <2>2. CASE verdict' = "stop" /\ UNCHANGED <<place, p, parsed, values, fault>>
    BY <1>2, <2>2 DEF EndText, Reading, Packet, IInv, TypeOK, Counted, Accepted
  <2>3. CASE /\ head # "STOP" /\ OnGrid(values[2], values[3]) /\ fault' = FaultRead
             /\ verdict' = (IF FaultIsValid(FaultRead) THEN "fault" ELSE "refused")
             /\ UNCHANGED <<place, p, parsed, values>>
    <3>1. Len(values) = 4 /\ values \in Seq(Byte)
      BY <1>2, <2>3 DEF EndText, IInv, TypeOK, Counted
    <3>2. FaultRead \in Faults
      <4>1. \A i \in 1 .. 4 : values[i] \in Byte BY <3>1, Element
      <4>2. values[1] \in Byte /\ values[2] \in Byte /\ values[3] \in Byte /\
            values[4] \in Byte
        BY <4>1
      <4> QED BY <4>2 DEF FaultRead, Faults
    <3>3. FaultRead.row = values[2] /\ FaultRead.col = values[3] BY DEF FaultRead
    <3>4. verdict' = "fault" => FaultIsValid(fault') /\ OnGrid(fault'.row, fault'.col)
      BY <2>3, <3>3
    <3>5. Accepted' BY <3>4 DEF Accepted, FaultIsValid, RowOfId, ColOfId, OnGrid
    <3>6. verdict' \in {"none", "fault", "stop", "refused"} BY <2>3
    <3> QED BY <1>2, <2>3, <3>2, <3>5, <3>6
         DEF EndText, Reading, Packet, IInv, TypeOK, Counted
  <2> QED BY <1>2, <2>1, <2>2, <2>3 DEF EndText
<1> QED BY <1>1, <1>2

\* Every step of the parser keeps the invariant.
LEMMA NextInv == IInv /\ [Next]_vars => IInv'
<1> SUFFICES ASSUME IInv, [Next]_vars PROVE IInv' OBVIOUS
<1>1. CASE Next
  BY <1>1, ReadHeadStep, ReadTokenStep, NumberStep, EndNumberStep, EndStep DEF Next
<1>2. CASE UNCHANGED vars BY <1>2 DEF vars, IInv, TypeOK, Counted, Accepted
<1> QED BY <1>1, <1>2

\* The invariant of the parser holds.
THEOREM Invariance == Spec => []IInv
BY InitInv, NextInv, PTL DEF Spec

\* The cursor never passes the NUL that ends the text, and every number fits the
\* byte it is stored in, for every packet and every token.
THEOREM TypeCorrect == Spec => []TypeOK
<1>1. IInv => TypeOK BY DEF IInv
<1> QED BY <1>1, Invariance, PTL

\* A fault the parser accepts names one panel, by number and by place, and the
\* track module drives to it.
THEOREM AcceptedFaultNamesPanel == Spec => []AcceptedNamesPanel
<1>1. IInv => AcceptedNamesPanel
  <2> SUFFICES ASSUME IInv, verdict = "fault"
               PROVE  /\ NamesPanel(fault)
                      /\ RowOfId(FaultToTrackTarget(fault)) = fault.row
                      /\ ColOfId(FaultToTrackTarget(fault)) = fault.col
    BY DEF AcceptedNamesPanel
  <2>1. FaultIsValid(fault) /\ OnGrid(fault.row, fault.col) BY DEF IInv, Accepted
  <2>2. fault.severity \in 1 .. 255
    BY <2>1 DEF IInv, TypeOK, Faults, Byte, FaultIsValid
  <2>3. fault.id = GridToId(fault.row, fault.col) BY <2>1, GridNumbering DEF FaultIsValid
  <2>4. FaultToTrackTarget(fault) = fault.id BY <2>1 DEF FaultToTrackTarget
  <2> QED BY <2>1, <2>2, <2>3, <2>4 DEF NamesPanel, FaultIsValid
<1> QED BY <1>1, Invariance, PTL

-----------------------------------------------------------------------------
(* Numbers.                                                                *)

\* A set of natural numbers that is not empty has a least element.
LEMMA LeastNumber ==
  ASSUME NEW T, T \subseteq Nat, T # {}
  PROVE  \E x \in T : \A y \in T : x <= y
<1> DEFINE R == OpToRel(<, Nat)
<1>1. IsWellFoundedOn(R, Nat)
  BY Zenon, NatLessThanWellFounded
<1>2. \A y, x \in Nat : y < x => <<y, x>> \in R
  BY DEF OpToRel
<1> HIDE DEF R
<1>3. PICK x \in T : \A y \in T : ~(<<y, x>> \in R)
  BY Zenon, <1>1, WFMin
<1>4. \A y \in T : ~(y < x)
  BY Zenon, <1>2, <1>3
<1>5. \A y \in T : x <= y
  BY <1>4
<1> QED
  BY Zenon, <1>5

\* Induction, for sets: the library's principle has an operator as its parameter.
LEMMA SetInduction ==
  ASSUME NEW S, 0 \in S, \A n \in Nat : n \in S => n + 1 \in S
  PROVE  Nat \subseteq S
<1> DEFINE T == Nat \ S
<1> SUFFICES ASSUME T # {} PROVE FALSE
  OBVIOUS
<1>1. PICK x \in T : \A y \in T : x <= y
  BY LeastNumber
<1>2. x # 0 /\ x - 1 \in Nat /\ x - 1 \in S
  BY <1>1
<1> QED
  BY <1>2

\* The values of the beginnings of a text of digits.
Steps(f, s, n) == f = [i \in 0 .. n |-> IF i = 0 THEN 0 ELSE 10 * f[i - 1] + s[i]]
Values(s) == CHOOSE f : Steps(f, s, Len(s))

\* The value of a text is the last of them.
LEMMA DecimalIs == \A s : Decimal(s) = Values(s)[Len(s)]
BY Zenon DEF Decimal, Values, Steps

\* They exist.
LEMMA StepsExist ==
  ASSUME NEW s, NEW n \in Nat
  PROVE  \E f : Steps(f, s, n)
<1> DEFINE S == {k \in Nat : \E f : Steps(f, s, k)}
<1>1. 0 \in S
  <2> DEFINE f == [i \in 0 .. 0 |-> 0]
  <2>1. Steps(f, s, 0)
    BY DEF Steps
  <2> QED
    BY <2>1
<1>2. ASSUME NEW k \in Nat, k \in S PROVE k + 1 \in S
  <2>1. PICK f : Steps(f, s, k)
    BY <1>2
  <2> DEFINE g == [i \in 0 .. k + 1 |-> IF i = k + 1 THEN 10 * f[k] + s[k + 1] ELSE f[i]]
  <2>2. ASSUME NEW i \in 0 .. k + 1
        PROVE  g[i] = IF i = 0 THEN 0 ELSE 10 * g[i - 1] + s[i]
    <3>1. CASE i = k + 1
      BY <3>1
    <3>2. CASE i \in 0 .. k
      <4>1. f[i] = IF i = 0 THEN 0 ELSE 10 * f[i - 1] + s[i]
        BY <2>1, <3>2 DEF Steps
      <4> QED
        BY <3>2, <4>1
    <3> QED
      BY <3>1, <3>2
  <2> DEFINE h == [i \in 0 .. k + 1 |-> IF i = 0 THEN 0 ELSE 10 * g[i - 1] + s[i]]
  <2>3. g = h
    BY <2>2
  <2> HIDE DEF g
  <2>4. Steps(g, s, k + 1)
    BY Zenon, <2>3 DEF Steps
  <2> QED
    BY <2>4
<1> HIDE DEF S
<1>3. n \in S
  BY <1>1, <1>2, SetInduction
<1> QED
  BY <1>3 DEF S

\* The recursion that defines them.
LEMMA ValuesStep ==
  ASSUME NEW s \in Seq(Digits)
  PROVE  /\ Values(s)[0] = 0
         /\ \A i \in 1 .. Len(s) : Values(s)[i] = 10 * Values(s)[i - 1] + s[i]
<1>1. Len(s) \in Nat
  OBVIOUS
<1>2. \E f : Steps(f, s, Len(s))
  BY <1>1, StepsExist
<1>3. Steps(Values(s), s, Len(s))
  BY Zenon, <1>2 DEF Values
<1> DEFINE v == Values(s)
<1> HIDE DEF v
<1>4. v = [i \in 0 .. Len(s) |-> IF i = 0 THEN 0 ELSE 10 * v[i - 1] + s[i]]
  BY Zenon, <1>3 DEF Steps, v
<1>5. \A i \in 0 .. Len(s) : v[i] = IF i = 0 THEN 0 ELSE 10 * v[i - 1] + s[i]
  BY Zenon, <1>4
<1>6. v[0] = 0 /\ \A i \in 1 .. Len(s) : v[i] = 10 * v[i - 1] + s[i]
  BY <1>1, <1>5
<1> QED
  BY <1>6 DEF v

\* They are natural numbers.
LEMMA ValuesNat ==
  ASSUME NEW s \in Seq(Digits), NEW n \in 0 .. Len(s)
  PROVE  Values(s)[n] \in Nat
<1> DEFINE S == {k \in Nat : k <= Len(s) => Values(s)[k] \in Nat}
<1>1. 0 \in S
  BY ValuesStep
<1>2. ASSUME NEW k \in Nat, k \in S PROVE k + 1 \in S
  <2>1. CASE k + 1 <= Len(s)
    <3>1. s[k + 1] \in Digits /\ k + 1 \in 1 .. Len(s)
      BY <2>1
    <3>2. Values(s)[k + 1] = 10 * Values(s)[k] + s[k + 1]
      BY <3>1, ValuesStep
    <3>3. Values(s)[k] \in Nat
      BY <1>2, <3>1
    <3>4. Values(s)[k + 1] \in Nat
      <4>1. \A x \in Nat, y \in Digits : 10 * x + y \in Nat
        BY DEF Digits
      <4> QED
        BY <3>1, <3>2, <3>3, <4>1
    <3> QED
      BY <3>4
  <2>2. CASE ~(k + 1 <= Len(s))
    BY <2>2
  <2> QED
    BY <2>1, <2>2
<1> HIDE DEF S
<1>3. n \in S
  BY <1>1, <1>2, SetInduction
<1> QED
  BY <1>3 DEF S

\* A digit more never makes a number smaller.
LEMMA ValuesGrow ==
  ASSUME NEW s \in Seq(Digits), NEW n \in 0 .. Len(s)
  PROVE  Values(s)[n] <= Values(s)[Len(s)]
<1> DEFINE S == {k \in Nat : n + k <= Len(s) => Values(s)[n] <= Values(s)[n + k]}
<1>1. 0 \in S
  BY ValuesNat
<1>2. ASSUME NEW k \in Nat, k \in S PROVE k + 1 \in S
  <2>1. CASE n + (k + 1) <= Len(s)
    <3>1. s[n + (k + 1)] \in Digits /\ n + (k + 1) \in 1 .. Len(s) /\ n + k \in 0 .. Len(s)
      BY <2>1
    <3>2. Values(s)[n + (k + 1)] = 10 * Values(s)[n + k] + s[n + (k + 1)]
      <4>1. (n + (k + 1)) - 1 = n + k
        OBVIOUS
      <4> QED
        BY <3>1, <4>1, ValuesStep
    <3>3. Values(s)[n] \in Nat /\ Values(s)[n + k] \in Nat
      BY <3>1, ValuesNat
    <3>4. Values(s)[n] <= Values(s)[n + k]
      BY <1>2, <3>1
    <3>5. Values(s)[n] <= Values(s)[n + (k + 1)]
      <4>1. \A x \in Nat, y \in Nat, d \in Digits : x <= y => x <= 10 * y + d
        BY DEF Digits
      <4> QED
        BY <3>1, <3>2, <3>3, <3>4, <4>1
    <3> QED
      BY <3>5
  <2>2. CASE ~(n + (k + 1) <= Len(s))
    BY <2>2
  <2> QED
    BY <2>1, <2>2
<1> HIDE DEF S
<1>3. Len(s) - n \in Nat
  OBVIOUS
<1>4. Len(s) - n \in S
  BY <1>1, <1>2, <1>3, SetInduction
<1>5. n + (Len(s) - n) = Len(s)
  OBVIOUS
<1> QED
  BY <1>4, <1>5 DEF S

\* The value of a beginning of a text is the value of that beginning as a text.
LEMMA ValuesAgree ==
  ASSUME NEW s \in Seq(Digits), NEW t \in Seq(Digits), Len(t) <= Len(s),
         \A i \in 1 .. Len(t) : t[i] = s[i]
  PROVE  Decimal(t) = Values(s)[Len(t)]
<1> DEFINE S == {k \in Nat : k <= Len(t) => Values(t)[k] = Values(s)[k]}
<1>1. 0 \in S
  BY ValuesStep
<1>2. ASSUME NEW k \in Nat, k \in S PROVE k + 1 \in S
  <2>1. CASE k + 1 <= Len(t)
    <3>1. k + 1 \in 1 .. Len(t) /\ k + 1 \in 1 .. Len(s) /\ (k + 1) - 1 = k
      BY <2>1
    <3>2. Values(t)[k + 1] = 10 * Values(t)[k] + t[k + 1]
      BY <3>1, ValuesStep
    <3>3. Values(s)[k + 1] = 10 * Values(s)[k] + s[k + 1]
      BY <3>1, ValuesStep
    <3>4. Values(t)[k] = Values(s)[k] /\ t[k + 1] = s[k + 1]
      BY <1>2, <3>1
    <3> QED
      BY <3>2, <3>3, <3>4
  <2>2. CASE ~(k + 1 <= Len(t))
    BY <2>2
  <2> QED
    BY <2>1, <2>2
<1> HIDE DEF S
<1>3. Len(t) \in S
  BY <1>1, <1>2, SetInduction
<1>4. Values(t)[Len(t)] = Values(s)[Len(t)]
  BY <1>3 DEF S
<1> QED
  BY <1>4, DecimalIs

-----------------------------------------------------------------------------
(* The parts of a text.                                                    *)

\* Between two positions stand only characters of a set; of digits this is a run.
Over(S, s, a, b) ==
  /\ a \in Nat /\ b \in Nat /\ a < b
  /\ \A i \in a + 1 .. b - 1 : s[i] \in S
Run(s, a, b) == Over(Digits, s, a, b)

\* What Cut returns.
LEMMA CutIs ==
  ASSUME NEW S, NEW s, NEW a, NEW b, Over(S, s, a, b)
  PROVE  /\ Cut(s, a, b) \in Seq(S)
         /\ Len(Cut(s, a, b)) = b - a - 1
         /\ \A i \in 1 .. b - a - 1 : Cut(s, a, b)[i] = s[a + i]
<1>1. /\ a \in Nat /\ b \in Nat /\ a < b
      /\ \A i \in a + 1 .. b - 1 : s[i] \in S
  BY DEF Over
<1> DEFINE c == SubSeq(s, a + 1, b - 1)
<1>2. /\ c \in Seq(S)
      /\ Len(c) = IF a + 1 <= b - 1 THEN (b - 1) - (a + 1) + 1 ELSE 0
      /\ \A i \in 1 .. (b - 1) - (a + 1) + 1 : c[i] = s[(a + 1) + i - 1]
  BY <1>1, SubSeqProperties
<1>3. c = Cut(s, a, b)
  BY DEF Cut
<1> HIDE DEF c
<1>4. Len(c) = b - a - 1
  BY <1>1, <1>2
<1>5. \A i \in 1 .. b - a - 1 : c[i] = s[a + i]
  BY <1>1, <1>2
<1> QED
  BY <1>2, <1>3, <1>4, <1>5

\* Before its first digit a number is zero.
LEMMA RunEmpty ==
  ASSUME NEW s, NEW a \in Nat
  PROVE  Run(s, a, a + 1) /\ Decimal(Cut(s, a, a + 1)) = 0
<1>1. Over(Digits, s, a, a + 1)
  BY DEF Over
<1> DEFINE t == Cut(s, a, a + 1)
<1>2. t \in Seq(Digits) /\ Len(t) = (a + 1) - a - 1
  BY <1>1, CutIs
<1> HIDE DEF t
<1>3. Len(t) = 0
  BY <1>2
<1>4. Values(t)[0] = 0
  BY <1>2, ValuesStep
<1> QED
  BY <1>1, <1>3, <1>4, DecimalIs DEF t, Run

\* The value of a part of a run is one of the values of the run.
LEMMA RunPart ==
  ASSUME NEW s, NEW a, NEW b, NEW c, Run(s, a, b), Run(s, a, c), b <= c
  PROVE  /\ Cut(s, a, c) \in Seq(Digits) /\ Len(Cut(s, a, c)) = c - a - 1
         /\ Decimal(Cut(s, a, b)) = Values(Cut(s, a, c))[b - a - 1]
<1>1. a \in Nat /\ b \in Nat /\ c \in Nat /\ a < b
  BY DEF Run, Over
<1> DEFINE t == Cut(s, a, b)
           u == Cut(s, a, c)
<1>2. /\ t \in Seq(Digits) /\ Len(t) = b - a - 1
      /\ \A i \in 1 .. b - a - 1 : t[i] = s[a + i]
  BY CutIs DEF Run
<1>3. /\ u \in Seq(Digits) /\ Len(u) = c - a - 1
      /\ \A i \in 1 .. c - a - 1 : u[i] = s[a + i]
  BY CutIs DEF Run
<1> HIDE DEF t, u
<1>4. Len(t) <= Len(u) /\ \A i \in 1 .. Len(t) : t[i] = u[i]
  BY <1>1, <1>2, <1>3
<1>5. Decimal(t) = Values(u)[Len(t)]
  BY <1>2, <1>3, <1>4, ValuesAgree
<1> QED
  BY <1>2, <1>3, <1>5 DEF t, u

\* A number's value is a natural number.
LEMMA RunNat ==
  ASSUME NEW s, NEW a, NEW b, Run(s, a, b)
  PROVE  Decimal(Cut(s, a, b)) \in Nat
<1>1. a \in Nat /\ b \in Nat /\ a < b
  BY DEF Run, Over
<1> DEFINE u == Cut(s, a, b)
<1>2. u \in Seq(Digits) /\ Len(u) = b - a - 1
  BY CutIs DEF Run
<1> HIDE DEF u
<1>3. Len(u) \in 0 .. Len(u)
  BY <1>1, <1>2
<1>4. Decimal(u) \in Nat
  BY <1>2, <1>3, ValuesNat, DecimalIs
<1> QED
  BY <1>4 DEF u

\* One digit more.
LEMMA RunNext ==
  ASSUME NEW s, NEW a, NEW b, Run(s, a, b), s[b] \in Digits
  PROVE  /\ Run(s, a, b + 1)
         /\ Decimal(Cut(s, a, b + 1)) = 10 * Decimal(Cut(s, a, b)) + s[b]
<1>1. a \in Nat /\ b \in Nat /\ a < b /\ b <= b + 1
  BY DEF Run, Over
<1>2. Run(s, a, b + 1)
  BY DEF Run, Over
<1> DEFINE u == Cut(s, a, b + 1)
           n == b - a
<1>3. Decimal(Cut(s, a, b)) = Values(u)[b - a - 1]
  <2> DEFINE c == b + 1
  <2>1. Run(s, a, c) /\ b <= c
    BY <1>1, <1>2
  <2> HIDE DEF c
  <2>2. Decimal(Cut(s, a, b)) = Values(Cut(s, a, c))[b - a - 1]
    BY <2>1, RunPart
  <2> QED
    BY <2>2 DEF c
<1>4. Decimal(u) = Values(u)[Len(u)]
  BY DecimalIs
<1>5. /\ u \in Seq(Digits) /\ Len(u) = (b + 1) - a - 1
      /\ \A i \in 1 .. (b + 1) - a - 1 : u[i] = s[a + i]
  BY <1>2, CutIs DEF Run
<1> HIDE DEF u
<1>6. n = Len(u) /\ n \in 1 .. Len(u) /\ n - 1 = b - a - 1 /\ u[n] = s[b]
  BY <1>1, <1>5
<1>7. Values(u)[n] = 10 * Values(u)[n - 1] + u[n]
  BY <1>5, <1>6, ValuesStep
<1>8. Decimal(u) = 10 * Decimal(Cut(s, a, b)) + s[b]
  BY <1>3, <1>4, <1>6, <1>7
<1> QED
  BY <1>2, <1>8 DEF u

\* More digits never make a number smaller.
LEMMA RunGrows ==
  ASSUME NEW s, NEW a, NEW b, NEW c, Run(s, a, b), Run(s, a, c), b <= c
  PROVE  Decimal(Cut(s, a, b)) <= Decimal(Cut(s, a, c))
<1>1. a \in Nat /\ b \in Nat /\ c \in Nat /\ a < b
  BY DEF Run, Over
<1> DEFINE u == Cut(s, a, c)
<1>2. /\ u \in Seq(Digits) /\ Len(u) = c - a - 1
      /\ Decimal(Cut(s, a, b)) = Values(u)[b - a - 1]
  BY RunPart
<1>3. Decimal(u) = Values(u)[Len(u)]
  BY DecimalIs
<1> HIDE DEF u
<1>4. b - a - 1 \in 0 .. Len(u)
  BY <1>1, <1>2
<1>5. Values(u)[b - a - 1] <= Values(u)[Len(u)]
  BY <1>2, <1>4, ValuesGrow
<1> QED
  BY <1>2, <1>3, <1>5 DEF u

\* A number can end here: there is no digit.
Ends(s, e) == e \in 1 .. Len(s) + 1 /\ (e <= Len(s) => s[e] \notin Digits)

\* Digits that begin at the same position end at the same position.
LEMMA RunEndsOnce ==
  ASSUME NEW s, Len(s) \in Nat, NEW a, NEW b, NEW c,
         Run(s, a, b), Ends(s, b), Run(s, a, c), Ends(s, c)
  PROVE  b = c
<1>1. /\ a \in Nat /\ b \in Nat /\ c \in Nat /\ a < b /\ a < c
      /\ \A i \in a + 1 .. b - 1 : s[i] \in Digits
      /\ \A i \in a + 1 .. c - 1 : s[i] \in Digits
  BY DEF Run, Over
<1>2. /\ b <= Len(s) + 1 /\ (b <= Len(s) => s[b] \notin Digits)
      /\ c <= Len(s) + 1 /\ (c <= Len(s) => s[c] \notin Digits)
  BY DEF Ends
<1> QED
  BY <1>1, <1>2

\* Commas and blanks are no digits, and no characters of the token.
LEMMA Signs ==
  /\ Comma \notin Digits /\ Blank \notin Digits /\ Comma # Blank
  /\ Len(Token) \in Nat /\ \A i \in 1 .. Len(Token) : Token[i] # Comma
  /\ Nul # Blank
<1>1. \A i \in 1 .. Len(Token) : Token[i] \in Digits \cup {Other}
  BY TokenAssumption, Element
<1>2. Len(Token) \in Nat
  BY TokenAssumption
<1> QED
  BY <1>1, <1>2 DEF Comma, Blank, Digits, Other, Nul

\* A text beginning that equals the token.
LEMMA BeginsIs ==
  ASSUME NEW s \in Seq(0 .. 12), NEW e \in Nat, 0 < e, e <= Len(s) + 1, Cut(s, 0, e) = Token
  PROVE  e = Len(Token) + 1 /\ \A i \in 1 .. Len(Token) : s[i] = Token[i]
<1>1. Over(0 .. 12, s, 0, e)
  <2>1. \A i \in 1 .. Len(s) : s[i] \in 0 .. 12
    BY Element
  <2> QED
    BY <2>1 DEF Over
<1>2. /\ Len(Token) = e - 0 - 1
      /\ \A i \in 1 .. e - 0 - 1 : Token[i] = s[0 + i]
  BY <1>1, CutIs
<1> QED
  BY <1>2, Signs

\* A part of a text that is a number.
LEMMA NumberIs ==
  ASSUME NEW S, NEW s, NEW a, NEW b, Over(S, s, a, b), IsNumber(Cut(s, a, b))
  PROVE  Run(s, a, b) /\ a + 1 < b
<1> DEFINE c == Cut(s, a, b)
<1>1. /\ c \in Seq(S) /\ Len(c) = b - a - 1
      /\ \A i \in 1 .. b - a - 1 : c[i] = s[a + i]
  BY CutIs
<1>2. c # <<>> /\ \A i \in 1 .. Len(c) : c[i] \in Digits
  BY DEF IsNumber
<1>3. a \in Nat /\ b \in Nat /\ a < b
  BY DEF Over
<1> HIDE DEF c
<1>4. Len(c) # 0
  BY <1>1, <1>2
<1>5. \A i \in a + 1 .. b - 1 : s[i] \in Digits
  <2> TAKE i \in a + 1 .. b - 1
  <2>1. i - a \in 1 .. b - a - 1 /\ a + (i - a) = i
    BY <1>3
  <2>2. c[i - a] = s[i] /\ c[i - a] \in Digits
    BY <1>1, <1>2, <2>1
  <2> QED
    BY <2>2
<1> QED
  BY <1>1, <1>3, <1>4, <1>5 DEF Run, Over

\* What a way to read a text says of its characters.
LEMMA MarksAre ==
  ASSUME NEW s \in Seq(0 .. 12), NEW m \in Marks(s)
  PROVE  /\ m[1] = Len(Token) + 1 /\ \A i \in 1 .. Len(Token) : i <= Len(s) /\ s[i] = Token[i]
         /\ \A i \in 1 .. 4 : /\ m[i] \in 1 .. Len(s) /\ s[m[i]] = Comma
                              /\ m[i] + 1 < m[i + 1] /\ Run(s, m[i], m[i + 1])
         /\ \A i \in 1 .. 5 : m[i] \in Nat /\ Ends(s, m[i])
         /\ BlankFrom(s, m[5])
<1>0. Len(s) \in Nat
  OBVIOUS
<1>1. /\ m[1] \in 1 .. Len(s) /\ s[m[1]] = Comma
      /\ m[2] \in 1 .. Len(s) /\ s[m[2]] = Comma
      /\ m[3] \in 1 .. Len(s) /\ s[m[3]] = Comma
      /\ m[4] \in 1 .. Len(s) /\ s[m[4]] = Comma
      /\ m[5] \in 1 .. Len(s) + 1
  BY DEF Marks
<1>2. /\ m[1] < m[2] /\ m[2] < m[3] /\ m[3] < m[4] /\ m[4] < m[5]
      /\ Cut(s, 0, m[1]) = Token /\ BlankFrom(s, m[5])
      /\ \A i \in 1 .. 4 : IsNumber(Cut(s, m[i], m[i + 1]))
  BY DEF Marks
<1>3. m[1] = Len(Token) + 1 /\ \A i \in 1 .. Len(Token) : s[i] = Token[i]
  BY <1>0, <1>1, <1>2, BeginsIs
<1>4. \A i \in 1 .. 4 : /\ m[i] \in Nat /\ m[i + 1] \in Nat /\ m[i] < m[i + 1]
                        /\ m[i + 1] <= Len(s) + 1
  BY <1>0, <1>1, <1>2
<1>5. \A i \in 1 .. 4 : m[i] + 1 < m[i + 1] /\ Run(s, m[i], m[i + 1])
  <2>1. \A i \in 1 .. Len(s) : s[i] \in 0 .. 12
    BY Element
  <2>2. \A i \in 1 .. 4 : Over(0 .. 12, s, m[i], m[i + 1])
    <3> TAKE i \in 1 .. 4
    <3> DEFINE a == m[i]
               b == m[i + 1]
    <3>1. a \in Nat /\ b \in Nat /\ a < b /\ b <= Len(s) + 1
      BY <1>4
    <3> HIDE DEF a, b
    <3>2. Over(0 .. 12, s, a, b)
      BY <1>0, <2>1, <3>1 DEF Over
    <3> QED
      BY <3>2 DEF a, b
  <2> QED
    BY <1>2, <2>2, NumberIs
<1>6. \A i \in 1 .. 4 : m[i] \in 1 .. Len(s) /\ s[m[i]] = Comma
  BY <1>1
<1>7. m[5] <= Len(s) => s[m[5]] = Blank
  BY <1>0, <1>1, <1>2 DEF BlankFrom
<1>8. \A i \in 1 .. 5 : m[i] \in Nat /\ Ends(s, m[i])
  <2>1. \A i \in 1 .. 4 : m[i] \in Nat /\ Ends(s, m[i])
    <3> TAKE i \in 1 .. 4
    <3> DEFINE e == m[i]
    <3>1. e \in 1 .. Len(s) /\ s[e] = Comma
      BY <1>6
    <3> HIDE DEF e
    <3>2. e \in Nat /\ Ends(s, e)
      BY <1>0, <3>1, Signs DEF Ends
    <3> QED
      BY <3>2 DEF e
  <2>2. m[5] \in Nat /\ Ends(s, m[5])
    BY <1>0, <1>1, <1>7, Signs DEF Ends
  <2> QED
    BY <2>1, <2>2
<1> QED
  BY <1>0, <1>1, <1>2, <1>3, <1>5, <1>6, <1>8, Signs

-----------------------------------------------------------------------------
(* What has been read.                                                     *)

\* The marks a parser has found that has read these numbers: the comma behind the
\* token, and for each number where it ends, with a comma unless it is the last.
Reached(s, m, vals) ==
  /\ m \in [1 .. 5 -> Nat] /\ Len(vals) \in Nat /\ Len(vals) <= 4
  /\ m[1] = Len(Token) + 1 /\ m[1] <= Len(s) /\ s[m[1]] = Comma
  /\ \A i \in 1 .. Len(Token) : s[i] = Token[i]
  /\ \A i \in 1 .. Len(vals) :
       /\ m[i] + 1 < m[i + 1] /\ Run(s, m[i], m[i + 1]) /\ Ends(s, m[i + 1])
       /\ vals[i] = Decimal(Cut(s, m[i], m[i + 1]))
       /\ i <= 3 => m[i + 1] <= Len(s) /\ s[m[i + 1]] = Comma

\* A text can be read in one way only: its marks are those the parser finds.
LEMMA SameMarks ==
  ASSUME NEW s \in Seq(0 .. 12), NEW m, NEW vals, Reached(s, m, vals),
         NEW w \in Marks(s)
  PROVE  \A i \in 1 .. Len(vals) + 1 : w[i] = m[i]
<1>0. Len(vals) \in Nat /\ Len(vals) <= 4
  BY DEF Reached
<1>1. w[1] = m[1]
  BY MarksAre DEF Reached
<1>2. ASSUME NEW i \in 1 .. Len(vals), w[i] = m[i] PROVE w[i + 1] = m[i + 1]
  <2>1. i \in 1 .. 4 /\ i + 1 \in 1 .. 5 /\ Len(s) \in Nat
    BY <1>0
  <2>2. Run(s, w[i], w[i + 1]) /\ Ends(s, w[i + 1])
    BY <2>1, MarksAre
  <2>3. Run(s, m[i], m[i + 1]) /\ Ends(s, m[i + 1])
    BY DEF Reached
  <2> QED
    BY <1>2, <2>1, <2>2, <2>3, RunEndsOnce
<1>3. Len(vals) >= 1 => w[2] = m[2]
  BY <1>0, <1>1, <1>2
<1>4. Len(vals) >= 2 => w[3] = m[3]
  BY <1>0, <1>2, <1>3
<1>5. Len(vals) >= 3 => w[4] = m[4]
  BY <1>0, <1>2, <1>4
<1>6. Len(vals) >= 4 => w[5] = m[5]
  BY <1>0, <1>2, <1>5
<1> QED
  BY <1>0, <1>1, <1>3, <1>4, <1>5, <1>6

\* No way to read the text says a fault that names a panel; or the text is no stop.
Wrong ==
  /\ head = "FAULT" => \A w \in Marks(text) : ~NamesPanel(FaultAt(text, w))
  /\ head = "STOP" => ~IsStopText(text)

\* The numbers of a fault that names a panel fit a byte.
LEMMA PanelBytes ==
  ASSUME NEW s \in Seq(0 .. 12), NEW w \in Marks(s), NamesPanel(FaultAt(s, w)),
         NEW i \in 1 .. 4
  PROVE  Decimal(Cut(s, w[i], w[i + 1])) \in Byte
<1> DEFINE f == FaultAt(s, w)
<1>1. /\ f.id = Decimal(Cut(s, w[1], w[2])) /\ f.row = Decimal(Cut(s, w[2], w[3]))
      /\ f.col = Decimal(Cut(s, w[3], w[4])) /\ f.severity = Decimal(Cut(s, w[4], w[5]))
  BY DEF FaultAt
<1>2. NamesPanel(f)
  OBVIOUS
<1> HIDE DEF f
<1>3. f.id \in Byte /\ f.row \in Byte /\ f.col \in Byte /\ f.severity \in Byte
  <2>1. f.row \in 1 .. 3 /\ f.col \in 1 .. 3
    BY <1>2 DEF NamesPanel, OnGrid
  <2>2. f.id = GridToId(f.row, f.col) /\ f.severity \in 1 .. 255
    BY <1>2 DEF NamesPanel
  <2>3. GridToId(f.row, f.col) \in 1 .. 9
    BY <2>1, GridNumbering DEF TargetMax
  <2> QED
    <3>1. 1 .. 3 \subseteq Byte /\ 1 .. 9 \subseteq Byte /\ 1 .. 255 \subseteq Byte
      BY DEF Byte
    <3>2. f.row \in Byte /\ f.col \in Byte
      BY Zenon, <2>1, <3>1
    <3>3. f.id \in Byte
      BY Zenon, <2>2, <2>3, <3>1
    <3>4. f.severity \in Byte
      BY Zenon, <2>2, <3>1
    <3> QED
      BY Zenon, <3>2, <3>3, <3>4
<1>4. i = 1 \/ i = 2 \/ i = 3 \/ i = 4
  OBVIOUS
<1> QED
  BY <1>1, <1>3, <1>4

\* The parser refuses in the token: no such text follows the format.
LEMMA WrongToken ==
  ASSUME TypeOK, p <= Len(Token), Char # Token[p]
  PROVE  Wrong
<1>1. p \in 1 .. Len(Token) /\ text \in Seq(0 .. 12) /\ Len(text) \in Nat
  BY Signs DEF TypeOK
<1>2. ASSUME p <= Len(text), text[p] = Token[p] PROVE FALSE
  BY <1>2 DEF Char
<1>3. ASSUME NEW w \in Marks(text) PROVE FALSE
  BY <1>1, <1>2, <1>3, MarksAre
<1>4. ASSUME IsStopText(text) PROVE FALSE
  <2>1. Len(Token) <= Len(text) /\ SubSeq(text, 1, Len(Token)) = Token
    BY <1>4, Signs DEF IsStopText
  <2>2. Cut(text, 0, Len(Token) + 1) = Token
    BY <2>1, Signs DEF Cut
  <2>3. \A i \in 1 .. Len(Token) : text[i] = Token[i]
    BY <1>1, <2>1, <2>2, Signs, BeginsIs
  <2> QED
    BY <1>1, <1>2, <2>1, <2>3, Signs
<1> QED
  BY <1>3, <1>4 DEF Wrong

\* The comma behind the token is missing.
LEMMA WrongDelimiter ==
  ASSUME TypeOK, head = "FAULT", p = Len(Token) + 1, Char # Comma
  PROVE  Wrong
<1>1. ASSUME NEW w \in Marks(text) PROVE FALSE
  <2>1. text \in Seq(0 .. 12) /\ Len(text) \in Nat
    BY DEF TypeOK
  <2>2. w[1] = p /\ w[1] \in 1 .. Len(text) /\ text[w[1]] = Comma
    BY <2>1, MarksAre
  <2> QED
    BY <2>1, <2>2 DEF Char
<1> QED
  BY <1>1 DEF Wrong

\* There is no digit where a number should begin.
LEMMA WrongNumber ==
  ASSUME TypeOK, head = "FAULT", NEW m, Reached(text, m, values), Len(values) <= 3,
         p = m[Len(values) + 1] + 1, Char \notin Digits
  PROVE  Wrong
<1>1. ASSUME NEW w \in Marks(text) PROVE FALSE
  <2> DEFINE k == Len(values) + 1
  <2>1. text \in Seq(0 .. 12) /\ Len(text) \in Nat /\ k \in 1 .. 4
        /\ Len(values) \in Nat /\ Len(values) <= 4
    BY DEF TypeOK
  <2>2. w[k] = m[k]
    BY <2>1, SameMarks
  <2> HIDE DEF k
  <2>3. /\ w[k] \in Nat /\ w[k + 1] \in Nat /\ w[k] + 1 < w[k + 1]
        /\ Run(text, w[k], w[k + 1]) /\ Ends(text, w[k + 1])
    <3>1. \A i \in 1 .. 4 : w[i] + 1 < w[i + 1] /\ Run(text, w[i], w[i + 1])
      BY <2>1, MarksAre
    <3>2. \A i \in 1 .. 5 : w[i] \in Nat /\ Ends(text, w[i])
      BY <2>1, MarksAre
    <3>3. k \in 1 .. 5 /\ k + 1 \in 1 .. 5
      BY <2>1
    <3> QED
      BY <2>1, <3>1, <3>2, <3>3
  <2>4. p = w[k] + 1
    BY <2>2 DEF k
  <2> DEFINE a == w[k]
             b == w[k + 1]
  <2>5. text[p] \in Digits /\ p <= Len(text)
    <3>1. a \in Nat /\ b \in Nat /\ a + 1 < b /\ b <= Len(text) + 1 /\ p = a + 1
      BY <2>3, <2>4 DEF Ends
    <3>2. \A i \in a + 1 .. b - 1 : text[i] \in Digits
      BY <2>3 DEF Run, Over
    <3> HIDE DEF a, b
    <3>3. p \in a + 1 .. b - 1 /\ p <= Len(text)
      BY <2>1, <3>1
    <3> QED
      BY <3>2, <3>3
  <2> QED
    BY <2>5 DEF Char
<1> QED
  BY <1>1 DEF Wrong

\* A digit would take the number beyond a byte, and so would all that follow it.
LEMMA WrongDigit ==
  ASSUME TypeOK, head = "FAULT", NEW m, Reached(text, m, values), Len(values) <= 3,
         Run(text, m[Len(values) + 1], p),
         parsed = Decimal(Cut(text, m[Len(values) + 1], p)),
         Char \in Digits, 10 * parsed + Char > 255
  PROVE  Wrong
<1>1. ASSUME NEW w \in Marks(text), NamesPanel(FaultAt(text, w)) PROVE FALSE
  <2> DEFINE k == Len(values) + 1
             q == p + 1
  <2>1. text \in Seq(0 .. 12) /\ Len(text) \in Nat /\ k \in 1 .. 4
        /\ Len(values) \in Nat /\ Len(values) <= 4 /\ p \in Nat
    BY DEF TypeOK
  <2>2. w[k] = m[k]
    BY <2>1, SameMarks
  <2>3. Char = text[p] /\ p <= Len(text)
    BY NotNul DEF Char
  <2>4. Run(text, m[k], p) /\ parsed = Decimal(Cut(text, m[k], p))
    OBVIOUS
  <2> HIDE DEF k
  <2>5. Run(text, w[k], q) /\ Decimal(Cut(text, w[k], q)) = 10 * parsed + Char
    <3>1. Run(text, m[k], p + 1)
      BY <2>3, <2>4, RunNext
    <3>2. Decimal(Cut(text, m[k], p + 1)) = 10 * Decimal(Cut(text, m[k], p)) + text[p]
      BY <2>3, <2>4, RunNext
    <3> QED
      BY Zenon, <2>2, <2>3, <2>4, <3>1, <3>2
  <2>6. /\ w[k + 1] \in Nat /\ Run(text, w[k], w[k + 1]) /\ Ends(text, w[k + 1])
    <3>1. \A i \in 1 .. 4 : Run(text, w[i], w[i + 1])
      BY <2>1, MarksAre
    <3>2. \A i \in 1 .. 5 : w[i] \in Nat /\ Ends(text, w[i])
      BY <2>1, MarksAre
    <3>3. k + 1 \in 1 .. 5
      BY <2>1
    <3> QED
      BY <2>1, <3>1, <3>2, <3>3
  <2>7. q <= w[k + 1]
    <3> DEFINE a == w[k]
               b == w[k + 1]
    <3>1. /\ a \in Nat /\ b \in Nat /\ q \in Nat /\ a < b
          /\ \A i \in a + 1 .. q - 1 : text[i] \in Digits
      BY <2>1, <2>5, <2>6 DEF Run, Over
    <3>2. b <= Len(text) => text[b] \notin Digits
      BY <2>6 DEF Ends
    <3> HIDE DEF a, b
    <3>3. q <= b
      BY <2>1, <2>3, <3>1, <3>2
    <3> QED
      BY <3>3 DEF b
  <2> HIDE DEF q
  <2>8. Decimal(Cut(text, w[k], q)) <= Decimal(Cut(text, w[k], w[k + 1]))
    BY <2>5, <2>6, <2>7, RunGrows
  <2>9. Decimal(Cut(text, w[k], w[k + 1])) \in Byte
    BY <1>1, <2>1, PanelBytes
  <2>10. 10 * parsed + Char \in Nat
    BY DEF TypeOK, Byte, Digits
  <2> QED
    <3> DEFINE x == Decimal(Cut(text, w[k], q))
               y == Decimal(Cut(text, w[k], w[k + 1]))
    <3>1. x = 10 * parsed + Char /\ x \in Nat /\ x <= y /\ y \in Byte
      BY <2>5, <2>8, <2>9, <2>10
    <3>2. x > 255
      BY <3>1
    <3> HIDE DEF x, y
    <3> QED
      BY <3>1, <3>2 DEF Byte
<1> QED
  BY <1>1 DEF Wrong

\* A number but the last ends without a comma.
LEMMA WrongEnd ==
  ASSUME TypeOK, head = "FAULT", NEW m, Reached(text, m, values), Len(values) <= 2,
         Run(text, m[Len(values) + 1], p), Char \notin Digits, Char # Comma
  PROVE  Wrong
<1>1. ASSUME NEW w \in Marks(text) PROVE FALSE
  <2> DEFINE k == Len(values) + 1
  <2>1. text \in Seq(0 .. 12) /\ Len(text) \in Nat /\ k \in 1 .. 3 /\ k + 1 \in 1 .. 4
        /\ Len(values) \in Nat /\ Len(values) <= 4 /\ p \in 1 .. Len(text) + 1
    BY DEF TypeOK
  <2>2. w[k] = m[k]
    BY <2>1, SameMarks
  <2>3. Run(text, m[k], p)
    OBVIOUS
  <2> HIDE DEF k
  <2>4. Ends(text, p)
    BY <2>1 DEF Ends, Char
  <2>5. /\ Run(text, w[k], w[k + 1]) /\ Ends(text, w[k + 1])
        /\ w[k + 1] \in 1 .. Len(text) /\ text[w[k + 1]] = Comma
    <3>1. \A i \in 1 .. 4 : /\ Run(text, w[i], w[i + 1])
                            /\ w[i] \in 1 .. Len(text) /\ text[w[i]] = Comma
      BY <2>1, MarksAre
    <3>2. k \in 1 .. 4 /\ k + 1 \in 1 .. 5
      BY <2>1
    <3>3. \A i \in 1 .. 5 : Ends(text, w[i])
      BY <2>1, MarksAre
    <3> QED
      BY <2>1, <3>1, <3>2, <3>3
  <2>6. w[k + 1] = p
    BY <2>1, <2>2, <2>3, <2>4, <2>5, RunEndsOnce
  <2> QED
    BY <2>1, <2>5, <2>6 DEF Char
<1> QED
  BY <1>1 DEF Wrong

\* Once four numbers have been read, all marks are known.
LEMMA AllMarks ==
  ASSUME NEW s \in Seq(0 .. 12), NEW m, NEW vals, Reached(s, m, vals), NEW w \in Marks(s)
  PROVE  Len(vals) = 4 =>
           w[1] = m[1] /\ w[2] = m[2] /\ w[3] = m[3] /\ w[4] = m[4] /\ w[5] = m[5]
<1>1. \A i \in 1 .. Len(vals) + 1 : w[i] = m[i]
  BY SameMarks
<1> QED
  BY <1>1

\* Something stands behind the command.
LEMMA WrongTail ==
  ASSUME TypeOK, Char # Blank, Char # Nul,
         head = "FAULT" => \E m : Reached(text, m, values) /\ Len(values) = 4 /\ m[5] <= p,
         head = "STOP" => Len(Token) < p
  PROVE  Wrong
<1>1. text \in Seq(0 .. 12) /\ Len(text) \in Nat /\ p \in Nat /\ p <= Len(text)
      /\ text[p] # Blank
  BY DEF TypeOK, Char
<1>2. ASSUME head = "FAULT", NEW w \in Marks(text) PROVE FALSE
  <2>1. PICK m : Reached(text, m, values) /\ Len(values) = 4 /\ m[5] <= p
    BY <1>2
  <2>2. w[5] = m[5]
    BY <1>1, <2>1, AllMarks
  <2>3. BlankFrom(text, w[5]) /\ w[5] \in Nat
    BY <1>1, MarksAre
  <2> QED
    BY <1>1, <2>1, <2>2, <2>3 DEF BlankFrom
<1>3. ASSUME head = "STOP", IsStopText(text) PROVE FALSE
  BY <1>1, <1>3, Signs DEF IsStopText, BlankFrom
<1> QED
  BY <1>2, <1>3 DEF Wrong

\* All numbers have been read: the fault of the parser is what the text says.
LEMMA ReadsFault ==
  ASSUME NEW s \in Seq(0 .. 12), NEW m, NEW vals, Reached(s, m, vals), Len(vals) = 4,
         NEW w \in Marks(s)
  PROVE  FaultAt(s, w) =
           [id |-> vals[1], row |-> vals[2], col |-> vals[3], severity |-> vals[4]]
<1>1. w[1] = m[1] /\ w[2] = m[2] /\ w[3] = m[3] /\ w[4] = m[4] /\ w[5] = m[5]
  BY AllMarks
<1>2. /\ vals[1] = Decimal(Cut(s, m[1], m[2])) /\ vals[2] = Decimal(Cut(s, m[2], m[3]))
      /\ vals[3] = Decimal(Cut(s, m[3], m[4])) /\ vals[4] = Decimal(Cut(s, m[4], m[5]))
  <2>1. \A i \in 1 .. 4 : vals[i] = Decimal(Cut(s, m[i], m[i + 1]))
    BY DEF Reached
  <2> QED
    BY <2>1
<1> QED
  BY <1>1, <1>2 DEF FaultAt

\* The numbers name no panel.
LEMMA WrongPanel ==
  ASSUME TypeOK, head = "FAULT", NEW m, Reached(text, m, values), Len(values) = 4,
         ~OnGrid(values[2], values[3]) \/ ~FaultIsValid(FaultRead)
  PROVE  Wrong
<1>1. ASSUME NEW w \in Marks(text), NamesPanel(FaultAt(text, w)) PROVE FALSE
  <2>1. FaultAt(text, w) = FaultRead
    BY ReadsFault DEF TypeOK, FaultRead
  <2>2. NamesPanel(FaultRead)
    BY Zenon, <1>1, <2>1
  <2> DEFINE f == FaultRead
  <2>3. f.row = values[2] /\ f.col = values[3]
    BY DEF FaultRead
  <2> HIDE DEF f
  <2>4. f.row \in 1 .. 3 /\ f.col \in 1 .. 3 /\ f.id = GridToId(f.row, f.col)
        /\ f.severity \in 1 .. 255
    BY <2>2 DEF NamesPanel, OnGrid, f
  <2>5. FaultIsValid(f)
    <3>1. f.severity # 0
      BY <2>4
    <3> QED
      BY <2>4, <3>1, GridNumbering DEF FaultIsValid
  <2>6. OnGrid(values[2], values[3])
    BY <2>3, <2>4 DEF OnGrid
  <2> QED
    BY <2>5, <2>6 DEF f
<1> QED
  BY <1>1 DEF Wrong

\* Digits between two positions are a number.
LEMMA RunNumber ==
  ASSUME NEW s, NEW a, NEW b, Run(s, a, b), a + 1 < b
  PROVE  IsNumber(Cut(s, a, b))
<1> DEFINE c == Cut(s, a, b)
<1>1. c \in Seq(Digits) /\ Len(c) = b - a - 1
  BY CutIs DEF Run
<1>2. a \in Nat /\ b \in Nat
  BY DEF Run, Over
<1> HIDE DEF c
<1>3. c # <<>>
  BY <1>1, <1>2
<1>4. \A i \in 1 .. Len(c) : c[i] \in Digits
  BY <1>1, Element
<1> QED
  BY <1>3, <1>4 DEF IsNumber, c

\* The text begins with the token.
LEMMA BeginsWithToken ==
  ASSUME NEW s, \A i \in 1 .. Len(Token) : s[i] = Token[i]
  PROVE  Cut(s, 0, Len(Token) + 1) = Token
<1> DEFINE S == Digits \cup {Other}
           c == Cut(s, 0, Len(Token) + 1)
<1>1. Token \in Seq(S) /\ Len(Token) \in Nat
  BY TokenAssumption
<1>2. \A i \in 1 .. Len(Token) : s[i] \in S
  BY <1>1, Element
<1> HIDE DEF S
<1>3. Over(S, s, 0, Len(Token) + 1)
  BY <1>1, <1>2 DEF Over
<1>4. /\ c \in Seq(S) /\ Len(c) = (Len(Token) + 1) - 0 - 1
      /\ \A i \in 1 .. (Len(Token) + 1) - 0 - 1 : c[i] = s[0 + i]
  BY <1>3, CutIs
<1> HIDE DEF c
<1>5. Len(c) = Len(Token) /\ \A i \in 1 .. Len(c) : c[i] = Token[i]
  BY <1>1, <1>4
<1>6. c = Token
  BY <1>1, <1>4, <1>5, SeqEqual
<1> QED
  BY <1>6 DEF c

\* The marks of a parser that has come to the end of the text are a way to read it.
LEMMA MarksFound ==
  ASSUME NEW s \in Seq(0 .. 12), NEW m, NEW vals, Reached(s, m, vals), Len(vals) = 4,
         BlankFrom(s, m[5])
  PROVE  <<m[1], m[2], m[3], m[4], m[5]>> \in Marks(s)
<1> DEFINE w == <<m[1], m[2], m[3], m[4], m[5]>>
           commas == {i \in 1 .. Len(s) : s[i] = Comma}
<1>0. Len(s) \in Nat
  OBVIOUS
<1>1. /\ m[1] \in Nat /\ m[2] \in Nat /\ m[3] \in Nat /\ m[4] \in Nat /\ m[5] \in Nat
      /\ m[1] = Len(Token) + 1 /\ m[1] <= Len(s) /\ s[m[1]] = Comma
      /\ \A i \in 1 .. Len(Token) : s[i] = Token[i]
  BY DEF Reached
<1>2. \A i \in 1 .. 4 :
        /\ m[i] + 1 < m[i + 1] /\ Run(s, m[i], m[i + 1]) /\ Ends(s, m[i + 1])
        /\ i <= 3 => m[i + 1] <= Len(s) /\ s[m[i + 1]] = Comma
  BY DEF Reached
<1>3. /\ m[1] + 1 < m[2] /\ m[2] + 1 < m[3] /\ m[3] + 1 < m[4] /\ m[4] + 1 < m[5]
      /\ m[2] <= Len(s) /\ s[m[2]] = Comma /\ m[3] <= Len(s) /\ s[m[3]] = Comma
      /\ m[4] <= Len(s) /\ s[m[4]] = Comma /\ m[5] <= Len(s) + 1
      /\ Run(s, m[1], m[2]) /\ Run(s, m[2], m[3]) /\ Run(s, m[3], m[4])
      /\ Run(s, m[4], m[5])
  <2>1. Ends(s, m[5])
    BY <1>2
  <2>2. m[5] <= Len(s) + 1
    BY <2>1 DEF Ends
  <2> QED
    BY <1>2, <2>2
<1> DEFINE a == m[1]
           b == m[2]
           c == m[3]
           d == m[4]
           e == m[5]
<1>4. /\ a \in Nat /\ b \in Nat /\ c \in Nat /\ d \in Nat /\ e \in Nat
      /\ a = Len(Token) + 1 /\ a + 1 < b /\ b + 1 < c /\ c + 1 < d /\ d + 1 < e
      /\ a <= Len(s) /\ b <= Len(s) /\ c <= Len(s) /\ d <= Len(s) /\ e <= Len(s) + 1
      /\ s[a] = Comma /\ s[b] = Comma /\ s[c] = Comma /\ s[d] = Comma
      /\ BlankFrom(s, e)
  BY <1>1, <1>3
<1>5. commas = {a, b, c, d} /\ {a, b, c, d} \subseteq commas /\ e \in 1 .. Len(s) + 1
      /\ a < b /\ b < c /\ c < d /\ d < e
  <2>1. /\ \A j \in a + 1 .. b - 1 : s[j] \in Digits
        /\ \A j \in b + 1 .. c - 1 : s[j] \in Digits
        /\ \A j \in c + 1 .. d - 1 : s[j] \in Digits
        /\ \A j \in d + 1 .. e - 1 : s[j] \in Digits
    BY <1>3 DEF Run, Over
  <2> HIDE DEF a, b, c, d, e
  <2>2. a \in 1 .. Len(s) /\ b \in 1 .. Len(s) /\ c \in 1 .. Len(s) /\ d \in 1 .. Len(s)
        /\ e \in 1 .. Len(s) + 1 /\ a < b /\ b < c /\ c < d /\ d < e
    <3>1. Len(Token) \in Nat
      BY Signs
    <3>2. a >= 1 /\ a < b /\ b < c /\ c < d /\ d < e
      BY <1>4, <3>1
    <3> QED
      BY <1>0, <1>4, <3>2
  <2>3. {a, b, c, d} \subseteq commas
    BY <1>4, <2>2
  <2>4. ASSUME NEW i \in 1 .. Len(s), s[i] = Comma
        PROVE  i = a \/ i = b \/ i = c \/ i = d
    <3>1. ~(i < a)
      <4>1. \A j \in 1 .. Len(Token) : s[j] # Comma
        BY <1>1, Signs
      <4>2. a = Len(Token) + 1 /\ Len(Token) \in Nat
        BY <1>4, Signs
      <4> QED
        BY <2>4, <4>1, <4>2
    <3>2. ~(e <= i)
      BY <1>0, <1>4, <2>4, Signs DEF BlankFrom
    <3>3. s[i] \notin Digits
      BY <2>4, Signs
    <3> QED
      BY <1>4, <2>1, <3>1, <3>2, <3>3
  <2> QED
    BY <2>2, <2>3, <2>4
<1>6. Cut(s, 0, m[1]) = Token
  BY <1>1, BeginsWithToken
<1>7. \A i \in 1 .. 4 : IsNumber(Cut(s, w[i], w[i + 1]))
  <2>1. /\ IsNumber(Cut(s, m[1], m[2])) /\ IsNumber(Cut(s, m[2], m[3]))
        /\ IsNumber(Cut(s, m[3], m[4])) /\ IsNumber(Cut(s, m[4], m[5]))
    BY <1>3, RunNumber
  <2>2. w[1] = m[1] /\ w[2] = m[2] /\ w[3] = m[3] /\ w[4] = m[4] /\ w[5] = m[5]
    OBVIOUS
  <2> HIDE DEF w
  <2>3. /\ IsNumber(Cut(s, w[1], w[1 + 1])) /\ IsNumber(Cut(s, w[2], w[2 + 1]))
        /\ IsNumber(Cut(s, w[3], w[3 + 1])) /\ IsNumber(Cut(s, w[4], w[4 + 1]))
    BY <2>1, <2>2
  <2> QED
    BY <2>3
<1> HIDE DEF commas
<1>8. w \in commas \X commas \X commas \X commas \X (1 .. Len(s) + 1)
  BY <1>5
<1>9. /\ w[1] < w[2] /\ w[2] < w[3] /\ w[3] < w[4] /\ w[4] < w[5]
      /\ commas = {w[1], w[2], w[3], w[4]} /\ Cut(s, 0, w[1]) = Token
      /\ BlankFrom(s, w[5])
  <2>1. w[1] = a /\ w[2] = b /\ w[3] = c /\ w[4] = d /\ w[5] = e
    OBVIOUS
  <2>2. Cut(s, 0, a) = Token
    BY <1>6
  <2> HIDE DEF a, b, c, d, e, w
  <2> QED
    BY Zenon, <1>4, <1>5, <2>1, <2>2
<1> HIDE DEF w
<1>10. w \in Marks(s)
  BY Zenon, <1>7, <1>8, <1>9 DEF Marks, commas
<1> QED
  BY <1>10 DEF w

\* The fault of a parser that has come to the end of the text is a reading of it.
LEMMA RightFault ==
  ASSUME NEW s \in Seq(0 .. 12), NEW m, NEW vals, Reached(s, m, vals), Len(vals) = 4,
         BlankFrom(s, m[5])
  PROVE  [id |-> vals[1], row |-> vals[2], col |-> vals[3], severity |-> vals[4]]
           \in Readings(s)
<1> DEFINE w == <<m[1], m[2], m[3], m[4], m[5]>>
<1>1. w \in Marks(s)
  BY MarksFound
<1> HIDE DEF w
<1>2. FaultAt(s, w) =
        [id |-> vals[1], row |-> vals[2], col |-> vals[3], severity |-> vals[4]]
  BY <1>1, ReadsFault
<1>3. FaultAt(s, w) \in Readings(s)
  BY <1>1 DEF Readings
<1> QED
  BY Zenon, <1>2, <1>3

\* The token and blanks are a stop.
LEMMA RightStop ==
  ASSUME NEW s, Len(s) \in Nat, Len(Token) <= Len(s),
         \A i \in 1 .. Len(Token) : s[i] = Token[i], BlankFrom(s, Len(Token) + 1)
  PROVE  IsStopText(s)
<1>1. Cut(s, 0, Len(Token) + 1) = Token
  BY BeginsWithToken
<1>2. SubSeq(s, 1, Len(Token)) = Token
  BY <1>1, Signs DEF Cut
<1> QED
  BY <1>2, Signs DEF IsStopText

-----------------------------------------------------------------------------
(* The parser.                                                             *)

\* What the parser knows of the text at each of its places.
AtToken == p <= Len(Token) + 1 /\ \A i \in 1 .. p - 1 : text[i] = Token[i]

AtNumber ==
  \E m : Reached(text, m, values) /\ p = m[Len(values) + 1] + 1

AtDigits ==
  \E m : /\ Reached(text, m, values)
         /\ Run(text, m[Len(values) + 1], p)
         /\ parsed = Decimal(Cut(text, m[Len(values) + 1], p))
         /\ Char \in Digits \/ m[Len(values) + 1] + 1 < p

AtTail ==
  \E m : /\ Reached(text, m, values) /\ Len(values) = 4
         /\ m[5] <= p /\ \A i \in m[5] .. p - 1 : text[i] = Blank

AtStop ==
  /\ Len(Token) < p /\ \A i \in 1 .. Len(Token) : text[i] = Token[i]
  /\ \A i \in Len(Token) + 1 .. p - 1 : text[i] = Blank

Found ==
  verdict = "none" =>
    /\ place = "head" => p = 1
    /\ place # "head" => head \in {"FAULT", "STOP"}
    /\ place = "token" => AtToken
    /\ place = "number" => head = "FAULT" /\ AtNumber
    /\ place = "digits" => head = "FAULT" /\ AtDigits
    /\ place = "blanks" /\ head = "FAULT" => AtTail
    /\ place = "blanks" /\ head = "STOP" => AtStop

\* What a verdict says of the text.
Outcome ==
  /\ verdict = "fault" => head = "FAULT" /\ fault \in Readings(text)
  /\ verdict = "stop" => head = "STOP" /\ IsStopText(text)
  /\ verdict = "refused" => Wrong

\* A refusal is right where no way to read the text is left.
LEMMA RefuseRight ==
  ASSUME Packet, Refuse, Wrong
  PROVE  Found' /\ Outcome'
<1>1. Wrong'
  BY DEF Packet, Wrong
<1> QED
  BY <1>1 DEF Refuse, Found, Outcome

\* The head.
LEMMA ReadHeadFound ==
  ASSUME IInv, Found, ReadHead
  PROVE  Found' /\ Outcome'
<1>1. CASE Refuse
  <2>1. head = "other" \/ place' = "token"
    BY DEF ReadHead
  <2>2. head = "other"
    BY <1>1, <2>1 DEF ReadHead, Refuse
  <2>3. Wrong
    BY <2>2 DEF Wrong
  <2> QED
    BY <1>1, <2>3, RefuseRight DEF ReadHead, Reading
<1>2. CASE place' = "token" /\ head # "other" /\ UNCHANGED <<p, parsed, values, verdict, fault>>
  <2>1. p = 1 /\ verdict = "none" /\ head' = head
    BY DEF ReadHead, Reading, Found, Packet
  <2>2. AtToken'
    BY <1>2, <2>1, Signs DEF AtToken
  <2>3. head' \in {"FAULT", "STOP"}
    BY <1>2, <2>1 DEF IInv, TypeOK, Heads
  <2> QED
    BY <1>2, <2>1, <2>2, <2>3 DEF Found, Outcome
<1> QED
  BY <1>1, <1>2 DEF ReadHead

\* The token and its delimiter.
LEMMA ReadTokenFound ==
  ASSUME IInv, Found, ReadToken
  PROVE  Found' /\ Outcome'
<1>0. /\ TypeOK /\ AtToken /\ head \in {"FAULT", "STOP"} /\ values = <<>>
      /\ verdict = "none" /\ head' = head /\ text' = text /\ Packet
      /\ p \in Nat /\ p >= 1 /\ Len(Token) \in Nat /\ Len(text) \in Nat
  BY Signs DEF ReadToken, Reading, Packet, Found, IInv, TypeOK, Counted
<1>1. CASE p <= Len(Token) /\ Char # Token[p] /\ Refuse
  BY <1>0, <1>1, WrongToken, RefuseRight
<1>2. CASE ~(p <= Len(Token)) /\ head = "FAULT" /\ Char # Comma /\ Refuse
  <2>1. p = Len(Token) + 1
    BY <1>0, <1>2 DEF AtToken
  <2> QED
    BY <1>0, <1>2, <2>1, WrongDelimiter, RefuseRight
<1>3. CASE /\ p <= Len(Token) /\ Char = Token[p] /\ p' = p + 1
           /\ UNCHANGED <<place, parsed, values, verdict, fault>>
  <2>1. Char # Nul
    BY <1>0, <1>3, NotNul
  <2>2. text[p] = Token[p]
    BY <1>3, <2>1 DEF Char
  <2>3. AtToken'
    BY <1>0, <1>3, <2>2 DEF AtToken
  <2>4. place = "token"
    BY DEF ReadToken
  <2> QED
    BY <1>0, <1>3, <2>3, <2>4 DEF Found, Outcome
<1>4. CASE /\ ~(p <= Len(Token)) /\ head = "STOP" /\ place' = "blanks"
           /\ UNCHANGED <<p, parsed, values, verdict, fault>>
  <2>1. p = Len(Token) + 1
    BY <1>0, <1>4 DEF AtToken
  <2>2. AtStop'
    BY <1>0, <1>4, <2>1 DEF AtToken, AtStop
  <2> QED
    BY <1>0, <1>4, <2>2 DEF Found, Outcome
<1>5. CASE /\ ~(p <= Len(Token)) /\ head # "STOP" /\ Char = Comma /\ p' = p + 1
           /\ place' = "number" /\ UNCHANGED <<parsed, values, verdict, fault>>
  <2>1. p = Len(Token) + 1
    BY <1>0, <1>5 DEF AtToken
  <2>2. p <= Len(text) /\ text[p] = Comma
    BY <1>5, NotNul DEF Char
  <2> DEFINE m == [i \in 1 .. 5 |-> p]
  <2>3. Reached(text, m, values)
    <3>1. m \in [1 .. 5 -> Nat] /\ m[1] = p
      BY <1>0
    <3>2. Len(values) = 0
      BY <1>0
    <3>3. \A i \in 1 .. Len(Token) : text[i] = Token[i]
      BY <1>0, <2>1 DEF AtToken
    <3> HIDE DEF m
    <3>4. 1 .. Len(values) = {}
      BY <3>2
    <3> QED
      BY <2>1, <2>2, <3>1, <3>2, <3>3, <3>4 DEF Reached
  <2>4. p' = m[Len(values) + 1] + 1
    BY <1>0, <1>5
  <2> HIDE DEF m
  <2>5. AtNumber'
    BY <1>0, <1>5, <2>3, <2>4 DEF AtNumber
  <2>6. head' = "FAULT"
    BY <1>0, <1>5
  <2> QED
    BY <1>0, <1>5, <2>5, <2>6 DEF Found, Outcome
<1> QED
  BY <1>0, <1>1, <1>2, <1>3, <1>4, <1>5 DEF ReadToken

\* The first digit of a number.
LEMMA BeginNumberFound ==
  ASSUME IInv, Found, BeginNumber
  PROVE  Found' /\ Outcome'
<1>0. /\ TypeOK /\ AtNumber /\ head = "FAULT" /\ Len(values) <= 3
      /\ verdict = "none" /\ head' = head /\ text' = text /\ Packet
  BY DEF BeginNumber, Reading, Packet, Found, IInv, Counted
<1>1. PICK m : Reached(text, m, values) /\ p = m[Len(values) + 1] + 1
  BY <1>0 DEF AtNumber
<1>2. CASE Char \notin Digits /\ Refuse
  BY <1>0, <1>1, <1>2, WrongNumber, RefuseRight
<1>3. CASE /\ Char \in Digits /\ place' = "digits" /\ parsed' = 0
           /\ UNCHANGED <<p, values, verdict, fault>>
  <2> DEFINE a == m[Len(values) + 1]
  <2>1. a \in Nat
    <3>1. Len(values) + 1 \in 1 .. 5
      BY <1>0 DEF TypeOK
    <3> QED
      BY <1>1, <3>1 DEF Reached
  <2>2. p = a + 1
    BY <1>1
  <2> HIDE DEF a
  <2>3. Run(text, a, p) /\ Decimal(Cut(text, a, p)) = 0
    BY <2>1, <2>2, RunEmpty
  <2>4. Char' = Char
    BY <1>0, <1>3 DEF Char
  <2>5. AtDigits'
    BY <1>0, <1>1, <1>3, <2>3, <2>4 DEF AtDigits, a
  <2> QED
    BY <1>0, <1>3, <2>5 DEF Found, Outcome
<1> QED
  BY <1>2, <1>3 DEF BeginNumber

\* A digit.
LEMMA ReadDigitFound ==
  ASSUME IInv, Found, ReadDigit
  PROVE  Found' /\ Outcome'
<1>0. /\ TypeOK /\ AtDigits /\ head = "FAULT" /\ Len(values) <= 3 /\ Char \in Digits
      /\ verdict = "none" /\ head' = head /\ text' = text /\ Packet /\ place = "digits"
  BY DEF ReadDigit, Reading, Packet, Found, IInv, Counted
<1>1. PICK m : /\ Reached(text, m, values)
               /\ Run(text, m[Len(values) + 1], p)
               /\ parsed = Decimal(Cut(text, m[Len(values) + 1], p))
  BY <1>0 DEF AtDigits
<1>2. CASE 10 * parsed + Char > 255 /\ Refuse
  BY <1>0, <1>1, <1>2, WrongDigit, RefuseRight
<1>3. CASE /\ parsed' = 10 * parsed + Char /\ p' = p + 1
           /\ UNCHANGED <<place, values, verdict, fault>>
  <2> DEFINE a == m[Len(values) + 1]
  <2>1. Char = text[p]
    BY <1>0, NotNul DEF Char
  <2>2. Run(text, a, p) /\ parsed = Decimal(Cut(text, a, p))
    BY <1>1
  <2> HIDE DEF a
  <2>3. /\ Run(text, a, p + 1)
        /\ Decimal(Cut(text, a, p + 1)) = 10 * Decimal(Cut(text, a, p)) + text[p]
    BY <1>0, <2>1, <2>2, RunNext
  <2>4. Run(text, a, p') /\ parsed' = Decimal(Cut(text, a, p'))
    BY <1>3, <2>1, <2>2, <2>3
  <2>5. a + 1 < p'
    BY <1>3, <2>2 DEF Run, Over
  <2>6. AtDigits'
    BY <1>0, <1>1, <1>3, <2>4, <2>5 DEF AtDigits, a
  <2> QED
    BY <1>0, <1>3, <2>6 DEF Found, Outcome
<1> QED
  BY <1>2, <1>3 DEF ReadDigit

\* One number more has been read.
LEMMA ReachedNext ==
  ASSUME NEW s, NEW m, NEW vals \in Seq(Byte), Len(vals) <= 3, Reached(s, m, vals),
         NEW e \in Nat, Run(s, m[Len(vals) + 1], e), m[Len(vals) + 1] + 1 < e, Ends(s, e),
         NEW v \in Byte, v = Decimal(Cut(s, m[Len(vals) + 1], e)),
         Len(vals) <= 2 => e <= Len(s) /\ s[e] = Comma
  PROVE  \E w : Reached(s, w, Append(vals, v)) /\ w[Len(Append(vals, v)) + 1] = e
<1> DEFINE k == Len(vals)
           w == [m EXCEPT ![k + 2] = e]
           u == Append(vals, v)
<1>1. m \in [1 .. 5 -> Nat] /\ k \in Nat /\ k <= 3
  BY DEF Reached
<1>2. /\ Len(u) = k + 1 /\ u[k + 1] = v
      /\ \A i \in 1 .. k : u[i] = vals[i]
  OBVIOUS
<1> HIDE DEF u
<1>3. w \in [1 .. 5 -> Nat] /\ w[k + 2] = e /\ \A i \in 1 .. k + 1 : w[i] = m[i]
  <2>1. k + 2 \in 1 .. 5
    BY <1>1
  <2>2. w \in [1 .. 5 -> Nat] /\ w[k + 2] = e
    BY <1>1, <2>1
  <2>3. \A i \in 1 .. k + 1 : i \in 1 .. 5 /\ i # k + 2
    BY <1>1
  <2>4. \A i \in 1 .. 5 : i # k + 2 => w[i] = m[i]
    BY <1>1
  <2> QED
    BY <2>2, <2>3, <2>4
<1> HIDE DEF w
<1>4. /\ w[1] = Len(Token) + 1 /\ w[1] <= Len(s) /\ s[w[1]] = Comma
      /\ \A i \in 1 .. Len(Token) : s[i] = Token[i]
  <2>1. w[1] = m[1]
    BY <1>1, <1>3
  <2> QED
    BY <2>1 DEF Reached
<1>5. ASSUME NEW i \in 1 .. k + 1
      PROVE  /\ w[i] + 1 < w[i + 1] /\ Run(s, w[i], w[i + 1]) /\ Ends(s, w[i + 1])
             /\ u[i] = Decimal(Cut(s, w[i], w[i + 1]))
             /\ i <= 3 => w[i + 1] <= Len(s) /\ s[w[i + 1]] = Comma
  <2>1. CASE i = k + 1
    <3>1. w[i] = m[k + 1] /\ w[i + 1] = e /\ u[i] = v
      <4>1. i \in 1 .. k + 1 /\ i + 1 = k + 2
        BY <1>1, <2>1
      <4>2. w[i] = m[k + 1]
        BY <1>3, <2>1, <4>1
      <4>3. w[i + 1] = e
        BY <1>3, <4>1
      <4> QED
        BY <1>2, <2>1, <4>2, <4>3
    <3>2. i <= 3 => e <= Len(s) /\ s[e] = Comma
      BY <1>1, <2>1
    <3> QED
      BY <3>1, <3>2
  <2>2. CASE i \in 1 .. k
    <3>1. w[i] = m[i] /\ w[i + 1] = m[i + 1] /\ u[i] = vals[i]
      <4>1. i \in 1 .. k + 1 /\ i + 1 \in 1 .. k + 1
        BY <1>1, <2>2
      <4> QED
        BY <1>2, <1>3, <2>2, <4>1
    <3>2. /\ m[i] + 1 < m[i + 1] /\ Run(s, m[i], m[i + 1]) /\ Ends(s, m[i + 1])
          /\ vals[i] = Decimal(Cut(s, m[i], m[i + 1]))
          /\ i <= 3 => m[i + 1] <= Len(s) /\ s[m[i + 1]] = Comma
      BY <2>2 DEF Reached
    <3> QED
      BY <3>1, <3>2
  <2> QED
    BY <1>1, <2>1, <2>2
<1> HIDE DEF k
<1>6. Reached(s, w, u)
  <2>1. Len(u) \in Nat /\ Len(u) <= 4
    BY <1>1, <1>2
  <2> QED
    BY <1>2, <1>3, <1>4, <1>5, <2>1 DEF Reached
<1>7. w[Len(u) + 1] = e
  BY <1>1, <1>2, <1>3
<1> QED
  BY <1>6, <1>7 DEF u

\* The end of a number.
LEMMA EndNumberFound ==
  ASSUME IInv, Found, EndNumber
  PROVE  Found' /\ Outcome'
<1>0. /\ TypeOK /\ AtDigits /\ head = "FAULT" /\ Len(values) <= 3 /\ Char \notin Digits
      /\ verdict = "none" /\ head' = head /\ text' = text /\ Packet
  BY DEF EndNumber, Reading, Packet, Found, IInv, Counted
<1>1. /\ values \in Seq(Byte) /\ parsed \in Byte /\ p \in Nat /\ Len(text) \in Nat
      /\ Len(values) \in Nat /\ Ends(text, p)
  BY <1>0 DEF TypeOK, Ends, Char
<1>2. PICK m : /\ Reached(text, m, values)
               /\ Run(text, m[Len(values) + 1], p)
               /\ parsed = Decimal(Cut(text, m[Len(values) + 1], p))
               /\ m[Len(values) + 1] + 1 < p
  BY <1>0 DEF AtDigits
<1>3. CASE Len(values) # 3 /\ Char # Comma /\ Refuse
  <2>1. Len(values) <= 2
    <3>1. \A n \in Nat : n <= 3 /\ n # 3 => n <= 2
      OBVIOUS
    <3> QED
      BY <1>0, <1>1, <1>3, <3>1
  <2> QED
    BY <1>0, <1>2, <1>3, <2>1, WrongEnd, RefuseRight
<1>4. ASSUME values' = Append(values, parsed), Len(values) # 3 => Char = Comma
      PROVE  \E w : Reached(text, w, values') /\ w[Len(values') + 1] = p
  <2>1. Len(values) <= 2 => p <= Len(text) /\ text[p] = Comma
    BY <1>1, <1>4, NotNul DEF Char
  <2> QED
    BY <1>0, <1>1, <1>2, <1>4, <2>1, ReachedNext
<1>5. CASE /\ Len(values) = 3 /\ values' = Append(values, parsed) /\ place' = "blanks"
           /\ parsed' = 0 /\ UNCHANGED <<p, verdict, fault>>
  <2>1. PICK w : Reached(text, w, values') /\ w[Len(values') + 1] = p
    BY <1>4, <1>5
  <2>2. Len(values') = 4 /\ Len(values') + 1 = 5
    BY <1>1, <1>5
  <2>3. w[5] = p
    BY <2>1, <2>2
  <2>4. w[5] <= p' /\ \A i \in w[5] .. p' - 1 : text[i] = Blank
    BY <1>1, <1>5, <2>3
  <2>5. AtTail'
    BY <1>0, <2>1, <2>2, <2>4 DEF AtTail
  <2> QED
    BY <1>0, <1>5, <2>5 DEF Found, Outcome
<1>6. CASE /\ Char = Comma /\ values' = Append(values, parsed) /\ place' = "number"
           /\ p' = p + 1 /\ parsed' = 0 /\ UNCHANGED <<verdict, fault>>
  <2>1. PICK w : Reached(text, w, values') /\ w[Len(values') + 1] = p
    BY <1>4, <1>6
  <2>2. AtNumber'
    BY <1>0, <1>6, <2>1 DEF AtNumber
  <2> QED
    BY <1>0, <1>6, <2>2 DEF Found, Outcome
<1> QED
  BY <1>3, <1>5, <1>6 DEF EndNumber

\* A blank behind the command.
LEMMA SkipBlankFound ==
  ASSUME IInv, Found, SkipBlank
  PROVE  Found' /\ Outcome'
<1>0. /\ TypeOK /\ head \in {"FAULT", "STOP"} /\ p \in Nat /\ p' = p + 1
      /\ verdict = "none" /\ verdict' = "none" /\ place = "blanks" /\ place' = "blanks"
      /\ head' = head /\ text' = text /\ values' = values
  BY DEF SkipBlank, Reading, Packet, Found, IInv, TypeOK
<1>1. text[p] = Blank
  BY NotNul DEF SkipBlank, Char
<1>2. head = "FAULT" => AtTail'
  <2> SUFFICES ASSUME head = "FAULT" PROVE AtTail'
    OBVIOUS
  <2>1. PICK m : /\ Reached(text, m, values) /\ Len(values) = 4
                 /\ m[5] <= p /\ \A i \in m[5] .. p - 1 : text[i] = Blank
    BY <1>0 DEF Found, AtTail
  <2> DEFINE e == m[5]
  <2>2. e \in Nat /\ e <= p /\ \A i \in e .. p - 1 : text[i] = Blank
    BY <2>1 DEF Reached
  <2> HIDE DEF e
  <2>3. e <= p' /\ \A i \in e .. p' - 1 : text[i] = Blank
    BY <1>0, <1>1, <2>2
  <2> QED
    BY <1>0, <2>1, <2>3 DEF AtTail, e
<1>3. head = "STOP" => AtStop'
  <2> SUFFICES ASSUME head = "STOP" PROVE AtStop'
    OBVIOUS
  <2>1. AtStop
    BY <1>0 DEF Found
  <2> QED
    BY <1>0, <1>1, <2>1, Signs DEF AtStop
<1> QED
  BY <1>0, <1>2, <1>3 DEF Found, Outcome

\* The end of the text.
LEMMA EndTextFound ==
  ASSUME IInv, Found, EndText
  PROVE  Found' /\ Outcome'
<1>0. /\ TypeOK /\ head \in {"FAULT", "STOP"} /\ p \in Nat /\ Len(text) \in Nat
      /\ verdict = "none" /\ place = "blanks" /\ Char # Blank /\ Packet
      /\ head' = head /\ text' = text /\ values' = values /\ text \in Seq(0 .. 12)
      /\ p <= Len(text) + 1
  BY DEF EndText, Reading, Packet, Refuse, Found, IInv, TypeOK
<1>1. head = "FAULT" => AtTail
  BY <1>0 DEF Found
<1>2. head = "STOP" => AtStop
  BY <1>0 DEF Found
<1>3. CASE Char # Nul /\ Refuse
  <2>1. head = "FAULT" => \E m : Reached(text, m, values) /\ Len(values) = 4 /\ m[5] <= p
    BY <1>1 DEF AtTail
  <2>2. head = "STOP" => Len(Token) < p
    BY <1>2 DEF AtStop
  <2> QED
    BY <1>0, <1>3, <2>1, <2>2, WrongTail, RefuseRight
<1>4. ASSUME Char = Nul PROVE p = Len(text) + 1
  <2>1. \A i \in 1 .. Len(text) : text[i] # Nul
    BY <1>0, Element DEF Nul
  <2> QED
    BY <1>0, <1>4, <2>1 DEF Char, TypeOK
<1>5. CASE /\ Char = Nul /\ head = "STOP" /\ verdict' = "stop"
           /\ UNCHANGED <<place, p, parsed, values, fault>>
  <2>1. BlankFrom(text, Len(Token) + 1) /\ Len(Token) <= Len(text)
    BY <1>0, <1>2, <1>4, <1>5, Signs DEF AtStop, BlankFrom
  <2>2. IsStopText(text)
    BY <1>0, <1>2, <1>5, <2>1, RightStop DEF AtStop
  <2> QED
    BY <1>0, <1>5, <2>2 DEF Found, Outcome
<1>6. CASE Char = Nul /\ head = "FAULT"
  <2>1. PICK m : /\ Reached(text, m, values) /\ Len(values) = 4
                 /\ m[5] <= p /\ \A i \in m[5] .. p - 1 : text[i] = Blank
    BY <1>1, <1>6 DEF AtTail
  <2>2. CASE ~OnGrid(values[2], values[3]) /\ Refuse
    BY <1>0, <1>6, <2>1, <2>2, WrongPanel, RefuseRight
  <2>3. CASE ~FaultIsValid(FaultRead) /\ verdict' = "refused"
    <3>1. Wrong
      BY <1>0, <1>6, <2>1, <2>3, WrongPanel
    <3>2. Wrong'
      BY <1>0, <3>1 DEF Wrong
    <3> QED
      BY <2>3, <3>2 DEF Found, Outcome
  <2>4. CASE fault' = FaultRead /\ verdict' = "fault"
    <3>1. BlankFrom(text, m[5])
      <4>1. p - 1 = Len(text)
        BY <1>0, <1>4, <1>6
      <4> QED
        BY <2>1, <4>1 DEF BlankFrom
    <3>2. FaultRead \in Readings(text)
      BY <1>0, <2>1, <3>1, RightFault DEF FaultRead
    <3> QED
      BY <1>0, <1>6, <2>4, <3>2 DEF Found, Outcome
  <2> QED
    BY <1>6, <2>2, <2>3, <2>4 DEF EndText
<1> QED
  BY <1>0, <1>3, <1>5, <1>6 DEF EndText

\* Every step keeps what is known of the text.
LEMMA FoundNext ==
  ASSUME IInv, Found, Outcome, [Next]_vars
  PROVE  Found' /\ Outcome'
<1>1. CASE Next
  BY <1>1, ReadHeadFound, ReadTokenFound, BeginNumberFound, ReadDigitFound,
     EndNumberFound, SkipBlankFound, EndTextFound
     DEF Next
<1>2. CASE UNCHANGED vars
  <2>1. Wrong' = Wrong
    BY <1>2 DEF vars, Wrong
  <2> QED
    BY <1>2, <2>1
       DEF vars, Found, Outcome, AtToken, AtNumber, AtDigits, AtTail, AtStop, Char
<1> QED
  BY <1>1, <1>2

\* A verdict says what was written, and what follows the format is not refused: for
\* every token and every text the parser reads exactly the format of hcics_protocol.h.
THEOREM AcceptsExactlyWhatIsWritten == Spec => []AcceptsWhatIsWritten
<1>1. Init => Found /\ Outcome
  BY DEF Init, Found, Outcome
<1>2. IInv /\ Found /\ Outcome /\ [Next]_vars => (Found /\ Outcome)'
  BY FoundNext
<1>3. AcceptedNamesPanel /\ Outcome => AcceptsWhatIsWritten
  <2>1. Wrong => /\ head = "FAULT" => \A f \in Readings(text) : ~NamesPanel(f)
                 /\ head = "STOP" => ~IsStopText(text)
    BY DEF Wrong, Readings
  <2> QED
    BY Zenon, <2>1 DEF AcceptedNamesPanel, Outcome, AcceptsWhatIsWritten
<1> QED
  BY <1>1, <1>2, <1>3, Invariance, AcceptedFaultNamesPanel, PTL DEF Spec
=============================================================================
