--------------------------- MODULE MCHcicsCommand ---------------------------
(* Instances of HcicsCommand for TLC. *)
EXTENDS HcicsCommand

MCToken == <<12, 2>>

\* The token, less than it, more than it.
TokenTexts == {<<12, 2>>, <<12>>, <<12, 2, 2>>}

\* Numbers with leading zeros, at and beyond 255, equal to a panel modulo 256,
\* missing, broken.
IdTexts == {<<5>>, <<0, 5>>, <<2, 5, 5>>, <<2, 5, 6>>, <<2, 6, 1>>, <<>>, <<5, 11>>, <<12>>}
RowTexts == {<<2>>, <<0, 0, 2>>, <<3>>, <<0>>, <<2, 5, 8>>, <<>>}
ColTexts == {<<2>>, <<1>>, <<4>>, <<2, 5, 8>>}
SeverityTexts == {<<1>>, <<0>>, <<2, 5, 5>>, <<2, 5, 6>>, <<>>}
Tails == {<<>>, <<11>>, <<11, 11>>, <<11, 1>>, <<10>>, <<10, 1>>}
Separators == {<<10>>, <<11>>}

MCTexts ==
  {t \o <<10>> \o id \o s \o row \o <<10>> \o col \o <<10>> \o sev \o tail :
     t \in TokenTexts, id \in IdTexts, s \in Separators, row \in RowTexts,
     col \in ColTexts, sev \in SeverityTexts, tail \in Tails}
  \cup {t \o tail : t \in TokenTexts, tail \in Tails}
=============================================================================
