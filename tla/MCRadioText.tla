---------------------------- MODULE MCRadioText -----------------------------
(* Instances of RadioText for TLC: texts of one, two and three segments in  *)
(* a text buffer of three.                                                  *)
EXTENDS RadioText

MCLength == [v \in Texts |-> <<2, 3, 1, 2>>[(v % 4) + 1]]
=============================================================================
