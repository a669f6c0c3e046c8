----------------------------- MODULE MCPayPeriod -----------------------------
(* Small instances of PayPeriod for TLC. *)
EXTENDS PayPeriod, TLC

Symmetry == Permutations(Clerks)

\* Nothing reads the trails, or a request that has only its trail left to write:
\* states that differ in these alone are one.
Untraced ==
  LET Left(f) == IF f.at \in {"audit", "publish"} THEN f.at ELSE f
  IN  <<records, crashes, overtaken, overwritten, runs,
        [c \in Clerks |-> Left(frame[c])], [h \in Operators |-> Left(desk[h])]>>
=============================================================================
