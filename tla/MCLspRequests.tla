---------------------------- MODULE MCLspRequests --------------------------
(* Instances of LspRequests for TLC.                                       *)
EXTENDS LspRequests, TLC

CONSTANTS r1, r2, r3, i1, i2, f1, f2, t1, t2

Pair == {r1, r2}
Trio == {r1, r2, r3}
TwoIds == {i1, i2}
OneFile == {f1}
TwoFiles == {f1, f2}
TwoTexts == {t1, t2}
=============================================================================
