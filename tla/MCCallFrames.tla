----------------------------- MODULE MCCallFrames -----------------------------
(* Instances of CallFrames small enough for TLC.                           *)
EXTENDS CallFrames, TLC

CONSTANTS fun1, fun2, clo1, frame1, frame2, frame3

MCFunctions == {fun1, fun2, clo1}
MCClosures == {clo1}
MCFrames == {frame1, frame2, frame3}
MCSymmetry == Permutations(MCFrames) \cup Permutations({fun1,fun2})
=============================================================================
