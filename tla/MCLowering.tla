----------------------------- MODULE MCLowering -----------------------------
(* Constants for checking Lowering.                                        *)
EXTENDS LoweringRuns

MCJumps == {Break(""), Continue(""), Throw, Return, Break("L"), Continue("L")}

MCNames == {"L", "start", "after", "caught", "try", "default", "p", "q", "finally"}
=============================================================================
