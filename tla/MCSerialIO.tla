----------------------------- MODULE MCSerialIO -----------------------------
(* A small instance of SerialIO for TLC: two writes, or three characters   *)
(* that arrive, are more than any buffer holds.                            *)
EXTENDS SerialIO
=============================================================================
