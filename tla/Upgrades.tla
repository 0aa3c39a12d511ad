------------------------------- MODULE Upgrades -------------------------------
(***************************************************************************)
(* What MCUboot promises to an application: two images, one that runs and  *)
(* one beside it; a request to try the other one or to keep it; and on the *)
(* next start a single exchange of the two, or none.  An image that was    *)
(* only tried and never confirmed is exchanged back on the start after.    *)
(***************************************************************************)
CONSTANTS Images, Initial

VARIABLES
  current,    \* the image that runs
  other,      \* what lies in slot 1: an image, "damaged" or "none"
  request,    \* "none", "test" or "perm"
  trial       \* the running image was only tried, and is not confirmed yet

state == <<current, other, request, trial>>

Init == current = Initial /\ other = "none" /\ request = "none" /\ trial = FALSE

(* The application puts a new image, or a damaged one, beside its own.     *)
Download ==
  /\ other' \in Images \cup {"damaged"}
  /\ request' = "none"
  /\ UNCHANGED <<current, trial>>

Request ==
  /\ \/ request = "none" /\ request' = "test"
     \/ request = "test" /\ request' = "perm"
  /\ UNCHANGED <<current, other, trial>>

Confirm == trial /\ trial' = FALSE /\ UNCHANGED <<current, other, request>>

(* One start: the request counts before the revert of a trial.             *)
Wanted == IF request # "none" THEN request ELSE IF trial THEN "revert" ELSE "none"

Exchange ==
  /\ Wanted # "none" /\ other \in Images
  /\ current' = other /\ other' = current
  /\ request' = "none"
  /\ trial' = (Wanted = "test")

(* The other image is no good: the running one stays, for good.            *)
Refuse ==
  /\ Wanted # "none" /\ other \notin Images
  /\ other' \in {"none", "damaged"}
  /\ request' \in {request, "none"}
  /\ trial' = FALSE
  /\ UNCHANGED current

Next == Download \/ Request \/ Confirm \/ Exchange \/ Refuse

Spec == Init /\ [][Next]_state
=============================================================================
