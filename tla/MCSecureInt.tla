----------------------------- MODULE MCSecureInt -----------------------------
(* Small instances of SecureInt for TLC: two interrupts, 1 more urgent.    *)
EXTENDS SecureInt, TLC

TwoLevels == (1 :> 0) @@ (2 :> 1)

All == {"install", "release", "enable", "disable", "lock", "unlock"}

\* Three normal containers, or two of them and a secure one.
NormalOrSecure ==
  {[secure |-> {}, operations |-> All],
   [secure |-> {1}, operations |-> {"install", "enable"}],
   [secure |-> {1}, operations |-> {"install", "lock"}]}

SecureUnlocks == {[secure |-> {1}, operations |-> {"enable", "lock", "unlock"}]}
=============================================================================
