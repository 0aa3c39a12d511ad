----------------------------- MODULE Protection -----------------------------
(***************************************************************************)
(* What the memory protection of SecureShield promises: an instruction of  *)
(* a container is carried out only when regions it may use allow all its   *)
(* accesses, and one stops the system only when they do not. How many      *)
(* regions the MPU holds does not show.                                    *)
(***************************************************************************)
EXTENDS Naturals, Sequences

CONSTANTS
    Containers,
    Granted,       \* Granted[c]: the regions container c may use
    Privilege,     \* Privilege[c]: the mode it runs in
    Instructions   \* Instructions[c]: its instructions, sequences of accesses
                   \* [at, how]

VARIABLES active, wants, halted

vars == <<active, wants, halted>>

Allowed(c, a) ==
    \E r \in Granted[c] : a.at \in r.addrs /\ {Privilege[c]} \X a.how \subseteq r.ac

Init ==
    /\ active = 0
    /\ wants = [c \in Containers |-> <<>>]
    /\ halted = FALSE

Begin ==
    /\ wants[active] = <<>>
    /\ \E i \in Instructions[active] : wants' = [wants EXCEPT ![active] = i]
    /\ UNCHANGED <<active, halted>>

Execute ==
    /\ wants[active] # <<>>
    /\ \A k \in DOMAIN wants[active] : Allowed(active, wants[active][k])
    /\ wants' = [wants EXCEPT ![active] = <<>>]
    /\ UNCHANGED <<active, halted>>

Stop ==
    /\ \E k \in DOMAIN wants[active] : ~Allowed(active, wants[active][k])
    /\ halted' = TRUE
    /\ UNCHANGED <<active, wants>>

Switch == active' \in Containers /\ UNCHANGED <<wants, halted>>

Next == ~halted /\ (Begin \/ Execute \/ Stop \/ Switch)

Spec == Init /\ [][Next]_vars
=============================================================================
