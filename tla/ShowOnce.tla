------------------------------ MODULE ShowOnce ------------------------------
(***************************************************************************)
(* What the setup page promises (README.md:212-216): a private key is      *)
(* offered to the session that asked for it, and once it is withdrawn      *)
(* nobody is ever offered it again.                                        *)
(***************************************************************************)
CONSTANTS Sessions, Keys, NoKey

VARIABLES
  offer,   \* the key a session can look at, or NoKey
  past     \* the keys that were ever offered

Init == offer = [s \in Sessions |-> NoKey] /\ past = {}

\* A new key takes the place of the one before.
Offer(s) == \E k \in Keys \ past : /\ offer' = [offer EXCEPT ![s] = k]
                                   /\ past' = past \cup {k}

Withdraw(s) == offer' = [offer EXCEPT ![s] = NoKey] /\ past' = past

Next == \E s \in Sessions : Offer(s) \/ Withdraw(s)

Spec == Init /\ [][Next]_<<offer, past>>
=============================================================================
