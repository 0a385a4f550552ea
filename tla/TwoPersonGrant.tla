-------------------------- MODULE TwoPersonGrant --------------------------
(***************************************************************************)
(* What a break-glass store promises, without transactions, locks, clocks  *)
(* or processes: a grant is opened by an applicant, collects signatures of *)
(* people other than the applicant, is live exactly when two have signed,  *)
(* and once closed stays closed.  A grant may be voided: the store lost    *)
(* track of it and nothing more is promised of it, but the others are not  *)
(* affected and a void grant never comes back.                             *)
(***************************************************************************)
EXTENDS FiniteSets

CONSTANTS Grants, People, Nobody

VARIABLES phase,      \* phase[g]: "none", "open", "live", "closed" or "void"
          applicant,  \* applicant[g]: who asked for the grant
          signers     \* signers[g]: who has signed it

grantVars == <<phase, applicant, signers>>

Init == /\ phase = [g \in Grants |-> "none"]
        /\ applicant = [g \in Grants |-> Nobody]
        /\ signers = [g \in Grants |-> {}]

Open(g, p) == /\ phase[g] = "none"
              /\ phase' = [phase EXCEPT ![g] = "open"]
              /\ applicant' = [applicant EXCEPT ![g] = p]
              /\ UNCHANGED signers

FirstSign(g, p) == /\ phase[g] = "open"
                   /\ signers[g] = {}
                   /\ p # applicant[g]
                   /\ signers' = [signers EXCEPT ![g] = {p}]
                   /\ UNCHANGED <<phase, applicant>>

SecondSign(g, p) == /\ phase[g] = "open"
                    /\ \E q \in People \ {p} : signers[g] = {q}
                    /\ p # applicant[g]
                    /\ signers' = [signers EXCEPT ![g] = @ \cup {p}]
                    /\ phase' = [phase EXCEPT ![g] = "live"]
                    /\ UNCHANGED applicant

\* One sweep may close several live grants at once; a revocation closes one.
Close(G) == /\ G # {}
            /\ \A g \in G : phase[g] = "live"
            /\ phase' = [g \in Grants |-> IF g \in G THEN "closed" ELSE phase[g]]
            /\ UNCHANGED <<applicant, signers>>

Withdraw(g) == /\ phase[g] = "open"
               /\ phase' = [phase EXCEPT ![g] = "closed"]
               /\ UNCHANGED <<applicant, signers>>

\* Voiding changes no other grant and happens at no other grant's step.
Void(G) == /\ G # {}
           /\ \A g \in G : phase[g] # "void"
           /\ phase' = [g \in Grants |-> IF g \in G THEN "void" ELSE phase[g]]
           /\ applicant' = [g \in Grants |-> IF g \in G THEN Nobody ELSE applicant[g]]
           /\ signers' = [g \in Grants |-> IF g \in G THEN {} ELSE signers[g]]

Next == \/ \E g \in Grants, p \in People : Open(g, p) \/ FirstSign(g, p) \/ SecondSign(g, p)
        \/ \E g \in Grants : Withdraw(g)
        \/ \E G \in SUBSET Grants : Close(G) \/ Void(G)

Spec == Init /\ [][Next]_grantVars
=============================================================================
