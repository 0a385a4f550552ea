--------------------------- MODULE OneDecision ---------------------------
(***************************************************************************)
(* What an approval gate promises, without database, processes or locks:   *)
(* a gate is opened, one person settles it once, and the engine acts on    *)
(* the gate only after it was settled, at most once and the way it was     *)
(* settled.                                                                *)
(***************************************************************************)
CONSTANTS Gates, People, Choices, Nothing

VARIABLES verdict,  \* verdict[g]: Nothing, or <<choice, person>> once settled
          acted     \* acted[g]: Nothing, or the verdict the engine acted on

gateVars == <<verdict, acted>>

Init == /\ verdict = [g \in Gates |-> Nothing]
        /\ acted = [g \in Gates |-> Nothing]

Settle(g, d, p) == /\ verdict[g] = Nothing
                   /\ verdict' = [verdict EXCEPT ![g] = <<d, p>>]
                   /\ UNCHANGED acted

Act(g) == /\ verdict[g] # Nothing /\ acted[g] = Nothing
          /\ acted' = [acted EXCEPT ![g] = verdict[g]]
          /\ UNCHANGED verdict

Next == \E g \in Gates : Act(g) \/ \E d \in Choices, p \in People : Settle(g, d, p)

Spec == Init /\ [][Next]_gateVars
=============================================================================
