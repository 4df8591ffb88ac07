--------------------------- MODULE AtomicReplace ---------------------------
(***************************************************************************)
(* What a crash-safe publication promises: at every moment each place has  *)
(* one generation that is in force, the last one committed there, and a    *)
(* commit only ever puts a newer one in force.  0 is no generation yet.    *)
(***************************************************************************)
EXTENDS Naturals

CONSTANTS Places, Generations

VARIABLE inForce

Init == inForce = [p \in Places |-> 0]

Commit(p, g) ==
    /\ g > inForce[p]
    /\ inForce' = [inForce EXCEPT ![p] = g]

Next == \E p \in Places, g \in Generations : Commit(p, g)

ReplaceSpec == Init /\ [][Next]_inForce

=============================================================================
