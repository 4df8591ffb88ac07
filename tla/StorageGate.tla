---------------------------- MODULE StorageGate ----------------------------
(***************************************************************************)
(* What the storage coordinator promises: a root is open to any number of  *)
(* commits, or closing, or held by one operation that has it to itself.    *)
(***************************************************************************)
EXTENDS Naturals

CONSTANTS Commits, Holders, Nobody

VARIABLES
    inside,  \* the commits in progress
    closed,  \* no commit may start
    holder,  \* the operation that has the root to itself
    version  \* counts the commits that ended

gateVars == <<inside, closed, holder, version>>

GateInit == inside = {} /\ closed = FALSE /\ holder = Nobody /\ version = 0

Begin(c) ==
    /\ ~closed /\ c \notin inside
    /\ inside' = inside \cup {c}
    /\ UNCHANGED <<closed, holder, version>>

End(c) ==
    /\ c \in inside
    /\ inside' = inside \ {c}
    /\ version' = version + 1
    /\ UNCHANGED <<closed, holder>>

(* Closing an empty root may give it to its holder in the same step.       *)
Close ==
    /\ ~closed /\ closed' = TRUE
    /\ \/ UNCHANGED holder
       \/ inside = {} /\ holder' \in Holders
    /\ UNCHANGED <<inside, version>>

Hold ==
    /\ closed /\ holder = Nobody /\ inside = {}
    /\ holder' \in Holders
    /\ UNCHANGED <<inside, closed, version>>

Open ==
    /\ closed /\ closed' = FALSE /\ holder' = Nobody
    /\ UNCHANGED <<inside, version>>

GateNext == (\E c \in Commits : Begin(c) \/ End(c)) \/ Close \/ Hold \/ Open

GateSpec == GateInit /\ [][GateNext]_gateVars
=============================================================================
