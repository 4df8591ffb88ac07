--------------------------- MODULE ArchiveHistory ---------------------------
(***************************************************************************)
(* What archives promise: the versions are 1..latest, every earlier one    *)
(* keeps its database snapshot, creating an archive freezes the latest     *)
(* version and opens the next one in one step, and a version is selected   *)
(* for viewing among those that exist.                                     *)
(***************************************************************************)
EXTENDS Naturals

CONSTANT MaxVersions   \* bound: versions

VARIABLES latest, frozen, selected

Init == latest = 1 /\ frozen = {} /\ selected = 1

Archive ==
    /\ latest < MaxVersions
    /\ latest' = latest + 1
    /\ frozen' = frozen \cup {latest}
    /\ selected' = latest'

Select(v) ==
    /\ v \in 1..latest
    /\ selected' = v
    /\ UNCHANGED <<latest, frozen>>

Next == Archive \/ \E v \in 1..MaxVersions : Select(v)

HistorySpec == Init /\ [][Next]_<<latest, frozen, selected>>

=============================================================================
