----------------------------- MODULE PluginVault -----------------------------
(***************************************************************************)
(* Downloads of a plugin into its vault.  A batch asks for some files: what*)
(* the vault has is a hit, for the rest the user is asked once, the files  *)
(* are fetched into a staging directory and then renamed into the vault,   *)
(* one by one, in a file commit.  Batches, deletions, the user, context    *)
(* reloads and archive publications run beside one another; the commit of  *)
(* one batch does not exclude that of another.  Every file has size one.   *)
(***************************************************************************)
EXTENDS Naturals, Sequences, FiniteSets, SequencesExt

CONSTANTS
    Batches,
    Wants,         \* the destinations of each batch, in order
    None,
    Quota,         \* PLUGIN_ASSET maxTotalBytes
    MaxPending,    \* maxPendingPerPlugin
    Versions,      \* bound: archives published
    MaxErrors,     \* bound: fetches and commits that fail
    MaxEvents      \* bound: deletions, reloads and plugins switched off

Dests == UNION {ToSet(Wants[b]) : b \in Batches}

ASSUME VaultAssumption ==
    /\ IsFiniteSet(Batches) /\ Batches # {} /\ None \notin Batches
    /\ Wants \in [Batches -> Seq(Dests)] /\ \A b \in Batches : IsInjective(Wants[b])
    /\ {Quota, Versions, MaxErrors, MaxEvents} \subseteq Nat /\ MaxPending \in Nat \ {0}

VARIABLES
    vault,       \* the files of each version's vault, and the batch each comes from
    latestVersion,      \* paths.latestVersion
    enabled,     \* the plugin is in the registry, enabled and may download
    stands, source,  \* where a batch stands, and the version it began with
    misses,      \* what it has to fetch, and
    todo,        \* those of them still to be fetched, or then committed
    existing,    \* the size its current destination had when it looked
    staging,     \* the files in vault-staging
    pending,     \* the batches with a ticket
    remembered,  \* the plugin is on the session's allow list
    disturbed,   \* history: batches whose commit met another change of the vault, or failed
    errors, events

batch == <<stands, source, misses, todo, existing>>
consent == <<pending, remembered>>
vaultVars == <<vault, latestVersion, enabled, batch, staging, consent, disturbed, errors, events>>

Committing == {b \in Batches : stands[b] \in {"measure", "look", "check", "rename"}}
EndedBatches == {b \in Batches : stands[b] \in {"done", "failed"}}

VaultTypeOK ==
    /\ vault \in [1..(Versions + 1) -> [Dests -> Batches \cup {None}]]
    /\ latestVersion \in 1..(Versions + 1) /\ {enabled, remembered} \subseteq BOOLEAN
    /\ stands \in [Batches -> {"idle", "asking", "fetching", "waiting", "measure", "look", "check",
                           "rename", "done", "failed"}]
    /\ source \in [Batches -> 1..latestVersion] /\ existing \in [Batches -> 0..1]
    /\ {misses, todo} \subseteq [Batches -> SUBSET Dests]
    /\ staging \subseteq Batches \X Dests
    /\ pending = {b \in Batches : stands[b] = "asking"} /\ Cardinality(pending) <= MaxPending
    /\ disturbed \subseteq Batches

VaultInit ==
    /\ vault = [v \in 1..(Versions + 1) |-> [d \in Dests |-> None]]
    /\ latestVersion = 1 /\ enabled = TRUE
    /\ stands = [b \in Batches |-> "idle"] /\ source = [b \in Batches |-> 1]
    /\ misses = [b \in Batches |-> {}] /\ todo = [b \in Batches |-> {}]
    /\ existing = [b \in Batches |-> 0]
    /\ staging = {} /\ pending = {} /\ remembered = FALSE
    /\ disturbed = {} /\ errors = 0 /\ events = 0

BatchGoto(b, stage) == stands' = [stands EXCEPT ![b] = stage]
Total(v) == Cardinality({d \in Dests : vault[v][d] # None})

(* A batch goes through its files in the order of its requests.            *)
Current(b) ==
    LET first == CHOOSE k \in DOMAIN Wants[b] :
                     Wants[b][k] \in todo[b] /\ \A j \in 1..(k - 1) : Wants[b][j] \notin todo[b]
    IN  Wants[b][first]
IsLast(b) == todo[b] = {Current(b)}
Error == errors < MaxErrors /\ errors' = errors + 1
Event == events < MaxEvents /\ events' = events + 1
Fails(b) == BatchGoto(b, "failed") /\ staging' = {f \in staging : f[1] # b}

-----------------------------------------------------------------------------
(* The batch is validated, and the vault looked at.  The broker refuses it *)
(* when the plugin has too many tickets or nobody is there to answer.      *)
RequestDownloads(b) ==
    LET missing == {d \in ToSet(Wants[b]) : vault[latestVersion][d] = None}
    IN  /\ stands[b] = "idle" /\ enabled
        /\ source' = [source EXCEPT ![b] = latestVersion]
        /\ misses' = [misses EXCEPT ![b] = missing] /\ todo' = [todo EXCEPT ![b] = missing]
        /\ \/ missing = {} /\ BatchGoto(b, "waiting") /\ UNCHANGED pending
           \/ missing # {} /\ remembered /\ BatchGoto(b, "fetching") /\ UNCHANGED pending
           \/ missing # {} /\ ~remembered /\ Cardinality(pending) < MaxPending
              /\ BatchGoto(b, "asking") /\ pending' = pending \cup {b}
           \/ missing # {} /\ BatchGoto(b, "failed") /\ UNCHANGED pending
        /\ UNCHANGED <<vault, latestVersion, enabled, existing, staging, remembered, disturbed, errors, events>>

(* Mutation: a ticket that runs out is forgotten, and nobody is told.      *)
DecideSilently(b, approved, remember) ==
    /\ b \in pending /\ pending' = pending \ {b}
    /\ remembered' = (remembered \/ (approved /\ remember))
    /\ IF approved THEN BatchGoto(b, "fetching") ELSE UNCHANGED stands
    /\ UNCHANGED <<vault, latestVersion, enabled, source, misses, todo, existing, staging, disturbed, errors, events>>

(* decide, or the time limit of the ticket.                                *)
Decide(b, approved, remember) ==
    /\ b \in pending /\ pending' = pending \ {b}
    /\ remembered' = (remembered \/ (approved /\ remember))
    /\ BatchGoto(b, IF approved THEN "fetching" ELSE "failed")
    /\ UNCHANGED <<vault, latestVersion, enabled, source, misses, todo, existing, staging, disturbed, errors, events>>

(* A context reload denies every ticket.                                   *)
Dispose ==
    /\ pending # {} /\ Event /\ pending' = {}
    /\ stands' = [b \in Batches |-> IF b \in pending THEN "failed" ELSE stands[b]]
    /\ UNCHANGED <<vault, latestVersion, enabled, source, misses, todo, existing, staging, remembered, disturbed, errors>>

Fetch(b) ==
    /\ stands[b] = "fetching" /\ staging' = staging \cup {<<b, Current(b)>>}
    /\ todo' = [todo EXCEPT ![b] = IF IsLast(b) THEN misses[b] ELSE @ \ {Current(b)}]
    /\ BatchGoto(b, IF IsLast(b) THEN "waiting" ELSE "fetching")
    /\ UNCHANGED <<vault, latestVersion, enabled, source, misses, existing, consent, disturbed, errors, events>>

(* The server, the network or the pin fails.  A file that has been begun is*)
(* not yet among the staged ones that are discarded.                       *)
FetchFails(b) ==
    /\ stands[b] = "fetching" /\ Error /\ BatchGoto(b, "failed")
    /\ LET others == {f \in staging : f[1] # b}
       IN  staging' \in {others, others \cup {<<b, Current(b)>>}}
    /\ UNCHANGED <<vault, latestVersion, enabled, source, misses, todo, existing, consent, disturbed, events>>

-----------------------------------------------------------------------------
(* Mutation: the version is not compared again.                            *)
EnterAnyVersion(b) ==
    /\ stands[b] = "waiting"
    /\ IF enabled THEN BatchGoto(b, "measure") /\ UNCHANGED staging ELSE Fails(b)
    /\ disturbed' = IF Committing = {} THEN disturbed ELSE disturbed \cup Committing \cup {b}
    /\ UNCHANGED <<vault, latestVersion, enabled, source, misses, todo, existing, consent, errors, events>>

(* The file commit begins: the vault directory is that of the version the  *)
(* batch began with.                                                       *)
Enter(b) ==
    /\ stands[b] = "waiting"
    /\ IF source[b] = latestVersion /\ enabled
       THEN BatchGoto(b, "measure") /\ UNCHANGED staging
       ELSE Fails(b)
    /\ disturbed' = IF Committing = {} THEN disturbed ELSE disturbed \cup Committing \cup {b}
    /\ UNCHANGED <<vault, latestVersion, enabled, source, misses, todo, existing, consent, errors, events>>

(* Mutation: the whole batch is not measured first.                        *)
MeasureNothing(b) ==
    /\ stands[b] = "measure" /\ BatchGoto(b, IF misses[b] = {} THEN "done" ELSE "look") /\ UNCHANGED staging
    /\ UNCHANGED <<vault, latestVersion, enabled, source, misses, todo, existing, consent, disturbed, errors, events>>

(* The whole batch must fit; one of hits alone is measured as well.        *)
Measure(b) ==
    /\ stands[b] = "measure"
    /\ IF Total(source[b]) + Cardinality(misses[b]) <= Quota
       THEN BatchGoto(b, IF misses[b] = {} THEN "done" ELSE "look") /\ UNCHANGED staging
       ELSE Fails(b)
    /\ UNCHANGED <<vault, latestVersion, enabled, source, misses, todo, existing, consent, disturbed, errors, events>>

(* commitVaultFile looks at the destination, then at the total, and then   *)
(* renames.                                                                *)
Look(b) ==
    /\ stands[b] = "look" /\ BatchGoto(b, "check")
    /\ existing' = [existing EXCEPT ![b] = IF vault[source[b]][Current(b)] = None THEN 0 ELSE 1]
    /\ UNCHANGED <<vault, latestVersion, enabled, source, misses, todo, staging, consent, disturbed, errors, events>>

(* Mutation: the quota is left to the check of the whole batch.            *)
CheckNothing(b) ==
    /\ stands[b] = "check" /\ BatchGoto(b, "rename") /\ UNCHANGED staging
    /\ UNCHANGED <<vault, latestVersion, enabled, source, misses, todo, existing, consent, disturbed, errors, events>>

Check(b) ==
    /\ stands[b] = "check"
    /\ IF Total(source[b]) + 1 <= Quota + existing[b] THEN BatchGoto(b, "rename") /\ UNCHANGED staging ELSE Fails(b)
    /\ UNCHANGED <<vault, latestVersion, enabled, source, misses, todo, existing, consent, disturbed, errors, events>>

Rename(b) ==
    /\ stands[b] = "rename"
    /\ vault' = [vault EXCEPT ![source[b]][Current(b)] = b]
    /\ staging' = staging \ {<<b, Current(b)>>}
    /\ todo' = [todo EXCEPT ![b] = @ \ {Current(b)}]
    /\ BatchGoto(b, IF IsLast(b) THEN "done" ELSE "look")
    /\ UNCHANGED <<latestVersion, enabled, source, misses, existing, consent, disturbed, errors, events>>

CommitFails(b) ==
    /\ stands[b] \in {"look", "rename"} /\ Error /\ Fails(b)
    /\ disturbed' = disturbed \cup {b}
    /\ UNCHANGED <<vault, latestVersion, enabled, source, misses, todo, existing, consent, events>>

-----------------------------------------------------------------------------
DeleteAsset(d) ==
    /\ enabled /\ vault[latestVersion][d] # None /\ Event
    /\ vault' = [vault EXCEPT ![latestVersion][d] = None]
    /\ disturbed' = disturbed \cup Committing
    /\ UNCHANGED <<latestVersion, enabled, batch, staging, consent, errors>>

(* The plugin is switched on or off.                                       *)
Switch ==
    /\ Event /\ enabled' = ~enabled
    /\ UNCHANGED <<vault, latestVersion, batch, staging, consent, disturbed, errors>>

(* An archive is published under the freeze: no file commit is in progress.*)
Archive ==
    /\ Committing = {} /\ latestVersion <= Versions /\ latestVersion' = latestVersion + 1
    /\ vault' = [vault EXCEPT ![latestVersion + 1] = vault[latestVersion]]
    /\ UNCHANGED <<enabled, batch, staging, consent, disturbed, errors, events>>

-----------------------------------------------------------------------------
Commit(b) == Enter(b) \/ Measure(b) \/ Look(b) \/ Check(b) \/ Rename(b)
VaultNext ==
    \/ \E b \in Batches :
        \/ RequestDownloads(b) \/ Fetch(b) \/ FetchFails(b) \/ Commit(b) \/ CommitFails(b)
        \/ \E approved, remember \in BOOLEAN : Decide(b, approved, remember)
    \/ Dispose \/ Switch \/ Archive \/ \E d \in Dests : DeleteAsset(d)

(* Tickets and downloads have time limits; commits end.                    *)
VaultSpec == VaultInit /\ [][VaultNext]_vaultVars
VaultFairSpec ==
    /\ VaultSpec
    /\ \A b \in Batches : WF_vaultVars(Decide(b, FALSE, FALSE) \/ Fetch(b) \/ Commit(b))

-----------------------------------------------------------------------------
(* The quota holds but for one file of every other batch: whatever is      *)
(* committed and deleted between the measurements and the renames, the     *)
(* vault never grows past that.                                            *)
OvershootIsBounded == Total(latestVersion) <= Quota + Cardinality(Batches) - 1

(* A batch that fails leaves nothing in the vault, unless its commit met   *)
(* another change of the vault or an error of the disk.                    *)
AllOrNothing ==
    \A b \in Batches : stands[b] = "failed" /\ b \notin disturbed =>
        \A v \in DOMAIN vault : \A d \in Dests : vault[v][d] # b

(* A published archive does not change, though a batch that began before it*)
(* was published still has its directory.                                  *)
ArchivesAreFrozen == [][\A v \in DOMAIN vault : v < latestVersion => vault'[v] = vault[v]]_vaultVars

(* Every batch ends, though nobody answers.                                *)
BatchesEnd == \A b \in Batches : stands[b] # "idle" ~> b \in EndedBatches

(* The vault stays within its quota: what one batch after the other would   *)
(* see to, and two at once do not (README).                                *)
QuotaKept == Total(latestVersion) <= Quota

(* A batch that has ended leaves nothing in the staging directory: the file*)
(* whose fetch or pin failed does stay (README).                           *)
NothingStaged == \A f \in staging : f[1] \notin EndedBatches

=============================================================================
