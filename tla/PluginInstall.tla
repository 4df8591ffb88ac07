--------------------------- MODULE PluginInstall ---------------------------
(***************************************************************************)
(* One installed plugin of the latest archive: package installations with  *)
(* their transaction directories, the uninstall, the downloads that commit *)
(* into its vault, the seeding of a bundled original, archive creation,    *)
(* and what a boot finds after a crash.                                    *)
(*                                                                         *)
(* A directory tree is the package it came from, the vault files in it,    *)
(* and whether it is complete.  Renames are atomic; copies and recursive   *)
(* removals are not.  All commands but archive creation are commits of the *)
(* storage coordinator and run concurrently; archive creation freezes it.  *)
(***************************************************************************)
EXTENDS Naturals, Sequences, FiniteSets

CONSTANTS
    Installs,      \* package installations; each names the package it brings
    Uninstalls,    \* uninstall calls
    Downloads,     \* downloads; each names the vault file it commits
    Original,      \* the package installed at first
    Bundled,       \* the package bundled with the application
    NoPackage,     \* a tree without a package
    HasBundle,     \* whether the application bundles this plugin
    MaxArchives,   \* bound: archive versions
    MaxCrashes,    \* bound: process crashes
    MaxFailures    \* bound: file system errors, in a command or in its cleanup

ASSUME CallsAssumption ==
    /\ IsFiniteSet(Installs) /\ IsFiniteSet(Uninstalls) /\ IsFiniteSet(Downloads)
    /\ Installs \intersect Uninstalls = {} /\ (Installs \cup Uninstalls) \intersect Downloads = {}
    /\ Installs \intersect {Original, Bundled, NoPackage} = {}
    /\ Original # Bundled /\ NoPackage \notin {Original, Bundled}
ASSUME BoundsAssumption ==
    /\ HasBundle \in BOOLEAN
    /\ MaxArchives \in Nat \ {0}
    /\ {MaxCrashes, MaxFailures} \subseteq Nat

VARIABLES
    target,      \* plugins/<id> of the latest version
    work,        \* local/plugin-transactions/<uuid>, one for each installation
    latest,      \* paths.latestVersion
    seedRemoved, \* the id is in local/seed-removals.json
    registered,  \* the loader's registry has the plugin and it is not missing
    server,      \* "booting", "up", or "refused" when recovery threw
    chain,       \* pending: the installations of this target, in call order
    pc,          \* where each call stands
    crashes, failures

VARIABLES        \* history
    retired,     \* packages replaced by a later commit or uninstalled
    outlived,    \* a transaction outlived its call in a registered state
    overlapped   \* a command ran beside one of another kind that it may disturb

disk == <<target, work, latest, seedRemoved>>
budget == <<crashes, failures>>
history == <<retired, outlived, overlapped>>
vars == <<disk, registered, server, chain, pc, budget, history>>

Calls == Installs \cup Uninstalls \cup Downloads
Packages == Installs \cup {Original, Bundled, NoPackage}
Tree == [package: Packages, vault: SUBSET Downloads, form: {"absent", "partial", "whole"}]
NoTree == [package |-> NoPackage, vault |-> {}, form |-> "absent"]
BareTree == [NoTree EXCEPT !.form = "partial"]

Work == [made: BOOLEAN, next: Tree, previous: Tree, marker: 0..MaxArchives]
NoWork == [made |-> FALSE, next |-> NoTree, previous |-> NoTree, marker |-> 0]

Exists(tree) == tree.form # "absent"

\* Between its call and its end an installation stands at one of these.
Installing == {"queued", "copying", "copied", "merged", "marked", "aside",
               "catching", "discarding", "cleaning"}
Ended == {"idle", "done", "failed", "lost"}

TypeOK ==
    /\ target \in Tree /\ work \in [Installs -> Work]
    /\ latest \in 1..MaxArchives
    /\ seedRemoved \in BOOLEAN /\ registered \in BOOLEAN
    /\ server \in {"booting", "up", "refused"}
    /\ chain \in Seq(Installs)
    /\ pc \in [Calls -> Installing \cup {"removing", "removed", "vault", "file"} \cup Ended]
    /\ crashes \in 0..MaxCrashes /\ failures \in 0..MaxFailures
    /\ retired \subseteq Packages
    /\ outlived \in BOOLEAN /\ overlapped \in BOOLEAN

Init ==
    /\ target = [NoTree EXCEPT !.package = Original, !.form = "whole"]
    /\ work = [i \in Installs |-> NoWork]
    /\ latest = 1
    /\ seedRemoved = FALSE /\ registered = TRUE
    /\ server = "up"
    /\ chain = <<>>
    /\ pc = [c \in Calls |-> "idle"]
    /\ crashes = 0 /\ failures = 0
    /\ retired = {} /\ outlived = FALSE /\ overlapped = FALSE

-----------------------------------------------------------------------------
Active == {c \in Calls : pc[c] \notin Ended}

(* An installation runs beside a command of another kind.                  *)
Mixed(cs) == cs \intersect Installs # {} /\ cs \ Installs # {}

(* A commit on the plugin starts beside the ones that run.                 *)
Begin(c, label) ==
    /\ server = "up" /\ pc[c] = "idle"
    /\ pc' = [pc EXCEPT ![c] = label]
    /\ overlapped' = (overlapped \/ Mixed(Active \cup {c}))

Goto(c, label) == pc' = [pc EXCEPT ![c] = label]

(* rescan: the registry takes what is on disk.                             *)
Rescanned(tree) == registered' = (tree.form = "whole")

(* Packages that must not come back once `current` is what is installed.   *)
Retire(current) ==
    retired' = (retired \cup {Original}
                        \cup {i \in Installs : pc[i] \in Ended \ {"idle"}}) \ {current}

(* After an uninstall nothing that was ever installed may come back.       *)
RetireAll ==
    retired' = retired \cup {Original, Bundled}
                       \cup {i \in Installs : pc[i] \in Ended \ {"idle"}}

-----------------------------------------------------------------------------
(* installPluginTransaction, chained on the earlier calls for this target. *)
InstallCall(i) ==
    /\ Begin(i, "queued")
    /\ chain' = Append(chain, i)
    /\ UNCHANGED <<disk, registered, server, budget, retired, outlived>>

Turn(i) == chain # <<>> /\ Head(chain) = i

(* The transaction directory, and the copy of the package under way.       *)
Prepare(i) ==
    /\ Turn(i) /\ pc[i] = "queued"
    /\ Goto(i, "copying")
    /\ work' = [work EXCEPT ![i] = [NoWork EXCEPT !.made = TRUE, !.next = BareTree]]
    /\ UNCHANGED <<target, latest, seedRemoved, registered, server, chain, budget, history>>

CopyPackage(i) ==
    /\ pc[i] = "copying"
    /\ Goto(i, "copied")
    /\ work' = [work EXCEPT ![i].next = [package |-> i, vault |-> {}, form |-> "whole"]]
    /\ UNCHANGED <<target, latest, seedRemoved, registered, server, chain, budget, history>>

(* Mutation: the vault of the installed plugin is not carried over.        *)
CopyNoVault(i) ==
    /\ pc[i] = "copied"
    /\ Goto(i, "merged")
    /\ UNCHANGED <<disk, registered, server, chain, budget, history>>

CopyVault(i) ==
    /\ pc[i] = "copied"
    /\ Goto(i, "merged")
    /\ work' = [work EXCEPT ![i].next.vault = target.vault]
    /\ UNCHANGED <<target, latest, seedRemoved, registered, server, chain, budget, history>>

(* Mutation: the marker is written after the installed tree moved.         *)
WriteNoMarker(i) ==
    /\ pc[i] = "merged"
    /\ Goto(i, "marked")
    /\ UNCHANGED <<disk, registered, server, chain, budget, history>>

(* pending.json, written atomically: from here on the transaction replays. *)
WriteMarker(i) ==
    /\ pc[i] = "merged"
    /\ Goto(i, "marked")
    /\ work' = [work EXCEPT ![i].marker = latest]
    /\ UNCHANGED <<target, latest, seedRemoved, registered, server, chain, budget, history>>

MoveAside(i) ==
    /\ pc[i] = "marked"
    /\ Goto(i, "aside")
    /\ target' = NoTree
    /\ work' = IF Exists(target) THEN [work EXCEPT ![i].previous = target] ELSE work
    /\ UNCHANGED <<latest, seedRemoved, registered, server, chain, budget, history>>

(* The rename that commits the installation; it fails on a directory that  *)
(* appeared in the meantime.                                               *)
Publish(i) ==
    /\ pc[i] = "aside" /\ ~Exists(target)
    /\ Goto(i, "cleaning")
    /\ target' = work[i].next
    /\ work' = [work EXCEPT ![i].next = NoTree]
    /\ Retire(i)
    /\ UNCHANGED <<latest, seedRemoved, registered, server, chain, budget, outlived, overlapped>>

PublishRefused(i) ==
    /\ pc[i] = "aside" /\ Exists(target)
    /\ Goto(i, "catching")
    /\ UNCHANGED <<disk, registered, server, chain, budget, history>>

(* A file system error in any step before the commit.                      *)
Fail(i) ==
    /\ pc[i] \in {"copying", "copied", "merged", "marked", "aside"}
    /\ failures < MaxFailures
    /\ failures' = failures + 1
    /\ Goto(i, "catching")
    /\ UNCHANGED <<disk, registered, server, chain, crashes, history>>

(* What a removal of a transaction directory leaves when it is cut short:  *)
(* any subset, trees included.  Nothing reads the rest without its marker, *)
(* nor any of it before the next boot.                                     *)
Leftover == [NoWork EXCEPT !.made = TRUE]
Part(tree) == {tree, NoTree, [tree EXCEPT !.form = IF Exists(tree) THEN "partial" ELSE "absent"]}
Remains(w) ==
    {Leftover} \cup
    (IF w.marker = 0 THEN {}
     ELSE {[w EXCEPT !.next = parts[1], !.previous = parts[2]] :
           parts \in Part(w.next) \X Part(w.previous)})

(* An installation's promise settles and the next in the chain starts.     *)
Settle(i, label) == Goto(i, label) /\ chain' = Tail(chain)

(* The catch block: the installed tree is moved back when there is none.   *)
(* That rename may fail too, and the transaction then waits for a boot;    *)
(* so does one that has nothing to move back and is registered.            *)
Catch(i) ==
    /\ pc[i] = "catching"
    /\ \/ /\ ~Exists(target) /\ Exists(work[i].previous)
          /\ \/ /\ target' = work[i].previous
                /\ work' = [work EXCEPT ![i].previous = NoTree]
                /\ Goto(i, "discarding")
                /\ UNCHANGED <<chain, failures, outlived>>
             \/ /\ failures < MaxFailures
                /\ failures' = failures + 1
                /\ Settle(i, "failed")
                /\ outlived' = TRUE
                /\ UNCHANGED <<target, work>>
       \/ /\ ~Exists(target) /\ ~Exists(work[i].previous) /\ work[i].marker # 0
          /\ Settle(i, "failed")
          /\ outlived' = TRUE
          /\ UNCHANGED <<target, work, failures>>
       \/ /\ Exists(target) \/ (~Exists(work[i].previous) /\ work[i].marker = 0)
          /\ Goto(i, "discarding")
          /\ UNCHANGED <<target, work, chain, failures, outlived>>
    /\ UNCHANGED <<latest, seedRemoved, registered, server, crashes,
                   retired, overlapped>>

(* Mutation: a committed transaction is not cleaned up.                    *)
EndWithoutCleanup(i) ==
    /\ pc[i] \in {"cleaning", "discarding"}
    /\ Settle(i, IF pc[i] = "cleaning" THEN "done" ELSE "failed")
    /\ work' = IF pc[i] = "cleaning" THEN work ELSE [work EXCEPT ![i] = NoWork]
    /\ IF pc[i] = "cleaning" THEN Rescanned(target) ELSE UNCHANGED registered
    /\ UNCHANGED <<target, latest, seedRemoved, server, budget, history>>

(* rm(work) ends or fails; its error is ignored after a commit and rethrown from *)
(* the catch block.  A committed installation rescans the registry.        *)
EndInstall(i) ==
    /\ pc[i] \in {"cleaning", "discarding"}
    /\ Settle(i, IF pc[i] = "cleaning" THEN "done" ELSE "failed")
    /\ \/ /\ work' = [work EXCEPT ![i] = NoWork]
          /\ UNCHANGED <<failures, outlived>>
       \/ /\ failures < MaxFailures
          /\ failures' = failures + 1
          /\ \E w \in Remains(work[i]) : work' = [work EXCEPT ![i] = w]
          /\ outlived' = (outlived \/ work'[i].marker # 0)
    /\ IF pc[i] = "cleaning" THEN Rescanned(target) ELSE UNCHANGED registered
    /\ UNCHANGED <<target, latest, seedRemoved, server, crashes,
                   retired, overlapped>>

-----------------------------------------------------------------------------
UninstallCall(u) ==
    /\ registered
    /\ Begin(u, "removing")
    /\ UNCHANGED <<disk, registered, server, chain, budget, retired, outlived>>

(* rm walks plugins/<id> by name, whatever tree is there by then.          *)
RemoveSome(u) ==
    /\ pc[u] = "removing" /\ target.form = "whole"
    /\ target' = [target EXCEPT !.form = "partial"]
    /\ UNCHANGED <<work, latest, seedRemoved, registered, server, chain, pc,
                   budget, history>>

RemoveLast(u) ==
    /\ pc[u] = "removing"
    /\ target' = NoTree
    /\ Goto(u, "removed")
    /\ UNCHANGED <<work, latest, seedRemoved, registered, server, chain, budget, history>>

(* Mutation: the removal is not recorded.                                  *)
UninstallForgets(u) ==
    /\ pc[u] = "removed"
    /\ Goto(u, "done")
    /\ Rescanned(target)
    /\ RetireAll
    /\ UNCHANGED <<disk, server, chain, budget, outlived, overlapped>>

(* seedRemovals.add, and the registry forgets the plugin.                  *)
UninstallEnds(u) ==
    /\ pc[u] = "removed"
    /\ seedRemoved' = TRUE
    /\ Goto(u, "done")
    /\ Rescanned(target)
    /\ RetireAll
    /\ UNCHANGED <<target, work, latest, server, chain, budget, outlived, overlapped>>

(* An error of the rm, or of the record, leaves the rest as it is.         *)
UninstallFails(u) ==
    /\ pc[u] \in {"removing", "removed"} /\ failures < MaxFailures
    /\ failures' = failures + 1
    /\ Goto(u, "failed")
    /\ UNCHANGED <<disk, registered, server, chain, crashes, history>>

-----------------------------------------------------------------------------
(* The commit of a download, after consent and transfer: the plugin is     *)
(* looked up in the registry, then the vault directory is made ...         *)
DownloadCall(d) ==
    /\ registered
    /\ Begin(d, "vault")
    /\ UNCHANGED <<disk, registered, server, chain, budget, retired, outlived>>

MakeVault(d) ==
    /\ pc[d] = "vault"
    /\ target' = IF Exists(target) THEN target ELSE BareTree
    /\ Goto(d, "file")
    /\ UNCHANGED <<work, latest, seedRemoved, registered, server, chain, budget, history>>

(* ... and the file is renamed into it, or fails to be.                    *)
CommitFile(d) ==
    /\ pc[d] = "file"
    /\ IF Exists(target)
       THEN target' = [target EXCEPT !.vault = @ \cup {d}] /\ Goto(d, "done")
       ELSE Goto(d, "failed") /\ UNCHANGED target
    /\ UNCHANGED <<work, latest, seedRemoved, registered, server, chain, budget, history>>

-----------------------------------------------------------------------------
(* seedDirsToSeed: the bundled original is copied where there is no        *)
(* manifest, unless the user removed the plugin.                           *)
Seeded ==
    IF HasBundle /\ ~seedRemoved /\ target.form # "whole"
    THEN [package |-> Bundled, vault |-> target.vault, form |-> "whole"]
    ELSE target

Rescan ==
    /\ server = "up" /\ Seeded # target
    /\ target' = Seeded
    /\ Rescanned(target')
    /\ overlapped' = (overlapped \/ Active \ Downloads # {})
    /\ UNCHANGED <<work, latest, seedRemoved, server, chain, pc, budget, retired, outlived>>

(* restoreSeedPlugin: the record goes, and a rescan seeds the original.    *)
RestoreSeed ==
    /\ server = "up" /\ HasBundle /\ seedRemoved /\ ~registered
    /\ seedRemoved' = FALSE
    /\ target' = IF target.form = "whole" THEN target
                 ELSE [package |-> Bundled, vault |-> target.vault, form |-> "whole"]
    /\ Rescanned(target')
    /\ retired' = retired \ {Bundled}
    /\ overlapped' = (overlapped \/ Active \ Downloads # {})
    /\ UNCHANGED <<work, latest, server, chain, pc, budget, outlived>>

(* Archive creation freezes the root, so no command is in progress; the    *)
(* plugin goes on as an independent copy in the new version.               *)
CreateArchive ==
    /\ server = "up" /\ Active = {}
    /\ latest < MaxArchives
    /\ latest' = latest + 1
    /\ UNCHANGED <<target, work, seedRemoved, registered, server, chain, pc,
                   budget, history>>

-----------------------------------------------------------------------------
(* A transaction that a boot finds without its marker, or done with.       *)
Discardable(i) ==
    /\ server = "booting" /\ work[i].made
    /\ work[i].marker = 0 \/ (work[i].marker = latest /\ Exists(target))

Crash ==
    /\ crashes < MaxCrashes
    /\ crashes' = crashes + 1
    /\ server' = "booting"
    /\ pc' = [c \in Calls |-> IF c \in Active THEN "lost" ELSE pc[c]]
    /\ chain' = <<>>
    /\ \/ UNCHANGED work
       \/ \E i \in Installs : \E w \in Remains(work[i]) :
              /\ pc[i] \in {"cleaning", "discarding"} \/ Discardable(i)
              /\ work' = [work EXCEPT ![i] = w]
    /\ UNCHANGED <<target, latest, seedRemoved, registered, failures, history>>

(* Mutation: recovery completes the new tree rather than the old one.      *)
RecoverForward(i) ==
    /\ server = "booting" /\ work[i].marker = latest /\ ~Exists(target)
    /\ \/ /\ Exists(work[i].next)
          /\ target' = work[i].next
          /\ work' = [work EXCEPT ![i].next = NoTree]
       \/ /\ ~Exists(work[i].next) /\ Exists(work[i].previous)
          /\ target' = work[i].previous
          /\ work' = [work EXCEPT ![i].previous = NoTree]
    /\ UNCHANGED <<latest, seedRemoved, registered, server, chain, pc, budget, history>>

(* recoverPluginInstallations: a registered transaction restores the old   *)
(* tree, or completes the new one when there was none.                     *)
Recover(i) ==
    /\ server = "booting" /\ work[i].marker = latest /\ ~Exists(target)
    /\ \/ /\ Exists(work[i].previous)
          /\ target' = work[i].previous
          /\ work' = [work EXCEPT ![i].previous = NoTree]
       \/ /\ ~Exists(work[i].previous) /\ Exists(work[i].next)
          /\ target' = work[i].next
          /\ work' = [work EXCEPT ![i].next = NoTree]
    /\ UNCHANGED <<latest, seedRemoved, registered, server, chain, pc, budget, history>>

(* Transactions that are not registered, or that are done with, go away.   *)
RecoverDiscards(i) ==
    /\ Discardable(i)
    /\ work' = [work EXCEPT ![i] = NoWork]
    /\ UNCHANGED <<target, latest, seedRemoved, registered, server, chain, pc,
                   budget, history>>

RecoverRefuses(i) ==
    /\ server = "booting" /\ work[i].marker # 0
    /\ \/ work[i].marker # latest
       \/ ~Exists(target) /\ ~Exists(work[i].previous) /\ ~Exists(work[i].next)
    /\ server' = "refused"
    /\ UNCHANGED <<disk, registered, chain, pc, budget, history>>

BootEnds ==
    /\ server = "booting" /\ \A i \in Installs : ~work[i].made
    /\ server' = "up"
    /\ target' = Seeded
    /\ Rescanned(target')
    /\ UNCHANGED <<work, latest, seedRemoved, chain, pc, budget, history>>

-----------------------------------------------------------------------------
Install(i) ==
    \/ InstallCall(i) \/ Prepare(i) \/ CopyPackage(i) \/ CopyVault(i) \/ WriteMarker(i)
    \/ MoveAside(i) \/ Publish(i) \/ PublishRefused(i) \/ Fail(i) \/ Catch(i)
    \/ EndInstall(i)
Boot == BootEnds \/ \E i \in Installs : Recover(i) \/ RecoverDiscards(i) \/ RecoverRefuses(i)

(* Nothing is left to do: calls ended, or the server does not start.       *)
Quiescent ==
    /\ server = "refused" \/ (server = "up" /\ Active = {})
    /\ UNCHANGED vars

Next ==
    \/ \E i \in Installs : Install(i)
    \/ \E u \in Uninstalls :
           \/ UninstallCall(u) \/ RemoveSome(u) \/ RemoveLast(u)
           \/ UninstallEnds(u) \/ UninstallFails(u)
    \/ \E d \in Downloads : DownloadCall(d) \/ MakeVault(d) \/ CommitFile(d)
    \/ Rescan \/ RestoreSeed \/ CreateArchive \/ Crash \/ Boot \/ Quiescent

Spec == Init /\ [][Next]_vars
-----------------------------------------------------------------------------
UninstallBegun == \E u \in Uninstalls : pc[u] # "idle"

(* No other command ran beside an installation and no rescan beside a      *)
(* change of the installed tree, and every transaction was cleaned up by   *)
(* its call or by a boot.                                                  *)
Orderly == ~overlapped /\ ~outlived

(* A plugin nobody uninstalls is never lost: it is in place, or a          *)
(* registered transaction holds a complete tree that recovery will take.   *)
NeverLost ==
    ~UninstallBegun /\ Orderly =>
        \/ target.form = "whole"
        \/ \E i \in Installs :
              /\ work[i].marker = latest
              /\ \/ work[i].previous.form = "whole"
                 \/ ~Exists(work[i].previous) /\ work[i].next.form = "whole"

(* Until an installation commits or an uninstall ends, failures, crashes   *)
(* and recoveries leave the installed package what it was.                 *)
UntouchedUntilCommitted ==
    Original \notin retired /\ ~UninstallBegun /\ Orderly =>
        target.package \in {Original, NoPackage}

(* What was replaced by an update or uninstalled does not come back,       *)
(* whatever crashes, fails, is seeded or recovered afterwards.             *)
RetiredStaysAway == Orderly => target.package \notin retired

(* Files of completed downloads are in the vault of the package that is    *)
(* installed now, through updates, failed updates and crashes.             *)
VaultKept ==
    ~UninstallBegun /\ Orderly /\ target.form = "whole" =>
        \A d \in Downloads : pc[d] = "done" => d \in target.vault

(* Recovery never keeps the server from starting.                          *)
BootSucceeds == server = "refused" => ~Orderly

-----------------------------------------------------------------------------
(* The same without the exceptions, as the documentation and the comments  *)
(* of the code have it.                                                    *)

(* The vault is "kept across updates" (a download may well commit while    *)
(* the user updates the plugin).                                           *)
VaultSurvivesUpdates ==
    ~UninstallBegun /\ target.form = "whole" =>
        \A d \in Downloads : pc[d] = "done" => d \in target.vault

(* An uninstalled plugin does not "silently come back on restart" (with    *)
(* no other command beside the uninstall).                                 *)
UninstalledStaysAway == ~overlapped => target.package \notin retired

=============================================================================
