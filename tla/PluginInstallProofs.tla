------------------------- MODULE PluginInstallProofs -------------------------
(***************************************************************************)
(* Proofs about one installed plugin, for any numbers of installations,    *)
(* uninstalls, downloads, archives, crashes and failures: while commands   *)
(* of different kinds do not overlap and transactions do not outlive their *)
(* calls, the plugin is never lost, what was retired stays away, files of  *)
(* downloads are kept, and recovery never refuses.  Then the downloads     *)
(* themselves: a vault exceeds its quota by a file for each other batch at *)
(* most, batches that fail leave nothing, and archives do not change.      *)
(***************************************************************************)
EXTENDS PluginInstall, PluginVault, FiniteSetTheorems, WellFoundedInduction, TLAPS

Running == Installing \ {"queued"}
Registered(i) == work[i].marker # 0

(* One installation at a time has left the queue.                          *)
ChainInv == \A i \in Installs : pc[i] \in Running => chain # <<>> /\ Head(chain) = i

CallsInv ==
    /\ server # "up" => \A c \in Calls : pc[c] \in Ended
    /\ \A i \in Installs : pc[i] \in Installing \cup Ended
    /\ \A u \in Uninstalls : pc[u] \in {"removing", "removed"} \cup Ended
    /\ \A d \in Downloads : pc[d] \in {"vault", "file"} \cup Ended
    /\ ~UninstallBegun => ~seedRemoved

(* What a transaction directory holds at each stage of its installation.   *)
Staged(i) ==
    /\ ~work[i].made => work[i] = NoWork
    /\ pc[i] \in Running => work[i].made
    /\ work[i].marker = 0 => work[i].previous = NoTree
    /\ work[i].next.package \in {i, NoPackage}
    /\ pc[i] \in {"copied", "merged", "marked", "aside"} =>
         work[i].next.form = "whole" /\ work[i].next.package = i
    /\ pc[i] \in {"idle", "queued", "copying", "copied", "merged"} => ~Registered(i)
    /\ pc[i] \in {"marked", "aside"} => Registered(i)
    /\ pc[i] = "marked" => work[i].previous = NoTree
WorkInv == \A i \in Installs : Staged(i)

(* A registered transaction is of the latest archive, the only one, and    *)
(* has a tree for recovery to take.                                        *)
Recoverable(i) ==
    /\ work[i].marker = latest
    /\ server = "up" => pc[i] \in Running
    /\ \A j \in Installs : Registered(j) => j = i
    /\ Exists(target) \/ Exists(work[i].previous) \/ work[i].next.form = "whole"
    /\ pc[i] \in {"marked", "aside", "catching"} => work[i].next.form = "whole"
    /\ pc[i] = "discarding" => Exists(target)

(* Beside an installation no other command runs.                           *)
Ordered ==
    /\ server # "refused"
    /\ \A i \in Installs, c \in Calls \ Installs : pc[i] \in Installing => pc[c] \in Ended
    /\ \A i \in Installs : Registered(i) => Recoverable(i)
    /\ \A i \in Installs : pc[i] = "cleaning" => Exists(target)
OrderInv == Orderly => Ordered

(* Neither the tree in place nor one that recovery may take is retired.    *)
Away ==
    /\ target.package \notin retired
    /\ \A u \in Uninstalls : pc[u] = "removed" => target.package = NoPackage
    /\ \A i \in Installs : Registered(i) /\ ~Exists(target) =>
         work[i].previous.package \notin retired /\ i \notin retired
RetiredInv ==
    /\ NoPackage \notin retired
    /\ \A i \in Installs : pc[i] \in Installing \cup {"idle"} => i \notin retired
    /\ ~seedRemoved => Bundled \notin retired
    /\ Orderly => Away

(* The vault of a tree has every file that was committed.                  *)
Holds(tree) == \A d \in Downloads : pc[d] = "done" => d \in tree.vault

(* As long as nobody uninstalls: the plugin is in place or set aside.      *)
InPlaceOrAside ==
    \/ target.form = "whole"
    \/ ~Exists(target) /\ \E i \in Installs : Registered(i) /\ work[i].previous.form = "whole"
Kept ==
    /\ InPlaceOrAside
    /\ Original \notin retired =>
         /\ target.package \in {Original, NoPackage}
         /\ \A i \in Installs : work[i].previous.package \in {Original, NoPackage}
    /\ target.form = "whole" => Holds(target)
    /\ \A i \in Installs : Registered(i) /\ ~Exists(target) => Holds(work[i].previous)
    /\ \A i \in Installs : pc[i] \in {"merged", "marked", "aside"} => Holds(work[i].next)
KeptInv == Orderly /\ ~UninstallBegun => Kept

IInv == TypeOK /\ ChainInv /\ CallsInv /\ WorkInv /\ OrderInv /\ RetiredInv /\ KeptInv

-----------------------------------------------------------------------------
(* Trees, and what is left of a transaction directory.                     *)
LEMMA Trees ==
    /\ NoTree \in Tree /\ BareTree \in Tree
    /\ NoTree.package = NoPackage /\ NoTree.form = "absent" /\ NoTree.vault = {}
    /\ BareTree.package = NoPackage /\ BareTree.form = "partial" /\ BareTree.vault = {}
    /\ NoWork \in Work /\ Leftover \in Work
    /\ NoWork.made = FALSE /\ NoWork.marker = 0 /\ NoWork.next = NoTree /\ NoWork.previous = NoTree
    /\ Leftover.made = TRUE /\ Leftover.marker = 0 /\ Leftover.next = NoTree
    /\ Leftover.previous = NoTree
  <1>1. NoTree \in Tree /\ BareTree \in Tree
    BY DEF NoTree, BareTree, Tree, Packages
  <1>2. 0 \in 0..MaxArchives
    BY BoundsAssumption
  <1>3. NoWork \in Work /\ Leftover \in Work
    BY <1>1, <1>2 DEF NoWork, Leftover, Work
  <1>4. QED
    BY <1>1, <1>3 DEF NoTree, BareTree, NoWork, Leftover

LEMMA Parts ==
    ASSUME NEW tree \in Tree, NEW part \in Part(tree)
    PROVE  part \in Tree /\ part.package \in {tree.package, NoPackage}
  BY Trees DEF Part, Tree

LEMMA Remaining ==
    ASSUME NEW w \in Work, w.marker # 0 => w.made, NEW r \in Remains(w)
    PROVE  /\ r \in Work /\ r.made /\ r.marker \in {0, w.marker}
           /\ r.marker = 0 => r.previous = NoTree
           /\ r.next.package \in {w.next.package, NoPackage}
           /\ r.previous.package \in {w.previous.package, NoPackage}
  <1>1. CASE r = Leftover
    BY <1>1, Trees
  <1>2. CASE r # Leftover
    <2>1. PICK n \in Part(w.next), p \in Part(w.previous) :
              w.marker # 0 /\ r = [w EXCEPT !.next = n, !.previous = p]
      <3>1. PICK parts \in Part(w.next) \X Part(w.previous) :
                w.marker # 0 /\ r = [w EXCEPT !.next = parts[1], !.previous = parts[2]]
        BY <1>2 DEF Remains
      <3>2. parts[1] \in Part(w.next) /\ parts[2] \in Part(w.previous)
        OBVIOUS
      <3>3. QED
        BY <3>1, <3>2
    <2>2. w.next \in Tree /\ w.previous \in Tree
      BY DEF Work
    <2>3. /\ n \in Tree /\ n.package \in {w.next.package, NoPackage}
          /\ p \in Tree /\ p.package \in {w.previous.package, NoPackage}
      BY <2>1, <2>2, Parts
    <2>4. QED
      BY <2>1, <2>3 DEF Work
  <1>3. QED
    BY <1>1, <1>2

-----------------------------------------------------------------------------
(* Moves of a call.                                                        *)
Labels == Installing \cup {"removing", "removed", "vault", "file"} \cup Ended

LEMMA Goes ==
    ASSUME TypeOK, NEW c \in Calls, NEW label \in Labels, Goto(c, label)
    PROVE  /\ pc' \in [Calls -> Labels] /\ pc'[c] = label
           /\ \A k \in Calls : k # c => pc'[k] = pc[k]
  BY DEF TypeOK, Goto, Labels

LEMMA Kinds ==
    /\ \A i \in Installs : i \in Calls /\ i \notin Uninstalls /\ i \notin Downloads
    /\ \A u \in Uninstalls : u \in Calls /\ u \notin Installs /\ u \notin Downloads
    /\ \A d \in Downloads : d \in Calls /\ d \notin Installs /\ d \notin Uninstalls
    /\ \A c \in Calls : c \in Installs \/ c \in Uninstalls \/ c \in Downloads
  BY CallsAssumption DEF Calls

LEMMA Failed ==
    ASSUME TypeOK, \/ failures < MaxFailures /\ failures' = failures + 1
                   \/ failures' = failures
    PROVE  failures' \in 0..MaxFailures
  BY BoundsAssumption DEF TypeOK

(* An installation goes on: what the rest of the calls see of it.          *)
LEMMA InstallGoes ==
    ASSUME TypeOK, CallsInv, NEW i \in Installs, pc[i] \in Installing,
           NEW label \in Installing \cup {"done", "failed"}, Goto(i, label),
           server' = server, seedRemoved' = seedRemoved
    PROVE  /\ server = "up" /\ server' = "up" /\ CallsInv'
           /\ pc' \in [Calls -> Labels] /\ pc'[i] = label
           /\ \A j \in Installs : j # i => pc'[j] = pc[j]
           /\ \A c \in Calls \ Installs : pc'[c] = pc[c]
           /\ \A u \in Uninstalls : pc'[u] = pc[u]
           /\ \A d \in Downloads : pc'[d] = pc[d]
           /\ UninstallBegun' <=> UninstallBegun
  <1>1. label \in Labels /\ i \in Calls
    BY Kinds DEF Labels, Ended
  <1>2. /\ pc' \in [Calls -> Labels] /\ pc'[i] = label
        /\ \A k \in Calls : k # i => pc'[k] = pc[k]
    BY <1>1, Goes
  <1>3. server = "up"
    BY <1>1 DEF CallsInv, Installing, Ended
  <1>4. /\ \A u \in Uninstalls : pc'[u] = pc[u]
        /\ \A d \in Downloads : pc'[d] = pc[d]
        /\ \A c \in Calls \ Installs : pc'[c] = pc[c]
    BY <1>2, Kinds
  <1>5. UninstallBegun' <=> UninstallBegun
    BY <1>4 DEF UninstallBegun
  <1>6. CallsInv'
    <2>1. \A j \in Installs : pc'[j] \in Installing \cup Ended
      BY <1>2, Kinds DEF CallsInv, Ended
    <2>2. QED
      BY <1>3, <1>4, <1>5, <2>1 DEF CallsInv
  <1>7. QED
    BY <1>2, <1>3, <1>4, <1>5, <1>6, Kinds

(* The installation whose turn it is is alone.                             *)
LEMMA Alone ==
    ASSUME ChainInv, OrderInv, CallsInv, NEW i \in Installs,
           pc[i] \in Running \/ (pc[i] = "queued" /\ Turn(i))
    PROVE  /\ \A j \in Installs : pc[j] \in Running => j = i
           /\ Orderly => \A j \in Installs : Registered(j) => j = i
           /\ Orderly => \A c \in Calls \ Installs : pc[c] \in Ended
           /\ pc[i] \in Installing
  <1>1. \A j \in Installs : pc[j] \in Running => j = i
    BY DEF ChainInv, Turn
  <1>2. pc[i] \in Installing
    BY DEF Running, Installing
  <1>3. server = "up"
    BY <1>2, Kinds DEF CallsInv, Installing, Ended
  <1>4. QED
    BY <1>1, <1>2, <1>3 DEF OrderInv, Ordered, Recoverable

LEMMA ChainGoes ==
    ASSUME TypeOK, ChainInv, NEW i \in Installs, pc[i] \in Running,
           NEW label \in Running, Goto(i, label), chain' = chain
    PROVE  ChainInv'
  BY Goes, Kinds DEF ChainInv, Labels, Running

LEMMA ChainSettles ==
    ASSUME TypeOK, ChainInv, NEW i \in Installs, pc[i] \in Running,
           NEW label \in {"done", "failed"}, Settle(i, label)
    PROVE  ChainInv' /\ chain' \in Seq(Installs)
  <1>1. chain # <<>> /\ chain \in Seq(Installs) /\ chain' = Tail(chain)
    BY DEF ChainInv, TypeOK, Settle
  <1>2. \A j \in Installs : pc'[j] \notin Running
    <2>1. pc'[i] = label /\ \A j \in Installs : j # i => pc'[j] = pc[j]
      BY Goes, Kinds DEF Settle, Labels, Ended
    <2>2. label \notin Running
      BY DEF Running, Installing
    <2>3. QED
      BY <2>1, <2>2 DEF ChainInv
  <1>3. QED
    BY <1>1, <1>2 DEF ChainInv

-----------------------------------------------------------------------------
(* Types, action by action.                                                *)
LEMMA Begins ==
    ASSUME TypeOK, NEW c \in Calls, NEW label \in Labels, Begin(c, label)
    PROVE  /\ pc' \in [Calls -> Labels] /\ pc'[c] = label /\ overlapped' \in BOOLEAN
           /\ \A k \in Calls : k # c => pc'[k] = pc[k]
  <1>1. Goto(c, label)
    BY DEF Begin, Goto
  <1>2. overlapped' \in BOOLEAN
    <2>1. overlapped' = (overlapped \/ Mixed(Active \cup {c}))
      BY DEF Begin
    <2>2. QED
      BY <2>1, Zenon
  <1>3. QED
    BY <1>1, <1>2, Goes

LEMMA NewWork ==
    ASSUME TypeOK, NEW i \in Installs, NEW w \in Work, work' = [work EXCEPT ![i] = w]
    PROVE  /\ work' \in [Installs -> Work] /\ work'[i] = w
           /\ \A j \in Installs : j # i => work'[j] = work[j]
  BY DEF TypeOK

LEMMA WorkFields ==
    ASSUME TypeOK, NEW i \in Installs
    PROVE  /\ work[i] \in Work /\ work[i].next \in Tree /\ work[i].previous \in Tree
           /\ work[i].marker \in 0..MaxArchives
           /\ \A tree \in Tree : /\ [work[i] EXCEPT !.next = tree] \in Work
                                 /\ [work[i] EXCEPT !.previous = tree] \in Work
           /\ \A m \in 0..MaxArchives : [work[i] EXCEPT !.marker = m] \in Work
  BY DEF TypeOK, Work

(* The trees of a transaction, as each step leaves them.                   *)
LEMMA WorkSteps ==
    ASSUME TypeOK, NEW i \in Installs
    PROVE  /\ Prepare(i) => work' = [work EXCEPT ![i] = [NoWork EXCEPT !.made = TRUE, !.next = BareTree]]
           /\ CopyPackage(i) => work' = [work EXCEPT ![i] =
                  [work[i] EXCEPT !.next = [package |-> i, vault |-> {}, form |-> "whole"]]]
           /\ CopyVault(i) => work' = [work EXCEPT ![i] =
                  [work[i] EXCEPT !.next = [work[i].next EXCEPT !.vault = target.vault]]]
           /\ WriteMarker(i) => work' = [work EXCEPT ![i] = [work[i] EXCEPT !.marker = latest]]
  BY DEF Prepare, CopyPackage, CopyVault, WriteMarker, TypeOK, Work

LEMMA InstallType ==
    ASSUME TypeOK, ChainInv, WorkInv, NEW i \in Installs, Install(i)
    PROVE  TypeOK'
  <1> USE DEF disk, budget, history
  <1>a. i \in Calls
    BY Kinds
  <1>b. \A label \in Labels : Goto(i, label) => pc' \in [Calls -> Labels]
    BY <1>a, Goes
  <1>c. pc \in [Calls -> Labels]
    BY DEF TypeOK, Labels
  <1>1. CASE InstallCall(i)
    <2>1. pc' \in [Calls -> Labels] /\ overlapped' \in BOOLEAN
      BY <1>1, <1>a, Begins DEF InstallCall, Labels, Installing
    <2>2. chain' \in Seq(Installs)
      BY <1>1 DEF InstallCall, TypeOK
    <2>3. QED
      BY <1>1, <2>1, <2>2 DEF InstallCall, TypeOK, Labels
  <1>2. CASE Prepare(i)
    <2>1. pc' \in [Calls -> Labels]
      BY <1>2, <1>b DEF Prepare, Labels, Installing
    <2>2. [NoWork EXCEPT !.made = TRUE, !.next = BareTree] \in Work
      BY Trees DEF Work
    <2>3. work' \in [Installs -> Work]
      BY <1>2, <2>2, WorkSteps, NewWork
    <2>4. QED
      BY <1>2, <2>1, <2>3 DEF Prepare, TypeOK, Labels
  <1>3. CASE CopyPackage(i)
    <2>1. pc' \in [Calls -> Labels]
      BY <1>3, <1>b DEF CopyPackage, Labels, Installing
    <2>2. [package |-> i, vault |-> {}, form |-> "whole"] \in Tree
      BY DEF Tree, Packages
    <2>3. work' \in [Installs -> Work]
      BY <1>3, <2>2, WorkSteps, WorkFields, NewWork
    <2>4. QED
      BY <1>3, <2>1, <2>3 DEF CopyPackage, TypeOK, Labels
  <1>4. CASE CopyVault(i)
    <2>1. pc' \in [Calls -> Labels]
      BY <1>4, <1>b DEF CopyVault, Labels, Installing
    <2>2. [work[i].next EXCEPT !.vault = target.vault] \in Tree
      BY WorkFields DEF TypeOK, Tree
    <2>3. work' \in [Installs -> Work]
      BY <1>4, <2>2, WorkSteps, WorkFields, NewWork
    <2>4. QED
      BY <1>4, <2>1, <2>3 DEF CopyVault, TypeOK, Labels
  <1>5. CASE WriteMarker(i)
    <2>1. pc' \in [Calls -> Labels]
      BY <1>5, <1>b DEF WriteMarker, Labels, Installing
    <2>2. latest \in 0..MaxArchives
      BY BoundsAssumption DEF TypeOK
    <2>3. work' \in [Installs -> Work]
      BY <1>5, <2>2, WorkSteps, WorkFields, NewWork
    <2>4. QED
      BY <1>5, <2>1, <2>3 DEF WriteMarker, TypeOK, Labels
  <1>6. CASE MoveAside(i)
    <2>1. pc' \in [Calls -> Labels]
      BY <1>6, <1>b DEF MoveAside, Labels, Installing
    <2>2. work' \in [Installs -> Work]
      BY <1>6, WorkFields, NewWork DEF MoveAside, TypeOK
    <2>3. target' \in Tree
      BY <1>6, Trees DEF MoveAside
    <2>4. QED
      BY <1>6, <2>1, <2>2, <2>3 DEF MoveAside, TypeOK, Labels
  <1>7. CASE Publish(i)
    <2>1. pc' \in [Calls -> Labels]
      BY <1>7, <1>b DEF Publish, Labels, Installing
    <2>2. work' \in [Installs -> Work] /\ target' \in Tree
      BY <1>7, WorkFields, NewWork, Trees DEF Publish, TypeOK
    <2>3. retired' \subseteq Packages
      BY <1>7 DEF Publish, Retire, TypeOK, Packages
    <2>4. QED
      BY <1>7, <2>1, <2>2, <2>3 DEF Publish, TypeOK, Labels
  <1>8. CASE PublishRefused(i) \/ Fail(i)
    <2>1. pc' \in [Calls -> Labels]
      BY <1>8, <1>b DEF PublishRefused, Fail, Labels, Installing
    <2>2. failures' \in 0..MaxFailures
      BY <1>8, Failed DEF PublishRefused, Fail
    <2>3. QED
      BY <1>8, <2>1, <2>2 DEF PublishRefused, Fail, TypeOK, Labels
  <1>9. CASE Catch(i)
    <2>1. pc[i] = "catching" /\ pc[i] \in Running
      BY <1>9 DEF Catch, Running, Installing
    <2>2. pc' \in [Calls -> Labels]
      BY <1>9, <1>b DEF Catch, Settle, Labels, Installing, Ended
    <2>3. chain' \in Seq(Installs)
      BY <1>9, <2>1, ChainSettles DEF Catch, TypeOK
    <2>4. failures' \in 0..MaxFailures
      BY <1>9, Failed DEF Catch
    <2>5. work' \in [Installs -> Work] /\ target' \in Tree /\ outlived' \in BOOLEAN
      BY <1>9, WorkFields, NewWork, Trees DEF Catch, TypeOK
    <2>6. QED
      BY <1>9, <2>2, <2>3, <2>4, <2>5 DEF Catch, TypeOK, Labels
  <1>10. CASE EndInstall(i)
    <2>1. pc[i] \in Running /\ \E label \in {"done", "failed"} : Settle(i, label)
      BY <1>10 DEF EndInstall, Running, Installing
    <2>2. pc' \in [Calls -> Labels]
      BY <2>1, <1>b DEF Settle, Labels, Ended
    <2>3. chain' \in Seq(Installs)
      BY <2>1, ChainSettles
    <2>4. failures' \in 0..MaxFailures
      BY <1>10, Failed DEF EndInstall
    <2>5. work' \in [Installs -> Work]
      <3>1. \A w \in Remains(work[i]) : w \in Work
        BY WorkFields, Remaining, Trees DEF WorkInv, Staged
      <3>2. QED
        BY <1>10, <3>1, NewWork, Trees DEF EndInstall
    <2>6. outlived' \in BOOLEAN
      <3>1. CASE UNCHANGED outlived
        BY <3>1 DEF TypeOK
      <3>2. CASE outlived' = (outlived \/ work'[i].marker # 0)
        BY <3>2, Zenon
      <3>3. QED
        BY <1>10, <3>1, <3>2 DEF EndInstall
    <2>7. registered' \in BOOLEAN
      <3>1. CASE UNCHANGED registered
        BY <3>1 DEF TypeOK
      <3>2. CASE registered' = (target.form = "whole")
        BY <3>2, Zenon
      <3>3. QED
        BY <1>10, <3>1, <3>2 DEF EndInstall, Rescanned
    <2>8. QED
      BY <1>10, <2>2, <2>3, <2>4, <2>5, <2>6, <2>7 DEF EndInstall, TypeOK, Labels
  <1>11. QED
    BY <1>1, <1>2, <1>3, <1>4, <1>5, <1>6, <1>7, <1>8, <1>9, <1>10 DEF Install

LEMMA SeedingType ==
    ASSUME TypeOK
    PROVE  /\ Seeded \in Tree
           /\ [package |-> Bundled, vault |-> target.vault, form |-> "whole"] \in Tree
           /\ target \in Tree
  <1>1. target \in Tree
    BY DEF TypeOK
  <1>2. [package |-> Bundled, vault |-> target.vault, form |-> "whole"] \in Tree
    BY <1>1 DEF Tree, Packages
  <1>3. QED
    BY <1>1, <1>2 DEF Seeded

LEMMA CommandType ==
    ASSUME TypeOK,
           \/ \E u \in Uninstalls : \/ UninstallCall(u) \/ RemoveSome(u) \/ RemoveLast(u)
                                    \/ UninstallEnds(u) \/ UninstallFails(u)
           \/ \E d \in Downloads : DownloadCall(d) \/ MakeVault(d) \/ CommitFile(d)
           \/ Rescan \/ RestoreSeed \/ CreateArchive
    PROVE  TypeOK'
  <1> USE DEF disk, budget, history
  <1>a. \A tree : Rescanned(tree) => registered' \in BOOLEAN
    BY Zenon DEF Rescanned
  <1>b. pc \in [Calls -> Labels]
    BY DEF TypeOK, Labels
  <1>1. ASSUME NEW u \in Uninstalls,
               \/ UninstallCall(u) \/ RemoveSome(u) \/ RemoveLast(u)
               \/ UninstallEnds(u) \/ UninstallFails(u)
        PROVE  TypeOK'
    <2>a. u \in Calls
      BY Kinds
    <2>b. \A label \in Labels : Goto(u, label) => pc' \in [Calls -> Labels]
      BY <2>a, Goes
    <2>1. CASE UninstallCall(u)
      <3>1. pc' \in [Calls -> Labels] /\ overlapped' \in BOOLEAN
        BY <2>1, <2>a, Begins DEF UninstallCall, Labels
      <3>2. QED
        BY <2>1, <3>1 DEF UninstallCall, TypeOK, Labels
    <2>2. CASE RemoveSome(u)
      <3>1. target' \in Tree
        BY <2>2 DEF RemoveSome, TypeOK, Tree
      <3>2. QED
        BY <2>2, <3>1 DEF RemoveSome, TypeOK
    <2>3. CASE RemoveLast(u)
      <3>1. pc' \in [Calls -> Labels] /\ target' \in Tree
        BY <2>3, <2>b, Trees DEF RemoveLast, Labels
      <3>2. QED
        BY <2>3, <3>1 DEF RemoveLast, TypeOK, Labels
    <2>4. CASE UninstallEnds(u)
      <3>1. pc' \in [Calls -> Labels]
        BY <2>4, <2>b DEF UninstallEnds, Labels, Ended
      <3>2. retired' \subseteq Packages
        BY <2>4 DEF UninstallEnds, RetireAll, TypeOK, Packages
      <3>3. registered' \in BOOLEAN
        BY <2>4, <1>a DEF UninstallEnds
      <3>4. QED
        BY <2>4, <3>1, <3>2, <3>3 DEF UninstallEnds, TypeOK, Labels
    <2>5. CASE UninstallFails(u)
      <3>1. pc' \in [Calls -> Labels] /\ failures' \in 0..MaxFailures
        BY <2>5, <2>b, Failed DEF UninstallFails, Labels, Ended
      <3>2. QED
        BY <2>5, <3>1 DEF UninstallFails, TypeOK, Labels
    <2>6. QED
      BY <1>1, <2>1, <2>2, <2>3, <2>4, <2>5
  <1>2. ASSUME NEW d \in Downloads, DownloadCall(d) \/ MakeVault(d) \/ CommitFile(d)
        PROVE  TypeOK'
    <2>a. d \in Calls
      BY Kinds
    <2>b. \A label \in Labels : Goto(d, label) => pc' \in [Calls -> Labels]
      BY <2>a, Goes
    <2>1. CASE DownloadCall(d)
      <3>1. pc' \in [Calls -> Labels] /\ overlapped' \in BOOLEAN
        BY <2>1, <2>a, Begins DEF DownloadCall, Labels
      <3>2. QED
        BY <2>1, <3>1 DEF DownloadCall, TypeOK, Labels
    <2>2. CASE MakeVault(d)
      <3>1. pc' \in [Calls -> Labels] /\ target' \in Tree
        BY <2>2, <2>b, Trees DEF MakeVault, Labels, TypeOK
      <3>2. QED
        BY <2>2, <3>1 DEF MakeVault, TypeOK, Labels
    <2>3. CASE CommitFile(d)
      <3>1. pc' \in [Calls -> Labels]
        BY <2>3, <2>b DEF CommitFile, Labels, Ended
      <3>2. target' \in Tree
        BY <2>3 DEF CommitFile, TypeOK, Tree
      <3>3. QED
        BY <2>3, <3>1, <3>2 DEF CommitFile, TypeOK, Labels
    <2>4. QED
      BY <1>2, <2>1, <2>2, <2>3
  <1>3. ASSUME \E cs : overlapped' = (overlapped \/ cs # {})
        PROVE  overlapped' \in BOOLEAN
    BY <1>3, Zenon
  <1>4. CASE Rescan
    <2>1. target' \in Tree
      BY <1>4, SeedingType DEF Rescan
    <2>2. registered' \in BOOLEAN
      BY <1>4, Zenon DEF Rescan, Rescanned
    <2>3. overlapped' \in BOOLEAN
      BY <1>3, <1>4 DEF Rescan
    <2>4. QED
      BY <1>4, <2>1, <2>2, <2>3 DEF Rescan, TypeOK
  <1>5. CASE RestoreSeed
    <2>1. target' \in Tree
      BY <1>5, SeedingType DEF RestoreSeed
    <2>2. registered' \in BOOLEAN
      BY <1>5, Zenon DEF RestoreSeed, Rescanned
    <2>3. overlapped' \in BOOLEAN
      BY <1>3, <1>5 DEF RestoreSeed
    <2>4. QED
      BY <1>5, <2>1, <2>2, <2>3 DEF RestoreSeed, TypeOK
  <1>6. CASE CreateArchive
    <2>1. latest' \in 1..MaxArchives
      BY <1>6, BoundsAssumption DEF CreateArchive, TypeOK
    <2>2. QED
      BY <1>6, <2>1 DEF CreateArchive, TypeOK
  <1>7. QED
    BY <1>1, <1>2, <1>4, <1>5, <1>6

LEMMA BootType ==
    ASSUME TypeOK, WorkInv, Crash \/ Boot \/ Quiescent \/ UNCHANGED vars
    PROVE  TypeOK'
  <1> USE DEF disk, budget, history
  <1>1. CASE Crash
    <2>1. work' \in [Installs -> Work]
      <3>1. \A i \in Installs : \A w \in Remains(work[i]) : w \in Work
        BY WorkFields, Remaining, Trees DEF WorkInv, Staged
      <3>2. QED
        BY <1>1, <3>1, NewWork DEF Crash, TypeOK
    <2>2. pc' \in [Calls -> Labels]
      BY <1>1 DEF Crash, TypeOK, Labels, Ended
    <2>3. crashes' \in 0..MaxCrashes
      BY <1>1, BoundsAssumption DEF Crash, TypeOK
    <2>4. chain' \in Seq(Installs)
      BY <1>1 DEF Crash
    <2>5. QED
      BY <1>1, <2>1, <2>2, <2>3, <2>4 DEF Crash, TypeOK, Labels
  <1>2. CASE BootEnds
    <2>1. target' \in Tree
      BY <1>2, SeedingType DEF BootEnds
    <2>2. registered' \in BOOLEAN
      BY <1>2, Zenon DEF BootEnds, Rescanned
    <2>3. QED
      BY <1>2, <2>1, <2>2 DEF BootEnds, TypeOK
  <1>3. ASSUME NEW i \in Installs, Recover(i)
        PROVE  TypeOK'
    <2>1. work' \in [Installs -> Work] /\ target' \in Tree
      BY <1>3, WorkFields, NewWork, Trees DEF Recover
    <2>2. QED
      BY <1>3, <2>1 DEF Recover, TypeOK
  <1>4. ASSUME NEW i \in Installs, RecoverDiscards(i) \/ RecoverRefuses(i)
        PROVE  TypeOK'
    <2>1. work' \in [Installs -> Work]
      BY <1>4, NewWork, Trees DEF RecoverDiscards, RecoverRefuses, TypeOK
    <2>2. QED
      BY <1>4, <2>1 DEF RecoverDiscards, RecoverRefuses, TypeOK
  <1>5. CASE Quiescent \/ UNCHANGED vars
    BY <1>5 DEF Quiescent, vars, TypeOK
  <1>6. QED
    BY <1>1, <1>2, <1>3, <1>4, <1>5 DEF Boot

LEMMA TypeStep ==
    ASSUME IInv, [Next]_vars
    PROVE  TypeOK'
  BY InstallType, CommandType, BootType DEF IInv, Next

-----------------------------------------------------------------------------
(* Installation, up to the rename of the installed tree: only the          *)
(* transaction directory changes.                                          *)
Staging(i) ==
    Prepare(i) \/ CopyPackage(i) \/ CopyVault(i) \/ WriteMarker(i) \/ PublishRefused(i) \/ Fail(i)

LEMMA StagingWork ==
    ASSUME IInv, NEW i \in Installs, Staging(i)
    PROVE  /\ \A j \in Installs : j # i => work'[j] = work[j]
           /\ work'[i].previous = work[i].previous
           /\ work'[i].marker = IF pc'[i] = "marked" THEN latest ELSE work[i].marker
           /\ work'[i].made
           /\ work'[i].next.package \in {i, NoPackage}
           /\ pc'[i] \in {"copied", "merged", "marked"} =>
                work'[i].next.form = "whole" /\ work'[i].next.package = i
           /\ pc'[i] \in {"marked", "catching"} => work'[i].next = work[i].next
           /\ pc'[i] = "merged" => work'[i].next.vault = target.vault
           /\ \/ pc[i] = "queued" /\ pc'[i] = "copying" /\ Turn(i)
              \/ pc[i] = "copying" /\ pc'[i] = "copied"
              \/ pc[i] = "copied" /\ pc'[i] = "merged"
              \/ pc[i] = "merged" /\ pc'[i] = "marked"
              \/ /\ pc[i] \in {"copying", "copied", "merged", "marked", "aside"}
                 /\ pc'[i] = "catching"
  <1> USE DEF IInv
  <1>a. i \in Calls /\ TypeOK
    BY Kinds
  <1>b. \A label \in Labels : Goto(i, label) => pc'[i] = label
    BY <1>a, Goes
  <1>c. /\ work[i] \in Work /\ work[i].next \in Tree /\ work[i].previous \in Tree
        /\ target \in Tree /\ latest \in 0..MaxArchives
    BY WorkFields, BoundsAssumption DEF TypeOK
  <1>1. CASE Prepare(i)
    <2>1. pc'[i] = "copying" /\ pc[i] = "queued" /\ Turn(i)
      BY <1>1, <1>b DEF Prepare, Labels, Installing
    <2>2. [NoWork EXCEPT !.made = TRUE, !.next = BareTree] \in Work
      BY Trees DEF Work
    <2>3. /\ work'[i] = [NoWork EXCEPT !.made = TRUE, !.next = BareTree]
          /\ \A j \in Installs : j # i => work'[j] = work[j]
      BY <1>1, <2>2, WorkSteps, NewWork
    <2>4. work'[i].previous = NoTree /\ work'[i].marker = 0 /\ work'[i].made
          /\ work'[i].next.package = NoPackage
      BY <2>3, Trees DEF NoWork
    <2>5. work[i].marker = 0 /\ work[i].previous = NoTree
      BY <2>1 DEF WorkInv, Staged, Registered
    <2>6. QED
      BY <2>1, <2>3, <2>4, <2>5
  <1>2. CASE CopyPackage(i)
    <2>1. pc'[i] = "copied" /\ pc[i] = "copying"
      BY <1>2, <1>b DEF CopyPackage, Labels, Installing
    <2>2. [package |-> i, vault |-> {}, form |-> "whole"] \in Tree
      BY DEF Tree, Packages
    <2>3. /\ work'[i] = [work[i] EXCEPT !.next = [package |-> i, vault |-> {}, form |-> "whole"]]
          /\ \A j \in Installs : j # i => work'[j] = work[j]
      <3> DEFINE w == [work[i] EXCEPT !.next = [package |-> i, vault |-> {}, form |-> "whole"]]
      <3>1. w \in Work
        BY <1>a, <2>2, WorkFields
      <3>2. work' = [work EXCEPT ![i] = w]
        BY <1>2, <1>a, WorkSteps
      <3> HIDE DEF w
      <3>3. work'[i] = w /\ \A j \in Installs : j # i => work'[j] = work[j]
        BY <1>a, <3>1, <3>2, NewWork
      <3>4. QED
        BY <3>3 DEF w
    <2>4. /\ work'[i].previous = work[i].previous /\ work'[i].marker = work[i].marker
          /\ work'[i].made = work[i].made
          /\ work'[i].next.package = i /\ work'[i].next.form = "whole"
      BY <1>c, <2>3 DEF Work
    <2>5. work[i].made
      BY <2>1 DEF WorkInv, Staged, Running, Installing
    <2>6. QED
      BY <2>1, <2>3, <2>4, <2>5
  <1>3. CASE CopyVault(i)
    <2>1. pc'[i] = "merged" /\ pc[i] = "copied"
      BY <1>3, <1>b DEF CopyVault, Labels, Installing
    <2>2. [work[i].next EXCEPT !.vault = target.vault] \in Tree
      BY <1>c DEF Tree
    <2>3. /\ work'[i] = [work[i] EXCEPT !.next = [work[i].next EXCEPT !.vault = target.vault]]
          /\ \A j \in Installs : j # i => work'[j] = work[j]
      <3> DEFINE w == [work[i] EXCEPT !.next = [work[i].next EXCEPT !.vault = target.vault]]
      <3>1. w \in Work
        BY <1>a, <2>2, WorkFields
      <3>2. work' = [work EXCEPT ![i] = w]
        BY <1>3, <1>a, WorkSteps
      <3> HIDE DEF w
      <3>3. work'[i] = w /\ \A j \in Installs : j # i => work'[j] = work[j]
        BY <1>a, <3>1, <3>2, NewWork
      <3>4. QED
        BY <3>3 DEF w
    <2>4. /\ work'[i].previous = work[i].previous /\ work'[i].marker = work[i].marker
          /\ work'[i].made = work[i].made
          /\ work'[i].next = [work[i].next EXCEPT !.vault = target.vault]
      BY <1>c, <2>3 DEF Work
    <2>5. /\ work'[i].next.package = work[i].next.package
          /\ work'[i].next.form = work[i].next.form
          /\ work'[i].next.vault = target.vault
      BY <1>c, <2>4 DEF Tree
    <2>6. /\ work[i].made
          /\ work[i].next.package = i /\ work[i].next.form = "whole"
      BY <2>1 DEF WorkInv, Staged, Running, Installing
    <2>7. QED
      BY <2>1, <2>3, <2>4, <2>5, <2>6
  <1>4. CASE WriteMarker(i)
    <2>1. pc'[i] = "marked" /\ pc[i] = "merged"
      BY <1>4, <1>b DEF WriteMarker, Labels, Installing
    <2>2. /\ work'[i] = [work[i] EXCEPT !.marker = latest]
          /\ \A j \in Installs : j # i => work'[j] = work[j]
      BY <1>4, <1>c, WorkSteps, WorkFields, NewWork
    <2>3. /\ work'[i].previous = work[i].previous /\ work'[i].marker = latest
          /\ work'[i].made = work[i].made /\ work'[i].next = work[i].next
      BY <1>c, <2>2 DEF Work
    <2>4. /\ work[i].made
          /\ work[i].next.package = i /\ work[i].next.form = "whole"
      BY <2>1 DEF WorkInv, Staged, Running, Installing
    <2>5. QED
      BY <2>1, <2>2, <2>3, <2>4
  <1>5. CASE PublishRefused(i) \/ Fail(i)
    <2>1. /\ pc'[i] = "catching"
          /\ pc[i] \in {"copying", "copied", "merged", "marked", "aside"}
      BY <1>5, <1>b DEF PublishRefused, Fail, Labels, Installing
    <2>2. work' = work
      BY <1>5 DEF PublishRefused, Fail, disk
    <2>3. work[i].made /\ work[i].next.package \in {i, NoPackage}
      BY <2>1 DEF WorkInv, Staged, Running, Installing
    <2>4. QED
      BY <2>1, <2>2, <2>3
  <1>6. QED
    BY <1>1, <1>2, <1>3, <1>4, <1>5 DEF Staging

(* A step of one installation leaves the transactions of the others.       *)
OnlyOf(i) == \A j \in Installs : j # i => work'[j] = work[j] /\ pc'[j] = pc[j]

LEMMA OthersStaged ==
    ASSUME WorkInv, NEW i \in Installs, OnlyOf(i), Staged(i)'
    PROVE  WorkInv'
  BY DEF WorkInv, Staged, OnlyOf, Registered

LEMMA StagingGoes ==
    ASSUME IInv, NEW i \in Installs, Staging(i)
    PROVE  /\ pc'[i] \in Running /\ Goto(i, pc'[i])
           /\ pc[i] \in Running \/ (pc[i] = "queued" /\ Turn(i))
           /\ pc[i] \in Installing
           /\ UNCHANGED <<target, latest, seedRemoved, registered, server, chain, history>>
  <1>1. \E label \in Running : Goto(i, label)
    BY DEF Staging, Prepare, CopyPackage, CopyVault, WriteMarker, PublishRefused, Fail,
           Running, Installing
  <1>2. i \in Calls
    BY Kinds
  <1>3. pc'[i] \in Running /\ Goto(i, pc'[i])
    BY <1>1, <1>2 DEF Goto, IInv, TypeOK
  <1>4. pc[i] \in {"copying", "copied", "merged", "marked", "aside"} \/ (pc[i] = "queued" /\ Turn(i))
    BY DEF Staging, Prepare, CopyPackage, CopyVault, WriteMarker, PublishRefused, Fail
  <1>5. UNCHANGED <<target, latest, seedRemoved, registered, server, chain, history>>
    BY DEF Staging, Prepare, CopyPackage, CopyVault, WriteMarker, PublishRefused, Fail, disk
  <1>6. QED
    BY <1>3, <1>4, <1>5 DEF Running, Installing

LEMMA StagingStep ==
    ASSUME IInv, NEW i \in Installs, Staging(i)
    PROVE  ChainInv' /\ CallsInv' /\ WorkInv' /\ OrderInv' /\ RetiredInv' /\ KeptInv'
  <1>a. TypeOK /\ ChainInv /\ CallsInv /\ WorkInv /\ OrderInv /\ RetiredInv /\ KeptInv
    BY DEF IInv
  <1>b. /\ pc'[i] \in Running /\ Goto(i, pc'[i]) /\ pc[i] \in Installing
        /\ pc[i] \in Running \/ (pc[i] = "queued" /\ Turn(i))
        /\ UNCHANGED <<target, latest, seedRemoved, registered, server, chain, history>>
    BY StagingGoes
  <1>c. /\ server = "up" /\ server' = "up" /\ CallsInv'
        /\ pc' \in [Calls -> Labels]
        /\ \A j \in Installs : j # i => pc'[j] = pc[j]
        /\ \A c \in Calls \ Installs : pc'[c] = pc[c]
        /\ \A u \in Uninstalls : pc'[u] = pc[u]
        /\ \A d \in Downloads : pc'[d] = pc[d]
        /\ UninstallBegun' <=> UninstallBegun
    BY <1>a, <1>b, InstallGoes DEF Running
  <1>d. /\ \A j \in Installs : pc[j] \in Running => j = i
        /\ Orderly => \A j \in Installs : Registered(j) => j = i
        /\ Orderly => \A c \in Calls \ Installs : pc[c] \in Ended
    BY <1>a, <1>b, Alone
  <1>e. Orderly' <=> Orderly
    BY <1>b DEF history, Orderly
  <1>f. retired' = retired
    BY <1>b DEF history
  <1>g. latest # 0 /\ latest' = latest /\ target' = target /\ Exists(target)' = Exists(target)
    BY <1>a, <1>b DEF TypeOK, Exists
  <1>h. /\ work'[i].previous = work[i].previous
        /\ work'[i].marker = IF pc'[i] = "marked" THEN latest ELSE work[i].marker
        /\ Registered(i)' <=> (Registered(i) \/ pc'[i] = "marked")
        /\ \A j \in Installs : j # i => Registered(j)' = Registered(j) /\ work'[j] = work[j]
    BY <1>g, StagingWork DEF Registered
  <1>1. ChainInv'
    BY <1>a, <1>b, <1>c, <1>d DEF ChainInv, Turn
  <1>2. WorkInv'
    <2>1. Staged(i)'
      <3>1. Staged(i)
        BY <1>a DEF WorkInv
      <3>2. QED
        BY <1>h, <3>1, StagingWork DEF Staged, Registered
    <2>2. QED
      BY <1>a, <1>c, <1>h, <2>1, OthersStaged DEF OnlyOf
  <1>3. ASSUME Orderly PROVE Ordered'
    <2>1. Ordered
      BY <1>3, <1>a DEF OrderInv
    <2>2. \A j \in Installs, c \in Calls \ Installs : pc'[j] \in Installing => pc'[c] \in Ended
      BY <1>3, <1>c, <1>d
    <2>3. \A j \in Installs : Registered(j)' => j = i
      BY <1>3, <1>d, <1>h
    <2>4. ASSUME Registered(i)' PROVE Recoverable(i)'
      <3>1. CASE pc'[i] = "marked"
        BY <3>1, <2>3, <1>b, <1>g, <1>h, StagingWork DEF Recoverable
      <3>2. CASE pc'[i] # "marked"
        <4>1. Registered(i) /\ Recoverable(i)
          BY <2>1, <2>4, <3>2, <1>h DEF Ordered
        <4>2. pc'[i] = "catching" /\ pc[i] \in {"marked", "aside"}
          BY <4>1, <3>2, <1>a, StagingWork DEF WorkInv, Staged
        <4>3. work'[i].next = work[i].next
          BY <4>2, StagingWork
        <4>4. QED
          BY <2>3, <3>2, <4>1, <4>2, <4>3, <1>b, <1>g, <1>h DEF Recoverable, Exists
      <3>3. QED
        BY <3>1, <3>2
    <2>5. \A j \in Installs : pc'[j] # "cleaning"
      <3>1. pc'[i] # "cleaning"
        BY StagingWork
      <3>2. \A j \in Installs : j # i => pc'[j] # "cleaning"
        BY <1>c, <1>d DEF Running, Installing
      <3>3. QED
        BY <3>1, <3>2
    <2>6. QED
      BY <2>2, <2>3, <2>4, <2>5, <1>c DEF Ordered
  <1>4. RetiredInv'
    <2>1. \A j \in Installs : pc'[j] \in Installing \cup {"idle"} => j \notin retired
      BY <1>a, <1>b, <1>c DEF RetiredInv
    <2>2. ASSUME Orderly PROVE Away'
      <3>1. Away
        BY <2>2, <1>a DEF RetiredInv
      <3>2. i \notin retired /\ NoPackage \notin retired
        BY <1>a, <1>b DEF RetiredInv
      <3>3. Registered(i)' => Registered(i) \/ work'[i].previous = NoTree
        BY <1>a, <1>h, StagingWork DEF WorkInv, Staged, Registered
      <3>4. \A j \in Installs : Registered(j)' /\ ~Exists(target) =>
                work'[j].previous.package \notin retired /\ j \notin retired
        BY <2>2, <3>1, <3>2, <3>3, <1>d, <1>h, Trees DEF Away
      <3>5. QED
        BY <3>1, <3>4, <1>c, <1>f, <1>g DEF Away
    <2>3. QED
      BY <1>a, <1>b, <1>e, <1>f, <2>1, <2>2 DEF RetiredInv
  <1>5. ASSUME Orderly, ~UninstallBegun PROVE Kept'
    <2>1. Kept
      BY <1>5, <1>a DEF KeptInv
    <2>2. \A tree : Holds(tree)' <=> Holds(tree)
      BY <1>c DEF Holds
    <2>3. InPlaceOrAside'
      BY <2>1, <1>g, <1>h DEF Kept, InPlaceOrAside
    <2>4. Original \notin retired => \A j \in Installs : work'[j].previous.package \in {Original, NoPackage}
      BY <2>1, <1>h DEF Kept
    <2>5. ~Registered(i) => target.form = "whole"
      BY <2>1, <1>5, <1>d DEF Kept, InPlaceOrAside
    <2>6. (target.form = "whole" => Holds(target))'
      BY <2>1, <1>c, <1>g DEF Kept, Holds
    <2>7. \A j \in Installs : (Registered(j) /\ ~Exists(target) => Holds(work[j].previous))'
      BY <2>1, <2>5, <1>c, <1>g, <1>h DEF Kept, Holds, Exists
    <2>8. \A j \in Installs : (pc[j] \in {"merged", "marked", "aside"} => Holds(work[j].next))'
      <3>1. ASSUME pc'[i] = "merged" PROVE \A d \in Downloads : pc'[d] = "done" => d \in work'[i].next.vault
        <4>1. ~Registered(i) /\ work'[i].next.vault = target.vault
          BY <3>1, <1>a, StagingWork DEF WorkInv, Staged
        <4>2. QED
          BY <2>1, <2>5, <4>1, <1>c DEF Kept, Holds
      <3>2. pc'[i] = "marked" => pc[i] = "merged" /\ work'[i].next = work[i].next
        BY StagingWork
      <3>3. pc'[i] # "aside"
        BY StagingWork
      <3>4. QED
        BY <2>1, <3>1, <3>2, <3>3, <1>c, <1>h DEF Kept, Holds
    <2>9. QED
      BY <2>1, <2>3, <2>4, <2>6, <2>7, <2>8, <1>f, <1>g DEF Kept
  <1>6. OrderInv' /\ KeptInv'
    BY <1>3, <1>5, <1>c, <1>e DEF OrderInv, KeptInv
  <1>9. QED
    BY <1>1, <1>2, <1>4, <1>6, <1>c

-----------------------------------------------------------------------------
(* What a step of the running installation finds and leaves of the calls.  *)
LEMMA RunningGoes ==
    ASSUME IInv, NEW i \in Installs, pc[i] \in Running,
           NEW label \in Running \cup {"done", "failed"}, Goto(i, label),
           server' = server, seedRemoved' = seedRemoved
    PROVE  /\ server = "up" /\ server' = "up" /\ CallsInv'
           /\ pc'[i] = label
           /\ \A j \in Installs : j # i => pc'[j] = pc[j] /\ pc[j] \notin Running
           /\ \A c \in Calls \ Installs : pc'[c] = pc[c]
           /\ \A u \in Uninstalls : pc'[u] = pc[u]
           /\ \A d \in Downloads : pc'[d] = pc[d]
           /\ UninstallBegun' <=> UninstallBegun
           /\ \A tree : Holds(tree)' <=> Holds(tree)
           /\ Orderly =>
                /\ \A j \in Installs : Registered(j) => j = i
                /\ \A c \in Calls \ Installs : pc[c] \in Ended
                /\ \A u \in Uninstalls : pc[u] \in Ended
           /\ Orderly => Ordered /\ Away
           /\ Orderly /\ ~UninstallBegun => Kept
           /\ \A j \in Installs : pc'[j] \in Installing \cup {"idle"} => j \notin retired
           /\ NoPackage \notin retired /\ i # NoPackage
           /\ Staged(i)
  <1>1. /\ server = "up" /\ server' = "up" /\ CallsInv' /\ pc'[i] = label
        /\ \A j \in Installs : j # i => pc'[j] = pc[j]
        /\ \A c \in Calls \ Installs : pc'[c] = pc[c]
        /\ \A u \in Uninstalls : pc'[u] = pc[u]
        /\ \A d \in Downloads : pc'[d] = pc[d]
        /\ UninstallBegun' <=> UninstallBegun
    BY InstallGoes DEF IInv, Running
  <1>2. /\ \A j \in Installs : pc[j] \in Running => j = i
        /\ Orderly => \A j \in Installs : Registered(j) => j = i
        /\ Orderly => \A c \in Calls \ Installs : pc[c] \in Ended
        /\ pc[i] \in Installing
    BY Alone DEF IInv
  <1>3. \A tree : Holds(tree)' <=> Holds(tree)
    BY <1>1 DEF Holds
  <1>4. \A j \in Installs : pc'[j] \in Installing \cup {"idle"} => j \notin retired
    BY <1>1, <1>2 DEF IInv, RetiredInv
  <1>5. NoPackage \notin retired /\ i # NoPackage
    BY CallsAssumption DEF IInv, RetiredInv
  <1>6. Staged(i) /\ (Orderly => Ordered /\ Away) /\ (Orderly /\ ~UninstallBegun => Kept)
    BY DEF IInv, WorkInv, OrderInv, RetiredInv, KeptInv
  <1>7. \A u \in Uninstalls : u \in Calls \ Installs
    BY Kinds
  <1>8. QED
    BY <1>1, <1>2, <1>3, <1>4, <1>5, <1>6, <1>7

LEMMA MoveAsideStep ==
    ASSUME IInv, NEW i \in Installs, MoveAside(i)
    PROVE  ChainInv' /\ CallsInv' /\ WorkInv' /\ OrderInv' /\ RetiredInv' /\ KeptInv'
  <1>a. /\ pc[i] = "marked" /\ pc[i] \in Running /\ Goto(i, "aside")
        /\ "aside" \in Running
        /\ UNCHANGED <<latest, seedRemoved, registered, server, chain, budget, history>>
    BY DEF MoveAside, Running, Installing
  <1>b. TypeOK /\ ChainInv /\ WorkInv
    BY DEF IInv
  <1>c. /\ retired' = retired /\ latest' = latest /\ seedRemoved' = seedRemoved
        /\ (Orderly' <=> Orderly)
    BY <1>a DEF history, Orderly
  <1>d. Registered(i) /\ work[i].previous = NoTree /\ work[i].next.form = "whole"
        /\ work[i].next.package = i /\ work[i].made
    BY <1>a, <1>b DEF WorkInv, Staged
  <1>e. target' = NoTree /\ ~Exists(target)'
    BY Trees DEF MoveAside, Exists
  <1>f. /\ \A j \in Installs : j # i => work'[j] = work[j]
        /\ work'[i].made = work[i].made /\ work'[i].next = work[i].next
        /\ work'[i].marker = work[i].marker
        /\ work'[i].previous = IF Exists(target) THEN target ELSE NoTree
    <2>1. CASE Exists(target)
      <3>1. target \in Tree
        BY <1>b DEF TypeOK
      <3>2. work' = [work EXCEPT ![i] = [work[i] EXCEPT !.previous = target]]
        BY <2>1 DEF MoveAside
      <3>3. work'[i] = [work[i] EXCEPT !.previous = target] /\ \A j \in Installs : j # i => work'[j] = work[j]
        BY <1>b, <3>1, <3>2, WorkFields, NewWork
      <3>4. QED
        BY <1>b, <2>1, <3>3, WorkFields DEF Work
    <2>2. CASE ~Exists(target)
      BY <2>2, <1>d DEF MoveAside
    <2>3. QED
      BY <2>1, <2>2
  <1>g. \A j \in Installs : Registered(j)' = Registered(j)
    BY <1>f DEF Registered
  <1>1. ChainInv' /\ CallsInv'
    BY <1>a, <1>b, ChainGoes, RunningGoes
  <1>2. WorkInv'
    <2>1. pc'[i] = "aside"
      BY <1>a, RunningGoes
    <2>2. Staged(i)'
      BY <1>d, <1>f, <1>g, <2>1 DEF Staged, Registered
    <2>3. QED
      BY <1>a, <1>b, <1>f, <2>2, OthersStaged, RunningGoes DEF OnlyOf
  <1>3. ASSUME Orderly PROVE Ordered' /\ Away'
    <2>1. pc'[i] = "aside" /\ Ordered /\ Away /\ server' = "up"
      BY <1>3, <1>a, RunningGoes
    <2>2. \A j \in Installs : Registered(j)' => j = i
      BY <1>3, <1>a, <1>g, RunningGoes
    <2>3. Recoverable(i)'
      BY <2>1, <2>2, <1>a, <1>c, <1>d, <1>f DEF Ordered, Recoverable
    <2>4. \A j \in Installs : pc'[j] # "cleaning"
      BY <2>1, <1>a, RunningGoes DEF Running, Installing
    <2>5. \A c \in Calls \ Installs : pc'[c] \in Ended
      BY <1>3, <1>a, RunningGoes
    <2>6. Ordered'
      BY <2>1, <2>2, <2>3, <2>4, <2>5 DEF Ordered
    <2>7. Away'
      <3>1. NoPackage \notin retired /\ i \notin retired
        BY <1>a, <2>1, RunningGoes DEF Installing
      <3>2. work'[i].previous.package \notin retired
        BY <2>1, <3>1, <1>f, Trees DEF Away
      <3>3. target'.package = NoPackage
        BY <1>e, Trees
      <3>4. QED
        BY <2>2, <3>1, <3>2, <3>3, <1>c DEF Away
    <2>8. QED
      BY <2>6, <2>7
  <1>4. ASSUME Orderly, ~UninstallBegun PROVE Kept'
    <2>1. Kept /\ pc'[i] = "aside"
      BY <1>4, <1>a, RunningGoes
    <2>2. Exists(target) /\ target.form = "whole"
      BY <2>1, <1>4, <1>a, <1>d, RunningGoes, Trees DEF Kept, InPlaceOrAside, Exists
    <2>3. work'[i].previous = target
      BY <2>2, <1>f
    <2>4. InPlaceOrAside'
      BY <2>2, <2>3, <1>d, <1>e, <1>g DEF InPlaceOrAside
    <2>5. Original \notin retired => \A j \in Installs : work'[j].previous.package \in {Original, NoPackage}
      BY <2>1, <2>3, <1>f DEF Kept
    <2>6. \A j \in Installs : (Registered(j) /\ ~Exists(target) => Holds(work[j].previous))'
      BY <2>1, <2>2, <2>3, <1>4, <1>a, <1>g, RunningGoes DEF Kept, Holds
    <2>7. \A j \in Installs : (pc[j] \in {"merged", "marked", "aside"} => Holds(work[j].next))'
      BY <2>1, <1>a, <1>f, RunningGoes DEF Kept, Holds, Running, Installing
    <2>8. QED
      BY <2>4, <2>5, <2>6, <2>7, <1>c, <1>e, Trees DEF Kept, Exists
  <1>5. RetiredInv'
    BY <1>3, <1>a, <1>c, RunningGoes DEF RetiredInv, IInv
  <1>6. QED
    BY <1>1, <1>2, <1>3, <1>4, <1>5, <1>a, <1>c, RunningGoes DEF OrderInv, KeptInv

LEMMA PublishStep ==
    ASSUME IInv, NEW i \in Installs, Publish(i)
    PROVE  ChainInv' /\ CallsInv' /\ WorkInv' /\ OrderInv' /\ RetiredInv' /\ KeptInv'
  <1>a. /\ pc[i] = "aside" /\ pc[i] \in Running /\ Goto(i, "cleaning")
        /\ "cleaning" \in Running
        /\ UNCHANGED <<latest, seedRemoved, registered, server, chain, budget, outlived, overlapped>>
    BY DEF Publish, Running, Installing
  <1>b. TypeOK /\ ChainInv /\ WorkInv
    BY DEF IInv
  <1>c. /\ latest' = latest /\ seedRemoved' = seedRemoved /\ (Orderly' <=> Orderly)
    BY <1>a DEF Orderly
  <1>d. /\ Registered(i) /\ work[i].next.form = "whole"
        /\ work[i].next.package = i /\ work[i].made
    BY <1>a, <1>b DEF WorkInv, Staged
  <1>e. target' = work[i].next /\ target'.form = "whole" /\ target'.package = i /\ Exists(target)'
    BY <1>d DEF Publish, Exists
  <1>f. /\ \A j \in Installs : j # i => work'[j] = work[j]
        /\ work'[i].made = work[i].made /\ work'[i].next = NoTree
        /\ work'[i].marker = work[i].marker
        /\ work'[i].previous = work[i].previous
    <2>1. work' = [work EXCEPT ![i] = [work[i] EXCEPT !.next = NoTree]]
      BY DEF Publish
    <2>2. work'[i] = [work[i] EXCEPT !.next = NoTree] /\ \A j \in Installs : j # i => work'[j] = work[j]
      BY <1>b, <2>1, Trees, WorkFields, NewWork
    <2>3. QED
      BY <1>b, <2>2, WorkFields DEF Work
  <1>g. \A j \in Installs : Registered(j)' = Registered(j)
    BY <1>f DEF Registered
  <1>h. retired' = (retired \cup {Original}
                       \cup {j \in Installs : pc[j] \in Ended \ {"idle"}}) \ {i}
    BY DEF Publish, Retire
  <1>i. pc'[i] = "cleaning"
    BY <1>a, RunningGoes
  <1>1. ChainInv' /\ CallsInv'
    BY <1>a, <1>b, ChainGoes, RunningGoes
  <1>2. WorkInv'
    <2>1. Staged(i)
      BY <1>b DEF WorkInv
    <2>2. Staged(i)'
      BY <1>d, <1>f, <1>g, <1>i, <2>1, Trees DEF Staged, Registered
    <2>3. QED
      BY <1>a, <1>b, <1>f, <2>2, OthersStaged, RunningGoes DEF OnlyOf
  <1>3. ASSUME Orderly PROVE Ordered' /\ Away'
    <2>1. Ordered /\ Away /\ server' = "up"
      BY <1>3, <1>a, RunningGoes
    <2>2. \A j \in Installs : Registered(j)' => j = i
      BY <1>3, <1>a, <1>g, RunningGoes
    <2>3. Recoverable(i)'
      BY <2>1, <2>2, <1>a, <1>c, <1>d, <1>e, <1>f, <1>i DEF Ordered, Recoverable
    <2>4. \A c \in Calls \ Installs : pc'[c] \in Ended
      BY <1>3, <1>a, RunningGoes
    <2>5. Ordered'
      BY <2>1, <2>2, <2>3, <2>4, <1>e DEF Ordered
    <2>6. \A u \in Uninstalls : pc'[u] # "removed"
      BY <1>3, <1>a, RunningGoes DEF Ended
    <2>7. Away'
      BY <2>6, <1>e, <1>h DEF Away
    <2>8. QED
      BY <2>5, <2>7
  <1>4. ASSUME Orderly, ~UninstallBegun PROVE Kept'
    <2>1. Kept
      BY <1>4, <1>a, RunningGoes
    <2>2. Holds(target)'
      BY <2>1, <1>a, <1>e, RunningGoes DEF Kept, Holds
    <2>3. \A j \in Installs : pc'[j] \notin {"merged", "marked", "aside"}
      BY <1>a, <1>i, RunningGoes DEF Running, Installing
    <2>4. Original \in retired'
      BY <1>h, CallsAssumption
    <2>5. QED
      BY <2>2, <2>3, <2>4, <1>e DEF Kept, InPlaceOrAside
  <1>5. RetiredInv'
    <2>1. NoPackage \notin retired' /\ (~seedRemoved' => Bundled \notin retired')
      BY <1>c, <1>h, CallsAssumption DEF RetiredInv, IInv
    <2>2. ASSUME NEW j \in Installs, pc'[j] \in Installing \cup {"idle"} PROVE j \notin retired'
      <3>1. CASE j = i
        BY <3>1, <1>h
      <3>2. CASE j # i
        <4>1. pc[j] = pc'[j] /\ j \notin retired
          BY <3>2, <2>2, <1>a, RunningGoes
        <4>2. pc[j] \notin Ended \ {"idle"}
          BY <2>2, <4>1 DEF Installing, Ended
        <4>3. QED
          BY <4>1, <4>2, <1>h, CallsAssumption
      <3>3. QED
        BY <3>1, <3>2
    <2>3. QED
      BY <2>1, <2>2, <1>3, <1>c DEF RetiredInv
  <1>6. QED
    BY <1>1, <1>2, <1>3, <1>4, <1>5, <1>a, <1>c, RunningGoes DEF OrderInv, KeptInv

LEMMA CatchStep ==
    ASSUME IInv, NEW i \in Installs, Catch(i)
    PROVE  ChainInv' /\ CallsInv' /\ WorkInv' /\ OrderInv' /\ RetiredInv' /\ KeptInv'
  <1>a. /\ pc[i] = "catching" /\ pc[i] \in Running
        /\ UNCHANGED <<latest, seedRemoved, registered, server, retired, overlapped>>
    BY DEF Catch, Running, Installing
  <1>b. TypeOK /\ ChainInv /\ WorkInv /\ Staged(i)
    BY DEF IInv, WorkInv
  <1>c. "discarding" \in Running /\ "failed" \in Running \cup {"done", "failed"}
    BY DEF Running, Installing
  <1>1. CASE /\ ~Exists(target) /\ Exists(work[i].previous)
             /\ target' = work[i].previous
             /\ work' = [work EXCEPT ![i].previous = NoTree]
             /\ Goto(i, "discarding")
             /\ UNCHANGED <<chain, failures, outlived>>
    <2>a. /\ \A j \in Installs : j # i => work'[j] = work[j]
          /\ work'[i].made = work[i].made /\ work'[i].next = work[i].next
          /\ work'[i].marker = work[i].marker
          /\ work'[i].previous = NoTree
      <3>1. work' = [work EXCEPT ![i] = [work[i] EXCEPT !.previous = NoTree]]
        BY <1>1
      <3>2. work'[i] = [work[i] EXCEPT !.previous = NoTree] /\ \A j \in Installs : j # i => work'[j] = work[j]
        BY <1>b, <3>1, Trees, WorkFields, NewWork
      <3>3. QED
        BY <1>b, <3>2, WorkFields DEF Work
    <2>b. Registered(i) /\ \A j \in Installs : Registered(j)' = Registered(j)
      BY <1>1, <1>b, <2>a, Trees DEF Staged, Registered, Exists
    <2>c. Exists(target)' /\ (Orderly' <=> Orderly)
      BY <1>1, <1>a DEF Exists, Orderly
    <2>d. pc'[i] = "discarding"
      BY <1>1, <1>a, <1>c, RunningGoes
    <2>1. ChainInv' /\ CallsInv'
      BY <1>1, <1>a, <1>b, <1>c, ChainGoes, RunningGoes
    <2>2. WorkInv'
      <3>1. Staged(i)'
        BY <1>b, <2>a, <2>b, <2>d, Trees, <1>a DEF Staged, Registered
      <3>2. QED
        BY <1>1, <1>a, <1>b, <1>c, <2>a, <3>1, OthersStaged, RunningGoes DEF OnlyOf
    <2>3. ASSUME Orderly PROVE Ordered' /\ Away'
      <3>1. Ordered /\ Away /\ server' = "up"
        BY <1>1, <2>3, <1>a, <1>c, RunningGoes
      <3>2. \A j \in Installs : Registered(j)' => j = i
        BY <1>1, <2>3, <1>a, <1>c, <2>b, RunningGoes
      <3>3. Recoverable(i)'
        BY <1>a, <1>c, <2>a, <2>b, <2>c, <2>d, <3>1, <3>2 DEF Ordered, Recoverable
      <3>4. /\ \A c \in Calls \ Installs : pc'[c] \in Ended
            /\ \A u \in Uninstalls : pc'[u] # "removed"
        BY <1>1, <2>3, <1>a, <1>c, RunningGoes DEF Ended
      <3>5. Ordered'
        BY <2>c, <3>1, <3>2, <3>3, <3>4 DEF Ordered
      <3>6. Away'
        BY <1>1, <1>a, <2>b, <2>c, <3>1, <3>4 DEF Away
      <3>7. QED
        BY <3>5, <3>6
    <2>4. ASSUME Orderly, ~UninstallBegun PROVE Kept'
      <3>1. Kept
        BY <1>1, <2>4, <1>a, <1>c, RunningGoes
      <3>2. target'.form = "whole"
        BY <1>1, <2>4, <3>1, <1>a, <1>c, RunningGoes DEF Kept, InPlaceOrAside, Exists
      <3>3. Holds(target)'
        BY <1>1, <3>1, <1>a, <1>c, <2>b, RunningGoes DEF Kept, Holds
      <3>4. \A j \in Installs : pc'[j] \notin {"merged", "marked", "aside"}
        BY <1>1, <1>a, <1>c, <2>d, RunningGoes DEF Running, Installing
      <3>5. Original \notin retired' =>
              /\ target'.package \in {Original, NoPackage}
              /\ \A j \in Installs : work'[j].previous.package \in {Original, NoPackage}
        BY <1>1, <3>1, <1>a, <2>a, Trees DEF Kept
      <3>6. QED
        BY <2>c, <3>2, <3>3, <3>4, <3>5 DEF Kept, InPlaceOrAside
    <2>5. RetiredInv'
      BY <2>3, <2>c, <1>1, <1>a, <1>c, RunningGoes DEF RetiredInv, IInv
    <2>6. QED
      BY <2>1, <2>2, <2>3, <2>4, <2>5, <2>c, <1>1, <1>a, <1>c, RunningGoes DEF OrderInv, KeptInv
  <1>2. CASE Settle(i, "failed") /\ outlived' = TRUE /\ UNCHANGED <<target, work>>
    <2>1. Goto(i, "failed") /\ ~Orderly'
      BY <1>2 DEF Settle, Orderly
    <2>2. ChainInv' /\ CallsInv' /\ pc'[i] = "failed"
      BY <1>2, <2>1, <1>a, <1>b, <1>c, ChainSettles, RunningGoes
    <2>3. WorkInv'
      <3>1. Staged(i)'
        BY <1>2, <1>b, <2>2 DEF Staged, Registered, Running, Installing
      <3>2. QED
        BY <1>2, <1>a, <1>b, <1>c, <2>1, <3>1, OthersStaged, RunningGoes DEF OnlyOf
    <2>4. RetiredInv'
      BY <1>a, <1>c, <2>1, RunningGoes DEF RetiredInv, IInv
    <2>5. QED
      BY <2>1, <2>2, <2>3, <2>4 DEF OrderInv, KeptInv
  <1>3. CASE /\ Exists(target) \/ (~Exists(work[i].previous) /\ work[i].marker = 0)
             /\ Goto(i, "discarding")
             /\ UNCHANGED <<target, work, chain, failures, outlived>>
    <2>a. \A j \in Installs : Registered(j)' = Registered(j)
      BY <1>3 DEF Registered
    <2>b. (Exists(target)' <=> Exists(target)) /\ (Orderly' <=> Orderly)
      BY <1>3, <1>a DEF Exists, Orderly
    <2>c. pc'[i] = "discarding"
      BY <1>3, <1>a, <1>c, RunningGoes
    <2>1. ChainInv' /\ CallsInv'
      BY <1>3, <1>a, <1>b, <1>c, ChainGoes, RunningGoes
    <2>2. WorkInv'
      <3>1. Staged(i)'
        BY <1>3, <1>a, <1>b, <2>c DEF Staged, Registered
      <3>2. QED
        BY <1>3, <1>a, <1>b, <1>c, <3>1, OthersStaged, RunningGoes DEF OnlyOf
    <2>3. ASSUME Orderly PROVE Ordered' /\ Away'
      <3>1. Ordered /\ Away /\ server' = "up"
        BY <1>3, <2>3, <1>a, <1>c, RunningGoes
      <3>2. \A j \in Installs : Registered(j)' => j = i
        BY <1>3, <2>3, <1>a, <1>c, <2>a, RunningGoes
      <3>3. Registered(i)' => Recoverable(i)'
        BY <1>3, <1>a, <1>c, <2>a, <2>b, <2>c, <3>1, <3>2 DEF Ordered, Recoverable, Registered
      <3>4. /\ \A c \in Calls \ Installs : pc'[c] \in Ended
            /\ \A u \in Uninstalls : pc'[u] # "removed"
        BY <1>3, <2>3, <1>a, <1>c, RunningGoes DEF Ended
      <3>5. \A j \in Installs : pc'[j] # "cleaning"
        BY <1>3, <1>a, <1>c, <2>c, RunningGoes DEF Running, Installing
      <3>6. Ordered'
        BY <3>1, <3>2, <3>3, <3>4, <3>5 DEF Ordered
      <3>7. Away'
        BY <1>3, <1>a, <2>a, <2>b, <3>1, <3>4 DEF Away
      <3>8. QED
        BY <3>6, <3>7
    <2>4. ASSUME Orderly, ~UninstallBegun PROVE Kept'
      <3>1. Kept
        BY <1>3, <2>4, <1>a, <1>c, RunningGoes
      <3>2. \A tree : Holds(tree)' <=> Holds(tree)
        BY <1>3, <1>a, <1>c, RunningGoes
      <3>3. \A j \in Installs : pc'[j] \notin {"merged", "marked", "aside"}
        BY <1>3, <1>a, <1>c, <2>c, RunningGoes DEF Running, Installing
      <3>4. \A d \in Downloads : pc'[d] = pc[d]
        BY <1>3, <1>a, <1>c, RunningGoes
      <3>5. QED
        BY <1>3, <1>a, <2>a, <2>b, <3>1, <3>3, <3>4 DEF Kept, InPlaceOrAside, Holds
    <2>5. RetiredInv'
      BY <2>3, <2>b, <1>3, <1>a, <1>c, RunningGoes DEF RetiredInv, IInv
    <2>6. QED
      BY <2>1, <2>2, <2>3, <2>4, <2>5, <2>b, <1>3, <1>a, <1>c, RunningGoes DEF OrderInv, KeptInv
  <1>4. QED
    BY <1>1, <1>2, <1>3 DEF Catch

LEMMA EndInstallWork ==
    ASSUME IInv, NEW i \in Installs, EndInstall(i)
    PROVE  /\ \A j \in Installs : j # i => work'[j] = work[j]
           /\ work'[i].made \/ work'[i] = NoWork
           /\ work'[i].marker = 0 => work'[i].previous = NoTree
           /\ work'[i].next.package \in {i, NoPackage}
           /\ work'[i].previous.package \in {work[i].previous.package, NoPackage}
           /\ Orderly' => Orderly /\ work'[i].marker = 0
  <1>a. TypeOK /\ Staged(i) /\ work[i] \in Work
    BY WorkFields DEF IInv, WorkInv
  <1>1. CASE work' = [work EXCEPT ![i] = NoWork] /\ UNCHANGED <<failures, outlived>>
    <2>1. work'[i] = NoWork /\ \A j \in Installs : j # i => work'[j] = work[j]
      BY <1>1, <1>a, Trees, NewWork
    <2>2. Orderly' => Orderly
      BY <1>1 DEF EndInstall, Orderly
    <2>3. QED
      BY <2>1, <2>2, Trees
  <1>2. CASE /\ \E w \in Remains(work[i]) : work' = [work EXCEPT ![i] = w]
             /\ outlived' = (outlived \/ work'[i].marker # 0)
    <2>1. PICK w \in Remains(work[i]) : work' = [work EXCEPT ![i] = w]
      BY <1>2
    <2>2. work[i].marker # 0 => work[i].made
      BY <1>a, Trees DEF Staged
    <2>3. /\ w \in Work /\ w.made
          /\ w.marker = 0 => w.previous = NoTree
          /\ w.next.package \in {work[i].next.package, NoPackage}
          /\ w.previous.package \in {work[i].previous.package, NoPackage}
      BY <1>a, <2>1, <2>2, Remaining
    <2>4. work'[i] = w /\ \A j \in Installs : j # i => work'[j] = work[j]
      BY <1>a, <2>1, <2>3, NewWork
    <2>5. Orderly' => Orderly /\ work'[i].marker = 0
      BY <1>2 DEF EndInstall, Orderly
    <2>6. work[i].next.package \in {i, NoPackage}
      BY <1>a DEF Staged
    <2>7. QED
      BY <2>3, <2>4, <2>5, <2>6
  <1>3. QED
    BY <1>1, <1>2 DEF EndInstall

LEMMA EndInstallStep ==
    ASSUME IInv, NEW i \in Installs, EndInstall(i)
    PROVE  ChainInv' /\ CallsInv' /\ WorkInv' /\ OrderInv' /\ RetiredInv' /\ KeptInv'
  <1>a. /\ pc[i] \in {"cleaning", "discarding"} /\ pc[i] \in Running
        /\ target' = target /\ latest' = latest /\ seedRemoved' = seedRemoved
        /\ server' = server /\ retired' = retired
    BY DEF EndInstall, Running, Installing
  <1>b. PICK label \in {"done", "failed"} : Settle(i, label)
    BY DEF EndInstall
  <1>c. Goto(i, label) /\ label \in Running \cup {"done", "failed"} /\ label \notin Installing
        /\ label # "idle"
    BY <1>b DEF Settle, Installing
  <1>d. TypeOK /\ ChainInv /\ WorkInv
    BY DEF IInv
  <1>e. pc'[i] = label
    BY <1>a, <1>c, RunningGoes
  <1>f. Exists(target)' <=> Exists(target)
    BY <1>a DEF Exists
  <1>1. ChainInv' /\ CallsInv'
    BY <1>a, <1>b, <1>c, <1>d, ChainSettles, RunningGoes
  <1>2. WorkInv'
    <2>1. Staged(i)'
      BY <1>c, <1>e, EndInstallWork DEF Staged, Registered, Running, Installing
    <2>2. QED
      BY <1>a, <1>c, <1>d, <2>1, EndInstallWork, OthersStaged, RunningGoes DEF OnlyOf
  <1>3. ASSUME Orderly' PROVE Orderly /\ \A j \in Installs : ~Registered(j)'
    <2>1. Orderly /\ work'[i].marker = 0 /\ \A j \in Installs : j # i => work'[j] = work[j]
      BY <1>3, EndInstallWork
    <2>2. QED
      BY <2>1, <1>a, <1>c, RunningGoes DEF Registered
  <1>4. ASSUME Orderly' PROVE Ordered' /\ Away'
    <2>1. Ordered /\ Away /\ server' = "up"
      BY <1>3, <1>4, <1>a, <1>c, RunningGoes
    <2>2. /\ \A c \in Calls \ Installs : pc'[c] \in Ended
          /\ \A u \in Uninstalls : pc'[u] # "removed"
      BY <1>3, <1>4, <1>a, <1>c, RunningGoes DEF Ended
    <2>3. \A j \in Installs : pc'[j] # "cleaning"
      BY <1>a, <1>c, <1>e, RunningGoes DEF Running, Installing
    <2>4. QED
      BY <1>3, <1>4, <1>a, <2>1, <2>2, <2>3 DEF Ordered, Away
  <1>5. ASSUME Orderly', ~UninstallBegun PROVE Kept'
    <2>1. Kept /\ Ordered
      BY <1>3, <1>5, <1>a, <1>c, RunningGoes
    <2>2. target.form = "whole"
      <3>1. ASSUME NEW j \in Installs, Registered(j), ~Exists(target) PROVE FALSE
        <4>1. j = i
          BY <1>3, <1>5, <3>1, <1>a, <1>c, RunningGoes
        <4>2. QED
          BY <1>a, <2>1, <3>1, <4>1 DEF Ordered, Recoverable
      <3>2. QED
        BY <2>1, <3>1 DEF Kept, InPlaceOrAside
    <2>3. Holds(target)'
      BY <1>a, <1>c, <2>1, <2>2, RunningGoes DEF Kept, Holds
    <2>4. \A j \in Installs : pc'[j] \notin {"merged", "marked", "aside"}
      BY <1>a, <1>c, <1>e, RunningGoes DEF Running, Installing
    <2>5. Original \notin retired => \A j \in Installs : work'[j].previous.package \in {Original, NoPackage}
      BY <2>1, EndInstallWork DEF Kept
    <2>6. QED
      BY <1>3, <1>5, <1>a, <2>1, <2>2, <2>3, <2>4, <2>5 DEF Kept, InPlaceOrAside
  <1>6. RetiredInv'
    BY <1>4, <1>a, <1>c, RunningGoes DEF RetiredInv, IInv
  <1>7. QED
    BY <1>1, <1>2, <1>4, <1>5, <1>6, <1>a, <1>c, RunningGoes DEF OrderInv, KeptInv

-----------------------------------------------------------------------------
(* A call begins: under Orderly, not beside a command that it may disturb. *)
LEMMA BeginsAlone ==
    ASSUME IInv, NEW c \in Calls, NEW label \in Labels, Begin(c, label), outlived' = outlived
    PROVE  /\ server = "up" /\ pc[c] = "idle" /\ pc'[c] = label
           /\ \A k \in Calls : k # c => pc'[k] = pc[k]
           /\ Orderly' => Orderly /\ Ordered /\ Away
           /\ Orderly' /\ c \in Installs => \A k \in Calls \ Installs : pc[k] \in Ended
           /\ Orderly' /\ c \notin Installs => \A i \in Installs : pc[i] \notin Installing /\ ~Registered(i)
  <1>1. /\ server = "up" /\ pc[c] = "idle" /\ pc'[c] = label
        /\ \A k \in Calls : k # c => pc'[k] = pc[k]
    BY Begins DEF IInv, Begin
  <1>2. ASSUME Orderly'
        PROVE  Orderly /\ Ordered /\ Away /\ ~Mixed(Active \cup {c})
    <2>1. ~overlapped' /\ overlapped' = (overlapped \/ Mixed(Active \cup {c}))
      BY <1>2 DEF Orderly, Begin
    <2>2. ~overlapped /\ ~Mixed(Active \cup {c})
      BY <2>1, Zenon
    <2>3. Orderly
      BY <1>2, <2>2 DEF Orderly
    <2>4. QED
      BY <2>2, <2>3 DEF IInv, OrderInv, RetiredInv
  <1>3. ASSUME Orderly', c \in Installs, NEW k \in Calls \ Installs PROVE pc[k] \in Ended
    BY <1>2, <1>3 DEF Mixed, Active
  <1>4. ASSUME Orderly', c \notin Installs, NEW i \in Installs
        PROVE pc[i] \notin Installing /\ ~Registered(i)
    <2>1. pc[i] \in Ended
      BY <1>2, <1>4, Kinds DEF Mixed, Active
    <2>2. pc[i] \notin Installing
      BY <2>1 DEF Ended, Installing
    <2>3. QED
      BY <1>1, <1>2, <1>4, <2>2 DEF Ordered, Recoverable, Running
  <1>5. QED
    BY <1>1, <1>2, <1>3, <1>4

LEMMA InstallCallStep ==
    ASSUME IInv, NEW i \in Installs, InstallCall(i)
    PROVE  ChainInv' /\ CallsInv' /\ WorkInv' /\ OrderInv' /\ RetiredInv' /\ KeptInv'
  <1>a. /\ i \in Calls /\ "queued" \in Labels /\ Begin(i, "queued")
        /\ chain' = Append(chain, i)
        /\ target' = target /\ work' = work /\ latest' = latest /\ seedRemoved' = seedRemoved
        /\ server' = server /\ retired' = retired /\ outlived' = outlived
    BY Kinds DEF InstallCall, disk, Labels, Installing
  <1>b. /\ server = "up" /\ pc[i] = "idle" /\ pc'[i] = "queued"
        /\ \A k \in Calls : k # i => pc'[k] = pc[k]
    BY <1>a, BeginsAlone
  <1>c. TypeOK /\ ChainInv /\ CallsInv /\ WorkInv /\ RetiredInv /\ KeptInv
    BY DEF IInv
  <1>d. /\ \A u \in Uninstalls : pc'[u] = pc[u]
        /\ \A d \in Downloads : pc'[d] = pc[d]
        /\ \A c \in Calls \ Installs : pc'[c] = pc[c]
        /\ UninstallBegun' <=> UninstallBegun
    BY <1>b, Kinds DEF UninstallBegun
  <1>e. /\ \A j \in Installs : Registered(j)' = Registered(j)
        /\ Exists(target)' = Exists(target)
    BY <1>a DEF Registered, Exists
  <1>1. ChainInv'
    <2>1. chain \in Seq(Installs) /\ chain # <<>> => chain' # <<>> /\ Head(chain') = Head(chain)
      BY <1>a
    <2>2. QED
      BY <1>b, <1>c, <2>1, Kinds DEF ChainInv, TypeOK, Running, Installing
  <1>2. CallsInv'
    BY <1>a, <1>b, <1>c, <1>d, Kinds DEF CallsInv, Installing, Ended
  <1>3. WorkInv'
    <2>1. Staged(i)'
      BY <1>a, <1>b, <1>c DEF WorkInv, Staged, Registered, Running
    <2>2. QED
      BY <1>a, <1>b, <1>c, <2>1, Kinds, OthersStaged DEF OnlyOf
  <1>4. ASSUME Orderly' PROVE Ordered' /\ Away'
    <2>1. Ordered /\ Away /\ \A k \in Calls \ Installs : pc'[k] \in Ended
      BY <1>4, <1>a, <1>d, BeginsAlone
    <2>2. \A j \in Installs : Registered(j)' => Recoverable(j)'
      <3>1. ASSUME NEW j \in Installs, Registered(j) PROVE Recoverable(j) /\ pc'[j] = pc[j]
        <4>1. Recoverable(j) /\ pc[j] # "idle"
          BY <1>b, <2>1, <3>1 DEF Ordered, Recoverable, Running, Installing
        <4>2. QED
          BY <1>b, <4>1, Kinds
      <3>2. QED
        BY <1>a, <1>e, <3>1 DEF Recoverable, Exists
    <2>3. \A j \in Installs : pc'[j] = "cleaning" => pc[j] = "cleaning"
      BY <1>b, Kinds
    <2>4. Ordered'
      BY <1>a, <1>e, <2>1, <2>2, <2>3 DEF Ordered
    <2>5. QED
      BY <1>a, <1>d, <1>e, <2>1, <2>4 DEF Away
  <1>5. RetiredInv'
    <2>1. \A j \in Installs : pc'[j] \in Installing \cup {"idle"} => j \notin retired
      BY <1>b, <1>c, Kinds DEF RetiredInv
    <2>2. QED
      BY <1>a, <1>c, <1>4, <2>1 DEF RetiredInv
  <1>6. ASSUME Orderly', ~UninstallBegun PROVE Kept'
    <2>1. Kept
      BY <1>6, <1>a, <1>c, BeginsAlone DEF KeptInv
    <2>2. \A j \in Installs : pc'[j] \in {"merged", "marked", "aside"} => pc[j] \in {"merged", "marked", "aside"}
      BY <1>b, Kinds
    <2>3. QED
      BY <1>a, <1>d, <1>e, <2>1, <2>2 DEF Kept, InPlaceOrAside, Holds
  <1>7. QED
    BY <1>1, <1>2, <1>3, <1>4, <1>5, <1>6, <1>d DEF OrderInv, KeptInv

-----------------------------------------------------------------------------
(* A step of an uninstall or a download.                                   *)
LEMMA NobodyInstalls ==
    ASSUME server' # "refused",
           \A i \in Installs : pc'[i] \notin Installing /\ ~Registered(i)'
    PROVE  Ordered'
  BY DEF Ordered, Installing

LEMMA CommandGoes ==
    ASSUME IInv, NEW c \in Calls \ Installs, NEW label, pc' = [pc EXCEPT ![c] = label],
           \/ c \in Uninstalls /\ label \in {"removing", "removed", "done", "failed"}
           \/ c \in Downloads /\ label \in {"vault", "file", "done", "failed"},
           server = "up",
           UNCHANGED <<work, latest, server, chain>>,
           seedRemoved' => seedRemoved \/ c \in Uninstalls
    PROVE  /\ ChainInv' /\ CallsInv' /\ WorkInv' /\ server' = "up"
           /\ pc'[c] = label /\ \A k \in Calls : k # c => pc'[k] = pc[k]
           /\ \A i \in Installs : pc'[i] = pc[i] /\ Registered(i)' = Registered(i)
           /\ \A u \in Uninstalls : u # c => pc'[u] = pc[u]
           /\ \A d \in Downloads : d # c => pc'[d] = pc[d]
           /\ UninstallBegun => UninstallBegun'
           /\ c \in Uninstalls => UninstallBegun'
           /\ Orderly /\ pc[c] \notin Ended =>
                /\ \A i \in Installs : pc[i] \notin Installing /\ ~Registered(i)
                /\ Away /\ Ordered'
                /\ ~UninstallBegun => Kept /\ target.form = "whole"
  <1>a. TypeOK /\ ChainInv /\ CallsInv /\ WorkInv
    BY DEF IInv
  <1>1. pc'[c] = label /\ \A k \in Calls : k # c => pc'[k] = pc[k]
    BY <1>a DEF TypeOK
  <1>2. /\ \A i \in Installs : pc'[i] = pc[i] /\ Registered(i)' = Registered(i)
        /\ \A u \in Uninstalls : u # c => pc'[u] = pc[u]
        /\ \A d \in Downloads : d # c => pc'[d] = pc[d]
    BY <1>1, Kinds DEF Registered
  <1>3. /\ UninstallBegun => UninstallBegun'
        /\ c \in Uninstalls => UninstallBegun'
    BY <1>1, Kinds DEF UninstallBegun
  <1>4. ChainInv' /\ WorkInv'
    BY <1>a, <1>2 DEF ChainInv, WorkInv, Staged
  <1>5. CallsInv'
    BY <1>a, <1>1, <1>2, <1>3, Kinds DEF CallsInv, Ended
  <1>6. ASSUME Orderly, pc[c] \notin Ended
        PROVE  /\ \A i \in Installs : pc[i] \notin Installing /\ ~Registered(i)
               /\ Away /\ Ordered'
               /\ ~UninstallBegun => Kept /\ target.form = "whole"
    <2>1. Ordered /\ Away /\ (~UninstallBegun => Kept)
      BY <1>6 DEF IInv, OrderInv, RetiredInv, KeptInv
    <2>2. \A i \in Installs : pc[i] \notin Installing /\ ~Registered(i)
      BY <1>6, <2>1 DEF Ordered, Recoverable, Running
    <2>3. Ordered'
      BY <1>2, <2>2, NobodyInstalls
    <2>4. QED
      BY <2>1, <2>2, <2>3 DEF Kept, InPlaceOrAside
  <1>7. QED
    BY <1>1, <1>2, <1>3, <1>4, <1>5, <1>6

LEMMA UninstallStep ==
    ASSUME IInv, NEW u \in Uninstalls,
           \/ UninstallCall(u) \/ RemoveSome(u) \/ RemoveLast(u)
           \/ UninstallEnds(u) \/ UninstallFails(u)
    PROVE  ChainInv' /\ CallsInv' /\ WorkInv' /\ OrderInv' /\ RetiredInv' /\ KeptInv'
  <1>a. u \in Calls \ Installs
    BY Kinds
  <1>b. TypeOK /\ CallsInv /\ RetiredInv
    BY DEF IInv
  <1>c. \A j \in Installs : pc[j] \in Installing \cup {"idle"} => j \notin retired
    BY <1>b DEF RetiredInv
  <1>1. CASE UninstallCall(u)
    <2>a. /\ Begin(u, "removing") /\ "removing" \in Labels /\ outlived' = outlived
          /\ pc' = [pc EXCEPT ![u] = "removing"] /\ server = "up"
          /\ UNCHANGED <<target, work, latest, seedRemoved, server, chain, retired>>
      BY <1>1 DEF UninstallCall, Begin, disk, Labels
    <2>b. /\ ChainInv' /\ CallsInv' /\ WorkInv' /\ server' = "up" /\ UninstallBegun'
          /\ \A i \in Installs : pc'[i] = pc[i] /\ Registered(i)' = Registered(i)
          /\ \A v \in Uninstalls : pc'[v] = "removed" => pc[v] = "removed"
      <3>1. /\ ChainInv' /\ CallsInv' /\ WorkInv' /\ server' = "up" /\ UninstallBegun'
            /\ \A i \in Installs : pc'[i] = pc[i] /\ Registered(i)' = Registered(i)
            /\ pc'[u] = "removing" /\ \A v \in Uninstalls : v # u => pc'[v] = pc[v]
        BY <1>a, <2>a, CommandGoes
      <3>2. QED
        BY <3>1
    <2>1. ASSUME Orderly' PROVE Ordered' /\ Away'
      <3>1. Away /\ \A i \in Installs : pc[i] \notin Installing /\ ~Registered(i)
        BY <2>1, <1>a, <2>a, BeginsAlone
      <3>2. Ordered'
        BY <2>b, <3>1, NobodyInstalls
      <3>3. Away'
        BY <2>a, <2>b, <3>1 DEF Away
      <3>4. QED
        BY <3>2, <3>3
    <2>2. RetiredInv'
      BY <1>b, <1>c, <2>a, <2>b, <2>1 DEF RetiredInv
    <2>3. QED
      BY <2>b, <2>1, <2>2 DEF OrderInv, KeptInv
  <1>2. CASE RemoveSome(u)
    <2>a. /\ pc[u] = "removing" /\ pc' = pc /\ target'.package = target.package
          /\ UNCHANGED <<work, latest, seedRemoved, server, chain, retired, outlived, overlapped>>
      BY <1>2, <1>b DEF RemoveSome, history, TypeOK, Tree
    <2>b. /\ server = "up" /\ pc' = [pc EXCEPT ![u] = "removing"] /\ pc[u] \notin Ended
      BY <1>a, <1>b, <2>a DEF CallsInv, TypeOK, Ended
    <2>c. /\ ChainInv' /\ CallsInv' /\ WorkInv' /\ UninstallBegun'
          /\ \A i \in Installs : pc'[i] = pc[i] /\ Registered(i)' = Registered(i)
      BY <1>a, <2>a, <2>b, CommandGoes DEF Ended
    <2>1. ASSUME Orderly PROVE Ordered' /\ Away'
      <3>1. Ordered' /\ Away /\ \A i \in Installs : ~Registered(i)
        BY <2>1, <1>a, <2>a, <2>b, CommandGoes DEF Ended
      <3>2. QED
        BY <2>a, <2>c, <3>1 DEF Away
    <2>2. (Orderly' <=> Orderly) /\ RetiredInv'
      BY <1>b, <1>c, <2>a, <2>c, <2>1 DEF Orderly, RetiredInv
    <2>3. QED
      BY <2>c, <2>1, <2>2 DEF OrderInv, KeptInv
  <1>3. CASE RemoveLast(u)
    <2>a. /\ pc[u] = "removing" /\ pc' = [pc EXCEPT ![u] = "removed"] /\ target' = NoTree
          /\ UNCHANGED <<work, latest, seedRemoved, server, chain, retired, outlived, overlapped>>
      BY <1>3 DEF RemoveLast, Goto, history
    <2>b. server = "up" /\ pc[u] \notin Ended
      BY <1>a, <1>b, <2>a DEF CallsInv, Ended
    <2>c. /\ ChainInv' /\ CallsInv' /\ WorkInv' /\ UninstallBegun'
          /\ \A i \in Installs : pc'[i] = pc[i] /\ Registered(i)' = Registered(i)
      BY <1>a, <2>a, <2>b, CommandGoes DEF Ended
    <2>1. ASSUME Orderly PROVE Ordered' /\ Away'
      <3>1. Ordered' /\ \A i \in Installs : ~Registered(i)
        BY <2>1, <1>a, <2>a, <2>b, CommandGoes DEF Ended
      <3>2. QED
        BY <1>b, <2>a, <2>c, <3>1, Trees DEF Away, RetiredInv
    <2>2. (Orderly' <=> Orderly) /\ RetiredInv'
      BY <1>b, <1>c, <2>a, <2>c, <2>1 DEF Orderly, RetiredInv
    <2>3. QED
      BY <2>c, <2>1, <2>2 DEF OrderInv, KeptInv
  <1>4. CASE UninstallEnds(u)
    <2>a. /\ pc[u] = "removed" /\ pc' = [pc EXCEPT ![u] = "done"] /\ seedRemoved' = TRUE
          /\ retired' = retired \cup {Original, Bundled}
                                \cup {i \in Installs : pc[i] \in Ended \ {"idle"}}
          /\ UNCHANGED <<target, work, latest, server, chain, outlived, overlapped>>
      BY <1>4 DEF UninstallEnds, RetireAll, Goto
    <2>b. server = "up" /\ pc[u] \notin Ended
      BY <1>a, <1>b, <2>a DEF CallsInv, Ended
    <2>c. /\ ChainInv' /\ CallsInv' /\ WorkInv' /\ UninstallBegun'
          /\ \A i \in Installs : pc'[i] = pc[i] /\ Registered(i)' = Registered(i)
          /\ \A v \in Uninstalls : pc'[v] = "removed" => pc[v] = "removed"
      BY <1>a, <2>a, <2>b, CommandGoes DEF Ended
    <2>1. NoPackage \notin retired'
      BY <1>b, <2>a, CallsAssumption DEF RetiredInv
    <2>2. ASSUME Orderly PROVE Ordered' /\ Away'
      <3>1. Ordered' /\ Away /\ \A i \in Installs : ~Registered(i)
        BY <2>2, <1>a, <2>a, <2>b, CommandGoes DEF Ended
      <3>2. target.package = NoPackage
        BY <2>a, <3>1 DEF Away
      <3>3. QED
        BY <2>1, <2>a, <2>c, <3>1, <3>2 DEF Away
    <2>3. \A j \in Installs : pc'[j] \in Installing \cup {"idle"} => j \notin retired'
      BY <1>c, <2>a, <2>c, CallsAssumption DEF Installing, Ended
    <2>4. (Orderly' <=> Orderly) /\ RetiredInv'
      BY <2>1, <2>2, <2>3, <2>a DEF Orderly, RetiredInv
    <2>5. QED
      BY <2>c, <2>2, <2>4 DEF OrderInv, KeptInv
  <1>5. CASE UninstallFails(u)
    <2>a. /\ pc[u] \in {"removing", "removed"} /\ pc' = [pc EXCEPT ![u] = "failed"]
          /\ UNCHANGED <<target, work, latest, seedRemoved, server, chain, retired, outlived, overlapped>>
      BY <1>5 DEF UninstallFails, Goto, disk, history
    <2>b. server = "up" /\ pc[u] \notin Ended
      BY <1>a, <1>b, <2>a DEF CallsInv, Ended
    <2>c. /\ ChainInv' /\ CallsInv' /\ WorkInv' /\ UninstallBegun'
          /\ \A i \in Installs : pc'[i] = pc[i] /\ Registered(i)' = Registered(i)
          /\ \A v \in Uninstalls : pc'[v] = "removed" => pc[v] = "removed"
      BY <1>a, <2>a, <2>b, CommandGoes DEF Ended
    <2>1. ASSUME Orderly PROVE Ordered' /\ Away'
      <3>1. Ordered' /\ Away /\ \A i \in Installs : ~Registered(i)
        BY <2>1, <1>a, <2>a, <2>b, CommandGoes DEF Ended
      <3>2. QED
        BY <2>a, <2>c, <3>1 DEF Away
    <2>2. (Orderly' <=> Orderly) /\ RetiredInv'
      BY <1>b, <1>c, <2>a, <2>c, <2>1 DEF Orderly, RetiredInv
    <2>3. QED
      BY <2>c, <2>1, <2>2 DEF OrderInv, KeptInv
  <1>6. QED
    BY <1>1, <1>2, <1>3, <1>4, <1>5

LEMMA DownloadStep ==
    ASSUME IInv, NEW d \in Downloads, DownloadCall(d) \/ MakeVault(d) \/ CommitFile(d)
    PROVE  ChainInv' /\ CallsInv' /\ WorkInv' /\ OrderInv' /\ RetiredInv' /\ KeptInv'
  <1>a. d \in Calls \ Installs /\ d \notin Uninstalls
    BY Kinds
  <1>b. TypeOK /\ CallsInv /\ RetiredInv /\ KeptInv
    BY DEF IInv
  <1>c. \A j \in Installs : pc[j] \in Installing \cup {"idle"} => j \notin retired
    BY <1>b DEF RetiredInv
  <1>1. CASE DownloadCall(d)
    <2>a. /\ Begin(d, "vault") /\ "vault" \in Labels /\ outlived' = outlived
          /\ pc' = [pc EXCEPT ![d] = "vault"] /\ server = "up"
          /\ UNCHANGED <<target, work, latest, seedRemoved, server, chain, retired>>
      BY <1>1 DEF DownloadCall, Begin, disk, Labels
    <2>b. /\ ChainInv' /\ CallsInv' /\ WorkInv' /\ server' = "up" /\ pc'[d] = "vault"
          /\ UninstallBegun => UninstallBegun'
          /\ \A i \in Installs : pc'[i] = pc[i] /\ Registered(i)' = Registered(i)
          /\ \A u \in Uninstalls : pc'[u] = pc[u]
          /\ \A e \in Downloads : e # d => pc'[e] = pc[e]
      BY <1>a, <2>a, CommandGoes
    <2>1. ASSUME Orderly'
          PROVE  /\ Orderly /\ Ordered' /\ Away'
                 /\ \A i \in Installs : pc[i] \notin Installing /\ ~Registered(i)
      <3>1. Orderly /\ Away /\ \A i \in Installs : pc[i] \notin Installing /\ ~Registered(i)
        BY <2>1, <1>a, <2>a, BeginsAlone
      <3>2. Ordered'
        BY <2>b, <3>1, NobodyInstalls
      <3>3. Away'
        BY <2>a, <2>b, <3>1 DEF Away
      <3>4. QED
        BY <3>1, <3>2, <3>3
    <2>2. RetiredInv'
      BY <1>b, <1>c, <2>a, <2>b, <2>1 DEF RetiredInv
    <2>3. ASSUME Orderly', ~UninstallBegun PROVE Kept'
      <3>1. Kept /\ \A i \in Installs : pc'[i] \notin Installing /\ ~Registered(i)
        BY <1>b, <2>1, <2>3, <2>b DEF KeptInv
      <3>2. \A e \in Downloads : pc'[e] = "done" => pc[e] = "done"
        BY <2>b
      <3>3. QED
        BY <2>a, <2>b, <3>1, <3>2 DEF Kept, InPlaceOrAside, Holds, Installing
    <2>4. QED
      BY <2>b, <2>1, <2>2, <2>3 DEF OrderInv, KeptInv
  <1>2. CASE MakeVault(d)
    <2>a. /\ pc[d] = "vault" /\ pc' = [pc EXCEPT ![d] = "file"]
          /\ target' = IF Exists(target) THEN target ELSE BareTree
          /\ UNCHANGED <<work, latest, seedRemoved, server, chain, retired, outlived, overlapped>>
      BY <1>2 DEF MakeVault, Goto, history
    <2>b. server = "up" /\ pc[d] \notin Ended
      BY <1>a, <1>b, <2>a DEF CallsInv, Ended
    <2>c. /\ ChainInv' /\ CallsInv' /\ WorkInv' /\ pc'[d] = "file"
          /\ UninstallBegun => UninstallBegun'
          /\ \A i \in Installs : pc'[i] = pc[i] /\ Registered(i)' = Registered(i)
          /\ \A u \in Uninstalls : pc'[u] = pc[u]
          /\ \A e \in Downloads : e # d => pc'[e] = pc[e]
      BY <1>a, <2>a, <2>b, CommandGoes
    <2>d. Orderly' <=> Orderly
      BY <2>a DEF Orderly
    <2>1. ASSUME Orderly
          PROVE  /\ Ordered' /\ Away /\ \A i \in Installs : pc[i] \notin Installing /\ ~Registered(i)
                 /\ ~UninstallBegun => Kept /\ target.form = "whole"
      BY <2>1, <1>a, <2>a, <2>b, CommandGoes
    <2>2. RetiredInv'
      <3>1. ASSUME Orderly PROVE Away'
        BY <3>1, <1>b, <2>1, <2>a, <2>c, Trees DEF Away, RetiredInv
      <3>2. QED
        BY <1>b, <1>c, <2>a, <2>c, <2>d, <3>1 DEF RetiredInv
    <2>3. ASSUME Orderly, ~UninstallBegun PROVE Kept'
      <3>1. Kept /\ target.form = "whole" /\ target' = target
        BY <2>1, <2>3, <2>a DEF Exists
      <3>2. \A i \in Installs : pc'[i] \notin Installing /\ ~Registered(i)'
        BY <2>1, <2>3, <2>c
      <3>3. \A e \in Downloads : pc'[e] = "done" => pc[e] = "done"
        BY <2>c
      <3>4. QED
        BY <2>a, <3>1, <3>2, <3>3 DEF Kept, InPlaceOrAside, Holds, Installing
    <2>4. QED
      BY <2>c, <2>d, <2>1, <2>2, <2>3 DEF OrderInv, KeptInv
  <1>3. CASE CommitFile(d)
    <2>a. /\ pc[d] = "file"
          /\ target'.package = target.package /\ target'.form = target.form
          /\ \/ /\ pc' = [pc EXCEPT ![d] = "done"] /\ target'.vault = target.vault \cup {d}
             \/ /\ pc' = [pc EXCEPT ![d] = "failed"] /\ target' = target
          /\ UNCHANGED <<work, latest, seedRemoved, server, chain, retired, outlived, overlapped>>
      BY <1>3, <1>b DEF CommitFile, Goto, history, TypeOK, Tree
    <2>b. server = "up" /\ pc[d] \notin Ended
      BY <1>a, <1>b, <2>a DEF CallsInv, Ended
    <2>c. /\ ChainInv' /\ CallsInv' /\ WorkInv'
          /\ UninstallBegun => UninstallBegun'
          /\ \A i \in Installs : pc'[i] = pc[i] /\ Registered(i)' = Registered(i)
          /\ \A u \in Uninstalls : pc'[u] = pc[u]
          /\ \A e \in Downloads : e # d => pc'[e] = pc[e]
      BY <1>a, <2>a, <2>b, CommandGoes
    <2>d. (Orderly' <=> Orderly) /\ (Exists(target)' <=> Exists(target))
      BY <2>a DEF Orderly, Exists
    <2>1. ASSUME Orderly
          PROVE  /\ Ordered' /\ Away /\ \A i \in Installs : pc[i] \notin Installing /\ ~Registered(i)
                 /\ ~UninstallBegun => Kept /\ target.form = "whole"
      BY <2>1, <1>a, <2>a, <2>b, CommandGoes
    <2>2. RetiredInv'
      <3>1. ASSUME Orderly PROVE Away'
        BY <3>1, <2>1, <2>a, <2>c DEF Away
      <3>2. QED
        BY <1>b, <1>c, <2>a, <2>c, <2>d, <3>1 DEF RetiredInv
    <2>3. ASSUME Orderly, ~UninstallBegun PROVE Kept'
      <3>1. Kept /\ target.form = "whole"
        BY <2>1, <2>3
      <3>2. \A i \in Installs : pc'[i] \notin Installing /\ ~Registered(i)'
        BY <2>1, <2>3, <2>c
      <3>3. Holds(target)'
        <4>1. Holds(target)
          BY <3>1 DEF Kept
        <4>2. target.vault \subseteq target'.vault
          BY <2>a
        <4>3. pc'[d] = "done" => d \in target'.vault
          BY <1>a, <1>b, <2>a DEF TypeOK
        <4>4. QED
          BY <2>c, <4>1, <4>2, <4>3 DEF Holds
      <3>4. QED
        BY <2>a, <3>1, <3>2, <3>3 DEF Kept, InPlaceOrAside, Installing
    <2>4. QED
      BY <2>c, <2>d, <2>1, <2>2, <2>3 DEF OrderInv, KeptInv
  <1>4. QED
    BY <1>1, <1>2, <1>3

-----------------------------------------------------------------------------
(* Steps of the server that no call takes: rescans, the restored seed, and *)
(* the next archive.                                                       *)
LEMMA Still ==
    ASSUME IInv, pc' = pc, work' = work, chain' = chain, server' = server,
           seedRemoved' # seedRemoved => UninstallBegun
    PROVE  /\ ChainInv' /\ CallsInv' /\ WorkInv'
           /\ UninstallBegun' <=> UninstallBegun
           /\ \A i \in Installs : Registered(i)' = Registered(i)
  BY DEF IInv, ChainInv, CallsInv, WorkInv, Staged, UninstallBegun, Registered

LEMMA RescanStep ==
    ASSUME IInv, Rescan \/ RestoreSeed
    PROVE  ChainInv' /\ CallsInv' /\ WorkInv' /\ OrderInv' /\ RetiredInv' /\ KeptInv'
  <1>a. TypeOK /\ CallsInv /\ OrderInv /\ RetiredInv /\ KeptInv
    BY DEF IInv
  <1>b. /\ server = "up" /\ UNCHANGED <<work, latest, server, chain, pc, outlived>>
        /\ overlapped' = (overlapped \/ Active \ Downloads # {})
    BY DEF Rescan, RestoreSeed
  <1>c. /\ target'.package = target.package \/ (target'.package = Bundled /\ ~seedRemoved')
        /\ seedRemoved' # seedRemoved => UninstallBegun
        /\ ~seedRemoved' => Bundled \notin retired'
        /\ retired' \subseteq retired
    <2>1. CASE Rescan
      BY <1>a, <2>1 DEF Rescan, Seeded, RetiredInv
    <2>2. CASE RestoreSeed
      <3>1. seedRemoved /\ ~seedRemoved' /\ retired' = retired \ {Bundled}
        BY <2>2 DEF RestoreSeed
      <3>2. UninstallBegun
        BY <1>a, <3>1 DEF CallsInv
      <3>3. target'.package = target.package \/ target'.package = Bundled
        BY <2>2 DEF RestoreSeed
      <3>4. QED
        BY <3>1, <3>2, <3>3
    <2>3. QED
      BY <2>1, <2>2
  <1>d. /\ ChainInv' /\ CallsInv' /\ WorkInv'
        /\ UninstallBegun' <=> UninstallBegun
        /\ \A i \in Installs : Registered(i)' = Registered(i)
    BY <1>b, <1>c, Still
  <1>1. ASSUME Orderly' PROVE Orderly /\ Active \ Downloads = {}
    <2>1. ~overlapped' /\ ~outlived'
      BY <1>1 DEF Orderly
    <2>2. ~overlapped /\ Active \ Downloads = {}
      BY <2>1, <1>b, Zenon
    <2>3. QED
      BY <2>1, <2>2, <1>b DEF Orderly
  <1>2. ASSUME Orderly'
        PROVE  /\ \A i \in Installs : pc[i] \notin Installing /\ ~Registered(i)
               /\ \A u \in Uninstalls : pc[u] # "removed"
    <2>1. \A c \in Calls : c \notin Downloads => pc[c] \in Ended
      BY <1>1, <1>2 DEF Active
    <2>2. /\ \A i \in Installs : pc[i] \notin Installing
          /\ \A u \in Uninstalls : pc[u] # "removed"
      BY <2>1, Kinds DEF Ended, Installing
    <2>3. Ordered
      BY <1>1, <1>2, <1>a DEF OrderInv
    <2>4. QED
      BY <1>b, <2>2, <2>3 DEF Ordered, Recoverable, Running
  <1>3. ASSUME Orderly' PROVE Ordered' /\ Away'
    <2>1. Ordered'
      BY <1>2, <1>3, <1>b, <1>d, NobodyInstalls
    <2>2. target.package \notin retired
      BY <1>1, <1>3, <1>a DEF RetiredInv, Away
    <2>3. Away'
      BY <1>2, <1>3, <1>b, <1>c, <1>d, <2>2 DEF Away
    <2>4. QED
      BY <2>1, <2>3
  <1>4. RetiredInv'
    BY <1>3, <1>a, <1>b, <1>c DEF RetiredInv
  <1>5. ASSUME Orderly', ~UninstallBegun PROVE FALSE
    <2>1. target.form = "whole"
      BY <1>1, <1>2, <1>5, <1>a DEF KeptInv, Kept, InPlaceOrAside
    <2>2. CASE Rescan
      BY <2>1, <2>2 DEF Rescan, Seeded
    <2>3. CASE RestoreSeed
      BY <1>5, <1>a, <2>3 DEF RestoreSeed, CallsInv
    <2>4. QED
      BY <2>2, <2>3
  <1>6. QED
    BY <1>3, <1>4, <1>5, <1>d DEF OrderInv, KeptInv

LEMMA ArchiveStep ==
    ASSUME IInv, CreateArchive
    PROVE  ChainInv' /\ CallsInv' /\ WorkInv' /\ OrderInv' /\ RetiredInv' /\ KeptInv'
  <1>a. RetiredInv /\ KeptInv /\ OrderInv
    BY DEF IInv
  <1>b. /\ server = "up" /\ Active = {}
        /\ UNCHANGED <<target, work, seedRemoved, server, chain, pc, retired, outlived, overlapped>>
    BY DEF CreateArchive, history
  <1>c. /\ ChainInv' /\ CallsInv' /\ WorkInv'
        /\ UninstallBegun' <=> UninstallBegun
        /\ \A i \in Installs : Registered(i)' = Registered(i)
        /\ Orderly' <=> Orderly
    BY <1>b, Still DEF Orderly
  <1>1. ASSUME Orderly PROVE \A i \in Installs : pc[i] \notin Installing /\ ~Registered(i)
    <2>1. \A i \in Installs : pc[i] \notin Installing
      BY <1>b, Kinds DEF Active, Ended, Installing
    <2>2. QED
      BY <1>1, <1>a, <1>b, <2>1 DEF OrderInv, Ordered, Recoverable, Running
  <1>2. OrderInv'
    BY <1>1, <1>b, <1>c, NobodyInstalls DEF OrderInv
  <1>3. RetiredInv'
    BY <1>a, <1>b, <1>c DEF RetiredInv, Away, Exists
  <1>4. KeptInv'
    BY <1>a, <1>b, <1>c DEF KeptInv, Kept, InPlaceOrAside, Exists, Holds
  <1>5. QED
    BY <1>2, <1>3, <1>4, <1>c

-----------------------------------------------------------------------------
(* A crash cuts short at most one removal: of a transaction that is done   *)
(* with, or that was never registered.                                     *)
LEMMA CrashWork ==
    ASSUME IInv, Crash, NEW i \in Installs
    PROVE  /\ work'[i].made \/ work'[i] = NoWork
           /\ work'[i].marker \in {0, work[i].marker}
           /\ work'[i].marker = 0 => work'[i].previous = NoTree
           /\ work'[i].next.package \in {i, NoPackage}
           /\ work'[i].previous.package \in {work[i].previous.package, NoPackage}
           /\ \/ work'[i] = work[i]
              \/ pc[i] \in {"cleaning", "discarding"}
              \/ Discardable(i)
  <1>a. TypeOK /\ Staged(i) /\ work[i] \in Work
    BY WorkFields DEF IInv, WorkInv
  <1>1. CASE work'[i] = work[i]
    BY <1>1, <1>a DEF Staged
  <1>2. CASE work'[i] # work[i]
    <2>0. PICK j \in Installs : \E w \in Remains(work[j]) :
              /\ pc[j] \in {"cleaning", "discarding"} \/ Discardable(j)
              /\ work' = [work EXCEPT ![j] = w]
      BY <1>2 DEF Crash
    <2>1. PICK w \in Remains(work[j]) :
              /\ pc[j] \in {"cleaning", "discarding"} \/ Discardable(j)
              /\ work' = [work EXCEPT ![j] = w]
      BY <2>0
    <2>2. j = i
      BY <1>2, <2>1, <1>a DEF TypeOK
    <2>3. work[i].marker # 0 => work[i].made
      BY <1>a, Trees DEF Staged
    <2>4. /\ w \in Work /\ w.made /\ w.marker \in {0, work[i].marker}
          /\ w.marker = 0 => w.previous = NoTree
          /\ w.next.package \in {work[i].next.package, NoPackage}
          /\ w.previous.package \in {work[i].previous.package, NoPackage}
      BY <1>a, <2>1, <2>2, <2>3, Remaining
    <2>5. work'[i] = w
      BY <1>a, <2>1, <2>2, <2>4, NewWork
    <2>6. work[i].next.package \in {i, NoPackage}
      BY <1>a DEF Staged
    <2>7. QED
      BY <2>1, <2>2, <2>4, <2>5, <2>6
  <1>3. QED
    BY <1>1, <1>2

LEMMA CrashStep ==
    ASSUME IInv, Crash
    PROVE  ChainInv' /\ CallsInv' /\ WorkInv' /\ OrderInv' /\ RetiredInv' /\ KeptInv'
  <1>a. TypeOK /\ CallsInv /\ WorkInv /\ OrderInv /\ RetiredInv /\ KeptInv
    BY DEF IInv
  <1>b. /\ server' = "booting"
        /\ pc' = [c \in Calls |-> IF c \in Active THEN "lost" ELSE pc[c]]
        /\ UNCHANGED <<target, latest, seedRemoved, retired, outlived, overlapped>>
    BY DEF Crash, history
  <1>c. \A c \in Calls : /\ pc'[c] \in Ended
                         /\ pc'[c] # "lost" => pc'[c] = pc[c]
                         /\ pc'[c] = "idle" <=> pc[c] = "idle"
    BY <1>b DEF Active, Ended
  <1>d. /\ UninstallBegun' <=> UninstallBegun
        /\ Orderly' <=> Orderly
        /\ Exists(target)' <=> Exists(target)
    BY <1>b, <1>c, Kinds DEF UninstallBegun, Orderly, Exists
  <1>e. \A i \in Installs : pc'[i] \notin Installing
    BY <1>c, Kinds DEF Ended, Installing
  <1>f. \A i \in Installs : Registered(i)' => Registered(i) /\ work'[i].marker = work[i].marker
    BY CrashWork DEF Registered
  <1>1. ChainInv'
    BY <1>e DEF ChainInv, Running
  <1>2. CallsInv'
    BY <1>a, <1>b, <1>c, <1>d, Kinds DEF CallsInv
  <1>3. WorkInv'
    <2> SUFFICES ASSUME NEW i \in Installs PROVE Staged(i)'
      BY DEF WorkInv
    <2>1. pc'[i] \in Ended /\ (pc'[i] = "idle" => ~Registered(i)')
      BY <1>a, <1>c, <1>f, Kinds DEF WorkInv, Staged
    <2>2. pc'[i] \notin Running
      BY <1>e DEF Running
    <2>3. QED
      BY <2>1, <2>2, CrashWork, Trees DEF Staged, Registered, Ended
  <1>4. ASSUME Orderly, NEW i \in Installs, Registered(i)', ~Exists(target) PROVE work'[i] = work[i]
    <2>1. Registered(i) /\ Ordered
      BY <1>4, <1>a, <1>f DEF OrderInv
    <2>2. pc[i] \notin {"cleaning", "discarding"}
      BY <2>1, <1>4 DEF Ordered, Recoverable
    <2>3. ~Discardable(i)
      BY <2>1, <1>4 DEF Discardable, Registered
    <2>4. QED
      BY <2>2, <2>3, CrashWork
  <1>5. ASSUME Orderly PROVE Ordered'
    <2>1. Ordered
      BY <1>5, <1>a DEF OrderInv
    <2>2. ASSUME NEW i \in Installs, Registered(i)' PROVE Recoverable(i)'
      <3>1. work'[i].marker = latest' /\ \A j \in Installs : Registered(j)' => j = i
        BY <2>1, <2>2, <1>b, <1>f DEF Ordered, Recoverable
      <3>2. Exists(target) \/ Exists(work'[i].previous) \/ work'[i].next.form = "whole"
        BY <2>1, <2>2, <1>4, <1>5, <1>f DEF Ordered, Recoverable
      <3>3. QED
        BY <3>1, <3>2, <1>b, <1>d, <1>e DEF Recoverable, Exists, Installing
    <2>3. QED
      BY <2>2, <1>b, <1>e DEF Ordered, Installing
  <1>6. ASSUME Orderly PROVE Away'
    <2>1. Away
      BY <1>6, <1>a DEF RetiredInv
    <2>2. \A u \in Uninstalls : pc'[u] # "removed"
      BY <1>c, Kinds DEF Ended
    <2>3. QED
      BY <2>1, <2>2, <1>4, <1>6, <1>b, <1>d, <1>f DEF Away
  <1>7. RetiredInv'
    <2>1. \A i \in Installs : pc'[i] = "idle" => i \notin retired
      BY <1>a, <1>c, Kinds DEF RetiredInv
    <2>2. QED
      BY <2>1, <1>6, <1>a, <1>b, <1>d, <1>e DEF RetiredInv
  <1>8. ASSUME Orderly, ~UninstallBegun PROVE Kept'
    <2>1. Kept
      BY <1>8, <1>a DEF KeptInv
    <2>2. \A d \in Downloads : pc'[d] = "done" => pc[d] = "done"
      BY <1>c, Kinds
    <2>3. InPlaceOrAside'
      <3>1. CASE target.form = "whole"
        BY <3>1, <1>b DEF InPlaceOrAside
      <3>2. CASE target.form # "whole"
        <4>1. PICK i \in Installs : ~Exists(target) /\ Registered(i) /\ work[i].previous.form = "whole"
          BY <3>2, <2>1 DEF Kept, InPlaceOrAside
        <4>2. pc[i] \notin {"cleaning", "discarding"}
          BY <4>1, <1>8, <1>a DEF OrderInv, Ordered, Recoverable
        <4>3. ~Discardable(i)
          BY <4>1 DEF Discardable, Registered
        <4>4. work'[i] = work[i]
          BY <4>2, <4>3, CrashWork
        <4>5. QED
          BY <4>1, <4>4, <1>d DEF InPlaceOrAside, Registered
      <3>3. QED
        BY <3>1, <3>2
    <2>4. Original \notin retired => \A j \in Installs : work'[j].previous.package \in {Original, NoPackage}
      BY <2>1, CrashWork DEF Kept
    <2>5. (target.form = "whole" => Holds(target))'
      BY <2>1, <2>2, <1>b DEF Kept, Holds
    <2>6. \A j \in Installs : (Registered(j) /\ ~Exists(target) => Holds(work[j].previous))'
      BY <2>1, <2>2, <1>4, <1>8, <1>d, <1>f DEF Kept, Holds
    <2>7. QED
      BY <2>1, <2>3, <2>4, <2>5, <2>6, <1>b, <1>e DEF Kept, Installing
  <1>9. QED
    BY <1>1, <1>2, <1>3, <1>5, <1>7, <1>8, <1>d DEF OrderInv, KeptInv

-----------------------------------------------------------------------------
(* A step of a boot.                                                       *)
LEMMA Booting ==
    ASSUME IInv, server = "booting", pc' = pc, chain' = chain, seedRemoved' = seedRemoved,
           server' = "booting" \/ server' = "refused" \/ server' = "up"
    PROVE  /\ ChainInv' /\ CallsInv' /\ (UninstallBegun' <=> UninstallBegun)
           /\ \A i \in Installs : pc'[i] \notin Installing
           /\ \A u \in Uninstalls : pc'[u] # "removed"
           /\ \A j \in Installs : pc'[j] \in Installing \cup {"idle"} => j \notin retired
           /\ NoPackage \notin retired /\ (~seedRemoved' => Bundled \notin retired)
           /\ Orderly => Ordered /\ Away
           /\ Orderly /\ ~UninstallBegun => Kept
  <1>1. \A c \in Calls : pc[c] \in Ended
    BY DEF IInv, CallsInv
  <1>2. /\ \A i \in Installs : pc'[i] \notin Installing
        /\ \A u \in Uninstalls : pc'[u] # "removed"
    BY <1>1, Kinds DEF Ended, Installing
  <1>3. ChainInv' /\ CallsInv' /\ (UninstallBegun' <=> UninstallBegun)
    BY <1>1, <1>2 DEF IInv, ChainInv, Running, CallsInv, UninstallBegun
  <1>4. QED
    BY <1>2, <1>3 DEF IInv, OrderInv, RetiredInv, KeptInv

LEMMA RecoverStep ==
    ASSUME IInv, NEW i \in Installs, Recover(i)
    PROVE  ChainInv' /\ CallsInv' /\ WorkInv' /\ OrderInv' /\ RetiredInv' /\ KeptInv'
  <1>a. TypeOK /\ WorkInv /\ Staged(i)
    BY DEF IInv, WorkInv
  <1>b. /\ server = "booting" /\ work[i].marker = latest /\ ~Exists(target)
        /\ UNCHANGED <<latest, seedRemoved, server, chain, pc, retired, outlived, overlapped>>
    BY DEF Recover, history
  <1>c. Registered(i) /\ latest # 0
    BY <1>a, <1>b DEF TypeOK, Registered
  <1>d. Orderly' <=> Orderly
    BY <1>b DEF Orderly
  <1>e. /\ \A j \in Installs : j # i => work'[j] = work[j]
        /\ work'[i].made = work[i].made /\ work'[i].marker = work[i].marker
        /\ \/ /\ Exists(work[i].previous) /\ target' = work[i].previous
              /\ work'[i].previous = NoTree /\ work'[i].next = work[i].next
           \/ /\ ~Exists(work[i].previous) /\ Exists(work[i].next) /\ target' = work[i].next
              /\ work'[i].previous = work[i].previous /\ work'[i].next = NoTree
    <2>1. CASE /\ Exists(work[i].previous) /\ target' = work[i].previous
               /\ work' = [work EXCEPT ![i].previous = NoTree]
      <3>1. work' = [work EXCEPT ![i] = [work[i] EXCEPT !.previous = NoTree]]
        BY <2>1
      <3>2. work'[i] = [work[i] EXCEPT !.previous = NoTree] /\ \A j \in Installs : j # i => work'[j] = work[j]
        BY <1>a, <3>1, Trees, WorkFields, NewWork
      <3>3. QED
        BY <1>a, <2>1, <3>2, WorkFields DEF Work
    <2>2. CASE /\ ~Exists(work[i].previous) /\ Exists(work[i].next) /\ target' = work[i].next
               /\ work' = [work EXCEPT ![i].next = NoTree]
      <3>1. work' = [work EXCEPT ![i] = [work[i] EXCEPT !.next = NoTree]]
        BY <2>2
      <3>2. work'[i] = [work[i] EXCEPT !.next = NoTree] /\ \A j \in Installs : j # i => work'[j] = work[j]
        BY <1>a, <3>1, Trees, WorkFields, NewWork
      <3>3. QED
        BY <1>a, <2>2, <3>2, WorkFields DEF Work
    <2>3. QED
      BY <2>1, <2>2 DEF Recover
  <1>f. Exists(target)' /\ \A j \in Installs : Registered(j)' = Registered(j)
    BY <1>e DEF Exists, Registered
  <1>g. /\ ChainInv' /\ CallsInv' /\ (UninstallBegun' <=> UninstallBegun)
        /\ \A j \in Installs : pc'[j] \notin Installing
        /\ \A u \in Uninstalls : pc'[u] # "removed"
        /\ \A j \in Installs : pc'[j] \in Installing \cup {"idle"} => j \notin retired
        /\ NoPackage \notin retired /\ (~seedRemoved' => Bundled \notin retired)
        /\ Orderly => Ordered /\ Away
        /\ Orderly /\ ~UninstallBegun => Kept
    BY <1>b, Booting
  <1>1. WorkInv'
    <2>1. Staged(i)'
      BY <1>a, <1>b, <1>c, <1>e, <1>f, <1>g, Trees DEF Staged, Registered, Running, Installing
    <2>2. QED
      BY <1>a, <1>b, <1>e, <2>1, OthersStaged DEF OnlyOf
  <1>2. ASSUME Orderly PROVE Ordered' /\ Away'
    <2>1. Ordered /\ Away
      BY <1>2, <1>g
    <2>2. \A j \in Installs : Registered(j)' => j = i
      BY <1>c, <1>f, <2>1 DEF Ordered, Recoverable
    <2>3. Recoverable(i)'
      BY <1>b, <1>e, <1>f, <1>g, <2>2 DEF Recoverable, Installing
    <2>4. Ordered'
      BY <1>b, <1>f, <1>g, <2>2, <2>3 DEF Ordered, Installing
    <2>5. target'.package \notin retired
      <3>1. work[i].previous.package \notin retired /\ i \notin retired
        BY <1>b, <1>c, <2>1 DEF Away
      <3>2. work[i].next.package \in {i, NoPackage}
        BY <1>a DEF Staged
      <3>3. QED
        BY <1>e, <1>g, <3>1, <3>2
    <2>6. Away'
      BY <1>b, <1>f, <1>g, <2>5 DEF Away
    <2>7. QED
      BY <2>4, <2>6
  <1>3. RetiredInv'
    BY <1>2, <1>b, <1>d, <1>g DEF RetiredInv
  <1>4. ASSUME Orderly, ~UninstallBegun PROVE Kept'
    <2>1. Kept /\ Ordered
      BY <1>4, <1>g
    <2>2. work[i].previous.form = "whole"
      BY <2>1, <1>b, <1>c DEF Kept, InPlaceOrAside, Exists, Ordered, Recoverable
    <2>3. target' = work[i].previous /\ work'[i].previous = NoTree
      BY <2>2, <1>e DEF Exists
    <2>4. Original \notin retired =>
            /\ target'.package \in {Original, NoPackage}
            /\ \A j \in Installs : work'[j].previous.package \in {Original, NoPackage}
      BY <2>1, <2>3, <1>e, Trees DEF Kept
    <2>5. Holds(target)'
      BY <2>1, <2>3, <1>b, <1>c DEF Kept, Holds
    <2>6. QED
      BY <2>2, <2>3, <2>4, <2>5, <1>b, <1>f, <1>g DEF Kept, InPlaceOrAside, Installing
  <1>5. QED
    BY <1>1, <1>2, <1>3, <1>4, <1>d, <1>g DEF OrderInv, KeptInv

LEMMA DiscardStep ==
    ASSUME IInv, NEW i \in Installs, RecoverDiscards(i)
    PROVE  ChainInv' /\ CallsInv' /\ WorkInv' /\ OrderInv' /\ RetiredInv' /\ KeptInv'
  <1>a. TypeOK /\ WorkInv
    BY DEF IInv
  <1>b. /\ server = "booting" /\ (work[i].marker = 0 \/ Exists(target))
        /\ UNCHANGED <<target, latest, seedRemoved, server, chain, pc, retired, outlived, overlapped>>
    BY DEF RecoverDiscards, Discardable, history
  <1>c. work'[i] = NoWork /\ \A j \in Installs : j # i => work'[j] = work[j]
    BY <1>a, Trees, NewWork DEF RecoverDiscards
  <1>d. /\ Orderly' <=> Orderly
        /\ Exists(target)' <=> Exists(target)
        /\ \A j \in Installs : Registered(j)' => Registered(j) /\ work'[j] = work[j]
        /\ ~Exists(target) => \A j \in Installs : Registered(j) => work'[j] = work[j]
    BY <1>b, <1>c, Trees DEF Orderly, Exists, Registered
  <1>e. /\ ChainInv' /\ CallsInv' /\ (UninstallBegun' <=> UninstallBegun)
        /\ \A j \in Installs : pc'[j] \notin Installing
        /\ \A u \in Uninstalls : pc'[u] # "removed"
        /\ \A j \in Installs : pc'[j] \in Installing \cup {"idle"} => j \notin retired
        /\ NoPackage \notin retired /\ (~seedRemoved' => Bundled \notin retired)
        /\ Orderly => Ordered /\ Away
        /\ Orderly /\ ~UninstallBegun => Kept
    BY <1>b, Booting
  <1>1. WorkInv'
    <2>1. Staged(i)'
      BY <1>c, <1>e, Trees DEF Staged, Registered, Running, Installing
    <2>2. QED
      BY <1>a, <1>b, <1>c, <2>1, OthersStaged DEF OnlyOf
  <1>2. ASSUME Orderly PROVE Ordered' /\ Away'
    <2>1. Ordered /\ Away
      BY <1>2, <1>e
    <2>2. \A j \in Installs : Registered(j)' => Recoverable(j)'
      BY <1>b, <1>d, <2>1 DEF Ordered, Recoverable
    <2>3. Ordered'
      BY <1>b, <1>e, <2>2 DEF Ordered, Installing
    <2>4. Away'
      BY <1>b, <1>d, <1>e, <2>1 DEF Away
    <2>5. QED
      BY <2>3, <2>4
  <1>3. RetiredInv'
    BY <1>2, <1>b, <1>d, <1>e DEF RetiredInv
  <1>4. ASSUME Orderly, ~UninstallBegun PROVE Kept'
    <2>1. Kept
      BY <1>4, <1>e
    <2>2. InPlaceOrAside'
      BY <2>1, <1>b, <1>d DEF Kept, InPlaceOrAside, Registered
    <2>3. Original \notin retired => \A j \in Installs : work'[j].previous.package \in {Original, NoPackage}
      BY <2>1, <1>c, Trees DEF Kept
    <2>4. QED
      BY <2>1, <2>2, <2>3, <1>b, <1>d, <1>e DEF Kept, Holds, Installing
  <1>5. QED
    BY <1>1, <1>2, <1>3, <1>4, <1>d, <1>e DEF OrderInv, KeptInv

(* A registered transaction is of the latest archive and has a tree.       *)
LEMMA RefuseStep ==
    ASSUME IInv, NEW i \in Installs, RecoverRefuses(i)
    PROVE  ChainInv' /\ CallsInv' /\ WorkInv' /\ OrderInv' /\ RetiredInv' /\ KeptInv'
  <1>a. WorkInv /\ RetiredInv
    BY DEF IInv
  <1>b. /\ server = "booting" /\ server' = "refused" /\ Registered(i)
        /\ UNCHANGED <<target, work, latest, seedRemoved, chain, pc, retired, outlived, overlapped>>
    BY DEF RecoverRefuses, disk, history, Registered
  <1>1. ~Orderly
    <2> SUFFICES ASSUME Orderly PROVE FALSE
      OBVIOUS
    <2>1. Recoverable(i)
      BY <1>b, Booting DEF IInv, OrderInv, Ordered
    <2>2. QED
      BY <2>1 DEF RecoverRefuses, Recoverable, Exists
  <1>2. ~Orderly' /\ ChainInv' /\ CallsInv'
    BY <1>1, <1>b, Booting DEF Orderly
  <1>3. WorkInv' /\ RetiredInv'
    BY <1>a, <1>b, <1>2 DEF WorkInv, Staged, Registered, RetiredInv
  <1>4. QED
    BY <1>2, <1>3 DEF OrderInv, KeptInv

LEMMA BootEndsStep ==
    ASSUME IInv, BootEnds
    PROVE  ChainInv' /\ CallsInv' /\ WorkInv' /\ OrderInv' /\ RetiredInv' /\ KeptInv'
  <1>a. WorkInv
    BY DEF IInv
  <1>b. /\ server = "booting" /\ server' = "up" /\ target' = Seeded
        /\ UNCHANGED <<work, latest, seedRemoved, chain, pc, retired, outlived, overlapped>>
    BY DEF BootEnds, history
  <1>c. \A i \in Installs : ~Registered(i) /\ ~Registered(i)'
    BY <1>a, <1>b, Trees DEF BootEnds, WorkInv, Staged, Registered
  <1>d. Orderly' <=> Orderly
    BY <1>b DEF Orderly
  <1>e. /\ ChainInv' /\ CallsInv' /\ (UninstallBegun' <=> UninstallBegun)
        /\ \A j \in Installs : pc'[j] \notin Installing
        /\ \A u \in Uninstalls : pc'[u] # "removed"
        /\ \A j \in Installs : pc'[j] \in Installing \cup {"idle"} => j \notin retired
        /\ NoPackage \notin retired /\ (~seedRemoved' => Bundled \notin retired)
        /\ Orderly => Ordered /\ Away
        /\ Orderly /\ ~UninstallBegun => Kept
    BY <1>b, Booting
  <1>1. WorkInv'
    BY <1>a, <1>b DEF WorkInv, Staged, Registered
  <1>2. ASSUME Orderly PROVE Ordered' /\ Away'
    <2>1. target'.package \notin retired
      BY <1>2, <1>b, <1>e DEF Seeded, Away
    <2>2. QED
      BY <1>b, <1>c, <1>e, <2>1, NobodyInstalls DEF Away
  <1>3. RetiredInv'
    BY <1>2, <1>b, <1>d, <1>e DEF RetiredInv
  <1>4. ASSUME Orderly, ~UninstallBegun PROVE Kept'
    <2>1. Kept /\ target.form = "whole"
      BY <1>4, <1>c, <1>e DEF Kept, InPlaceOrAside
    <2>2. target' = target
      BY <2>1, <1>b DEF Seeded
    <2>3. QED
      BY <2>1, <2>2, <1>b, <1>c, <1>e DEF Kept, InPlaceOrAside, Holds, Installing
  <1>5. QED
    BY <1>1, <1>2, <1>3, <1>4, <1>d, <1>e DEF OrderInv, KeptInv

-----------------------------------------------------------------------------
LEMMA StutterStep ==
    ASSUME IInv, Quiescent \/ UNCHANGED vars
    PROVE  IInv'
  <1>1. /\ UNCHANGED <<target, work, latest, seedRemoved, registered, server, chain, pc>>
        /\ UNCHANGED <<crashes, failures, retired, outlived, overlapped>>
    BY DEF Quiescent, vars, disk, budget, history
  <1>2. /\ \A i \in Installs : Registered(i)' = Registered(i)
        /\ Exists(target)' = Exists(target)
        /\ Orderly' = Orderly /\ UninstallBegun' = UninstallBegun
    BY <1>1 DEF Registered, Exists, Orderly, UninstallBegun
  <1>3. TypeOK' /\ ChainInv' /\ CallsInv' /\ WorkInv'
    BY <1>1, <1>2 DEF IInv, TypeOK, ChainInv, CallsInv, WorkInv, Staged, Registered
  <1>4. OrderInv'
    BY <1>1, <1>2 DEF IInv, OrderInv, Ordered, Recoverable, Exists
  <1>5. RetiredInv' /\ KeptInv'
    BY <1>1, <1>2 DEF IInv, RetiredInv, Away, KeptInv, Kept, InPlaceOrAside, Holds
  <1>6. QED
    BY <1>3, <1>4, <1>5 DEF IInv

LEMMA InitInv == Init => IInv
  <1> SUFFICES ASSUME Init PROVE IInv
    OBVIOUS
  <1>1. \A c \in Calls : pc[c] = "idle"
    BY DEF Init
  <1>2. \A i \in Installs : work[i] = NoWork /\ ~Registered(i)
    BY Trees DEF Init, Registered
  <1>3. /\ target \in Tree /\ target.package = Original /\ target.form = "whole"
        /\ server = "up" /\ retired = {} /\ ~seedRemoved
    BY Trees DEF Init, Tree, NoTree, Packages
  <1>4. TypeOK
    <2>1. work \in [Installs -> Work] /\ pc \in [Calls -> Labels]
      BY Trees DEF Init, Labels, Ended
    <2>2. chain \in Seq(Installs) /\ latest \in 1..MaxArchives
      BY BoundsAssumption DEF Init
    <2>3. crashes \in 0..MaxCrashes /\ failures \in 0..MaxFailures
      BY BoundsAssumption DEF Init
    <2>4. QED
      BY <1>3, <2>1, <2>2, <2>3 DEF Init, TypeOK, Labels
  <1>5. ChainInv /\ CallsInv
    BY <1>1, <1>3, Kinds DEF ChainInv, CallsInv, Running, Installing, Ended, UninstallBegun
  <1>6. WorkInv
    BY <1>1, <1>2, Trees, Kinds DEF WorkInv, Staged, Running, Installing
  <1>7. OrderInv
    BY <1>1, <1>2, <1>3, Kinds DEF OrderInv, Ordered, Installing
  <1>8. RetiredInv
    BY <1>1, <1>2, <1>3, Kinds DEF RetiredInv, Away
  <1>9. KeptInv
    BY <1>1, <1>2, <1>3, Kinds, Trees DEF KeptInv, Kept, InPlaceOrAside, Holds
  <1>10. QED
    BY <1>4, <1>5, <1>6, <1>7, <1>8, <1>9 DEF IInv

LEMMA NextInv == IInv /\ [Next]_vars => IInv'
  <1> SUFFICES ASSUME IInv, [Next]_vars PROVE IInv'
    OBVIOUS
  <1> DEFINE Rest == ChainInv' /\ CallsInv' /\ WorkInv' /\ OrderInv' /\ RetiredInv' /\ KeptInv'
  <1>1. TypeOK'
    BY TypeStep
  <1>2. ASSUME NEW i \in Installs, Install(i) PROVE Rest
    <2>1. \/ InstallCall(i) \/ Staging(i) \/ MoveAside(i) \/ Publish(i) \/ Catch(i)
          \/ EndInstall(i)
      BY <1>2 DEF Install, Staging
    <2>2. QED
      BY <2>1, InstallCallStep, StagingStep, MoveAsideStep, PublishStep, CatchStep, EndInstallStep
  <1>3. ASSUME NEW u \in Uninstalls,
               \/ UninstallCall(u) \/ RemoveSome(u) \/ RemoveLast(u)
               \/ UninstallEnds(u) \/ UninstallFails(u)
        PROVE  Rest
    BY <1>3, UninstallStep
  <1>4. ASSUME NEW d \in Downloads, DownloadCall(d) \/ MakeVault(d) \/ CommitFile(d)
        PROVE  Rest
    BY <1>4, DownloadStep
  <1>5. CASE Rescan \/ RestoreSeed \/ CreateArchive \/ Crash
    BY <1>1, <1>5, RescanStep, ArchiveStep, CrashStep DEF IInv
  <1>6. CASE Boot
    <2>1. Rest
      BY <1>6, BootEndsStep, RecoverStep, DiscardStep, RefuseStep DEF Boot
    <2>2. QED
      BY <1>1, <2>1 DEF IInv
  <1>7. CASE Quiescent \/ UNCHANGED vars
    BY <1>7, StutterStep
  <1>8. QED
    BY <1>1, <1>2, <1>3, <1>4, <1>5, <1>6, <1>7 DEF IInv, Next

(* The conjunction of the invariants above is an inductive invariant.      *)
THEOREM Inductive == Spec => []IInv
  BY InitInv, NextInv, PTL DEF Spec

(* Every variable keeps its type: trees, transactions, the chain of calls. *)
THEOREM TypeCorrect == Spec => []TypeOK
  <1>1. IInv => TypeOK
    BY DEF IInv
  <1>2. QED
    BY <1>1, Inductive, PTL

(* A plugin that nobody uninstalls is in place, or set aside where         *)
(* recoverPluginInstallations takes it back.                               *)
THEOREM PluginIsNeverLost == Spec => []NeverLost
  <1>1. IInv => NeverLost
    BY DEF IInv, OrderInv, Ordered, Recoverable, KeptInv, Kept, InPlaceOrAside, NeverLost
  <1>2. QED
    BY <1>1, Inductive, PTL

(* Until an installation renames its tree into place, failures, crashes    *)
(* and recoveries put back nothing but the package that was installed.     *)
THEOREM NothingTouchedEarly == Spec => []UntouchedUntilCommitted
  <1>1. IInv => UntouchedUntilCommitted
    BY DEF IInv, KeptInv, Kept, UntouchedUntilCommitted
  <1>2. QED
    BY <1>1, Inductive, PTL

(* What an update replaced or an uninstall removed does not come back,     *)
(* neither from a transaction that recovery takes nor from the bundle.     *)
THEOREM RetiredIsGone == Spec => []RetiredStaysAway
  <1>1. IInv => RetiredStaysAway
    BY DEF IInv, RetiredInv, Away, RetiredStaysAway
  <1>2. QED
    BY <1>1, Inductive, PTL

(* Files of completed downloads are in the vault of what is installed,     *)
(* through updates, failed updates and recoveries.                         *)
THEOREM DownloadsAreKept == Spec => []VaultKept
  <1>1. IInv => VaultKept
    BY DEF IInv, KeptInv, Kept, Holds, VaultKept
  <1>2. QED
    BY <1>1, Inductive, PTL

(* recoverPluginInstallations never throws for what the commands leave.    *)
THEOREM RecoveryNeverRefuses == Spec => []BootSucceeds
  <1>1. IInv => BootSucceeds
    BY DEF IInv, OrderInv, Ordered, BootSucceeds
  <1>2. QED
    BY <1>1, Inductive, PTL

-----------------------------------------------------------------------------
(* The downloads into the vault of a plugin (PluginVault).                 *)

Present == {d \in Dests : vault[latestVersion][d] # None}

(* A batch that commits does so into the latest version.                   *)
SourceInv == \A b \in Committing : source[b] = latestVersion

(* What a batch still has to fetch or commit.                              *)
Unfinished == {"asking", "fetching", "look", "check", "rename"}
TodoInv ==
    \A b \in Batches :
        /\ todo[b] \subseteq misses[b] /\ misses[b] \subseteq ToSet(Wants[b])
        /\ stands[b] \in Unfinished => todo[b] # {}
        /\ stands[b] \in {"asking", "waiting", "measure"} => todo[b] = misses[b]

(* The files that are there or may come without another look at the quota. *)
Checked(b) == stands[b] = "rename" \/ (stands[b] = "check" /\ existing[b] = 1)
Claimed ==
    {d \in Dests :
        vault[latestVersion][d] # None \/ \E b \in Batches : Checked(b) /\ Current(b) = d}
ClaimsInv == Cardinality(Claimed) <= Quota + Cardinality(Batches) - 1

(* A batch whose commit met nothing else is the only one to commit; it has *)
(* room for the rest of its files, and no file before it was measured.     *)
FilesInv ==
    \A b \in Batches \ disturbed : stands[b] \notin {"look", "check", "rename", "done"} =>
        \A v \in 1..(Versions + 1) : \A d \in Dests : vault[v][d] # b
AloneInv ==
    \A b \in Committing \ disturbed :
        /\ Committing = {b}
        /\ stands[b] # "measure" => Cardinality(Present) + Cardinality(todo[b]) <= Quota

VaultInv == VaultTypeOK /\ SourceInv /\ TodoInv /\ ClaimsInv /\ FilesInv /\ AloneInv

-----------------------------------------------------------------------------
(* The vault has finitely many destinations.                               *)
LEMMA FiniteDests ==
    ASSUME NEW S \in SUBSET Dests
    PROVE  IsFiniteSet(S) /\ Cardinality(S) \in Nat
  <1> DEFINE Sets == {ToSet(Wants[b]) : b \in Batches}
             files == [b \in Batches |-> ToSet(Wants[b])]
  <1>1. ASSUME NEW b \in Batches PROVE IsFiniteSet(ToSet(Wants[b]))
    <2> DEFINE n == Len(Wants[b])
    <2>1. Wants[b] \in Seq(Dests) /\ n \in Nat /\ DOMAIN Wants[b] = 1..n
      BY VaultAssumption
    <2>2. IsFiniteSet(1..n)
      BY <2>1, FS_Interval
    <2>3. Wants[b] \in Surjection(1..n, ToSet(Wants[b]))
      BY <2>1 DEF Surjection, ToSet
    <2>4. QED
      BY <2>2, <2>3, FS_Surjection
  <1>2. files \in Surjection(Batches, Sets)
    BY DEF Surjection
  <1>3. IsFiniteSet(Sets)
    BY <1>2, FS_Surjection, VaultAssumption
  <1>4. IsFiniteSet(UNION Sets)
    BY <1>1, <1>3, FS_UNION
  <1>5. Dests = UNION Sets
    BY DEF Dests
  <1>6. QED
    BY <1>4, <1>5, FS_Subset, FS_CardinalityType

(* The first request whose file is still to be fetched or committed.       *)
LEMMA CurrentIsToDo ==
    ASSUME NEW b \in Batches, todo[b] \subseteq ToSet(Wants[b]), todo[b] # {}
    PROVE  Current(b) \in todo[b] /\ Current(b) \in Dests
  <1> DEFINE Ks == {k \in DOMAIN Wants[b] : Wants[b][k] \in todo[b]}
             IsFirst(k) == Wants[b][k] \in todo[b] /\ \A j \in 1..(k - 1) : Wants[b][j] \notin todo[b]
  <1>1. Wants[b] \in Seq(Dests) /\ DOMAIN Wants[b] = 1..Len(Wants[b]) /\ Len(Wants[b]) \in Nat
    BY VaultAssumption
  <1>2. Ks \subseteq Nat /\ Ks # {}
    BY <1>1 DEF ToSet
  <1>3. PICK k \in Ks : \A j \in Ks : <<j, k>> \notin OpToRel(<, Nat)
    BY <1>2, NatLessThanWellFounded, WFMin
  <1>4. \A j \in Ks : ~(j < k)
    BY <1>2, <1>3 DEF OpToRel
  <1>5. IsFirst(k) /\ k \in DOMAIN Wants[b]
    BY <1>1, <1>4
  <1>6. (CHOOSE i \in DOMAIN Wants[b] : IsFirst(i)) \in Ks
    BY <1>5
  <1>7. Current(b) \in todo[b]
    BY <1>6 DEF Current
  <1>8. ToSet(Wants[b]) \subseteq Dests
    BY DEF Dests
  <1>9. QED
    BY <1>7, <1>8

LEMMA SameCurrent ==
    ASSUME NEW b \in Batches, todo'[b] = todo[b]
    PROVE  Current(b)' = Current(b)
  BY DEF Current

(* The destinations of several batches are at most one for each.           *)
LEMMA OneEach ==
    /\ IsFiniteSet({Current(b)' : b \in Batches})
           /\ Cardinality({Current(b)' : b \in Batches}) <= Cardinality(Batches)
           /\ Cardinality({Current(b)' : b \in Batches}) \in Nat
           /\ Cardinality(Batches) \in Nat \ {0}
  <1> DEFINE T == {Current(b)' : b \in Batches}
             f == [b \in Batches |-> Current(b)']
  <1>1. f \in Surjection(Batches, T)
    BY DEF Surjection
  <1>2. IsFiniteSet(T) /\ Cardinality(T) <= Cardinality(Batches)
    BY <1>1, FS_Surjection, VaultAssumption
  <1>3. Cardinality(Batches) \in Nat /\ Cardinality(Batches) # 0
    BY FS_CardinalityType, FS_EmptySet, VaultAssumption
  <1>4. QED
    BY <1>2, <1>3, FS_CardinalityType

Stages == {"idle", "asking", "fetching", "waiting", "measure", "look", "check", "rename", "done", "failed"}
LEMMA BatchMoves ==
    ASSUME VaultTypeOK, NEW b \in Batches, NEW stage \in Stages, BatchGoto(b, stage)
    PROVE  /\ stands' \in [Batches -> Stages] /\ stands'[b] = stage
           /\ \A c \in Batches : c # b => stands'[c] = stands[c]
  BY DEF VaultTypeOK, BatchGoto, Stages

LEMMA ClaimsShrink ==
    ASSUME ClaimsInv, Claimed' \subseteq Claimed
    PROVE  ClaimsInv'
  <1>1. IsFiniteSet(Claimed) /\ Cardinality(Claimed) \in Nat
    BY FiniteDests DEF Claimed
  <1>2. Cardinality(Claimed') <= Cardinality(Claimed) /\ Cardinality(Claimed') \in Nat
    BY <1>1, FS_Subset, FS_CardinalityType
  <1>3. Cardinality(Batches) \in Nat /\ Quota \in Nat
    BY OneEach, VaultAssumption
  <1>4. QED
    BY <1>1, <1>2, <1>3 DEF ClaimsInv

LEMMA VaultInitInv ==
    ASSUME VaultInit
    PROVE  VaultInv
  <1>1. VaultTypeOK
    <2>1. Cardinality({}) = 0
      BY FS_EmptySet
    <2>2. Versions \in Nat /\ MaxPending \in Nat
      BY VaultAssumption
    <2>3. 1 \in 1..(Versions + 1) /\ 1 \in 1..1 /\ 0 \in 0..1
      BY <2>2
    <2>4. vault \in [1..(Versions + 1) -> [Dests -> Batches \cup {None}]]
      BY DEF VaultInit
    <2>5. /\ source \in [Batches -> 1..latestVersion] /\ existing \in [Batches -> 0..1]
          /\ {misses, todo} \subseteq [Batches -> SUBSET Dests]
      BY <2>3 DEF VaultInit
    <2>6. pending = {c \in Batches : stands[c] = "asking"} /\ pending = {}
      BY DEF VaultInit
    <2>7. Cardinality(pending) <= MaxPending
      BY <2>1, <2>2, <2>6
    <2>8. /\ latestVersion \in 1..(Versions + 1) /\ enabled \in BOOLEAN /\ remembered \in BOOLEAN
          /\ stands \in [Batches -> Stages]
          /\ staging \subseteq Batches \X Dests /\ disturbed \subseteq Batches
      BY <2>3 DEF VaultInit, Stages
    <2>9. QED
      BY <2>4, <2>5, <2>6, <2>7, <2>8 DEF VaultTypeOK, Stages
  <1>2. Versions \in Nat /\ 1 \in 1..(Versions + 1) /\ latestVersion = 1
    BY VaultAssumption DEF VaultInit
  <1>3. SourceInv /\ TodoInv /\ FilesInv /\ AloneInv
    BY <1>2, VaultAssumption DEF VaultInit, SourceInv, TodoInv, FilesInv, AloneInv, Committing, Unfinished
  <1>4. Claimed = {}
    BY <1>2 DEF VaultInit, Claimed, Checked
  <1>5. ClaimsInv
    BY <1>4, FS_EmptySet, OneEach, VaultAssumption DEF ClaimsInv
  <1>6. QED
    BY <1>1, <1>3, <1>5 DEF VaultInv

(* What a step outside the commits does to the invariant: nothing.         *)
LEMMA Elsewhere ==
    ASSUME VaultInv, VaultTypeOK',
           UNCHANGED <<vault, latestVersion, disturbed>>,
           \A b \in Batches :
               \/ /\ stands'[b] = stands[b] /\ todo'[b] = todo[b] /\ source'[b] = source[b]
                  /\ existing'[b] = existing[b] /\ misses'[b] = misses[b]
               \/ /\ stands[b] \in {"idle", "asking", "fetching", "waiting"}
                  /\ stands'[b] \in {"asking", "fetching", "waiting", "done", "failed"}
    PROVE  SourceInv' /\ ClaimsInv' /\ FilesInv' /\ AloneInv'
  <1>0. SourceInv /\ TodoInv /\ ClaimsInv /\ FilesInv /\ AloneInv
    BY DEF VaultInv
  <1>1. Committing' = Committing
    BY DEF Committing
  <1>2. SourceInv' /\ FilesInv'
    BY <1>0, <1>1 DEF SourceInv, FilesInv, Committing
  <1>3. AloneInv'
    <2>1. \A b \in Committing : stands'[b] = stands[b] /\ todo'[b] = todo[b]
      BY DEF Committing
    <2>2. Present' = Present
      BY DEF Present
    <2>3. QED
      BY <1>0, <1>1, <2>1, <2>2 DEF AloneInv
  <1>4. Claimed' \subseteq Claimed
    <2>1. \A b \in Batches : Checked(b)' => Checked(b) /\ todo'[b] = todo[b]
      BY DEF Checked
    <2>2. \A b \in Batches : Checked(b)' => Checked(b) /\ Current(b)' = Current(b)
      BY <2>1, SameCurrent
    <2>3. QED
      BY <2>2 DEF Claimed
  <1>5. QED
    BY <1>0, <1>2, <1>3, <1>4, ClaimsShrink

(* Requests, tickets and transfers.                                        *)
LEMMA DownloadInv ==
    ASSUME VaultInv, NEW b \in Batches,
           \/ RequestDownloads(b) \/ Fetch(b) \/ FetchFails(b)
           \/ \E approved, remember \in BOOLEAN : Decide(b, approved, remember)
    PROVE  VaultInv'
  <1>0. VaultTypeOK /\ SourceInv /\ TodoInv
    BY DEF VaultInv
  <1>1. IsFiniteSet(pending) /\ Cardinality(pending) \in Nat /\ Cardinality(pending) <= MaxPending
    BY <1>0, FS_Subset, FS_CardinalityType, VaultAssumption DEF VaultTypeOK
  <1>2. CASE RequestDownloads(b)
    <2> DEFINE missing == {d \in ToSet(Wants[b]) : vault[latestVersion][d] = None}
    <2>1. PICK stage \in {"waiting", "fetching", "asking", "failed"} :
            /\ BatchGoto(b, stage)
            /\ stage \in {"asking", "fetching"} => missing # {}
            /\ IF stage = "asking" THEN Cardinality(pending) < MaxPending /\ pending' = pending \cup {b}
               ELSE pending' = pending
      BY <1>2 DEF RequestDownloads
    <2>2. /\ stands' \in [Batches -> Stages] /\ stands'[b] = stage /\ stands[b] = "idle"
          /\ \A c \in Batches : c # b => stands'[c] = stands[c]
      BY <1>0, <1>2, <2>1, BatchMoves DEF Stages, RequestDownloads
    <2>3. missing \subseteq Dests
      BY DEF Dests
    <2>4. /\ source' \in [Batches -> 1..latestVersion] /\ {misses', todo'} \subseteq [Batches -> SUBSET Dests]
          /\ misses'[b] = missing /\ todo'[b] = missing
          /\ \A c \in Batches : c # b =>
                source'[c] = source[c] /\ misses'[c] = misses[c] /\ todo'[c] = todo[c]
      <3>1. latestVersion \in 1..latestVersion
        BY <1>0, VaultAssumption DEF VaultTypeOK
      <3>2. QED
        BY <1>0, <1>2, <2>3, <3>1 DEF RequestDownloads, VaultTypeOK
    <2>5. UNCHANGED <<vault, latestVersion, enabled, existing, staging, remembered, disturbed>>
      BY <1>2 DEF RequestDownloads
    <2>6. pending' = {c \in Batches : stands'[c] = "asking"}
      BY <1>0, <2>1, <2>2 DEF VaultTypeOK
    <2>7. Cardinality(pending') <= MaxPending
      <3>1. Cardinality(pending \cup {b}) = IF b \in pending THEN Cardinality(pending)
                                                             ELSE Cardinality(pending) + 1
        BY <1>1, FS_AddElement
      <3>2. MaxPending \in Nat
        BY VaultAssumption
      <3>3. stage = "asking" => Cardinality(pending') <= MaxPending
        BY <1>1, <2>1, <3>1, <3>2
      <3>4. stage # "asking" => Cardinality(pending') <= MaxPending
        BY <1>1, <2>1
      <3>5. QED
        BY <3>3, <3>4
    <2>8. VaultTypeOK'
      BY <1>0, <2>2, <2>4, <2>5, <2>6, <2>7 DEF VaultTypeOK, Stages
    <2>9. TodoInv'
      BY <1>0, <2>1, <2>2, <2>4 DEF TodoInv, Unfinished
    <2>10. QED
      BY <2>2, <2>4, <2>5, <2>8, <2>9, Elsewhere DEF VaultInv
  <1>3. CASE Fetch(b)
    <2>1. /\ todo[b] \subseteq misses[b] /\ misses[b] \subseteq ToSet(Wants[b])
          /\ todo[b] # {} /\ stands[b] = "fetching"
      BY <1>0, <1>3 DEF TodoInv, Unfinished, Fetch
    <2>2. Current(b) \in todo[b] /\ Current(b) \in Dests
      BY <2>1, CurrentIsToDo
    <2>3. PICK stage \in {"fetching", "waiting"} :
            /\ BatchGoto(b, stage)
            /\ todo' = [todo EXCEPT ![b] = IF stage = "waiting" THEN misses[b] ELSE todo[b] \ {Current(b)}]
            /\ stage = "fetching" => todo[b] # {Current(b)}
      BY <1>3 DEF Fetch, IsLast
    <2>4. /\ stands' \in [Batches -> Stages] /\ stands'[b] = stage
          /\ \A c \in Batches : c # b => stands'[c] = stands[c]
      BY <1>0, <2>3, BatchMoves DEF Stages
    <2>5. /\ todo' \in [Batches -> SUBSET Dests]
          /\ todo'[b] = IF stage = "waiting" THEN misses[b] ELSE todo[b] \ {Current(b)}
          /\ \A c \in Batches : c # b => todo'[c] = todo[c]
      BY <1>0, <2>3 DEF VaultTypeOK
    <2>6. /\ UNCHANGED <<vault, latestVersion, enabled, source, misses, existing, pending, remembered, disturbed>>
          /\ staging' = staging \cup {<<b, Current(b)>>}
      BY <1>3 DEF Fetch, consent
    <2>7. pending = {c \in Batches : stands'[c] = "asking"}
      BY <1>0, <2>1, <2>4 DEF VaultTypeOK
    <2>8. VaultTypeOK'
      BY <1>0, <2>2, <2>4, <2>5, <2>6, <2>7 DEF VaultTypeOK, Stages
    <2>9. TodoInv'
      BY <1>0, <2>1, <2>2, <2>3, <2>4, <2>5, <2>6 DEF TodoInv, Unfinished
    <2>10. QED
      BY <2>1, <2>4, <2>5, <2>6, <2>8, <2>9, Elsewhere DEF VaultInv
  <1>4. CASE FetchFails(b)
    <2>1. /\ todo[b] \subseteq misses[b] /\ misses[b] \subseteq ToSet(Wants[b])
          /\ todo[b] # {} /\ stands[b] = "fetching"
      BY <1>0, <1>4 DEF TodoInv, Unfinished, FetchFails
    <2>2. Current(b) \in Dests
      BY <2>1, CurrentIsToDo
    <2>3. /\ stands' \in [Batches -> Stages] /\ stands'[b] = "failed"
          /\ \A c \in Batches : c # b => stands'[c] = stands[c]
      BY <1>0, <1>4, BatchMoves DEF Stages, FetchFails
    <2>4. UNCHANGED <<vault, latestVersion, enabled, source, misses, todo, existing, pending, remembered, disturbed>>
      BY <1>4 DEF FetchFails, consent
    <2>5. staging' \subseteq Batches \X Dests
      BY <1>0, <1>4, <2>2 DEF FetchFails, VaultTypeOK
    <2>6. pending = {c \in Batches : stands'[c] = "asking"}
      BY <1>0, <2>1, <2>3 DEF VaultTypeOK
    <2>7. VaultTypeOK'
      BY <1>0, <2>3, <2>4, <2>5, <2>6 DEF VaultTypeOK, Stages
    <2>8. TodoInv'
      BY <1>0, <2>3, <2>4 DEF TodoInv, Unfinished
    <2>9. QED
      BY <2>1, <2>3, <2>4, <2>7, <2>8, Elsewhere DEF VaultInv
  <1>5. ASSUME NEW approved \in BOOLEAN, NEW remember \in BOOLEAN, Decide(b, approved, remember)
        PROVE  VaultInv'
    <2>1. PICK stage \in {"fetching", "failed"} : BatchGoto(b, stage)
      BY <1>5 DEF Decide
    <2>2. /\ stands' \in [Batches -> Stages] /\ stands'[b] = stage
          /\ \A c \in Batches : c # b => stands'[c] = stands[c]
      BY <1>0, <2>1, BatchMoves DEF Stages
    <2>3. stands[b] = "asking" /\ pending' = pending \ {b}
      BY <1>0, <1>5 DEF Decide, VaultTypeOK
    <2>4. UNCHANGED <<vault, latestVersion, enabled, source, misses, todo, existing, staging, disturbed>>
      BY <1>5 DEF Decide
    <2>5. remembered' \in BOOLEAN
      BY <1>0, <1>5 DEF Decide, VaultTypeOK
    <2>6. pending' = {c \in Batches : stands'[c] = "asking"}
      BY <1>0, <2>1, <2>2, <2>3 DEF VaultTypeOK
    <2>7. Cardinality(pending') <= MaxPending
      <3>1. Cardinality(pending \ {b}) = IF b \in pending THEN Cardinality(pending) - 1
                                                          ELSE Cardinality(pending)
        BY <1>1, FS_RemoveElement
      <3>2. MaxPending \in Nat
        BY VaultAssumption
      <3>3. Cardinality(pending') <= MaxPending
        BY <1>1, <2>3, <3>1, <3>2
      <3>4. QED
        BY <3>3
    <2>8. VaultTypeOK'
      BY <1>0, <2>2, <2>4, <2>5, <2>6, <2>7 DEF VaultTypeOK, Stages
    <2>9. TodoInv'
      BY <1>0, <2>2, <2>3, <2>4 DEF TodoInv, Unfinished
    <2>10. QED
      BY <2>2, <2>3, <2>4, <2>8, <2>9, Elsewhere DEF VaultInv
  <1>6. QED
    BY <1>2, <1>3, <1>4, <1>5

(* What befalls the tickets, the plugin and the vault from outside.        *)
LEMMA OutsideInv ==
    ASSUME VaultInv,
           Dispose \/ Switch \/ Archive \/ \E d \in Dests : DeleteAsset(d)
    PROVE  VaultInv'
  <1>0. VaultTypeOK /\ SourceInv /\ TodoInv /\ ClaimsInv /\ FilesInv /\ AloneInv
    BY DEF VaultInv
  <1>1. CASE Dispose
    <2>1. stands' = [b \in Batches |-> IF stands[b] = "asking" THEN "failed" ELSE stands[b]]
      BY <1>0, <1>1 DEF Dispose, VaultTypeOK
    <2>2. /\ UNCHANGED <<vault, latestVersion, enabled, source, misses, todo, existing, staging, remembered, disturbed>>
          /\ pending' = {}
      BY <1>1 DEF Dispose
    <2>3. Cardinality({}) = 0 /\ MaxPending \in Nat
      BY FS_EmptySet, VaultAssumption
    <2>4. stands' \in [Batches -> Stages] /\ pending' = {c \in Batches : stands'[c] = "asking"}
      BY <1>0, <2>1, <2>2 DEF VaultTypeOK, Stages
    <2>5. VaultTypeOK'
      BY <1>0, <2>2, <2>3, <2>4 DEF VaultTypeOK, Stages
    <2>6. TodoInv'
      BY <1>0, <2>1, <2>2 DEF TodoInv, Unfinished
    <2>7. QED
      BY <2>1, <2>2, <2>5, <2>6, Elsewhere DEF VaultInv
  <1>2. CASE Switch
    <2>1. /\ UNCHANGED <<vault, latestVersion, stands, source, misses, todo, existing, staging, pending, remembered, disturbed>>
          /\ enabled' \in BOOLEAN
      BY <1>2 DEF Switch, batch, consent
    <2>2. VaultTypeOK'
      BY <1>0, <2>1 DEF VaultTypeOK
    <2>3. TodoInv'
      BY <1>0, <2>1 DEF TodoInv
    <2>4. QED
      BY <2>1, <2>2, <2>3, Elsewhere DEF VaultInv
  <1>3. CASE Archive
    <2>1. /\ UNCHANGED <<enabled, stands, source, misses, todo, existing, staging, pending, remembered, disturbed>>
          /\ latestVersion' = latestVersion + 1 /\ latestVersion <= Versions /\ Committing = {}
          /\ vault' = [vault EXCEPT ![latestVersion + 1] = vault[latestVersion]]
      BY <1>3 DEF Archive, batch, consent
    <2>2. latestVersion \in 1..(Versions + 1) /\ latestVersion' \in 1..(Versions + 1) /\ Versions \in Nat
      BY <1>0, <2>1, VaultAssumption DEF VaultTypeOK
    <2>3. /\ vault' \in [1..(Versions + 1) -> [Dests -> Batches \cup {None}]]
          /\ vault'[latestVersion'] = vault[latestVersion]
          /\ \A v \in 1..(Versions + 1) : v # latestVersion' => vault'[v] = vault[v]
      BY <1>0, <2>1, <2>2 DEF VaultTypeOK
    <2>4. source' \in [Batches -> 1..latestVersion']
      BY <1>0, <2>1, <2>2 DEF VaultTypeOK
    <2>5. VaultTypeOK'
      BY <1>0, <2>1, <2>2, <2>3, <2>4 DEF VaultTypeOK
    <2>6. TodoInv'
      BY <1>0, <2>1 DEF TodoInv
    <2>7. Committing' = {} /\ \A b \in Batches : ~Checked(b) /\ ~Checked(b)'
      BY <2>1 DEF Committing, Checked
    <2>8. Claimed' \subseteq Claimed
      BY <2>3, <2>7 DEF Claimed
    <2>9. FilesInv'
      BY <1>0, <2>1, <2>2, <2>3 DEF FilesInv
    <2>10. QED
      BY <1>0, <2>5, <2>6, <2>7, <2>8, <2>9, ClaimsShrink DEF VaultInv, SourceInv, AloneInv
  <1>4. ASSUME NEW d \in Dests, DeleteAsset(d)
        PROVE  VaultInv'
    <2>1. /\ UNCHANGED <<latestVersion, enabled, stands, source, misses, todo, existing, staging, pending, remembered>>
          /\ disturbed' = disturbed \cup Committing /\ vault[latestVersion][d] # None
          /\ vault' = [vault EXCEPT ![latestVersion][d] = None]
      BY <1>4 DEF DeleteAsset, batch, consent
    <2>2. /\ vault' \in [1..(Versions + 1) -> [Dests -> Batches \cup {None}]]
          /\ \A v \in 1..(Versions + 1) : \A e \in Dests :
                vault'[v][e] = IF v = latestVersion /\ e = d THEN None ELSE vault[v][e]
      BY <1>0, <2>1 DEF VaultTypeOK
    <2>3. VaultTypeOK'
      BY <1>0, <2>1, <2>2 DEF VaultTypeOK, Committing
    <2>4. TodoInv' /\ SourceInv'
      BY <1>0, <2>1 DEF TodoInv, SourceInv, Committing
    <2>5. latestVersion \in 1..(Versions + 1)
      BY <1>0 DEF VaultTypeOK
    <2>6. Claimed' \subseteq Claimed
      <3>1. \A b \in Batches : Checked(b)' = Checked(b) /\ Current(b)' = Current(b)
        BY <2>1, SameCurrent DEF Checked
      <3>2. QED
        BY <2>1, <2>2, <2>5, <3>1 DEF Claimed
    <2>7. FilesInv'
      BY <1>0, <2>1, <2>2, VaultAssumption DEF FilesInv
    <2>8. AloneInv'
      <3>1. Committing' \subseteq disturbed'
        BY <2>1 DEF Committing
      <3>2. QED
        BY <3>1 DEF AloneInv
    <2>9. QED
      BY <1>0, <2>3, <2>4, <2>6, <2>7, <2>8, ClaimsShrink DEF VaultInv
  <1>5. QED
    BY <1>1, <1>2, <1>3, <1>4

(* The commit of a batch, step by step.  A step that leaves the vault as it*)
(* is: the batch goes on or fails, and the others stay where they are.     *)
LEMMA CommitStep ==
    ASSUME VaultInv, NEW b \in Batches, NEW stage \in Stages,
           BatchGoto(b, stage), stands[b] \in {"waiting", "measure", "look", "check", "rename"},
           stage \in {"measure", "look", "check", "rename", "done", "failed"},
           stage \in {"look", "check", "rename"} => todo[b] # {},
           UNCHANGED <<vault, latestVersion, enabled, source, misses, todo, pending, remembered>>,
           existing' \in [Batches -> 0..1], \A c \in Batches : c # b => existing'[c] = existing[c],
           staging' \subseteq staging, disturbed \subseteq disturbed', disturbed' \subseteq Batches,
           stands[b] \in {"waiting", "measure"} \/ stage \notin {"measure", "failed"} \/ b \in disturbed',
           stage = "measure" => stands[b] = "waiting" /\ source[b] = latestVersion,
           stands[b] = "waiting" => stage \in {"measure", "failed"}
    PROVE  /\ VaultTypeOK' /\ SourceInv' /\ TodoInv' /\ FilesInv'
           /\ stands' \in [Batches -> Stages] /\ stands'[b] = stage
           /\ \A c \in Batches : c # b => stands'[c] = stands[c]
           /\ Committing' = IF stage \in {"done", "failed"} THEN Committing \ {b}
                                                                 ELSE Committing \cup {b}
           /\ Present' = Present /\ \A c \in Batches : Current(c)' = Current(c)
  <1>0. VaultTypeOK /\ SourceInv /\ TodoInv /\ FilesInv
    BY DEF VaultInv
  <1>1. /\ stands' \in [Batches -> Stages] /\ stands'[b] = stage
        /\ \A c \in Batches : c # b => stands'[c] = stands[c]
    BY <1>0, BatchMoves
  <1>2. pending = {c \in Batches : stands'[c] = "asking"}
    BY <1>0, <1>1 DEF VaultTypeOK
  <1>3. VaultTypeOK'
    BY <1>0, <1>1, <1>2 DEF VaultTypeOK, Stages
  <1>4. Committing' = IF stage \in {"done", "failed"} THEN Committing \ {b} ELSE Committing \cup {b}
    BY <1>1 DEF Committing
  <1>5. SourceInv'
    BY <1>0, <1>1 DEF SourceInv, Committing
  <1>6. TodoInv'
    BY <1>0, <1>1 DEF TodoInv, Unfinished
  <1>7. FilesInv'
    BY <1>0, <1>1 DEF FilesInv
  <1>8. Present' = Present /\ \A c \in Batches : Current(c)' = Current(c)
    BY SameCurrent DEF Present
  <1>9. QED
    BY <1>1, <1>3, <1>4, <1>5, <1>6, <1>7, <1>8

(* The other batches that commit alone are not there when this one does.   *)
LEMMA StillAlone ==
    ASSUME AloneInv, NEW b \in Batches, b \in Committing,
           \A c \in Batches : c # b => stands'[c] = stands[c],
           disturbed \subseteq disturbed'
    PROVE  /\ \A c \in Committing' \ disturbed' : c = b
           /\ b \notin disturbed => Committing = {b} /\ Committing' \subseteq {b}
  BY DEF AloneInv, Committing

LEMMA EnterInv ==
    ASSUME VaultInv, NEW b \in Batches, Enter(b)
    PROVE  VaultInv'
  <1>0. VaultTypeOK /\ ClaimsInv /\ AloneInv /\ SourceInv
    BY DEF VaultInv
  <1>1. PICK stage \in {"measure", "failed"} :
            /\ BatchGoto(b, stage) /\ staging' \subseteq staging
            /\ stage = "measure" => source[b] = latestVersion
    BY DEF Enter, Fails
  <1>2. /\ UNCHANGED <<vault, latestVersion, enabled, source, misses, todo, existing, pending, remembered>>
        /\ stands[b] = "waiting"
        /\ disturbed' = IF Committing = {} THEN disturbed ELSE disturbed \cup Committing \cup {b}
    BY DEF Enter, consent
  <1>3. /\ VaultTypeOK' /\ SourceInv' /\ TodoInv' /\ FilesInv'
        /\ stands'[b] = stage /\ \A c \in Batches : c # b => stands'[c] = stands[c]
        /\ Committing' \subseteq Committing \cup {b}
        /\ Present' = Present /\ \A c \in Batches : Current(c)' = Current(c)
    <2>1. disturbed' \subseteq Batches /\ disturbed \subseteq disturbed' /\ existing' \in [Batches -> 0..1]
      BY <1>0, <1>2 DEF VaultTypeOK, Committing
    <2>2. QED
      BY <1>1, <1>2, <2>1, CommitStep DEF Stages
  <1>4. Claimed' \subseteq Claimed
    BY <1>1, <1>2, <1>3 DEF Claimed, Checked
  <1>5. AloneInv'
    <2>1. CASE Committing = {}
      BY <1>1, <1>3, <2>1 DEF AloneInv, Committing
    <2>2. CASE Committing # {}
      BY <1>2, <1>3, <2>2 DEF AloneInv
    <2>3. QED
      BY <2>1, <2>2
  <1>6. QED
    BY <1>0, <1>3, <1>4, <1>5, ClaimsShrink DEF VaultInv

LEMMA MeasureInv ==
    ASSUME VaultInv, NEW b \in Batches, Measure(b)
    PROVE  VaultInv'
  <1>0. VaultTypeOK /\ ClaimsInv /\ AloneInv /\ SourceInv /\ TodoInv
    BY DEF VaultInv
  <1>1. stands[b] = "measure" /\ b \in Committing /\ source[b] = latestVersion /\ todo[b] = misses[b]
    BY <1>0 DEF Measure, Committing, SourceInv, TodoInv
  <1>2. PICK stage \in {"look", "done", "failed"} :
            /\ BatchGoto(b, stage) /\ staging' \subseteq staging
            /\ stage = "look" => todo[b] # {}
            /\ stage = "look" => Cardinality(Present) + Cardinality(todo[b]) <= Quota
    BY <1>1 DEF Measure, Fails, Total, Present
  <1>3. UNCHANGED <<vault, latestVersion, enabled, source, misses, todo, existing, pending, remembered, disturbed>>
    BY DEF Measure, consent
  <1>4. /\ VaultTypeOK' /\ SourceInv' /\ TodoInv' /\ FilesInv'
        /\ stands'[b] = stage /\ \A c \in Batches : c # b => stands'[c] = stands[c]
        /\ Committing' = IF stage \in {"done", "failed"} THEN Committing \ {b} ELSE Committing \cup {b}
        /\ Present' = Present /\ \A c \in Batches : Current(c)' = Current(c)
    <2>1. disturbed' \subseteq Batches /\ disturbed \subseteq disturbed' /\ existing' \in [Batches -> 0..1]
      BY <1>0, <1>3 DEF VaultTypeOK
    <2>2. QED
      BY <1>1, <1>2, <1>3, <2>1, CommitStep DEF Stages
  <1>5. Claimed' \subseteq Claimed
    BY <1>2, <1>3, <1>4 DEF Claimed, Checked
  <1>6. AloneInv'
    <2>1. /\ \A c \in Committing' \ disturbed' : c = b
          /\ b \notin disturbed => Committing = {b} /\ Committing' \subseteq {b}
      BY <1>0, <1>1, <1>3, <1>4, StillAlone
    <2>2. QED
      BY <1>2, <1>3, <1>4, <2>1 DEF AloneInv, Committing
  <1>7. QED
    BY <1>0, <1>4, <1>5, <1>6, ClaimsShrink DEF VaultInv

LEMMA LookInv ==
    ASSUME VaultInv, NEW b \in Batches, Look(b)
    PROVE  VaultInv'
  <1>0. VaultTypeOK /\ ClaimsInv /\ AloneInv /\ SourceInv /\ TodoInv
    BY DEF VaultInv
  <1>1. stands[b] = "look" /\ b \in Committing /\ source[b] = latestVersion
    BY <1>0 DEF Look, Committing, SourceInv
  <1>a. todo[b] # {}
    BY <1>0, <1>1 DEF TodoInv, Unfinished
  <1>2. /\ BatchGoto(b, "check")
        /\ existing' = [existing EXCEPT ![b] = IF vault[latestVersion][Current(b)] = None THEN 0 ELSE 1]
    BY <1>1 DEF Look
  <1>3. UNCHANGED <<vault, latestVersion, enabled, source, misses, todo, staging, pending, remembered, disturbed>>
    BY DEF Look, consent
  <1>4. /\ VaultTypeOK' /\ SourceInv' /\ TodoInv' /\ FilesInv'
        /\ stands'[b] = "check" /\ \A c \in Batches : c # b => stands'[c] = stands[c]
        /\ Committing' = Committing \cup {b}
        /\ Present' = Present /\ \A c \in Batches : Current(c)' = Current(c)
    <2>1. /\ disturbed' \subseteq Batches /\ disturbed \subseteq disturbed' /\ existing' \in [Batches -> 0..1]
          /\ \A c \in Batches : c # b => existing'[c] = existing[c]
      BY <1>0, <1>2, <1>3 DEF VaultTypeOK
    <2>2. QED
      BY <1>1, <1>a, <1>2, <1>3, <2>1, CommitStep DEF Stages
  <1>5. Claimed' \subseteq Claimed
    <2>1. Current(b) \in Dests
      BY <1>0, <1>1, CurrentIsToDo DEF TodoInv, Unfinished
    <2>2. existing'[b] = 1 => vault[latestVersion][Current(b)] # None
      BY <1>0, <1>2 DEF VaultTypeOK
    <2>3. \A c \in Batches : c # b => (Checked(c)' <=> Checked(c))
      BY <1>0, <1>2, <1>4 DEF Checked, VaultTypeOK
    <2>4. Checked(b)' => existing'[b] = 1
      BY <1>4 DEF Checked
    <2>5. QED
      BY <1>3, <1>4, <2>1, <2>2, <2>3, <2>4 DEF Claimed
  <1>6. AloneInv'
    <2>1. /\ \A c \in Committing' \ disturbed' : c = b
          /\ b \notin disturbed => Committing = {b} /\ Committing' \subseteq {b}
      BY <1>0, <1>1, <1>3, <1>4, StillAlone
    <2>2. QED
      BY <1>0, <1>1, <1>3, <1>4, <2>1 DEF AloneInv, Committing
  <1>7. QED
    BY <1>0, <1>4, <1>5, <1>6, ClaimsShrink DEF VaultInv

LEMMA CheckInv ==
    ASSUME VaultInv, NEW b \in Batches, Check(b)
    PROVE  VaultInv'
  <1>0. VaultTypeOK /\ ClaimsInv /\ AloneInv /\ SourceInv /\ TodoInv
    BY DEF VaultInv
  <1>1. stands[b] = "check" /\ b \in Committing /\ source[b] = latestVersion
    BY <1>0 DEF Check, Committing, SourceInv
  <1>2. PICK stage \in {"rename", "failed"} :
            /\ BatchGoto(b, stage) /\ staging' \subseteq staging
            /\ stage = "rename" <=> Cardinality(Present) + 1 <= Quota + existing[b]
    BY <1>1 DEF Check, Fails, Total, Present
  <1>3. UNCHANGED <<vault, latestVersion, enabled, source, misses, todo, existing, pending, remembered, disturbed>>
    BY DEF Check, consent
  <1>4. /\ todo[b] \in SUBSET Dests /\ todo[b] # {} /\ Present \in SUBSET Dests
        /\ existing[b] \in 0..1 /\ Quota \in Nat
        /\ Current(b) \in todo[b] /\ Current(b) \in Dests
    BY <1>0, <1>1, CurrentIsToDo, VaultAssumption DEF TodoInv, Unfinished, VaultTypeOK, Present
  <1>5. /\ IsFiniteSet(todo[b]) /\ Cardinality(todo[b]) \in Nat \ {0}
        /\ IsFiniteSet(Present) /\ Cardinality(Present) \in Nat
    BY <1>4, FiniteDests, FS_EmptySet
  <1>6. stage = "failed" => b \in disturbed
    <2>1. b \notin disturbed => Cardinality(Present) + Cardinality(todo[b]) <= Quota
      BY <1>0, <1>1 DEF AloneInv
    <2>2. QED
      BY <1>2, <1>4, <1>5, <2>1
  <1>7. /\ VaultTypeOK' /\ SourceInv' /\ TodoInv' /\ FilesInv'
        /\ stands'[b] = stage /\ \A c \in Batches : c # b => stands'[c] = stands[c]
        /\ Committing' = IF stage = "failed" THEN Committing \ {b} ELSE Committing \cup {b}
        /\ Present' = Present /\ \A c \in Batches : Current(c)' = Current(c)
    <2>1. disturbed' \subseteq Batches /\ disturbed \subseteq disturbed' /\ existing' \in [Batches -> 0..1]
      BY <1>0, <1>3 DEF VaultTypeOK
    <2>2. QED
      BY <1>1, <1>2, <1>3, <1>4, <1>6, <2>1, CommitStep DEF Stages
  <1>8. ClaimsInv'
    <2>1. CASE stage = "failed" \/ existing[b] = 1
      <3>1. Claimed' \subseteq Claimed
        BY <1>1, <1>2, <1>3, <1>7, <2>1 DEF Claimed, Checked
      <3>2. QED
        BY <1>0, <3>1, ClaimsShrink
    <2>2. CASE stage = "rename" /\ existing[b] # 1
      <3> DEFINE each == {Current(c)' : c \in Batches}
      <3>1. Cardinality(Present) + 1 <= Quota
        BY <1>2, <1>4, <2>2
      <3>2. Claimed' \subseteq Present \cup each
        BY <1>3, <1>7 DEF Claimed, Present
      <3>3. /\ IsFiniteSet(each) /\ Cardinality(each) \in Nat
            /\ Cardinality(each) <= Cardinality(Batches) /\ Cardinality(Batches) \in Nat
        BY OneEach
      <3>4. /\ IsFiniteSet(Present \cup each)
            /\ Cardinality(Present \cup each) = Cardinality(Present) + Cardinality(each) - Cardinality(Present \cap each)
        BY <1>5, <3>3, FS_Union
      <3>5. Cardinality(Present \cap each) \in Nat
        BY <1>5, FS_Intersection, FS_CardinalityType
      <3>6. Cardinality(Claimed') <= Cardinality(Present \cup each) /\ Cardinality(Claimed') \in Nat
        BY <3>2, <3>4, FS_Subset, FS_CardinalityType
      <3>7. Cardinality(Present \cup each) \in Nat
        BY <3>4, FS_CardinalityType
      <3>8. Cardinality(Claimed') <= Quota + Cardinality(Batches) - 1
        BY <1>4, <1>5, <3>1, <3>3, <3>4, <3>5, <3>6, <3>7
      <3>9. QED
        BY <3>8 DEF ClaimsInv
    <2>3. QED
      BY <2>1, <2>2
  <1>9. AloneInv'
    <2>1. /\ \A c \in Committing' \ disturbed' : c = b
          /\ b \notin disturbed => Committing = {b} /\ Committing' \subseteq {b}
      BY <1>0, <1>1, <1>3, <1>7, StillAlone
    <2>2. QED
      BY <1>0, <1>1, <1>3, <1>7, <2>1 DEF AloneInv, Committing
  <1>10. QED
    BY <1>7, <1>8, <1>9 DEF VaultInv

LEMMA RenameInv ==
    ASSUME VaultInv, NEW b \in Batches, Rename(b)
    PROVE  VaultInv'
  <1> DEFINE d == Current(b)
  <1>0. VaultTypeOK /\ ClaimsInv /\ AloneInv /\ SourceInv /\ TodoInv /\ FilesInv
    BY DEF VaultInv
  <1>1. stands[b] = "rename" /\ b \in Committing /\ source[b] = latestVersion
    BY <1>0 DEF Rename, Committing, SourceInv
  <1>2. PICK stage \in {"look", "done"} : BatchGoto(b, stage) /\ (stage = "look" => todo[b] # {d})
    BY DEF Rename, IsLast
  <1>3. /\ UNCHANGED <<latestVersion, enabled, source, misses, existing, pending, remembered, disturbed>>
        /\ vault' = [vault EXCEPT ![latestVersion][d] = b] /\ staging' \subseteq staging
        /\ todo' = [todo EXCEPT ![b] = @ \ {d}]
    BY <1>1 DEF Rename, consent
  <1>4. d \in todo[b] /\ d \in Dests /\ latestVersion \in 1..(Versions + 1)
    BY <1>0, <1>1, CurrentIsToDo DEF TodoInv, Unfinished, VaultTypeOK
  <1>5. /\ stands' \in [Batches -> Stages] /\ stands'[b] = stage
        /\ \A c \in Batches : c # b => stands'[c] = stands[c]
    BY <1>0, <1>2, BatchMoves DEF Stages
  <1>6. /\ vault' \in [1..(Versions + 1) -> [Dests -> Batches \cup {None}]]
        /\ \A v \in 1..(Versions + 1) : \A e \in Dests :
              vault'[v][e] = IF v = latestVersion /\ e = d THEN b ELSE vault[v][e]
    BY <1>0, <1>3, <1>4 DEF VaultTypeOK
  <1>7. /\ todo' \in [Batches -> SUBSET Dests] /\ todo'[b] = todo[b] \ {d}
        /\ \A c \in Batches : c # b => todo'[c] = todo[c]
    BY <1>0, <1>3 DEF VaultTypeOK
  <1>8. VaultTypeOK'
    <2>1. pending = {c \in Batches : stands'[c] = "asking"}
      BY <1>0, <1>1, <1>5, <1>2 DEF VaultTypeOK
    <2>2. QED
      BY <1>0, <1>3, <1>5, <1>6, <1>7, <2>1 DEF VaultTypeOK, Stages
  <1>9. Committing' \subseteq Committing
    BY <1>1, <1>5 DEF Committing
  <1>10. SourceInv' /\ TodoInv'
    BY <1>0, <1>1, <1>2, <1>3, <1>4, <1>5, <1>7, <1>9 DEF SourceInv, TodoInv, Unfinished
  <1>11. Present' = Present \cup {d}
    BY <1>3, <1>4, <1>6, VaultAssumption DEF Present
  <1>12. Claimed' \subseteq Claimed
    <2>1. \A c \in Batches : Checked(c)' => c # b /\ Checked(c) /\ todo'[c] = todo[c]
      BY <1>2, <1>3, <1>5, <1>7 DEF Checked
    <2>2. \A c \in Batches : Checked(c)' => Checked(c) /\ Current(c)' = Current(c)
      BY <2>1, SameCurrent
    <2>3. Checked(b)
      BY <1>1 DEF Checked
    <2>4. Claimed = Present \cup {e \in Dests : \E c \in Batches : Checked(c) /\ Current(c) = e}
      BY DEF Claimed, Present
    <2>5. Claimed' = Present' \cup {e \in Dests : \E c \in Batches : Checked(c)' /\ Current(c)' = e}
      BY DEF Claimed, Present
    <2>6. QED
      BY <1>4, <1>11, <2>2, <2>3, <2>4, <2>5
  <1>13. FilesInv'
    <2> SUFFICES ASSUME NEW c \in Batches \ disturbed, stands'[c] \notin {"look", "check", "rename", "done"},
                        NEW v \in 1..(Versions + 1), NEW e \in Dests
                 PROVE  vault'[v][e] # c
      BY <1>3 DEF FilesInv
    <2>1. c # b /\ stands[c] \notin {"look", "check", "rename", "done"}
      BY <1>2, <1>5
    <2>2. vault[v][e] # c
      BY <1>0, <2>1 DEF FilesInv
    <2>3. QED
      BY <1>6, <2>1, <2>2
  <1>14. AloneInv'
    <2>1. /\ \A c \in Committing' \ disturbed' : c = b
          /\ b \notin disturbed => Committing = {b} /\ Committing' \subseteq {b}
      BY <1>0, <1>1, <1>3, <1>5, StillAlone
    <2>2. /\ IsFiniteSet(todo[b]) /\ Cardinality(todo[b]) \in Nat
          /\ IsFiniteSet(Present) /\ Cardinality(Present) \in Nat /\ Quota \in Nat
      BY <1>0, FiniteDests, VaultAssumption DEF VaultTypeOK, Present
    <2>3. Cardinality(todo'[b]) = Cardinality(todo[b]) - 1
      <3>1. Cardinality(todo[b] \ {d}) = IF d \in todo[b] THEN Cardinality(todo[b]) - 1 ELSE Cardinality(todo[b])
        BY <2>2, FS_RemoveElement
      <3>2. QED
        BY <1>4, <1>7, <3>1
    <2>4. Cardinality(Present') \in Nat /\ Cardinality(Present') <= Cardinality(Present) + 1
      <3>1. Cardinality(Present \cup {d}) = IF d \in Present THEN Cardinality(Present) ELSE Cardinality(Present) + 1
        BY <2>2, FS_AddElement
      <3>2. QED
        BY <1>11, <2>2, <3>1
    <2>5. b \notin disturbed => Cardinality(Present) + Cardinality(todo[b]) <= Quota
      BY <1>0, <1>1 DEF AloneInv
    <2>6. b \notin disturbed => Cardinality(Present') + Cardinality(todo'[b]) <= Quota
      BY <2>2, <2>3, <2>4, <2>5
    <2>7. QED
      BY <1>3, <2>1, <2>6 DEF AloneInv
  <1>15. QED
    BY <1>0, <1>8, <1>10, <1>12, <1>13, <1>14, ClaimsShrink DEF VaultInv

LEMMA CommitFailsInv ==
    ASSUME VaultInv, NEW b \in Batches, CommitFails(b)
    PROVE  VaultInv'
  <1>0. VaultTypeOK /\ ClaimsInv /\ AloneInv /\ SourceInv
    BY DEF VaultInv
  <1>1. /\ BatchGoto(b, "failed") /\ staging' \subseteq staging /\ stands[b] \in {"look", "rename"}
        /\ disturbed' = disturbed \cup {b}
        /\ UNCHANGED <<vault, latestVersion, enabled, source, misses, todo, existing, pending, remembered>>
    BY DEF CommitFails, Fails, consent
  <1>2. /\ VaultTypeOK' /\ SourceInv' /\ TodoInv' /\ FilesInv'
        /\ stands'[b] = "failed" /\ \A c \in Batches : c # b => stands'[c] = stands[c]
        /\ Present' = Present /\ \A c \in Batches : Current(c)' = Current(c)
    <2>1. disturbed' \subseteq Batches /\ disturbed \subseteq disturbed' /\ existing' \in [Batches -> 0..1]
      BY <1>0, <1>1 DEF VaultTypeOK
    <2>2. QED
      BY <1>1, <2>1, CommitStep DEF Stages
  <1>3. Claimed' \subseteq Claimed
    BY <1>1, <1>2 DEF Claimed, Checked
  <1>4. AloneInv'
    <2>1. b \in Committing
      BY <1>1 DEF Committing
    <2>2. \A c \in Committing' \ disturbed' : c = b
      BY <1>0, <1>1, <1>2, <2>1, StillAlone
    <2>3. QED
      BY <1>1, <2>2 DEF AloneInv
  <1>5. QED
    BY <1>0, <1>2, <1>3, <1>4, ClaimsShrink DEF VaultInv

LEMMA VaultNextInv ==
    ASSUME VaultInv, [VaultNext]_vaultVars
    PROVE  VaultInv'
  <1>1. CASE UNCHANGED vaultVars
    <2>1. UNCHANGED <<vault, latestVersion, enabled, stands, source, misses, todo, existing, staging, pending,
                      remembered, disturbed>>
      BY <1>1 DEF vaultVars, batch, consent
    <2>2. VaultTypeOK' /\ TodoInv'
      BY <2>1 DEF VaultInv, VaultTypeOK, TodoInv
    <2>3. QED
      BY <2>1, <2>2, Elsewhere DEF VaultInv
  <1>2. CASE VaultNext
    <2>1. ASSUME NEW b \in Batches,
                 \/ RequestDownloads(b) \/ Fetch(b) \/ FetchFails(b)
                 \/ Commit(b) \/ CommitFails(b)
                 \/ \E approved, remember \in BOOLEAN : Decide(b, approved, remember)
          PROVE  VaultInv'
      BY <2>1, DownloadInv, EnterInv, MeasureInv, LookInv, CheckInv, RenameInv, CommitFailsInv
      DEF Commit
    <2>2. QED
      BY <1>2, <2>1, OutsideInv DEF VaultNext
  <1>3. QED
    BY <1>1, <1>2

LEMMA VaultInvariance ==
    VaultSpec => []VaultInv
  <1>1. VaultInit => VaultInv
    BY VaultInitInv
  <1>2. VaultInv /\ [VaultNext]_vaultVars => VaultInv'
    BY VaultNextInv
  <1>3. QED
    BY <1>1, <1>2, PTL DEF VaultSpec

(* Every reachable state of the downloads has its type; no plugin has more *)
(* tickets than the limit.                                                 *)
THEOREM VaultTypeCorrect == VaultSpec => []VaultTypeOK
  <1>1. VaultInv => VaultTypeOK
    BY DEF VaultInv
  <1>2. QED
    BY <1>1, VaultInvariance, PTL

(* However many batches measure, look and rename at once, the vault of the *)
(* latest version grows past its quota by at most a file per other batch.  *)
THEOREM QuotaOvershoot == VaultSpec => []OvershootIsBounded
  <1>1. VaultInv => OvershootIsBounded
    <2> SUFFICES ASSUME VaultInv PROVE OvershootIsBounded
      OBVIOUS
    <2>1. Present \subseteq Claimed /\ Present \subseteq Dests /\ Claimed \subseteq Dests
      BY DEF Present, Claimed
    <2>2. Cardinality(Present) <= Cardinality(Claimed)
      BY <2>1, FiniteDests, FS_Subset
    <2>3. Cardinality(Present) \in Nat /\ Cardinality(Claimed) \in Nat
      BY <2>1, FiniteDests
    <2>4. Cardinality(Batches) \in Nat /\ Quota \in Nat
      BY OneEach, VaultAssumption
    <2>5. Cardinality(Claimed) <= Quota + Cardinality(Batches) - 1
      BY DEF VaultInv, ClaimsInv
    <2>6. Cardinality(Present) <= Quota + Cardinality(Batches) - 1
      BY <2>2, <2>3, <2>4, <2>5
    <2>7. QED
      BY <2>6 DEF OvershootIsBounded, Total, Present
  <1>2. QED
    BY <1>1, VaultInvariance, PTL

(* A batch that fails has left no file in any vault, unless its commit met *)
(* another change of the vault or an error of the disk.                    *)
THEOREM BatchesAreAtomic == VaultSpec => []AllOrNothing
  <1>1. VaultInv => AllOrNothing
    <2> SUFFICES ASSUME VaultInv PROVE AllOrNothing
      OBVIOUS
    <2>1. DOMAIN vault = 1..(Versions + 1)
      BY DEF VaultInv, VaultTypeOK
    <2>2. QED
      BY <2>1 DEF VaultInv, FilesInv, AllOrNothing
  <1>2. QED
    BY <1>1, VaultInvariance, PTL

(* The vault of a published archive never changes: whoever commits, does so*)
(* into the latest version, however long ago it began.                     *)
THEOREM ArchivesStayFrozen == VaultSpec => ArchivesAreFrozen
  <1> DEFINE Frozen == \A v \in DOMAIN vault : v < latestVersion => vault'[v] = vault[v]
  <1>1. VaultInv /\ [VaultNext]_vaultVars => [Frozen]_vaultVars
    <2> SUFFICES ASSUME VaultInv, VaultNext PROVE Frozen
      OBVIOUS
    <2>1. latestVersion \in Nat /\ DOMAIN vault = 1..(Versions + 1)
      BY VaultAssumption DEF VaultInv, VaultTypeOK
    <2>2. ASSUME NEW b \in Batches, Rename(b) PROVE Frozen
      <3>1. source[b] = latestVersion
        BY <2>2 DEF Rename, VaultInv, SourceInv, Committing
      <3>2. QED
        BY <2>1, <2>2, <3>1 DEF Rename
    <2>3. ASSUME NEW d \in Dests, DeleteAsset(d) PROVE Frozen
      BY <2>1, <2>3 DEF DeleteAsset
    <2>4. CASE Archive
      BY <2>1, <2>4 DEF Archive
    <2>5. CASE UNCHANGED vault
      BY <2>5
    <2>6. QED
      BY <2>2, <2>3, <2>4, <2>5 DEF VaultNext, RequestDownloads, Fetch, FetchFails,
         Commit, Enter, Measure, Look, Check, CommitFails,
         Decide, Dispose, Switch
  <1>2. QED
    BY <1>1, VaultInvariance, PTL DEF VaultSpec, ArchivesAreFrozen

=============================================================================
