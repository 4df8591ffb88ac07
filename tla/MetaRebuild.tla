----------------------------- MODULE MetaRebuild -----------------------------
(***************************************************************************)
(* The metadata a resource derives from its content plugin, and the        *)
(* rebuilds that produce it.  Background rebuilds go through one queue per *)
(* unit, which runs one task for a resource and keeps one to follow it, and*)
(* share a limited number of slots.  The detail page rebuilds what is      *)
(* missing at once, beside both.  Each works from the row it read when it  *)
(* began, while the content plugin of the resource may be replaced.        *)
(***************************************************************************)
EXTENDS Naturals, Sequences, FiniteSets

CONSTANTS
    Res,
    Plugins,
    First,        \* the plugin every resource begins with
    Hashing,      \* the plugins that provide image hashes
    Describing,   \* the plugins whose metadata hook is there, permitted and answers
    Pages,        \* requests of a detail page
    Absent,
    Slots,        \* RESOURCE_META_REBUILD_CONCURRENCY
    MaxChanges,   \* bound: replacements of a plugin
    MaxViews,     \* bound: pages viewed
    MaxFaults     \* bound: passes that fail

Units == {"meta", "hashes"}
Keys == Res \X Units
Views == Res \X Pages
Rebuilds == Keys \cup Views

(* What a rebuild knows: the plugin and the row when it began, the passes  *)
(* that have not ended, and the columns it will write.                     *)
Optional(S) == S \cup {Absent}
Contexts == [plugin : Plugins, meta : Optional(Plugins), marker : Optional(Plugins),
             todo : SUBSET Units, patch : SUBSET Units]

ASSUME MetaAssumption ==
    /\ IsFiniteSet(Res)
    /\ First \in Plugins /\ {Hashing, Describing} \subseteq SUBSET Plugins
    /\ Absent \notin Plugins \cup Contexts /\ Units \cap Pages = {}
    /\ Slots \in Nat \ {0} /\ {MaxChanges, MaxViews, MaxFaults} \subseteq Nat

VARIABLES
    plugin,         \* contentPluginId
    meta, marker,   \* sourceMeta and hashesMeta: the plugin they come from
    rows,           \* resource_hashes: the plugin they come from
    rebuild,        \* the context of each rebuild in progress
    hashesInFlight, \* resources some rebuild hashes
    queue,          \* the task in flight for each key
    pending,        \* keys with a task to follow
    waiters,        \* tasks that wait for a slot, in order
    rebuildFailures,\* keys whose last rebuild failed less than the cooldown ago
    clearing,       \* resources whose plugin was replaced and nothing enqueued yet
    owed,           \* history: keys enqueued and not begun since
    overtaken,      \* history: rebuilds that may leave something of an earlier plugin: in
                    \* progress at a replacement, with none to follow that writes over it,
                    \* or in which a pass failed
    changes, views, faults

record == <<plugin, meta, marker, rows>>
tasks == <<queue, pending, waiters, rebuildFailures>>
history == <<owed, overtaken>>
limits == <<changes, views, faults>>
metaVars == <<record, rebuild, hashesInFlight, tasks, clearing, history, limits>>

MetaTypeOK ==
    /\ plugin \in [Res -> Plugins]
    /\ \A column \in {meta, marker, rows} : column \in [Res -> Optional(Plugins)]
    /\ rebuild \in [Rebuilds -> Optional(Contexts)]
    /\ hashesInFlight \subseteq Res
    /\ queue \in [Keys -> {"idle", "waiting", "granted", "started", "running", "ended"}]
    /\ {pending, rebuildFailures, owed} \subseteq SUBSET Keys
    /\ \A k \in pending : queue[k] # "idle"
    /\ waiters \in Seq(Keys) /\ \A i \in DOMAIN waiters : queue[waiters[i]] = "waiting"
    /\ clearing \subseteq Res /\ overtaken \subseteq Rebuilds

HashesOf(p) == IF p \in Hashing THEN p ELSE Absent
MetaOfPlugin(p) == IF p \in Describing THEN p ELSE Absent

MetaInit ==
    /\ plugin = [r \in Res |-> First]
    /\ meta \in [Res -> {Absent, MetaOfPlugin(First)}]
    /\ marker = [r \in Res |-> IF meta[r] = Absent THEN Absent ELSE HashesOf(First)]
    /\ rows = marker
    /\ rebuild = [b \in Rebuilds |-> Absent] /\ hashesInFlight = {}
    /\ queue = [k \in Keys |-> "idle"] /\ pending = {} /\ waiters = <<>> /\ rebuildFailures = {}
    /\ clearing = {} /\ owed = {} /\ overtaken = {}
    /\ changes = 0 /\ views = 0 /\ faults = 0

Open == {b \in Rebuilds : rebuild[b] # Absent}
running == Cardinality({k \in Keys : queue[k] \in {"started", "running"}})
Missing(r) ==
    {u \in Units : IF u = "meta" THEN meta[r] = Absent
                   ELSE marker[r] = Absent /\ plugin[r] \in Hashing}

-----------------------------------------------------------------------------
(* openContext, and what the passes do before they first wait: a resource  *)
(* some rebuild hashes is not hashed again, and the rows of a plugin that  *)
(* provides no hashes are cleared.                                         *)
OpenContext(b, units) ==
    LET r == b[1]
        hashes == "hashes" \in units /\ r \notin hashesInFlight
        provided == plugin[r] \in Hashing
        clears == hashes /\ ~provided
    IN  /\ rebuild' = [rebuild EXCEPT ![b] =
               [plugin |-> plugin[r], meta |-> meta[r], marker |-> marker[r],
                todo |-> (units \ {"hashes"}) \cup (IF hashes /\ provided THEN {"hashes"} ELSE {}),
                patch |-> IF clears /\ marker[r] # Absent THEN {"hashes"} ELSE {}]]
        /\ hashesInFlight' = IF hashes /\ provided THEN hashesInFlight \cup {r} ELSE hashesInFlight
        /\ rows' = [rows EXCEPT ![r] = IF clears THEN Absent ELSE @]

(* A pass ends: it has the value of the plugin the rebuild began with, and *)
(* leaves out what the row already said then.  A plugin that provides no   *)
(* metadata leaves what the row says, whoever wrote it.                    *)
PassEnds(b, u) ==
    LET c == rebuild[b]
        known == IF u = "meta" THEN c.meta ELSE c.marker
        writes == known # c.plugin /\ (u = "meta" => c.plugin \in Describing)
    IN  /\ b \in Open /\ u \in c.todo
        /\ rebuild' = [rebuild EXCEPT ![b].todo = @ \ {u},
                           ![b].patch = IF writes THEN @ \cup {u} ELSE @]
        /\ IF u = "hashes"
           THEN rows' = [rows EXCEPT ![b[1]] = c.plugin] /\ hashesInFlight' = hashesInFlight \ {b[1]}
           ELSE UNCHANGED <<rows, hashesInFlight>>
        /\ UNCHANGED <<plugin, meta, marker, tasks, clearing, history, limits>>

PassFails(b, u) ==
    /\ b \in Open /\ u \in rebuild[b].todo
    /\ faults < MaxFaults /\ faults' = faults + 1
    /\ rebuild' = [rebuild EXCEPT ![b].todo = @ \ {u}]
    /\ hashesInFlight' = IF u = "hashes" THEN hashesInFlight \ {b[1]} ELSE hashesInFlight
    /\ overtaken' = overtaken \cup {b}
    /\ UNCHANGED <<record, tasks, clearing, owed, changes, views>>

(* applyMetaPatch.                                                         *)
ApplyPatch(b) ==
    LET c == rebuild[b]
    IN  /\ b \in Open /\ c.todo = {}
        /\ meta' = [meta EXCEPT ![b[1]] = IF "meta" \in c.patch THEN c.plugin ELSE @]
        /\ marker' = [marker EXCEPT ![b[1]] = IF "hashes" \in c.patch THEN HashesOf(c.plugin) ELSE @]
        /\ rebuild' = [rebuild EXCEPT ![b] = Absent]

-----------------------------------------------------------------------------
(* Tasks that are scheduled take the free slots and wait for the others.   *)
Schedule(keys) ==
    LET free == IF running < Slots THEN Slots - running ELSE 0
        waits == SubSeq(keys, free + 1, Len(keys))
    IN  /\ queue' = [k \in Keys |->
               IF \E i \in DOMAIN waits : waits[i] = k THEN "waiting"
               ELSE IF \E i \in DOMAIN keys : keys[i] = k THEN "started" ELSE queue[k]]
        /\ waiters' = waiters \o waits

(* The keys of a resource in the order of the code, metadata first.        *)
InOrder(r, units) ==
    (IF "meta" \in units THEN <<<<r, "meta">>>> ELSE <<>>)
        \o (IF "hashes" \in units THEN <<<<r, "hashes">>>> ELSE <<>>)
Asked(r, units) == {k \in {r} \X units : k \notin rebuildFailures}
Fresh(r, units) == {u \in units : <<r, u>> \in Asked(r, units) /\ queue[<<r, u>>] = "idle"}

(* Mutation: a key whose task is in flight gets none to follow it.         *)
EnqueueOnce(r, units) ==
    /\ Schedule(InOrder(r, Fresh(r, units)))
    /\ owed' = owed \cup Asked(r, units)
    /\ UNCHANGED <<pending, rebuildFailures>>

(* enqueueMetaRebuild: a key that failed lately is left out, and one whose *)
(* task is in flight gets one to follow it.                                *)
Enqueue(r, units) ==
    /\ Schedule(InOrder(r, Fresh(r, units)))
    /\ pending' = pending \cup {k \in Asked(r, units) : queue[k] # "idle"}
    /\ owed' = owed \cup Asked(r, units)
    /\ UNCHANGED rebuildFailures

(* A task that has its slot begins.                                        *)
Begin(k) ==
    /\ queue[k] \in {"started", "granted"}
    /\ queue' = [queue EXCEPT ![k] = "running"]
    /\ OpenContext(k, {k[2]}) /\ owed' = owed \ {k}
    /\ UNCHANGED <<plugin, meta, marker, pending, waiters, rebuildFailures, clearing, overtaken, limits>>

(* Mutation: the freed slot is not handed on.                              *)
FinishKeepsWaiters(k) ==
    /\ queue[k] = "running" /\ ApplyPatch(k)
    /\ queue' = [queue EXCEPT ![k] = "ended"] /\ UNCHANGED waiters
    /\ UNCHANGED <<plugin, rows, hashesInFlight, pending, rebuildFailures, clearing, history, limits>>

(* It ends: what is still missing counts as a failure, and the next waiter *)
(* is told.                                                                *)
Finish(k) ==
    /\ queue[k] = "running" /\ ApplyPatch(k)
    /\ rebuildFailures' = IF (IF k[2] = "meta" THEN meta' ELSE marker')[k[1]] = Absent
                          THEN rebuildFailures \cup {k} ELSE rebuildFailures \ {k}
    /\ queue' = [q \in Keys |-> IF q = k THEN "ended"
                                ELSE IF waiters # <<>> /\ q = waiters[1] THEN "granted" ELSE queue[q]]
    /\ waiters' = IF waiters = <<>> THEN waiters ELSE Tail(waiters)
    /\ UNCHANGED <<plugin, rows, hashesInFlight, pending, clearing, history, limits>>

(* The queue goes on with the task to follow.                              *)
Follow(k) ==
    /\ queue[k] = "ended" /\ pending' = pending \ {k}
    /\ IF k \in pending THEN Schedule(<<k>>)
       ELSE queue' = [queue EXCEPT ![k] = "idle"] /\ UNCHANGED waiters
    /\ UNCHANGED <<record, rebuild, hashesInFlight, rebuildFailures, clearing, history, limits>>

CooldownEnds(k) ==
    /\ k \in rebuildFailures /\ rebuildFailures' = rebuildFailures \ {k}
    /\ UNCHANGED <<record, rebuild, hashesInFlight, queue, pending, waiters, clearing, history, limits>>

-----------------------------------------------------------------------------
(* rebuildMissingMeta of the detail page, which several may show.          *)
View(v) ==
    /\ views < MaxViews /\ views' = views + 1
    /\ rebuild[v] = Absent /\ Missing(v[1]) # {}
    /\ OpenContext(v, Missing(v[1]))
    /\ UNCHANGED <<plugin, meta, marker, tasks, clearing, history, changes, faults>>

ViewEnds(v) ==
    /\ ApplyPatch(v)
    /\ UNCHANGED <<plugin, rows, hashesInFlight, tasks, clearing, history, limits>>

(* enqueueMissingMetaRebuilds of a list.                                   *)
List(r) ==
    /\ views < MaxViews /\ views' = views + 1
    /\ Missing(r) # {} /\ Enqueue(r, Missing(r))
    /\ UNCHANGED <<record, rebuild, hashesInFlight, clearing, overtaken, changes, faults>>

(* Mutation: what the plugin produced before stays.                        *)
ReplaceKeeps(r, p) ==
    /\ p # plugin[r] /\ r \notin clearing /\ changes < MaxChanges /\ changes' = changes + 1
    /\ plugin' = [plugin EXCEPT ![r] = p] /\ clearing' = clearing \cup {r}
    /\ overtaken' = overtaken \cup {b \in Open : b[1] = r}
    /\ UNCHANGED <<meta, marker, rows, rebuild, hashesInFlight, tasks, owed, views, faults>>

(* The content plugin is replaced and the metadata cleared, but not the    *)
(* rows; then local files are removed.                                     *)
Replace(r, p) ==
    /\ p # plugin[r] /\ r \notin clearing /\ changes < MaxChanges /\ changes' = changes + 1
    /\ plugin' = [plugin EXCEPT ![r] = p] /\ clearing' = clearing \cup {r}
    /\ meta' = [meta EXCEPT ![r] = Absent] /\ marker' = [marker EXCEPT ![r] = Absent]
    /\ overtaken' = overtaken \cup {b \in Open : b[1] = r}
    /\ UNCHANGED <<rows, rebuild, hashesInFlight, tasks, owed, views, faults>>

(* The tasks that are enqueued and write over what earlier ones left.      *)
Mended(r, p) == {k \in Asked(r, Units) : k[2] = "meta" => p \in Describing}

(* Then the rebuild of everything is enqueued, or left for later.          *)
Replaced(r) ==
    /\ r \in clearing /\ clearing' = clearing \ {r}
    /\ \/ Enqueue(r, Units) /\ overtaken' = overtaken \ Mended(r, plugin[r])
       \/ UNCHANGED <<tasks, history>>
    /\ UNCHANGED <<record, rebuild, hashesInFlight, limits>>

(* What the replacement of the plugin may leave of the earlier one: what   *)
(* the row says and what rebuilds in progress will write.                  *)
Left(r) ==
    {b \in Rebuilds : b[1] = r /\
        \/ b \in Open
        \/ b[2] = "meta" /\ meta[r] # Absent
        \/ b[2] = "hashes" /\ marker[r] # Absent}

(* revalidateExplicitPlugin at the end of an upload: the plugin that was   *)
(* chosen is replaced, nothing is cleared and everything is enqueued.      *)
Revalidate(r, p) ==
    /\ p # plugin[r] /\ changes < MaxChanges /\ changes' = changes + 1
    /\ plugin' = [plugin EXCEPT ![r] = p] /\ Enqueue(r, Units)
    /\ overtaken' = (overtaken \cup Left(r)) \ Mended(r, p)
    /\ UNCHANGED <<meta, marker, rows, rebuild, hashesInFlight, clearing, views, faults>>

-----------------------------------------------------------------------------
Passes(b) == (\E u \in Units : PassEnds(b, u)) \/ (b \in Views /\ ViewEnds(b))
Task(k) == Begin(k) \/ Finish(k) \/ Follow(k)
MetaNext ==
    \/ \E b \in Rebuilds : Passes(b) \/ \E u \in Units : PassFails(b, u)
    \/ \E k \in Keys : Task(k) \/ CooldownEnds(k)
    \/ \E v \in Views : View(v)
    \/ \E r \in Res : List(r) \/ Replaced(r) \/ \E p \in Plugins : Replace(r, p) \/ Revalidate(r, p)

(* Hooks end, if only by their time limit, and the event loop goes on.     *)
MetaSpec == MetaInit /\ [][MetaNext]_metaVars
MetaFairSpec ==
    /\ MetaSpec
    /\ \A b \in Rebuilds : WF_metaVars(Passes(b))
    /\ \A k \in Keys : WF_metaVars(Task(k))
    /\ \A r \in Res : WF_metaVars(Replaced(r))

-----------------------------------------------------------------------------
Settled(r) ==
    /\ r \notin clearing /\ \A b \in Open : b[1] # r
    /\ \A k \in Keys : k[1] = r => queue[k] = "idle"

(* What a resource says of itself once its rebuilds have ended comes from  *)
(* the plugin it has, or is missing and known to be, whatever was being    *)
(* rebuilt while the plugin was replaced.  Exempted is, of each unit, what *)
(* a rebuild left that was in progress at a replacement when no task       *)
(* followed it that writes the unit, or a pass of which failed (README).   *)
Spared(r, u) == \A b \in overtaken : b[1] = r => b[2] \in Units \ {u}
ServesOwn ==
    \A r \in Res : Settled(r) =>
        /\ Spared(r, "meta") => meta[r] \in {Absent, plugin[r]}
        /\ Spared(r, "hashes") =>
              /\ marker[r] \in {Absent, plugin[r]}
              /\ marker[r] # Absent => rows[r] = plugin[r]

(* Without the exemption it does not hold: a rebuild of the old plugin that*)
(* ends after the row was cleared fills it again, and the new plugin leaves*)
(* metadata as it is when it provides none itself (README).                *)
ServesOnlyOwn == \A r \in Res : Settled(r) => meta[r] \in {Absent, plugin[r]}

(* A hash rebuild that is left out because another one hashes the resource *)
(* loses nothing: the other one began with the same plugin; it may not have*)
(* (README).                                                               *)
SkippedIsSame ==
    \A b, o \in Open :
        b[1] = o[1] /\ b[2] = "hashes" /\ "hashes" \in rebuild[o].todo => rebuild[b].plugin = rebuild[o].plugin

(* No slot stays free while a task waits for one, and no resource counts as*)
(* being hashed when nothing hashes it, so that nothing ever would: what   *)
(* ended, failed or was handed over has let go of both.                    *)
NothingStaysHeld ==
    /\ waiters # <<>> => running + Cardinality({k \in Keys : queue[k] = "granted"}) >= Slots
    /\ hashesInFlight = {b[1] : b \in {o \in Open : "hashes" \in rebuild[o].todo}}

(* No more tasks run than there are slots; one that takes the slot another *)
(* was handed, before that one runs, makes it one more (README).           *)
SlotsKept == running <= Slots

(* A rebuild that was enqueued begins after it was: it reads a row that is *)
(* no older than the reason for it.                                        *)
EnqueuedBegins == \A k \in Keys : k \in owed ~> k \notin owed

=============================================================================
