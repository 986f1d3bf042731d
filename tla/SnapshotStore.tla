--------------------------- MODULE SnapshotStore ---------------------------
(***************************************************************************)
(* The snapshots of the backups: directories on disk, the rows of index.db *)
(* that describe them, the retention that removes both, and the rebuild of *)
(* the index from the disk.                                                *)
(*                                                                         *)
(* Backup jobs, threads of the portal, write and index snapshots; the web  *)
(* handlers run retention and rebuild one at a time; the command line runs *)
(* a rebuild of its own.  Each SQLite transaction and each change on disk  *)
(* is one step.                                                            *)
(*                                                                         *)
(* A device is a host (site, ip and hostname) and a port.  The directory   *)
(* of a snapshot is named by the host and the second, without the port.    *)
(***************************************************************************)
EXTENDS Integers, FiniteSets

CONSTANTS
    NHosts, NPorts,
    Workers,    \* backup jobs that may be at work at the same time
    Keeps,      \* values of keep_last that users enter
    MaxDelete,  \* MAX_DELETE_PER_RUN
    MaxTime,    \* bound: seconds
    MaxBackups, MaxRebuilds,    \* bounds: how often each is started
    MaxPreviews,                \* bound: different plans that are previewed
    MaxCrashes, MaxFaults       \* bounds: restarts, I/O and database errors

ASSUME StoreAssumption ==
    /\ NHosts \in Nat /\ NPorts \in Nat /\ MaxTime \in Nat \ {0}
    /\ Keeps \subseteq Nat \ {0}
    /\ MaxDelete \in Nat /\ MaxBackups \in Nat /\ MaxRebuilds \in Nat
    /\ MaxPreviews \in Nat
    /\ MaxCrashes \in Nat /\ MaxFaults \in Nat

VARIABLES
    now,
    disk,       \* directory -> whose files and whose manifest are in it
    rows,       \* table snapshots, keyed by snapshot_path
    nextId,     \* its AUTOINCREMENT counter
    devices,    \* table devices
    tokens,     \* _TOKENS: plans that were previewed and may be confirmed
    wpc, wdir,  \* each backup job: where it is, its directory
    wdev,       \* the device it backs up
    wman,       \* the manifest it has read back
    op, todo,   \* web and cli: what runs, directories still to handle
    plan,       \* the retention plan that is carried out
    backups, rebuilds, crashes, faults,
    previewed,  \* history: every plan a user was shown
    excused     \* history: snapshots that an accident left out of the index

tables  == <<rows, nextId, devices>>
jobVars == <<wpc, wdir, wdev, wman>>
opVars  == <<op, todo, plan>>
bounds  == <<backups, rebuilds, crashes, faults>>
vars    == <<now, disk, tables, tokens, jobVars, opVars, bounds, previewed, excused>>

Hosts     == 1..NHosts
Times     == 1..MaxTime
Devices   == Hosts \X (1..NPorts)
Dirs      == Hosts \X Times
Operators == {"web", "cli"}

NoDevice == <<0, 0>>
NoDir    == <<0, 0>>
Absent   == [files |-> NoDevice, manifest |-> NoDevice]
NoRow    == [id |-> 0, dev |-> NoDevice]
NoPlan   == [keep |-> 0, scope |-> {}, doomed |-> {}]
NoEntry  == [count |-> 0, latest |-> 0]

Plans == [keep : Keeps, scope : SUBSET Devices,
          doomed : SUBSET [dir : Dirs, id : Nat \ {0}, dev : Devices]]

TypeOK ==
    /\ now \in Times
    /\ disk \in [Dirs -> [files : Devices \cup {NoDevice},
                          manifest : Devices \cup {NoDevice}]]
    /\ rows \in [Dirs -> [id : Nat, dev : Devices \cup {NoDevice}]]
    /\ nextId \in Nat \ {0}
    /\ devices \in [Devices -> [count : Nat, latest : 0..MaxTime]]
    /\ tokens \subseteq Plans /\ previewed \subseteq Plans
    /\ wpc \in [Workers -> {"idle", "manifest", "read", "index"}]
    /\ wdir \in [Workers -> Dirs \cup {NoDir}]
    /\ wdev \in [Workers -> Devices \cup {NoDevice}]
    /\ wman \in [Workers -> Devices \cup {NoDevice}]
    /\ op \in [Operators -> {"idle", "remove", "wipe", "reindex"}]
    /\ todo \in [Operators -> SUBSET Dirs]
    /\ plan \in Plans \cup {NoPlan}
    /\ backups \in 0..MaxBackups /\ rebuilds \in 0..MaxRebuilds
    /\ crashes \in 0..MaxCrashes /\ faults \in 0..MaxFaults
    /\ excused \subseteq Dirs
    /\ \A d \in Dirs : disk[d].manifest # NoDevice => disk[d].files # NoDevice

Init ==
    /\ now = 1
    /\ disk = [d \in Dirs |-> Absent]
    /\ rows = [d \in Dirs |-> NoRow]
    /\ nextId = 1
    /\ devices = [v \in Devices |-> NoEntry]
    /\ tokens = {} /\ previewed = {} /\ excused = {}
    /\ wpc = [w \in Workers |-> "idle"]
    /\ wdir = [w \in Workers |-> NoDir]
    /\ wdev = [w \in Workers |-> NoDevice]
    /\ wman = [w \in Workers |-> NoDevice]
    /\ op = [x \in Operators |-> "idle"]
    /\ todo = [x \in Operators |-> {}]
    /\ plan = NoPlan
    /\ backups = 0 /\ rebuilds = 0 /\ crashes = 0 /\ faults = 0

-----------------------------------------------------------------------------
(* Reading the disk and the tables.                                        *)

Exists(d)   == disk[d].files # NoDevice
Complete(d) == disk[d].manifest # NoDevice
Indexed(d)  == rows[d].id # 0

\* The order of device ids and of paths.
Before(u, v) == \/ u[1] < v[1]
                \/ u[1] = v[1] /\ u[2] < v[2]

RowsOf(table, v) == {d \in Dirs : table[d].id # 0 /\ table[d].dev = v}

\* What COUNT(*) and ORDER BY created_at DESC LIMIT 1 say of a device.
Aggregate(table, v) ==
    LET mine == RowsOf(table, v) IN
    IF mine = {} THEN NoEntry
    ELSE [count  |-> Cardinality(mine),
          latest |-> (CHOOSE d \in mine : \A c \in mine : c[2] <= d[2])[2]]

\* Seeded fault: on a conflict the row is given to the device of the manifest,
\* and the device it belonged to is not refreshed.
UpsertMoves(d, v) ==
    /\ rows' = [rows EXCEPT ![d] = [id |-> IF @.id # 0 THEN @.id ELSE nextId,
                                    dev |-> v]]
    /\ nextId' = IF Indexed(d) THEN nextId ELSE nextId + 1
    /\ devices' = [devices EXCEPT ![v] = Aggregate(rows', v)]

\* index_manifest, one transaction: a new row, or the row of the same path
\* updated without its device_id; then the entry of the manifest's device is
\* recomputed, if that device has a row.
Upsert(d, v) ==
    /\ rows' = IF Indexed(d) THEN rows
               ELSE [rows EXCEPT ![d] = [id |-> nextId, dev |-> v]]
    /\ nextId' = IF Indexed(d) THEN nextId ELSE nextId + 1
    /\ devices' = IF RowsOf(rows', v) = {} THEN devices
                  ELSE [devices EXCEPT ![v] = Aggregate(rows', v)]

-----------------------------------------------------------------------------
(* A backup job: write_snapshot, then the manifest read back and indexed.   *)

JobIdle(w) ==
    /\ wpc' = [wpc EXCEPT ![w] = "idle"]
    /\ wdir' = [wdir EXCEPT ![w] = NoDir]
    /\ wdev' = [wdev EXCEPT ![w] = NoDevice]
    /\ wman' = [wman EXCEPT ![w] = NoDevice]

\* The time is taken, the directory made (or found) and the artifacts written.
WriteFiles(w, v) ==
    /\ wpc[w] = "idle"
    /\ backups < MaxBackups
    /\ backups' = backups + 1
    /\ wpc' = [wpc EXCEPT ![w] = "manifest"]
    /\ wdir' = [wdir EXCEPT ![w] = <<v[1], now>>]
    /\ wdev' = [wdev EXCEPT ![w] = v]
    /\ disk' = [disk EXCEPT ![<<v[1], now>>].files = v]
    /\ UNCHANGED <<now, tables, tokens, wman, opVars, rebuilds, crashes, faults,
                   previewed, excused>>

\* Seeded fault: the directory is made again if it is gone.
WriteManifestBlind(w) ==
    /\ wpc[w] = "manifest"
    /\ disk' = [disk EXCEPT ![wdir[w]].manifest = wdev[w]]
    /\ wpc' = [wpc EXCEPT ![w] = "read"]
    /\ UNCHANGED <<wdir, wdev, wman>>
    /\ UNCHANGED <<now, tables, tokens, opVars, bounds, previewed, excused>>

\* manifest.json comes last.  If retention took the directory away meanwhile
\* the write fails and with it the backup of this device.
WriteManifest(w) ==
    /\ wpc[w] = "manifest"
    /\ IF Exists(wdir[w])
       THEN /\ disk' = [disk EXCEPT ![wdir[w]].manifest = wdev[w]]
            /\ wpc' = [wpc EXCEPT ![w] = "read"]
            /\ UNCHANGED <<wdir, wdev, wman>>
       ELSE /\ JobIdle(w)
            /\ UNCHANGED disk
    /\ UNCHANGED <<now, tables, tokens, opVars, bounds, previewed, excused>>

\* The device was disconnected meanwhile; the manifest is read from the disk.
ReadManifest(w) ==
    /\ wpc[w] = "read"
    /\ IF Complete(wdir[w])
       THEN /\ wman' = [wman EXCEPT ![w] = disk[wdir[w]].manifest]
            /\ wpc' = [wpc EXCEPT ![w] = "index"]
            /\ UNCHANGED <<wdir, wdev>>
       ELSE JobIdle(w)
    /\ UNCHANGED <<now, disk, tables, tokens, opVars, bounds, previewed, excused>>

Index(w) ==
    /\ wpc[w] = "index"
    /\ Upsert(wdir[w], wman[w])
    /\ JobIdle(w)
    /\ UNCHANGED <<now, disk, tokens, opVars, bounds, previewed, excused>>

\* The database is locked for too long: the snapshot stays on disk only.
IndexFails(w) ==
    /\ wpc[w] = "index"
    /\ faults < MaxFaults
    /\ faults' = faults + 1
    /\ JobIdle(w)
    /\ excused' = excused \cup {wdir[w]}
    /\ UNCHANGED <<now, disk, tables, tokens, opVars, backups, rebuilds, crashes,
                   previewed>>

-----------------------------------------------------------------------------
(* Retention: preview, confirm, remove the directories, forget the rows.    *)

\* Seeded fault: an off-by-one in rows[keep:].
CandidatesOneMore(keep, scope) ==
    {d \in Dirs : /\ Indexed(d)
                  /\ rows[d].dev \in scope
                  /\ Cardinality({c \in RowsOf(rows, rows[d].dev) : c[2] > d[2]})
                        >= keep - 1}

\* plan_retention: the rows of each device beyond the newest keep.
Candidates(keep, scope) ==
    {d \in Dirs : /\ Indexed(d)
                  /\ rows[d].dev \in scope
                  /\ Cardinality({c \in RowsOf(rows, rows[d].dev) : c[2] > d[2]})
                        >= keep}

PlanOf(keep, scope) ==
    [keep |-> keep, scope |-> scope,
     doomed |-> {[dir |-> d, id |-> rows[d].id, dev |-> rows[d].dev] :
                    d \in Candidates(keep, scope)}]

\* All devices, or the one whose page is open.
Scopes == {Devices} \cup {{v} : v \in Devices}

CanPlan(keep, scope) ==
    /\ op["web"] = "idle"
    /\ Cardinality(Candidates(keep, scope)) <= MaxDelete

\* A dry run hands out a token for the fingerprint of its plan.
Preview(keep, scope) ==
    /\ CanPlan(keep, scope)
    /\ Cardinality(previewed \cup {PlanOf(keep, scope)}) <= MaxPreviews
    /\ tokens' = tokens \cup {PlanOf(keep, scope)}
    /\ previewed' = previewed \cup {PlanOf(keep, scope)}
    /\ UNCHANGED <<now, disk, tables, jobVars, opVars, bounds, excused>>

\* A token is too old, or was sent with a plan that has changed: consumed, and
\* nothing is deleted.
TokenLost(p) ==
    /\ op["web"] = "idle"
    /\ tokens' = tokens \ {p}
    /\ UNCHANGED <<now, disk, tables, jobVars, opVars, bounds, previewed, excused>>

\* Seeded fault: any token confirms any plan.
ApplyAnyToken(keep, scope) ==
    /\ CanPlan(keep, scope)
    /\ tokens # {}
    /\ tokens' = {}
    /\ plan' = PlanOf(keep, scope)
    /\ op' = [op EXCEPT !["web"] = "remove"]
    /\ todo' = [todo EXCEPT !["web"] = Candidates(keep, scope)]
    /\ UNCHANGED <<now, disk, tables, jobVars, bounds, previewed, excused>>

\* The confirmed run plans again and must arrive at the same plan.
Apply(keep, scope) ==
    /\ CanPlan(keep, scope)
    /\ PlanOf(keep, scope) \in tokens
    /\ tokens' = tokens \ {PlanOf(keep, scope)}
    /\ plan' = PlanOf(keep, scope)
    /\ op' = [op EXCEPT !["web"] = "remove"]
    /\ todo' = [todo EXCEPT !["web"] = Candidates(keep, scope)]
    /\ UNCHANGED <<now, disk, tables, jobVars, bounds, previewed, excused>>

\* The directory that rmtree takes next: device by device, the newest first.
NextToRemove(d) ==
    /\ op["web"] = "remove"
    /\ d \in todo["web"]
    /\ LET devOf(c) == (CHOOSE p \in plan.doomed : p.dir = c).dev
       IN  \A c \in todo["web"] \ {d} :
              \/ Before(devOf(d), devOf(c))
              \/ devOf(d) = devOf(c) /\ c[2] < d[2]
    /\ todo' = [todo EXCEPT !["web"] = @ \ {d}]

Remove(d) ==
    /\ NextToRemove(d)
    /\ disk' = [disk EXCEPT ![d] = Absent]
    /\ UNCHANGED <<now, tables, tokens, jobVars, op, plan, bounds, previewed, excused>>

\* rmtree raises, before or after it took the manifest: skipped.
RemoveFails(d) ==
    /\ NextToRemove(d)
    /\ Exists(d)
    /\ faults < MaxFaults
    /\ faults' = faults + 1
    /\ \/ UNCHANGED disk
       \/ disk' = [disk EXCEPT ![d].manifest = NoDevice]
    /\ excused' = excused \cup {d}
    /\ UNCHANGED <<now, tables, tokens, jobVars, op, plan, backups, rebuilds, crashes,
                   previewed>>

\* One transaction deletes the rows of all candidates by their ids, skipped
\* ones too, and recomputes their devices; an UPDATE makes no new entry.
Forget ==
    /\ op["web"] = "remove"
    /\ todo["web"] = {}
    /\ LET gone == {p.id : p \in plan.doomed}
           hit  == {p.dev : p \in plan.doomed}
       IN  /\ rows' = [d \in Dirs |-> IF rows[d].id \in gone THEN NoRow ELSE rows[d]]
           /\ devices' = [v \in Devices |->
                            IF v \in hit /\ (devices[v] # NoEntry)
                            THEN Aggregate(rows', v) ELSE devices[v]]
    /\ op' = [op EXCEPT !["web"] = "idle"]
    /\ plan' = NoPlan
    /\ UNCHANGED <<now, disk, nextId, tokens, jobVars, todo, bounds, previewed, excused>>

-----------------------------------------------------------------------------
(* rebuild_index, by a web handler or from the command line.                *)

Scan(x) ==
    /\ op[x] = "idle"
    /\ rebuilds < MaxRebuilds
    /\ rebuilds' = rebuilds + 1
    /\ op' = [op EXCEPT ![x] = "wipe"]
    /\ todo' = [todo EXCEPT ![x] = {d \in Dirs : Complete(d)}]
    /\ UNCHANGED <<now, disk, tables, tokens, jobVars, plan, backups, crashes, faults,
                   previewed, excused>>

\* The three tables are emptied: what was indexed since the scan is lost.
Wipe(x) ==
    /\ op[x] = "wipe"
    /\ op' = [op EXCEPT ![x] = "reindex"]
    /\ rows' = [d \in Dirs |-> NoRow]
    /\ devices' = [v \in Devices |-> NoEntry]
    /\ excused' = excused \cup {d \in Dirs : Indexed(d) /\ d \notin todo[x]}
    /\ UNCHANGED <<now, disk, nextId, tokens, jobVars, todo, plan, bounds, previewed>>

\* The paths are sorted.
NextToIndex(x, d) ==
    /\ op[x] = "reindex"
    /\ d \in todo[x]
    /\ \A c \in todo[x] \ {d} : Before(d, c)
    /\ todo' = [todo EXCEPT ![x] = @ \ {d}]

Reindex(x, d) ==
    /\ NextToIndex(x, d)
    /\ IF Complete(d) THEN Upsert(d, disk[d].manifest) ELSE UNCHANGED tables
    /\ UNCHANGED <<now, disk, tokens, jobVars, op, plan, bounds, previewed, excused>>

\* Seeded fault: an error ends the loop, the remaining directories are lost.
ReindexStops(x, d) ==
    /\ NextToIndex(x, d)
    /\ faults < MaxFaults
    /\ faults' = faults + 1
    /\ op' = [op EXCEPT ![x] = "idle"]
    /\ excused' = excused \cup {d}
    /\ UNCHANGED <<now, disk, tables, tokens, jobVars, plan, backups, rebuilds,
                   crashes, previewed>>

\* Any exception: the directory is passed over.
ReindexFails(x, d) ==
    /\ NextToIndex(x, d)
    /\ faults < MaxFaults
    /\ faults' = faults + 1
    /\ excused' = excused \cup {d}
    /\ UNCHANGED <<now, disk, tables, tokens, jobVars, op, plan, backups, rebuilds,
                   crashes, previewed>>

Rebuilt(x) ==
    /\ op[x] = "reindex"
    /\ todo[x] = {}
    /\ op' = [op EXCEPT ![x] = "idle"]
    /\ UNCHANGED <<now, disk, tables, tokens, jobVars, todo, plan, bounds, previewed,
                   excused>>

-----------------------------------------------------------------------------
(* Time and restarts.                                                      *)

Tick ==
    /\ now < MaxTime
    /\ now' = now + 1
    /\ UNCHANGED <<disk, tables, tokens, jobVars, opVars, bounds, previewed, excused>>

\* The portal dies: its jobs, handlers and tokens are gone.
Crash ==
    /\ crashes < MaxCrashes
    /\ crashes' = crashes + 1
    /\ tokens' = {}
    /\ wpc' = [w \in Workers |-> "idle"]
    /\ wdir' = [w \in Workers |-> NoDir]
    /\ wdev' = [w \in Workers |-> NoDevice]
    /\ wman' = [w \in Workers |-> NoDevice]
    /\ op' = [op EXCEPT !["web"] = "idle"]
    /\ todo' = [todo EXCEPT !["web"] = {}]
    /\ plan' = NoPlan
    /\ excused' = excused \cup {wdir[w] : w \in {u \in Workers : wpc[u] # "idle"}}
                          \cup (IF op["web"] = "reindex" THEN todo["web"] ELSE {})
    /\ UNCHANGED <<now, disk, tables, backups, rebuilds, faults, previewed>>

\* A rebuild on the command line is killed.
CliKilled ==
    /\ op["cli"] # "idle"
    /\ crashes < MaxCrashes
    /\ crashes' = crashes + 1
    /\ op' = [op EXCEPT !["cli"] = "idle"]
    /\ todo' = [todo EXCEPT !["cli"] = {}]
    /\ excused' = excused \cup (IF op["cli"] = "reindex" THEN todo["cli"] ELSE {})
    /\ UNCHANGED <<now, disk, tables, tokens, jobVars, plan, backups, rebuilds, faults,
                   previewed>>

Next ==
    \/ \E w \in Workers : \/ \E v \in Devices : WriteFiles(w, v)
                          \/ WriteManifest(w) \/ ReadManifest(w)
                          \/ Index(w) \/ IndexFails(w)
    \/ \E keep \in Keeps, scope \in Scopes : Preview(keep, scope) \/ Apply(keep, scope)
    \/ \E p \in tokens : TokenLost(p)
    \/ \E d \in Dirs : Remove(d) \/ RemoveFails(d)
    \/ Forget
    \/ \E x \in Operators : \/ Scan(x) \/ Wipe(x) \/ Rebuilt(x)
                            \/ \E d \in Dirs : Reindex(x, d) \/ ReindexFails(x, d)
    \/ Tick
    \/ Crash \/ CliKilled

Spec == Init /\ [][Next]_vars

-----------------------------------------------------------------------------
(* Safety.                                                                 *)

\* After every transaction the table devices says of each device exactly what
\* the table snapshots says: writers, retention and two rebuilds interleave,
\* and none of them recomputes more than the devices it touched.
AggregatesExact ==
    \A v \in Devices : devices[v] = Aggregate(rows, v)

\* A complete snapshot is missing from the index only while a job or a rebuild
\* that has wiped it is about to add it, or after one of the accidents that excused names: an
\* error, a restart, or a rebuild that scanned before it was written.
NoSilentLoss ==
    \A d \in Dirs : Complete(d) /\ ~Indexed(d) =>
        \/ d \in excused
        \/ \E w \in Workers : wdir[w] = d /\ wpc[w] \in {"read", "index"}
        \/ \E x \in Operators : op[x] = "reindex" /\ d \in todo[x]

\* A directory vanishes only if a dry run showed it, for the same keep_last and
\* the same rows, whatever was indexed, rebuilt or removed since.
OnlyPreviewedRemoved ==
    [][\A d \in Dirs : Exists(d) /\ ~Exists(d)' =>
          \E p \in previewed : p = plan /\ \E row \in p.doomed : row.dir = d]_vars

\* Retention never takes the newest snapshot of a host, whatever crashes and
\* rebuilds left in the index: a newer complete one stays on disk.
NewestSurvives ==
    [][\A d \in Dirs : Exists(d) /\ ~Exists(d)' =>
          \E c \in Dirs : c[1] = d[1] /\ c[2] > d[2] /\ Complete(c)]_vars
=============================================================================
