------------------------ MODULE SnapshotStoreProofs -------------------------
(***************************************************************************)
(* Proofs about SnapshotStore, for any hosts and ports, any jobs, limits   *)
(* and values of keep_last, and any number of crashes and errors.          *)
(***************************************************************************)
EXTENDS SnapshotStore, FiniteSetTheorems, TLAPS

\* A row belongs to the host of its directory, its id is its own and was used up,
\* and it is not from the future.
RowsTrue ==
    /\ \A d \in Dirs : /\ rows[d].id < nextId
                       /\ Indexed(d) => /\ rows[d].dev \in Devices
                                        /\ rows[d].dev[1] = d[1] /\ d[2] <= now
    /\ \A d, e \in Dirs : Indexed(d) /\ rows[d].id = rows[e].id => d = e

\* So does what is on disk, and what a job holds in its hands.
DiskTrue ==
    \A d \in Dirs : /\ Exists(d) => d[2] <= now
                    /\ Complete(d) => disk[d].manifest[1] = d[1]

JobTrue(w) ==
    /\ wpc[w] # "idle" => /\ wdir[w] \in Dirs /\ wdir[w][2] <= now
                          /\ wdev[w] \in Devices /\ wdev[w][1] = wdir[w][1]
    /\ wpc[w] = "index" => wman[w] \in Devices /\ wman[w][1] = wdir[w][1]

\* A plan that is carried out is one that was shown; what it says of a row stays
\* true of the row, and its directories are of the past, so that no job makes them
\* again: each is still to be removed, excused, or gone.
PlanTrue ==
    op["web"] = "remove" =>
        /\ plan \in previewed
        /\ \A d \in todo["web"] : \E p \in plan.doomed : p.dir = d
        /\ \A p \in plan.doomed :
              /\ p.id < nextId /\ p.dir[2] < now
              /\ \A d \in Dirs : rows[d].id = p.id => d = p.dir /\ rows[d].dev = p.dev
              /\ p.dir \in todo["web"] \/ p.dir \in excused \/ ~Exists(p.dir)

\* TypeOK by what the parts of the state belong to.
DiskType ==
    /\ disk \in [Dirs -> [files : Devices \cup {NoDevice}, manifest : Devices \cup {NoDevice}]]
    /\ \A d \in Dirs : disk[d].manifest # NoDevice => disk[d].files # NoDevice
TableType ==
    /\ rows \in [Dirs -> [id : Nat, dev : Devices \cup {NoDevice}]]
    /\ nextId \in Nat \ {0}
    /\ devices \in [Devices -> [count : Nat, latest : 0..MaxTime]]
PlanType ==
    tokens \subseteq Plans /\ previewed \subseteq Plans /\ plan \in Plans \cup {NoPlan}
JobType ==
    /\ wpc \in [Workers -> {"idle", "manifest", "read", "index"}]
    /\ wdir \in [Workers -> Dirs \cup {NoDir}]
    /\ wdev \in [Workers -> Devices \cup {NoDevice}]
    /\ wman \in [Workers -> Devices \cup {NoDevice}]
OpType ==
    /\ op \in [Operators -> {"idle", "remove", "wipe", "reindex"}]
    /\ todo \in [Operators -> SUBSET Dirs]
BoundType ==
    /\ now \in Times
    /\ backups \in 0..MaxBackups /\ rebuilds \in 0..MaxRebuilds
    /\ crashes \in 0..MaxCrashes /\ faults \in 0..MaxFaults
    /\ excused \subseteq Dirs

StoreInv ==
    /\ TypeOK /\ RowsTrue /\ DiskTrue /\ PlanTrue
    /\ \A w \in Workers : JobTrue(w)
    /\ tokens \subseteq previewed

\* A newer snapshot of the same host is complete on disk.
Succeeded(d) == \E c \in Dirs : c[1] = d[1] /\ c[2] > d[2] /\ Complete(c)

\* What the index knows, or is about to learn, is on disk or succeeded; what is
\* about to be removed is succeeded.
NewestInv ==
    /\ \A d \in Dirs : Indexed(d) => Complete(d) \/ Succeeded(d)
    /\ \A w \in Workers : wpc[w] = "index" => Complete(wdir[w]) \/ Succeeded(wdir[w])
    /\ op["web"] = "remove" => \A p \in plan.doomed : Succeeded(p.dir)

-----------------------------------------------------------------------------
(* Times, directories and what is counted.                                 *)

\* The parts of TypeOK.
LEMMA TypeParts ==
    TypeOK <=> DiskType /\ TableType /\ PlanType /\ JobType /\ OpType /\ BoundType
BY DEF TypeOK, DiskType, TableType, PlanType, JobType, OpType, BoundType

\* A device and a directory are a host and a number that is not 0.
LEMMA Places ==
    /\ NoDevice \notin Devices /\ NoDir \notin Dirs
    /\ \A v \in Devices : v[1] \in Hosts
    /\ \A d \in Dirs : d[1] \in Hosts /\ d[2] \in Times /\ d[2] \in Nat
    /\ \A h \in Hosts, t \in Times : <<h, t>> \in Dirs
    /\ Times \subseteq Nat /\ 1 \in Times
BY StoreAssumption DEF Devices, Dirs, Hosts, Times, NoDevice, NoDir

\* Any directories have a latest one.
LEMMA LatestExists ==
    ASSUME NEW mine \in SUBSET Dirs, mine # {}
    PROVE  \E d \in mine : \A c \in mine : c[2] <= d[2]
<1>0. PICK R : R = {ss \in Nat \X Nat : ss[1] < ss[2]}
    OBVIOUS
<1>1. IsWellFoundedOn(R, Nat)
    BY <1>0, NatLessThanWellFounded DEF OpToRel
<1>2. PICK ages : ages = {MaxTime - d[2] : d \in mine}
    OBVIOUS
<1>3. \A d \in mine : d[2] \in Nat /\ d[2] <= MaxTime
    BY Places, StoreAssumption DEF Times
<1>4. ages \subseteq Nat /\ ages # {}
    BY <1>2, <1>3, StoreAssumption
<1>5. PICK x \in ages : \A y \in ages : ~(<<y, x>> \in R)
    BY <1>1, <1>4, WFMin
<1>6. ASSUME NEW y \in ages PROVE x <= y
    <2>1. x \in Nat /\ y \in Nat /\ <<y, x>> \notin R
        BY <1>4, <1>5
    <2>2. <<y, x>> \in Nat \X Nat /\ <<y, x>>[1] = y /\ <<y, x>>[2] = x
        BY <2>1
    <2>3. ~(y < x)
        BY <1>0, <2>1, <2>2
    <2> QED
        BY <2>1, <2>3
<1>7. PICK d \in mine : x = MaxTime - d[2]
    BY <1>2
<1>8. ASSUME NEW c \in mine PROVE c[2] <= d[2]
    <2>1. MaxTime - d[2] <= MaxTime - c[2]
        BY <1>2, <1>6, <1>7
    <2> QED
        BY <1>3, <2>1, StoreAssumption
<1> QED
    BY <1>8

LEMMA DirsFinite == IsFiniteSet(Dirs)
<1>1. IsFiniteSet(Hosts) /\ IsFiniteSet(Times)
    BY FS_Interval, StoreAssumption DEF Hosts, Times
<1> QED
    BY <1>1, FS_Product DEF Dirs

\* The entry of a device is of the right kind, and empty only if it has no rows.
LEMMA AggregateType ==
    ASSUME NEW table, NEW v
    PROVE  /\ Aggregate(table, v) \in [count : Nat, latest : 0..MaxTime]
           /\ Aggregate(table, v) = NoEntry <=> RowsOf(table, v) = {}
<1>1. PICK mine \in SUBSET Dirs : mine = RowsOf(table, v)
    BY DEF RowsOf
<1>2. CASE mine = {}
    <2>1. Aggregate(table, v) = NoEntry
        BY <1>1, <1>2 DEF Aggregate
    <2> QED
        BY <1>1, <1>2, <2>1, StoreAssumption DEF NoEntry
<1>3. CASE mine # {}
    <2>1. Cardinality(mine) \in Nat /\ Cardinality(mine) # 0
        BY <1>3, DirsFinite, FS_Subset, FS_CardinalityType, FS_EmptySet
    <2>2. PICK last \in mine :
            last = CHOOSE d \in mine : \A c \in mine : c[2] <= d[2]
        BY <1>3, LatestExists
    <2>3. last[2] \in 0..MaxTime
        BY Places, StoreAssumption DEF Times
    <2>4. Aggregate(table, v) = [count |-> Cardinality(mine), latest |-> last[2]]
        BY <1>1, <1>3, <2>2 DEF Aggregate
    <2>5. Aggregate(table, v).count # 0 /\ NoEntry.count = 0
        BY <2>1, <2>4 DEF NoEntry
    <2> QED
        BY <1>1, <1>3, <2>1, <2>3, <2>4, <2>5
<1> QED
    BY <1>2, <1>3

\* The entry depends on the device's rows alone.
LEMMA AggregateSame ==
    ASSUME NEW t1, NEW t2, NEW v, RowsOf(t1, v) = RowsOf(t2, v)
    PROVE  Aggregate(t1, v) = Aggregate(t2, v)
BY Zenon DEF Aggregate
-----------------------------------------------------------------------------
(* What the operations do to the parts of the invariant.                   *)

\* index_manifest makes a row with an id of its own, or leaves the row that is there.
LEMMA UpsertTrue ==
    ASSUME StoreInv, NEW d \in Dirs, NEW v \in Devices, v[1] = d[1], d[2] <= now,
           Upsert(d, v), now' = now
    PROVE  /\ TableType' /\ RowsTrue' /\ nextId <= nextId' /\ Indexed(d)'
           /\ \A e \in Dirs : (e = d /\ rows'[e].id = nextId) \/ rows'[e] = rows[e]
           /\ Indexed(d) => rows' = rows
<1>1. /\ rows \in [Dirs -> [id : Nat, dev : Devices \cup {NoDevice}]]
      /\ nextId \in Nat \ {0} /\ RowsTrue
      /\ devices \in [Devices -> [count : Nat, latest : 0..MaxTime]]
    BY DEF StoreInv, TypeOK
<1>2. devices' \in [Devices -> [count : Nat, latest : 0..MaxTime]]
    <2>1. PICK table : table = rows'
        OBVIOUS
    <2>2. Aggregate(table, v) \in [count : Nat, latest : 0..MaxTime]
        BY AggregateType
    <2>3. devices' = devices \/ devices' = [devices EXCEPT ![v] = Aggregate(table, v)]
        BY <2>1 DEF Upsert
    <2> QED
        BY <1>1, <2>2, <2>3
<1>3. CASE Indexed(d)
    <2>1. rows' = rows /\ nextId' = nextId
        BY <1>3 DEF Upsert
    <2>2. TableType'
        BY <1>1, <1>2, <2>1 DEF TableType
    <2>3. RowsTrue' /\ Indexed(d)'
        BY <1>1, <1>3, <2>1 DEF RowsTrue, Indexed
    <2> QED
        BY <1>1, <2>1, <2>2, <2>3
<1>4. CASE ~Indexed(d)
    <2>1. PICK row : row = [id |-> nextId, dev |-> v]
        OBVIOUS
    <2>2. rows' = [rows EXCEPT ![d] = row] /\ nextId' = nextId + 1
        BY <1>4, <2>1 DEF Upsert
    <2>3. row \in [id : Nat, dev : Devices \cup {NoDevice}] /\ row.id = nextId /\ row.dev = v
        BY <1>1, <2>1
    <2>4. /\ rows' \in [Dirs -> [id : Nat, dev : Devices \cup {NoDevice}]]
          /\ rows'[d] = row /\ \A e \in Dirs \ {d} : rows'[e] = rows[e]
        BY <1>1, <2>2, <2>3
    <2>5. \A e \in Dirs : rows[e].id \in Nat /\ rows[e].id < nextId
        BY <1>1 DEF RowsTrue
    <2>6. RowsTrue'
        <3>1. ASSUME NEW e \in Dirs
              PROVE  /\ rows'[e].id < nextId'
                     /\ Indexed(e)' => /\ rows'[e].dev \in Devices
                                       /\ rows'[e].dev[1] = e[1] /\ e[2] <= now
            <4>1. CASE e = d
                BY <1>1, <2>2, <2>3, <2>4, <4>1
            <4>2. CASE e # d
                BY <1>1, <2>2, <2>4, <2>5, <4>2 DEF RowsTrue, Indexed
            <4> QED
                BY <4>1, <4>2
        <3>2. ASSUME NEW e \in Dirs, NEW f \in Dirs, Indexed(e)', rows'[e].id = rows'[f].id
              PROVE  e = f
            <4>1. e # d /\ f # d => e = f
                BY <1>1, <2>4, <3>2 DEF RowsTrue, Indexed
            <4>2. e # d => rows'[e].id # rows'[d].id
                BY <2>3, <2>4, <2>5
            <4>3. f # d => rows'[f].id # rows'[d].id
                BY <2>3, <2>4, <2>5
            <4> QED
                BY <3>2, <4>1, <4>2, <4>3
        <3> QED
            BY <3>1, <3>2 DEF RowsTrue
    <2>7. TableType'
        BY <1>1, <1>2, <2>2, <2>4 DEF TableType
    <2>8. Indexed(d)' /\ nextId <= nextId'
        BY <1>1, <2>2, <2>3, <2>4 DEF Indexed
    <2>9. \A e \in Dirs : (e = d /\ rows'[e].id = nextId) \/ rows'[e] = rows[e]
        BY <2>3, <2>4
    <2> QED
        BY <1>4, <2>6, <2>7, <2>8, <2>9
<1> QED
    BY <1>3, <1>4

\* A plan stays true while rows only come and go, and no directory of the past
\* comes back.
LEMMA PlanStays ==
    ASSUME StoreInv, op'["web"] = "remove" => op["web"] = "remove" /\ todo'["web"] = todo["web"],
           UNCHANGED plan, previewed \subseteq previewed', excused \subseteq excused',
           nextId' \in Nat, nextId <= nextId', now' \in Nat, now <= now',
           \A d \in Dirs : d[2] < now /\ Exists(d)' => Exists(d),
           \A d \in Dirs : rows'[d] = rows[d] \/ rows'[d].id \in {0, nextId}
    PROVE  PlanTrue'
<1> SUFFICES ASSUME op'["web"] = "remove" PROVE PlanTrue'
    BY DEF PlanTrue
<1>1. /\ op["web"] = "remove" /\ todo'["web"] = todo["web"] /\ plan \in previewed
      /\ PlanTrue /\ previewed \subseteq Plans /\ nextId \in Nat /\ now \in Nat
    BY Places DEF StoreInv, PlanTrue, TypeOK
<1>2. \A p \in plan.doomed : p \in [dir : Dirs, id : Nat \ {0}, dev : Devices]
    BY <1>1 DEF Plans
<1>3. ASSUME NEW p \in plan.doomed
      PROVE  /\ p.id < nextId' /\ p.dir[2] < now'
             /\ \A d \in Dirs : rows'[d].id = p.id => d = p.dir /\ rows'[d].dev = p.dev
             /\ p.dir \in todo["web"] \/ p.dir \in excused' \/ ~Exists(p.dir)'
    <2>1. /\ p.id \in Nat \ {0} /\ p.dir \in Dirs /\ p.id < nextId /\ p.dir[2] < now
          /\ \A d \in Dirs : rows[d].id = p.id => d = p.dir /\ rows[d].dev = p.dev
          /\ p.dir \in todo["web"] \/ p.dir \in excused \/ ~Exists(p.dir)
        BY <1>1, <1>2 DEF PlanTrue
    <2>2. p.dir[2] \in Nat
        BY <2>1, Places
    <2>3. \A d \in Dirs : rows'[d].id = p.id => rows'[d] = rows[d]
        BY <1>1, <2>1
    <2> QED
        BY <1>1, <2>1, <2>2, <2>3
<1> QED
    BY <1>1, <1>3 DEF PlanTrue

\* The invariant is the sum of its parts.
LEMMA StoreParts ==
    ASSUME DiskType', TableType', PlanType', JobType', OpType', BoundType', RowsTrue',
           DiskTrue', PlanTrue', \A w \in Workers : JobTrue(w)', (tokens \subseteq previewed)'
    PROVE  StoreInv'
BY DEF StoreInv, TypeOK, DiskType, TableType, PlanType, JobType, OpType, BoundType

LEMMA PartsStore ==
    ASSUME StoreInv
    PROVE  /\ DiskType /\ TableType /\ PlanType /\ JobType /\ OpType /\ BoundType
           /\ RowsTrue /\ DiskTrue /\ PlanTrue /\ (\A w \in Workers : JobTrue(w))
           /\ tokens \subseteq previewed
BY DEF StoreInv, TypeOK, DiskType, TableType, PlanType, JobType, OpType, BoundType

\* Parts stay while their variables do.
LEMMA StoreFrame ==
    ASSUME StoreInv
    PROVE  /\ UNCHANGED disk => DiskType'
           /\ UNCHANGED <<rows, nextId, devices>> => TableType'
           /\ UNCHANGED <<tokens, previewed, plan>> => PlanType'
           /\ UNCHANGED <<wpc, wdir, wdev, wman>> => JobType'
           /\ UNCHANGED <<op, todo>> => OpType'
           /\ UNCHANGED <<rows, nextId, now>> => RowsTrue'
           /\ UNCHANGED <<disk, now>> => DiskTrue'
           /\ UNCHANGED <<wpc, wdir, wdev, wman, now>> => \A w \in Workers : JobTrue(w)'
<1>1. UNCHANGED disk => DiskType'
    BY PartsStore DEF DiskType
<1>2. UNCHANGED <<rows, nextId, devices>> => TableType'
    BY PartsStore DEF TableType
<1>3. UNCHANGED <<tokens, previewed, plan>> => PlanType'
    BY PartsStore DEF PlanType
<1>4. UNCHANGED <<wpc, wdir, wdev, wman>> => JobType'
    BY PartsStore DEF JobType
<1>5. UNCHANGED <<op, todo>> => OpType'
    BY PartsStore DEF OpType
<1>6. UNCHANGED <<rows, nextId, now>> => RowsTrue'
    BY PartsStore DEF RowsTrue, Indexed
<1>7. UNCHANGED <<disk, now>> => DiskTrue'
    BY PartsStore DEF DiskTrue, Exists, Complete
<1>8. UNCHANGED <<wpc, wdir, wdev, wman, now>> => \A w \in Workers : JobTrue(w)'
    BY PartsStore DEF JobTrue
<1> QED
    BY <1>1, <1>2, <1>3, <1>4, <1>5, <1>6, <1>7, <1>8

\* One job goes on, the others stay.
LEMMA OneJob ==
    ASSUME StoreInv, NEW w \in Workers, NEW pc \in {"idle", "manifest", "read", "index"},
           NEW d \in Dirs \cup {NoDir}, NEW v \in Devices \cup {NoDevice},
           NEW m \in Devices \cup {NoDevice}, UNCHANGED now,
           wpc' = [wpc EXCEPT ![w] = pc], wdir' = [wdir EXCEPT ![w] = d],
           wdev' = [wdev EXCEPT ![w] = v], wman' = [wman EXCEPT ![w] = m],
           pc # "idle" => d \in Dirs /\ d[2] <= now /\ v \in Devices /\ v[1] = d[1],
           pc = "index" => m \in Devices /\ m[1] = d[1]
    PROVE  JobType' /\ \A u \in Workers : JobTrue(u)'
<1>1. JobType
    BY PartsStore
<1>2. JobType'
    BY <1>1 DEF JobType
<1>3. ASSUME NEW u \in Workers PROVE JobTrue(u)'
    <2>1. CASE u = w
        BY <1>1, <2>1 DEF JobTrue, JobType
    <2>2. CASE u # w
        <3>1. JobTrue(u) /\ wpc'[u] = wpc[u] /\ wdir'[u] = wdir[u] /\ wdev'[u] = wdev[u]
              /\ wman'[u] = wman[u]
            BY <1>1, <2>2, PartsStore DEF JobType
        <3> QED
            BY <3>1 DEF JobTrue
    <2> QED
        BY <2>1, <2>2
<1> QED
    BY <1>2, <1>3

LEMMA JobEnds ==
    ASSUME StoreInv, NEW w \in Workers, JobIdle(w), UNCHANGED now
    PROVE  JobType' /\ \A u \in Workers : JobTrue(u)'
BY OneJob DEF JobIdle

\* The files of one directory change.
LEMMA OneDirectory ==
    ASSUME StoreInv, UNCHANGED now, NEW d \in Dirs, d[2] <= now,
           NEW f \in Devices \cup {NoDevice}, NEW m \in Devices \cup {NoDevice},
           m # NoDevice => f # NoDevice /\ m[1] = d[1],
           disk' = [disk EXCEPT ![d] = [files |-> f, manifest |-> m]]
    PROVE  /\ DiskType' /\ DiskTrue' /\ Exists(d)' = (f # NoDevice)
           /\ Complete(d)' = (m # NoDevice) /\ \A e \in Dirs \ {d} : disk'[e] = disk[e]
<1>1. DiskType /\ DiskTrue
    BY PartsStore
<1>2. PICK entry : entry = [files |-> f, manifest |-> m]
    OBVIOUS
<1>3. /\ entry \in [files : Devices \cup {NoDevice}, manifest : Devices \cup {NoDevice}]
      /\ entry.files = f /\ entry.manifest = m
    BY <1>2
<1>4. disk'[d] = entry /\ \A e \in Dirs \ {d} : disk'[e] = disk[e]
    BY <1>1, <1>2 DEF DiskType
<1>5. DiskType'
    BY <1>1, <1>2, <1>3, <1>4 DEF DiskType
<1>6. DiskTrue'
    BY <1>1, <1>3, <1>4 DEF DiskTrue, Exists, Complete
<1> QED
    BY <1>3, <1>4, <1>5, <1>6 DEF Exists, Complete

\* What a plan says of the rows it was made from.
LEMMA PlanOfTrue ==
    ASSUME StoreInv, NEW keep \in Keeps, NEW scope \in Scopes
    PROVE  /\ PlanOf(keep, scope) \in Plans
           /\ \A p \in PlanOf(keep, scope).doomed :
                 /\ p.dir \in Candidates(keep, scope) /\ p.id = rows[p.dir].id
                 /\ p.dev = rows[p.dir].dev
           /\ \A d \in Candidates(keep, scope) :
                 /\ d \in Dirs /\ Indexed(d)
                 /\ \E p \in PlanOf(keep, scope).doomed : p.dir = d
                 /\ \E c \in Dirs : Indexed(c) /\ rows[c].dev = rows[d].dev /\ c[2] > d[2]
<1>1. PICK Entry : Entry = [dir : Dirs, id : Nat \ {0}, dev : Devices]
    OBVIOUS
<1>2. PICK doomed : doomed = {[dir |-> d, id |-> rows[d].id, dev |-> rows[d].dev] :
                                 d \in Candidates(keep, scope)}
    OBVIOUS
<1>3. TableType /\ RowsTrue
    BY PartsStore
<1>4. ASSUME NEW d \in Candidates(keep, scope)
      PROVE  /\ d \in Dirs /\ Indexed(d)
             /\ [dir |-> d, id |-> rows[d].id, dev |-> rows[d].dev] \in Entry
             /\ \E c \in Dirs : Indexed(c) /\ rows[c].dev = rows[d].dev /\ c[2] > d[2]
    <2>1. d \in Dirs /\ Indexed(d)
        BY <1>4 DEF Candidates
    <2>2. rows[d].id \in Nat \ {0} /\ rows[d].dev \in Devices
        BY <1>3, <2>1 DEF TableType, RowsTrue, Indexed
    <2>3. PICK newer : newer = {c \in RowsOf(rows, rows[d].dev) : c[2] > d[2]}
        OBVIOUS
    <2>4. Cardinality(newer) >= keep
        BY <1>4, <2>3 DEF Candidates
    <2>5. keep \in Nat /\ keep >= 1
        BY StoreAssumption
    <2>6. newer # {}
        BY <2>4, <2>5, FS_EmptySet
    <2>7. PICK c \in newer : TRUE
        BY <2>6
    <2>8. c \in Dirs /\ Indexed(c) /\ rows[c].dev = rows[d].dev /\ c[2] > d[2]
        BY <2>3, <2>7 DEF RowsOf, Indexed
    <2> QED
        BY <1>1, <2>1, <2>2, <2>8
<1>5. doomed \subseteq Entry
    BY <1>2, <1>4
<1>6. scope \in SUBSET Devices
    BY DEF Scopes
<1>7. PlanOf(keep, scope) = [keep |-> keep, scope |-> scope, doomed |-> doomed]
    BY <1>2 DEF PlanOf
<1>8. PlanOf(keep, scope) \in Plans
    BY <1>1, <1>5, <1>6, <1>7 DEF Plans
<1>9. PlanOf(keep, scope).doomed = doomed
    BY <1>7
<1>10. \A p \in doomed : /\ p.dir \in Candidates(keep, scope) /\ p.id = rows[p.dir].id
                         /\ p.dev = rows[p.dir].dev
    BY <1>2
<1>11. ASSUME NEW d \in Candidates(keep, scope) PROVE \E p \in doomed : p.dir = d
    <2>1. PICK p \in doomed : p = [dir |-> d, id |-> rows[d].id, dev |-> rows[d].dev]
        BY <1>2
    <2> QED
        BY <2>1
<1> QED
    BY <1>4, <1>8, <1>9, <1>10, <1>11

\* The steps of a backup job keep the invariant.
LEMMA JobKeeps ==
    ASSUME StoreInv, NEW w \in Workers,
           \/ \E v \in Devices : WriteFiles(w, v)
           \/ WriteManifest(w) \/ ReadManifest(w) \/ Index(w) \/ IndexFails(w)
    PROVE  StoreInv'
<1>1. /\ DiskType /\ DiskTrue /\ JobType /\ JobTrue(w) /\ BoundType
      /\ now \in Times /\ now \in Nat /\ nextId \in Nat
    BY PartsStore, Places DEF BoundType, TableType
<1>2. /\ wdir[w] \in Dirs \cup {NoDir} /\ wdev[w] \in Devices \cup {NoDevice}
      /\ wman[w] \in Devices \cup {NoDevice}
      /\ wdir' = wdir => wdir' = [wdir EXCEPT ![w] = wdir[w]]
      /\ wdev' = wdev => wdev' = [wdev EXCEPT ![w] = wdev[w]]
      /\ wman' = wman => wman' = [wman EXCEPT ![w] = wman[w]]
    BY <1>1 DEF JobType
<1>3. ASSUME NEW v \in Devices, WriteFiles(w, v) PROVE StoreInv'
    <2>1. PICK d \in Dirs : d = <<v[1], now>> /\ d[1] = v[1] /\ d[2] = now
        BY <1>1, Places
    <2>2. /\ wpc' = [wpc EXCEPT ![w] = "manifest"] /\ wdir' = [wdir EXCEPT ![w] = d]
          /\ wdev' = [wdev EXCEPT ![w] = v] /\ wman' = wman
          /\ disk' = [disk EXCEPT ![d].files = v]
          /\ backups < MaxBackups /\ backups' = backups + 1
          /\ UNCHANGED <<now, rows, nextId, devices, tokens, op, todo, plan, rebuilds,
                         crashes, faults, previewed, excused>>
        BY <1>3, <2>1 DEF WriteFiles, tables, opVars
    <2>3. JobType' /\ \A u \in Workers : JobTrue(u)'
        <3>1. PICK m \in Devices \cup {NoDevice} : wman' = [wman EXCEPT ![w] = m]
            BY <1>2, <2>2
        <3>2. d \in Dirs \cup {NoDir} /\ v \in Devices \cup {NoDevice} /\ d[2] <= now
            BY <1>1, <2>1
        <3>3. PICK pc \in {"idle", "manifest", "read", "index"} : pc = "manifest"
            OBVIOUS
        <3>4. /\ pc # "idle" => d \in Dirs /\ d[2] <= now /\ v \in Devices /\ v[1] = d[1]
              /\ pc = "index" => m \in Devices /\ m[1] = d[1]
            BY <2>1, <3>2, <3>3
        <3>5. /\ wpc' = [wpc EXCEPT ![w] = pc] /\ wdir' = [wdir EXCEPT ![w] = d]
              /\ wdev' = [wdev EXCEPT ![w] = v] /\ UNCHANGED now
            BY <2>2, <3>3
        <3> QED
            BY <3>1, <3>2, <3>4, <3>5, OneJob
    <2>4. PICK m \in Devices \cup {NoDevice} : m = disk[d].manifest
        BY <1>1 DEF DiskType
    <2>5. disk' = [disk EXCEPT ![d] = [files |-> v, manifest |-> m]]
        <3>1. PICK r : r = disk[d]
            OBVIOUS
        <3>2. r \in [files : Devices \cup {NoDevice}, manifest : Devices \cup {NoDevice}]
            BY <1>1, <3>1 DEF DiskType
        <3>3. [r EXCEPT !.files = v] = [files |-> v, manifest |-> m]
            BY <2>4, <3>1, <3>2
        <3> QED
            BY <2>2, <3>1, <3>3
    <2>6. m # NoDevice => m[1] = d[1]
        BY <1>1, <2>4 DEF DiskTrue, Complete
    <2>7. v # NoDevice /\ d[2] <= now
        BY <1>1, <2>1, Places
    <2>8. DiskType' /\ DiskTrue' /\ \A e \in Dirs \ {d} : disk'[e] = disk[e]
        BY <2>2, <2>5, <2>6, <2>7, OneDirectory
    <2>9. PlanTrue'
        <3>1. \A e \in Dirs : e[2] < now /\ Exists(e)' => Exists(e)
            BY <1>1, <2>1, <2>8 DEF Exists
        <3> QED
            BY <1>1, <2>2, <3>1, PlanStays
    <2>10. BoundType'
        BY <1>1, <2>2, StoreAssumption DEF BoundType
    <2> QED
        BY <2>2, <2>3, <2>8, <2>9, <2>10, PartsStore, StoreFrame, StoreParts
<1>4. ASSUME WriteManifest(w) PROVE StoreInv'
    <2>1. PICK d \in Dirs : d = wdir[w] /\ d[2] <= now
        BY <1>1, <1>4 DEF WriteManifest, JobTrue
    <2>2. PICK v \in Devices : v = wdev[w] /\ v[1] = d[1] /\ v # NoDevice
        BY <1>1, <1>4, <2>1, Places DEF WriteManifest, JobTrue
    <2>3. /\ UNCHANGED <<now, rows, nextId, devices, tokens, op, todo, plan, backups,
                         rebuilds, crashes, faults, previewed, excused>>
        BY <1>4 DEF WriteManifest, tables, opVars, bounds
    <2>4. BoundType'
        BY <1>1, <2>3 DEF BoundType
    <2>5. CASE Exists(d)
        <3>1. /\ disk' = [disk EXCEPT ![d].manifest = v]
              /\ wpc' = [wpc EXCEPT ![w] = "read"] /\ UNCHANGED <<wdir, wdev, wman>>
            BY <1>4, <2>1, <2>2, <2>5 DEF WriteManifest
        <3>2. JobType' /\ \A u \in Workers : JobTrue(u)'
            <4>1. PICK m \in Devices \cup {NoDevice} : wman' = [wman EXCEPT ![w] = m]
                BY <1>2, <3>1
            <4>2. wdir' = [wdir EXCEPT ![w] = d] /\ wdev' = [wdev EXCEPT ![w] = v]
                BY <1>2, <2>1, <2>2, <3>1
            <4>3. d \in Dirs \cup {NoDir} /\ v \in Devices \cup {NoDevice}
                OBVIOUS
            <4>4. PICK pc \in {"idle", "manifest", "read", "index"} : pc = "read"
                OBVIOUS
            <4>5. /\ pc # "idle" => d \in Dirs /\ d[2] <= now /\ v \in Devices /\ v[1] = d[1]
                  /\ pc = "index" => m \in Devices /\ m[1] = d[1]
                BY <2>1, <2>2, <4>4
            <4>6. wpc' = [wpc EXCEPT ![w] = pc] /\ UNCHANGED now
                BY <2>3, <3>1, <4>4
            <4> QED
                BY <4>1, <4>2, <4>3, <4>5, <4>6, OneJob
        <3>3. PICK f \in Devices \cup {NoDevice} : f = disk[d].files /\ f # NoDevice
            BY <1>1, <2>5 DEF DiskType, Exists
        <3>4. disk' = [disk EXCEPT ![d] = [files |-> f, manifest |-> v]]
            <4>1. PICK r : r = disk[d]
                OBVIOUS
            <4>2. r \in [files : Devices \cup {NoDevice}, manifest : Devices \cup {NoDevice}]
                BY <1>1, <4>1 DEF DiskType
            <4>3. [r EXCEPT !.manifest = v] = [files |-> f, manifest |-> v]
                BY <3>3, <4>1, <4>2
            <4> QED
                BY <3>1, <4>1, <4>3
        <3>5. DiskType' /\ DiskTrue' /\ \A e \in Dirs \ {d} : disk'[e] = disk[e]
            BY <2>1, <2>2, <2>3, <3>3, <3>4, OneDirectory
        <3>6. PlanTrue'
            <4>1. \A e \in Dirs : e[2] < now /\ Exists(e)' => Exists(e)
                BY <2>5, <3>5 DEF Exists
            <4> QED
                BY <1>1, <2>3, <4>1, PlanStays
        <3> QED
            BY <2>3, <2>4, <3>2, <3>5, <3>6, PartsStore, StoreFrame, StoreParts
    <2>6. CASE ~Exists(d)
        <3>1. JobIdle(w) /\ UNCHANGED disk
            BY <1>4, <2>1, <2>6 DEF WriteManifest
        <3>2. JobType' /\ \A u \in Workers : JobTrue(u)'
            BY <2>3, <3>1, JobEnds
        <3>3. PlanTrue'
            BY <1>1, <2>3, <3>1, PlanStays DEF Exists
        <3> QED
            BY <2>3, <2>4, <3>1, <3>2, <3>3, PartsStore, StoreFrame, StoreParts
    <2> QED
        BY <2>5, <2>6
<1>5. ASSUME ReadManifest(w) PROVE StoreInv'
    <2>1. PICK d \in Dirs : d = wdir[w] /\ d[2] <= now
        BY <1>1, <1>5 DEF ReadManifest, JobTrue
    <2>2. PICK v \in Devices : v = wdev[w] /\ v[1] = d[1]
        BY <1>1, <1>5, <2>1 DEF ReadManifest, JobTrue
    <2>3. /\ UNCHANGED <<now, disk, rows, nextId, devices, tokens, op, todo, plan, backups,
                         rebuilds, crashes, faults, previewed, excused>>
        BY <1>5 DEF ReadManifest, tables, opVars, bounds
    <2>4. JobType' /\ \A u \in Workers : JobTrue(u)'
        <3>1. CASE Complete(d)
            <4>1. PICK m \in Devices : m = disk[d].manifest /\ m[1] = d[1]
                BY <1>1, <3>1 DEF DiskType, DiskTrue, Complete
            <4>2. /\ wman' = [wman EXCEPT ![w] = m] /\ wpc' = [wpc EXCEPT ![w] = "index"]
                  /\ UNCHANGED <<wdir, wdev>>
                BY <1>5, <2>1, <3>1, <4>1 DEF ReadManifest
            <4>3. wdir' = [wdir EXCEPT ![w] = d] /\ wdev' = [wdev EXCEPT ![w] = v]
                BY <1>2, <2>1, <2>2, <4>2
            <4>4. /\ d \in Dirs \cup {NoDir} /\ v \in Devices \cup {NoDevice}
                  /\ m \in Devices \cup {NoDevice}
                OBVIOUS
            <4> QED
                BY <2>1, <2>2, <2>3, <4>1, <4>2, <4>3, <4>4, OneJob
        <3>2. CASE ~Complete(d)
            BY <1>5, <2>1, <2>3, <3>2, JobEnds DEF ReadManifest
        <3> QED
            BY <3>1, <3>2
    <2>5. BoundType'
        BY <1>1, <2>3 DEF BoundType
    <2>6. PlanTrue'
        BY <1>1, <2>3, PlanStays DEF Exists
    <2> QED
        BY <2>3, <2>4, <2>5, <2>6, PartsStore, StoreFrame, StoreParts
<1>6. ASSUME Index(w) PROVE StoreInv'
    <2>1. PICK d \in Dirs : d = wdir[w] /\ d[2] <= now
        BY <1>1, <1>6 DEF Index, JobTrue
    <2>2. PICK v \in Devices : v = wman[w] /\ v[1] = d[1]
        BY <1>1, <1>6, <2>1 DEF Index, JobTrue
    <2>3. /\ UNCHANGED <<now, disk, tokens, op, todo, plan, backups,
                         rebuilds, crashes, faults, previewed, excused>>
          /\ Upsert(d, v) /\ JobIdle(w)
        BY <1>6, <2>1, <2>2 DEF Index, opVars, bounds
    <2>4. JobType' /\ \A u \in Workers : JobTrue(u)'
        BY <2>3, JobEnds
    <2>5. /\ TableType' /\ RowsTrue' /\ nextId <= nextId'
          /\ \A e \in Dirs : (e = d /\ rows'[e].id = nextId) \/ rows'[e] = rows[e]
        BY <2>1, <2>2, <2>3, UpsertTrue
    <2>6. BoundType'
        BY <1>1, <2>3 DEF BoundType
    <2>7. PlanTrue'
        <3>1. nextId' \in Nat
            BY <2>5 DEF TableType
        <3> QED
            BY <1>1, <2>3, <2>5, <3>1, PlanStays DEF Exists
    <2> QED
        BY <2>3, <2>4, <2>5, <2>6, <2>7, PartsStore, StoreFrame, StoreParts
<1>7. ASSUME IndexFails(w) PROVE StoreInv'
    <2>1. wdir[w] \in Dirs
        BY <1>1, <1>7 DEF IndexFails, JobTrue
    <2>2. /\ UNCHANGED <<now, disk, rows, nextId, devices, tokens, op, todo, plan, backups,
                         rebuilds, crashes, previewed>>
          /\ JobIdle(w) /\ excused' = excused \cup {wdir[w]}
          /\ faults < MaxFaults /\ faults' = faults + 1
        BY <1>7 DEF IndexFails, tables, opVars
    <2>3. JobType' /\ \A u \in Workers : JobTrue(u)'
        BY <2>2, JobEnds
    <2>4. BoundType'
        BY <1>1, <2>1, <2>2, StoreAssumption DEF BoundType
    <2>5. PlanTrue'
        BY <1>1, <2>2, PlanStays DEF Exists
    <2> QED
        BY <2>2, <2>3, <2>4, <2>5, PartsStore, StoreFrame, StoreParts
<1> QED
    BY <1>3, <1>4, <1>5, <1>6, <1>7

\* A directory of the plan is taken up: it is gone afterwards, or excused.
LEMMA PlanRemoves ==
    ASSUME StoreInv, NEW d \in Dirs, NextToRemove(d),
           UNCHANGED <<op, plan, previewed, rows, nextId, now>>,
           excused \subseteq excused', d \in excused' \/ ~Exists(d)',
           \A e \in Dirs : Exists(e)' => Exists(e)
    PROVE  PlanTrue' /\ OpType'
<1>1. /\ op["web"] = "remove" /\ PlanTrue /\ OpType /\ "web" \in Operators
      /\ todo' = [todo EXCEPT !["web"] = todo["web"] \ {d}]
      /\ previewed \subseteq Plans
    BY PartsStore DEF NextToRemove, Operators, PlanType
<1>2. OpType' /\ todo'["web"] = todo["web"] \ {d}
    BY <1>1 DEF OpType
<1>3. \A p \in plan.doomed : p.dir \in Dirs
    BY <1>1 DEF PlanTrue, Plans
<1>4. \A p \in plan.doomed : p.dir \in todo'["web"] \/ p.dir \in excused' \/ ~Exists(p.dir)'
    BY <1>1, <1>2, <1>3 DEF PlanTrue
<1>5. PlanTrue'
    BY <1>1, <1>2, <1>4 DEF PlanTrue
<1> QED
    BY <1>2, <1>5

\* What is still to be removed is of the past.
LEMMA RemovedIsPast ==
    ASSUME StoreInv, NEW d \in Dirs, NextToRemove(d)
    PROVE  d[2] < now /\ d[2] \in Nat /\ now \in Nat
<1>1. PlanTrue /\ now \in Nat
    BY PartsStore, Places DEF BoundType
<1>2. PICK p \in plan.doomed : p.dir = d
    BY <1>1 DEF NextToRemove, PlanTrue
<1> QED
    BY <1>1, <1>2, Places DEF NextToRemove, PlanTrue

\* The steps of retention keep the invariant.
LEMMA RetentionKeeps ==
    ASSUME StoreInv,
           \/ \E keep \in Keeps, scope \in Scopes : Preview(keep, scope) \/ Apply(keep, scope)
           \/ \E p \in tokens : TokenLost(p)
           \/ \E d \in Dirs : Remove(d) \/ RemoveFails(d)
           \/ Forget
    PROVE  StoreInv'
<1>1. /\ DiskType /\ DiskTrue /\ TableType /\ RowsTrue /\ BoundType /\ PlanType /\ OpType
      /\ now \in Times /\ now \in Nat /\ nextId \in Nat /\ tokens \subseteq previewed
      /\ "web" \in Operators
    BY PartsStore, Places DEF BoundType, TableType, Operators
<1>2. ASSUME NEW keep \in Keeps, NEW scope \in Scopes, Preview(keep, scope) PROVE StoreInv'
    <2>1. PICK new \in Plans : new = PlanOf(keep, scope)
        BY PlanOfTrue
    <2>2. /\ UNCHANGED <<now, disk, rows, nextId, devices, wpc, wdir, wdev, wman, op, todo,
                         plan, backups, rebuilds, crashes, faults, excused>>
          /\ tokens' = tokens \cup {new} /\ previewed' = previewed \cup {new}
        BY <1>2, <2>1 DEF Preview, tables, jobVars, opVars, bounds
    <2>3. PlanType' /\ (tokens \subseteq previewed)'
        BY <1>1, <2>2 DEF PlanType
    <2>4. BoundType'
        BY <1>1, <2>2 DEF BoundType
    <2>5. PlanTrue'
        BY <1>1, <2>2, PlanStays DEF Exists
    <2> QED
        BY <2>2, <2>3, <2>4, <2>5, StoreFrame, StoreParts
<1>3. ASSUME NEW keep \in Keeps, NEW scope \in Scopes, Apply(keep, scope) PROVE StoreInv'
    <2>1. PICK new \in Plans : new = PlanOf(keep, scope)
        BY PlanOfTrue
    <2>2. PICK gone \in SUBSET Dirs : gone = Candidates(keep, scope)
        BY DEF Candidates
    <2>3. /\ UNCHANGED <<now, disk, rows, nextId, devices, wpc, wdir, wdev, wman,
                         backups, rebuilds, crashes, faults, previewed, excused>>
          /\ new \in tokens /\ tokens' = tokens \ {new} /\ plan' = new
          /\ op' = [op EXCEPT !["web"] = "remove"] /\ todo' = [todo EXCEPT !["web"] = gone]
        BY <1>3, <2>1, <2>2 DEF Apply, tables, jobVars, bounds
    <2>4. PlanType' /\ (tokens \subseteq previewed)'
        BY <1>1, <2>3 DEF PlanType
    <2>5. OpType' /\ todo'["web"] = gone
        BY <1>1, <2>3 DEF OpType
    <2>6. BoundType'
        BY <1>1, <2>3 DEF BoundType
    <2>7. ASSUME NEW p \in new.doomed
          PROVE  /\ p.id < nextId /\ p.dir[2] < now /\ p.dir \in gone
                 /\ \A d \in Dirs : rows[d].id = p.id => d = p.dir /\ rows[d].dev = p.dev
        <3>1. /\ p.dir \in gone /\ p.id = rows[p.dir].id /\ p.dev = rows[p.dir].dev
              /\ p.dir \in Dirs /\ Indexed(p.dir)
              /\ \E c \in Dirs : Indexed(c) /\ c[2] > p.dir[2]
            BY <2>1, <2>2, PlanOfTrue
        <3>2. PICK c \in Dirs : Indexed(c) /\ c[2] > p.dir[2]
            BY <3>1
        <3>3. c[2] <= now /\ c[2] \in Nat /\ p.dir[2] \in Nat /\ p.id < nextId
            BY <1>1, <3>1, <3>2, Places DEF RowsTrue
        <3>4. \A d \in Dirs : rows[d].id = p.id => d = p.dir
            BY <1>1, <3>1 DEF RowsTrue
        <3> QED
            BY <1>1, <3>1, <3>2, <3>3, <3>4
    <2>8. \A d \in gone : \E p \in new.doomed : p.dir = d
        BY <2>1, <2>2, PlanOfTrue
    <2>9. PlanTrue'
        BY <1>1, <2>3, <2>5, <2>7, <2>8 DEF PlanTrue
    <2> QED
        BY <2>3, <2>4, <2>5, <2>6, <2>9, StoreFrame, StoreParts
<1>4. ASSUME NEW p \in tokens, TokenLost(p) PROVE StoreInv'
    <2>1. /\ UNCHANGED <<now, disk, rows, nextId, devices, wpc, wdir, wdev, wman, op, todo,
                         plan, backups, rebuilds, crashes, faults, previewed, excused>>
          /\ tokens' = tokens \ {p}
        BY <1>4 DEF TokenLost, tables, jobVars, opVars, bounds
    <2>2. PlanType' /\ (tokens \subseteq previewed)'
        BY <1>1, <2>1 DEF PlanType
    <2>3. BoundType'
        BY <1>1, <2>1 DEF BoundType
    <2>4. PlanTrue'
        BY <1>1, <2>1, PlanStays DEF Exists
    <2> QED
        BY <2>1, <2>2, <2>3, <2>4, StoreFrame, StoreParts
<1>5. ASSUME NEW d \in Dirs, Remove(d) PROVE StoreInv'
    <2>1. /\ UNCHANGED <<now, rows, nextId, devices, tokens, wpc, wdir, wdev, wman, op, plan,
                         backups, rebuilds, crashes, faults, previewed, excused>>
          /\ NextToRemove(d)
          /\ disk' = [disk EXCEPT ![d] = [files |-> NoDevice, manifest |-> NoDevice]]
        BY <1>5 DEF Remove, Absent, tables, jobVars, bounds
    <2>2. d[2] <= now
        BY <2>1, RemovedIsPast
    <2>3. /\ DiskType' /\ DiskTrue' /\ ~Exists(d)'
          /\ \A e \in Dirs \ {d} : disk'[e] = disk[e]
        BY <2>1, <2>2, OneDirectory
    <2>4. PlanTrue' /\ OpType'
        BY <2>1, <2>3, PlanRemoves DEF Exists
    <2>5. BoundType'
        BY <1>1, <2>1 DEF BoundType
    <2> QED
        BY <1>1, <2>1, <2>3, <2>4, <2>5, StoreFrame, StoreParts
<1>6. ASSUME NEW d \in Dirs, RemoveFails(d) PROVE StoreInv'
    <2>1. /\ UNCHANGED <<now, rows, nextId, devices, tokens, wpc, wdir, wdev, wman, op, plan,
                         backups, rebuilds, crashes, previewed>>
          /\ NextToRemove(d) /\ Exists(d) /\ excused' = excused \cup {d}
          /\ faults < MaxFaults /\ faults' = faults + 1
          /\ disk' = disk \/ disk' = [disk EXCEPT ![d].manifest = NoDevice]
        BY <1>6 DEF RemoveFails, tables, jobVars
    <2>2. d[2] <= now
        BY <2>1, RemovedIsPast
    <2>3. /\ DiskType' /\ DiskTrue' /\ \A e \in Dirs : Exists(e)' => Exists(e)
        <3>1. CASE disk' = disk
            BY <2>1, <3>1, StoreFrame DEF Exists
        <3>2. CASE disk' = [disk EXCEPT ![d].manifest = NoDevice]
            <4>1. PICK r : r = disk[d]
                OBVIOUS
            <4>2. r \in [files : Devices \cup {NoDevice}, manifest : Devices \cup {NoDevice}]
                BY <1>1, <4>1 DEF DiskType
            <4>3. [r EXCEPT !.manifest = NoDevice] = [files |-> r.files, manifest |-> NoDevice]
                BY <4>2
            <4>4. disk' = [disk EXCEPT ![d] = [files |-> r.files, manifest |-> NoDevice]]
                BY <3>2, <4>1, <4>3
            <4>5. r.files \in Devices \cup {NoDevice}
                BY <4>2
            <4>6. /\ DiskType' /\ DiskTrue' /\ \A e \in Dirs \ {d} : disk'[e] = disk[e]
                BY <2>1, <2>2, <4>4, <4>5, OneDirectory
            <4> QED
                BY <2>1, <4>6 DEF Exists
        <3> QED
            BY <2>1, <3>1, <3>2
    <2>4. PlanTrue' /\ OpType'
        BY <2>1, <2>3, PlanRemoves
    <2>5. BoundType'
        BY <1>1, <2>1, StoreAssumption DEF BoundType
    <2> QED
        BY <1>1, <2>1, <2>3, <2>4, <2>5, StoreFrame, StoreParts
<1>7. CASE Forget
    <2>1. PICK gone, hit : gone = {p.id : p \in plan.doomed} /\ hit = {p.dev : p \in plan.doomed}
        OBVIOUS
    <2>2. /\ UNCHANGED <<now, disk, nextId, tokens, wpc, wdir, wdev, wman, todo,
                         backups, rebuilds, crashes, faults, previewed, excused>>
          /\ rows' = [d \in Dirs |-> IF rows[d].id \in gone THEN NoRow ELSE rows[d]]
          /\ devices' = [v \in Devices |-> IF v \in hit /\ (devices[v] # NoEntry)
                                           THEN Aggregate(rows', v) ELSE devices[v]]
          /\ op' = [op EXCEPT !["web"] = "idle"] /\ plan' = NoPlan
        BY <1>7, <2>1 DEF Forget, jobVars, bounds
    <2>3. NoRow \in [id : Nat, dev : Devices \cup {NoDevice}] /\ NoRow.id = 0
        BY DEF NoRow
    <2>4. rows' \in [Dirs -> [id : Nat, dev : Devices \cup {NoDevice}]]
        BY <1>1, <2>2, <2>3 DEF TableType
    <2>5. devices' \in [Devices -> [count : Nat, latest : 0..MaxTime]]
        <3>1. PICK table : table = rows'
            OBVIOUS
        <3>2. \A v : Aggregate(table, v) \in [count : Nat, latest : 0..MaxTime]
            BY AggregateType
        <3> QED
            BY <1>1, <2>2, <3>1, <3>2 DEF TableType
    <2>6. TableType'
        BY <1>1, <2>2, <2>4, <2>5 DEF TableType
    <2>7. RowsTrue'
        <3>1. \A d \in Dirs : rows'[d] = rows[d] \/ rows'[d].id = 0
            BY <2>2, <2>3
        <3>2. nextId > 0
            BY <1>1 DEF TableType
        <3> QED
            BY <1>1, <2>2, <3>1, <3>2 DEF RowsTrue, Indexed
    <2>8. OpType' /\ PlanTrue'
        BY <1>1, <2>2 DEF OpType, PlanTrue
    <2>9. PlanType' /\ BoundType'
        BY <1>1, <2>2 DEF PlanType, BoundType
    <2> QED
        BY <1>1, <2>2, <2>6, <2>7, <2>8, <2>9, StoreFrame, StoreParts
<1> QED
    BY <1>2, <1>3, <1>4, <1>5, <1>6, <1>7

\* The steps of a rebuild, by a handler or from the command line, keep the invariant.
LEMMA RebuildKeeps ==
    ASSUME StoreInv, NEW x \in Operators,
           \/ Scan(x) \/ Wipe(x) \/ Rebuilt(x)
           \/ \E d \in Dirs : Reindex(x, d) \/ ReindexFails(x, d)
    PROVE  StoreInv'
<1>1. /\ DiskType /\ DiskTrue /\ TableType /\ RowsTrue /\ BoundType /\ PlanType /\ OpType
      /\ now \in Times /\ now \in Nat /\ nextId \in Nat /\ tokens \subseteq previewed
      /\ "web" \in Operators
    BY PartsStore, Places DEF BoundType, TableType, Operators
<1>2. CASE Scan(x)
    <2>1. PICK found \in SUBSET Dirs : found = {d \in Dirs : Complete(d)}
        OBVIOUS
    <2>2. /\ UNCHANGED <<now, disk, rows, nextId, devices, tokens, wpc, wdir, wdev, wman,
                         plan, backups, crashes, faults, previewed, excused>>
          /\ op[x] = "idle" /\ op' = [op EXCEPT ![x] = "wipe"]
          /\ todo' = [todo EXCEPT ![x] = found]
          /\ rebuilds < MaxRebuilds /\ rebuilds' = rebuilds + 1
        BY <1>2, <2>1 DEF Scan, tables, jobVars
    <2>3. OpType'
        BY <1>1, <2>2 DEF OpType
    <2>4. BoundType'
        BY <1>1, <2>2, StoreAssumption DEF BoundType
    <2>5. op'["web"] = "remove" => op["web"] = "remove" /\ todo'["web"] = todo["web"]
        BY <1>1, <2>2 DEF OpType
    <2>6. PlanTrue'
        BY <1>1, <2>2, <2>5, PlanStays DEF Exists
    <2> QED
        BY <1>1, <2>2, <2>3, <2>4, <2>6, StoreFrame, StoreParts
<1>3. CASE Wipe(x)
    <2>1. PICK lost \in SUBSET Dirs : lost = {d \in Dirs : Indexed(d) /\ d \notin todo[x]}
        OBVIOUS
    <2>2. /\ UNCHANGED <<now, disk, nextId, tokens, wpc, wdir, wdev, wman, todo,
                         plan, backups, rebuilds, crashes, faults, previewed>>
          /\ op' = [op EXCEPT ![x] = "reindex"]
          /\ rows' = [d \in Dirs |-> NoRow] /\ devices' = [v \in Devices |-> NoEntry]
          /\ excused' = excused \cup lost
        BY <1>3, <2>1 DEF Wipe, jobVars, bounds
    <2>3. OpType' /\ BoundType'
        BY <1>1, <2>2 DEF OpType, BoundType
    <2>4. /\ NoRow \in [id : Nat, dev : Devices \cup {NoDevice}] /\ NoRow.id = 0
          /\ NoEntry \in [count : Nat, latest : 0..MaxTime]
        BY StoreAssumption DEF NoRow, NoEntry
    <2>5. /\ rows' \in [Dirs -> [id : Nat, dev : Devices \cup {NoDevice}]]
          /\ \A d \in Dirs : rows'[d].id = 0
          /\ devices' \in [Devices -> [count : Nat, latest : 0..MaxTime]]
        BY <2>2, <2>4
    <2>6. TableType' /\ RowsTrue'
        BY <1>1, <2>2, <2>5 DEF TableType, RowsTrue, Indexed
    <2>7. op'["web"] = "remove" => op["web"] = "remove"
        BY <1>1, <2>2 DEF OpType
    <2>8. PlanTrue'
        BY <1>1, <2>2, <2>5, <2>7, PlanStays DEF Exists
    <2> QED
        BY <1>1, <2>2, <2>3, <2>6, <2>8, StoreFrame, StoreParts
<1>4. CASE Rebuilt(x)
    <2>1. /\ UNCHANGED <<now, disk, rows, nextId, devices, tokens, wpc, wdir, wdev, wman,
                         todo, plan, backups, rebuilds, crashes, faults, previewed, excused>>
          /\ op' = [op EXCEPT ![x] = "idle"]
        BY <1>4 DEF Rebuilt, tables, jobVars, bounds
    <2>2. OpType' /\ BoundType' /\ (op'["web"] = "remove" => op["web"] = "remove")
        BY <1>1, <2>1 DEF OpType, BoundType
    <2>3. PlanTrue'
        BY <1>1, <2>1, <2>2, PlanStays DEF Exists
    <2> QED
        BY <1>1, <2>1, <2>2, <2>3, StoreFrame, StoreParts
<1>5. ASSUME NEW d \in Dirs, Reindex(x, d) PROVE StoreInv'
    <2>1. /\ UNCHANGED <<now, disk, tokens, wpc, wdir, wdev, wman, op,
                         plan, backups, rebuilds, crashes, faults, previewed, excused>>
          /\ op[x] = "reindex" /\ todo' = [todo EXCEPT ![x] = todo[x] \ {d}]
        BY <1>5 DEF Reindex, NextToIndex, jobVars, bounds
    <2>2. OpType' /\ BoundType'
        BY <1>1, <2>1 DEF OpType, BoundType
    <2>3. op'["web"] = "remove" => op["web"] = "remove" /\ todo'["web"] = todo["web"]
        BY <1>1, <2>1 DEF OpType
    <2>4. /\ TableType' /\ RowsTrue' /\ nextId <= nextId'
          /\ \A e \in Dirs : rows'[e] = rows[e] \/ rows'[e].id \in {0, nextId}
        <3>1. CASE Complete(d)
            <4>1. PICK m \in Devices : m = disk[d].manifest /\ m[1] = d[1]
                BY <1>1, <3>1 DEF DiskType, DiskTrue, Complete
            <4>2. Exists(d) /\ d[2] <= now
                BY <1>1, <3>1 DEF DiskType, DiskTrue, Complete, Exists
            <4>3. Upsert(d, m)
                BY <1>5, <3>1, <4>1 DEF Reindex
            <4> QED
                BY <2>1, <4>1, <4>2, <4>3, UpsertTrue
        <3>2. CASE ~Complete(d)
            <4>1. UNCHANGED <<rows, nextId, devices>>
                BY <1>5, <3>2 DEF Reindex, tables
            <4> QED
                BY <1>1, <2>1, <4>1, StoreFrame
        <3> QED
            BY <3>1, <3>2
    <2>5. nextId' \in Nat
        BY <2>4 DEF TableType
    <2>6. PlanTrue'
        BY <1>1, <2>1, <2>3, <2>4, <2>5, PlanStays DEF Exists
    <2> QED
        BY <1>1, <2>1, <2>2, <2>4, <2>6, StoreFrame, StoreParts
<1>6. ASSUME NEW d \in Dirs, ReindexFails(x, d) PROVE StoreInv'
    <2>1. /\ UNCHANGED <<now, disk, rows, nextId, devices, tokens, wpc, wdir, wdev, wman, op,
                         plan, backups, rebuilds, crashes, previewed>>
          /\ op[x] = "reindex" /\ todo' = [todo EXCEPT ![x] = todo[x] \ {d}]
          /\ faults < MaxFaults /\ faults' = faults + 1 /\ excused' = excused \cup {d}
        BY <1>6 DEF ReindexFails, NextToIndex, tables, jobVars
    <2>2. OpType'
        BY <1>1, <2>1 DEF OpType
    <2>3. BoundType'
        BY <1>1, <2>1, StoreAssumption DEF BoundType
    <2>4. op'["web"] = "remove" => op["web"] = "remove" /\ todo'["web"] = todo["web"]
        BY <1>1, <2>1 DEF OpType
    <2>5. PlanTrue'
        BY <1>1, <2>1, <2>4, PlanStays DEF Exists
    <2> QED
        BY <1>1, <2>1, <2>2, <2>3, <2>5, StoreFrame, StoreParts
<1> QED
    BY <1>2, <1>3, <1>4, <1>5, <1>6

\* Time and restarts keep the invariant.
LEMMA RestartKeeps ==
    ASSUME StoreInv, Tick \/ Crash \/ CliKilled
    PROVE  StoreInv'
<1>1. /\ DiskType /\ DiskTrue /\ TableType /\ RowsTrue /\ BoundType /\ PlanType /\ OpType
      /\ JobType /\ (\A w \in Workers : JobTrue(w))
      /\ now \in Times /\ now \in Nat /\ nextId \in Nat /\ tokens \subseteq previewed
      /\ "web" \in Operators /\ "cli" \in Operators
    BY PartsStore, Places DEF BoundType, TableType, Operators
<1>2. CASE Tick
    <2>1. /\ now < MaxTime /\ now' = now + 1
          /\ UNCHANGED <<disk, rows, nextId, devices, tokens, wpc, wdir, wdev, wman, op, todo,
                         plan, backups, rebuilds, crashes, faults, previewed, excused>>
        BY <1>2 DEF Tick, tables, jobVars, opVars, bounds
    <2>2. now' \in Times /\ now' \in Nat /\ now <= now'
        BY <1>1, <2>1, StoreAssumption DEF Times
    <2>3. BoundType'
        BY <1>1, <2>1, <2>2 DEF BoundType
    <2>4. \A d \in Dirs : d[2] <= now => d[2] <= now'
        BY <1>1, <2>1, Places
    <2>5. RowsTrue' /\ DiskTrue'
        BY <1>1, <2>1, <2>4 DEF RowsTrue, DiskTrue, Indexed, Exists, Complete
    <2>6. \A w \in Workers : JobTrue(w)'
        BY <1>1, <2>1, <2>4 DEF JobTrue
    <2>7. PlanTrue'
        BY <1>1, <2>1, <2>2, PlanStays DEF Exists
    <2> QED
        BY <1>1, <2>1, <2>3, <2>5, <2>6, <2>7, StoreFrame, StoreParts
<1>3. CASE Crash
    <2>1. PICK lost : lost = {wdir[w] : w \in {u \in Workers : wpc[u] # "idle"}}
                             \cup (IF op["web"] = "reindex" THEN todo["web"] ELSE {})
        OBVIOUS
    <2>2. /\ UNCHANGED <<now, disk, rows, nextId, devices, backups, rebuilds, faults, previewed>>
          /\ crashes < MaxCrashes /\ crashes' = crashes + 1 /\ tokens' = {} /\ plan' = NoPlan
          /\ wpc' = [w \in Workers |-> "idle"] /\ wdir' = [w \in Workers |-> NoDir]
          /\ wdev' = [w \in Workers |-> NoDevice] /\ wman' = [w \in Workers |-> NoDevice]
          /\ op' = [op EXCEPT !["web"] = "idle"] /\ todo' = [todo EXCEPT !["web"] = {}]
          /\ excused' = excused \cup lost
        BY <1>3, <2>1 DEF Crash, tables
    <2>3. lost \subseteq Dirs
        <3>1. \A w \in Workers : wpc[w] # "idle" => wdir[w] \in Dirs
            BY <1>1 DEF JobTrue
        <3>2. todo["web"] \subseteq Dirs
            BY <1>1 DEF OpType
        <3> QED
            BY <2>1, <3>1, <3>2
    <2>4. BoundType'
        BY <1>1, <2>2, <2>3, StoreAssumption DEF BoundType
    <2>5. JobType' /\ \A w \in Workers : JobTrue(w)'
        BY <2>2 DEF JobType, JobTrue
    <2>6. OpType' /\ PlanType' /\ PlanTrue' /\ (tokens \subseteq previewed)'
        BY <1>1, <2>2 DEF OpType, PlanType, PlanTrue
    <2> QED
        BY <1>1, <2>2, <2>4, <2>5, <2>6, StoreFrame, StoreParts
<1>4. CASE CliKilled
    <2>1. PICK lost \in SUBSET Dirs : lost = IF op["cli"] = "reindex" THEN todo["cli"] ELSE {}
        BY <1>1 DEF OpType
    <2>2. /\ UNCHANGED <<now, disk, rows, nextId, devices, tokens, wpc, wdir, wdev, wman, plan,
                         backups, rebuilds, faults, previewed>>
          /\ crashes < MaxCrashes /\ crashes' = crashes + 1 /\ excused' = excused \cup lost
          /\ op' = [op EXCEPT !["cli"] = "idle"] /\ todo' = [todo EXCEPT !["cli"] = {}]
        BY <1>4, <2>1 DEF CliKilled, tables, jobVars
    <2>3. OpType' /\ op'["web"] = op["web"] /\ todo'["web"] = todo["web"]
        BY <1>1, <2>2 DEF OpType
    <2>4. BoundType'
        BY <1>1, <2>2, StoreAssumption DEF BoundType
    <2>5. PlanTrue'
        BY <1>1, <2>2, <2>3, PlanStays DEF Exists
    <2> QED
        BY <1>1, <2>2, <2>3, <2>4, <2>5, StoreFrame, StoreParts
<1> QED
    BY <1>2, <1>3, <1>4

\* There is nothing at first.
THEOREM StoreInitInv == Init => StoreInv
<1> SUFFICES ASSUME Init PROVE StoreInv
    OBVIOUS
<1>1. DiskType /\ DiskTrue
    <2>1. /\ Absent \in [files : Devices \cup {NoDevice}, manifest : Devices \cup {NoDevice}]
          /\ Absent.files = NoDevice /\ Absent.manifest = NoDevice
        BY DEF Absent
    <2> QED
        BY <2>1 DEF Init, DiskType, DiskTrue, Exists, Complete
<1>2. TableType /\ RowsTrue
    <2>1. /\ NoRow \in [id : Nat, dev : Devices \cup {NoDevice}] /\ NoRow.id = 0
          /\ NoEntry \in [count : Nat, latest : 0..MaxTime]
        BY StoreAssumption DEF NoRow, NoEntry
    <2> QED
        BY <2>1 DEF Init, TableType, RowsTrue, Indexed
<1>3. PlanType /\ OpType /\ PlanTrue /\ tokens \subseteq previewed
    BY DEF Init, PlanType, OpType, PlanTrue, Operators
<1>4. JobType /\ \A w \in Workers : JobTrue(w)
    BY DEF Init, JobType, JobTrue
<1>5. BoundType
    BY Places, StoreAssumption DEF Init, BoundType
<1> QED
    BY <1>1, <1>2, <1>3, <1>4, <1>5, TypeParts DEF StoreInv

\* Every step keeps the invariant.
THEOREM StoreNextInv == StoreInv /\ [Next]_vars => StoreInv'
<1> SUFFICES ASSUME StoreInv, [Next]_vars PROVE StoreInv'
    OBVIOUS
<1>1. ASSUME UNCHANGED vars PROVE StoreInv'
    <2>1. /\ UNCHANGED <<now, disk, rows, nextId, devices, tokens, wpc, wdir, wdev, wman, op>>
          /\ UNCHANGED <<todo, plan, backups, rebuilds, crashes, faults, previewed, excused>>
        BY <1>1 DEF vars, tables, jobVars, opVars, bounds
    <2>2. BoundType' /\ PlanTrue' /\ (tokens \subseteq previewed)'
        BY <2>1, PartsStore DEF BoundType, PlanTrue, Exists
    <2> QED
        BY <2>1, <2>2, StoreFrame, StoreParts
<1> QED
    BY <1>1, JobKeeps, RetentionKeeps, RebuildKeeps, RestartKeeps DEF Next

THEOREM StoreAlways == Spec => []StoreInv
BY StoreInitInv, StoreNextInv, PTL DEF Spec

\* Every variable has its type, and no manifest lies in a directory without files.
THEOREM StoreTypeCorrect == Spec => []TypeOK
BY StoreAlways, PTL DEF StoreInv
-----------------------------------------------------------------------------
(* The table of devices.                                                   *)

\* Which steps change the tables, and which the disk.
LEMMA TableSteps ==
    ASSUME [Next]_vars
    PROVE  \/ \E w \in Workers : Index(w)
           \/ \E x \in Operators, d \in Dirs : Reindex(x, d)
           \/ \E x \in Operators : Wipe(x)
           \/ Forget
           \/ UNCHANGED <<rows, nextId, devices>>
<1>1. ASSUME NEW w \in Workers,
             \/ \E v \in Devices : WriteFiles(w, v)
             \/ WriteManifest(w) \/ ReadManifest(w) \/ IndexFails(w)
      PROVE  UNCHANGED <<rows, nextId, devices>>
    BY <1>1 DEF WriteFiles, WriteManifest, ReadManifest, IndexFails, tables
<1>2. ASSUME \/ \E keep \in Keeps, scope \in Scopes : Preview(keep, scope) \/ Apply(keep, scope)
             \/ \E p \in tokens : TokenLost(p)
             \/ \E d \in Dirs : Remove(d) \/ RemoveFails(d)
      PROVE  UNCHANGED <<rows, nextId, devices>>
    BY <1>2 DEF Preview, Apply, TokenLost, Remove, RemoveFails, tables
<1>3. ASSUME NEW x \in Operators,
             Scan(x) \/ Rebuilt(x) \/ \E d \in Dirs : ReindexFails(x, d)
      PROVE  UNCHANGED <<rows, nextId, devices>>
    BY <1>3 DEF Scan, Rebuilt, ReindexFails, tables
<1>4. ASSUME Tick \/ Crash \/ CliKilled \/ UNCHANGED vars
      PROVE  UNCHANGED <<rows, nextId, devices>>
    BY <1>4 DEF Tick, Crash, CliKilled, vars, tables
<1> QED
    BY <1>1, <1>2, <1>3, <1>4 DEF Next

LEMMA DiskSteps ==
    ASSUME [Next]_vars
    PROVE  \/ \E w \in Workers : WriteManifest(w) \/ \E v \in Devices : WriteFiles(w, v)
           \/ \E d \in Dirs : Remove(d) \/ RemoveFails(d)
           \/ UNCHANGED disk
<1>1. ASSUME NEW w \in Workers, ReadManifest(w) \/ Index(w) \/ IndexFails(w)
      PROVE  UNCHANGED disk
    BY <1>1 DEF ReadManifest, Index, IndexFails
<1>2. ASSUME \/ \E keep \in Keeps, scope \in Scopes : Preview(keep, scope) \/ Apply(keep, scope)
             \/ \E p \in tokens : TokenLost(p)
             \/ Forget
      PROVE  UNCHANGED disk
    BY <1>2 DEF Preview, Apply, TokenLost, Forget
<1>3. ASSUME NEW x \in Operators,
             \/ Scan(x) \/ Wipe(x) \/ Rebuilt(x)
             \/ \E d \in Dirs : Reindex(x, d) \/ ReindexFails(x, d)
      PROVE  UNCHANGED disk
    BY <1>3 DEF Scan, Wipe, Rebuilt, Reindex, ReindexFails
<1>4. ASSUME Tick \/ Crash \/ CliKilled \/ UNCHANGED vars
      PROVE  UNCHANGED disk
    BY <1>4 DEF Tick, Crash, CliKilled, vars
<1> QED
    BY <1>1, <1>2, <1>3, <1>4 DEF Next

\* index_manifest recomputes the entry of the device it touched, and needs no more.
LEMMA UpsertExact ==
    ASSUME StoreInv, AggregatesExact, NEW d \in Dirs, NEW v \in Devices, Upsert(d, v)
    PROVE  AggregatesExact'
<1>1. TableType /\ nextId # 0
    BY PartsStore DEF TableType
<1>2. CASE Indexed(d)
    <2>1. rows' = rows
        BY <1>2 DEF Upsert
    <2>2. devices' = devices \/ devices' = [devices EXCEPT ![v] = Aggregate(rows, v)]
        BY <2>1 DEF Upsert
    <2>3. devices' = devices
        BY <1>1, <2>2 DEF AggregatesExact, TableType
    <2> QED
        BY <2>1, <2>3 DEF AggregatesExact
<1>3. CASE ~Indexed(d)
    <2>1. PICK row : row = [id |-> nextId, dev |-> v]
        OBVIOUS
    <2>2. PICK table : table = rows'
        OBVIOUS
    <2>3. table = [rows EXCEPT ![d] = row] /\ row.id # 0 /\ row.dev = v
        BY <1>1, <1>3, <2>1, <2>2 DEF Upsert
    <2>4. table[d] = row /\ \A e \in Dirs \ {d} : table[e] = rows[e]
        BY <1>1, <2>3 DEF TableType
    <2>5. d \in RowsOf(table, v)
        BY <2>3, <2>4 DEF RowsOf
    <2>6. devices' = [devices EXCEPT ![v] = Aggregate(table, v)]
        BY <2>2, <2>5 DEF Upsert
    <2>7. ASSUME NEW u \in Devices, u # v PROVE RowsOf(table, u) = RowsOf(rows, u)
        BY <1>3, <2>3, <2>4, <2>7 DEF RowsOf, Indexed
    <2>8. ASSUME NEW u \in Devices PROVE devices'[u] = Aggregate(table, u)
        <3>1. CASE u = v
            BY <1>1, <2>6, <3>1 DEF TableType
        <3>2. CASE u # v
            BY <1>1, <2>6, <2>7, <3>2, AggregateSame DEF TableType, AggregatesExact
        <3> QED
            BY <3>1, <3>2
    <2> QED
        BY <2>2, <2>8 DEF AggregatesExact
<1> QED
    BY <1>2, <1>3

\* Every step keeps the entries equal to what the rows say.
THEOREM AggregatesNext == StoreInv /\ AggregatesExact /\ [Next]_vars => AggregatesExact'
<1> SUFFICES ASSUME StoreInv, AggregatesExact, [Next]_vars PROVE AggregatesExact'
    OBVIOUS
<1>1. DiskType /\ TableType /\ PlanType /\ PlanTrue
    BY PartsStore
<1>2. ASSUME NEW w \in Workers, Index(w) PROVE AggregatesExact'
    <2>1. JobTrue(w) /\ wpc[w] = "index" /\ Upsert(wdir[w], wman[w])
        BY <1>2, PartsStore DEF Index
    <2>2. wdir[w] \in Dirs /\ wman[w] \in Devices
        BY <2>1 DEF JobTrue
    <2> QED
        BY <2>1, <2>2, UpsertExact
<1>3. ASSUME NEW x \in Operators, NEW d \in Dirs, Reindex(x, d) PROVE AggregatesExact'
    <2>1. CASE Complete(d)
        <3>1. disk[d].manifest \in Devices /\ Upsert(d, disk[d].manifest)
            BY <1>1, <1>3, <2>1 DEF DiskType, Complete, Reindex
        <3> QED
            BY <3>1, UpsertExact
    <2>2. CASE ~Complete(d)
        BY <1>3, <2>2 DEF Reindex, tables, AggregatesExact
    <2> QED
        BY <2>1, <2>2
<1>4. ASSUME NEW x \in Operators, Wipe(x) PROVE AggregatesExact'
    <2>1. rows' = [d \in Dirs |-> NoRow] /\ devices' = [v \in Devices |-> NoEntry]
        BY <1>4 DEF Wipe
    <2>2. PICK table : table = rows'
        OBVIOUS
    <2>3. \A v \in Devices : RowsOf(table, v) = {}
        BY <2>1, <2>2 DEF RowsOf, NoRow
    <2>4. \A v \in Devices : Aggregate(table, v) = NoEntry
        BY <2>3, AggregateType
    <2> QED
        BY <2>1, <2>2, <2>4 DEF AggregatesExact
<1>5. CASE Forget
    <2>1. PICK gone, hit : gone = {p.id : p \in plan.doomed} /\ hit = {p.dev : p \in plan.doomed}
        OBVIOUS
    <2>2. PICK table : table = rows'
        OBVIOUS
    <2>3. /\ op["web"] = "remove"
          /\ table = [d \in Dirs |-> IF rows[d].id \in gone THEN NoRow ELSE rows[d]]
          /\ devices' = [v \in Devices |-> IF v \in hit /\ (devices[v] # NoEntry)
                                           THEN Aggregate(table, v) ELSE devices[v]]
        BY <1>5, <2>1, <2>2 DEF Forget
    <2>4. \A d \in Dirs : rows[d].id \in gone => rows[d].dev \in hit
        BY <1>1, <2>1, <2>3 DEF PlanTrue
    <2>5. ASSUME NEW v \in Devices PROVE RowsOf(table, v) \subseteq RowsOf(rows, v)
        BY <2>3 DEF RowsOf, NoRow
    <2>6. ASSUME NEW v \in Devices PROVE devices'[v] = Aggregate(table, v)
        <3>1. CASE v \in hit /\ devices[v] # NoEntry
            BY <2>3, <3>1
        <3>2. CASE v \in hit /\ devices[v] = NoEntry
            <4>1. RowsOf(rows, v) = {}
                BY <3>2, AggregateType DEF AggregatesExact
            <4>2. Aggregate(table, v) = NoEntry
                BY <2>5, <4>1, AggregateType
            <4> QED
                BY <2>3, <3>2, <4>2
        <3>3. CASE v \notin hit
            <4>1. RowsOf(table, v) = RowsOf(rows, v)
                BY <2>3, <2>4, <2>5, <3>3 DEF RowsOf
            <4> QED
                BY <2>3, <3>3, <4>1, AggregateSame DEF AggregatesExact
        <3> QED
            BY <3>1, <3>2, <3>3
    <2> QED
        BY <2>2, <2>6 DEF AggregatesExact
<1>6. CASE UNCHANGED <<rows, nextId, devices>>
    BY <1>6 DEF AggregatesExact
<1> QED
    BY <1>2, <1>3, <1>4, <1>5, <1>6, TableSteps

\* After every transaction the table devices says exactly what the table snapshots
\* says, for any jobs, retention runs and rebuilds that interleave
\* (index_db.py: index_manifest, delete_snapshots_by_id, rebuild_index).
THEOREM AggregatesAlways == Spec => []AggregatesExact
<1>1. Init => AggregatesExact
    <2> SUFFICES ASSUME Init PROVE AggregatesExact
        OBVIOUS
    <2>1. \A v \in Devices : RowsOf(rows, v) = {} /\ devices[v] = NoEntry
        BY DEF Init, RowsOf, NoRow
    <2> QED
        BY <2>1, AggregateType DEF AggregatesExact
<1> QED
    BY <1>1, StoreAlways, AggregatesNext, PTL DEF Spec
-----------------------------------------------------------------------------
(* What vanishes from the disk.                                            *)

\* Only retention takes files away, and a manifest; only a job puts one there.
LEMMA FilesGo ==
    ASSUME StoreInv, [Next]_vars, NEW d \in Dirs, Exists(d), ~Exists(d)'
    PROVE  Remove(d)
<1>1. DiskType
    BY PartsStore
<1>2. ASSUME NEW w \in Workers, NEW v \in Devices, WriteFiles(w, v) PROVE FALSE
    BY <1>1, <1>2, Places DEF WriteFiles, DiskType, Exists
<1>3. ASSUME NEW w \in Workers, WriteManifest(w) PROVE FALSE
    BY <1>1, <1>3 DEF WriteManifest, DiskType, Exists
<1>4. ASSUME NEW c \in Dirs, RemoveFails(c) PROVE FALSE
    BY <1>1, <1>4 DEF RemoveFails, DiskType, Exists
<1>5. ASSUME NEW c \in Dirs, Remove(c) PROVE c = d
    BY <1>1, <1>5 DEF Remove, DiskType, Exists
<1>6. ASSUME UNCHANGED disk PROVE FALSE
    BY <1>6 DEF Exists
<1> QED
    BY <1>2, <1>3, <1>4, <1>5, <1>6, DiskSteps

LEMMA ManifestComes ==
    ASSUME StoreInv, [Next]_vars, NEW d \in Dirs, ~Complete(d), Complete(d)'
    PROVE  \E w \in Workers : WriteManifest(w) /\ wdir[w] = d /\ wpc'[w] = "read"
<1>1. DiskType /\ JobType
    BY PartsStore
<1>2. ASSUME NEW w \in Workers, NEW v \in Devices, WriteFiles(w, v) PROVE FALSE
    BY <1>1, <1>2 DEF WriteFiles, DiskType, Complete
<1>3. ASSUME NEW w \in Workers, WriteManifest(w)
      PROVE  wdir[w] = d /\ wpc'[w] = "read"
    <2>1. Exists(wdir[w])
        BY <1>3 DEF WriteManifest, Complete
    <2>2. /\ disk' = [disk EXCEPT ![wdir[w]].manifest = wdev[w]]
          /\ wpc' = [wpc EXCEPT ![w] = "read"]
        BY <1>3, <2>1 DEF WriteManifest
    <2>3. wdir[w] = d
        BY <1>1, <2>2 DEF DiskType, Complete
    <2> QED
        BY <1>1, <2>2, <2>3 DEF JobType
<1>4. ASSUME NEW c \in Dirs, RemoveFails(c) PROVE FALSE
    BY <1>1, <1>4 DEF RemoveFails, DiskType, Complete
<1>5. ASSUME NEW c \in Dirs, Remove(c) PROVE FALSE
    BY <1>1, <1>5 DEF Remove, DiskType, Complete, Absent
<1>6. ASSUME UNCHANGED disk PROVE FALSE
    BY <1>6 DEF Complete
<1> QED
    BY <1>2, <1>3, <1>4, <1>5, <1>6, DiskSteps

LEMMA ManifestGoes ==
    ASSUME StoreInv, [Next]_vars, NEW d \in Dirs, Complete(d), ~Complete(d)'
    PROVE  Remove(d) \/ RemoveFails(d)
<1>1. DiskType
    BY PartsStore
<1>2. ASSUME NEW w \in Workers, NEW v \in Devices, WriteFiles(w, v) PROVE FALSE
    BY <1>1, <1>2 DEF WriteFiles, DiskType, Complete
<1>3. ASSUME NEW w \in Workers, WriteManifest(w) PROVE FALSE
    <2>1. wdev[w] # NoDevice
        BY <1>3, PartsStore, Places DEF WriteManifest, JobTrue
    <2> QED
        BY <1>1, <1>3, <2>1 DEF WriteManifest, DiskType, Complete
<1>4. ASSUME NEW c \in Dirs, RemoveFails(c) PROVE c = d
    BY <1>1, <1>4 DEF RemoveFails, DiskType, Complete
<1>5. ASSUME NEW c \in Dirs, Remove(c) PROVE c = d
    BY <1>1, <1>5 DEF Remove, DiskType, Complete
<1>6. ASSUME UNCHANGED disk PROVE FALSE
    BY <1>6 DEF Complete
<1> QED
    BY <1>2, <1>3, <1>4, <1>5, <1>6, DiskSteps

\* A directory vanishes only if a dry run showed it, whatever was indexed, rebuilt or
\* removed since (retention.py: apply_retention; routes of /retention in web/main.py).
THEOREM OnlyPreviewedAlways == Spec => OnlyPreviewedRemoved
<1>1. ASSUME StoreInv, [Next]_vars, NEW d \in Dirs, Exists(d), ~Exists(d)'
      PROVE  \E p \in previewed : p = plan /\ \E row \in p.doomed : row.dir = d
    <2>1. NextToRemove(d) /\ PlanTrue
        BY <1>1, FilesGo, PartsStore DEF Remove
    <2> QED
        BY <2>1 DEF NextToRemove, PlanTrue
<1>2. StoreInv /\ [Next]_vars =>
        [\A d \in Dirs : Exists(d) /\ ~Exists(d)' =>
            \E p \in previewed : p = plan /\ \E row \in p.doomed : row.dir = d]_vars
    BY <1>1
<1> QED
    BY <1>2, StoreAlways, PTL DEF Spec, OnlyPreviewedRemoved

\* Whoever has a newer complete snapshot on disk keeps one while a succeeded one goes.
LEMMA SucceededStays ==
    ASSUME StoreInv, [Next]_vars,
           \A d \in Dirs : Complete(d) /\ ~Complete(d)' => Succeeded(d)
    PROVE  \A d \in Dirs : /\ Succeeded(d) => Succeeded(d)'
                           /\ Complete(d) => Complete(d)' \/ Succeeded(d)'
<1>1. ASSUME NEW d \in Dirs, Succeeded(d) PROVE Succeeded(d)'
    <2>1. PICK c \in Dirs : c[1] = d[1] /\ c[2] > d[2] /\ Complete(c)
        BY <1>1 DEF Succeeded
    <2>2. CASE Complete(c)'
        BY <2>1, <2>2 DEF Succeeded
    <2>3. CASE ~Complete(c)'
        <3>1. PICK e \in Dirs : e[1] = c[1] /\ e[2] > c[2] /\ Complete(e)
            BY <2>1, <2>3 DEF Succeeded
        <3>2. Complete(e)'
            <4>1. ASSUME ~Complete(e)' PROVE e = c
                <5>1. (Remove(e) \/ RemoveFails(e)) /\ (Remove(c) \/ RemoveFails(c))
                    BY <2>1, <2>3, <3>1, <4>1, ManifestGoes
                <5>2. /\ OpType /\ "web" \in Operators
                      /\ e \in todo["web"] /\ todo' = [todo EXCEPT !["web"] = @ \ {e}]
                      /\ c \in todo["web"] /\ todo' = [todo EXCEPT !["web"] = @ \ {c}]
                    BY <5>1, PartsStore DEF Remove, RemoveFails, NextToRemove, Operators
                <5> QED
                    BY <5>2 DEF OpType
            <4> QED
                BY <3>1, <4>1, Places
        <3>3. e[1] = d[1] /\ e[2] > d[2]
            BY <2>1, <3>1, Places
        <3> QED
            BY <3>2, <3>3 DEF Succeeded
    <2> QED
        BY <2>2, <2>3
<1> QED
    BY <1>1

\* Every step keeps what the index and the plan know succeeded or on disk.
THEOREM NewestNext == StoreInv /\ NewestInv /\ [Next]_vars => NewestInv'
<1> SUFFICES ASSUME StoreInv, NewestInv, [Next]_vars PROVE NewestInv'
    OBVIOUS
<1>1. DiskType /\ TableType /\ RowsTrue /\ JobType /\ OpType /\ PlanTrue /\ "web" \in Operators
    BY PartsStore DEF Operators
<1>2. ASSUME NEW d \in Dirs, NextToRemove(d) PROVE Succeeded(d)
    BY <1>1, <1>2 DEF NextToRemove, PlanTrue, NewestInv
<1>3. \A d \in Dirs : Complete(d) /\ ~Complete(d)' => Succeeded(d)
    BY <1>2, ManifestGoes DEF Remove, RemoveFails
<1>4. \A d \in Dirs : /\ Succeeded(d) => Succeeded(d)'
                      /\ Complete(d) => Complete(d)' \/ Succeeded(d)'
    BY <1>3, SucceededStays
<1>5. ASSUME NEW d \in Dirs, Indexed(d)' PROVE Complete(d)' \/ Succeeded(d)'
    <2>1. CASE Indexed(d)
        BY <1>4, <2>1 DEF NewestInv
    <2>2. CASE ~Indexed(d)
        <3>1. ASSUME NEW w \in Workers, Index(w) PROVE Complete(d) \/ Succeeded(d)
            <4>1. wdir[w] \in Dirs /\ wpc[w] = "index" /\ Upsert(wdir[w], wman[w])
                BY <3>1, PartsStore DEF Index, JobTrue
            <4>2. d # wdir[w] => rows'[d] = rows[d]
                BY <1>1, <4>1 DEF Upsert, TableType
            <4>3. d = wdir[w]
                BY <1>5, <2>2, <4>2 DEF Indexed
            <4> QED
                BY <4>1, <4>3 DEF NewestInv
        <3>2. ASSUME NEW x \in Operators, NEW c \in Dirs, Reindex(x, c)
              PROVE  Complete(d)
            <4>1. d # c => rows'[d] = rows[d]
                BY <1>1, <3>2 DEF Reindex, Upsert, TableType, tables
            <4>2. ~Complete(c) => rows' = rows
                BY <3>2 DEF Reindex, tables
            <4> QED
                BY <1>5, <2>2, <4>1, <4>2 DEF Indexed
        <3>3. ASSUME NEW x \in Operators, Wipe(x) PROVE FALSE
            BY <1>5, <3>3 DEF Wipe, Indexed, NoRow
        <3>4. CASE Forget
            BY <1>5, <2>2, <3>4 DEF Forget, Indexed, NoRow
        <3>5. CASE UNCHANGED <<rows, nextId, devices>>
            BY <1>5, <2>2, <3>5 DEF Indexed
        <3> QED
            BY <1>4, <3>1, <3>2, <3>3, <3>4, <3>5, TableSteps
    <2> QED
        BY <2>1, <2>2
<1>6. ASSUME NEW w \in Workers, wpc'[w] = "index"
      PROVE  (Complete(wdir[w]) \/ Succeeded(wdir[w]))'
    <2>1. /\ wpc[w] = "index" => wdir[w] \in Dirs
          /\ wpc[w] = "read" => wdir[w] \in Dirs
        BY PartsStore DEF JobTrue
    <2>2. CASE wpc[w] = "index" /\ wdir'[w] = wdir[w]
        <3>1. PICK d \in Dirs : d = wdir[w]
            BY <2>1, <2>2
        <3>2. Complete(d)' \/ Succeeded(d)'
            BY <1>4, <2>2, <3>1 DEF NewestInv
        <3> QED
            BY <2>2, <3>1, <3>2 DEF Complete, Succeeded
    <2>3. CASE wpc[w] = "read" /\ wdir'[w] = wdir[w] /\ Complete(wdir[w])
        <3>1. PICK d \in Dirs : d = wdir[w]
            BY <2>1, <2>3
        <3>2. Complete(d)' \/ Succeeded(d)'
            BY <1>4, <2>3, <3>1
        <3> QED
            BY <2>3, <3>1, <3>2 DEF Complete, Succeeded
    <2>4. \/ wpc[w] = "index" /\ wdir'[w] = wdir[w]
          \/ wpc[w] = "read" /\ wdir'[w] = wdir[w] /\ Complete(wdir[w])
        <3>1. ASSUME NEW u \in Workers,
                     \/ \E v \in Devices : WriteFiles(u, v)
                     \/ WriteManifest(u) \/ Index(u) \/ IndexFails(u)
              PROVE  wpc[w] = "index" /\ wdir'[w] = wdir[w]
            <4>1. wpc'[u] # "index" /\ (w # u => wpc'[w] = wpc[w] /\ wdir'[w] = wdir[w])
                BY <1>1, <3>1 DEF WriteFiles, WriteManifest, Index, IndexFails, JobIdle, JobType
            <4> QED
                BY <1>6, <4>1
        <3>2. ASSUME NEW u \in Workers, ReadManifest(u)
              PROVE  \/ wpc[w] = "index" /\ wdir'[w] = wdir[w]
                     \/ wpc[w] = "read" /\ wdir'[w] = wdir[w] /\ Complete(wdir[w])
            <4>1. CASE w = u
                BY <1>1, <1>6, <3>2, <4>1 DEF ReadManifest, JobIdle, JobType
            <4>2. CASE w # u
                BY <1>1, <1>6, <3>2, <4>2 DEF ReadManifest, JobIdle, JobType
            <4> QED
                BY <4>1, <4>2
        <3>3. ASSUME \/ \E keep \in Keeps, scope \in Scopes :
                           Preview(keep, scope) \/ Apply(keep, scope)
                     \/ \E p \in tokens : TokenLost(p)
                     \/ \E d \in Dirs : Remove(d) \/ RemoveFails(d)
                     \/ Forget
              PROVE  UNCHANGED <<wpc, wdir>>
            BY <3>3 DEF Preview, Apply, TokenLost, Remove, RemoveFails, Forget, jobVars
        <3>4. ASSUME NEW x \in Operators,
                     \/ Scan(x) \/ Wipe(x) \/ Rebuilt(x)
                     \/ \E d \in Dirs : Reindex(x, d) \/ ReindexFails(x, d)
              PROVE  UNCHANGED <<wpc, wdir>>
            BY <3>4 DEF Scan, Wipe, Rebuilt, Reindex, ReindexFails, jobVars
        <3>5. ASSUME Tick \/ CliKilled \/ UNCHANGED vars PROVE UNCHANGED <<wpc, wdir>>
            BY <3>5 DEF Tick, CliKilled, vars, jobVars
        <3>6. CASE Crash
            BY <1>6, <3>6 DEF Crash
        <3> QED
            BY <1>6, <3>1, <3>2, <3>3, <3>4, <3>5, <3>6 DEF Next
    <2> QED
        BY <2>2, <2>3, <2>4
<1>7. ASSUME op'["web"] = "remove", NEW p \in plan'.doomed PROVE Succeeded(p.dir)'
    <2>1. ASSUME NEW keep \in Keeps, NEW scope \in Scopes, Apply(keep, scope)
          PROVE  p.dir \in Dirs /\ Succeeded(p.dir)
        <3>1. p \in PlanOf(keep, scope).doomed
            BY <2>1 DEF Apply
        <3>2. PICK d \in Dirs : d = p.dir /\ Indexed(d)
            BY <3>1, PlanOfTrue
        <3>3. PICK c \in Dirs : Indexed(c) /\ rows[c].dev = rows[d].dev /\ c[2] > d[2]
            BY <3>1, <3>2, PlanOfTrue
        <3>4. c[1] = d[1]
            BY <1>1, <3>2, <3>3 DEF RowsTrue
        <3>5. CASE Complete(c)
            BY <3>2, <3>3, <3>4, <3>5 DEF Succeeded
        <3>6. CASE Succeeded(c)
            <4>1. PICK e \in Dirs : e[1] = c[1] /\ e[2] > c[2] /\ Complete(e)
                BY <3>6 DEF Succeeded
            <4>2. e[1] = d[1] /\ e[2] > d[2]
                BY <3>3, <3>4, <4>1, Places
            <4> QED
                BY <3>2, <4>1, <4>2 DEF Succeeded
        <3> QED
            BY <3>2, <3>3, <3>5, <3>6 DEF NewestInv
    <2>2. ASSUME op["web"] = "remove", plan' = plan
          PROVE  p.dir \in Dirs /\ Succeeded(p.dir)
        <3>1. plan \in Plans
            BY <1>1, <2>2, PartsStore DEF PlanTrue, PlanType
        <3> QED
            BY <1>7, <2>2, <3>1 DEF NewestInv, Plans
    <2>3. \/ \E keep \in Keeps, scope \in Scopes : Apply(keep, scope)
          \/ op["web"] = "remove" /\ plan' = plan
        <3>1. ASSUME NEW w \in Workers,
                     \/ \E v \in Devices : WriteFiles(w, v)
                     \/ WriteManifest(w) \/ ReadManifest(w) \/ Index(w) \/ IndexFails(w)
              PROVE  UNCHANGED <<op, plan>>
            BY <3>1 DEF WriteFiles, WriteManifest, ReadManifest, Index, IndexFails, opVars
        <3>2. ASSUME \/ \E keep \in Keeps, scope \in Scopes : Preview(keep, scope)
                     \/ \E q \in tokens : TokenLost(q)
                     \/ \E d \in Dirs : Remove(d) \/ RemoveFails(d)
              PROVE  UNCHANGED <<op, plan>>
            BY <3>2 DEF Preview, TokenLost, Remove, RemoveFails, opVars
        <3>3. ASSUME NEW x \in Operators,
                     \/ Scan(x) \/ Wipe(x) \/ Rebuilt(x)
                     \/ \E d \in Dirs : Reindex(x, d) \/ ReindexFails(x, d)
              PROVE  op["web"] = "remove" /\ plan' = plan
            BY <1>1, <1>7, <3>3 DEF Scan, Wipe, Rebuilt, Reindex, ReindexFails, OpType
        <3>4. ASSUME Crash \/ Forget PROVE FALSE
            BY <1>1, <1>7, <3>4 DEF Crash, Forget, OpType
        <3>5. CASE CliKilled
            BY <1>1, <1>7, <3>5 DEF CliKilled, OpType
        <3>6. ASSUME Tick \/ UNCHANGED vars PROVE UNCHANGED <<op, plan>>
            BY <3>6 DEF Tick, vars, opVars
        <3> QED
            BY <1>7, <3>1, <3>2, <3>3, <3>4, <3>5, <3>6 DEF Next
    <2>4. p.dir \in Dirs /\ Succeeded(p.dir)
        BY <2>1, <2>2, <2>3
    <2> QED
        BY <1>4, <2>4 DEF Succeeded, Complete
<1> QED
    BY <1>5, <1>6, <1>7 DEF NewestInv

\* Retention never takes the newest snapshot of a host, whatever crashes and rebuilds
\* left in the index (retention.py: plan_retention, apply_retention).
THEOREM NewestAlways == Spec => NewestSurvives
<1>1. Init => NewestInv
    BY DEF Init, NewestInv, Indexed, NoRow, Operators
<1>2. ASSUME StoreInv, NewestInv, [Next]_vars, NEW d \in Dirs, Exists(d), ~Exists(d)'
      PROVE  \E c \in Dirs : c[1] = d[1] /\ c[2] > d[2] /\ Complete(c)
    <2>1. NextToRemove(d) /\ PlanTrue
        BY <1>2, FilesGo, PartsStore DEF Remove
    <2>2. Succeeded(d)
        BY <1>2, <2>1 DEF NextToRemove, PlanTrue, NewestInv
    <2> QED
        BY <2>2 DEF Succeeded
<1>3. StoreInv /\ NewestInv /\ [Next]_vars =>
        [\A d \in Dirs : Exists(d) /\ ~Exists(d)' =>
            \E c \in Dirs : c[1] = d[1] /\ c[2] > d[2] /\ Complete(c)]_vars
    BY <1>2
<1> QED
    BY <1>1, <1>3, StoreAlways, NewestNext, PTL DEF Spec, NewestSurvives

-----------------------------------------------------------------------------
(* What is complete on disk and not in the index.                          *)

\* Somebody is about to index the directory, or an accident excuses that nobody is.
Adding(d) ==
    \/ d \in excused
    \/ \E w \in Workers : wdir[w] = d /\ wpc[w] \in {"read", "index"}
    \/ \E x \in Operators : op[x] = "reindex" /\ d \in todo[x]

\* What is excused remains so.
LEMMA ExcusedStays ==
    ASSUME [Next]_vars
    PROVE  excused \subseteq excused'
<1>1. ASSUME NEW w \in Workers,
             \/ \E v \in Devices : WriteFiles(w, v)
             \/ WriteManifest(w) \/ ReadManifest(w) \/ Index(w) \/ IndexFails(w)
      PROVE  excused \subseteq excused'
    BY <1>1 DEF WriteFiles, WriteManifest, ReadManifest, Index, IndexFails
<1>2. ASSUME \/ \E keep \in Keeps, scope \in Scopes : Preview(keep, scope) \/ Apply(keep, scope)
             \/ \E p \in tokens : TokenLost(p)
             \/ \E d \in Dirs : Remove(d) \/ RemoveFails(d)
             \/ Forget
      PROVE  excused \subseteq excused'
    BY <1>2 DEF Preview, Apply, TokenLost, Remove, RemoveFails, Forget
<1>3. ASSUME NEW x \in Operators,
             \/ Scan(x) \/ Wipe(x) \/ Rebuilt(x)
             \/ \E d \in Dirs : Reindex(x, d) \/ ReindexFails(x, d)
      PROVE  excused \subseteq excused'
    BY <1>3 DEF Scan, Wipe, Rebuilt, Reindex, ReindexFails
<1>4. ASSUME Tick \/ Crash \/ CliKilled \/ UNCHANGED vars
      PROVE  excused \subseteq excused'
    BY <1>4 DEF Tick, Crash, CliKilled, vars
<1> QED
    BY <1>1, <1>2, <1>3, <1>4 DEF Next

\* A row goes by a wipe, after which it is read again, or with its directory.
LEMMA RowGoes ==
    ASSUME StoreInv, [Next]_vars, NEW d \in Dirs, Indexed(d), ~Indexed(d)', Complete(d)'
    PROVE  Adding(d)'
<1>1. TableType /\ RowsTrue /\ OpType /\ DiskType /\ PlanTrue
    BY PartsStore
<1>2. ASSUME NEW x \in Operators, Wipe(x) PROVE Adding(d)'
    <2>1. CASE d \in todo[x]
        BY <1>1, <1>2, <2>1 DEF Wipe, OpType, Adding
    <2>2. CASE d \notin todo[x]
        BY <1>2, <2>2 DEF Wipe, Adding
    <2> QED
        BY <2>1, <2>2
<1>3. CASE Forget
    <2>1. PICK p \in plan.doomed : rows[d].id = p.id
        BY <1>3 DEF Forget, Indexed
    <2>2. d = p.dir /\ (p.dir \in excused \/ ~Exists(p.dir))
        BY <1>1, <1>3, <2>1 DEF PlanTrue, Forget
    <2>3. Exists(d)
        BY <1>1, <1>3 DEF Forget, DiskType, Complete, Exists
    <2> QED
        BY <1>3, <2>2, <2>3 DEF Forget, Adding
<1>4. ASSUME NEW e \in Dirs, NEW v, Upsert(e, v) PROVE FALSE
    <2>1. CASE Indexed(e)
        BY <1>4, <2>1 DEF Upsert, Indexed
    <2>2. CASE ~Indexed(e)
        BY <1>1, <1>4, <2>2 DEF Upsert, TableType, Indexed
    <2> QED
        BY <2>1, <2>2
<1>5. ASSUME NEW w \in Workers, Index(w) PROVE FALSE
    <2>1. wdir[w] \in Dirs
        BY <1>5, PartsStore DEF Index, JobTrue
    <2> QED
        BY <1>4, <1>5, <2>1 DEF Index
<1>6. ASSUME NEW x \in Operators, NEW e \in Dirs, Reindex(x, e) PROVE FALSE
    BY <1>4, <1>6 DEF Reindex, tables, Indexed
<1>7. CASE UNCHANGED <<rows, nextId, devices>>
    BY <1>7 DEF Indexed
<1> QED
    BY <1>2, <1>3, <1>5, <1>6, <1>7, TableSteps

\* A job that holds the directory lets go of it only with the row in the index, or
\* by an accident.
LEMMA JobAdds ==
    ASSUME StoreInv, [Next]_vars, NEW d \in Dirs, Complete(d), ~Indexed(d)',
           NEW w \in Workers, wdir[w] = d, wpc[w] \in {"read", "index"}
    PROVE  Adding(d)'
<1>1. TableType /\ JobType
    BY PartsStore
<1>2. ASSUME wdir'[w] = wdir[w], wpc'[w] \in {"read", "index"} PROVE Adding(d)'
    BY <1>2 DEF Adding
<1>3. ASSUME UNCHANGED <<wpc, wdir>> PROVE Adding(d)'
    BY <1>2, <1>3
<1>4. ASSUME NEW u \in Workers, NEW v \in Devices, WriteFiles(u, v) PROVE Adding(d)'
    <2>1. u # w
        BY <1>4 DEF WriteFiles
    <2> QED
        BY <1>1, <1>2, <1>4, <2>1 DEF WriteFiles, JobType
<1>5. ASSUME NEW u \in Workers, WriteManifest(u) PROVE Adding(d)'
    <2>1. u # w
        BY <1>5 DEF WriteManifest
    <2> QED
        BY <1>1, <1>2, <1>5, <2>1 DEF WriteManifest, JobIdle, JobType
<1>6. ASSUME NEW u \in Workers, ReadManifest(u) PROVE Adding(d)'
    <2>1. CASE u = w
        BY <1>1, <1>2, <1>6, <2>1 DEF ReadManifest, JobType
    <2>2. CASE u # w
        BY <1>1, <1>2, <1>6, <2>2 DEF ReadManifest, JobIdle, JobType
    <2> QED
        BY <2>1, <2>2
<1>7. ASSUME NEW u \in Workers, Index(u) PROVE Adding(d)'
    <2>1. CASE u = w
        <3>1. Upsert(d, wman[w])
            BY <1>7, <2>1 DEF Index
        <3>2. PICK row : row = [id |-> nextId, dev |-> wman[w]]
            OBVIOUS
        <3>3. (rows'[d] = rows[d] /\ Indexed(d)) \/ rows'[d] = row
            BY <1>1, <3>1, <3>2 DEF Upsert, TableType
        <3>4. row.id # 0
            BY <1>1, <3>2 DEF TableType
        <3> QED
            BY <3>3, <3>4 DEF Indexed
    <2>2. CASE u # w
        BY <1>1, <1>2, <1>7, <2>2 DEF Index, JobIdle, JobType
    <2> QED
        BY <2>1, <2>2
<1>8. ASSUME NEW u \in Workers, IndexFails(u) PROVE Adding(d)'
    <2>1. CASE u = w
        BY <1>8, <2>1 DEF IndexFails, Adding
    <2>2. CASE u # w
        BY <1>1, <1>2, <1>8, <2>2 DEF IndexFails, JobIdle, JobType
    <2> QED
        BY <2>1, <2>2
<1>9. ASSUME \/ \E keep \in Keeps, scope \in Scopes : Preview(keep, scope) \/ Apply(keep, scope)
             \/ \E p \in tokens : TokenLost(p)
             \/ \E e \in Dirs : Remove(e) \/ RemoveFails(e)
             \/ Forget
      PROVE  UNCHANGED <<wpc, wdir>>
    BY <1>9 DEF Preview, Apply, TokenLost, Remove, RemoveFails, Forget, jobVars
<1>10. ASSUME NEW x \in Operators,
              \/ Scan(x) \/ Wipe(x) \/ Rebuilt(x)
              \/ \E e \in Dirs : Reindex(x, e) \/ ReindexFails(x, e)
       PROVE  UNCHANGED <<wpc, wdir>>
    BY <1>10 DEF Scan, Wipe, Rebuilt, Reindex, ReindexFails, jobVars
<1>11. ASSUME Tick \/ CliKilled \/ UNCHANGED vars PROVE UNCHANGED <<wpc, wdir>>
    BY <1>11 DEF Tick, CliKilled, vars, jobVars
<1>12. CASE Crash
    <2>1. wdir[w] \in excused'
        BY <1>12 DEF Crash
    <2> QED
        BY <2>1 DEF Adding
<1> QED
    BY <1>3, <1>4, <1>5, <1>6, <1>7, <1>8, <1>9, <1>10, <1>11, <1>12 DEF Next

\* So does a rebuild that still has the directory to do.
LEMMA RebuildAdds ==
    ASSUME StoreInv, [Next]_vars, NEW d \in Dirs, Complete(d), ~Indexed(d)',
           NEW x \in Operators, op[x] = "reindex", d \in todo[x]
    PROVE  Adding(d)'
<1>1. TableType /\ OpType
    BY PartsStore
<1>2. ASSUME op'[x] = op[x], d \in todo'[x] PROVE Adding(d)'
    BY <1>2 DEF Adding
<1>3. ASSUME UNCHANGED <<op, todo>> PROVE Adding(d)'
    BY <1>2, <1>3
<1>4. ASSUME NEW w \in Workers,
             \/ \E v \in Devices : WriteFiles(w, v)
             \/ WriteManifest(w) \/ ReadManifest(w) \/ Index(w) \/ IndexFails(w)
      PROVE  UNCHANGED <<op, todo>>
    BY <1>4 DEF WriteFiles, WriteManifest, ReadManifest, Index, IndexFails, opVars
<1>5. ASSUME NEW keep \in Keeps, NEW scope \in Scopes, Preview(keep, scope)
      PROVE  UNCHANGED <<op, todo>>
    BY <1>5 DEF Preview, opVars
<1>6. ASSUME NEW keep \in Keeps, NEW scope \in Scopes, Apply(keep, scope)
      PROVE  Adding(d)'
    <2>1. x # "web"
        BY <1>6 DEF Apply, CanPlan
    <2> QED
        BY <1>1, <1>2, <1>6, <2>1 DEF Apply, OpType
<1>7. ASSUME NEW p \in tokens, TokenLost(p) PROVE UNCHANGED <<op, todo>>
    BY <1>7 DEF TokenLost, opVars
<1>8. ASSUME NEW e \in Dirs, Remove(e) \/ RemoveFails(e) PROVE Adding(d)'
    <2>1. x # "web" /\ op' = op /\ todo' = [todo EXCEPT !["web"] = @ \ {e}]
        BY <1>8 DEF Remove, RemoveFails, NextToRemove
    <2> QED
        BY <1>1, <1>2, <2>1 DEF OpType
<1>9. CASE Forget
    <2>1. x # "web"
        BY <1>9 DEF Forget
    <2> QED
        BY <1>1, <1>2, <1>9, <2>1 DEF Forget, OpType
<1>10. ASSUME NEW y \in Operators, Scan(y) \/ Wipe(y) \/ Rebuilt(y) PROVE Adding(d)'
    <2>1. x # y
        BY <1>10 DEF Scan, Wipe, Rebuilt
    <2> QED
        BY <1>1, <1>2, <1>10, <2>1 DEF Scan, Wipe, Rebuilt, OpType
<1>11. ASSUME NEW y \in Operators, NEW e \in Dirs, Reindex(y, e) PROVE Adding(d)'
    <2>1. op' = op /\ todo' = [todo EXCEPT ![y] = @ \ {e}]
        BY <1>11 DEF Reindex, NextToIndex
    <2>2. CASE e = d
        <3>1. Upsert(d, disk[d].manifest)
            BY <1>11, <2>2 DEF Reindex
        <3>2. PICK row : row = [id |-> nextId, dev |-> disk[d].manifest]
            OBVIOUS
        <3>3. (rows'[d] = rows[d] /\ Indexed(d)) \/ rows'[d] = row
            BY <1>1, <3>1, <3>2 DEF Upsert, TableType
        <3>4. row.id # 0
            BY <1>1, <3>2 DEF TableType
        <3> QED
            BY <3>3, <3>4 DEF Indexed
    <2>3. CASE e # d
        BY <1>1, <1>2, <2>1, <2>3 DEF OpType
    <2> QED
        BY <2>2, <2>3
<1>12. ASSUME NEW y \in Operators, NEW e \in Dirs, ReindexFails(y, e) PROVE Adding(d)'
    <2>1. op' = op /\ todo' = [todo EXCEPT ![y] = @ \ {e}] /\ e \in excused'
        BY <1>12 DEF ReindexFails, NextToIndex
    <2>2. CASE e = d
        BY <2>1, <2>2 DEF Adding
    <2>3. CASE e # d
        BY <1>1, <1>2, <2>1, <2>3 DEF OpType
    <2> QED
        BY <2>2, <2>3
<1>13. ASSUME Tick \/ UNCHANGED vars PROVE UNCHANGED <<op, todo>>
    BY <1>13 DEF Tick, vars, opVars
<1>14. CASE Crash
    <2>1. CASE x = "web"
        <3>1. d \in excused'
            BY <1>14, <2>1 DEF Crash
        <3> QED
            BY <3>1 DEF Adding
    <2>2. CASE x # "web"
        BY <1>1, <1>2, <1>14, <2>2 DEF Crash, OpType
    <2> QED
        BY <2>1, <2>2
<1>15. CASE CliKilled
    <2>1. CASE x = "cli"
        <3>1. d \in excused'
            BY <1>15, <2>1 DEF CliKilled
        <3> QED
            BY <3>1 DEF Adding
    <2>2. CASE x # "cli"
        BY <1>1, <1>2, <1>15, <2>2 DEF CliKilled, OpType
    <2> QED
        BY <2>1, <2>2
<1> QED
    BY <1>3, <1>4, <1>5, <1>6, <1>7, <1>8, <1>9, <1>10, <1>11, <1>12, <1>13, <1>14, <1>15
    DEF Next

\* Every step keeps a complete snapshot in the index, about to be added, or excused.
THEOREM NoLossNext == StoreInv /\ NoSilentLoss /\ [Next]_vars => NoSilentLoss'
<1> SUFFICES ASSUME StoreInv, NoSilentLoss, [Next]_vars,
                    NEW d \in Dirs, Complete(d)', ~Indexed(d)'
             PROVE  Adding(d)'
    BY DEF NoSilentLoss, Adding
<1>1. CASE ~Complete(d)
    <2>1. PICK w \in Workers : WriteManifest(w) /\ wdir[w] = d /\ wpc'[w] = "read"
        BY <1>1, ManifestComes
    <2>2. wdir'[w] = d
        <3>1. Exists(wdir[w])
            <4>1. ~Exists(wdir[w]) => disk' = disk
                BY <2>1 DEF WriteManifest
            <4> QED
                BY <1>1, <4>1 DEF Complete
        <3> QED
            BY <2>1, <3>1 DEF WriteManifest
    <2> QED
        BY <2>1, <2>2 DEF Adding
<1>2. CASE Complete(d) /\ Indexed(d)
    BY <1>2, RowGoes
<1>3. CASE Complete(d) /\ ~Indexed(d)
    <2>1. Adding(d)
        BY <1>3 DEF NoSilentLoss, Adding
    <2>2. CASE d \in excused
        BY <2>2, ExcusedStays DEF Adding
    <2>3. ASSUME NEW w \in Workers, wdir[w] = d, wpc[w] \in {"read", "index"}
          PROVE  Adding(d)'
        BY <1>3, <2>3, JobAdds
    <2>4. ASSUME NEW x \in Operators, op[x] = "reindex", d \in todo[x]
          PROVE  Adding(d)'
        BY <1>3, <2>4, RebuildAdds
    <2> QED
        BY <2>1, <2>2, <2>3, <2>4 DEF Adding
<1> QED
    BY <1>1, <1>2, <1>3

\* A complete snapshot is missing from the index only while a job or a rebuild is
\* about to add it, or after an accident, whatever jobs, retention and two rebuilds
\* do at the same time (index_db.py: index_manifest, rebuild_index).
THEOREM NoLossAlways == Spec => []NoSilentLoss
<1>1. Init => NoSilentLoss
    BY DEF Init, NoSilentLoss, Complete, Absent
<1> QED
    BY <1>1, StoreAlways, NoLossNext, PTL DEF Spec
=============================================================================
