------------------------------ MODULE EtcdRecovery ------------------------------
(***************************************************************************)
(* Backups of a cluster's etcd, and restores into it: the backup jobs, the *)
(* init container that may wipe and refill the data directory before etcd  *)
(* starts, the operator that tells it which snapshot to take, and the web  *)
(* application that asks for a restore.  etcd has one member, as in the    *)
(* preset "normal".                                                        *)
(*                                                                         *)
(* Both scripts may be killed between any two of their commands, and in    *)
(* the middle of those that copy.                                          *)
(***************************************************************************)
EXTENDS Integers, FiniteSets, Sequences, Functions, Lists

CONSTANTS
    Jobs,         \* runs of backup.sh that may overlap: the CronJob's and manual ones
    Retention,    \* RETENTION_COUNT
    Offered,      \* the kinds of names the user restores by
    MaxBackups,   \* bound: snapshots taken
    MaxRequests,  \* bound: restores asked for
    MaxWrites,    \* bound: writes by tenants
    MaxFaults,    \* bound: killed scripts, restarted pods, failed copies
    MaxEvents     \* bound: all four together

ASSUME RetentionAssumption == Retention \in Nat \ {0}
ASSUME OfferedAssumption == Offered \subseteq {"snapshot", "latest", "row"}
ASSUME BoundAssumption ==
    /\ MaxBackups \in Nat /\ MaxRequests \in Nat
    /\ MaxWrites \in Nat /\ MaxFaults \in Nat /\ MaxEvents \in Nat

\* Names of snapshot files.  The operator's status names the row of a backup after
\* its Job, which is no file at all; origin is a snapshot of another cluster.
Name == [kind : {"none", "latest", "origin"}, n : {0}]
        \cup [kind : {"snapshot", "row"}, n : 1..MaxBackups]
None == [kind |-> "none", n |-> 0]
Latest == [kind |-> "latest", n |-> 0]
Origin == [kind |-> "origin", n |-> 0]
Stamped(k) == [kind |-> "snapshot", n |-> k]
Row(k) == [kind |-> "row", n |-> k]

\* What etcd holds: the number of the last write, and the snapshot it came from.
Data == [rev : 0..MaxWrites, from : Name]
Fresh == [rev |-> 0, from |-> None]
Empty == [rev |-> -1, from |-> None]
Partial == [rev |-> -2, from |-> None]

\* A file is whole, or what a killed copy left of it.
File == [name : Name, rev : 0..MaxWrites, whole : BOOLEAN]

VARIABLES
    initial,      \* spec.disasterRecovery.initialBackupRestore
    requests,     \* the values restoreSnapshotName was given, in order
    tmpl,         \* the init container's environment in the StatefulSet
    pod,          \* the etcd pod
    db,           \* its data directory
    marks,        \* the .restored_* files in it
    local,        \* the backup volume, oldest modification first
    vault,        \* the shared directory
    jobs,         \* the running backups
    taken,        \* the number of snapshots taken
    writes,
    served,       \* how many requests had been made when etcd last came up for them all
    torn,         \* did a copy of a snapshot fail, come too late or get cut short?
    crossed,      \* did a run prune after another counted, and before that one pruned?
    faults

vars == <<initial, requests, tmpl, pod, db, marks, local, vault, jobs, taken,
          writes, served, torn, crossed, faults>>
backups == <<jobs, taken, crossed>>
disks == <<db, marks, local, vault>>

Env == [file : Name, force : BOOLEAN]
Wanted == IF requests = <<>> THEN None ELSE requests[Len(requests)]

\* src is where the file to restore from was found.
Pod == [pc : {"init", "cleared", "restored", "up"}, env : Env, use : Name,
        src : {"local", "vault"}]
Starting(env) == [pc |-> "init", env |-> env, use |-> None, src |-> "local"]

Job == [pc : {"idle", "latest", "mirror", "prune"}, k : 0..MaxBackups, excess : Nat]
NoJob == [pc |-> "idle", k |-> 0, excess |-> 0]

\* Mutation: restores are never forced.
EnvUnforced ==
    IF Wanted # None THEN [file |-> Wanted, force |-> FALSE]
                     ELSE [file |-> initial, force |-> FALSE]
WantedEnv ==
    IF Wanted # None THEN [file |-> Wanted, force |-> TRUE]
                     ELSE [file |-> initial, force |-> FALSE]

\* The vault outlives clusters: it may hold what an earlier one of this name left.
Init ==
    /\ initial \in {None, Origin}
    /\ requests = <<>>
    /\ tmpl = [file |-> initial, force |-> FALSE]
    /\ pod = Starting(tmpl)
    /\ db = Empty /\ marks = {}
    /\ local = <<>>
    /\ vault \in {{}} \cup {{[name |-> n, rev |-> 0, whole |-> TRUE]} :
                           n \in {Latest, initial} \ {None}}
    /\ jobs = [j \in Jobs |-> NoJob]
    /\ taken = 0 /\ writes = 0 /\ served = 0
    /\ torn = FALSE /\ crossed = FALSE /\ faults = 0

Events == taken + Len(requests) + writes + faults

Fault == Events < MaxEvents /\ faults < MaxFaults /\ faults' = faults + 1
NoFault == UNCHANGED faults

Names(files) == {f.name : f \in files}
InVolume(n) == n \in Names(Range(local))
InVault(n) == n \in Names(vault)
FileIn(files, n) == CHOOSE f \in files : f.name = n
WithoutName(s, n) == Filtered(s, {f \in Range(s) : f.name # n})

\* A copy has the time of copying.
Copied(f) == Append(WithoutName(local, f.name), f)
Mirrored(fs) == {f \in vault : f.name \notin Names(fs)} \cup fs

-----------------------------------------------------------------------------
(* Tenants, the web application and the operator.                          *)

Write ==
    /\ pod.pc = "up" /\ db \in Data
    /\ writes < MaxWrites /\ Events < MaxEvents
    /\ writes' = writes + 1
    /\ db' = [db EXCEPT !.rev = writes + 1]
    /\ UNCHANGED <<initial, requests, tmpl, pod, marks, local, vault, backups, served,
                   torn, faults>>

\* restoreEtcdSnapshot, by a name that exists or by a row of the table of backups;
\* the restart it adds comes before the operator knows of the request.
Request ==
    /\ Len(requests) < MaxRequests /\ Events < MaxEvents
    /\ \E n \in Names(Range(local)) \cup Names(vault) \cup {Row(k) : k \in 1..taken} :
          /\ n.kind \in Offered
          /\ requests' = Append(requests, n)
    /\ pod' \in {pod, Starting(tmpl)}
    /\ UNCHANGED <<initial, tmpl, disks, backups, writes, served, torn, faults>>

ReconcileEtcd ==
    /\ tmpl # WantedEnv
    /\ tmpl' = WantedEnv
    /\ UNCHANGED <<initial, requests, pod, disks, backups, writes, served, torn, faults>>

Roll ==
    /\ pod.env # tmpl
    /\ pod' = Starting(tmpl)
    /\ UNCHANGED <<initial, requests, tmpl, disks, backups, writes, served, torn, faults>>

PodRestart ==
    /\ Fault
    /\ pod' = Starting(tmpl)
    /\ UNCHANGED <<initial, requests, tmpl, disks, backups, writes, served, torn>>

-----------------------------------------------------------------------------
(* restore.sh.                                                             *)

\* The file it settles on: where, and under which name.
Newest == IF InVolume(Latest) THEN Latest
          ELSE IF local # <<>> THEN local[Len(local)].name ELSE None
Sought == IF pod.env.file = None THEN Newest ELSE pod.env.file
Source ==
    IF InVolume(Sought) THEN [src |-> "local", use |-> Sought]
    ELSE IF InVault(Sought) THEN [src |-> "vault", use |-> Sought]
    ELSE IF InVault(Latest) THEN [src |-> "vault", use |-> Latest]
    ELSE [src |-> "local", use |-> None]

\* etcd starts: on nothing, it starts anew.
ComeUp ==
    /\ pod' = [pod EXCEPT !.pc = "up"]
    /\ served' = IF pod.env = tmpl /\ tmpl = WantedEnv THEN Len(requests) ELSE served

\* Mutation: the marker is not looked at.
SkipUnlessForced ==
    \/ Source.use = None
    \/ db # Empty /\ ~pod.env.force
Skip ==
    \/ Source.use = None
    \/ Source.use \in marks
    \/ db # Empty /\ ~pod.env.force

\* What is found in the vault is copied to the volume too, if that works.
Mirror ==
    IF Source.src = "local" THEN UNCHANGED <<local, torn, faults>>
    ELSE LET f == FileIn(vault, Source.use)
         IN  \/ local' = Copied(f) /\ torn' = (torn \/ ~f.whole) /\ NoFault
             \/ local' \in {local, Copied([f EXCEPT !.whole = FALSE])} /\ torn' = TRUE /\ Fault

RestoreSkip ==
    /\ pod.pc = "init"
    /\ Skip
    /\ Mirror
    /\ ComeUp
    /\ db' = IF db = Empty THEN Fresh ELSE db
    /\ UNCHANGED <<initial, requests, tmpl, marks, vault, backups, writes>>

\* rm -rf of everything but the names that begin with a dot.
RestoreClear ==
    /\ pod.pc = "init"
    /\ ~Skip
    /\ Mirror
    /\ db' = Empty
    /\ pod' = [pod EXCEPT !.pc = "cleared", !.use = Source.use, !.src = Source.src]
    /\ UNCHANGED <<initial, requests, tmpl, marks, vault, backups, writes, served>>

\* The container is killed while it copies or deletes, and starts again.
RestoreClearKilled ==
    /\ pod.pc = "init"
    /\ ~Skip
    /\ Fault
    /\ \/ Source.src = "vault" /\ torn' = TRUE /\ db' = db
          /\ local' = Copied([FileIn(vault, Source.use) EXCEPT !.whole = FALSE])
       \/ db # Empty /\ db' = Partial /\ UNCHANGED <<local, torn>>
    /\ UNCHANGED <<initial, requests, tmpl, pod, marks, vault, backups, writes, served>>

Files == IF pod.src = "local" THEN Range(local) ELSE vault
Copying == \E j \in Jobs : jobs[j].pc \in {"latest", "mirror"}

\* Mutation: the marker is written before the data.
MarkFirst ==
    /\ pod.pc = "cleared"
    /\ marks' = marks \cup {pod.use}
    /\ \/ \E f \in Files : f.name = pod.use /\ f.whole /\ db' = [rev |-> f.rev, from |-> pod.use]
                           /\ NoFault /\ pod' = [pod EXCEPT !.pc = "restored"]
       \/ Fault /\ db' = Partial /\ pod' = Starting(pod.env)
    /\ UNCHANGED <<initial, requests, tmpl, local, vault, backups, writes, served, torn>>

\* etcdutl snapshot restore, which is not told to check the snapshot's hash; it may
\* refuse a directory in which markers of earlier restores are left.
RestoreData ==
    /\ pod.pc = "cleared"
    /\ \/ \E f \in Files :
             /\ f.name = pod.use
             /\ \/ f.whole /\ db' = [rev |-> f.rev, from |-> pod.use]
                \/ (~f.whole \/ (f.name = Latest /\ Copying)) /\ db' = Partial
             /\ pod' = [pod EXCEPT !.pc = "restored"]
             /\ NoFault
       \/ /\ marks # {} \/ \A f \in Files : f.name = pod.use => ~f.whole
          /\ db' = db /\ pod' = Starting(pod.env)
          /\ NoFault
       \/ /\ Fault
          /\ db' = Partial /\ pod' = Starting(pod.env)
    /\ UNCHANGED <<initial, requests, tmpl, marks, local, vault, backups, writes, served, torn>>

Touch ==
    /\ pod.pc = "restored"
    /\ marks' = marks \cup {pod.use}
    /\ ComeUp
    /\ UNCHANGED <<initial, requests, tmpl, db, local, vault, backups, writes, torn, faults>>

-----------------------------------------------------------------------------
(* backup.sh.                                                              *)

Step(j, pc) == jobs' = [jobs EXCEPT ![j].pc = pc]
Own(j) == FileIn(Range(local), Stamped(jobs[j].k))

\* What ls finds in the volume, without the latest: the snapshots, the oldest first.
Snapshots == Filtered(local, {f \in Range(local) : f.name.kind = "snapshot"})

\* The snapshot appears whole, under its name, or not at all.
BackupSave(j) ==
    /\ jobs[j].pc = "idle"
    /\ pod.pc = "up" /\ db \in Data
    /\ taken < MaxBackups /\ Events < MaxEvents
    /\ taken' = taken + 1
    /\ local' = Copied([name |-> Stamped(taken + 1), rev |-> db.rev, whole |-> TRUE])
    /\ jobs' = [jobs EXCEPT ![j] = [NoJob EXCEPT !.pc = "latest", !.k = taken + 1]]
    /\ UNCHANGED <<initial, requests, tmpl, pod, db, marks, vault, writes, served, torn, crossed,
                   faults>>

\* Without its snapshot, which another run may have pruned, the script ends.
BackupLatest(j) ==
    /\ jobs[j].pc = "latest"
    /\ IF InVolume(Stamped(jobs[j].k))
       THEN Step(j, "mirror") /\ local' = Copied([Own(j) EXCEPT !.name = Latest])
       ELSE jobs' = [jobs EXCEPT ![j] = NoJob] /\ local' = local
    /\ UNCHANGED <<initial, requests, tmpl, pod, db, marks, vault, taken, writes, served,
                   torn, crossed, faults>>

\* Mutation: the excess is counted without comparing first.
ExcessUnguarded == Len(Snapshots) - Retention
\* Mutation: one too few is kept.
ExcessOffByOne ==
    IF Len(Snapshots) >= Retention THEN Len(Snapshots) - Retention + 1 ELSE 0
Excess == IF Len(Snapshots) > Retention THEN Len(Snapshots) - Retention ELSE 0

\* Copies to the shared directory may fail; the script goes on and counts what is
\* in the volume.
BackupMirror(j) ==
    /\ jobs[j].pc = "mirror"
    /\ jobs' = [jobs EXCEPT ![j].pc = "prune", ![j].excess = Excess]
    /\ \/ /\ InVolume(Stamped(jobs[j].k))
          /\ vault' = Mirrored({Own(j), [Own(j) EXCEPT !.name = Latest]})
          /\ UNCHANGED <<torn, faults>>
       \/ /\ IF InVolume(Stamped(jobs[j].k)) THEN Fault ELSE NoFault
          /\ vault' = vault /\ torn' = TRUE
    /\ UNCHANGED <<initial, requests, tmpl, pod, db, marks, local, taken, writes, served, crossed>>

\* What is to go is listed anew: the n oldest.
Prunes(j, n) ==
    LET gone == {Snapshots[i] : i \in 1..n \cap DOMAIN Snapshots}
    IN  /\ local' = Filtered(local, Range(local) \ gone)
        /\ torn' = (torn \/ \E f \in gone : ~InVault(f.name))
        /\ crossed' = (crossed \/ (gone # {} /\ \E i \in Jobs \ {j} : jobs[i].excess > 0))

\* A slow run may lose its snapshot to a quick one.
BackupPrune(j) ==
    /\ jobs[j].pc = "prune"
    /\ Prunes(j, jobs[j].excess)
    /\ jobs' = [jobs EXCEPT ![j] = NoJob]
    /\ UNCHANGED <<initial, requests, tmpl, pod, db, marks, vault, taken, writes, served,
                   faults>>

\* A killed run is not continued: the next one takes another snapshot.
BackupKilled(j) ==
    /\ Fault
    /\ jobs' = [jobs EXCEPT ![j] = NoJob]
    /\ \/ /\ jobs[j].pc = "latest" /\ torn' = TRUE
          /\ local' \in {local} \cup (IF InVolume(Stamped(jobs[j].k))
                                     THEN {Copied([Own(j) EXCEPT !.name = Latest, !.whole = FALSE])}
                                     ELSE {})
          /\ UNCHANGED <<vault, crossed>>
       \/ /\ jobs[j].pc = "mirror" /\ torn' = TRUE
          /\ vault' \in {vault} \cup (IF InVolume(Stamped(jobs[j].k))
                                     THEN {Mirrored({[Own(j) EXCEPT !.whole = FALSE]})}
                                     ELSE {})
          /\ UNCHANGED <<local, crossed>>
       \/ /\ jobs[j].pc = "prune" /\ \E n \in 0..jobs[j].excess : Prunes(j, n)
          /\ UNCHANGED vault
    /\ UNCHANGED <<initial, requests, tmpl, pod, db, marks, taken, writes, served>>

-----------------------------------------------------------------------------
Restore == RestoreSkip \/ RestoreClear \/ RestoreData \/ Touch
Backup(j) == BackupLatest(j) \/ BackupMirror(j) \/ BackupPrune(j)

Next ==
    \/ Write \/ Request \/ ReconcileEtcd \/ Roll \/ PodRestart
    \/ Restore \/ RestoreClearKilled
    \/ \E j \in Jobs : BackupSave(j) \/ Backup(j) \/ BackupKilled(j)

Spec == Init /\ [][Next]_vars

\* The operator reconciles on the edit, the StatefulSet controller rolls the pod, the
\* kubelet runs and repeats the init container: one of them proceeds while any can.
\* Backups may stop for good.
FairSpec == Spec /\ WF_vars(ReconcileEtcd \/ Roll \/ Restore)
-----------------------------------------------------------------------------
(* Properties.                                                             *)

\* Every variable stays in its type; no two files of a directory have one name,
\* and the script never leaves etcd running on an empty directory.
TypeOK ==
    /\ initial \in Name /\ requests \in Seq(Name) /\ Len(requests) <= MaxRequests
    /\ tmpl \in Env /\ pod \in Pod
    /\ db \in Data \cup {Empty, Partial}
    /\ pod.pc = "up" => db # Empty
    /\ marks \subseteq Name \ {None}
    /\ Range(local) \subseteq File /\ Cardinality(Names(Range(local))) = Len(local)
    /\ vault \subseteq File /\ Cardinality(Names(vault)) = Cardinality(vault)
    /\ jobs \in [Jobs -> Job]
    /\ taken \in 0..MaxBackups /\ writes \in 0..MaxWrites
    /\ served \in 0..Len(requests)
    /\ torn \in BOOLEAN /\ crossed \in BOOLEAN /\ faults \in 0..MaxFaults

Repeated == \E i, j \in DOMAIN requests : i # j /\ requests[i] = requests[j]

\* Wherever the init container of a restore by name is killed, etcd comes up on a
\* whole snapshot in the end, never on the part that was restored first.  (Unless a
\* copy of a snapshot was itself cut short, or the name is that of an earlier
\* restore, whose marker is believed.)
RestoreIsWhole ==
    pod.pc = "up" /\ pod.env.force /\ pod.env.file.kind = "snapshot" /\ ~torn /\ ~Repeated
    => db # Partial

\* Once etcd has come up for the last request, what it holds is not replaced by
\* anything older, though the request stays in the specification and the init
\* container runs again whenever the pod does.  (Unless no whole copy of a snapshot
\* is left under its name, so that the script finds another one, or the name is a
\* row of the table, for which it finds whatever is the latest.)
WritesSurviveRestarts ==
    [][served = Len(requests) /\ db \in Data /\ ~torn /\ Wanted.kind # "row"
          => db' \in Data /\ db'.rev >= db.rev]_vars

\* RETENTION_COUNT snapshots are kept, whatever is restored from the shared directory
\* and whichever runs overlap or are killed between their commands.  (Unless one run
\* prunes between another's count and its deletions, backup.sh:92-97: that one then
\* removes as many again.)
BackupsKept ==
    ~crossed => Len(Snapshots) >= IF taken < Retention THEN taken ELSE Retention

\* The first restore into a data directory, by the name of a snapshot, takes
\* effect, though the snapshot may be pruned before the init container looks.
RestoreTakesEffect ==
    <>[](Wanted.kind = "snapshot" /\ marks \subseteq {Wanted} /\ ~torn
         => db \in Data /\ db.from = Wanted)

-----------------------------------------------------------------------------
(* What the repository says and the code does not do.                      *)

\* A row of the table of backups, restored when no backup is running, brings back
\* that backup, if its file is still in the volume.  README.md: "Select any
\* point-in-time snapshot from the table and click Restore."
RowRestoresItsBackup ==
    [][/\ pod.pc = "cleared" /\ pod.env.file.kind = "row" /\ db' \in Data
       /\ \A j \in Jobs : jobs[j].pc = "idle"
          => \A f \in Range(local) : f.name = Stamped(pod.env.file.n) => db'.rev = f.rev]_vars
=============================================================================
