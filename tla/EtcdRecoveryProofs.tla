--------------------------- MODULE EtcdRecoveryProofs ---------------------------
(***************************************************************************)
(* Theorems about backups and restores: nothing leaves its type, a restore *)
(* never leaves etcd on part of a snapshot, what tenants write is not      *)
(* rolled back, and the snapshots that are to be kept are kept.            *)
(***************************************************************************)
EXTENDS EtcdRecovery, ListFacts

-------------------------------------------------------------------------------
(* The inductive invariant. *)

\* Files and their names.
OwnNames(files) == \A f, g \in files : f.name = g.name => f = g
Dirs ==
    /\ local \in Seq(File)
    /\ \A i, j \in 1..Len(local) : local[i].name = local[j].name => i = j
    /\ vault \subseteq File /\ IsFiniteSet(vault) /\ OwnNames(vault)
    /\ \A n \in Names(Range(local)) \cup Names(vault) :
          /\ n.kind \in {"snapshot", "latest", "origin"}
          /\ n.kind = "snapshot" => n.n <= taken
    /\ \A f \in Range(local) \cup vault : f.rev <= writes

Counts ==
    /\ taken \in 0..MaxBackups /\ writes \in 0..MaxWrites /\ faults \in 0..MaxFaults
    /\ torn \in BOOLEAN /\ crossed \in BOOLEAN

Running ==
    /\ jobs \in [Jobs -> Job]
    /\ \A j \in Jobs : jobs[j].k <= taken /\ (jobs[j].pc # "prune" => jobs[j].excess = 0)

Asked ==
    /\ initial \in {None, Origin}
    /\ requests \in Seq(Name) /\ Len(requests) <= MaxRequests
    /\ \A i \in 1..Len(requests) : requests[i].kind \in {"snapshot", "latest", "row"}
    /\ served \in 0..Len(requests)

\* The environment of the pod is that of a request, or of the time before any; the
\* template's is no earlier.
Of(env, i) == i \in 1..Len(requests) /\ env = [file |-> requests[i], force |-> TRUE]
First == [file |-> initial, force |-> FALSE]
Ordered ==
    /\ tmpl = First \/ \E i \in 1..Len(requests) : Of(tmpl, i)
    /\ \/ pod.env = First
       \/ \E i \in 1..Len(requests) : Of(pod.env, i) /\ \E k \in i..Len(requests) : Of(tmpl, k)

Container ==
    /\ pod \in Pod
    /\ db \in Data \cup {Empty, Partial}
    /\ db \in Data => db.rev <= writes
    /\ pod.pc = "up" => db # Empty
    /\ pod.pc = "cleared" => db = Empty /\ pod.use # None /\ pod.use \notin marks
    /\ pod.pc = "restored" => db # Empty /\ pod.use # None
    /\ marks \subseteq Name \ {None}

TypeInv == Dirs /\ Counts /\ Running /\ Asked /\ Ordered /\ Container

\* Unless a copy was lost or cut short, what was asked for is there, whole, and it is
\* what the init container takes.
Kept ==
    ~torn =>
        /\ \A f \in Range(local) \cup vault : f.whole
        /\ \A i \in 1..Len(requests) :
              requests[i].kind # "row" => requests[i] \in Names(Range(local)) \cup Names(vault)
        /\ pod.pc \in {"cleared", "restored"} /\ pod.env.force
              => pod.use = IF pod.env.file.kind = "row" THEN Latest ELSE pod.env.file

\* Once the pod is the last request's, the marker stands.
Marked ==
    ~torn /\ requests # <<>> /\ served = Len(requests) /\ Wanted.kind # "row" =>
        Wanted \in marks /\ pod.env = tmpl /\ tmpl = WantedEnv

\* Before any request the data directory is only filled once, with what is no snapshot
\* of this cluster.
Untouched ==
    ~pod.env.force =>
        /\ pod.pc \in {"cleared", "restored"} => pod.use.kind # "snapshot"
        /\ \A n \in marks : n.kind # "snapshot"
        /\ db = Empty => \A n \in Names(Range(local)) : n.kind # "snapshot"

\* The markers of snapshots are those of the requests up to the pod's, and the one for
\* its own only stands beside whole data.
Whole ==
    ~torn /\ ~Repeated /\ pod.env.force =>
        /\ \A i \in 1..Len(requests) : Of(pod.env, i) =>
              \A n \in marks : n.kind = "snapshot" => \E k \in 1..i : n = requests[k]
        /\ pod.env.file.kind = "snapshot" =>
              /\ pod.pc \in {"restored", "up"} => db # Partial
              /\ db = Partial => pod.env.file \notin marks

\* Each run that has counted leaves enough.
Spared ==
    ~crossed =>
        LET kept == Cardinality({n \in Names(Range(local)) : n.kind = "snapshot"})
        IN  /\ kept >= IF taken < Retention THEN taken ELSE Retention
            /\ \A j \in Jobs : jobs[j].excess > 0 => kept - jobs[j].excess >= Retention

Inv == TypeInv /\ Kept /\ Marked /\ Untouched /\ Whole /\ Spared

-------------------------------------------------------------------------------
(* Files. *)

LEMMA NameKinds ==
    \A n \in Name : /\ n.kind \in {"none", "latest", "origin", "snapshot", "row"}
                    /\ n.kind = "none" => n = None
                    /\ n.kind = "latest" => n = Latest
                    /\ n.kind = "snapshot" => n.n \in 1..MaxBackups /\ n = Stamped(n.n)
BY BoundAssumption DEF Name, None, Latest, Stamped

LEMMA NamesAre ==
    /\ None \in Name /\ Latest \in Name /\ Origin \in Name
    /\ None.kind = "none" /\ Latest.kind = "latest" /\ Origin.kind = "origin"
    /\ \A k \in 1..MaxBackups : /\ Stamped(k) \in Name /\ Stamped(k).kind = "snapshot"
                                 /\ Stamped(k).n = k
                                 /\ Row(k) \in Name /\ Row(k).kind = "row"
BY BoundAssumption DEF Name, None, Latest, Origin, Stamped, Row

LEMMA FileParts ==
    ASSUME NEW f \in File
    PROVE  f.name \in Name /\ f.rev \in 0..MaxWrites /\ f.whole \in BOOLEAN
BY DEF File

LEMMA FileChanged ==
    ASSUME NEW f \in File, NEW n \in Name
    PROVE  /\ [f EXCEPT !.name = n] \in File
           /\ [f EXCEPT !.name = n].name = n /\ [f EXCEPT !.name = n].rev = f.rev
           /\ [f EXCEPT !.name = n].whole = f.whole
           /\ [f EXCEPT !.whole = FALSE] \in File
           /\ [f EXCEPT !.whole = FALSE].name = f.name /\ [f EXCEPT !.whole = FALSE].rev = f.rev
           /\ [f EXCEPT !.name = n, !.whole = FALSE] \in File
           /\ [f EXCEPT !.name = n, !.whole = FALSE].name = n
           /\ [f EXCEPT !.name = n, !.whole = FALSE].rev = f.rev
BY DEF File

LEMMA Found ==
    ASSUME NEW files, NEW n \in Names(files)
    PROVE  FileIn(files, n) \in files /\ FileIn(files, n).name = n
BY DEF FileIn, Names

LEMMA LocalFiles ==
    ASSUME Dirs
    PROVE  /\ Len(local) \in Nat /\ DOMAIN local = 1..Len(local)
           /\ \A i \in 1..Len(local) : local[i] \in File
           /\ Range(local) \subseteq File /\ OwnNames(Range(local))
           /\ \A f \in Range(local) : \E i \in 1..Len(local) : f = local[i]
<1>1. local \in Seq(File) /\ \A i, j \in 1..Len(local) : local[i].name = local[j].name => i = j
  BY DEF Dirs
<1>2. /\ Len(local) \in Nat /\ DOMAIN local = 1..Len(local)
      /\ \A i \in 1..Len(local) : local[i] \in File
  BY <1>1
<1>3. \A f \in Range(local) : \E i \in 1..Len(local) : f = local[i]
  BY <1>2 DEF Range
<1> QED
  BY <1>1, <1>2, <1>3 DEF OwnNames

\* A filter of the volume keeps its files apart.
LEMMA DroppedFiles ==
    ASSUME Dirs, NEW kept
    PROVE  /\ Filtered(local, kept) \in Seq(File)
           /\ \A i, j \in 1..Len(Filtered(local, kept)) :
                 Filtered(local, kept)[i].name = Filtered(local, kept)[j].name => i = j
           /\ Range(Filtered(local, kept)) = Range(local) \cap kept
<1> DEFINE f == Filtered(local, kept)
<1>1. local \in Seq(File) /\ \A i, j \in 1..Len(local) : local[i].name = local[j].name => i = j
  BY DEF Dirs
<1>2. f \in Seq(File) /\ Range(f) = Range(local) \cap kept
  BY <1>1, FilteredRange, FilteredElements
<1>3. ASSUME NEW i \in 1..Len(f), NEW j \in 1..Len(f), f[i].name = f[j].name, i # j
      PROVE  FALSE
  <2>1. PICK k, l \in 1..Len(local) : k # l /\ f[i] = local[k] /\ f[j] = local[l]
    BY <1>1, <1>3, FilteredApart
  <2> HIDE DEF f
  <2> QED
    BY <1>1, <1>3, <2>1
<1> QED
  BY <1>2, <1>3

\* A copy replaces the file of its name.
LEMMA CopiedFiles ==
    ASSUME Dirs, NEW f \in File
    PROVE  /\ Copied(f) \in Seq(File)
           /\ \A i, j \in 1..Len(Copied(f)) : Copied(f)[i].name = Copied(f)[j].name => i = j
           /\ Range(Copied(f)) = {g \in Range(local) : g.name # f.name} \cup {f}
           /\ Names(Range(Copied(f))) = Names(Range(local)) \cup {f.name}
<1> DEFINE kept == {g \in Range(local) : g.name # f.name}
           t == Filtered(local, kept)
<1>1. /\ t \in Seq(File) /\ Range(t) = kept
      /\ \A i, j \in 1..Len(t) : t[i].name = t[j].name => i = j
  <2>1. Range(local) \cap kept = kept
    OBVIOUS
  <2> HIDE DEF kept
  <2>2. t \in Seq(File) /\ Range(t) = Range(local) \cap kept
    BY DroppedFiles
  <2>3. \A i, j \in 1..Len(t) : t[i].name = t[j].name => i = j
    BY DroppedFiles
  <2> QED
    BY <2>1, <2>2, <2>3
<1>2. Copied(f) = Append(t, f)
  BY DEF Copied, WithoutName
<1>3. \A g \in kept : g.name # f.name
  OBVIOUS
<1> HIDE DEF t
<1>4. /\ Append(t, f) \in Seq(File) /\ Range(Append(t, f)) = kept \cup {f}
  BY <1>1, AppendedRange
<1>5. /\ Len(t) \in Nat /\ Len(Append(t, f)) = Len(t) + 1
      /\ \A i \in 1..Len(t) : Append(t, f)[i] = t[i] /\ t[i] \in kept
      /\ Append(t, f)[Len(t) + 1] = f
  BY <1>1 DEF Range
<1>6. ASSUME NEW i \in 1..Len(t) + 1, NEW j \in 1..Len(t) + 1,
             Append(t, f)[i].name = Append(t, f)[j].name
      PROVE  i = j
  <2> HIDE DEF kept
  <2>1. (i \in 1..Len(t) \/ i = Len(t) + 1) /\ (j \in 1..Len(t) \/ j = Len(t) + 1)
    BY <1>5
  <2>2. i \in 1..Len(t) /\ j \in 1..Len(t) => i = j
    BY <1>1, <1>5, <1>6
  <2>3. ~(i \in 1..Len(t) /\ j = Len(t) + 1) /\ ~(j \in 1..Len(t) /\ i = Len(t) + 1)
    BY <1>3, <1>5, <1>6
  <2> QED
    BY <2>1, <2>2, <2>3
<1>7. Names(kept \cup {f}) = Names(Range(local)) \cup {f.name}
  BY DEF Names
<1> HIDE DEF kept
<1> QED
  BY <1>2, <1>4, <1>5, <1>6, <1>7 DEF kept

LEMMA MirroredFiles ==
    ASSUME Dirs, NEW fs \in SUBSET File, IsFiniteSet(fs), OwnNames(fs)
    PROVE  /\ Mirrored(fs) \subseteq File /\ IsFiniteSet(Mirrored(fs)) /\ OwnNames(Mirrored(fs))
           /\ Names(Mirrored(fs)) = Names(vault) \cup Names(fs)
           /\ Mirrored(fs) \subseteq vault \cup fs
<1> DEFINE left == {f \in vault : f.name \notin Names(fs)}
<1>1. IsFiniteSet(left)
  BY FS_Subset DEF Dirs
<1>2. IsFiniteSet(left \cup fs)
  BY <1>1, FS_Union
<1>3. OwnNames(left \cup fs)
  BY DEF Dirs, OwnNames, Names
<1> QED
  BY <1>2, <1>3 DEF Mirrored, Dirs, Names

-------------------------------------------------------------------------------
(* What a step does to the two directories. *)

Fits(f) ==
    /\ f \in File /\ f.rev <= writes' /\ f.name.kind \in {"snapshot", "latest", "origin"}
    /\ f.name.kind = "snapshot" => f.name.n <= taken'
    /\ ~torn' => f.whole
Rests == UNCHANGED <<local, vault>>
Copies == \E f \in File : Fits(f) /\ local' = Copied(f) /\ UNCHANGED vault
Mirrors ==
    \E fs \in SUBSET File :
        /\ IsFiniteSet(fs) /\ OwnNames(fs) /\ \A f \in fs : Fits(f)
        /\ vault' = Mirrored(fs) /\ UNCHANGED local
Drops ==
    \E j \in Jobs : \E n \in 0..jobs[j].excess :
        /\ Prunes(j, n) /\ UNCHANGED <<vault, taken>>
        /\ jobs' = [jobs EXCEPT ![j] = NoJob]
Grows ==
    /\ writes' >= writes /\ taken' >= taken /\ writes' \in Nat /\ taken' \in Nat
    /\ torn => torn'
    /\ crossed => crossed'

\* A file that is there, or a copy of it, may be copied.
LEMMA StoredFits ==
    ASSUME Inv, Grows, NEW f \in Range(local) \cup vault
    PROVE  /\ Fits(f)
           /\ f.name \in Name /\ f.whole \in BOOLEAN
<1>1. f \in File /\ f.rev <= writes /\ f.rev \in Nat
  BY LocalFiles, FileParts, BoundAssumption DEF Inv, TypeInv, Dirs
<1>2. f.name \in Names(Range(local)) \cup Names(vault)
  BY DEF Names
<1>3. /\ f.name.kind \in {"snapshot", "latest", "origin"}
      /\ f.name.kind = "snapshot" => f.name.n <= taken
  BY <1>2 DEF Inv, TypeInv, Dirs
<1>4. f.name \in Name /\ f.whole \in BOOLEAN
  BY <1>1, FileParts
<1>5. f.name.kind = "snapshot" => f.name.n \in Nat
  BY <1>4, NameKinds, BoundAssumption
<1>6. ~torn' => f.whole
  BY DEF Grows, Inv, Kept
<1>7. writes \in Nat /\ taken \in Nat /\ writes' \in Nat /\ taken' \in Nat
  BY BoundAssumption DEF Grows, Inv, TypeInv, Counts
<1> QED
  BY <1>1, <1>3, <1>4, <1>5, <1>6, <1>7 DEF Fits, Grows

LEMMA LatestFits ==
    ASSUME Inv, Grows, NEW f \in Range(local) \cup vault
    PROVE  /\ Fits([f EXCEPT !.name = Latest])
           /\ torn' => Fits([f EXCEPT !.whole = FALSE])
           /\ torn' => Fits([f EXCEPT !.name = Latest, !.whole = FALSE])
<1>1. f \in File /\ Fits(f)
  BY LocalFiles, StoredFits DEF Inv, TypeInv, Dirs
<1>2. Latest \in Name /\ Latest.kind = "latest"
  BY NamesAre
<1> DEFINE a == [f EXCEPT !.name = Latest]
           b == [f EXCEPT !.whole = FALSE]
           c == [f EXCEPT !.name = Latest, !.whole = FALSE]
<1>3. /\ a \in File /\ a.name = Latest /\ a.rev = f.rev /\ a.whole = f.whole
      /\ b \in File /\ b.name = f.name /\ b.rev = f.rev
      /\ c \in File /\ c.name = Latest /\ c.rev = f.rev
  BY <1>1, <1>2, FileChanged
<1> HIDE DEF a, b, c
<1>4. Fits(a) /\ (torn' => Fits(b)) /\ (torn' => Fits(c))
  BY <1>1, <1>2, <1>3 DEF Fits
<1> QED
  BY <1>4 DEF a, b, c

LEMMA StepGrows ==
    ASSUME Inv, Next
    PROVE  Grows
<1>1. /\ writes \in Nat /\ taken \in Nat /\ torn \in BOOLEAN /\ crossed \in BOOLEAN
  BY BoundAssumption DEF Inv, TypeInv, Counts
<1>2. CASE Write
  BY <1>1, <1>2 DEF Write, backups, Grows
<1>3. CASE Request \/ ReconcileEtcd \/ Roll \/ PodRestart
  BY <1>1, <1>3 DEF Request, ReconcileEtcd, Roll, PodRestart, backups, Grows
<1>4. CASE RestoreSkip \/ RestoreClear
  BY <1>1, <1>4 DEF RestoreSkip, RestoreClear, Mirror, backups, Grows
<1>5. CASE RestoreData \/ Touch \/ RestoreClearKilled
  BY <1>1, <1>5 DEF RestoreData, Touch, RestoreClearKilled, backups, Grows
<1>6. ASSUME NEW j \in Jobs, BackupSave(j) \/ BackupLatest(j) \/ BackupMirror(j)
      PROVE  Grows
  BY <1>1, <1>6 DEF BackupSave, BackupLatest, BackupMirror, Grows
<1>7. ASSUME NEW j \in Jobs, BackupPrune(j) \/ BackupKilled(j)
      PROVE  Grows
  <2>1. \A n : Prunes(j, n) => (torn => torn') /\ (crossed => crossed')
    BY DEF Prunes
  <2>2. (torn => torn') /\ (crossed => crossed')
    BY <1>7, <2>1 DEF BackupPrune, BackupKilled
  <2>3. UNCHANGED <<writes, taken>>
    BY <1>7 DEF BackupPrune, BackupKilled
  <2> QED
    BY <1>1, <2>2, <2>3 DEF Grows
<1> QED
  BY <1>2, <1>3, <1>4, <1>5, <1>6, <1>7 DEF Next, Restore, Backup

LEMMA SourceIs ==
    ASSUME Inv
    PROVE  /\ Source.src \in {"local", "vault"} /\ Source.use \in Name
           /\ Source.src = "vault" => Source.use \in Names(vault)
           /\ Source.use # None => Source.use \in Names(Range(local)) \cup Names(vault)
           /\ Sought \in Name
           /\ Source.use \in {Sought, Latest, None}
           /\ Sought \in Names(Range(local)) \cup Names(vault) => Source.use = Sought
           /\ pod.env.file # None => Sought = pod.env.file
           /\ pod.env.file = None => Sought \in Names(Range(local)) \cup {None}
<1>1. pod.env.file \in Name
  BY DEF Inv, TypeInv, Container, Pod, Env
<1>2. None \in Name /\ Latest \in Name
  BY NamesAre
<1>3. Newest \in Names(Range(local)) \cup {None} /\ Newest \in Name
  <2>1. /\ Len(local) \in Nat /\ DOMAIN local = 1..Len(local) /\ local \in Seq(File)
        /\ \A i \in 1..Len(local) : local[i] \in File
    BY LocalFiles DEF Inv, TypeInv, Dirs
  <2>2. ASSUME local # <<>>
        PROVE  local[Len(local)].name \in Names(Range(local)) /\ local[Len(local)].name \in Name
    <3>1. Len(local) \in 1..Len(local)
      BY <2>1, <2>2
    <3> QED
      BY <2>1, <3>1, FileParts DEF Names, Range
  <2> QED
    BY <1>2, <2>2 DEF Newest, InVolume
<1>4. Sought \in Name
  BY <1>1, <1>3 DEF Sought
<1> DEFINE s == Source
           so == Sought
<1>5. \/ InVolume(so) /\ s = [src |-> "local", use |-> so]
      \/ ~InVolume(so) /\ InVault(so) /\ s = [src |-> "vault", use |-> so]
      \/ ~InVolume(so) /\ ~InVault(so) /\ InVault(Latest) /\ s = [src |-> "vault", use |-> Latest]
      \/ ~InVolume(so) /\ ~InVault(so) /\ s = [src |-> "local", use |-> None]
  BY DEF Source
<1>6. /\ pod.env.file # None => so = pod.env.file
      /\ pod.env.file = None => so \in Names(Range(local)) \cup {None}
  BY <1>3 DEF Sought
<1> HIDE DEF s, so
<1>7. /\ s.src \in {"local", "vault"} /\ s.use \in {so, Latest, None}
      /\ s.src = "vault" => InVault(s.use)
      /\ s.use # None => InVolume(s.use) \/ InVault(s.use)
      /\ InVolume(so) \/ InVault(so) => s.use = so
  BY <1>5
<1>8. s.use \in Name
  BY <1>2, <1>4, <1>7 DEF so
<1> QED
  BY <1>4, <1>6, <1>7, <1>8 DEF s, so, InVolume, InVault

LEMMA MirrorCopies ==
    ASSUME Inv, Grows, UNCHANGED vault, Mirror
    PROVE  Rests \/ Copies
<1>1. CASE Source.src = "local"
  BY <1>1 DEF Mirror, Rests
<1>2. CASE Source.src # "local"
  <2> DEFINE f == FileIn(vault, Source.use)
             g == [f EXCEPT !.whole = FALSE]
  <2>1. f \in vault
    BY <1>2, SourceIs, Found
  <2>2. f \in File /\ g \in File /\ Fits(f) /\ (torn' => Fits(g))
    <3>1. f \in File /\ Fits(f) /\ f.name \in Name
      BY <2>1, StoredFits DEF Inv, TypeInv, Dirs
    <3>2. torn' => Fits(g)
      BY <2>1, LatestFits
    <3>3. g \in File
      BY <3>1, FileChanged
    <3> QED
      BY <3>1, <3>2, <3>3
  <2>3. local' = local \/ local' = Copied(f) \/ (local' = Copied(g) /\ torn')
    BY <1>2 DEF Mirror
  <2> HIDE DEF f, g
  <2> QED
    BY <2>2, <2>3 DEF Rests, Copies
<1> QED
  BY <1>1, <1>2

LEMMA FilesStep ==
    ASSUME Inv, Next
    PROVE  Rests \/ Copies \/ Mirrors \/ Drops
<1>1. Grows
  BY StepGrows
<1>2. CASE Write \/ Request \/ ReconcileEtcd \/ Roll \/ PodRestart \/ RestoreData \/ Touch
  BY <1>2 DEF Write, Request, ReconcileEtcd, Roll, PodRestart, RestoreData, Touch, disks, Rests
<1>3. CASE RestoreSkip \/ RestoreClear
  BY <1>1, <1>3, MirrorCopies DEF RestoreSkip, RestoreClear
<1>4. CASE RestoreClearKilled
  <2>1. CASE UNCHANGED local
    BY <1>4, <2>1 DEF RestoreClearKilled, Rests
  <2>2. CASE ~UNCHANGED local
    <3> DEFINE f == FileIn(vault, Source.use)
               g == [f EXCEPT !.whole = FALSE]
    <3>1. Source.src = "vault" /\ torn' /\ local' = Copied(g) /\ UNCHANGED vault
      BY <1>4, <2>2 DEF RestoreClearKilled
    <3>2. f \in vault
      BY <3>1, SourceIs, Found
    <3>3. Fits(g)
      BY <1>1, <3>1, <3>2, LatestFits
    <3> HIDE DEF g
    <3> QED
      BY <3>1, <3>3 DEF Copies, Fits
  <2> QED
    BY <2>1, <2>2
<1>5. ASSUME NEW j \in Jobs, BackupSave(j)
      PROVE  Copies
  <2> DEFINE f == [name |-> Stamped(taken + 1), rev |-> db.rev, whole |-> TRUE]
  <2>1. /\ local' = Copied(f) /\ UNCHANGED <<vault, writes>> /\ taken' = taken + 1
        /\ taken < MaxBackups /\ db \in Data
    BY <1>5 DEF BackupSave
  <2>2. /\ taken \in Nat /\ writes \in Nat /\ db.rev <= writes /\ db.rev \in 0..MaxWrites
        /\ taken + 1 \in 1..MaxBackups
    BY <2>1, BoundAssumption DEF Inv, TypeInv, Counts, Container, Data
  <2>3. Stamped(taken + 1) \in Name /\ Stamped(taken + 1).kind = "snapshot" /\ Stamped(taken + 1).n = taken + 1
    BY <2>2, NamesAre
  <2>4. f \in File /\ f.name = Stamped(taken + 1) /\ f.rev = db.rev /\ f.whole
    BY <2>2, <2>3 DEF File
  <2> HIDE DEF f
  <2>5. Fits(f)
    BY <2>1, <2>2, <2>3, <2>4 DEF Fits
  <2> QED
    BY <2>1, <2>4, <2>5 DEF Copies
<1>6. ASSUME NEW j \in Jobs, BackupLatest(j)
      PROVE  Rests \/ Copies
  <2>1. CASE InVolume(Stamped(jobs[j].k))
    <3> DEFINE f == Own(j)
               g == [f EXCEPT !.name = Latest]
    <3>1. f \in Range(local)
      BY <2>1, Found DEF InVolume, Own
    <3>2. Fits(g)
      BY <1>1, <3>1, LatestFits
    <3>3. local' = Copied(g) /\ UNCHANGED vault
      BY <1>6, <2>1 DEF BackupLatest
    <3> HIDE DEF g
    <3> QED
      BY <3>2, <3>3 DEF Copies, Fits
  <2>2. CASE ~InVolume(Stamped(jobs[j].k))
    BY <1>6, <2>2 DEF BackupLatest, Rests
  <2> QED
    BY <2>1, <2>2
<1>7. ASSUME NEW j \in Jobs, BackupMirror(j)
      PROVE  Rests \/ Mirrors
  <2>1. CASE InVolume(Stamped(jobs[j].k)) /\ vault' # vault
    <3> DEFINE f == Own(j)
               g == [f EXCEPT !.name = Latest]
    <3>1. f \in Range(local) /\ f.name = Stamped(jobs[j].k)
      BY <2>1, Found DEF InVolume, Own
    <3>2. Fits(f) /\ Fits(g)
      BY <1>1, <3>1, StoredFits, LatestFits
    <3>3. vault' = Mirrored({f, g}) /\ UNCHANGED local
      BY <1>7, <2>1 DEF BackupMirror
    <3>4. g.name = Latest /\ f.name # Latest
      <4>1. g.name = Latest
        BY <3>2, NamesAre, FileChanged DEF Fits
      <4>2. Stamped(jobs[j].k).kind = "snapshot"
        BY DEF Stamped
      <4> HIDE DEF g
      <4> QED
        BY <3>1, <4>1, <4>2, NamesAre
    <3> HIDE DEF f, g
    <3>5. /\ {f, g} \in SUBSET File /\ OwnNames({f, g})
      BY <3>2, <3>4 DEF Fits, OwnNames
    <3>6. IsFiniteSet({f, g})
      <4>1. IsFiniteSet({f}) /\ IsFiniteSet({f} \cup {g})
        BY FS_Singleton, FS_AddElement
      <4>2. {f, g} = {f} \cup {g}
        OBVIOUS
      <4> QED
        BY <4>1, <4>2
    <3> QED
      BY <3>2, <3>3, <3>5, <3>6 DEF Mirrors
  <2>2. CASE vault' = vault
    BY <1>7, <2>2 DEF BackupMirror, Rests
  <2> QED
    BY <1>7, <2>1, <2>2 DEF BackupMirror
<1>8. ASSUME NEW j \in Jobs, BackupPrune(j)
      PROVE  Drops
  <2>1. jobs[j].excess \in 0..jobs[j].excess
    BY DEF Inv, TypeInv, Running, Job
  <2> QED
    BY <1>8, <2>1 DEF BackupPrune, Drops
<1>9. ASSUME NEW j \in Jobs, BackupKilled(j)
      PROVE  Rests \/ Copies \/ Mirrors \/ Drops
  <2> DEFINE f == Own(j)
             g == [f EXCEPT !.name = Latest, !.whole = FALSE]
             h == [f EXCEPT !.whole = FALSE]
  <2>1. \/ UNCHANGED <<local, vault>>
        \/ /\ InVolume(Stamped(jobs[j].k)) /\ torn'
           /\ \/ local' = Copied(g) /\ UNCHANGED vault
              \/ vault' = Mirrored({h}) /\ UNCHANGED local
        \/ \E n \in 0..jobs[j].excess : Prunes(j, n) /\ UNCHANGED vault
    BY <1>9 DEF BackupKilled
  <2>2. jobs' = [jobs EXCEPT ![j] = NoJob] /\ UNCHANGED taken
    BY <1>9 DEF BackupKilled
  <2>3. ASSUME InVolume(Stamped(jobs[j].k)), torn'
        PROVE  Fits(g) /\ Fits(h)
    <3>1. f \in Range(local)
      BY <2>3, Found DEF InVolume, Own
    <3> QED
      BY <1>1, <2>3, <3>1, LatestFits
  <2>4. IsFiniteSet({h}) /\ OwnNames({h})
    BY FS_Singleton DEF OwnNames
  <2> HIDE DEF g, h
  <2>5. ASSUME Fits(h), vault' = Mirrored({h}), UNCHANGED local
        PROVE  Mirrors
    <3>1. {h} \in SUBSET File
      BY <2>5 DEF Fits
    <3> QED
      BY <2>4, <2>5, <3>1 DEF Mirrors
  <2>6. ASSUME Fits(g), local' = Copied(g), UNCHANGED vault
        PROVE  Copies
    BY <2>6 DEF Copies, Fits
  <2> QED
    BY <2>1, <2>2, <2>3, <2>5, <2>6 DEF Rests, Drops
<1> QED
  BY <1>2, <1>3, <1>4, <1>5, <1>6, <1>7, <1>8, <1>9 DEF Next, Restore, Backup

\* What a run removes.
Gone(n) == {Snapshots[i] : i \in 1..n \cap DOMAIN Snapshots}

LEMMA PrunedFiles ==
    ASSUME Inv, NEW j \in Jobs, NEW n \in Nat, Prunes(j, n)
    PROVE  /\ local' \in Seq(File)
           /\ \A i, k \in 1..Len(local') : local'[i].name = local'[k].name => i = k
           /\ Range(local') = Range(local) \ Gone(n)
           /\ Gone(n) \subseteq Range(local) /\ \A f \in Gone(n) : f.name.kind = "snapshot"
           /\ ~torn' => \A f \in Gone(n) : InVault(f.name)
           /\ ~crossed' => Gone(n) = {} \/ \A i \in Jobs \ {j} : ~(jobs[i].excess > 0)
<1>1. /\ local' = Filtered(local, Range(local) \ Gone(n))
      /\ torn' = (torn \/ \E f \in Gone(n) : ~InVault(f.name))
      /\ crossed' = (crossed \/ (Gone(n) # {} /\ \E i \in Jobs \ {j} : jobs[i].excess > 0))
  BY DEF Prunes, Gone
<1> DEFINE stamped == {f \in Range(local) : f.name.kind = "snapshot"}
<1>2. Snapshots = Filtered(local, stamped)
  BY DEF Snapshots
<1>3. Range(Snapshots) = Range(local) \cap stamped
  BY <1>2, DroppedFiles DEF Inv, TypeInv
<1>4. \A f \in Gone(n) : f \in Range(Snapshots)
  BY DEF Gone, Range
<1>5. Gone(n) \subseteq Range(local) /\ \A f \in Gone(n) : f.name.kind = "snapshot"
  BY <1>3, <1>4
<1> DEFINE kept == Range(local) \ Gone(n)
<1>6. /\ local' \in Seq(File)
      /\ \A i, k \in 1..Len(local') : local'[i].name = local'[k].name => i = k
      /\ Range(local') = Range(local) \cap kept
  <2> HIDE DEF kept
  <2> QED
    BY <1>1, DroppedFiles DEF Inv, TypeInv, kept
<1> QED
  BY <1>1, <1>5, <1>6

LEMMA DirsNext ==
    ASSUME Inv, Next
    PROVE  Dirs'
<1>1. Grows
  BY StepGrows
<1>2. writes \in Nat /\ taken \in Nat /\ writes' \in Nat /\ taken' \in Nat
  BY <1>1, BoundAssumption DEF Grows, Inv, TypeInv, Counts
<1>3. ASSUME NEW f \in Range(local) \cup vault
      PROVE  Fits(f)
  BY <1>1, StoredFits
<1>4. ASSUME /\ local' \in Seq(File)
             /\ \A i, j \in 1..Len(local') : local'[i].name = local'[j].name => i = j
             /\ vault' \subseteq File /\ IsFiniteSet(vault') /\ OwnNames(vault')
             /\ \A f \in Range(local') \cup vault' : Fits(f)
      PROVE  Dirs'
  <2>1. \A n \in Names(Range(local')) \cup Names(vault') :
          /\ n.kind \in {"snapshot", "latest", "origin"}
          /\ n.kind = "snapshot" => n.n <= taken'
    BY <1>4 DEF Fits, Names
  <2>2. \A f \in Range(local') \cup vault' : f.rev <= writes'
    BY <1>4 DEF Fits
  <2> QED
    BY <1>4, <2>1, <2>2 DEF Dirs, OwnNames
<1>5. Dirs
  BY DEF Inv, TypeInv
<1>6. CASE Rests
  BY <1>3, <1>4, <1>5, <1>6 DEF Dirs, Rests
<1>7. CASE Copies
  <2>1. PICK f \in File : Fits(f) /\ local' = Copied(f) /\ UNCHANGED vault
    BY <1>7 DEF Copies
  <2>2. /\ Copied(f) \in Seq(File)
        /\ \A i, j \in 1..Len(Copied(f)) : Copied(f)[i].name = Copied(f)[j].name => i = j
        /\ Range(Copied(f)) \subseteq Range(local) \cup {f}
    BY <1>5, CopiedFiles
  <2> QED
    BY <1>3, <1>4, <1>5, <2>1, <2>2 DEF Dirs
<1>8. CASE Mirrors
  <2>1. PICK fs \in SUBSET File :
        /\ IsFiniteSet(fs) /\ OwnNames(fs) /\ \A f \in fs : Fits(f)
        /\ vault' = Mirrored(fs) /\ UNCHANGED local
    BY <1>8 DEF Mirrors
  <2>2. /\ Mirrored(fs) \subseteq File /\ IsFiniteSet(Mirrored(fs)) /\ OwnNames(Mirrored(fs))
        /\ Mirrored(fs) \subseteq vault \cup fs
    BY <1>5, <2>1, MirroredFiles
  <2> QED
    BY <1>3, <1>4, <1>5, <2>1, <2>2 DEF Dirs
<1>9. CASE Drops
  <2>1. PICK j \in Jobs : \E n \in 0..jobs[j].excess : Prunes(j, n) /\ UNCHANGED vault
    BY <1>9 DEF Drops
  <2>2. PICK n \in 0..jobs[j].excess : Prunes(j, n) /\ UNCHANGED vault
    BY <2>1
  <2>3. n \in Nat
    OBVIOUS
  <2>4. /\ local' \in Seq(File)
        /\ \A i, k \in 1..Len(local') : local'[i].name = local'[k].name => i = k
        /\ Range(local') \subseteq Range(local)
    BY <2>2, <2>3, PrunedFiles
  <2> QED
    BY <1>3, <1>4, <1>5, <2>2, <2>4 DEF Dirs
<1> QED
  BY <1>6, <1>7, <1>8, <1>9, FilesStep

\* Unless torn, a name that is there stays, and every file is whole.
LEMMA NamesStay ==
    ASSUME Inv, Next, ~torn'
    PROVE  /\ \A n \in Names(Range(local)) \cup Names(vault) :
                 n \in Names(Range(local')) \cup Names(vault')
           /\ \A f \in Range(local') \cup vault' : f.whole
           /\ ~torn
<1>1. Grows
  BY StepGrows
<1>2. ASSUME NEW f \in Range(local) \cup vault
      PROVE  f.whole
  BY <1>1, <1>2 DEF Grows, Inv, Kept
<1>3. Dirs /\ ~torn
  BY <1>1 DEF Inv, TypeInv, Grows
<1>4. CASE Rests
  BY <1>2, <1>3, <1>4 DEF Rests
<1>5. CASE Copies
  <2>1. PICK f \in File : Fits(f) /\ local' = Copied(f) /\ UNCHANGED vault
    BY <1>5 DEF Copies
  <2>2. /\ Range(Copied(f)) \subseteq Range(local) \cup {f}
        /\ Names(Range(Copied(f))) = Names(Range(local)) \cup {f.name}
    BY <1>3, CopiedFiles
  <2>3. f.whole
    BY <2>1 DEF Fits
  <2> QED
    BY <1>2, <1>3, <2>1, <2>2, <2>3
<1>6. CASE Mirrors
  <2>1. PICK fs \in SUBSET File :
        /\ IsFiniteSet(fs) /\ OwnNames(fs) /\ \A f \in fs : Fits(f)
        /\ vault' = Mirrored(fs) /\ UNCHANGED local
    BY <1>6 DEF Mirrors
  <2>2. /\ Mirrored(fs) \subseteq vault \cup fs
        /\ Names(Mirrored(fs)) = Names(vault) \cup Names(fs)
    BY <1>3, <2>1, MirroredFiles
  <2>3. \A f \in fs : f.whole
    BY <2>1 DEF Fits
  <2> QED
    BY <1>2, <1>3, <2>1, <2>2, <2>3
<1>7. CASE Drops
  <2>1. PICK j \in Jobs : \E n \in 0..jobs[j].excess : Prunes(j, n) /\ UNCHANGED vault
    BY <1>7 DEF Drops
  <2>2. PICK n \in 0..jobs[j].excess : Prunes(j, n) /\ UNCHANGED vault
    BY <2>1
  <2>3. n \in Nat
    OBVIOUS
  <2>4. Range(local') = Range(local) \ Gone(n) /\ \A f \in Gone(n) : f.name \in Names(vault)
    BY <2>2, <2>3, PrunedFiles DEF InVault
  <2> HIDE DEF Gone
  <2> QED
    BY <1>2, <1>3, <2>2, <2>4 DEF Names
<1> QED
  BY <1>1, <1>4, <1>5, <1>6, <1>7, FilesStep DEF Grows

-------------------------------------------------------------------------------
(* Counters, runs and requests. *)

LEMMA CountsNext ==
    ASSUME Inv, Next
    PROVE  Counts'
<1>1. Counts
  BY DEF Inv, TypeInv
<1>2. /\ writes \in Nat /\ taken \in Nat /\ faults \in Nat
      /\ MaxWrites \in Nat /\ MaxBackups \in Nat /\ MaxFaults \in Nat
  BY <1>1, BoundAssumption DEF Counts
<1>3. CASE Write
  BY <1>1, <1>2, <1>3 DEF Write, backups, Counts
<1>4. CASE Request \/ ReconcileEtcd \/ Roll \/ PodRestart
  BY <1>1, <1>2, <1>4 DEF Request, ReconcileEtcd, Roll, PodRestart, Fault, backups, Counts
<1>5. CASE RestoreSkip \/ RestoreClear
  <2>1. UNCHANGED <<taken, crossed, writes>> /\ Mirror
    BY <1>5 DEF RestoreSkip, RestoreClear, backups
  <2>2. torn' \in BOOLEAN /\ (NoFault \/ Fault)
    <3>1. CASE Source.src = "local"
      BY <1>1, <2>1, <3>1 DEF Mirror, Counts, NoFault
    <3>2. CASE Source.src # "local"
      <4>1. torn' = (torn \/ ~FileIn(vault, Source.use).whole) \/ torn' = TRUE
        BY <2>1, <3>2 DEF Mirror
      <4>2. NoFault \/ Fault
        BY <2>1, <3>2 DEF Mirror
      <4> QED
        BY <4>1, <4>2
    <3> QED
      BY <3>1, <3>2
  <2> QED
    BY <1>1, <1>2, <2>1, <2>2 DEF Fault, NoFault, Counts
<1>6. CASE RestoreData \/ Touch \/ RestoreClearKilled
  <2>1. UNCHANGED <<taken, crossed, writes>> /\ (NoFault \/ Fault) /\ torn' \in {torn, TRUE}
    BY <1>6 DEF RestoreData, Touch, RestoreClearKilled, backups, NoFault
  <2>2. torn' \in BOOLEAN /\ crossed' \in BOOLEAN
    BY <1>1, <2>1 DEF Counts
  <2> QED
    BY <1>1, <1>2, <2>1, <2>2 DEF Fault, NoFault, Counts
<1>7. ASSUME NEW j \in Jobs, BackupSave(j) \/ BackupLatest(j) \/ BackupMirror(j)
      PROVE  Counts'
  <2>1. /\ UNCHANGED <<crossed, writes>> /\ (NoFault \/ Fault) /\ torn' \in {torn, TRUE}
        /\ taken' = taken \/ (taken' = taken + 1 /\ taken < MaxBackups)
    BY <1>7 DEF BackupSave, BackupLatest, BackupMirror, NoFault
  <2>2. torn' \in BOOLEAN /\ crossed' \in BOOLEAN
    BY <1>1, <2>1 DEF Counts
  <2> QED
    BY <1>1, <1>2, <2>1, <2>2 DEF Fault, NoFault, Counts
<1>8. ASSUME NEW j \in Jobs, BackupPrune(j) \/ BackupKilled(j)
      PROVE  Counts'
  <2>1. \A n : Prunes(j, n) => torn' \in BOOLEAN /\ crossed' \in BOOLEAN
    BY DEF Prunes
  <2>2. torn' \in BOOLEAN /\ crossed' \in BOOLEAN
    BY <1>1, <1>8, <2>1 DEF BackupPrune, BackupKilled, Counts
  <2>3. UNCHANGED <<taken, writes>> /\ (NoFault \/ Fault)
    BY <1>8 DEF BackupPrune, BackupKilled, NoFault
  <2> QED
    BY <1>1, <1>2, <2>2, <2>3 DEF Fault, NoFault, Counts
<1> QED
  BY <1>3, <1>4, <1>5, <1>6, <1>7, <1>8 DEF Next, Restore, Backup

LEMMA ExcessIs ==
    ASSUME Inv
    PROVE  /\ Len(Snapshots) \in Nat /\ Excess \in Nat
           /\ Len(Snapshots) = Cardinality({n \in Names(Range(local)) : n.kind = "snapshot"})
           /\ IsFiniteSet({n \in Names(Range(local)) : n.kind = "snapshot"})
<1> DEFINE stamped == {f \in Range(local) : f.name.kind = "snapshot"}
           s == Snapshots
           names == {n \in Names(Range(local)) : n.kind = "snapshot"}
           t == [i \in 1..Len(s) |-> s[i].name]
<1>1. /\ s \in Seq(File) /\ Range(s) = stamped
      /\ \A i, k \in 1..Len(s) : s[i].name = s[k].name => i = k
  <2>1. stamped = Range(local) \cap stamped
    OBVIOUS
  <2> HIDE DEF stamped
  <2> QED
    BY <2>1, DroppedFiles DEF Inv, TypeInv, Snapshots, stamped
<1> HIDE DEF s
<1>2. Len(s) \in Nat /\ DOMAIN s = 1..Len(s) /\ \A i \in 1..Len(s) : s[i] \in File
  BY <1>1
<1>3. /\ t \in Seq(Name) /\ Len(t) = Len(s)
      /\ \A i \in 1..Len(s) : t[i] = s[i].name
  BY <1>2, FileParts
<1>4. Range(t) = names
  <2>1. \A x : x \in Range(t) <=> \E i \in 1..Len(s) : x = s[i].name
    BY <1>2, <1>3 DEF Range
  <2>2. \A x : x \in names <=> \E f \in stamped : x = f.name
    BY DEF Names
  <2>3. \A f : f \in stamped <=> \E i \in 1..Len(s) : f = s[i]
    BY <1>1, <1>2 DEF Range
  <2>4. ASSUME NEW x \in Range(t)
        PROVE  x \in names
    <3>1. PICK i \in 1..Len(s) : x = s[i].name
      BY <2>1
    <3>2. s[i] \in stamped
      BY <2>3
    <3> HIDE DEF stamped, names
    <3> QED
      BY <2>2, <3>1, <3>2
  <2>5. ASSUME NEW x \in names
        PROVE  x \in Range(t)
    <3>1. PICK f \in stamped : x = f.name
      BY <2>2
    <3>2. PICK i \in 1..Len(s) : f = s[i]
      BY <2>3
    <3> QED
      BY <2>1, <3>1, <3>2
  <2> HIDE DEF t, names
  <2> QED
    BY <2>4, <2>5
<1> HIDE DEF t, names
<1>5. \A i, k \in 1..Len(t) : t[i] = t[k] => i = k
  BY <1>1, <1>3
<1>6. IsFiniteSet(names) /\ Cardinality(names) = Len(s)
  BY <1>3, <1>4, <1>5, ListCount
<1>7. Excess \in Nat
  BY <1>2, RetentionAssumption DEF Excess, s
<1> QED
  BY <1>2, <1>6, <1>7 DEF s, names

LEMMA RunningNext ==
    ASSUME Inv, Next
    PROVE  Running'
<1>1. Running /\ taken \in Nat /\ taken' \in Nat /\ taken' >= taken
  BY StepGrows, BoundAssumption DEF Inv, TypeInv, Counts, Grows
<1>2. NoJob \in Job /\ NoJob.pc = "idle" /\ NoJob.k = 0 /\ NoJob.excess = 0
  BY BoundAssumption DEF NoJob, Job
<1>3. ASSUME NEW j \in Jobs, NEW job \in Job, jobs' = [jobs EXCEPT ![j] = job],
             job.k <= taken', job.pc # "prune" => job.excess = 0
      PROVE  Running'
  <2>1. jobs' \in [Jobs -> Job]
    BY <1>1, <1>3 DEF Running
  <2>2. ASSUME NEW i \in Jobs
        PROVE  jobs'[i].k <= taken' /\ (jobs'[i].pc # "prune" => jobs'[i].excess = 0)
    <3>1. CASE i = j
      BY <1>1, <1>3, <3>1 DEF Running
    <3>2. CASE i # j
      <4>1. jobs'[i] = jobs[i] /\ jobs[i].k \in Nat
        BY <1>1, <1>3, <3>2, BoundAssumption DEF Running, Job
      <4> QED
        BY <1>1, <4>1 DEF Running
    <3> QED
      BY <3>1, <3>2
  <2> QED
    BY <2>1, <2>2 DEF Running
<1>4. CASE UNCHANGED jobs
  <2>1. \A i \in Jobs : jobs[i].k \in Nat
    BY <1>1, BoundAssumption DEF Running, Job
  <2> QED
    BY <1>1, <1>4, <2>1 DEF Running
<1>5. CASE Write \/ Request \/ ReconcileEtcd \/ Roll \/ PodRestart \/ Restore \/ RestoreClearKilled
  BY <1>4, <1>5 DEF Write, Request, ReconcileEtcd, Roll, PodRestart, Restore, RestoreSkip,
                    RestoreClear, RestoreData, Touch, RestoreClearKilled, backups
<1>6. ASSUME NEW j \in Jobs, BackupSave(j)
      PROVE  Running'
  <2> DEFINE job == [NoJob EXCEPT !.pc = "latest", !.k = taken + 1]
  <2>1. jobs' = [jobs EXCEPT ![j] = job] /\ taken' = taken + 1 /\ taken < MaxBackups
    BY <1>6 DEF BackupSave
  <2>2. job \in Job /\ job.pc = "latest" /\ job.k = taken + 1 /\ job.excess = 0
    <3>1. taken + 1 \in 0..MaxBackups
      BY <1>1, <2>1, BoundAssumption
    <3>2. /\ job \in [pc : {"latest"}, k : {taken + 1}, excess : {0}]
          /\ job.pc = "latest" /\ job.k = taken + 1 /\ job.excess = 0
      BY DEF NoJob
    <3> HIDE DEF job
    <3> QED
      BY <3>1, <3>2 DEF Job
  <2> HIDE DEF job
  <2>3. job.k <= taken' /\ (job.pc # "prune" => job.excess = 0)
    BY <1>1, <2>1, <2>2
  <2> QED
    BY <1>3, <2>1, <2>2, <2>3
<1>7. ASSUME NEW j \in Jobs, BackupLatest(j)
      PROVE  Running'
  <2> DEFINE job == [jobs[j] EXCEPT !.pc = "mirror"]
  <2>1. jobs[j] \in Job /\ jobs[j].k <= taken /\ jobs[j].excess = 0 /\ taken' = taken
    BY <1>1, <1>7 DEF Running, BackupLatest
  <2>2. jobs' = [jobs EXCEPT ![j] = job] \/ jobs' = [jobs EXCEPT ![j] = NoJob]
    BY <1>7 DEF BackupLatest, Step
  <2>3. job \in Job /\ job.pc = "mirror" /\ job.k = jobs[j].k /\ job.excess = 0
    BY <2>1 DEF Job
  <2> HIDE DEF job
  <2> QED
    BY <1>1, <1>2, <1>3, <2>1, <2>2, <2>3
<1>8. ASSUME NEW j \in Jobs, BackupMirror(j)
      PROVE  Running'
  <2> DEFINE job == [jobs[j] EXCEPT !.pc = "prune", !.excess = Excess]
  <2>1. jobs[j] \in Job /\ jobs[j].k <= taken /\ taken' = taken
    BY <1>1, <1>8 DEF Running, BackupMirror
  <2>2. jobs' = [jobs EXCEPT ![j] = job]
    BY <1>1, <1>8 DEF BackupMirror, Running
  <2>3. job \in Job /\ job.pc = "prune" /\ job.k = jobs[j].k
    BY <2>1, ExcessIs DEF Job
  <2> HIDE DEF job
  <2> QED
    BY <1>1, <1>3, <2>1, <2>2, <2>3
<1>9. ASSUME NEW j \in Jobs, BackupPrune(j) \/ BackupKilled(j)
      PROVE  Running'
  <2>1. jobs' = [jobs EXCEPT ![j] = NoJob]
    BY <1>9 DEF BackupPrune, BackupKilled
  <2>2. NoJob.k <= taken' /\ (NoJob.pc # "prune" => NoJob.excess = 0)
    BY <1>1, <1>2
  <2> QED
    BY <1>2, <1>3, <2>1, <2>2
<1> QED
  BY <1>5, <1>6, <1>7, <1>8, <1>9 DEF Next, Backup

\* Requests come to the end of the list.
LEMMA AskedNext ==
    ASSUME Inv, Next
    PROVE  /\ Asked'
           /\ Len(requests) \in Nat /\ Len(requests') \in Nat /\ Len(requests') >= Len(requests)
           /\ \A i \in 1..Len(requests) : requests'[i] = requests[i]
<1>1. Asked /\ Len(requests) \in Nat
  BY DEF Inv, TypeInv, Asked
<1>2. CASE Request
  <2>1. PICK n \in Names(Range(local)) \cup Names(vault) \cup {Row(k) : k \in 1..taken} :
          n.kind \in Offered /\ requests' = Append(requests, n)
    BY <1>2 DEF Request
  <2>2. n \in Name
    <3>1. \A f \in Range(local) \cup vault : f.name \in Name
      BY LocalFiles, FileParts DEF Inv, TypeInv, Dirs
    <3>2. \A k \in 1..taken : Row(k) \in Name
      BY NamesAre, BoundAssumption DEF Inv, TypeInv, Counts
    <3> QED
      BY <3>1, <3>2 DEF Names
  <2>3. n.kind \in {"snapshot", "latest", "row"}
    BY <2>1, OfferedAssumption
  <2>4. /\ requests' \in Seq(Name) /\ Len(requests') = Len(requests) + 1
        /\ \A i \in 1..Len(requests) : requests'[i] = requests[i]
        /\ requests'[Len(requests) + 1] = n
    BY <1>1, <2>1, <2>2 DEF Asked
  <2>5. \A i \in 1..Len(requests') : requests'[i].kind \in {"snapshot", "latest", "row"}
    <3>1. \A i \in 1..Len(requests') : i \in 1..Len(requests) \/ i = Len(requests) + 1
      BY <1>1, <2>4
    <3> QED
      BY <1>1, <2>3, <2>4, <3>1 DEF Asked
  <2>6. Len(requests) < MaxRequests /\ UNCHANGED <<initial, served>>
    BY <1>2 DEF Request
  <2> QED
    BY <1>1, <2>4, <2>5, <2>6, BoundAssumption DEF Asked
<1>3. CASE UNCHANGED <<requests, initial>> /\ served' \in {served, Len(requests)}
  BY <1>1, <1>3 DEF Asked
<1>4. CASE Write \/ ReconcileEtcd \/ Roll \/ PodRestart
  BY <1>3, <1>4 DEF Write, ReconcileEtcd, Roll, PodRestart
<1>5. CASE Restore \/ RestoreClearKilled
  BY <1>3, <1>5 DEF Restore, RestoreSkip, RestoreClear, RestoreData, Touch, RestoreClearKilled, ComeUp
<1>6. ASSUME NEW j \in Jobs, BackupSave(j) \/ Backup(j) \/ BackupKilled(j)
      PROVE  UNCHANGED <<requests, initial, served>>
  BY <1>6 DEF BackupSave, Backup, BackupLatest, BackupMirror, BackupPrune, BackupKilled
<1> QED
  BY <1>2, <1>3, <1>4, <1>5, <1>6 DEF Next

LEMMA Wants ==
    ASSUME Inv
    PROVE  /\ requests = <<>> => WantedEnv = First
           /\ requests # <<>> => /\ Len(requests) \in 1..Len(requests)
                                 /\ Wanted = requests[Len(requests)] /\ Wanted # None
                                 /\ WantedEnv = [file |-> Wanted, force |-> TRUE]
                                 /\ Of(WantedEnv, Len(requests))
<1>1. requests \in Seq(Name) /\ Len(requests) \in Nat
  BY DEF Inv, TypeInv, Asked
<1>2. CASE requests = <<>>
  BY <1>2 DEF WantedEnv, Wanted, First
<1>3. CASE requests # <<>>
  <2>1. Len(requests) \in 1..Len(requests) /\ Wanted = requests[Len(requests)]
    BY <1>1, <1>3 DEF Wanted
  <2>2. Wanted # None
    BY <2>1, NamesAre DEF Inv, TypeInv, Asked
  <2> QED
    BY <1>3, <2>1, <2>2 DEF WantedEnv, Of
<1> QED
  BY <1>2, <1>3

\* What a step of the init container leaves of its pod.
Moved(pc, use) ==
    /\ pod' \in Pod /\ pod'.pc = pc /\ pod'.env = pod.env /\ pod'.use = use

LEMMA ContainerStep ==
    ASSUME Inv, Restore \/ RestoreClearKilled
    PROVE  /\ tmpl' = tmpl /\ pod'.env = pod.env /\ pod' \in Pod
           /\ RestoreSkip \/ Touch => Moved("up", pod.use)
           /\ RestoreClear => Moved("cleared", Source.use)
           /\ RestoreData => Moved("restored", pod.use) \/ Moved("init", None)
           /\ RestoreClearKilled => pod' = pod
<1>1. /\ DOMAIN pod = {"pc", "env", "use", "src"} /\ pod \in Pod
      /\ pod.env \in Env /\ pod.use \in Name /\ pod.src \in {"local", "vault"}
  BY DEF Inv, TypeInv, Container, Pod
<1>2. ASSUME pod' = [pod EXCEPT !.pc = "up"]
      PROVE  Moved("up", pod.use)
  BY <1>1, <1>2 DEF Moved, Pod
<1>3. ASSUME pod' = [pod EXCEPT !.pc = "restored"]
      PROVE  Moved("restored", pod.use)
  BY <1>1, <1>3 DEF Moved, Pod
<1>4. ASSUME pod' = Starting(pod.env)
      PROVE  Moved("init", None)
  BY <1>1, <1>4, NamesAre DEF Moved, Pod, Starting
<1>5. ASSUME pod' = [pod EXCEPT !.pc = "cleared", !.use = Source.use, !.src = Source.src]
      PROVE  Moved("cleared", Source.use)
  <2> DEFINE src == Source
  <2>1. src.use \in Name /\ src.src \in {"local", "vault"}
    BY SourceIs
  <2>2. pod' = [pod EXCEPT !.pc = "cleared", !.use = src.use, !.src = src.src]
    BY <1>5
  <2> HIDE DEF src
  <2>3. Moved("cleared", src.use)
    BY <1>1, <2>1, <2>2 DEF Moved, Pod
  <2> QED
    BY <2>3 DEF src
<1>6. tmpl' = tmpl
  BY DEF Restore, RestoreSkip, RestoreClear, RestoreData, Touch, RestoreClearKilled
<1>7. RestoreSkip \/ Touch => Moved("up", pod.use)
  BY <1>2 DEF RestoreSkip, Touch, ComeUp
<1>8. RestoreClear => Moved("cleared", Source.use)
  BY <1>5 DEF RestoreClear
<1>9. RestoreData => Moved("restored", pod.use) \/ Moved("init", None)
  BY <1>3, <1>4 DEF RestoreData
<1>10. RestoreClearKilled => pod' = pod
  BY DEF RestoreClearKilled
<1> QED
  BY <1>1, <1>6, <1>7, <1>8, <1>9, <1>10 DEF Restore, Moved

LEMMA OrderedNext ==
    ASSUME Inv, Next
    PROVE  Ordered'
<1> DEFINE Later(env, i) == i \in 1..Len(requests') /\ env = [file |-> requests'[i], force |-> TRUE]
<1>1. Ordered /\ Len(requests) \in Nat
  BY DEF Inv, TypeInv, Asked
<1>2. /\ Len(requests') \in Nat /\ Len(requests') >= Len(requests)
      /\ \A i \in 1..Len(requests) : requests'[i] = requests[i]
      /\ \A i \in 1..Len(requests) : i \in 1..Len(requests')
  BY AskedNext
<1>3. \A env, i : Of(env, i) => i \in 1..Len(requests) /\ i \in 1..Len(requests') /\ Later(env, i)
  BY <1>2 DEF Of
<1>4. UNCHANGED initial
  BY DEF Next, Write, Request, ReconcileEtcd, Roll, PodRestart, Restore, RestoreSkip,
         RestoreClear, RestoreData, Touch, RestoreClearKilled, BackupSave, Backup, BackupLatest,
         BackupMirror, BackupPrune, BackupKilled
<1>5. ASSUME tmpl' = First \/ \E i \in 1..Len(requests') : Later(tmpl', i),
             \/ pod'.env = First
             \/ \E i \in 1..Len(requests') :
                    Later(pod'.env, i) /\ \E k \in i..Len(requests') : Later(tmpl', k)
      PROVE  Ordered'
  BY <1>4, <1>5 DEF Ordered, Of, First
<1> HIDE DEF Later
<1>6. ASSUME tmpl' = tmpl, pod'.env \in {pod.env, tmpl}
      PROVE  Ordered'
  <2>1. CASE tmpl = First
    <3>1. pod'.env = First
      BY <1>1, <1>6, <2>1 DEF Ordered, First, Of
    <3> QED
      BY <1>5, <1>6, <2>1, <3>1
  <2>2. CASE tmpl # First
    <3>1. PICK i \in 1..Len(requests) : Of(tmpl, i)
      BY <1>1, <2>2 DEF Ordered
    <3>2. i \in 1..Len(requests') /\ Later(tmpl', i) /\ i \in i..Len(requests')
      BY <1>2, <1>3, <1>6, <3>1
    <3>3. CASE pod'.env = tmpl
      BY <1>5, <1>6, <3>2, <3>3
    <3>4. CASE pod'.env = pod.env /\ pod.env = First
      BY <1>5, <3>2, <3>4
    <3>5. CASE pod'.env = pod.env /\ pod.env # First
      <4>1. PICK k \in 1..Len(requests) :
              Of(pod.env, k) /\ \E m \in k..Len(requests) : Of(tmpl, m)
        BY <1>1, <3>5 DEF Ordered
      <4>2. PICK m \in k..Len(requests) : Of(tmpl, m)
        BY <4>1
      <4>3. /\ k \in 1..Len(requests') /\ Later(pod'.env, k)
            /\ m \in k..Len(requests') /\ Later(tmpl', m)
        BY <1>2, <1>3, <1>6, <3>5, <4>1, <4>2
      <4> QED
        BY <1>5, <3>2, <4>3
    <3> QED
      BY <1>6, <3>3, <3>4, <3>5
  <2> QED
    BY <2>1, <2>2
<1>7. CASE ReconcileEtcd
  <2>1. tmpl' = WantedEnv /\ pod' = pod /\ requests' = requests
    BY <1>7 DEF ReconcileEtcd
  <2>2. CASE requests = <<>>
    <3>1. tmpl' = First /\ pod'.env = First
      BY <1>1, <2>1, <2>2, Wants DEF Ordered, Of
    <3> QED
      BY <1>5, <3>1
  <2>3. CASE requests # <<>>
    <3>1. Len(requests') \in 1..Len(requests') /\ Later(tmpl', Len(requests'))
      BY <1>3, <2>1, <2>3, Wants
    <3>2. CASE pod.env = First
      BY <1>5, <2>1, <3>1, <3>2
    <3>3. CASE pod.env # First
      <4>1. PICK k \in 1..Len(requests) : Of(pod.env, k)
        BY <1>1, <3>3 DEF Ordered
      <4>2. /\ k \in 1..Len(requests') /\ Later(pod'.env, k)
            /\ Len(requests') \in k..Len(requests')
        BY <1>2, <1>3, <2>1, <4>1
      <4> QED
        BY <1>5, <3>1, <4>2
    <3> QED
      BY <3>2, <3>3
  <2> QED
    BY <2>2, <2>3
<1>8. \A env : Starting(env).env = env
  BY DEF Starting
<1>9. CASE Write \/ Request \/ Roll \/ PodRestart
  BY <1>6, <1>8, <1>9 DEF Write, Request, Roll, PodRestart
<1>10. CASE Restore \/ RestoreClearKilled
  BY <1>6, <1>10, ContainerStep
<1>11. ASSUME NEW j \in Jobs, BackupSave(j) \/ Backup(j) \/ BackupKilled(j)
       PROVE  UNCHANGED <<tmpl, pod>>
  BY <1>11 DEF BackupSave, Backup, BackupLatest, BackupMirror, BackupPrune, BackupKilled
<1> QED
  BY <1>6, <1>7, <1>9, <1>10, <1>11 DEF Next

-------------------------------------------------------------------------------
(* The init container. *)

LEMMA DataAre ==
    /\ Fresh \in Data /\ Fresh.rev = 0 /\ Fresh # Empty /\ Fresh # Partial
    /\ Empty \notin Data /\ Partial \notin Data /\ Empty # Partial
    /\ \A d \in Data : d # Empty /\ d # Partial /\ d.rev \in 0..MaxWrites
<1>1. Fresh \in Data
  BY NamesAre, BoundAssumption DEF Fresh, Data
<1>2. \A d \in Data : d.rev \in 0..MaxWrites
  BY DEF Data
<1>3. Fresh.rev = 0 /\ Empty.rev = -1 /\ Partial.rev = -2
  BY DEF Fresh, Empty, Partial
<1>4. -1 \notin 0..MaxWrites /\ -2 \notin 0..MaxWrites /\ -1 # 0 /\ -2 # 0 /\ -1 # -2
  BY BoundAssumption
<1> QED
  BY <1>1, <1>2, <1>3, <1>4

LEMMA EnvsAre ==
    ASSUME Inv
    PROVE  /\ tmpl \in Env /\ Starting(tmpl) \in Pod
           /\ Starting(tmpl).pc = "init" /\ Starting(tmpl).env = tmpl
           /\ tmpl.force => \E i \in 1..Len(requests) : Of(tmpl, i)
           /\ pod.env.force => \E i \in 1..Len(requests) : Of(pod.env, i)
           /\ ~pod.env.force => pod.env = First
           /\ pod.env = First => ~pod.env.force
<1>1. Ordered /\ requests \in Seq(Name) /\ initial \in Name
  BY NamesAre DEF Inv, TypeInv, Asked
<1>2. /\ First \in Env /\ ~First.force
      /\ \A env, i : Of(env, i) => env \in Env /\ env.force
  <2>1. First \in Env /\ ~First.force
    BY <1>1 DEF First, Env
  <2>2. ASSUME NEW env, NEW i, Of(env, i)
        PROVE  env \in Env /\ env.force
    <3>1. i \in 1..Len(requests) /\ requests[i] \in Name
      BY <1>1, <2>2 DEF Of
    <3> QED
      BY <2>2, <3>1 DEF Of, Env
  <2> QED
    BY <2>1, <2>2
<1>3. /\ tmpl = First \/ \E i \in 1..Len(requests) : Of(tmpl, i)
      /\ pod.env = First \/ \E i \in 1..Len(requests) : Of(pod.env, i)
  BY <1>1 DEF Ordered
<1>4. tmpl \in Env
  BY <1>2, <1>3
<1>5. /\ Starting(tmpl) \in Pod
      /\ Starting(tmpl).pc = "init" /\ Starting(tmpl).env = tmpl
  BY <1>4, NamesAre DEF Starting, Pod
<1> QED
  BY <1>2, <1>3, <1>4, <1>5

\* All others only restart the pod, or are a tenant's.
LEMMA OtherSteps ==
    ASSUME Inv, Next, ~(Restore \/ RestoreClearKilled)
    PROVE  /\ UNCHANGED <<marks, served>>
           /\ pod' = pod \/ pod' = Starting(tmpl)
           /\ db' = db \/ Write
           /\ tmpl' = tmpl \/ ReconcileEtcd
           /\ requests' = requests \/ Request
<1>1. CASE Write
  BY <1>1 DEF Write
<1>2. CASE Request \/ Roll \/ PodRestart \/ ReconcileEtcd
  BY <1>2 DEF Request, Roll, PodRestart, ReconcileEtcd, disks
<1>3. ASSUME NEW j \in Jobs, BackupSave(j) \/ Backup(j) \/ BackupKilled(j)
      PROVE  UNCHANGED <<requests, tmpl, pod, db, marks, served>>
  BY <1>3 DEF BackupSave, Backup, BackupLatest, BackupMirror, BackupPrune, BackupKilled
<1> QED
  BY <1>1, <1>2, <1>3 DEF Next

\* What etcdutl restores from, and into what.
LEMMA RestoreDataIs ==
    ASSUME Inv, RestoreData
    PROVE  /\ pod.pc = "cleared" /\ UNCHANGED <<tmpl, marks, local, vault, served, requests, torn, writes>>
           /\ \/ /\ Moved("restored", pod.use)
                 /\ \/ db' \in Data /\ db'.rev <= writes /\ db'.from = pod.use
                    \/ db' = Partial
                 /\ db' = Partial => torn \/ pod.use.kind = "latest"
              \/ Moved("init", None) /\ db' \in {db, Partial}
<1>1. /\ pod.pc = "cleared" /\ UNCHANGED <<tmpl, marks, local, vault, served, requests, torn, writes>>
  BY DEF RestoreData
<1>2. /\ pod \in Pod /\ pod.use \in Name
      /\ Files \subseteq Range(local) \cup vault
  BY DEF Inv, TypeInv, Container, Pod, Files
<1>3. ASSUME NEW f \in Files
      PROVE  f.rev \in 0..MaxWrites /\ f.rev <= writes /\ (~torn => f.whole)
  BY <1>2, LocalFiles, FileParts DEF Inv, TypeInv, Dirs, Kept
<1>4. CASE pod' = [pod EXCEPT !.pc = "restored"]
  <2>1. CASE \E f \in Files :
             /\ f.name = pod.use
             /\ \/ f.whole /\ db' = [rev |-> f.rev, from |-> pod.use]
                \/ (~f.whole \/ (f.name = Latest /\ Copying)) /\ db' = Partial
    <3>1. PICK f \in Files :
             /\ f.name = pod.use
             /\ \/ f.whole /\ db' = [rev |-> f.rev, from |-> pod.use]
                \/ (~f.whole \/ (f.name = Latest /\ Copying)) /\ db' = Partial
      BY <2>1
    <3>2. CASE f.whole /\ db' = [rev |-> f.rev, from |-> pod.use]
      <4>1. db' \in Data /\ db'.rev = f.rev /\ db'.from = pod.use
        BY <1>2, <1>3, <3>2 DEF Data
      <4>2. db' # Partial /\ db'.rev <= writes
        BY <1>3, <4>1, DataAre
      <4>3. Moved("restored", pod.use)
        <5>1. DOMAIN pod = {"pc", "env", "use", "src"} /\ pod \in Pod
          BY <1>2 DEF Pod
        <5> QED
          BY <1>4, <5>1 DEF Moved, Pod
      <4> QED
        BY <1>1, <4>1, <4>2, <4>3
    <3>3. CASE (~f.whole \/ (f.name = Latest /\ Copying)) /\ db' = Partial
      <4>1. torn \/ pod.use.kind = "latest"
        BY <1>3, <3>1, <3>3, NamesAre
      <4>2. Moved("restored", pod.use)
        <5>1. DOMAIN pod = {"pc", "env", "use", "src"} /\ pod \in Pod
          BY <1>2 DEF Pod
        <5> QED
          BY <1>4, <5>1 DEF Moved, Pod
      <4> QED
        BY <1>1, <3>3, <4>1, <4>2
    <3> QED
      BY <3>1, <3>2, <3>3
  <2>2. CASE pod' = Starting(pod.env)
    <3>1. [pod EXCEPT !.pc = "restored"].pc = "restored" /\ Starting(pod.env).pc = "init"
      BY <1>2 DEF Pod, Starting
    <3> QED
      BY <1>4, <2>2, <3>1
  <2> QED
    BY <2>1, <2>2 DEF RestoreData
<1>5. CASE pod' = Starting(pod.env)
  <2>1. Moved("init", None)
    <3>1. Starting(pod.env) \in Pod
      BY <1>2, NamesAre DEF Starting, Pod
    <3> QED
      BY <1>5, <3>1 DEF Moved, Starting
  <2>2. [pod EXCEPT !.pc = "restored"] # Starting(pod.env)
    <3>1. [pod EXCEPT !.pc = "restored"].pc = "restored" /\ Starting(pod.env).pc = "init"
      BY <1>2 DEF Pod, Starting
    <3> QED
      BY <3>1
  <2> QED
    BY <1>1, <1>5, <2>1, <2>2 DEF RestoreData
<1> QED
  BY <1>4, <1>5 DEF RestoreData

LEMMA ContainerNext ==
    ASSUME Inv, Next
    PROVE  Container'
<1>1. /\ Container /\ pod \in Pod /\ pod.use \in Name /\ writes \in Nat /\ writes' \in Nat
      /\ writes' >= writes
  BY StepGrows, BoundAssumption DEF Inv, TypeInv, Counts, Container, Pod, Grows
<1>2. db \in Data => db.rev \in Nat /\ db.rev <= writes'
  BY <1>1, DataAre, BoundAssumption DEF Container
<1>3. CASE ~(Restore \/ RestoreClearKilled)
  <2>1. /\ marks' = marks /\ (pod' = pod \/ pod' = Starting(tmpl)) /\ (db' = db \/ Write)
        /\ Starting(tmpl) \in Pod /\ Starting(tmpl).pc = "init"
    BY <1>3, OtherSteps, EnvsAre
  <2>2. ASSUME db' = db
        PROVE  Container'
    BY <1>1, <1>2, <2>1, <2>2 DEF Container
  <2>3. CASE Write
    <3>1. /\ db \in Data /\ writes' = writes + 1 /\ writes < MaxWrites /\ pod.pc = "up"
          /\ db' = [db EXCEPT !.rev = writes + 1] /\ pod' = pod
      BY <2>3 DEF Write
    <3>2. db' \in Data /\ db'.rev = writes + 1
      <4>1. writes + 1 \in 0..MaxWrites
        BY <1>1, <3>1, BoundAssumption
      <4> QED
        BY <3>1, <4>1 DEF Data
    <3>3. db' # Empty /\ db'.rev <= writes'
      BY <1>1, <3>1, <3>2, DataAre
    <3> QED
      BY <1>1, <2>1, <3>1, <3>2, <3>3 DEF Container
  <2> QED
    BY <2>1, <2>2, <2>3
<1>4. CASE RestoreSkip
  <2>1. Moved("up", pod.use) /\ marks' = marks /\ db' = (IF db = Empty THEN Fresh ELSE db)
    BY <1>4, ContainerStep DEF Restore, RestoreSkip
  <2>2. db' \in Data \cup {Partial} /\ db' # Empty /\ (db' \in Data => db'.rev <= writes')
    BY <1>1, <1>2, <2>1, DataAre DEF Container
  <2> QED
    BY <1>1, <2>1, <2>2 DEF Container, Moved
<1>5. CASE RestoreClear
  <2>1. /\ Moved("cleared", Source.use) /\ marks' = marks /\ db' = Empty
        /\ Source.use # None /\ Source.use \notin marks
    BY <1>5, ContainerStep DEF Restore, RestoreClear, Skip
  <2> QED
    BY <1>1, <2>1, DataAre DEF Container, Moved
<1>6. CASE RestoreClearKilled
  <2>1. /\ pod' = pod /\ marks' = marks /\ pod.pc = "init"
        /\ db' = db \/ db' = Partial
    BY <1>6 DEF RestoreClearKilled
  <2> QED
    BY <1>1, <1>2, <2>1, DataAre DEF Container
<1>7. CASE RestoreData
  <2>1. pod.pc = "cleared" /\ marks' = marks /\ writes' = writes
    BY <1>7, RestoreDataIs
  <2>2. CASE Moved("restored", pod.use) /\ (db' = Partial \/ (db' \in Data /\ db'.rev <= writes))
    BY <1>1, <2>1, <2>2, DataAre DEF Container, Moved
  <2>3. CASE Moved("init", None) /\ db' \in {db, Partial}
    BY <1>1, <1>2, <2>1, <2>3, DataAre DEF Container, Moved
  <2> QED
    BY <1>7, <2>2, <2>3, RestoreDataIs
<1>8. CASE Touch
  <2>1. /\ Moved("up", pod.use) /\ marks' = marks \cup {pod.use} /\ db' = db
        /\ pod.pc = "restored"
    BY <1>8, ContainerStep DEF Restore, Touch
  <2> QED
    BY <1>1, <1>2, <2>1 DEF Container, Moved
<1> QED
  BY <1>3, <1>4, <1>5, <1>6, <1>7, <1>8 DEF Restore

\* What the init container takes: what it is told to, if that is there; before any
\* request, no snapshot of this cluster.
LEMMA Takes ==
    ASSUME Inv
    PROVE  /\ pod.env.force => pod.env.file.kind \in {"snapshot", "latest", "row"}
           /\ ~torn /\ pod.env.force /\ pod.env.file.kind # "row" =>
                 Source.use = pod.env.file /\ Source.use # None
           /\ ~torn /\ pod.env.force /\ pod.env.file.kind = "row" => Source.use \in {Latest, None}
           /\ ~pod.env.force /\ db = Empty => Source.use.kind # "snapshot"
<1>1. ASSUME pod.env.force
      PROVE  \E i \in 1..Len(requests) : pod.env.file = requests[i]
  <2>1. PICK i \in 1..Len(requests) : Of(pod.env, i)
    BY <1>1, EnvsAre
  <2>2. pod.env.file = requests[i]
    BY <2>1 DEF Of
  <2> QED
    BY <2>2
<1>2. pod.env.force => pod.env.file.kind \in {"snapshot", "latest", "row"}
  BY <1>1 DEF Inv, TypeInv, Asked
<1>3. pod.env.force => pod.env.file # None
  BY <1>2, NamesAre
<1>4. ASSUME ~torn, pod.env.force, pod.env.file.kind # "row"
      PROVE  Source.use = pod.env.file /\ Source.use # None
  <2>1. pod.env.file \in Names(Range(local)) \cup Names(vault)
    BY <1>1, <1>4 DEF Inv, Kept
  <2> QED
    BY <1>3, <1>4, <2>1, SourceIs
<1>5. ASSUME pod.env.force, pod.env.file.kind = "row"
      PROVE  Source.use \in {Latest, None}
  <2>1. Sought = pod.env.file
    BY <1>3, <1>5, SourceIs
  <2>2. Sought \notin Names(Range(local)) \cup Names(vault)
    BY <1>5, <2>1 DEF Inv, TypeInv, Dirs
  <2> QED
    BY <2>1, <2>2, SourceIs
<1>6. ASSUME ~pod.env.force, db = Empty
      PROVE  Source.use.kind # "snapshot"
  <2>1. pod.env.file \in {None, Origin}
    BY <1>6, EnvsAre DEF First, Inv, TypeInv, Asked
  <2>2. Sought.kind # "snapshot"
    <3>1. CASE pod.env.file # None
      BY <2>1, <3>1, SourceIs, NamesAre
    <3>2. CASE pod.env.file = None
      <4>1. Sought \in Names(Range(local)) \cup {None}
        BY <3>2, SourceIs
      <4> QED
        BY <1>6, <4>1, NamesAre DEF Inv, Untouched
    <3> QED
      BY <3>1, <3>2
  <2> QED
    BY <2>2, SourceIs, NamesAre
<1> QED
  BY <1>2, <1>4, <1>5, <1>6

LEMMA KeptNext ==
    ASSUME Inv, Next
    PROVE  Kept'
<1> SUFFICES ASSUME ~torn' PROVE Kept'
  BY DEF Kept
<1>1. /\ \A n \in Names(Range(local)) \cup Names(vault) :
            n \in Names(Range(local')) \cup Names(vault')
      /\ \A f \in Range(local') \cup vault' : f.whole
      /\ ~torn /\ Kept
  BY NamesStay DEF Inv
<1>2. /\ Len(requests) \in Nat /\ \A i \in 1..Len(requests) : requests'[i] = requests[i]
  BY AskedNext
<1>3. ASSUME NEW i \in 1..Len(requests'), requests'[i].kind # "row"
      PROVE  requests'[i] \in Names(Range(local')) \cup Names(vault')
  <2>1. CASE i \in 1..Len(requests)
    BY <1>1, <1>2, <1>3, <2>1 DEF Kept
  <2>2. CASE i \notin 1..Len(requests)
    <3>1. Request
      BY <2>2, OtherSteps DEF Restore, RestoreSkip, RestoreClear, RestoreData, Touch,
                               RestoreClearKilled
    <3>2. PICK n \in Names(Range(local)) \cup Names(vault) \cup {Row(k) : k \in 1..taken} :
            requests' = Append(requests, n)
      BY <3>1 DEF Request
    <3>3. requests'[i] = n
      <4>1. requests \in Seq(Name)
        BY DEF Inv, TypeInv, Asked
      <4>2. Len(requests') = Len(requests) + 1 /\ requests'[Len(requests) + 1] = n
        BY <3>2, <4>1
      <4>3. i = Len(requests) + 1
        BY <1>2, <2>2, <4>2
      <4> QED
        BY <4>2, <4>3
    <3>4. n \notin {Row(k) : k \in 1..taken}
      BY <1>3, <3>3 DEF Row
    <3> QED
      BY <1>1, <3>2, <3>3, <3>4
  <2> QED
    BY <2>1, <2>2
<1>4. ASSUME pod'.pc \in {"cleared", "restored"}, pod'.env.force
      PROVE  pod'.use = IF pod'.env.file.kind = "row" THEN Latest ELSE pod'.env.file
  <2>1. CASE ~(Restore \/ RestoreClearKilled)
    BY <1>1, <1>4, <2>1, OtherSteps, EnvsAre DEF Kept
  <2>2. CASE RestoreSkip \/ Touch
    BY <1>4, <2>2, ContainerStep DEF Restore, Moved
  <2>3. CASE RestoreClear
    <3>1. Moved("cleared", Source.use) /\ Source.use # None
      BY <2>3, ContainerStep DEF Restore, RestoreClear, Skip
    <3> QED
      BY <1>1, <1>4, <3>1, Takes DEF Moved
  <2>4. CASE RestoreData
    <3>1. Moved("restored", pod.use) /\ pod.pc = "cleared"
      BY <1>4, <2>4, RestoreDataIs DEF Moved
    <3> QED
      BY <1>1, <1>4, <3>1 DEF Moved, Kept
  <2>5. CASE RestoreClearKilled
    BY <1>1, <1>4, <2>5 DEF RestoreClearKilled, Kept
  <2> QED
    BY <2>1, <2>2, <2>3, <2>4, <2>5 DEF Restore
<1> QED
  BY <1>1, <1>3, <1>4 DEF Kept

LEMMA MarkedNext ==
    ASSUME Inv, Next
    PROVE  Marked'
<1> SUFFICES ASSUME ~torn', requests' # <<>>, served' = Len(requests'), Wanted'.kind # "row"
             PROVE  Wanted' \in marks' /\ pod'.env = tmpl' /\ tmpl' = WantedEnv'
  BY DEF Marked
<1>1. ~torn
  BY NamesStay
<1>2. served \in 0..Len(requests) /\ Len(requests) \in Nat
  BY DEF Inv, TypeInv, Asked
<1>3. requests' = requests
  <2>1. CASE Request
    <3>1. served' = served /\ Len(requests') = Len(requests) + 1
      BY <2>1 DEF Request, Inv, TypeInv, Asked
    <3>2. served = Len(requests) + 1
      BY <3>1
    <3> QED
      BY <1>2, <3>2
  <2> QED
    BY <2>1, OtherSteps DEF Restore, RestoreSkip, RestoreClear, RestoreData, Touch,
                            RestoreClearKilled
<1>4. UNCHANGED initial
  BY DEF Next, Write, Request, ReconcileEtcd, Roll, PodRestart, Restore, RestoreSkip,
         RestoreClear, RestoreData, Touch, RestoreClearKilled, BackupSave, Backup, BackupLatest,
         BackupMirror, BackupPrune, BackupKilled
<1>5. Wanted' = Wanted /\ WantedEnv' = WantedEnv
  BY <1>3, <1>4 DEF Wanted, WantedEnv
<1>6. served = Len(requests) => Wanted \in marks /\ pod.env = tmpl /\ tmpl = WantedEnv
  BY <1>1, <1>3, <1>5 DEF Inv, Marked
<1>7. CASE ~(Restore \/ RestoreClearKilled)
  <2>1. UNCHANGED <<marks, served>> /\ (pod' = pod \/ pod' = Starting(tmpl))
    BY <1>7, OtherSteps
  <2>2. Wanted \in marks /\ pod.env = tmpl /\ tmpl = WantedEnv
    BY <1>3, <1>6, <2>1
  <2>3. tmpl' = tmpl
    BY <1>7, <2>2, OtherSteps DEF ReconcileEtcd
  <2> QED
    BY <1>5, <2>1, <2>2, <2>3, EnvsAre
<1>8. CASE RestoreClear \/ RestoreData \/ RestoreClearKilled
  <2>1. UNCHANGED <<marks, served>>
    BY <1>8 DEF RestoreClear, RestoreData, RestoreClearKilled
  <2> QED
    BY <1>3, <1>5, <1>6, <1>8, <2>1, ContainerStep DEF Restore
<1>9. ASSUME pod.env = tmpl, tmpl = WantedEnv
      PROVE  /\ pod.env.force /\ pod.env.file = Wanted /\ pod.env.file.kind # "row"
             /\ Source.use = Wanted /\ Source.use # None
  <2>1. pod.env.force /\ pod.env.file = Wanted /\ pod.env.file.kind # "row"
    BY <1>3, <1>5, <1>9, Wants
  <2> QED
    BY <1>1, <2>1, Takes
<1>10. CASE RestoreSkip
  <2>1. UNCHANGED <<marks, tmpl>> /\ pod'.env = pod.env /\ Skip
        /\ served' = IF pod.env = tmpl /\ tmpl = WantedEnv THEN Len(requests) ELSE served
    BY <1>10, ContainerStep DEF Restore, RestoreSkip, ComeUp
  <2>2. CASE pod.env = tmpl /\ tmpl = WantedEnv
    BY <1>5, <1>9, <2>1, <2>2 DEF Skip
  <2>3. CASE ~(pod.env = tmpl /\ tmpl = WantedEnv)
    BY <1>3, <1>5, <1>6, <2>1, <2>3
  <2> QED
    BY <2>2, <2>3
<1>11. CASE Touch
  <2>1. /\ marks' = marks \cup {pod.use} /\ tmpl' = tmpl /\ pod'.env = pod.env
        /\ pod.pc = "restored"
        /\ served' = IF pod.env = tmpl /\ tmpl = WantedEnv THEN Len(requests) ELSE served
    BY <1>11, ContainerStep DEF Restore, Touch, ComeUp
  <2>2. CASE pod.env = tmpl /\ tmpl = WantedEnv
    <3>1. pod.use = Wanted
      BY <1>1, <1>9, <2>1, <2>2 DEF Inv, Kept
    <3> QED
      BY <1>5, <2>1, <2>2, <3>1
  <2>3. CASE ~(pod.env = tmpl /\ tmpl = WantedEnv)
    BY <1>3, <1>5, <1>6, <2>1, <2>3
  <2> QED
    BY <2>2, <2>3
<1> QED
  BY <1>7, <1>8, <1>10, <1>11 DEF Restore

LEMMA MirrorNames ==
    ASSUME Inv, Mirror
    PROVE  Names(Range(local')) \subseteq Names(Range(local)) \cup {Source.use}
<1>1. CASE Source.src = "local"
  BY <1>1 DEF Mirror
<1>2. CASE Source.src # "local"
  <2> DEFINE f == FileIn(vault, Source.use)
             g == [f EXCEPT !.whole = FALSE]
  <2>1. f \in vault /\ f.name = Source.use
    BY <1>2, SourceIs, Found
  <2>2. f \in File /\ g \in File /\ g.name = f.name
    BY <2>1, FileParts, FileChanged DEF Inv, TypeInv, Dirs
  <2>3. local' = local \/ local' = Copied(f) \/ local' = Copied(g)
    BY <1>2 DEF Mirror
  <2> HIDE DEF f, g
  <2>4. \A h \in {f, g} : Names(Range(Copied(h))) = Names(Range(local)) \cup {h.name}
    BY <2>2, CopiedFiles DEF Inv, TypeInv
  <2> QED
    BY <2>1, <2>2, <2>3, <2>4
<1> QED
  BY <1>1, <1>2

\* No snapshot of this cluster comes to the volume while etcd's directory is empty,
\* before a request.
LEMMA NoneArrives ==
    ASSUME Inv, Next, ~pod.env.force, db = Empty, NEW n \in Names(Range(local'))
    PROVE  n.kind # "snapshot"
<1>1. \A m \in Names(Range(local)) : m.kind # "snapshot"
  BY DEF Inv, Untouched
<1>2. Dirs
  BY DEF Inv, TypeInv
<1>3. CASE UNCHANGED local
  BY <1>1, <1>3
<1>4. CASE Names(Range(local')) \subseteq Names(Range(local)) \cup {Source.use}
  BY <1>1, <1>4, Takes
<1>5. CASE Write \/ Request \/ ReconcileEtcd \/ Roll \/ PodRestart \/ RestoreData \/ Touch
  BY <1>3, <1>5 DEF Write, Request, ReconcileEtcd, Roll, PodRestart, RestoreData, Touch, disks
<1>6. CASE RestoreSkip \/ RestoreClear
  BY <1>4, <1>6, MirrorNames DEF RestoreSkip, RestoreClear
<1>7. CASE RestoreClearKilled
  <2> DEFINE f == FileIn(vault, Source.use)
             g == [f EXCEPT !.whole = FALSE]
  <2>1. CASE Source.src = "vault" /\ local' = Copied(g)
    <3>1. f \in vault /\ f.name = Source.use
      BY <2>1, SourceIs, Found
    <3>2. g \in File /\ g.name = f.name
      BY <3>1, FileParts, FileChanged DEF Inv, TypeInv, Dirs
    <3> HIDE DEF g
    <3>3. Names(Range(Copied(g))) = Names(Range(local)) \cup {g.name}
      BY <1>2, <3>2, CopiedFiles
    <3> HIDE DEF f
    <3> QED
      BY <1>4, <2>1, <3>1, <3>2, <3>3
  <2> QED
    BY <1>3, <1>7, <2>1 DEF RestoreClearKilled
<1>8. ASSUME NEW j \in Jobs, BackupSave(j)
      PROVE  FALSE
  BY <1>8, DataAre DEF BackupSave
<1>9. ASSUME NEW j \in Jobs, NEW f \in File, f.name = Latest, local' = Copied(f)
      PROVE  n.kind # "snapshot"
  BY <1>1, <1>2, <1>9, CopiedFiles, NamesAre
<1>10. ASSUME NEW j \in Jobs, InVolume(Stamped(jobs[j].k))
       PROVE  /\ [Own(j) EXCEPT !.name = Latest] \in File
              /\ [Own(j) EXCEPT !.name = Latest].name = Latest
              /\ [Own(j) EXCEPT !.name = Latest, !.whole = FALSE] \in File
              /\ [Own(j) EXCEPT !.name = Latest, !.whole = FALSE].name = Latest
  <2>1. Own(j) \in File
    BY <1>2, <1>10, Found, LocalFiles DEF InVolume, Own
  <2> QED
    BY <2>1, FileChanged, NamesAre
<1>11. ASSUME NEW j \in Jobs, BackupLatest(j)
       PROVE  n.kind # "snapshot"
  BY <1>3, <1>9, <1>10, <1>11 DEF BackupLatest
<1>12. ASSUME NEW j \in Jobs, NEW m \in Nat, Prunes(j, m)
       PROVE  n.kind # "snapshot"
  <2>1. Range(local') \subseteq Range(local)
    BY <1>12, PrunedFiles
  <2> QED
    BY <1>1, <2>1 DEF Names
<1>13. ASSUME NEW j \in Jobs, BackupMirror(j) \/ BackupPrune(j)
       PROVE  n.kind # "snapshot"
  <2>1. jobs[j].excess \in Nat
    BY DEF Inv, TypeInv, Running, Job
  <2> QED
    BY <1>3, <1>12, <1>13, <2>1 DEF BackupMirror, BackupPrune
<1>14. ASSUME NEW j \in Jobs, BackupKilled(j)
       PROVE  n.kind # "snapshot"
  <2> DEFINE g == [Own(j) EXCEPT !.name = Latest, !.whole = FALSE]
  <2>1. \/ UNCHANGED local
        \/ InVolume(Stamped(jobs[j].k)) /\ local' = Copied(g)
        \/ \E m \in 0..jobs[j].excess : Prunes(j, m)
    BY <1>14 DEF BackupKilled
  <2>2. \A m \in 0..jobs[j].excess : m \in Nat
    OBVIOUS
  <2>3. InVolume(Stamped(jobs[j].k)) => g \in File /\ g.name = Latest
    BY <1>10
  <2> HIDE DEF g
  <2> QED
    BY <1>3, <1>9, <1>12, <2>1, <2>2, <2>3
<1> QED
  BY <1>5, <1>6, <1>7, <1>8, <1>11, <1>13, <1>14 DEF Next, Restore, Backup

LEMMA UntouchedNext ==
    ASSUME Inv, Next
    PROVE  Untouched'
<1> SUFFICES ASSUME ~pod'.env.force PROVE Untouched'
  BY DEF Untouched
<1>1. ~pod.env.force
  <2>1. CASE pod'.env = pod.env
    BY <2>1
  <2>2. CASE pod' = Starting(tmpl)
    <3>1. ~tmpl.force
      BY <2>2, EnvsAre
    <3>2. \A i : ~Of(tmpl, i)
      BY <3>1 DEF Of
    <3>3. pod.env = First
      BY <3>2 DEF Inv, TypeInv, Ordered
    <3> QED
      BY <3>3, EnvsAre
  <2> QED
    BY <2>1, <2>2, OtherSteps, ContainerStep
<1>2. /\ pod.pc \in {"cleared", "restored"} => pod.use.kind # "snapshot"
      /\ \A n \in marks : n.kind # "snapshot"
  BY <1>1 DEF Inv, Untouched
<1>3. db' = Empty => db = Empty
  <2>1. CASE ~(Restore \/ RestoreClearKilled)
    <3>1. CASE Write
      <4>1. db \in Data /\ db' = [db EXCEPT !.rev = writes + 1] /\ writes \in Nat
        BY <3>1 DEF Write, Inv, TypeInv, Counts
      <4>2. db'.rev = writes + 1 /\ Empty.rev = -1
        BY <4>1 DEF Data, Empty
      <4>3. writes + 1 # -1
        BY <4>1
      <4> QED
        BY <4>2, <4>3
    <3> QED
      BY <2>1, <3>1, OtherSteps
  <2>2. CASE RestoreSkip
    BY <2>2, DataAre DEF RestoreSkip
  <2>3. CASE RestoreClear
    <3>1. db = Empty
      BY <1>1, <2>3 DEF RestoreClear, Skip
    <3> QED
      BY <3>1
  <2>4. CASE RestoreClearKilled \/ Touch
    BY <2>4, DataAre DEF RestoreClearKilled, Touch
  <2>5. CASE RestoreData
    BY <2>5, RestoreDataIs, DataAre
  <2> QED
    BY <2>1, <2>2, <2>3, <2>4, <2>5 DEF Restore
<1>4. db' = Empty => \A n \in Names(Range(local')) : n.kind # "snapshot"
  BY <1>1, <1>3, NoneArrives
<1>5. \A n \in marks' : n.kind # "snapshot"
  <2>1. CASE Touch
    BY <1>2, <2>1 DEF Touch
  <2>2. CASE ~Touch
    <3>1. marks' = marks
      BY <2>2, OtherSteps DEF Restore, RestoreSkip, RestoreClear, RestoreData, RestoreClearKilled
    <3> QED
      BY <1>2, <3>1
  <2> QED
    BY <2>1, <2>2
<1>6. ASSUME pod'.pc \in {"cleared", "restored"}
      PROVE  pod'.use.kind # "snapshot"
  <2>1. CASE ~(Restore \/ RestoreClearKilled)
    BY <1>2, <1>6, <2>1, OtherSteps, EnvsAre
  <2>2. CASE RestoreSkip \/ Touch
    BY <1>6, <2>2, ContainerStep DEF Restore, Moved
  <2>3. CASE RestoreClear
    <3>1. Moved("cleared", Source.use) /\ Source.use # None /\ db = Empty
      BY <1>1, <2>3, ContainerStep DEF Restore, RestoreClear, Skip
    <3> QED
      BY <1>1, <3>1, Takes DEF Moved
  <2>4. CASE RestoreData
    <3>1. Moved("restored", pod.use) /\ pod.pc = "cleared"
      BY <1>6, <2>4, RestoreDataIs DEF Moved
    <3> QED
      BY <1>2, <3>1 DEF Moved
  <2>5. CASE RestoreClearKilled
    BY <1>2, <1>6, <2>5 DEF RestoreClearKilled
  <2> QED
    BY <2>1, <2>2, <2>3, <2>4, <2>5 DEF Restore
<1> QED
  BY <1>4, <1>5, <1>6 DEF Untouched

\* Which of the requests the environments are of, if no two are the same.
LEMMA WhichRequest ==
    ASSUME Inv, Next, ~torn', ~Repeated'
    PROVE  /\ ~torn /\ ~Repeated
           /\ \A i, k \in 1..Len(requests) : requests[i] = requests[k] => i = k
           /\ \A i \in 1..Len(requests) : i \in 1..Len(requests') /\ requests'[i] = requests[i]
           /\ \A env, i, k : Of(env, i) /\ Of(env, k) => i = k
           /\ \A env, i, k : /\ Of(env, i) /\ k \in 1..Len(requests')
                             /\ env = [file |-> requests'[k], force |-> TRUE]
                             => i = k
<1>1. /\ Len(requests) \in Nat /\ Len(requests') \in Nat /\ Len(requests') >= Len(requests)
      /\ \A i \in 1..Len(requests) : requests'[i] = requests[i]
      /\ requests \in Seq(Name) /\ requests' \in Seq(Name)
  BY AskedNext DEF Inv, TypeInv, Asked
<1>2. \A i \in 1..Len(requests) : i \in 1..Len(requests') /\ requests'[i] = requests[i]
  BY <1>1
<1>3. \A i, k \in 1..Len(requests') : requests'[i] = requests'[k] => i = k
  <2>1. DOMAIN requests' = 1..Len(requests')
    BY <1>1
  <2> QED
    BY <2>1 DEF Repeated
<1>4. \A i, k \in 1..Len(requests) : requests[i] = requests[k] => i = k
  BY <1>2, <1>3
<1>5. ~Repeated
  <2>1. DOMAIN requests = 1..Len(requests)
    BY <1>1
  <2> QED
    BY <1>4, <2>1 DEF Repeated
<1>6. ASSUME NEW env, NEW i, NEW k, Of(env, i), k \in 1..Len(requests'),
             env = [file |-> requests'[k], force |-> TRUE]
      PROVE  i = k
  <2>1. i \in 1..Len(requests) /\ env.file = requests[i] /\ env.file = requests'[k]
    BY <1>6 DEF Of
  <2> QED
    BY <1>2, <1>3, <1>6, <2>1
<1>7. ASSUME NEW env, NEW i, NEW k, Of(env, i), Of(env, k)
      PROVE  i = k
  <2>1. /\ i \in 1..Len(requests) /\ env.file = requests[i]
        /\ k \in 1..Len(requests) /\ env.file = requests[k]
    BY <1>7 DEF Of
  <2> QED
    BY <1>4, <2>1
<1> QED
  BY <1>2, <1>4, <1>5, <1>6, <1>7, NamesStay

LEMMA WholeNext ==
    ASSUME Inv, Next
    PROVE  Whole'
<1> SUFFICES ASSUME ~torn', ~Repeated', pod'.env.force PROVE Whole'
  BY DEF Whole
<1>1. ~torn /\ ~Repeated /\ Len(requests) \in Nat
  BY WhichRequest DEF Inv, TypeInv, Asked
<1>2. ASSUME pod.env.force
      PROVE  /\ \A i \in 1..Len(requests) : Of(pod.env, i) =>
                   \A n \in marks : n.kind = "snapshot" => \E k \in 1..i : n = requests[k]
             /\ pod.env.file.kind = "snapshot" =>
                   /\ pod.pc \in {"restored", "up"} => db # Partial
                   /\ db = Partial => pod.env.file \notin marks
  BY <1>1, <1>2 DEF Inv, Whole
<1>3. ~pod.env.force => \A n \in marks : n.kind # "snapshot"
  BY DEF Inv, Untouched
<1>4. ASSUME pod'.env # pod.env
      PROVE  /\ UNCHANGED <<marks, db>> /\ pod' = Starting(tmpl)
             /\ pod'.env = tmpl /\ tmpl.force
             /\ \E m \in 1..Len(requests) :
                   /\ Of(tmpl, m)
                   /\ \/ ~pod.env.force
                      \/ pod.env.force /\ \E k \in 1..m : Of(pod.env, k)
  <2>1. ~(Restore \/ RestoreClearKilled) /\ pod' = Starting(tmpl)
    BY <1>4, OtherSteps, ContainerStep
  <2>2. marks' = marks /\ db' = db
    <3>1. Write => pod' = pod
      BY DEF Write
    <3> QED
      BY <1>4, <2>1, <3>1, OtherSteps
  <2>3. pod'.env = tmpl /\ tmpl.force
    BY <2>1, EnvsAre
  <2>4. PICK m \in 1..Len(requests) : Of(tmpl, m)
    BY <2>3, EnvsAre
  <2>5. ASSUME pod.env.force
        PROVE  \E k \in 1..m : Of(pod.env, k)
    <3>1. PICK k \in 1..Len(requests) : Of(pod.env, k) /\ \E l \in k..Len(requests) : Of(tmpl, l)
      BY <2>5, EnvsAre DEF Inv, TypeInv, Ordered
    <3>2. PICK l \in k..Len(requests) : Of(tmpl, l)
      BY <3>1
    <3>3. l = m
      BY <2>4, <3>2, WhichRequest
    <3> QED
      BY <3>1, <3>2, <3>3
  <2> QED
    BY <2>1, <2>2, <2>3, <2>4, <2>5
<1>5. ASSUME NEW i \in 1..Len(requests'), pod'.env = [file |-> requests'[i], force |-> TRUE],
             NEW n \in marks', n.kind = "snapshot"
      PROVE  \E k \in 1..i : n = requests'[k]
  <2>1. CASE pod'.env # pod.env
    <3>1. PICK m \in 1..Len(requests) : Of(tmpl, m) /\ \E k \in 1..m : Of(pod.env, k)
      BY <1>3, <1>4, <1>5, <2>1
    <3>2. PICK k \in 1..m : Of(pod.env, k)
      BY <3>1
    <3>3. m = i /\ n \in marks /\ pod.env.force
      BY <1>3, <1>4, <1>5, <2>1, <3>1, WhichRequest
    <3>4. k \in 1..Len(requests)
      BY <1>1, <3>1, <3>2
    <3>5. PICK l \in 1..k : n = requests[l]
      BY <1>2, <1>5, <3>2, <3>3, <3>4
    <3>6. l \in 1..i /\ l \in 1..Len(requests)
      BY <1>1, <3>2, <3>3, <3>4
    <3> QED
      BY <3>5, <3>6, WhichRequest
  <2>2. CASE pod'.env = pod.env
    <3>1. pod.env.force
      BY <2>2
    <3>2. PICK k \in 1..Len(requests) : Of(pod.env, k)
      BY <3>1, EnvsAre
    <3>3. k = i
      BY <1>5, <2>2, <3>2, WhichRequest
    <3>4. CASE n \in marks
      <4>1. PICK l \in 1..k : n = requests[l]
        BY <1>2, <1>5, <3>1, <3>2, <3>4
      <4>2. l \in 1..i /\ l \in 1..Len(requests)
        BY <1>1, <3>2, <3>3, <4>1
      <4> QED
        BY <4>1, <4>2, WhichRequest
    <3>5. CASE n \notin marks
      <4>1. Touch
        BY <3>5, OtherSteps DEF Restore, RestoreSkip, RestoreClear, RestoreData, RestoreClearKilled
      <4>2. n = pod.use /\ pod.pc = "restored"
        BY <3>5, <4>1 DEF Touch
      <4>3. pod.use = IF pod.env.file.kind = "row" THEN Latest ELSE pod.env.file
        BY <1>1, <3>1, <4>2 DEF Inv, Kept
      <4>4. n = pod.env.file
        BY <1>5, <4>2, <4>3, NamesAre
      <4>5. pod.env.file = requests'[i] /\ i \in 1..i
        BY <1>5, <2>2
      <4> QED
        BY <4>4, <4>5
    <3> QED
      BY <3>4, <3>5
  <2> QED
    BY <2>1, <2>2
<1>6. ASSUME pod'.env.file.kind = "snapshot"
      PROVE  /\ pod'.pc \in {"restored", "up"} => db' # Partial
             /\ db' = Partial => pod'.env.file \notin marks'
  <2>1. CASE pod'.env # pod.env
    <3>1. /\ marks' = marks /\ db' = db /\ pod'.pc = "init" /\ pod'.env = tmpl
      BY <1>4, <2>1, EnvsAre
    <3>2. ASSUME db = Partial, tmpl.file \in marks
          PROVE  FALSE
      <4>1. PICK m \in 1..Len(requests) : Of(tmpl, m) /\ \E k \in 1..m : Of(pod.env, k)
        BY <1>3, <1>4, <1>6, <2>1, <3>1, <3>2
      <4>2. PICK k \in 1..m : Of(pod.env, k)
        BY <4>1
      <4>3. pod.env.force /\ k \in 1..Len(requests)
        BY <1>1, <1>3, <1>6, <3>1, <3>2, <4>1, <4>2
      <4>4. PICK l \in 1..k : tmpl.file = requests[l]
        BY <1>2, <1>6, <3>1, <3>2, <4>2, <4>3
      <4>5. tmpl.file = requests[m] /\ l \in 1..Len(requests)
        <5>1. tmpl = [file |-> requests[m], force |-> TRUE]
          BY <4>1 DEF Of
        <5>2. tmpl.file = requests[m]
          BY <5>1
        <5> QED
          BY <1>1, <4>2, <4>3, <4>4, <5>2
      <4>6. l = m
        BY <4>4, <4>5, WhichRequest
      <4>7. k = m
        BY <1>1, <4>1, <4>2, <4>4, <4>6
      <4>8. pod.env = tmpl
        BY <4>1, <4>2, <4>7 DEF Of
      <4> QED
        BY <2>1, <3>1, <4>8
    <3> QED
      BY <3>1, <3>2
  <2>2. CASE pod'.env = pod.env
    <3>1. /\ pod.env.force /\ pod.env.file.kind = "snapshot"
          /\ pod.pc \in {"restored", "up"} => db # Partial
          /\ db = Partial => pod.env.file \notin marks
          /\ Source.use = pod.env.file /\ Source.use # None
          /\ pod.pc \in {"cleared", "restored"} => pod.use = pod.env.file
      <4>1. pod.env.force /\ pod.env.file.kind = "snapshot"
        BY <1>6, <2>2
      <4>2. Source.use = pod.env.file /\ Source.use # None
        BY <1>1, <4>1, Takes
      <4>3. pod.pc \in {"cleared", "restored"} => pod.use = pod.env.file
        BY <1>1, <4>1 DEF Inv, Kept
      <4> QED
        BY <1>2, <4>1, <4>2, <4>3
    <3>2. CASE ~(Restore \/ RestoreClearKilled)
      <4>1. marks' = marks /\ (pod' = pod \/ pod'.pc = "init")
        BY <3>2, OtherSteps, EnvsAre
      <4>2. db' = db \/ db' # Partial
        <5>1. CASE Write
          <6>1. db \in Data /\ db' = [db EXCEPT !.rev = writes + 1] /\ writes \in Nat
            BY <5>1 DEF Write, Inv, TypeInv, Counts
          <6>2. db'.rev = writes + 1 /\ Partial.rev = -2 /\ writes + 1 # -2
            BY <6>1 DEF Data, Partial
          <6> QED
            BY <6>2
        <5> QED
          BY <3>2, <5>1, OtherSteps
      <4> QED
        BY <2>2, <3>1, <4>1, <4>2
    <3>3. CASE RestoreSkip
      <4>1. Source.use \in marks
        BY <3>1, <3>3 DEF RestoreSkip, Skip
      <4>2. db' # Partial
        BY <3>1, <3>3, <4>1, DataAre DEF RestoreSkip
      <4> QED
        BY <4>2
    <3>4. CASE RestoreClear
      BY <3>4, DataAre DEF RestoreClear
    <3>5. CASE RestoreClearKilled
      BY <2>2, <3>1, <3>5 DEF RestoreClearKilled, Skip
    <3>6. CASE RestoreData
      <4>1. pod.pc = "cleared" /\ marks' = marks /\ pod.use = pod.env.file
        BY <3>1, <3>6, RestoreDataIs
      <4>2. pod.use \notin marks
        BY <4>1 DEF Inv, TypeInv, Container
      <4>3. Moved("restored", pod.use) => db' # Partial
        BY <1>1, <3>1, <3>6, <4>1, RestoreDataIs DEF Moved
      <4>4. Moved("restored", pod.use) \/ pod'.pc = "init"
        BY <3>6, RestoreDataIs DEF Moved
      <4> QED
        BY <2>2, <4>1, <4>2, <4>3, <4>4
    <3>7. CASE Touch
      BY <3>1, <3>7 DEF Touch
    <3> QED
      BY <3>2, <3>3, <3>4, <3>5, <3>6, <3>7 DEF Restore
  <2> QED
    BY <2>1, <2>2
<1>7. \A i \in 1..Len(requests') :
         pod'.env = [file |-> requests'[i], force |-> TRUE] =>
            \A n \in marks' : n.kind = "snapshot" => \E k \in 1..i : n = requests'[k]
  BY <1>5
<1> QED
  BY <1>6, <1>7 DEF Whole, Of

-------------------------------------------------------------------------------
(* What is kept. *)

KeptNames == {n \in Names(Range(local)) : n.kind = "snapshot"}
\* No run is about to remove more than it was before.
Shrinks == \A j \in Jobs : jobs'[j].excess = jobs[j].excess \/ jobs'[j].excess = 0

LEMMA KeptNamesAre ==
    ASSUME Inv
    PROVE  /\ IsFiniteSet(KeptNames) /\ Cardinality(KeptNames) \in Nat
           /\ Len(Snapshots) = Cardinality(KeptNames)
           /\ taken \in Nat /\ Retention \in Nat \ {0}
           /\ \A j \in Jobs : jobs[j].excess \in Nat
           /\ jobs \in [Jobs -> Job]
<1>1. /\ IsFiniteSet(KeptNames) /\ Len(Snapshots) = Cardinality(KeptNames)
  BY ExcessIs DEF KeptNames
<1>2. Cardinality(KeptNames) \in Nat
  BY <1>1, FS_CardinalityType
<1>3. taken \in Nat
  BY BoundAssumption DEF Inv, TypeInv, Counts
<1>4. jobs \in [Jobs -> Job] /\ \A j \in Jobs : jobs[j].excess \in Nat
  BY DEF Inv, TypeInv, Running, Job
<1> QED
  BY <1>1, <1>2, <1>3, <1>4, RetentionAssumption

LEMMA SparedIs ==
    Spared <=> (~crossed =>
        /\ Cardinality(KeptNames) >= IF taken < Retention THEN taken ELSE Retention
        /\ \A j \in Jobs :
              jobs[j].excess > 0 => Cardinality(KeptNames) - jobs[j].excess >= Retention)
BY DEF Spared, KeptNames

LEMMA JobsStep ==
    ASSUME Inv, Next
    PROVE  \/ \E j \in Jobs : BackupSave(j) \/ BackupMirror(j)
           \/ Drops
           \/ taken' = taken /\ Shrinks /\ (Rests \/ Copies \/ Mirrors)
<1>1. /\ NoJob.excess = 0
      /\ \A j \in Jobs : jobs[j] \in Job
      /\ jobs \in [Jobs -> Job]
  BY DEF NoJob, Inv, TypeInv, Running
<1>2. ASSUME NEW j \in Jobs, NEW job, jobs' = [jobs EXCEPT ![j] = job],
             job.excess = jobs[j].excess \/ job.excess = 0
      PROVE  Shrinks
  BY <1>1, <1>2 DEF Shrinks
<1>3. CASE Write \/ Request \/ ReconcileEtcd \/ Roll \/ PodRestart \/ Restore \/ RestoreClearKilled
  <2>1. taken' = taken /\ jobs' = jobs
    BY <1>3 DEF Write, Request, ReconcileEtcd, Roll, PodRestart, Restore, RestoreSkip,
                RestoreClear, RestoreData, Touch, RestoreClearKilled, backups
  <2> QED
    BY <2>1, FilesStep DEF Shrinks
<1>4. ASSUME NEW j \in Jobs, BackupLatest(j)
      PROVE  taken' = taken /\ Shrinks
  <2>1. taken' = taken /\ (Step(j, "mirror") \/ jobs' = [jobs EXCEPT ![j] = NoJob])
    BY <1>4 DEF BackupLatest
  <2>2. CASE jobs' = [jobs EXCEPT ![j] = NoJob]
    BY <1>1, <1>2, <2>1, <2>2
  <2>3. CASE Step(j, "mirror")
    <3> DEFINE job == [jobs[j] EXCEPT !.pc = "mirror"]
    <3>1. jobs' = [jobs EXCEPT ![j] = job] /\ job.excess = jobs[j].excess
      BY <1>1, <2>3 DEF Step, Job
    <3> HIDE DEF job
    <3> QED
      BY <1>2, <2>1, <3>1
  <2> QED
    BY <2>1, <2>2, <2>3
<1>5. ASSUME NEW j \in Jobs, BackupPrune(j) \/ BackupKilled(j)
      PROVE  taken' = taken /\ Shrinks
  <2>1. taken' = taken /\ jobs' = [jobs EXCEPT ![j] = NoJob]
    BY <1>5 DEF BackupPrune, BackupKilled
  <2> QED
    BY <1>1, <1>2, <2>1
<1> QED
  BY <1>3, <1>4, <1>5, FilesStep DEF Next, Backup

\* A run removes no more than it counted.
LEMMA GoneCount ==
    ASSUME Inv, NEW j \in Jobs, NEW n \in Nat, Prunes(j, n)
    PROVE  /\ IsFiniteSet(KeptNames') /\ Cardinality(KeptNames') \in Nat
           /\ Cardinality(KeptNames) <= Cardinality(KeptNames') + n
           /\ Gone(n) = {} => KeptNames' = KeptNames
<1>1. /\ Range(local') = Range(local) \ Gone(n) /\ Gone(n) \subseteq Range(local)
      /\ \A f \in Gone(n) : f.name.kind = "snapshot"
  BY PrunedFiles
<1>2. /\ IsFiniteSet(KeptNames) /\ Cardinality(KeptNames) \in Nat
  BY KeptNamesAre
<1> DEFINE D == 1..n \cap DOMAIN Snapshots
           G == {Snapshots[i].name : i \in D}
           h == [i \in D |-> Snapshots[i].name]
<1>3. IsFiniteSet(D) /\ Cardinality(D) <= n /\ Cardinality(D) \in Nat
  <2>1. IsFiniteSet(1..n) /\ Cardinality(1..n) = n
    BY FS_Interval
  <2>2. D \in SUBSET (1..n)
    OBVIOUS
  <2> HIDE DEF D
  <2> QED
    BY <2>1, <2>2, FS_Subset, FS_CardinalityType
<1>4. IsFiniteSet(G) /\ Cardinality(G) <= n /\ Cardinality(G) \in Nat
  <2>1. h \in Surjection(D, G)
    BY DEF Surjection
  <2> HIDE DEF h, D, G
  <2> QED
    BY <1>3, <2>1, FS_Surjection, FS_CardinalityType
<1>5. KeptNames \subseteq KeptNames' \cup G /\ KeptNames' \subseteq KeptNames
  <2>1. \A f \in Gone(n) : f.name \in G
    BY DEF Gone
  <2> HIDE DEF G
  <2>2. ASSUME NEW m \in KeptNames
        PROVE  m \in KeptNames' \cup G
    <3>1. PICK f \in Range(local) : m = f.name /\ m.kind = "snapshot"
      BY DEF KeptNames, Names
    <3> QED
      BY <1>1, <2>1, <3>1 DEF KeptNames, Names
  <2>3. KeptNames' \subseteq KeptNames
    BY <1>1 DEF KeptNames, Names
  <2> QED
    BY <2>2, <2>3
<1>6. IsFiniteSet(KeptNames') /\ Cardinality(KeptNames') \in Nat
  <2>1. KeptNames' \in SUBSET KeptNames
    BY <1>5
  <2> QED
    BY <1>2, <2>1, FS_Subset, FS_CardinalityType
<1>7. Cardinality(KeptNames) <= Cardinality(KeptNames') + n
  <2> HIDE DEF G
  <2>1. /\ IsFiniteSet(KeptNames' \cup G)
        /\ Cardinality(KeptNames' \cup G) =
              Cardinality(KeptNames') + Cardinality(G) - Cardinality(KeptNames' \cap G)
    BY <1>4, <1>6, FS_Union
  <2>2. Cardinality(KeptNames' \cap G) \in Nat
    <3>1. KeptNames' \cap G \in SUBSET G
      OBVIOUS
    <3> QED
      BY <1>4, <3>1, FS_Subset, FS_CardinalityType
  <2>3. Cardinality(KeptNames) <= Cardinality(KeptNames' \cup G)
    <3>1. KeptNames \in SUBSET (KeptNames' \cup G)
      BY <1>5
    <3> QED
      BY <2>1, <3>1, FS_Subset
  <2>4. Cardinality(KeptNames' \cup G) \in Nat
    BY <2>1, FS_CardinalityType
  <2> QED
    BY <1>2, <1>4, <1>6, <2>1, <2>2, <2>3, <2>4
<1>8. Gone(n) = {} => KeptNames' = KeptNames
  BY <1>1 DEF KeptNames, Names
<1> QED
  BY <1>6, <1>7, <1>8

LEMMA SparedNext ==
    ASSUME Inv, Next
    PROVE  Spared'
<1> SUFFICES ASSUME ~crossed'
             PROVE  /\ Cardinality(KeptNames') >= IF taken' < Retention THEN taken' ELSE Retention
                    /\ \A j \in Jobs : jobs'[j].excess > 0 =>
                          Cardinality(KeptNames') - jobs'[j].excess >= Retention
  BY DEF Spared, KeptNames
<1> DEFINE old == Cardinality(KeptNames)
           new == Cardinality(KeptNames')
<1>1. ~crossed
  BY StepGrows DEF Grows
<1>2. /\ old >= (IF taken < Retention THEN taken ELSE Retention)
      /\ \A j \in Jobs : jobs[j].excess > 0 => old - jobs[j].excess >= Retention
  BY <1>1, SparedIs DEF Inv
<1>3. /\ IsFiniteSet(KeptNames) /\ old \in Nat /\ taken \in Nat /\ Retention \in Nat \ {0}
      /\ Len(Snapshots) = old
      /\ \A j \in Jobs : jobs[j].excess \in Nat
      /\ jobs \in [Jobs -> Job]
  BY KeptNamesAre
<1>4. ASSUME NEW n, KeptNames' = KeptNames \/ KeptNames' = KeptNames \cup {n}
      PROVE  /\ IsFiniteSet(KeptNames') /\ new \in Nat /\ new >= old
             /\ n \notin KeptNames /\ KeptNames' = KeptNames \cup {n} => new = old + 1
  <2>1. /\ IsFiniteSet(KeptNames \cup {n})
        /\ Cardinality(KeptNames \cup {n}) = IF n \in KeptNames THEN old ELSE old + 1
    BY <1>3, FS_AddElement
  <2>2. CASE KeptNames' = KeptNames
    <3>1. new = old /\ (KeptNames' = KeptNames \cup {n} => n \in KeptNames)
      BY <2>2
    <3> QED
      BY <1>3, <2>2, <3>1
  <2>3. CASE KeptNames' = KeptNames \cup {n}
    <3>1. new = IF n \in KeptNames THEN old ELSE old + 1
      BY <2>1, <2>3
    <3> HIDE DEF new, old
    <3> QED
      BY <1>3, <2>1, <2>3, <3>1
  <2> QED
    BY <1>4, <2>2, <2>3
<1>5. ASSUME NEW f \in File, local' = Copied(f)
      PROVE  KeptNames' = KeptNames \/ KeptNames' = KeptNames \cup {f.name}
  <2>1. Names(Range(local')) = Names(Range(local)) \cup {f.name}
    BY <1>5, CopiedFiles DEF Inv, TypeInv
  <2>2. CASE f.name.kind = "snapshot"
    BY <2>1, <2>2 DEF KeptNames
  <2>3. CASE f.name.kind # "snapshot"
    BY <2>1, <2>3 DEF KeptNames
  <2> QED
    BY <2>2, <2>3
<1>6. local' = local => KeptNames' = KeptNames
  BY DEF KeptNames
<1> HIDE DEF old, new
<1>7. CASE taken' = taken /\ Shrinks /\ (Rests \/ Copies \/ Mirrors)
  <2>1. new \in Nat /\ new >= old
    BY <1>4, <1>5, <1>6, <1>7 DEF Rests, Copies, Mirrors
  <2>2. ASSUME NEW j \in Jobs, jobs'[j].excess > 0
        PROVE  new - jobs'[j].excess >= Retention
    <3>1. jobs'[j].excess = jobs[j].excess
      BY <1>7, <2>2 DEF Shrinks
    <3> QED
      BY <1>2, <1>3, <2>1, <2>2, <3>1
  <2>3. new >= IF taken' < Retention THEN taken' ELSE Retention
    BY <1>2, <1>3, <1>7, <2>1
  <2> QED
    BY <2>2, <2>3 DEF new
<1>8. ASSUME NEW j \in Jobs, BackupSave(j)
      PROVE  /\ new >= IF taken' < Retention THEN taken' ELSE Retention
             /\ \A i \in Jobs : jobs'[i].excess > 0 => new - jobs'[i].excess >= Retention
  <2> DEFINE f == [name |-> Stamped(taken + 1), rev |-> db.rev, whole |-> TRUE]
             job == [NoJob EXCEPT !.pc = "latest", !.k = taken + 1]
  <2>1. /\ local' = Copied(f) /\ taken' = taken + 1 /\ taken < MaxBackups /\ db \in Data
        /\ jobs' = [jobs EXCEPT ![j] = job]
    BY <1>8 DEF BackupSave
  <2>2. job.excess = 0
    BY DEF NoJob
  <2>3. Stamped(taken + 1).kind = "snapshot" /\ Stamped(taken + 1).n = taken + 1
    BY DEF Stamped
  <2>4. f \in File /\ f.name = Stamped(taken + 1)
    <3>1. taken + 1 \in 1..MaxBackups
      BY <1>3, <2>1, BoundAssumption
    <3> QED
      BY <2>1, <3>1, NamesAre, DataAre DEF File
  <2> HIDE DEF f, job
  <2>5. Stamped(taken + 1) \notin KeptNames
    <3>1. \A n \in KeptNames : n.n <= taken
      BY DEF KeptNames, Inv, TypeInv, Dirs
    <3> QED
      BY <1>3, <2>3, <3>1
  <2>6. KeptNames' = KeptNames \cup {Stamped(taken + 1)}
    <3>1. Names(Range(local')) = Names(Range(local)) \cup {f.name}
      BY <2>1, <2>4, CopiedFiles DEF Inv, TypeInv
    <3> QED
      BY <2>3, <2>4, <3>1 DEF KeptNames
  <2>7. new \in Nat /\ new = old + 1
    BY <1>4, <2>5, <2>6
  <2>8. ASSUME NEW i \in Jobs, jobs'[i].excess > 0
        PROVE  new - jobs'[i].excess >= Retention
    <3>1. i # j
      BY <1>3, <2>1, <2>2, <2>8
    <3>2. jobs'[i] = jobs[i]
      BY <1>3, <2>1, <3>1
    <3> QED
      BY <1>2, <1>3, <2>7, <2>8, <3>2
  <2> QED
    BY <1>2, <1>3, <2>1, <2>7, <2>8
<1>9. ASSUME NEW j \in Jobs, BackupMirror(j)
      PROVE  /\ new >= IF taken' < Retention THEN taken' ELSE Retention
             /\ \A i \in Jobs : jobs'[i].excess > 0 => new - jobs'[i].excess >= Retention
  <2> DEFINE job == [jobs[j] EXCEPT !.pc = "prune", !.excess = Excess]
  <2>1. local' = local /\ taken' = taken
    BY <1>9 DEF BackupMirror
  <2>2. jobs' = [jobs EXCEPT ![j] = job]
    BY <1>3, <1>9 DEF BackupMirror
  <2>3. job.excess = Excess
    <3>1. jobs[j] \in Job
      BY <1>3
    <3> QED
      BY <3>1 DEF Job
  <2> HIDE DEF job
  <2>4. new = old
    BY <1>6, <2>1 DEF new, old
  <2>5. ASSUME NEW i \in Jobs, jobs'[i].excess > 0
        PROVE  new - jobs'[i].excess >= Retention
    <3>1. CASE i = j
      <4>1. jobs'[i].excess = Excess
        BY <1>3, <2>2, <2>3, <3>1
      <4> QED
        BY <1>3, <2>4, <2>5, <4>1 DEF Excess
    <3>2. CASE i # j
      <4>1. jobs'[i] = jobs[i]
        BY <1>3, <2>2, <3>2
      <4> QED
        BY <1>2, <2>4, <2>5, <4>1
    <3> QED
      BY <3>1, <3>2
  <2> QED
    BY <1>2, <2>1, <2>4, <2>5
<1>10. CASE Drops
  <2>1. PICK j \in Jobs : \E n \in 0..jobs[j].excess :
          /\ Prunes(j, n) /\ taken' = taken
          /\ jobs' = [jobs EXCEPT ![j] = NoJob]
    BY <1>10 DEF Drops
  <2>2. PICK n \in 0..jobs[j].excess : Prunes(j, n)
    BY <2>1
  <2>3. n \in Nat /\ n <= jobs[j].excess /\ jobs[j].excess \in Nat
    BY <1>3
  <2>4. /\ new \in Nat /\ old <= new + n
        /\ Gone(n) = {} => new = old
    BY <2>2, <2>3, GoneCount DEF new, old
  <2>5. Gone(n) = {} \/ \A i \in Jobs \ {j} : ~(jobs[i].excess > 0)
    BY <2>2, <2>3, PrunedFiles
  <2>6. jobs'[j].excess = 0 /\ \A i \in Jobs \ {j} : jobs'[i] = jobs[i]
    BY <1>3, <2>1 DEF NoJob
  <2>7. ASSUME NEW i \in Jobs, jobs'[i].excess > 0
        PROVE  new - jobs'[i].excess >= Retention
    <3>1. i # j
      BY <2>6, <2>7
    <3>2. jobs'[i] = jobs[i] /\ jobs[i].excess > 0
      BY <2>6, <2>7, <3>1
    <3>3. new = old
      BY <2>4, <2>5, <3>1, <3>2
    <3> QED
      BY <1>2, <3>2, <3>3
  <2>8. new >= IF taken' < Retention THEN taken' ELSE Retention
    <3>1. CASE jobs[j].excess > 0
      BY <1>2, <1>3, <2>1, <2>3, <2>4, <3>1
    <3>2. CASE jobs[j].excess = 0
      <4>1. n = 0
        BY <2>3, <3>2
      <4> QED
        BY <1>2, <1>3, <2>1, <2>4, <4>1
    <3> QED
      BY <2>3, <3>1, <3>2
  <2> QED
    BY <2>7, <2>8 DEF new
<1> QED
  BY <1>7, <1>8, <1>9, <1>10, JobsStep DEF new

-------------------------------------------------------------------------------
(* The invariant holds. *)

LEMMA InvInit ==
    ASSUME Init
    PROVE  Inv
<1>1. /\ initial \in {None, Origin} /\ requests = <<>> /\ tmpl = First /\ pod = Starting(First)
      /\ db = Empty /\ marks = {} /\ local = <<>> /\ jobs = [j \in Jobs |-> NoJob]
      /\ taken = 0 /\ writes = 0 /\ served = 0 /\ torn = FALSE /\ crossed = FALSE /\ faults = 0
  BY DEF Init, First
<1>2. /\ requests \in Seq(Name) /\ Len(requests) = 0 /\ 1..Len(requests) = {}
      /\ local \in Seq(File) /\ Len(local) = 0 /\ 1..Len(local) = {} /\ Range(local) = {}
  BY <1>1 DEF Range
<1>3. /\ MaxBackups \in Nat /\ MaxWrites \in Nat /\ MaxFaults \in Nat /\ MaxRequests \in Nat
      /\ Retention \in Nat \ {0}
  BY BoundAssumption, RetentionAssumption
<1>4. \/ vault = {}
      \/ \E n \in {Latest, Origin} : vault = {[name |-> n, rev |-> 0, whole |-> TRUE]}
  <2>1. CASE vault # {}
    <3>1. PICK n \in {Latest, initial} \ {None} : vault = {[name |-> n, rev |-> 0, whole |-> TRUE]}
      BY <2>1 DEF Init
    <3>2. n \in {Latest, Origin}
      BY <1>1
    <3> QED
      BY <3>1, <3>2
  <2> QED
    BY <2>1
<1>5. /\ vault \subseteq File /\ IsFiniteSet(vault) /\ OwnNames(vault)
      /\ \A f \in vault : f.name \in {Latest, Origin} /\ f.rev = 0 /\ f.whole
  <2>1. CASE vault = {}
    BY <2>1, FS_EmptySet DEF OwnNames
  <2>2. CASE vault # {}
    <3>1. PICK n \in {Latest, Origin} : vault = {[name |-> n, rev |-> 0, whole |-> TRUE]}
      BY <1>4, <2>2
    <3> DEFINE f == [name |-> n, rev |-> 0, whole |-> TRUE]
    <3>2. f \in File /\ f.name = n /\ f.rev = 0 /\ f.whole
      BY <1>3, NamesAre DEF File
    <3> HIDE DEF f
    <3>3. vault = {f}
      BY <3>1 DEF f
    <3> QED
      BY <3>2, <3>3, FS_Singleton DEF OwnNames
  <2> QED
    BY <2>1, <2>2
<1>6. Dirs
  <2>1. \A n \in Names(Range(local)) \cup Names(vault) : n \in {Latest, Origin}
    BY <1>2, <1>5 DEF Names
  <2>2. \A n \in {Latest, Origin} : n.kind \in {"latest", "origin"}
    BY NamesAre
  <2>3. /\ \A n \in Names(Range(local)) \cup Names(vault) :
              /\ n.kind \in {"snapshot", "latest", "origin"}
              /\ n.kind = "snapshot" => n.n <= taken
    BY <2>1, <2>2
  <2>4. \A f \in Range(local) \cup vault : f.rev <= writes
    BY <1>1, <1>2, <1>5
  <2> QED
    BY <1>2, <1>5, <2>3, <2>4 DEF Dirs
<1>7. Counts
  <2>1. torn \in BOOLEAN /\ crossed \in BOOLEAN
    BY <1>1
  <2> QED
    BY <1>1, <1>3, <2>1 DEF Counts
<1>8. Running
  <2>1. NoJob \in Job /\ NoJob.k = 0 /\ NoJob.excess = 0
    BY <1>3 DEF NoJob, Job
  <2> QED
    BY <1>1, <2>1 DEF Running
<1>9. Asked
  BY <1>1, <1>2, <1>3 DEF Asked
<1>10. Starting(First).env = First /\ Starting(First).pc = "init" /\ ~First.force
  BY DEF Starting, First
<1>11. Ordered
  BY <1>1, <1>10 DEF Ordered
<1>12. Container
  <2>1. First \in Env
    BY <1>1, NamesAre DEF First, Env
  <2>2. Starting(First) \in Pod
    BY <2>1, NamesAre DEF Starting, Pod
  <2> QED
    BY <1>1, <1>10, <2>2, DataAre DEF Container
<1>13. Kept /\ Marked /\ Whole
  BY <1>1, <1>2, <1>5, <1>10 DEF Kept, Marked, Whole
<1>14. Untouched
  BY <1>1, <1>2, <1>10 DEF Untouched, Names
<1>15. Spared
  <2>1. KeptNames = {}
    BY <1>2 DEF KeptNames, Names
  <2>2. Cardinality(KeptNames) = 0
    BY <2>1, FS_EmptySet
  <2>3. \A j \in Jobs : jobs[j].excess = 0
    BY <1>1 DEF NoJob
  <2> QED
    BY <1>1, <1>3, <2>2, <2>3, SparedIs
<1> QED
  BY <1>6, <1>7, <1>8, <1>9, <1>11, <1>12, <1>13, <1>14, <1>15 DEF Inv, TypeInv

LEMMA InvNext ==
    ASSUME Inv, [Next]_vars
    PROVE  Inv'
<1>1. CASE Next
  BY <1>1, DirsNext, CountsNext, RunningNext, AskedNext, OrderedNext, ContainerNext, KeptNext,
     MarkedNext, UntouchedNext, WholeNext, SparedNext DEF Inv, TypeInv
<1>2. CASE UNCHANGED vars
  <2>1. UNCHANGED <<initial, requests, tmpl, pod, db, marks, local, vault, jobs, taken, writes,
                    served, torn, crossed, faults>>
    BY <1>2 DEF vars
  <2>2. Dirs' /\ Counts' /\ Running'
    BY <2>1 DEF Inv, TypeInv, Dirs, Counts, Running, OwnNames
  <2>3. Asked' /\ Ordered' /\ Container'
    BY <2>1 DEF Inv, TypeInv, Asked, Ordered, Of, First, Container
  <2>4. Kept' /\ Untouched'
    BY <2>1 DEF Inv, Kept, Untouched
  <2>5. Marked'
    BY <2>1 DEF Inv, Marked, Wanted, WantedEnv
  <2>6. Whole'
    BY <2>1 DEF Inv, Whole, Repeated, Of
  <2>7. Spared'
    BY <2>1 DEF Inv, Spared
  <2> QED
    BY <2>2, <2>3, <2>4, <2>5, <2>6, <2>7 DEF Inv, TypeInv
<1> QED
  BY <1>1, <1>2

LEMMA Always == Spec => []Inv
<1>1. Init => Inv
  BY InvInit
<1>2. Inv /\ [Next]_vars => Inv'
  BY InvNext
<1> QED
  BY <1>1, <1>2, PTL DEF Spec

-------------------------------------------------------------------------------
(* The theorems. *)

LEMMA Typed == Inv => TypeOK
<1> SUFFICES ASSUME Inv PROVE TypeOK
  OBVIOUS
<1>1. Dirs /\ Counts /\ Running /\ Asked /\ Container
  BY DEF Inv, TypeInv
<1>2. initial \in Name
  BY <1>1, NamesAre DEF Asked
<1>3. Range(local) \subseteq File /\ Cardinality(Names(Range(local))) = Len(local)
  <2>1. /\ local \in Seq(File) /\ Len(local) \in Nat /\ DOMAIN local = 1..Len(local)
        /\ \A i \in 1..Len(local) : local[i] \in File
        /\ Range(local) \subseteq File
    BY <1>1, LocalFiles DEF Dirs
  <2> DEFINE t == [i \in 1..Len(local) |-> local[i].name]
  <2>2. /\ t \in Seq(Name) /\ Len(t) = Len(local) /\ DOMAIN t = 1..Len(local)
        /\ \A i \in 1..Len(local) : t[i] = local[i].name
    BY <2>1, FileParts
  <2> HIDE DEF t
  <2>3. \A i, k \in 1..Len(t) : t[i] = t[k] => i = k
    BY <1>1, <2>2 DEF Dirs
  <2>4. Range(t) = Names(Range(local))
    BY <2>1, <2>2 DEF Range, Names
  <2> QED
    BY <2>1, <2>2, <2>3, <2>4, ListCount
<1>4. vault \subseteq File /\ Cardinality(Names(vault)) = Cardinality(vault)
  <2> DEFINE h == [f \in vault |-> f.name]
  <2>1. h \in Surjection(vault, Names(vault))
    BY DEF Surjection, Names
  <2>2. h \in Injection(vault, Names(vault))
    BY <1>1 DEF Injection, IsInjective, Names, Dirs, OwnNames
  <2> HIDE DEF h
  <2> QED
    BY <1>1, <2>1, <2>2, FS_Surjection DEF Dirs
<1>5. tmpl \in Env
  BY EnvsAre
<1> QED
  BY <1>1, <1>2, <1>3, <1>4, <1>5 DEF TypeOK, Asked, Counts, Container, Running

\* Every variable stays in its type, no two files of a directory have one name, and
\* etcd never runs on an empty directory.
THEOREM TypeCorrect == Spec => []TypeOK
BY Always, Typed, PTL

\* The init container never leaves etcd running on part of the snapshot that was asked
\* for, however often it is killed (restore.sh).
THEOREM NeverInPart == Spec => []RestoreIsWhole
<1>1. Inv => RestoreIsWhole
  BY DEF Inv, Whole, RestoreIsWhole
<1> QED
  BY <1>1, Always, PTL

\* The snapshots that RETENTION_COUNT promises are there, whatever overlaps and is
\* killed, unless a run pruned between another's count and its deletions (backup.sh).
THEOREM RetentionHolds == Spec => []BackupsKept
<1>1. Inv => BackupsKept
  BY SparedIs, KeptNamesAre DEF Inv, BackupsKept
<1> QED
  BY <1>1, Always, PTL

\* What the last request stands for is not given up.
Survives ==
    served = Len(requests) /\ db \in Data /\ ~torn /\ Wanted.kind # "row"
        => db' \in Data /\ db'.rev >= db.rev

LEMMA StepSurvives == Inv /\ [Next]_vars => [Survives]_vars
<1> SUFFICES ASSUME Inv, Next, served = Len(requests), db \in Data, ~torn, Wanted.kind # "row"
             PROVE  db' \in Data /\ db'.rev >= db.rev
  BY DEF Survives
<1>1. db # Empty /\ db.rev \in Nat
  BY DataAre, BoundAssumption
<1>2. Skip
  <2>1. CASE requests = <<>>
    <3>1. ~pod.env.force
      BY <2>1, EnvsAre DEF Of
    <3> QED
      BY <1>1, <3>1 DEF Skip
  <2>2. CASE requests # <<>>
    <3>1. Wanted \in marks /\ pod.env = WantedEnv
      BY <2>2 DEF Inv, Marked
    <3>2. pod.env.force /\ pod.env.file = Wanted
      BY <2>2, <3>1, Wants
    <3>3. Source.use = Wanted
      BY <3>2, Takes
    <3> QED
      BY <3>1, <3>3 DEF Skip
  <2> QED
    BY <2>1, <2>2
<1>3. pod.pc # "cleared"
  BY <1>1 DEF Inv, TypeInv, Container
<1>4. CASE Write
  <2>1. /\ db' = [db EXCEPT !.rev = writes + 1] /\ writes \in Nat /\ writes < MaxWrites
        /\ db.rev <= writes
    BY <1>4 DEF Write, Inv, TypeInv, Counts, Container
  <2>2. writes + 1 \in 0..MaxWrites
    BY <2>1, BoundAssumption
  <2>3. db' \in Data /\ db'.rev = writes + 1
    BY <2>1, <2>2 DEF Data
  <2> QED
    BY <1>1, <2>1, <2>3
<1>5. CASE ~Write
  <2>1. ~RestoreClear /\ ~RestoreClearKilled /\ ~RestoreData
    BY <1>2, <1>3 DEF RestoreClear, RestoreClearKilled, RestoreData
  <2>2. RestoreSkip \/ Touch => db' = db
    BY <1>1 DEF RestoreSkip, Touch
  <2>3. db' = db
    BY <1>5, <2>1, <2>2, OtherSteps DEF Restore
  <2> QED
    BY <1>1, <2>3
<1> QED
  BY <1>4, <1>5

\* Once etcd has come up for the last request, what tenants wrote is there to stay, though
\* the init container runs at every restart of the pod, with that request still in place.
THEOREM WritesStay == Spec => WritesSurviveRestarts
<1>1. Inv /\ [Next]_vars => [Survives]_vars
  BY StepSurvives
<1>2. Spec => [][Survives]_vars
  BY <1>1, Always, PTL DEF Spec
<1> QED
  BY <1>2 DEF WritesSurviveRestarts, Survives
=============================================================================
