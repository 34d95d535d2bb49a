-------------------------- MODULE CloudStoreProofs --------------------------
(***************************************************************************)
(* What holds of CloudStore for every set of names, devices and callers    *)
(* and for every bound, proved with TLAPS.                                 *)
(***************************************************************************)
EXTENDS CloudStore, WellFoundedInduction, TLAPS

-----------------------------------------------------------------------------
(* The loops of purgeCloud, cmdRemove and ListProfiles always have a next  *)
(* file while one is left.                                                 *)

\* A nonempty set of naturals has a least element.
LEMMA LeastNat ==
    ASSUME NEW T \in SUBSET Nat, T # {}
    PROVE  \E x \in T : \A y \in T : x <= y
<1>1. \E x \in T : \A y \in T : ~(<<y, x>> \in OpToRel(<, Nat))
  BY NatLessThanWellFounded, WFMin
<1>2. PICK x \in T : \A y \in T : ~(<<y, x>> \in OpToRel(<, Nat))
  BY <1>1
<1>3. \A y \in T : ~(y < x)
  BY <1>2 DEF OpToRel
<1> QED
  BY <1>3

\* FirstOf picks a member: the order of the files is total and well founded.
LEMMA FirstOfMember ==
    ASSUME NEW S \in SUBSET Files, S # {}
    PROVE  FirstOf(S) \in S
<1> DEFINE T == {f[2] : f \in S}
<1>1. T \in SUBSET Nat /\ T # {}
  BY NamesAssumption DEF Files
<1>2. PICK m \in T : \A y \in T : m <= y
  BY <1>1, LeastNat
<1> DEFINE U == {SuffixRank[f[1]] : f \in {g \in S : g[2] = m}}
<1>3. \A s \in Suffixes : SuffixRank[s] \in Nat
  BY DEF SuffixRank, Suffixes
<1>4. U \in SUBSET Nat /\ U # {}
  BY <1>2, <1>3 DEF Files
<1>5. PICK r \in U : \A y \in U : r <= y
  BY <1>4, LeastNat
<1>6. PICK f \in S : f[2] = m /\ SuffixRank[f[1]] = r
  BY <1>5
<1>7. \A g \in S : Before(f, g)
  <2>1. TAKE g \in S
  <2>2. CASE g[2] = m
    <3>1. SuffixRank[g[1]] \in U
      BY <2>2
    <3> QED
      BY <1>5, <1>6, <2>2, <3>1 DEF Before
  <2>3. CASE g[2] # m
    <3>1. g[2] \in T /\ g[2] \in Nat /\ m \in Nat
      BY <1>1, <1>2
    <3> QED
      BY <1>2, <1>6, <2>3, <3>1 DEF Before
  <2> QED
    BY <2>2, <2>3
<1> QED
  BY <1>7 DEF FirstOf

-----------------------------------------------------------------------------
(* Type correctness. *)

TypeInv == TypeOK /\ CallOK

\* The empty directory with no call running has the right types.
LEMMA TypeInit == Init => TypeInv
  BY BoundsAssumption DEF Init, TypeInv, TypeOK, CallOK, Files, Contents, Data,
     Points, Ops, Rows, FlagData

\* Returning keeps the types of the caller's state.
LEMMA ReturnType ==
    ASSUME TypeInv, NEW c \in Callers, NEW r \in {"none", "ok", "error"},
           Return(c, r), disk' \in [Files -> Contents],
           revision' = revision, faults' \in 0..MaxFaults
    PROVE  TypeInv'
<1>1. FlagData \in Data
  BY DEF Data
<1>2. TypeOK'
  BY <1>1 DEF TypeInv, TypeOK, CallOK, Return, Points, Ops
<1>3. CallOK'
  BY DEF TypeInv, TypeOK, CallOK, Return
<1> QED
  BY <1>2, <1>3 DEF TypeInv

\* So does going on to the next file ...
LEMMA GoOnType ==
    ASSUME TypeInv, NEW c \in Callers, NEW f \in Files, op[c] = "sync",
           GoOn(c, f), disk' \in [Files -> Contents],
           revision' = revision, faults' \in 0..MaxFaults
    PROVE  TypeInv'
  BY DEF TypeInv, TypeOK, CallOK, GoOn, Points

\* ... and so does whatever follows a write.
LEMMA AfterWriteType ==
    ASSUME TypeInv, NEW c \in Callers, NEW r \in {"ok", "error"},
           pc[c] \in {"open", "write"}, AfterWrite(c, r),
           disk' \in [Files -> Contents], revision' = revision,
           faults' \in 0..MaxFaults
    PROVE  TypeInv'
<1>1. op[c] \in {"sync", "import"} /\ (op[c] = "import" => file[c][1] = "pharos")
  BY DEF TypeInv, CallOK
<1>2. CASE op[c] = "sync"
  <2>1. BundleName[dev[c]] \in Names
    BY <1>2, NamesAssumption DEF TypeInv, CallOK
  <2>2. /\ SyncedPath(BundleName[dev[c]]) \in Files
        /\ PidPath(BundleName[dev[c]]) \in Files
    BY <2>1 DEF SyncedPath, PidPath, Files, Suffixes
  <2> QED
    BY <1>2, <2>2, ReturnType, GoOnType DEF AfterWrite
<1>3. CASE op[c] = "import"
  <2>1. Return(c, r)
    BY <1>1, <1>3 DEF AfterWrite
  <2> QED
    BY <2>1, ReturnType
<1> QED
  BY <1>1, <1>2, <1>3

\* A fault stays within its bound.
LEMMA FaultType ==
    ASSUME TypeInv, NEW kind, Fault(kind)
    PROVE  faults' \in 0..MaxFaults
  BY BoundsAssumption DEF TypeInv, TypeOK, Fault

\* BundlePath and the file the loops look at are files of the directory.
LEMMA PathType ==
    ASSUME NEW n \in Names
    PROVE  BundlePath(n) \in Files
  BY NamesAssumption DEF BundlePath, Files, Suffixes

\* Every step of a call, a fault or the environment preserves the types.
LEMMA TypeNext == TypeInv /\ [Next]_vars => TypeInv'
<1> SUFFICES ASSUME TypeInv, [Next]_vars
             PROVE  TypeInv'
  OBVIOUS
<1>0. /\ disk \in [Files -> Contents]
      /\ faults \in 0..MaxFaults
  BY DEF TypeInv, TypeOK
<1>1. ASSUME NEW c \in Callers, Call(c)
      PROVE  TypeInv'
  <2>1. ASSUME NEW d \in Devices, CallSync(c, d)
        PROVE  TypeInv'
    BY <2>1 DEF TypeInv, TypeOK, CallOK, CallSync, Begin, MayCall, Idle, Points, Ops
  <2>2. CASE CallLogout(c)
    BY <2>2 DEF TypeInv, TypeOK, CallOK, CallLogout, Begin, MayCall, Idle, Points, Ops
  <2>3. ASSUME NEW n \in ImportNames, CallImport(c, n)
        PROVE  TypeInv'
    <3>1. BundlePath(n) \in Files /\ BundlePath(n)[1] = "pharos"
      BY PathType, NamesAssumption DEF BundlePath
    <3>2. ImportData \in Data
      BY DEF Data
    <3> QED
      BY <2>3, <3>1, <3>2 DEF TypeInv, TypeOK, CallOK, CallImport, Begin, MayCall,
         Idle, Points, Ops
  <2>4. ASSUME NEW n \in Names, CallRemove(c, n)
        PROVE  TypeInv'
    <3>1. {"pharos", "synced", "pharosid"} \X {n} \in SUBSET Files
      BY DEF Files, Suffixes
    <3> QED
      BY <2>4, <3>1 DEF TypeInv, TypeOK, CallOK, CallRemove, Begin, MayCall, Idle,
         Points, Ops
  <2>5. CASE CallList(c)
    BY <2>5 DEF TypeInv, TypeOK, CallOK, CallList, Begin, MayCall, Idle, Points, Ops
  <2> QED
    BY <1>1, <2>1, <2>2, <2>3, <2>4, <2>5 DEF Call
<1>2. ASSUME NEW c \in Callers, Step(c)
      PROVE  TypeInv'
  <2>1. CASE FetchOk(c)
    <3>1. [origin |-> "cloud", dev |-> dev[c], rev |-> revision] \in Data
      BY <2>1 DEF TypeInv, TypeOK, CallOK, FetchOk, Data, CloudData
    <3> QED
      BY <2>1, <3>1 DEF TypeInv, TypeOK, CallOK, FetchOk, Points
  <2>2. CASE FetchFails(c)
    BY <1>0, <2>2, ReturnType DEF FetchFails
  <2>3. CASE ReadDir(c)
    <3>1. PurgeFiles(Marked) \in SUBSET Files
      BY DEF PurgeFiles, Marked, Files
    <3> QED
      BY <2>3, <3>1 DEF TypeInv, TypeOK, CallOK, ReadDir, Points
  <2>4. CASE RemoveNext(c)
    <3>1. disk' \in [Files -> Contents]
      BY <1>0, <2>4 DEF RemoveNext, Unlink, Contents
    <3>2. linked' \in [Callers -> BOOLEAN]
      BY <2>4 DEF RemoveNext, Unlink, TypeInv, TypeOK
    <3>3. todo' \in [Callers -> SUBSET Files]
      BY <2>4 DEF RemoveNext, TypeInv, TypeOK
    <3>4. TypeOK'
      BY <2>4, <3>1, <3>2, <3>3 DEF TypeInv, TypeOK, RemoveNext
    <3>5. CallOK'
      BY <2>4 DEF TypeInv, TypeOK, CallOK, RemoveNext
    <3> QED
      BY <3>4, <3>5 DEF TypeInv
  <2>5. CASE RemoveDone(c)
    BY <1>0, <2>5, ReturnType DEF RemoveDone
  <2>6. CASE Wrap(c)
    <3>1. BundlePath(BundleName[dev[c]]) \in Files
      BY <2>6, PathType, NamesAssumption DEF Wrap, TypeInv, CallOK
    <3> QED
      BY <2>6, <3>1 DEF TypeInv, TypeOK, CallOK, Wrap, Points
  <2>7. CASE Open(c)
    <3>1. disk' \in [Files -> Contents]
      BY <1>0, <2>7 DEF Open, Contents
    <3> QED
      BY <2>7, <3>1 DEF TypeInv, TypeOK, CallOK, Open, Points
  <2>8. CASE Write(c)
    <3>1. data[c] \in Contents /\ Torn \in Contents
      BY DEF TypeInv, TypeOK, Contents
    <3>2. disk' \in [Files -> Contents]
      BY <1>0, <2>8, <3>1 DEF Write
    <3> QED
      BY <1>0, <2>8, <3>2, AfterWriteType DEF Write
  <2>9. CASE Glob(c)
    BY <2>9 DEF TypeInv, TypeOK, CallOK, Glob, Points
  <2>10. CASE ListRaw(c)
    <3> DEFINE f == FirstOf(todo[c])
    <3>1. f \in todo[c] /\ f \in Files
      BY <2>10, FirstOfMember DEF ListRaw, TypeInv, TypeOK
    <3>2. BundlePath(f[2]) \in Files
      BY <3>1, PathType DEF Files
    <3>3. Complete(BundlePath(f[2])) => disk[BundlePath(f[2])] \in Data
      BY <1>0, <3>2 DEF Complete, Contents
    <3> HIDE DEF f
    <3>4. CASE Complete(BundlePath(f[2]))
      BY <2>10, <3>3, <3>4 DEF f, TypeInv, TypeOK, CallOK, ListRaw, Points
    <3>5. CASE ~Complete(BundlePath(f[2]))
      BY <2>10, <3>5 DEF f, TypeInv, TypeOK, CallOK, ListRaw
    <3> QED
      BY <3>4, <3>5
  <2>11. CASE ListStat(c)
    <3> DEFINE f == FirstOf(todo[c])
               row == [name |-> f[2], data |-> data[c], cloud |-> IsCloud(f[2])]
    <3>1. f \in Files
      BY <2>11, FirstOfMember DEF ListStat, TypeInv, TypeOK, CallOK
    <3>2. IsCloud(f[2]) \in BOOLEAN
      BY DEF IsCloud, Exists
    <3>3. row \in Rows
      BY <3>1, <3>2 DEF Rows, Files, TypeInv, TypeOK
    <3> HIDE DEF row
    <3>4. listing' = [listing EXCEPT ![c] = @ \cup {row}]
      BY <2>11 DEF ListStat, row
    <3>5. listing' \in [Callers -> SUBSET Rows]
      BY <3>3, <3>4 DEF TypeInv, TypeOK
    <3>6. todo' \in [Callers -> SUBSET Files]
      BY <2>11 DEF ListStat, TypeInv, TypeOK
    <3>7. TypeOK'
      BY <2>11, <3>5, <3>6 DEF TypeInv, TypeOK, ListStat, Points
    <3>8. CallOK'
      BY <2>11 DEF TypeInv, TypeOK, CallOK, ListStat
    <3> QED
      BY <3>7, <3>8 DEF TypeInv
  <2>12. CASE ListDone(c)
    BY <1>0, <2>12, ReturnType DEF ListDone
  <2> QED
    BY <1>2, <2>1, <2>2, <2>3, <2>4, <2>5, <2>6, <2>7, <2>8, <2>9, <2>10,
       <2>11, <2>12 DEF Step
<1>3. ASSUME NEW c \in Callers, Failure(c)
      PROVE  TypeInv'
  <2>1. CASE ReadDirFails(c)
    BY <2>1, FaultType DEF TypeInv, TypeOK, CallOK, ReadDirFails, Points
  <2>2. CASE RemoveFails(c)
    BY <2>2, FaultType DEF TypeInv, TypeOK, CallOK, RemoveFails
  <2>3. CASE WrapFails(c)
    BY <1>0, <2>3, FaultType, ReturnType DEF WrapFails
  <2>4. CASE OpenFails(c)
    BY <1>0, <2>4, FaultType, AfterWriteType DEF OpenFails
  <2>5. CASE WriteFails(c)
    BY <1>0, <2>5, FaultType, AfterWriteType DEF WriteFails
  <2>6. CASE Crash(c)
    BY <1>0, <2>6, FaultType, ReturnType DEF Crash
  <2> QED
    BY <1>3, <2>1, <2>2, <2>3, <2>4, <2>5, <2>6 DEF Failure
<1>4. CASE Publish
  BY <1>4, BoundsAssumption DEF TypeInv, TypeOK, CallOK, Publish, callerVars
<1>5. ASSUME NEW n \in Names, Disable(n)
      PROVE  TypeInv'
  <2>1. disk' \in [Files -> Contents]
    BY <1>0, <1>5 DEF Disable, Contents, Data
  <2> QED
    BY <1>5, <2>1 DEF TypeInv, TypeOK, CallOK, Disable, callerVars
<1>6. CASE UNCHANGED vars
  BY <1>6 DEF TypeInv, TypeOK, CallOK, vars, callerVars
<1> QED
  BY <1>1, <1>2, <1>3, <1>4, <1>5, <1>6 DEF Next

\* TypeInv holds in every reachable state.
LEMMA TypeInvariant == Spec => []TypeInv
<1>1. Init => TypeInv
  BY TypeInit
<1>2. TypeInv /\ [Next]_vars => TypeInv'
  BY TypeNext
<1> QED
  BY <1>1, <1>2, PTL DEF Spec

\* Every file of the store and every caller's state has its type, for any
\* names, devices, callers, faults and bounds.
THEOREM StoreTypeCorrect == Spec => []TypeOK
<1>1. TypeInv => TypeOK
  BY DEF TypeInv
<1> QED
  BY <1>1, TypeInvariant, PTL

-----------------------------------------------------------------------------
(* Imported bundles, under any number of callers and any faults. *)

\* The files of an import and the files of a sync or of a purge differ.
LEMMA PathsApart ==
    ASSUME NamesApart, NEW f \in Files, f \in ImportPaths
    PROVE  /\ f[1] = "pharos"
           /\ f[2] \notin SyncNames
           /\ \A d \in Devices :
                 f \notin {BundlePath(BundleName[d]), SyncedPath(BundleName[d]),
                           PidPath(BundleName[d])}
<1>1. PICK n \in ImportNames : f = BundlePath(n)
  BY DEF ImportPaths
<1>2. f[1] = "pharos" /\ f[2] = Stem[n]
  BY <1>1 DEF BundlePath
<1>3. f[2] \notin CloudNames
  BY <1>2 DEF NamesApart
<1> QED
  BY <1>2, <1>3 DEF CloudNames, SyncNames, BundlePath, SyncedPath, PidPath

\* The three kinds of data differ, and the origin tells imports.
LEMMA DataApart ==
    /\ ImportData # FlagData
    /\ ImportData \notin CloudData
    /\ \A x \in Data : x.origin = "import" <=> x = ImportData
    /\ ImportData \notin {NoFile, Torn}
<1>1. ImportData # FlagData
  <2>1. ImportData.origin = "import" /\ FlagData.origin = "platform"
    BY DEF ImportData, FlagData
  <2> QED
    BY <2>1
<1>2. ImportData.origin = "import" /\ FlagData.origin = "platform"
  BY DEF ImportData, FlagData
<1>3. \A x \in CloudData : x.origin = "cloud"
  BY DEF CloudData
<1>4. ImportData \in Data
  BY DEF Data
<1> QED
  BY <1>1, <1>2, <1>3, <1>4, ContentsAssumption DEF Data

\* The empty directory holds no imported bundle and no marker.
LEMMA ImportInit == Init => ImportInv
<1> SUFFICES ASSUME Init
             PROVE  ImportInv
  OBVIOUS
<1>1. \A n \in Names : SyncedPath(n) \in Files
  BY DEF SyncedPath, Files, Suffixes
<1>2. MarkersFromSyncs
  BY <1>1 DEF Init, MarkersFromSyncs, IsCloud, Exists, Idle
<1>3. WritersInBounds
  BY DEF Init, WritersInBounds
<1>4. ImportsInPlace
  BY DataApart DEF Init, ImportsInPlace
<1> QED
  BY <1>2, <1>3, <1>4 DEF ImportInv

\* A return leaves what the other callers rely on, if the directory does.
LEMMA ReturnImport ==
    ASSUME TypeInv, ImportInv, NEW c \in Callers, NEW r, Return(c, r),
           \A n \in Names : IsCloud(n)' => n \in SyncNames,
           \A f \in Files : disk'[f] = ImportData => f \in ImportPaths
    PROVE  ImportInv'
<1>1. MarkersFromSyncs'
  BY DEF ImportInv, MarkersFromSyncs, TypeInv, TypeOK, Return, Idle
<1>2. WritersInBounds'
  BY DEF ImportInv, WritersInBounds, TypeInv, TypeOK, Return
<1>3. ImportsInPlace'
  BY DEF ImportInv, ImportsInPlace, TypeInv, TypeOK, Return
<1> QED
  BY <1>1, <1>2, <1>3 DEF ImportInv

\* A sync that goes on to one of its sidecars stays within its own files.
LEMMA GoOnImport ==
    ASSUME TypeInv, ImportInv, NEW c \in Callers, NEW f, GoOn(c, f),
           op[c] = "sync", pc[c] \in {"open", "write"},
           f \in {SyncedPath(BundleName[dev[c]]), PidPath(BundleName[dev[c]])},
           \A n \in Names : IsCloud(n)' => n \in SyncNames,
           \A g \in Files : disk'[g] = ImportData => g \in ImportPaths
    PROVE  ImportInv'
<1>1. MarkersFromSyncs'
  BY DEF ImportInv, MarkersFromSyncs, TypeInv, TypeOK, GoOn, Idle
<1>2. WritersInBounds'
  BY DEF ImportInv, WritersInBounds, TypeInv, TypeOK, GoOn
<1>3. ImportsInPlace'
  BY DEF ImportInv, ImportsInPlace, TypeInv, TypeOK, GoOn
<1> QED
  BY <1>1, <1>2, <1>3 DEF ImportInv

\* What follows a write, whatever its outcome, keeps syncs and imports apart.
LEMMA AfterWriteImport ==
    ASSUME TypeInv, ImportInv, NEW c \in Callers, NEW r, AfterWrite(c, r),
           pc[c] \in {"open", "write"},
           \A n \in Names : IsCloud(n)' => n \in SyncNames,
           \A g \in Files : disk'[g] = ImportData => g \in ImportPaths
    PROVE  ImportInv'
<1>1. op[c] \in {"sync", "import"} /\ (op[c] = "import" => file[c][1] = "pharos")
  BY DEF TypeInv, CallOK
<1> QED
  BY <1>1, ReturnImport, GoOnImport DEF AfterWrite

\* The two facts on the directory, when it does not change.
LEMMA SameDisk ==
    ASSUME ImportInv, disk' = disk
    PROVE  /\ \A n \in Names : IsCloud(n)' => n \in SyncNames
           /\ \A f \in Files : disk'[f] = ImportData => f \in ImportPaths
  BY DEF ImportInv, MarkersFromSyncs, ImportsInPlace, IsCloud, Exists

\* The two facts on the directory, after a write of c to the file it has open.
LEMMA WrittenDisk ==
    ASSUME TypeInv, ImportInv, NEW c \in Callers, pc[c] \in {"open", "write"},
           NEW x \in {data[c], Torn}, disk' = [disk EXCEPT ![file[c]] = x]
    PROVE  /\ \A n \in Names : IsCloud(n)' => n \in SyncNames
           /\ \A f \in Files : disk'[f] = ImportData => f \in ImportPaths
<1>1. disk \in [Files -> Contents] /\ file[c] \in Files
  BY DEF TypeInv, TypeOK, CallOK
<1>2. ASSUME NEW n \in Names, IsCloud(n)'
      PROVE  n \in SyncNames
  <2>1. SyncedPath(n) \in Files
    BY DEF SyncedPath, Files, Suffixes
  <2>2. CASE file[c] = SyncedPath(n)
    <3>1. op[c] = "sync" /\ dev[c] \in Devices
      BY <2>2 DEF TypeInv, CallOK, SyncedPath
    <3>2. file[c] \in {BundlePath(BundleName[dev[c]]),
                       SyncedPath(BundleName[dev[c]]),
                       PidPath(BundleName[dev[c]])}
      BY <3>1 DEF ImportInv, WritersInBounds
    <3>3. n = BundleName[dev[c]]
      BY <2>2, <3>2 DEF BundlePath, SyncedPath, PidPath
    <3> QED
      BY <3>1, <3>3 DEF SyncNames
  <2>3. CASE file[c] # SyncedPath(n)
    <3>1. IsCloud(n)
      BY <1>1, <1>2, <2>1, <2>3 DEF IsCloud, Exists
    <3> QED
      BY <3>1 DEF ImportInv, MarkersFromSyncs
  <2> QED
    BY <2>2, <2>3
<1>3. ASSUME NEW f \in Files, disk'[f] = ImportData
      PROVE  f \in ImportPaths
  <2>1. CASE f = file[c]
    <3>1. data[c] = ImportData
      BY <1>1, <1>3, <2>1, DataApart
    <3>2. op[c] = "import"
      BY <3>1, DataApart DEF TypeInv, CallOK, ImportInv, WritersInBounds
    <3> QED
      BY <2>1, <3>2 DEF ImportInv, WritersInBounds, ImportPaths
  <2>2. CASE f # file[c]
    BY <1>1, <1>3, <2>2 DEF ImportInv, ImportsInPlace
  <2> QED
    BY <2>1, <2>2
<1> QED
  BY <1>2, <1>3

\* Removing a file keeps the two facts on the directory.
LEMMA UnlinkedDisk ==
    ASSUME TypeInv, ImportInv, NEW f, disk' = [disk EXCEPT ![f] = NoFile]
    PROVE  /\ \A n \in Names : IsCloud(n)' => n \in SyncNames
           /\ \A g \in Files : disk'[g] = ImportData => g \in ImportPaths
<1>1. disk \in [Files -> Contents]
  BY DEF TypeInv, TypeOK
<1>2. \A n \in Names : SyncedPath(n) \in Files
  BY DEF SyncedPath, Files, Suffixes
<1>3. \A n \in Names : IsCloud(n)' => IsCloud(n)
  BY <1>1, <1>2 DEF IsCloud, Exists
<1>4. \A g \in Files : disk'[g] = ImportData => disk[g] = ImportData
  BY <1>1, DataApart
<1> QED
  BY <1>3, <1>4 DEF ImportInv, MarkersFromSyncs, ImportsInPlace

\* The row ListProfiles appends shows no import as a cloud bundle: its bundle
\* was read at a name that no sync marks.
LEMMA RowTruthful ==
    ASSUME NamesApart, TypeInv, ImportInv, NEW c \in Callers, pc[c] = "stat",
           data[c] = ImportData
    PROVE  ~IsCloud(FirstOf(todo[c])[2])
<1> DEFINE n == FirstOf(todo[c])[2]
<1>1. FirstOf(todo[c]) \in Files
  BY FirstOfMember DEF TypeInv, TypeOK, CallOK
<1>2. n \in Names /\ BundlePath(n) \in Files
  BY <1>1, PathType DEF Files
<1>3. BundlePath(n) \in ImportPaths
  BY DEF ImportInv, ImportsInPlace
<1>4. n \notin SyncNames
  BY <1>2, <1>3, PathsApart DEF SyncNames
<1> QED
  BY <1>2, <1>4 DEF ImportInv, MarkersFromSyncs

\* Every step keeps syncs, purges and imports within their own files, when no
\* imported bundle shares its name with a synced one.
LEMMA ImportNext ==
    ASSUME NamesApart
    PROVE  TypeInv /\ ImportInv /\ [Next]_vars => ImportInv'
<1> SUFFICES ASSUME TypeInv, ImportInv, [Next]_vars
             PROVE  ImportInv'
  OBVIOUS
<1>1. ASSUME NEW c \in Callers, Call(c)
      PROVE  ImportInv'
  <2>1. ASSUME NEW d \in Devices, CallSync(c, d)
        PROVE  ImportInv'
    <3>1. MarkersFromSyncs'
      BY <2>1, SameDisk DEF CallSync, Begin, MayCall, Idle, ImportInv,
         MarkersFromSyncs, TypeInv, TypeOK, CallOK
    <3>2. WritersInBounds'
      BY <2>1 DEF CallSync, Begin, ImportInv, WritersInBounds, TypeInv, TypeOK
    <3>3. ImportsInPlace'
      BY <2>1, SameDisk DEF CallSync, Begin, ImportInv, ImportsInPlace, TypeInv,
         TypeOK
    <3> QED
      BY <3>1, <3>2, <3>3 DEF ImportInv
  <2>2. CASE CallLogout(c)
    <3>1. MarkersFromSyncs'
      BY <2>2, SameDisk DEF CallLogout, Begin, MayCall, Idle, ImportInv,
         MarkersFromSyncs, TypeInv, TypeOK, CallOK
    <3>2. WritersInBounds'
      BY <2>2 DEF CallLogout, Begin, ImportInv, WritersInBounds, TypeInv, TypeOK
    <3>3. ImportsInPlace'
      BY <2>2, SameDisk DEF CallLogout, Begin, ImportInv, ImportsInPlace, TypeInv,
         TypeOK
    <3> QED
      BY <3>1, <3>2, <3>3 DEF ImportInv
  <2>3. ASSUME NEW n \in ImportNames, CallImport(c, n)
        PROVE  ImportInv'
    <3>1. MarkersFromSyncs'
      BY <2>3, SameDisk DEF CallImport, Begin, MayCall, Idle, ImportInv,
         MarkersFromSyncs, TypeInv, TypeOK, CallOK
    <3>2. WritersInBounds'
      BY <2>3 DEF CallImport, Begin, ImportInv, WritersInBounds, TypeInv, TypeOK
    <3>3. ImportsInPlace'
      BY <2>3, SameDisk DEF CallImport, Begin, ImportInv, ImportsInPlace, TypeInv,
         TypeOK
    <3> QED
      BY <3>1, <3>2, <3>3 DEF ImportInv
  <2>4. ASSUME NEW n \in Names, CallRemove(c, n)
        PROVE  ImportInv'
    <3>1. MarkersFromSyncs'
      BY <2>4, SameDisk DEF CallRemove, Begin, MayCall, Idle, ImportInv,
         MarkersFromSyncs, TypeInv, TypeOK, CallOK
    <3>2. WritersInBounds'
      BY <2>4 DEF CallRemove, Begin, ImportInv, WritersInBounds, TypeInv, TypeOK
    <3>3. ImportsInPlace'
      BY <2>4, SameDisk DEF CallRemove, Begin, ImportInv, ImportsInPlace, TypeInv,
         TypeOK
    <3> QED
      BY <3>1, <3>2, <3>3 DEF ImportInv
  <2>5. CASE CallList(c)
    <3>1. MarkersFromSyncs'
      BY <2>5, SameDisk DEF CallList, Begin, MayCall, Idle, ImportInv,
         MarkersFromSyncs, TypeInv, TypeOK, CallOK
    <3>2. WritersInBounds'
      BY <2>5 DEF CallList, Begin, ImportInv, WritersInBounds, TypeInv, TypeOK
    <3>3. ImportsInPlace'
      BY <2>5, SameDisk DEF CallList, Begin, ImportInv, ImportsInPlace, TypeInv,
         TypeOK
    <3> QED
      BY <3>1, <3>2, <3>3 DEF ImportInv
  <2> QED
    BY <1>1, <2>1, <2>2, <2>3, <2>4, <2>5 DEF Call
<1>2. ASSUME NEW c \in Callers, Step(c)
      PROVE  ImportInv'
  <2>1. CASE FetchOk(c)
    <3>1. MarkersFromSyncs'
      BY <2>1, SameDisk DEF FetchOk, Idle, ImportInv, MarkersFromSyncs, TypeInv,
         TypeOK, CallOK
    <3>2. WritersInBounds'
      BY <2>1 DEF FetchOk, ImportInv, WritersInBounds, TypeInv, TypeOK, CallOK, CloudData
    <3>3. ImportsInPlace'
      BY <2>1, SameDisk DEF FetchOk, ImportInv, ImportsInPlace, TypeInv, TypeOK
    <3> QED
      BY <3>1, <3>2, <3>3 DEF ImportInv
  <2>2. CASE FetchFails(c)
    BY <2>2, SameDisk, ReturnImport DEF FetchFails
  <2>3. CASE ReadDir(c)
    <3>0. \A f \in PurgeFiles(Marked) : f[2] \in SyncNames
      BY DEF PurgeFiles, Marked, ImportInv, MarkersFromSyncs
    <3>1. MarkersFromSyncs'
      BY <2>3, <3>0, SameDisk DEF ReadDir, Idle, ImportInv, MarkersFromSyncs, TypeInv,
         TypeOK, CallOK
    <3>2. WritersInBounds'
      BY <2>3 DEF ReadDir, ImportInv, WritersInBounds, TypeInv, TypeOK, CallOK
    <3>3. ImportsInPlace'
      BY <2>3, SameDisk DEF ReadDir, ImportInv, ImportsInPlace, TypeInv, TypeOK
    <3> QED
      BY <3>1, <3>2, <3>3 DEF ImportInv
  <2>4. CASE RemoveNext(c)
    <3>0. /\ \A n \in Names : IsCloud(n)' => n \in SyncNames
          /\ \A g \in Files : disk'[g] = ImportData => g \in ImportPaths
      BY <2>4, UnlinkedDisk DEF RemoveNext, Unlink
    <3>1. MarkersFromSyncs'
      BY <2>4, <3>0 DEF RemoveNext, Idle, ImportInv, MarkersFromSyncs, TypeInv,
         TypeOK, CallOK
    <3>2. WritersInBounds'
      BY <2>4 DEF RemoveNext, ImportInv, WritersInBounds, TypeInv, TypeOK, CallOK
    <3>3. ImportsInPlace'
      BY <2>4, <3>0 DEF RemoveNext, ImportInv, ImportsInPlace, TypeInv, TypeOK
    <3> QED
      BY <3>1, <3>2, <3>3 DEF ImportInv
  <2>5. CASE RemoveDone(c)
    BY <2>5, SameDisk, ReturnImport DEF RemoveDone
  <2>6. CASE Wrap(c)
    <3>1. MarkersFromSyncs'
      BY <2>6, SameDisk DEF Wrap, Idle, ImportInv, MarkersFromSyncs, TypeInv,
         TypeOK, CallOK
    <3>2. WritersInBounds'
      BY <2>6 DEF Wrap, ImportInv, WritersInBounds, TypeInv, TypeOK, CallOK
    <3>3. ImportsInPlace'
      BY <2>6, SameDisk DEF Wrap, ImportInv, ImportsInPlace, TypeInv, TypeOK
    <3> QED
      BY <3>1, <3>2, <3>3 DEF ImportInv
  <2>7. CASE Open(c)
    <3>0. /\ \A n \in Names : IsCloud(n)' => n \in SyncNames
          /\ \A g \in Files : disk'[g] = ImportData => g \in ImportPaths
      BY <2>7, WrittenDisk DEF Open
    <3>1. MarkersFromSyncs'
      BY <2>7, <3>0 DEF Open, Idle, ImportInv, MarkersFromSyncs, TypeInv,
         TypeOK, CallOK
    <3>2. WritersInBounds'
      BY <2>7 DEF Open, ImportInv, WritersInBounds, TypeInv, TypeOK, CallOK
    <3>3. ImportsInPlace'
      BY <2>7, <3>0 DEF Open, ImportInv, ImportsInPlace, TypeInv, TypeOK
    <3> QED
      BY <3>1, <3>2, <3>3 DEF ImportInv
  <2>8. CASE Write(c)
    <3>1. CASE disk' = disk
      BY <2>8, <3>1, SameDisk, AfterWriteImport DEF Write
    <3>2. ASSUME NEW x \in {data[c], Torn},
                 disk' = [disk EXCEPT ![file[c]] = x]
          PROVE  ImportInv'
      BY <2>8, <3>2, WrittenDisk, AfterWriteImport DEF Write
    <3> QED
      BY <2>8, <3>1, <3>2 DEF Write
  <2>9. CASE Glob(c)
    <3>1. MarkersFromSyncs'
      BY <2>9, SameDisk DEF Glob, Idle, ImportInv, MarkersFromSyncs, TypeInv,
         TypeOK, CallOK
    <3>2. WritersInBounds'
      BY <2>9 DEF Glob, ImportInv, WritersInBounds, TypeInv, TypeOK, CallOK
    <3>3. ImportsInPlace'
      BY <2>9, SameDisk DEF Glob, ImportInv, ImportsInPlace, TypeInv, TypeOK
    <3> QED
      BY <3>1, <3>2, <3>3 DEF ImportInv
  <2>10. CASE ListRaw(c)
    <3>0. BundlePath(FirstOf(todo[c])[2]) \in Files
      <4>1. FirstOf(todo[c]) \in Files
        BY <2>10, FirstOfMember DEF ListRaw, TypeInv, TypeOK
      <4> QED
        BY <4>1, PathType DEF Files
    <3>4. \A k \in Callers : op'[k] = op[k] /\ todo'[k] \subseteq todo[k]
      BY <2>10 DEF ListRaw, TypeInv, TypeOK
    <3>1. MarkersFromSyncs'
      BY <2>10, <3>4, SameDisk DEF ListRaw, Idle, ImportInv, MarkersFromSyncs, TypeInv,
         TypeOK, CallOK
    <3>2. WritersInBounds'
      BY <2>10 DEF ListRaw, ImportInv, WritersInBounds, TypeInv, TypeOK, CallOK
    <3>3. ImportsInPlace'
      BY <2>10, <3>0, SameDisk DEF ListRaw, ImportInv, ImportsInPlace, TypeInv, TypeOK
    <3> QED
      BY <3>1, <3>2, <3>3 DEF ImportInv
  <2>11. CASE ListStat(c)
    <3> DEFINE row == [name |-> FirstOf(todo[c])[2], data |-> data[c],
                       cloud |-> IsCloud(FirstOf(todo[c])[2])]
    <3>0. row.data = ImportData => ~row.cloud
      BY <2>11, RowTruthful DEF ListStat
    <3> HIDE DEF row
    <3>4. listing' = [listing EXCEPT ![c] = @ \cup {row}]
      BY <2>11 DEF ListStat, row
    <3>1. MarkersFromSyncs'
      BY <2>11, SameDisk DEF ListStat, Idle, ImportInv, MarkersFromSyncs, TypeInv,
         TypeOK, CallOK
    <3>2. WritersInBounds'
      BY <2>11 DEF ListStat, ImportInv, WritersInBounds, TypeInv, TypeOK, CallOK
    <3>3. ImportsInPlace'
      BY <2>11, <3>0, <3>4, SameDisk DEF ListStat, ImportInv, ImportsInPlace, TypeInv, TypeOK
    <3> QED
      BY <3>1, <3>2, <3>3 DEF ImportInv
  <2>12. CASE ListDone(c)
    BY <2>12, SameDisk, ReturnImport DEF ListDone
  <2> QED
    BY <1>2, <2>1, <2>2, <2>3, <2>4, <2>5, <2>6, <2>7, <2>8, <2>9, <2>10,
       <2>11, <2>12 DEF Step
<1>3. ASSUME NEW c \in Callers, Failure(c)
      PROVE  ImportInv'
  <2>1. CASE ReadDirFails(c)
    <3>1. MarkersFromSyncs'
      BY <2>1, SameDisk DEF ReadDirFails, Idle, ImportInv, MarkersFromSyncs, TypeInv,
         TypeOK, CallOK
    <3>2. WritersInBounds'
      BY <2>1 DEF ReadDirFails, ImportInv, WritersInBounds, TypeInv, TypeOK, CallOK
    <3>3. ImportsInPlace'
      BY <2>1, SameDisk DEF ReadDirFails, ImportInv, ImportsInPlace, TypeInv, TypeOK
    <3> QED
      BY <3>1, <3>2, <3>3 DEF ImportInv
  <2>2. CASE RemoveFails(c)
    <3>1. MarkersFromSyncs'
      BY <2>2, SameDisk DEF RemoveFails, Idle, ImportInv, MarkersFromSyncs, TypeInv,
         TypeOK, CallOK
    <3>2. WritersInBounds'
      BY <2>2 DEF RemoveFails, ImportInv, WritersInBounds, TypeInv, TypeOK, CallOK
    <3>3. ImportsInPlace'
      BY <2>2, SameDisk DEF RemoveFails, ImportInv, ImportsInPlace, TypeInv, TypeOK
    <3> QED
      BY <3>1, <3>2, <3>3 DEF ImportInv
  <2>3. CASE WrapFails(c)
    BY <2>3, SameDisk, ReturnImport DEF WrapFails
  <2>4. CASE OpenFails(c)
    BY <2>4, SameDisk, AfterWriteImport DEF OpenFails
  <2>5. CASE WriteFails(c)
    BY <2>5, SameDisk, AfterWriteImport DEF WriteFails
  <2>6. CASE Crash(c)
    BY <2>6, SameDisk, ReturnImport DEF Crash
  <2> QED
    BY <1>3, <2>1, <2>2, <2>3, <2>4, <2>5, <2>6 DEF Failure
<1>4. CASE Publish
  BY <1>4, SameDisk DEF Publish, callerVars, ImportInv, MarkersFromSyncs,
     WritersInBounds, ImportsInPlace, Idle
<1>5. ASSUME NEW n \in Names, Disable(n)
      PROVE  ImportInv'
  <2>1. disk \in [Files -> Contents]
    BY DEF TypeInv, TypeOK
  <2>2. \A m \in Names : IsCloud(m)' => IsCloud(m)
    BY <1>5, <2>1 DEF Disable, IsCloud, Exists, SyncedPath, Files, Suffixes
  <2>3. \A f \in Files : disk'[f] = ImportData => disk[f] = ImportData
    BY <1>5, <2>1, DataApart DEF Disable
  <2> QED
    BY <1>5, <2>2, <2>3 DEF Disable, callerVars, ImportInv, MarkersFromSyncs,
       WritersInBounds, ImportsInPlace, Idle
<1>6. CASE UNCHANGED vars
  BY <1>6, SameDisk DEF vars, callerVars, ImportInv, MarkersFromSyncs,
     WritersInBounds, ImportsInPlace, Idle
<1> QED
  BY <1>1, <1>2, <1>3, <1>4, <1>5, <1>6 DEF Next

\* ImportInv holds in every reachable state.
LEMMA ImportInvariant ==
    ASSUME NamesApart
    PROVE  Spec => [](TypeInv /\ ImportInv)
<1>1. Init => TypeInv /\ ImportInv
  BY TypeInit, ImportInit
<1>2. TypeInv /\ ImportInv /\ [Next]_vars => (TypeInv /\ ImportInv)'
  BY TypeNext, ImportNext
<1> QED
  BY <1>1, <1>2, PTL DEF Spec

\* What one step can do to an imported bundle.
LEMMA ImportStep ==
    ASSUME NamesApart, TypeInv, ImportInv, [Next]_vars,
           NEW n \in ImportNames, disk[BundlePath(n)] = ImportData
    PROVE  \/ disk'[BundlePath(n)] = ImportData
           \/ \E c \in Callers :
                 \/ op[c] = "rm" /\ BundlePath(n) \in todo[c] \ todo'[c]
                 \/ op[c] = "import" /\ pc[c] = "open" /\ file[c] = BundlePath(n)
<1> DEFINE f == BundlePath(n)
           Goal == \/ disk'[f] = ImportData
                   \/ \E c \in Callers :
                         \/ op[c] = "rm" /\ f \in todo[c] \ todo'[c]
                         \/ op[c] = "import" /\ pc[c] = "open" /\ file[c] = f
<1>1. f \in Files /\ f \in ImportPaths
  BY PathType, NamesAssumption DEF ImportPaths
<1>2. /\ f[1] = "pharos"
      /\ f[2] \notin SyncNames
      /\ \A d \in Devices :
            f \notin {BundlePath(BundleName[d]), SyncedPath(BundleName[d]),
                      PidPath(BundleName[d])}
  BY <1>1, PathsApart
<1>3. disk \in [Files -> Contents] /\ disk[f] = ImportData
  BY DEF TypeInv, TypeOK
<1> SUFFICES Goal
  OBVIOUS
<1> HIDE DEF f
<1>4. ASSUME NEW c \in Callers, RemoveNext(c)
      PROVE  Goal
  <2>1. FirstOf(todo[c]) \in todo[c]
    BY <1>4, FirstOfMember DEF RemoveNext, TypeInv, TypeOK
  <2>2. CASE FirstOf(todo[c]) = f
    <3>1. op[c] = "rm"
      BY <1>2, <1>4, <2>1, <2>2 DEF RemoveNext, TypeInv, CallOK, ImportInv,
         MarkersFromSyncs
    <3>2. f \in todo[c] \ todo'[c]
      BY <1>4, <2>1, <2>2 DEF RemoveNext, TypeInv, TypeOK
    <3> QED
      BY <3>1, <3>2
  <2>3. CASE FirstOf(todo[c]) # f
    BY <1>1, <1>3, <1>4, <2>3 DEF RemoveNext, Unlink
  <2> QED
    BY <2>2, <2>3
<1>5. ASSUME NEW c \in Callers, pc[c] \in {"open", "write"}, op[c] = "sync"
      PROVE  file[c] # f
  BY <1>2, <1>5 DEF TypeInv, CallOK, ImportInv, WritersInBounds
<1>6. ASSUME NEW c \in Callers, Open(c)
      PROVE  Goal
  <2>1. op[c] \in {"sync", "import"}
    BY <1>6 DEF Open, TypeInv, CallOK
  <2>2. CASE file[c] = f
    BY <1>5, <1>6, <2>1, <2>2 DEF Open
  <2>3. CASE file[c] # f
    BY <1>1, <1>3, <1>6, <2>3 DEF Open
  <2> QED
    BY <2>2, <2>3
<1>7. ASSUME NEW c \in Callers, Write(c)
      PROVE  Goal
  <2>1. op[c] \in {"sync", "import"}
    BY <1>7 DEF Write, TypeInv, CallOK
  <2>2. CASE file[c] = f
    <3>1. op[c] = "import" /\ data[c] = ImportData
      BY <1>5, <1>7, <2>1, <2>2 DEF Write, ImportInv, WritersInBounds
    <3> QED
      BY <1>1, <1>3, <1>7, <2>2, <3>1 DEF Write
  <2>3. CASE file[c] # f
    BY <1>1, <1>3, <1>7, <2>3 DEF Write
  <2> QED
    BY <2>2, <2>3
<1>8. ASSUME NEW m \in Names, Disable(m)
      PROVE  Goal
  BY <1>1, <1>2, <1>3, <1>8 DEF Disable
<1>9. CASE disk' = disk
  BY <1>3, <1>9
<1>10. \/ disk' = disk
       \/ \E c \in Callers : RemoveNext(c) \/ Open(c) \/ Write(c)
       \/ \E m \in Names : Disable(m)
  BY DEF Next, Call, Step, Failure, vars, callerVars, Publish, CallSync,
     CallLogout, CallImport, CallRemove, CallList, FetchOk, FetchFails, ReadDir,
     RemoveDone, Wrap, Glob, ListRaw, ListStat, ListDone, ReadDirFails,
     RemoveFails, WrapFails, OpenFails, WriteFails, Crash
<1> QED
  BY <1>4, <1>6, <1>7, <1>8, <1>9, <1>10

\* "Imported profiles (no marker) are kept": with any number of callers whose
\* syncs, purges and imports interleave call by call, and with any crashes and
\* I/O errors, an imported bundle is touched only by an rm or an import of its
\* own file, provided that no device's bundle name is an imported one.
THEOREM ImportsAreKept ==
    ASSUME NamesApart
    PROVE  Spec => ImportsKept
<1>1. TypeInv /\ ImportInv /\ [Next]_vars =>
         [\A n \in ImportNames :
             disk[BundlePath(n)] = ImportData =>
                \/ disk'[BundlePath(n)] = ImportData
                \/ \E c \in Callers :
                      \/ op[c] = "rm" /\ BundlePath(n) \in todo[c] \ todo'[c]
                      \/ op[c] = "import" /\ pc[c] = "open"
                                          /\ file[c] = BundlePath(n)]_vars
  BY ImportStep
<1> QED
  BY <1>1, ImportInvariant, PTL DEF Spec, ImportsKept

\* Under the same condition no listing, taken at any moment of the other
\* callers' calls, shows an imported bundle as a cloud one.
THEOREM ImportsAreListedLocal ==
    ASSUME NamesApart
    PROVE  Spec => []ImportsListedLocal
<1>1. TypeInv /\ ImportInv => ImportsListedLocal
  <2> SUFFICES ASSUME TypeInv, ImportInv, NEW c \in Callers,
                      NEW row \in listing[c], row.data.origin = "import"
               PROVE  ~row.cloud
    BY DEF ImportsListedLocal
  <2>1. row.data \in Data
    BY DEF TypeInv, TypeOK, Rows
  <2>2. row.data = ImportData
    BY <2>1, DataApart
  <2> QED
    BY <2>2 DEF ImportInv, ImportsInPlace
<1> QED
  BY <1>1, ImportInvariant, PTL

-----------------------------------------------------------------------------
(* The marker set, when calls do not overlap and removals do not fail. *)

Orderly == Serial /\ "remove" \notin FaultKinds

\* The empty directory has no marker and no call is running.
LEMMA MarkInit == Init => MarkInv
<1> SUFFICES ASSUME Init
             PROVE  MarkInv
  OBVIOUS
<1>1. \A n \in Names : SyncedPath(n) \in Files
  BY DEF SyncedPath, Files, Suffixes
<1>2. Marked = {}
  BY <1>1 DEF Init, Marked, IsCloud, Exists
<1> QED
  BY <1>2 DEF Init, MarkInv, OneActive, PurgePrecedesMark, OneMarked, Idle

\* A return leaves no call running.
LEMMA ReturnMark ==
    ASSUME TypeInv, MarkInv, NEW c \in Callers, ~Idle(c), NEW r, Return(c, r),
           \A m, n \in Marked' : m = n
    PROVE  MarkInv'
<1>1. \A k \in Callers : Idle(k)'
  BY DEF MarkInv, OneActive, Idle, Return, TypeInv, TypeOK
<1> QED
  BY <1>1 DEF MarkInv, OneActive, PurgePrecedesMark, OneMarked, Idle

\* A step of the one running call c: only what concerns c has to be shown.
LEMMA OwnMark ==
    ASSUME TypeInv, MarkInv, NEW c \in Callers, ~Idle(c),
           NEW p \in Points, pc' = [pc EXCEPT ![c] = p],
           (p = "remove" /\ op'[c] \in {"sync", "logout"}) =>
              \A n \in Marked' : SyncedPath(n) \in todo'[c],
           (p = "open" /\ op'[c] = "sync" /\ file'[c][1] # "pharosid") =>
              Marked' = {},
           (p = "write" /\ op'[c] = "sync" /\ file'[c][1] = "pharos") =>
              Marked' = {},
           (p = "write" /\ op'[c] = "sync" /\ file'[c][1] = "synced") =>
              Marked' \subseteq {file'[c][2]},
           \A m, n \in Marked' : m = n
    PROVE  MarkInv'
<1>1. \A k \in Callers : k # c => pc'[k] = "idle"
  BY DEF MarkInv, OneActive, Idle, TypeInv, TypeOK
<1>2. pc'[c] = p
  BY DEF TypeInv, TypeOK
<1>3. OneActive'
  BY <1>1 DEF OneActive, Idle
<1>4. PurgePrecedesMark'
  <2> SUFFICES ASSUME NEW k \in Callers
               PROVE  PurgePrecedesMark!(k)'
    BY DEF PurgePrecedesMark
  <2>1. CASE k = c
    BY <1>2, <2>1
  <2>2. CASE k # c
    BY <1>1, <2>2
  <2> QED
    BY <2>1, <2>2
<1>5. OneMarked'
  BY DEF OneMarked
<1> QED
  BY <1>3, <1>4, <1>5 DEF MarkInv

\* The marker set only depends on the .synced files.
LEMMA SameMarks ==
    ASSUME disk' = disk
    PROVE  Marked' = Marked
  BY DEF Marked, IsCloud, Exists

\* Changing one file changes the marker set by at most that file.
LEMMA TouchedMarks ==
    ASSUME TypeInv, NEW f \in Files, NEW x, disk' = [disk EXCEPT ![f] = x]
    PROVE  /\ f[1] # "synced" => Marked' = Marked
           /\ f[1] = "synced" => Marked' \subseteq Marked \cup {f[2]}
           /\ x = NoFile => Marked' = {n \in Marked : SyncedPath(n) # f}
<1>1. disk \in [Files -> Contents]
  BY DEF TypeInv, TypeOK
<1>2. \A n \in Names : SyncedPath(n) \in Files /\ SyncedPath(n)[1] = "synced"
                                              /\ SyncedPath(n)[2] = n
  BY DEF SyncedPath, Files, Suffixes
<1>3. \A n \in Names : disk'[SyncedPath(n)] =
                          IF SyncedPath(n) = f THEN x ELSE disk[SyncedPath(n)]
  BY <1>1, <1>2
<1> QED
  BY <1>2, <1>3 DEF Marked, IsCloud, Exists

\* What follows a write of the running call, whatever it wrote.
LEMMA AfterWriteMark ==
    ASSUME TypeInv, MarkInv, NEW c \in Callers, pc[c] \in {"open", "write"},
           NEW r, AfterWrite(c, r), \A m, n \in Marked' : m = n,
           op[c] = "sync" /\ file[c][1] = "pharos" => Marked' = {}
    PROVE  MarkInv'
<1>1. ~Idle(c)
  BY DEF Idle
<1>2. CASE Return(c, r) \/ Return(c, "ok")
  BY <1>1, <1>2, ReturnMark
<1>3. CASE /\ file[c][1] = "pharos" /\ op[c] = "sync"
           /\ GoOn(c, SyncedPath(BundleName[dev[c]]))
  BY <1>1, <1>3, OwnMark DEF GoOn, Points
<1>4. CASE GoOn(c, PidPath(BundleName[dev[c]]))
  <2>1. PidPath(BundleName[dev[c]])[1] = "pharosid"
    BY DEF PidPath
  <2>2. file'[c][1] = "pharosid"
    BY <1>4, <2>1 DEF GoOn, TypeInv, TypeOK
  <2> QED
    BY <1>1, <1>4, <2>2, OwnMark DEF GoOn, Points
<1> QED
  BY <1>2, <1>3, <1>4 DEF AfterWrite

\* What Open or Write of the running call does to the marker set.
LEMMA WriteMarks ==
    ASSUME TypeInv, MarkInv, NEW c \in Callers, pc[c] \in {"open", "write"},
           NEW x, disk' = [disk EXCEPT ![file[c]] = x]
    PROVE  /\ \A m, n \in Marked' : m = n
           /\ op[c] = "sync" /\ file[c][1] = "pharos" => Marked' = {}
           /\ op[c] = "sync" /\ file[c][1] = "synced" => Marked' \subseteq {file[c][2]}
<1>1. /\ file[c] \in Files
      /\ op[c] \in {"sync", "import"}
      /\ op[c] = "import" => file[c][1] = "pharos"
  BY DEF TypeInv, CallOK
<1>2. /\ file[c][1] # "synced" => Marked' = Marked
      /\ file[c][1] = "synced" => Marked' \subseteq Marked \cup {file[c][2]}
  BY <1>1, TouchedMarks
<1>3. CASE file[c][1] = "synced"
  BY <1>1, <1>2, <1>3 DEF MarkInv, PurgePrecedesMark
<1>4. CASE file[c][1] # "synced"
  BY <1>1, <1>2, <1>4 DEF MarkInv, PurgePrecedesMark, OneMarked
<1> QED
  BY <1>3, <1>4

\* Every step of calls that do not overlap keeps at most one marker: the purge
\* of a sync comes before its own marker.
LEMMA MarkNext ==
    ASSUME Orderly
    PROVE  TypeInv /\ MarkInv /\ [Next]_vars => MarkInv'
<1> SUFFICES ASSUME TypeInv, MarkInv, [Next]_vars
             PROVE  MarkInv'
  OBVIOUS
<1>1. ASSUME NEW c \in Callers, Call(c)
      PROVE  MarkInv'
  <2>1. ASSUME NEW d \in Devices, CallSync(c, d)
        PROVE  MarkInv'
    <3>1. Marked' = Marked
      BY <2>1, SameMarks DEF CallSync
    <3>2. MayCall(c) /\ pc'[c] # "idle" /\ \A k \in Callers : k # c => Idle(k)'
      BY <2>1 DEF CallSync, Begin, MayCall, Idle, Orderly, TypeInv, TypeOK
    <3> QED
      BY <2>1, <3>1, <3>2 DEF CallSync, Begin, MarkInv, OneActive, OneMarked,
         PurgePrecedesMark, Idle, TypeInv, TypeOK, BundlePath
  <2>2. CASE CallLogout(c)
    <3>1. Marked' = Marked
      BY <2>2, SameMarks DEF CallLogout
    <3>2. MayCall(c) /\ pc'[c] # "idle" /\ \A k \in Callers : k # c => Idle(k)'
      BY <2>2 DEF CallLogout, Begin, MayCall, Idle, Orderly, TypeInv, TypeOK
    <3> QED
      BY <2>2, <3>1, <3>2 DEF CallLogout, Begin, MarkInv, OneActive, OneMarked,
         PurgePrecedesMark, Idle, TypeInv, TypeOK, BundlePath
  <2>3. ASSUME NEW n \in ImportNames, CallImport(c, n)
        PROVE  MarkInv'
    <3>1. Marked' = Marked
      BY <2>3, SameMarks DEF CallImport
    <3>2. MayCall(c) /\ pc'[c] # "idle" /\ \A k \in Callers : k # c => Idle(k)'
      BY <2>3 DEF CallImport, Begin, MayCall, Idle, Orderly, TypeInv, TypeOK
    <3> QED
      BY <2>3, <3>1, <3>2 DEF CallImport, Begin, MarkInv, OneActive, OneMarked,
         PurgePrecedesMark, Idle, TypeInv, TypeOK, BundlePath
  <2>4. ASSUME NEW n \in Names, CallRemove(c, n)
        PROVE  MarkInv'
    <3>1. Marked' = Marked
      BY <2>4, SameMarks DEF CallRemove
    <3>2. MayCall(c) /\ pc'[c] # "idle" /\ \A k \in Callers : k # c => Idle(k)'
      BY <2>4 DEF CallRemove, Begin, MayCall, Idle, Orderly, TypeInv, TypeOK
    <3> QED
      BY <2>4, <3>1, <3>2 DEF CallRemove, Begin, MarkInv, OneActive, OneMarked,
         PurgePrecedesMark, Idle, TypeInv, TypeOK, BundlePath
  <2>5. CASE CallList(c)
    <3>1. Marked' = Marked
      BY <2>5, SameMarks DEF CallList
    <3>2. MayCall(c) /\ pc'[c] # "idle" /\ \A k \in Callers : k # c => Idle(k)'
      BY <2>5 DEF CallList, Begin, MayCall, Idle, Orderly, TypeInv, TypeOK
    <3> QED
      BY <2>5, <3>1, <3>2 DEF CallList, Begin, MarkInv, OneActive, OneMarked,
         PurgePrecedesMark, Idle, TypeInv, TypeOK, BundlePath
  <2> QED
    BY <1>1, <2>1, <2>2, <2>3, <2>4, <2>5 DEF Call
<1>2. ASSUME NEW c \in Callers, Step(c)
      PROVE  MarkInv'
  <2>1. CASE FetchOk(c)
    <3>1. Marked' = Marked
      BY <2>1, SameMarks DEF FetchOk
    <3> QED
      BY <2>1, <3>1, OwnMark DEF FetchOk, Idle, Points, MarkInv, OneMarked
  <2>2. CASE FetchFails(c)
    BY <2>2, SameMarks, ReturnMark DEF FetchFails, Idle, MarkInv, OneMarked
  <2>3. CASE ReadDir(c)
    <3>1. Marked' = Marked
      BY <2>3, SameMarks DEF ReadDir
    <3>2. \A n \in Marked : SyncedPath(n) \in todo'[c]
      BY <2>3 DEF ReadDir, PurgeFiles, SyncedPath, Suffixes, TypeInv, TypeOK
    <3> QED
      BY <2>3, <3>1, <3>2, OwnMark DEF ReadDir, Idle, Points, MarkInv, OneMarked
  <2>4. CASE RemoveNext(c)
    <3> DEFINE f == FirstOf(todo[c])
    <3>1. f \in Files
      BY <2>4, FirstOfMember DEF RemoveNext, TypeInv, TypeOK
    <3>2. Marked' = {n \in Marked : SyncedPath(n) # f}
      BY <2>4, <3>1, TouchedMarks DEF RemoveNext, Unlink
    <3> HIDE DEF f
    <3>3. todo'[c] = todo[c] \ {f} /\ op' = op
      BY <2>4 DEF RemoveNext, TypeInv, TypeOK, f
    <3>4. op'[c] \in {"sync", "logout"} => \A n \in Marked' : SyncedPath(n) \in todo'[c]
      BY <2>4, <3>2, <3>3 DEF RemoveNext, MarkInv, PurgePrecedesMark
    <3>5. pc' = [pc EXCEPT ![c] = "remove"] /\ ~Idle(c)
      BY <2>4 DEF RemoveNext, Idle, TypeInv, TypeOK
    <3> QED
      BY <3>2, <3>4, <3>5, OwnMark DEF Points, MarkInv, OneMarked
  <2>5. CASE RemoveDone(c)
    BY <2>5, SameMarks, ReturnMark DEF RemoveDone, Idle, MarkInv, OneMarked
  <2>6. CASE Wrap(c)
    <3>1. Marked' = Marked
      BY <2>6, SameMarks DEF Wrap
    <3>2. Marked = {}
      BY <2>6 DEF Wrap, MarkInv, PurgePrecedesMark
    <3> QED
      BY <2>6, <3>1, <3>2, OwnMark DEF Wrap, Idle, Points
  <2>7. CASE Open(c)
    <3>1. /\ \A m, n \in Marked' : m = n
          /\ op[c] = "sync" /\ file[c][1] = "pharos" => Marked' = {}
          /\ op[c] = "sync" /\ file[c][1] = "synced" => Marked' \subseteq {file[c][2]}
      BY <2>7, WriteMarks DEF Open
    <3> QED
      BY <2>7, <3>1, OwnMark DEF Open, Idle, Points
  <2>8. CASE Write(c)
    <3>1. CASE disk' = disk
      <4>1. Marked' = Marked
        BY <3>1, SameMarks
      <4>2. op[c] = "sync" /\ file[c][1] = "pharos" => Marked = {}
        BY <2>8 DEF Write, MarkInv, PurgePrecedesMark
      <4> QED
        BY <2>8, <4>1, <4>2, AfterWriteMark DEF Write, MarkInv, OneMarked
    <3>2. ASSUME NEW x, disk' = [disk EXCEPT ![file[c]] = x]
          PROVE  MarkInv'
      BY <2>8, <3>2, WriteMarks, AfterWriteMark DEF Write
    <3> QED
      BY <2>8, <3>1, <3>2 DEF Write
  <2>9. CASE Glob(c)
    <3>1. Marked' = Marked
      BY <2>9, SameMarks DEF Glob
    <3> QED
      BY <2>9, <3>1, OwnMark DEF Glob, Idle, Points, MarkInv, OneMarked
  <2>10. CASE ListRaw(c)
    <3>1. Marked' = Marked
      BY <2>10, SameMarks DEF ListRaw
    <3>2. PICK p \in {"raw", "stat"} : pc' = [pc EXCEPT ![c] = p]
      BY <2>10 DEF ListRaw, TypeInv, TypeOK
    <3> QED
      BY <2>10, <3>1, <3>2, OwnMark DEF ListRaw, Idle, Points, MarkInv, OneMarked
  <2>11. CASE ListStat(c)
    <3>1. Marked' = Marked
      BY <2>11, SameMarks DEF ListStat
    <3> QED
      BY <2>11, <3>1, OwnMark DEF ListStat, Idle, Points, MarkInv, OneMarked
  <2>12. CASE ListDone(c)
    BY <2>12, SameMarks, ReturnMark DEF ListDone, Idle, MarkInv, OneMarked
  <2> QED
    BY <1>2, <2>1, <2>2, <2>3, <2>4, <2>5, <2>6, <2>7, <2>8, <2>9, <2>10,
       <2>11, <2>12 DEF Step
<1>3. ASSUME NEW c \in Callers, Failure(c)
      PROVE  MarkInv'
  <2>1. ~ReadDirFails(c) /\ ~RemoveFails(c)
    BY DEF Orderly, ReadDirFails, RemoveFails, Fault
  <2>2. CASE WrapFails(c)
    BY <2>2, SameMarks, ReturnMark DEF WrapFails, Idle, MarkInv, OneMarked
  <2>3. CASE OpenFails(c) \/ WriteFails(c)
    <3>1. Marked' = Marked
      BY <2>3, SameMarks DEF OpenFails, WriteFails
    <3>2. op[c] = "sync" /\ file[c][1] = "pharos" => Marked = {}
      BY <2>3 DEF OpenFails, WriteFails, MarkInv, PurgePrecedesMark
    <3> QED
      BY <2>3, <3>1, <3>2, AfterWriteMark DEF OpenFails, WriteFails, MarkInv,
         OneMarked
  <2>4. CASE Crash(c)
    BY <2>4, SameMarks, ReturnMark DEF Crash, MarkInv, OneMarked
  <2> QED
    BY <1>3, <2>1, <2>2, <2>3, <2>4 DEF Failure
<1>4. CASE Publish
  BY <1>4, SameMarks DEF Publish, callerVars, MarkInv, OneActive,
     PurgePrecedesMark, OneMarked, Idle
<1>5. ASSUME NEW n \in Names, Disable(n)
      PROVE  MarkInv'
  <2>1. <<"disabled", n>> \in Files
    BY DEF Files, Suffixes
  <2>2. Marked' = Marked
    BY <1>5, <2>1, TouchedMarks DEF Disable
  <2> QED
    BY <1>5, <2>2 DEF Disable, callerVars, MarkInv, OneActive, PurgePrecedesMark,
       OneMarked, Idle
<1>6. CASE UNCHANGED vars
  BY <1>6, SameMarks DEF vars, callerVars, MarkInv, OneActive,
     PurgePrecedesMark, OneMarked, Idle
<1> QED
  BY <1>1, <1>2, <1>3, <1>4, <1>5, <1>6 DEF Next

\* When the application does not overlap its calls and os.Remove works, at most
\* one bundle of the store is marked as cloud-synced, at every moment and after
\* any crashes, write errors and malformed profiles: purgeCloud precedes the
\* marker in syncBundle.
THEOREM AtMostOneMarked ==
    ASSUME Orderly
    PROVE  Spec => []OneMarked
<1>1. Init => TypeInv /\ MarkInv
  BY TypeInit, MarkInit
<1>2. TypeInv /\ MarkInv /\ [Next]_vars => (TypeInv /\ MarkInv)'
  BY TypeNext, MarkNext
<1>3. MarkInv => OneMarked
  BY DEF MarkInv
<1> QED
  BY <1>1, <1>2, <1>3, PTL DEF Spec
=============================================================================
