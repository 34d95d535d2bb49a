------------------------- MODULE CloudSerialProofs -------------------------
(***************************************************************************)
(* What the profile store promises an application that does not overlap    *)
(* its calls, proved with TLAPS for every set of names, devices and        *)
(* callers.  Each theorem names the faults it survives: the refinement of  *)
(* AccountStore holds through crashes, failed writes and malformed         *)
(* profiles, the promises about what a call has done when it returns only  *)
(* where its steps were all taken.                                         *)
(***************************************************************************)
EXTENDS CloudStoreProofs

-----------------------------------------------------------------------------
(* The running call writes what it fetched, file after file. *)

\* What is known of the call of c while it writes.
InstallAt(c) ==
    /\ pc[c] = "write" => linked[c] /\ disk[file[c]] = Torn
    /\ (op[c] = "sync" /\ pc[c] # "fetch") =>
          data[c] \in CloudData /\ data[c].dev = dev[c] /\ data[c].rev <= revision
    /\ (op[c] = "sync" /\ pc[c] \in {"open", "write"}) =>
          LET b == BundleName[dev[c]]
          IN  /\ file[c] \in {BundlePath(b), SyncedPath(b), PidPath(b)}
              /\ file[c] # BundlePath(b) => disk[BundlePath(b)] = data[c]
              /\ file[c] = PidPath(b) => Marked \subseteq {b}
              /\ (file[c] = PidPath(b) /\ "write" \notin FaultKinds) =>
                    disk[SyncedPath(b)] = data[c]
    /\ op[c] = "import" => data[c] = ImportData /\ file[c] \in ImportPaths

InstallInv == \A c \in Callers : InstallAt(c)

-----------------------------------------------------------------------------
(* Nothing of an account outlives its marker. *)

\* The desktop's flag is the only thing under its suffix, and bundles are kept
\* under names that Store.path leaves alone.
BundlesInPlace ==
    \A f \in Files :
        /\ disk[f] = FlagData => f[1] = "disabled"
        /\ (f[1] = "pharos" /\ disk[f] # NoFile) => Stem[f[2]] = f[2]

\* f belongs to an account.
CloudFile(f) ==
    \/ f[1] = "pharos" /\ disk[f] \in CloudData
    \/ f[1] = "pharosid" /\ disk[f] # NoFile

\* Every file of an account is next to a marker, or the running call is about to
\* remove it, or is the sync that is writing it.
TracesMarked ==
    \A f \in Files : CloudFile(f) =>
        \/ f[2] \in Marked
        \/ \E c \in Callers : pc[c] = "remove" /\ f \in todo[c]
        \/ \E c \in Callers : /\ op[c] = "sync" /\ pc[c] \in {"open", "write"}
                              /\ f[2] = BundleName[dev[c]]

\* A call that is about to remove a marker removes the files next to it too.
PurgesWhole ==
    \A c \in Callers, n \in Names :
        (pc[c] = "remove" /\ SyncedPath(n) \in todo[c]) =>
            \A s \in {"pharos", "pharosid"} :
                <<s, n>> \in todo[c] \/ disk[<<s, n>>] = NoFile

TraceInv == BundlesInPlace /\ TracesMarked /\ PurgesWhole

\* What ListProfiles has read so far.
ListAt(c) ==
    /\ pc[c] \in {"raw", "stat"} =>
          \A f \in todo[c] : f[1] = "pharos" /\ Stem[f[2]] = f[2]
    /\ pc[c] = "stat" =>
          (IsCloud(FirstOf(todo[c])[2]) <=> data[c].origin = "cloud")
    /\ \A row \in listing[c] : row.cloud <=> row.data.origin = "cloud"

ListInv == \A c \in Callers : ListAt(c)

-----------------------------------------------------------------------------
(* The bundle of the session, until a call is allowed to remove it. *)

Held(d) ==
    /\ \E r \in 0..MaxRev :
          Installed(disk, d, [origin |-> "cloud", dev |-> d, rev |-> r])
    /\ Marked = {BundleName[d]}

\* A logout has ended the session, a `caravel rm` leaves its files alone.
SpareAt(c) ==
    /\ op[c] = "logout" => session = NoDevice
    /\ (op[c] = "rm" /\ session # NoDevice) =>
          \A f \in todo[c] : f[2] # BundleName[session]

\* No sync has begun to replace the bundle of the session.
Unreplaced == \A c \in Callers : op[c] = "sync" => pc[c] \in {"fetch", "readdir"}

SessionInv ==
    /\ \A c \in Callers : SpareAt(c)
    /\ (session # NoDevice /\ Unreplaced) => Held(session)

-----------------------------------------------------------------------------
(* Lemmas about files, data and the one call that runs. *)

\* The three files of a sync are files of the directory and differ.
LEMMA SyncFiles ==
    ASSUME NEW b \in Names
    PROVE  /\ BundlePath(b) \in Files /\ BundlePath(b)[1] = "pharos"
           /\ BundlePath(b)[2] = Stem[b]
           /\ SyncedPath(b) \in Files /\ SyncedPath(b)[1] = "synced"
           /\ SyncedPath(b)[2] = b
           /\ PidPath(b) \in Files /\ PidPath(b)[1] = "pharosid"
           /\ PidPath(b)[2] = b
  BY PathType DEF BundlePath, SyncedPath, PidPath, Files, Suffixes

\* What a sync installs is neither a gap, nor a torn file, nor an import, nor a
\* flag.
LEMMA CloudApart ==
    \A x \in CloudData : /\ x \notin {NoFile, Torn, ImportData, FlagData}
                         /\ x.origin = "cloud"
                         /\ x.dev \in Devices /\ x.rev \in 0..MaxRev
                         /\ x = [origin |-> "cloud", dev |-> x.dev, rev |-> x.rev]
<1>1. \A x \in CloudData : x.origin = "cloud" /\ x \in Data
  BY DEF CloudData, Data
<1>2. FlagData.origin = "platform"
  BY DEF FlagData
<1>3. \A x \in CloudData : x \notin {NoFile, Torn, ImportData, FlagData}
  BY <1>1, <1>2, DataApart, ContentsAssumption
<1>4. \A x \in CloudData : x.dev \in Devices /\ x.rev \in 0..MaxRev
                           /\ x = [origin |-> "cloud", dev |-> x.dev, rev |-> x.rev]
  BY DEF CloudData
<1> QED
  BY <1>1, <1>3, <1>4

\* A step of c does not move the other callers.
LEMMA OthersStay ==
    ASSUME TypeInv, NEW c \in Callers, Call(c) \/ Step(c) \/ Failure(c),
           NEW k \in Callers, k # c
    PROVE  pc'[k] = pc[k] /\ op'[k] = op[k]
<1>0. pc \in [Callers -> Points] /\ op \in [Callers -> Ops]
  BY DEF TypeInv, TypeOK
<1>1. ASSUME NEW r, Return(c, r) PROVE pc'[k] = pc[k] /\ op'[k] = op[k]
  BY <1>0, <1>1 DEF Return
<1>2. ASSUME NEW o, NEW p, Begin(c, o, p) PROVE pc'[k] = pc[k] /\ op'[k] = op[k]
  BY <1>0, <1>2 DEF Begin
<1>3. ASSUME NEW r, AfterWrite(c, r) PROVE pc'[k] = pc[k] /\ op'[k] = op[k]
  BY <1>0, <1>1, <1>3 DEF AfterWrite, GoOn
<1>4. CASE Call(c)
  BY <1>2, <1>4 DEF Call, CallSync, CallLogout, CallImport, CallRemove, CallList
<1>5. CASE Step(c)
  BY <1>0, <1>1, <1>3, <1>5 DEF Step, FetchOk, FetchFails, ReadDir, RemoveNext,
     RemoveDone, Wrap, Open, Write, Glob, ListRaw, ListStat, ListDone
<1>6. CASE Failure(c)
  BY <1>0, <1>1, <1>3, <1>6 DEF Failure, ReadDirFails, RemoveFails, WrapFails,
     OpenFails, WriteFails, Crash
<1> QED
  BY <1>4, <1>5, <1>6

\* If calls do not overlap, the others are idle when c takes a step.
LEMMA OthersIdle ==
    ASSUME Orderly, TypeInv, MarkInv, NEW c \in Callers,
           Call(c) \/ Step(c) \/ Failure(c), NEW k \in Callers, k # c
    PROVE  /\ pc[k] = "idle" /\ op[k] = "none"
           /\ pc'[k] = "idle" /\ op'[k] = "none"
<1>1. pc'[k] = pc[k] /\ op'[k] = op[k]
  BY OthersStay
<1>2. pc[k] = "idle"
  <2>1. CASE Call(c)
    BY <2>1 DEF Call, CallSync, CallLogout, CallImport, CallRemove, CallList,
       Begin, MayCall, Idle, Orderly
  <2>2. CASE Step(c) \/ Failure(c)
    <3>1. ~Idle(c)
      BY <2>2 DEF Step, FetchOk, FetchFails, ReadDir, RemoveNext, RemoveDone,
         Wrap, Open, Write, Glob, ListRaw, ListStat, ListDone, Failure,
         ReadDirFails, RemoveFails, WrapFails, OpenFails, WriteFails, Crash, Idle
    <3> QED
      BY <3>1 DEF MarkInv, OneActive, Idle
  <2> QED
    BY <2>1, <2>2
<1> QED
  BY <1>1, <1>2 DEF TypeInv, CallOK

\* A call that returned is idle.
LEMMA ReturnIdle ==
    ASSUME TypeInv, NEW c \in Callers, NEW r, Return(c, r)
    PROVE  pc'[c] = "idle" /\ op'[c] = "none" /\ todo'[c] = {} /\ listing'[c] = {}
  BY DEF TypeInv, TypeOK, Return

\* A call that goes on to its next file keeps what it fetched.
LEMMA GoOnAt ==
    ASSUME TypeInv, NEW c \in Callers, NEW f, GoOn(c, f)
    PROVE  /\ pc'[c] = "open" /\ file'[c] = f /\ op' = op /\ dev' = dev
           /\ data' = data /\ todo' = todo /\ listing' = listing
           /\ session' = session
  BY DEF TypeInv, TypeOK, GoOn

-----------------------------------------------------------------------------
(* InstallInv is inductive. *)

\* No call is running in the initial state.
LEMMA InstallInit == Init => InstallInv
  BY DEF Init, InstallInv, InstallAt

\* What follows the write of a file of a sync or of an import.
LEMMA AfterWriteInstall ==
    ASSUME TypeInv, MarkInv, InstallInv, NEW c \in Callers,
           pc[c] \in {"open", "write"}, NEW r \in {"ok", "error"}, AfterWrite(c, r),
           revision' = revision, Marked' \subseteq Marked \cup {file[c][2]},
           \A f \in Files : f # file[c] => disk'[f] = disk[f],
           r = "ok" => disk'[file[c]] = data[c],
           r = "error" => disk' = disk /\ "write" \in FaultKinds
    PROVE  InstallAt(c)'
<1>1. CASE Return(c, r) \/ Return(c, "ok")
  BY <1>1, ReturnIdle DEF InstallAt
<1>2. CASE ~(Return(c, r) \/ Return(c, "ok"))
  <2> DEFINE b == BundleName[dev[c]]
  <2>1. op[c] = "sync" /\ dev[c] \in Devices
    BY <1>2 DEF TypeInv, CallOK, AfterWrite
  <2>2. b \in Names
    BY <2>1, NamesAssumption
  <2>3. /\ file[c] \in {BundlePath(b), SyncedPath(b), PidPath(b)}
        /\ file[c] # BundlePath(b) => disk[BundlePath(b)] = data[c]
        /\ data[c] \in CloudData /\ data[c].dev = dev[c] /\ data[c].rev <= revision
    BY <2>1 DEF InstallInv, InstallAt
  <2>4. PICK f \in {SyncedPath(b), PidPath(b)} :
              /\ GoOn(c, f)
              /\ f = SyncedPath(b) => file[c][1] = "pharos" /\ r = "ok"
              /\ f = PidPath(b) => file[c][1] = "synced"
    BY <1>2, <2>2, SyncFiles DEF AfterWrite
  <2>5. /\ pc'[c] = "open" /\ file'[c] = f /\ op' = op /\ dev' = dev
        /\ data' = data
    BY <2>4, GoOnAt
  <2> HIDE DEF b
  <2>6. disk'[BundlePath(b)] = data[c]
    BY <2>2, <2>3, <2>4, SyncFiles
  <2>7. f = PidPath(b) => file[c] = SyncedPath(b)
    BY <2>2, <2>3, <2>4, SyncFiles
  <2>8. f = PidPath(b) => Marked' \subseteq {b}
    <3> SUFFICES ASSUME f = PidPath(b)
                 PROVE  Marked' \subseteq {b}
      OBVIOUS
    <3>1. file[c][1] = "synced" /\ file[c][2] = b
      BY <2>2, <2>7, SyncFiles
    <3>2. Marked \subseteq {b}
      BY <2>1, <3>1 DEF MarkInv, PurgePrecedesMark
    <3> QED
      BY <3>1, <3>2
  <2>9. f = PidPath(b) /\ "write" \notin FaultKinds => disk'[SyncedPath(b)] = data[c]
    BY <2>7
  <2> QED
    BY <2>1, <2>2, <2>3, <2>4, <2>5, <2>6, <2>8, <2>9, SyncFiles DEF InstallAt, b
<1> QED
  BY <1>1, <1>2

\* Every step of calls that do not overlap preserves InstallInv.
LEMMA InstallNext ==
    ASSUME Orderly
    PROVE  TypeInv /\ MarkInv /\ InstallInv /\ [Next]_vars => InstallInv'
<1> SUFFICES ASSUME TypeInv, MarkInv, InstallInv, [Next]_vars
             PROVE  InstallInv'
  OBVIOUS
<1>0. /\ disk \in [Files -> Contents]
      /\ pc \in [Callers -> Points] /\ op \in [Callers -> Ops]
      /\ file \in [Callers -> Files \cup {NoFile}]
      /\ data \in [Callers -> Data] /\ linked \in [Callers -> BOOLEAN]
      /\ dev \in [Callers -> Devices \cup {NoDevice}]
      /\ todo \in [Callers -> SUBSET Files]
      /\ revision \in 0..MaxRev
  BY DEF TypeInv, TypeOK
<1>1. ASSUME NEW c \in Callers, Call(c)
      PROVE  InstallAt(c)'
  <2>1. ASSUME NEW d \in Devices, CallSync(c, d)
        PROVE  InstallAt(c)'
    BY <1>0, <2>1 DEF CallSync, Begin, InstallAt
  <2>2. CASE CallLogout(c)
    BY <1>0, <2>2 DEF CallLogout, Begin, InstallAt
  <2>3. ASSUME NEW n \in ImportNames, CallImport(c, n)
        PROVE  InstallAt(c)'
    BY <1>0, <2>3 DEF CallImport, Begin, InstallAt, ImportPaths
  <2>4. ASSUME NEW n \in Names, CallRemove(c, n)
        PROVE  InstallAt(c)'
    BY <1>0, <2>4 DEF CallRemove, Begin, InstallAt
  <2>5. CASE CallList(c)
    BY <1>0, <2>5 DEF CallList, Begin, InstallAt
  <2> QED
    BY <1>1, <2>1, <2>2, <2>3, <2>4, <2>5 DEF Call
<1>2. ASSUME NEW c \in Callers, Step(c)
      PROVE  InstallAt(c)'
  <2>0. InstallAt(c)
    BY DEF InstallInv
  <2>1. CASE FetchOk(c)
    <3>1. op[c] = "sync" /\ dev[c] \in Devices
      BY <2>1 DEF FetchOk, TypeInv, CallOK
    <3>2. /\ data'[c] = [origin |-> "cloud", dev |-> dev[c], rev |-> revision]
          /\ pc'[c] = "readdir" /\ op' = op /\ dev' = dev /\ revision' = revision
      BY <1>0, <2>1 DEF FetchOk
    <3>3. data'[c] \in CloudData /\ revision <= revision
      BY <1>0, <3>1, <3>2, BoundsAssumption DEF CloudData
    <3> QED
      BY <3>1, <3>2, <3>3 DEF InstallAt
  <2>2. CASE FetchFails(c)
    BY <2>2, ReturnIdle DEF FetchFails, InstallAt
  <2>3. CASE ReadDir(c)
    BY <1>0, <2>0, <2>3 DEF ReadDir, InstallAt, TypeInv, CallOK
  <2>4. CASE RemoveNext(c)
    BY <1>0, <2>0, <2>4 DEF RemoveNext, InstallAt, TypeInv, CallOK
  <2>5. CASE RemoveDone(c)
    BY <2>5, ReturnIdle DEF RemoveDone, InstallAt
  <2>6. CASE Wrap(c)
    <3>1. BundleName[dev[c]] \in Names
      BY <2>6, NamesAssumption DEF Wrap, TypeInv, CallOK
    <3> QED
      BY <1>0, <2>0, <2>6, <3>1, SyncFiles DEF Wrap, InstallAt
  <2>7. CASE Open(c)
    <3>1. /\ file[c] \in Files /\ op[c] \in {"sync", "import"}
          /\ op[c] = "sync" => dev[c] \in Devices
      BY <2>7 DEF Open, TypeInv, CallOK
    <3>2. /\ pc'[c] = "write" /\ linked'[c] /\ disk'[file[c]] = Torn
          /\ \A f \in Files : f # file[c] => disk'[f] = disk[f]
          /\ op' = op /\ dev' = dev /\ data' = data /\ file' = file
          /\ revision' = revision
      BY <1>0, <2>7, <3>1 DEF Open
    <3>3. CASE op[c] = "import"
      BY <2>0, <3>2, <3>3 DEF InstallAt
    <3>4. CASE op[c] = "sync"
      <4> DEFINE b == BundleName[dev[c]]
      <4>1. b \in Names
        BY <3>1, <3>4, NamesAssumption
      <4>2. file[c] = PidPath(b) => Marked' = Marked
        BY <2>7, <3>1, <4>1, SyncFiles, TouchedMarks DEF Open
      <4> QED
        BY <2>0, <2>7, <3>1, <3>2, <3>4, <4>1, <4>2, SyncFiles DEF InstallAt, Open
    <3> QED
      BY <3>1, <3>3, <3>4
  <2>8. CASE Write(c)
    <3>1. linked[c] /\ disk[file[c]] = Torn /\ file[c] \in Files
      BY <2>0, <2>8 DEF InstallAt, Write, TypeInv, CallOK
    <3>2. disk' = [disk EXCEPT ![file[c]] = data[c]]
      BY <2>8, <3>1 DEF Write
    <3>3. /\ disk'[file[c]] = data[c]
          /\ \A f \in Files : f # file[c] => disk'[f] = disk[f]
      BY <1>0, <3>1, <3>2
    <3>4. Marked' \subseteq Marked \cup {file[c][2]}
      BY <3>1, <3>2, TouchedMarks
    <3> QED
      BY <2>8, <3>3, <3>4, AfterWriteInstall DEF Write
  <2>9. CASE Glob(c)
    BY <1>0, <2>9 DEF Glob, InstallAt, TypeInv, CallOK
  <2>10. CASE ListRaw(c)
    BY <1>0, <2>10 DEF ListRaw, InstallAt, TypeInv, CallOK
  <2>11. CASE ListStat(c)
    BY <1>0, <2>11 DEF ListStat, InstallAt, TypeInv, CallOK
  <2>12. CASE ListDone(c)
    BY <2>12, ReturnIdle DEF ListDone, InstallAt
  <2> QED
    BY <1>2, <2>1, <2>2, <2>3, <2>4, <2>5, <2>6, <2>7, <2>8, <2>9, <2>10,
       <2>11, <2>12 DEF Step
<1>3. ASSUME NEW c \in Callers, Failure(c)
      PROVE  InstallAt(c)'
  <2>1. ~ReadDirFails(c) /\ ~RemoveFails(c)
    BY DEF Orderly, ReadDirFails, RemoveFails, Fault
  <2>2. CASE WrapFails(c) \/ Crash(c)
    BY <2>2, ReturnIdle DEF WrapFails, Crash, InstallAt
  <2>3. CASE OpenFails(c) \/ WriteFails(c)
    <3>1. /\ disk' = disk /\ revision' = revision /\ AfterWrite(c, "error")
          /\ "write" \in FaultKinds /\ pc[c] \in {"open", "write"}
      BY <2>3 DEF OpenFails, WriteFails, Fault
    <3>2. Marked' = Marked
      BY <3>1, SameMarks
    <3> QED
      BY <3>1, <3>2, AfterWriteInstall
  <2> QED
    BY <1>3, <2>1, <2>2, <2>3 DEF Failure
<1>4. CASE Publish
  <2>1. Marked' = Marked
    BY <1>4, SameMarks DEF Publish
  <2>2. \A c \in Callers : data[c] \in CloudData => data[c].rev \in Nat
    BY CloudApart
  <2> QED
    BY <1>0, <1>4, <2>1, <2>2 DEF Publish, callerVars, InstallInv, InstallAt
<1>5. ASSUME NEW n \in Names, Disable(n)
      PROVE  InstallInv'
  <2>1. <<"disabled", n>> \in Files
    BY DEF Files, Suffixes
  <2>2. Marked' = Marked
    BY <1>5, <2>1, TouchedMarks DEF Disable
  <2>3. \A f \in Files : f[1] # "disabled" => disk'[f] = disk[f]
    BY <1>0, <1>5 DEF Disable
  <2> SUFFICES ASSUME NEW c \in Callers
               PROVE  InstallAt(c)'
    BY DEF InstallInv
  <2>4. InstallAt(c)
    BY DEF InstallInv
  <2>5. op[c] = "sync" => BundleName[dev[c]] \in Names
    BY NamesAssumption DEF TypeInv, CallOK
  <2>6. pc[c] = "write" => file[c] \in Files /\ file[c][1] # "disabled"
    BY <2>4, <2>5, SyncFiles DEF InstallAt, TypeInv, CallOK
  <2>7. pc[c] = "write" => disk'[file[c]] = disk[file[c]]
    BY <2>3, <2>6
  <2>8. op[c] = "sync" => LET b == BundleName[dev[c]]
                          IN  /\ disk'[BundlePath(b)] = disk[BundlePath(b)]
                              /\ disk'[SyncedPath(b)] = disk[SyncedPath(b)]
    BY <2>3, <2>5, SyncFiles
  <2> QED
    BY <1>5, <2>2, <2>4, <2>7, <2>8 DEF Disable, callerVars, InstallAt
<1>6. CASE UNCHANGED vars
  BY <1>6, SameMarks DEF vars, callerVars, InstallInv, InstallAt
<1>7. ASSUME NEW c \in Callers, Call(c) \/ Step(c) \/ Failure(c)
      PROVE  InstallInv'
  <2>1. \A k \in Callers : k # c => pc'[k] = "idle" /\ op'[k] = "none"
    BY <1>7, OthersIdle
  <2>2. \A k \in Callers : k # c => InstallAt(k)'
    BY <2>1 DEF InstallAt
  <2> QED
    BY <1>1, <1>2, <1>3, <1>7, <2>2 DEF InstallInv
<1> QED
  BY <1>4, <1>5, <1>6, <1>7 DEF Next

OrderInv == TypeInv /\ MarkInv /\ InstallInv

\* OrderInv holds in every reachable state.
LEMMA OrderInvariant ==
    ASSUME Orderly
    PROVE  Spec => []OrderInv
<1>1. Init => OrderInv
  BY TypeInit, MarkInit, InstallInit DEF OrderInv
<1>2. OrderInv /\ [Next]_vars => OrderInv'
  BY TypeNext, MarkNext, InstallNext DEF OrderInv
<1> QED
  BY <1>1, <1>2, PTL DEF Spec

-----------------------------------------------------------------------------
(* What a sync has done when it returns. *)

\* Only the write of the identity lets a sync return with success, if no write
\* fails.
LEMMA SyncReturn ==
    ASSUME Orderly, "write" \notin FaultKinds, OrderInv, [Next]_vars,
           NEW c \in Callers, Returns(c, "sync")
    PROVE  /\ Write(c) /\ dev[c] \in Devices
           /\ file[c] = PidPath(BundleName[dev[c]])
           /\ disk' = [disk EXCEPT ![file[c]] = data[c]]
<1>0. /\ TypeInv /\ MarkInv /\ InstallAt(c)
      /\ op[c] = "sync" /\ pc[c] # "idle" /\ pc'[c] = "idle" /\ result'[c] = "ok"
  BY DEF OrderInv, InstallInv, Returns, Idle
<1>1. /\ pc \in [Callers -> Points] /\ result \in [Callers -> {"none", "ok", "error"}]
      /\ dev[c] \in Devices
  BY <1>0 DEF TypeInv, TypeOK, CallOK
<1>2. ~Publish /\ ~UNCHANGED vars /\ \A n \in Names : ~Disable(n)
  BY <1>0 DEF Publish, Disable, vars, callerVars
<1>3. \A k \in Callers : Call(k) \/ Step(k) \/ Failure(k) => k = c
  BY <1>0, OthersStay
<1>4. Call(c) \/ Step(c) \/ Failure(c)
  BY <1>2, <1>3 DEF Next
<1>5. ~Call(c)
  BY <1>0 DEF Call, CallSync, CallLogout, CallImport, CallRemove, CallList, Begin,
     MayCall, Idle
<1>6. ~Failure(c)
  BY <1>0, <1>1 DEF Failure, ReadDirFails, RemoveFails, WrapFails, OpenFails,
     WriteFails, Crash, Return, Fault
<1>7. Write(c)
  BY <1>0, <1>1, <1>4, <1>5, <1>6 DEF Step, FetchOk, FetchFails, ReadDir,
     RemoveNext, RemoveDone, Wrap, Open, Glob, ListRaw, ListStat, ListDone, Return,
     TypeInv, CallOK
<1>8. BundleName[dev[c]] \in Names
  BY <1>1, NamesAssumption
<1>9. file[c] = PidPath(BundleName[dev[c]])
  <2>1. file[c] \in {BundlePath(BundleName[dev[c]]), SyncedPath(BundleName[dev[c]]),
                     PidPath(BundleName[dev[c]])}
    BY <1>0, <1>7 DEF InstallAt, Write
  <2>2. file[c][1] = "pharosid"
    BY <1>0, <1>1, <1>7 DEF Write, AfterWrite, GoOn
  <2> QED
    BY <1>8, <2>1, <2>2, SyncFiles
<1>10. disk' = [disk EXCEPT ![file[c]] = data[c]]
  BY <1>0, <1>7 DEF Write, InstallAt
<1> QED
  BY <1>1, <1>7, <1>9, <1>10

\* That write completes what the sync installs.
LEMMA SyncReturnInstalls ==
    ASSUME Orderly, "write" \notin FaultKinds, OrderInv, [Next]_vars,
           NEW c \in Callers, Returns(c, "sync")
    PROVE  /\ Installed(disk', dev[c], data[c])
           /\ Marked' = {BundleName[dev[c]]}
           /\ data[c] \in CloudData /\ data[c].dev = dev[c]
<1> DEFINE b == BundleName[dev[c]]
<1>1. /\ Write(c) /\ dev[c] \in Devices /\ file[c] = PidPath(b)
      /\ disk' = [disk EXCEPT ![file[c]] = data[c]]
  BY SyncReturn
<1>2. b \in Names
  BY <1>1, NamesAssumption
<1>3. /\ disk[BundlePath(b)] = data[c] /\ disk[SyncedPath(b)] = data[c]
      /\ data[c] \in CloudData /\ Marked \subseteq {b} /\ data[c].dev = dev[c]
  BY <1>1, <1>2, SyncFiles DEF OrderInv, InstallInv, InstallAt, Returns, Write
<1>4. Marked' = Marked
  BY <1>1, <1>2, SyncFiles, TouchedMarks DEF OrderInv
<1>5. b \in Marked
  BY <1>2, <1>3, CloudApart DEF Marked, IsCloud, Exists
<1>6. disk \in [Files -> Contents]
  BY DEF OrderInv, TypeInv, TypeOK
<1> QED
  BY <1>1, <1>2, <1>3, <1>4, <1>5, <1>6, SyncFiles DEF Installed

\* SyncInstalls holds for calls that do not overlap when writes and removals do not
\* fail, through any crashes and malformed profiles: a sync that returns success
\* has installed the bundle, marker and identity of the revision it fetched, and
\* its marker is the only one.
THEOREM SyncInstallsWhole ==
    ASSUME Orderly, "write" \notin FaultKinds
    PROVE  Spec => SyncInstalls
<1>1. OrderInv /\ [Next]_vars =>
         [\A c \in Callers : Returns(c, "sync") =>
             Installed(disk', dev[c], data[c]) /\ Marked' = {BundleName[dev[c]]}]_vars
  BY SyncReturnInstalls
<1> QED
  BY <1>1, OrderInvariant, PTL DEF Spec, SyncInstalls

-----------------------------------------------------------------------------
(* The directory implements the abstract account store. *)

\* The state functions of the refinement mapping.
AccountSlot == {disk[BundlePath(n)] : n \in {m \in Marked : Complete(BundlePath(m))}}
StatusSlot == {disk[SyncedPath(n)] : n \in {m \in Marked : /\ Complete(BundlePath(m))
                                                         /\ Complete(SyncedPath(m))}}
ImportedPlaces == {p \in {BundlePath(n) : n \in ImportNames} : disk[p] = ImportData}
Running == {op[c] : c \in Callers} \ {"none"}

\* What the refinement rests on.
ViewInv == OrderInv /\ ImportInv

\* Without a marker the slot is empty.
LEMMA NoSlot ==
    ASSUME Marked = {}
    PROVE  AccountSlot = {} /\ StatusSlot = {}
  BY DEF AccountSlot, StatusSlot

\* The one marker there is at most decides what the slot holds.
LEMMA SlotBound ==
    ASSUME OneMarked, AccountSlot # {}
    PROVE  \E b \in Names : Marked = {b} /\ Complete(BundlePath(b))
  BY DEF OneMarked, AccountSlot, Marked

\* A file that is no marker and no marked bundle does not show in the slot.
LEMMA SlotStays ==
    ASSUME TypeInv, NEW f \in Files, NEW x, disk' = [disk EXCEPT ![f] = x],
           f[1] # "synced", \A n \in Marked : f # BundlePath(n)
    PROVE  AccountSlot' = AccountSlot /\ StatusSlot' = StatusSlot
<1>1. disk \in [Files -> Contents] /\ Marked \subseteq Names
  BY DEF TypeInv, TypeOK, Marked
<1>2. Marked' = Marked
  BY TouchedMarks
<1>3. \A n \in Marked : /\ disk'[BundlePath(n)] = disk[BundlePath(n)]
                        /\ disk'[SyncedPath(n)] = disk[SyncedPath(n)]
  BY <1>1, SyncFiles
<1> QED
  BY <1>2, <1>3 DEF AccountSlot, StatusSlot, Complete

\* No marked name has its bundle where imports put theirs.
LEMMA MarkedApart ==
    ASSUME NamesApart, ImportInv, NEW n \in Marked
    PROVE  BundlePath(n) \notin ImportPaths
<1>1. n \in SyncNames
  BY DEF ImportInv, MarkersFromSyncs, Marked
<1>2. Stem[n] \in CloudNames
  BY <1>1 DEF SyncNames, CloudNames
<1> QED
  BY <1>2 DEF NamesApart, ImportPaths, BundlePath

\* What a step does to the directory: nothing, a file less, the file the running
\* call opens torn, the complete text of the one it has open, or the desktop's flag.
LEMMA DiskStep ==
    ASSUME OrderInv, [Next]_vars
    PROVE  \/ /\ disk' = disk
              /\ revision' = revision \/ revision' = revision + 1
           \/ /\ revision' = revision
              /\ \E f \in Files : disk' = [disk EXCEPT ![f] = NoFile]
           \/ /\ revision' = revision
              /\ \E c \in Callers : /\ pc[c] = "open"
                                    /\ disk' = [disk EXCEPT ![file[c]] = Torn]
           \/ /\ revision' = revision
              /\ \E c \in Callers : /\ pc[c] = "write"
                                    /\ disk' = [disk EXCEPT ![file[c]] = data[c]]
           \/ /\ revision' = revision
              /\ \E n \in Names : disk' = [disk EXCEPT ![<<"disabled", n>>] = FlagData]
<1>0. TypeInv /\ MarkInv /\ InstallInv
  BY DEF OrderInv
<1>1. ASSUME NEW c \in Callers, Call(c)
      PROVE  disk' = disk /\ revision' = revision
  BY <1>1 DEF Call, CallSync, CallLogout, CallImport, CallRemove, CallList
<1>2. ASSUME NEW c \in Callers, Failure(c)
      PROVE  disk' = disk /\ revision' = revision
  BY <1>2 DEF Failure, ReadDirFails, RemoveFails, WrapFails, OpenFails, WriteFails,
     Crash
<1>3. ASSUME NEW c \in Callers, RemoveNext(c)
      PROVE  /\ revision' = revision
             /\ \E f \in Files : disk' = [disk EXCEPT ![f] = NoFile]
  <2>1. FirstOf(todo[c]) \in Files
    BY <1>0, <1>3, FirstOfMember DEF RemoveNext, TypeInv, TypeOK
  <2> QED
    BY <1>3, <2>1 DEF RemoveNext, Unlink
<1>4. ASSUME NEW c \in Callers, Open(c)
      PROVE  /\ revision' = revision /\ pc[c] = "open"
             /\ disk' = [disk EXCEPT ![file[c]] = Torn]
  BY <1>4 DEF Open
<1>5. ASSUME NEW c \in Callers, Write(c)
      PROVE  /\ revision' = revision /\ pc[c] = "write"
             /\ disk' = [disk EXCEPT ![file[c]] = data[c]]
  BY <1>0, <1>5 DEF Write, InstallInv, InstallAt
<1>6. ASSUME NEW c \in Callers, Step(c), ~RemoveNext(c), ~Open(c), ~Write(c)
      PROVE  disk' = disk /\ revision' = revision
  BY <1>6 DEF Step, FetchOk, FetchFails, ReadDir, RemoveDone, Wrap, Glob, ListRaw,
     ListStat, ListDone
<1>7. CASE Publish
  BY <1>7 DEF Publish
<1>8. ASSUME NEW n \in Names, Disable(n)
      PROVE  revision' = revision /\ disk' = [disk EXCEPT ![<<"disabled", n>>] = FlagData]
  BY <1>8 DEF Disable
<1>9. CASE UNCHANGED vars
  BY <1>9 DEF vars
<1> QED
  BY <1>1, <1>2, <1>3, <1>4, <1>5, <1>6, <1>7, <1>8, <1>9 DEF Next

\* A removal takes with it the bundle the file belonged to: the account's, or, in
\* an rm, an imported one; and nothing else.
LEMMA RemoveRefines ==
    ASSUME NamesApart, ViewInv, NEW c \in Callers, RemoveNext(c)
    PROVE  [Account!Next]_(Account!vars)
<1> DEFINE f == FirstOf(todo[c])
<1>0. /\ TypeInv /\ OneMarked /\ ImportInv
      /\ disk \in [Files -> Contents]
  BY DEF ViewInv, OrderInv, TypeInv, TypeOK, MarkInv
<1>1. f \in todo[c] /\ f \in Files
  BY <1>0, FirstOfMember DEF RemoveNext, TypeInv, TypeOK
<1>2. /\ disk' = [disk EXCEPT ![f] = NoFile]
      /\ revision' = revision /\ op' = op
      /\ op[c] \in {"sync", "logout", "rm"}
  BY <1>0 DEF RemoveNext, Unlink, TypeInv, CallOK
<1> HIDE DEF f
<1>3. Running' = Running /\ op[c] \in Running
  BY <1>2 DEF Running
<1>4. \A g \in Files : disk'[g] = IF g = f THEN NoFile ELSE disk[g]
  BY <1>0, <1>1, <1>2
<1>5. ImportedPlaces' = ImportedPlaces \ {f}
  <2>1. \A n \in ImportNames : BundlePath(n) \in Files
    BY PathType, NamesAssumption
  <2> QED
    BY <1>4, <2>1, DataApart DEF ImportedPlaces
<1>6. CASE f \in ImportedPlaces
  <2>1. f \in ImportPaths /\ f[1] = "pharos"
    BY <1>6 DEF ImportedPlaces, ImportPaths, BundlePath
  <2>2. AccountSlot' = AccountSlot /\ StatusSlot' = StatusSlot
    BY <1>0, <1>1, <1>2, <2>1, SlotStays, MarkedApart
  <2>3. op[c] = "rm"
    <3>1. f[2] \notin SyncNames
      BY <2>1 DEF ImportPaths, BundlePath, NamesApart, CloudNames, SyncNames
    <3> QED
      BY <1>0, <1>1, <1>2, <3>1 DEF ImportInv, MarkersFromSyncs
  <2>4. PICK p \in {BundlePath(n) : n \in ImportNames} : p = f
    BY <1>6 DEF ImportedPlaces
  <2>5. Account!Drop(p)
    BY <1>2, <1>3, <1>5, <1>6, <2>2, <2>3, <2>4
       DEF Account!Drop, AccountSlot, StatusSlot, ImportedPlaces, Running
  <2> QED
    BY <2>4, <2>5 DEF Account!Next
<1>7. CASE f \notin ImportedPlaces
  <2>1. ImportedPlaces' = ImportedPlaces
    BY <1>5, <1>7
  <2>2. Marked' = {n \in Marked : SyncedPath(n) # f}
    BY <1>0, <1>1, <1>2, TouchedMarks
  <2>3. CASE AccountSlot = {}
    <3>1. \A n \in Marked : ~Complete(BundlePath(n))
      BY <2>3 DEF AccountSlot
    <3>2. \A n \in Marked' : n \in Marked /\ BundlePath(n) \in Files
      BY <2>2, PathType DEF Marked
    <3>3. \A n \in Marked' : ~(Complete(BundlePath(n))')
      BY <1>4, <3>1, <3>2 DEF Complete
    <3>4. AccountSlot' = {} /\ StatusSlot' = {} /\ StatusSlot = {}
      BY <3>1, <3>3 DEF AccountSlot, StatusSlot
    <3> QED
      BY <1>2, <1>3, <2>1, <2>3, <3>4
         DEF Account!vars, AccountSlot, StatusSlot, ImportedPlaces, Running
  <2>4. CASE AccountSlot # {}
    <3>1. PICK b \in Names : Marked = {b} /\ Complete(BundlePath(b))
      BY <1>0, <2>4, SlotBound
    <3>2. CASE f = BundlePath(b) \/ f = SyncedPath(b)
      <4>1. \A n \in Marked' : ~(Complete(BundlePath(n))')
        BY <1>4, <2>2, <3>1, <3>2, SyncFiles DEF Complete
      <4>2. AccountSlot' = {} /\ StatusSlot' = {}
        BY <4>1 DEF AccountSlot, StatusSlot
      <4>3. Account!Forget
        BY <1>2, <1>3, <2>1, <2>4, <4>2
           DEF Account!Forget, AccountSlot, StatusSlot, ImportedPlaces, Running
      <4> QED
        BY <4>3 DEF Account!Next
    <3>3. CASE f # BundlePath(b) /\ f # SyncedPath(b)
      <4>1. Marked' = Marked
        BY <2>2, <3>1, <3>3
      <4>2. /\ disk'[BundlePath(b)] = disk[BundlePath(b)]
            /\ disk'[SyncedPath(b)] = disk[SyncedPath(b)]
        BY <1>4, <3>1, <3>3, SyncFiles
      <4>3. AccountSlot' = AccountSlot /\ StatusSlot' = StatusSlot
        BY <3>1, <4>1, <4>2 DEF AccountSlot, StatusSlot, Complete
      <4> QED
        BY <1>2, <1>3, <2>1, <4>3
           DEF Account!vars, AccountSlot, StatusSlot, ImportedPlaces, Running
    <3> QED
      BY <3>2, <3>3
  <2> QED
    BY <2>3, <2>4
<1> QED
  BY <1>6, <1>7

\* What is known of the file a sync has open or is about to open.
LEMMA SyncWrites ==
    ASSUME NamesApart, ViewInv, NEW c \in Callers, op[c] = "sync",
           pc[c] \in {"open", "write"}
    PROVE  LET b == BundleName[dev[c]]
           IN  /\ b \in Names
               /\ file[c] \in {BundlePath(b), SyncedPath(b), PidPath(b)}
               /\ file[c] \notin ImportPaths
               /\ data[c] \in CloudData /\ data[c].rev <= revision
               /\ file[c] # BundlePath(b) => disk[BundlePath(b)] = data[c]
               /\ file[c] = BundlePath(b) => Marked = {}
               /\ (file[c] = SyncedPath(b) /\ pc[c] = "open") => Marked = {}
               /\ (file[c] = SyncedPath(b) /\ pc[c] = "write") => Marked \subseteq {b}
               /\ pc[c] = "write" => disk[file[c]] = Torn
<1> DEFINE b == BundleName[dev[c]]
<1>1. dev[c] \in Devices /\ b \in Names
  BY NamesAssumption DEF ViewInv, OrderInv, TypeInv, CallOK
<1>2. InstallAt(c)
  BY DEF ViewInv, OrderInv, InstallInv
<1>3. /\ file[c] \in {BundlePath(b), SyncedPath(b), PidPath(b)}
      /\ data[c] \in CloudData /\ data[c].rev <= revision
      /\ file[c] # BundlePath(b) => disk[BundlePath(b)] = data[c]
      /\ pc[c] = "write" => disk[file[c]] = Torn
  BY <1>2 DEF InstallAt
<1>4. /\ file[c] = BundlePath(b) => file[c][1] = "pharos"
      /\ file[c] = SyncedPath(b) => file[c][1] = "synced" /\ file[c][2] = b
      /\ file[c] = PidPath(b) => file[c][1] = "pharosid"
  BY <1>1, SyncFiles
<1>5. /\ file[c] = BundlePath(b) => Marked = {}
      /\ (file[c] = SyncedPath(b) /\ pc[c] = "open") => Marked = {}
      /\ (file[c] = SyncedPath(b) /\ pc[c] = "write") => Marked \subseteq {b}
  BY <1>4 DEF ViewInv, OrderInv, MarkInv, PurgePrecedesMark
<1>6. file[c] \notin ImportPaths
  <2>1. \A p \in ImportPaths : p[1] = "pharos" /\ p[2] \notin CloudNames
    BY DEF ImportPaths, BundlePath, NamesApart
  <2>2. Stem[b] \in CloudNames
    BY <1>1 DEF CloudNames
  <2> QED
    BY <1>1, <1>3, <1>4, <2>1, <2>2, SyncFiles
<1> QED
  BY <1>1, <1>3, <1>5, <1>6

\* Opening the marker of a complete bundle makes it the account's; opening an
\* imported bundle takes it away until it is written; nothing else shows.
LEMMA OpenRefines ==
    ASSUME NamesApart, ViewInv, NEW c \in Callers, Open(c)
    PROVE  [Account!Next]_(Account!vars)
<1>0. /\ TypeInv /\ OneMarked /\ ImportInv
      /\ disk \in [Files -> Contents] /\ file[c] \in Files
      /\ op[c] \in {"sync", "import"}
      /\ op[c] = "import" => file[c] \in ImportPaths
  BY DEF ViewInv, OrderInv, TypeInv, TypeOK, MarkInv, CallOK, InstallInv, InstallAt, Open
<1>1. /\ disk' = [disk EXCEPT ![file[c]] = Torn]
      /\ revision' = revision /\ op' = op /\ pc[c] = "open"
  BY DEF Open
<1>2. Running' = Running /\ op[c] \in Running
  BY <1>0, <1>1 DEF Running
<1>3. \A g \in Files : disk'[g] = IF g = file[c] THEN Torn ELSE disk[g]
  BY <1>0, <1>1
<1>4. ImportedPlaces' = ImportedPlaces \ {file[c]}
  <2>1. \A n \in ImportNames : BundlePath(n) \in Files
    BY PathType, NamesAssumption
  <2> QED
    BY <1>3, <2>1, DataApart DEF ImportedPlaces
<1>5. CASE op[c] = "import"
  <2>1. file[c] \in ImportPaths /\ file[c][1] = "pharos"
    BY <1>0, <1>5 DEF ImportPaths, BundlePath
  <2>2. AccountSlot' = AccountSlot /\ StatusSlot' = StatusSlot
    BY <1>0, <1>1, <2>1, SlotStays, MarkedApart
  <2>3. PICK p \in {BundlePath(n) : n \in ImportNames} : p = file[c]
    BY <2>1 DEF ImportPaths
  <2>4. CASE p \in ImportedPlaces
    <3>1. Account!Drop(p)
      BY <1>1, <1>2, <1>4, <1>5, <2>2, <2>3, <2>4
         DEF Account!Drop, AccountSlot, StatusSlot, ImportedPlaces, Running
    <3> QED
      BY <3>1 DEF Account!Next
  <2>5. CASE p \notin ImportedPlaces
    BY <1>1, <1>2, <1>4, <2>2, <2>3, <2>5
       DEF Account!vars, AccountSlot, StatusSlot, ImportedPlaces, Running
  <2> QED
    BY <2>4, <2>5
<1>6. CASE op[c] = "sync"
  <2> DEFINE b == BundleName[dev[c]]
  <2>1. /\ b \in Names /\ file[c] \in {BundlePath(b), SyncedPath(b), PidPath(b)}
        /\ file[c] \notin ImportPaths
        /\ data[c] \in CloudData /\ data[c].rev <= revision
        /\ file[c] # BundlePath(b) => disk[BundlePath(b)] = data[c]
        /\ file[c] = BundlePath(b) => Marked = {}
        /\ file[c] = SyncedPath(b) => Marked = {}
    BY <1>1, <1>6, SyncWrites
  <2> HIDE DEF b
  <2>2. ImportedPlaces' = ImportedPlaces
    BY <1>4, <2>1 DEF ImportedPlaces, ImportPaths
  <2>3. CASE file[c] # SyncedPath(b)
    <3>1. file[c][1] # "synced" /\ \A n \in Marked : file[c] # BundlePath(n)
      <4>1. \A n \in Marked : BundlePath(n)[1] = "pharos"
        BY DEF BundlePath
      <4> QED
        BY <2>1, <2>3, <4>1, SyncFiles
    <3>2. AccountSlot' = AccountSlot /\ StatusSlot' = StatusSlot
      BY <1>0, <1>1, <3>1, SlotStays
    <3> QED
      BY <1>1, <1>2, <2>2, <3>2
         DEF Account!vars, AccountSlot, StatusSlot, ImportedPlaces, Running
  <2>4. CASE file[c] = SyncedPath(b)
    <3>1. /\ SyncedPath(b) \in Files /\ BundlePath(b) \in Files
          /\ BundlePath(b) # SyncedPath(b)
      BY <2>1, SyncFiles
    <3>2. /\ disk'[SyncedPath(b)] = Torn /\ disk'[BundlePath(b)] = data[c]
          /\ AccountSlot = {} /\ StatusSlot = {}
      BY <1>3, <2>1, <2>4, <3>1, NoSlot
    <3>3. Marked' = {b}
      <4>0. file[c][1] = "synced" /\ file[c][2] = b
        BY <2>1, <2>4, SyncFiles
      <4>1. Marked' \subseteq {b}
        <5>1. Marked' \subseteq Marked \cup {file[c][2]}
          BY <1>0, <1>1, <4>0, TouchedMarks
        <5> QED
          BY <2>1, <2>4, <4>0, <5>1
      <4>2. Torn # NoFile
        BY ContentsAssumption
      <4>3. b \in Marked'
        BY <2>1, <3>2, <4>2 DEF Marked, IsCloud, Exists
      <4> QED
        BY <4>1, <4>3
    <3>4. data[c] \notin {NoFile, Torn}
      BY <2>1, CloudApart
    <3>5. AccountSlot' = {data[c]} /\ StatusSlot' = {}
      BY <3>2, <3>3, <3>4 DEF AccountSlot, StatusSlot, Complete
    <3>6. PICK x \in CloudData : x = data[c]
      BY <2>1
    <3>7. Account!Install(x)
      BY <1>1, <1>2, <1>6, <2>1, <2>2, <3>2, <3>5, <3>6
         DEF Account!Install, AccountSlot, StatusSlot, ImportedPlaces, Running
    <3> QED
      BY <3>7 DEF Account!Next
  <2> QED
    BY <2>3, <2>4
<1> QED
  BY <1>0, <1>5, <1>6

\* Completing the marker records the bundle beside it, completing an import adds
\* it; the bundle and the identity of a sync do not show, but its return does.
LEMMA WriteRefines ==
    ASSUME NamesApart, ViewInv, NEW c \in Callers, Write(c), TypeInv'
    PROVE  [Account!Next]_(Account!vars)
<1>0. /\ TypeInv /\ OneMarked /\ ImportInv
      /\ disk \in [Files -> Contents] /\ file[c] \in Files
      /\ op \in [Callers -> Ops]
      /\ op[c] \in {"sync", "import"} /\ disk[file[c]] = Torn
      /\ op[c] = "import" => data[c] = ImportData /\ file[c] \in ImportPaths
  BY DEF ViewInv, OrderInv, TypeInv, TypeOK, MarkInv, CallOK, InstallInv, InstallAt, Write
<1>1. /\ disk' = [disk EXCEPT ![file[c]] = data[c]]
      /\ revision' = revision /\ pc[c] = "write"
      /\ op' = op \/ op' = [op EXCEPT ![c] = "none"]
  <2>1. disk' = [disk EXCEPT ![file[c]] = data[c]] /\ revision' = revision /\ pc[c] = "write"
    BY DEF Write, ViewInv, OrderInv, InstallInv, InstallAt
  <2>2. op' = op \/ op' = [op EXCEPT ![c] = "none"]
    BY DEF Write, AfterWrite, GoOn, Return
  <2> QED
    BY <2>1, <2>2
<1>2. Running' \subseteq Running /\ op[c] \in Running /\ Running' \subseteq Ops \ {"none"}
  BY <1>0, <1>1 DEF Running
<1>3. \A g \in Files : disk'[g] = IF g = file[c] THEN data[c] ELSE disk[g]
  BY <1>0, <1>1
<1>4. \A n \in ImportNames : BundlePath(n) \in Files
  BY PathType, NamesAssumption
<1>5. CASE op[c] = "import"
  <2>1. file[c] \in ImportPaths /\ file[c][1] = "pharos" /\ data[c] = ImportData
    BY <1>0, <1>5 DEF ImportPaths, BundlePath
  <2>2. AccountSlot' = AccountSlot /\ StatusSlot' = StatusSlot
    BY <1>0, <1>1, <2>1, SlotStays, MarkedApart
  <2>3. PICK p \in {BundlePath(n) : n \in ImportNames} : p = file[c]
    BY <2>1 DEF ImportPaths
  <2>4. p \notin ImportedPlaces
    BY <1>0, <2>3, DataApart DEF ImportedPlaces
  <2>5. ImportedPlaces' = ImportedPlaces \cup {p}
    BY <1>3, <1>4, <2>1, <2>3 DEF ImportedPlaces
  <2>6. Account!Import(p)
    BY <1>1, <1>2, <1>5, <2>2, <2>4, <2>5
       DEF Account!Import, AccountSlot, StatusSlot, ImportedPlaces, Running
  <2> QED
    BY <2>6 DEF Account!Next
<1>6. CASE op[c] = "sync"
  <2> DEFINE b == BundleName[dev[c]]
  <2>1. /\ b \in Names /\ file[c] \in {BundlePath(b), SyncedPath(b), PidPath(b)}
        /\ file[c] \notin ImportPaths
        /\ data[c] \in CloudData
        /\ file[c] # BundlePath(b) => disk[BundlePath(b)] = data[c]
        /\ file[c] = BundlePath(b) => Marked = {}
        /\ file[c] = SyncedPath(b) => Marked \subseteq {b}
        /\ file[c] = SyncedPath(b) => op' = op
    <3>1. file[c] = SyncedPath(BundleName[dev[c]]) => op' = op
      BY DEF Write, AfterWrite, GoOn, SyncedPath
    <3> QED
      BY <1>1, <1>6, <3>1, SyncWrites
  <2> HIDE DEF b
  <2>2. ImportedPlaces' = ImportedPlaces
    BY <1>3, <1>4, <2>1 DEF ImportedPlaces, ImportPaths
  <2>3. CASE file[c] # SyncedPath(b)
    <3>1. file[c][1] # "synced" /\ \A n \in Marked : file[c] # BundlePath(n)
      <4>1. \A n \in Marked : BundlePath(n)[1] = "pharos"
        BY DEF BundlePath
      <4> QED
        BY <2>1, <2>3, <4>1, SyncFiles
    <3>2. AccountSlot' = AccountSlot /\ StatusSlot' = StatusSlot
      BY <1>0, <1>1, <3>1, SlotStays
    <3>3. Account!Turn
      BY <1>1, <1>2, <2>2, <3>2
         DEF Account!Turn, AccountSlot, StatusSlot, ImportedPlaces, Running
    <3> QED
      BY <3>3 DEF Account!Next
  <2>4. CASE file[c] = SyncedPath(b)
    <3>1. /\ SyncedPath(b) \in Files /\ BundlePath(b) \in Files
          /\ BundlePath(b) # SyncedPath(b)
      BY <2>1, SyncFiles
    <3>2. /\ data[c] \notin {NoFile, Torn} /\ Torn # NoFile
          /\ disk[SyncedPath(b)] = Torn /\ disk[BundlePath(b)] = data[c]
          /\ disk'[SyncedPath(b)] = data[c] /\ disk'[BundlePath(b)] = data[c]
      BY <1>0, <1>3, <2>1, <2>4, <3>1, CloudApart, ContentsAssumption
    <3>3. Marked = {b}
      BY <2>1, <2>4, <3>2 DEF Marked, IsCloud, Exists
    <3>4. Marked' = {b}
      <4>0. file[c][1] = "synced" /\ file[c][2] = b
        BY <2>1, <2>4, SyncFiles
      <4>1. Marked' \subseteq Marked \cup {b}
        BY <1>0, <1>1, <4>0, TouchedMarks
      <4>2. b \in Marked'
        BY <2>1, <3>2 DEF Marked, IsCloud, Exists
      <4> QED
        BY <3>3, <4>1, <4>2
    <3>5. AccountSlot = {data[c]} /\ AccountSlot' = {data[c]} /\ StatusSlot' = {data[c]}
      BY <3>2, <3>3, <3>4 DEF AccountSlot, StatusSlot, Complete
    <3>6. Running' = Running
      BY <2>1, <2>4 DEF Running
    <3>7. Account!Record
      BY <1>1, <1>2, <1>6, <2>2, <3>5, <3>6
         DEF Account!Record, AccountSlot, StatusSlot, ImportedPlaces, Running
    <3> QED
      BY <3>7 DEF Account!Next
  <2> QED
    BY <2>3, <2>4
<1> QED
  BY <1>0, <1>5, <1>6

\* Every other step leaves the directory alone, apart from the desktop's flag.
LEMMA OtherRefines ==
    ASSUME ViewInv, [Next]_vars, TypeInv',
           \A c \in Callers : ~RemoveNext(c) /\ ~Open(c) /\ ~Write(c)
    PROVE  [Account!Next]_(Account!vars)
<1>0. TypeInv /\ op \in [Callers -> Ops] /\ op' \in [Callers -> Ops]
  BY DEF ViewInv, OrderInv, TypeInv, TypeOK
<1>1. Running' \subseteq Ops \ {"none"}
  BY <1>0 DEF Running
<1>2. CASE disk' = disk /\ revision' = revision
  <2>1. /\ AccountSlot' = AccountSlot /\ StatusSlot' = StatusSlot
        /\ ImportedPlaces' = ImportedPlaces
    BY <1>2 DEF AccountSlot, StatusSlot, ImportedPlaces, Marked, IsCloud, Exists, Complete
  <2>2. Account!Turn
    BY <1>1, <1>2, <2>1
       DEF Account!Turn, AccountSlot, StatusSlot, ImportedPlaces, Running
  <2> QED
    BY <2>2 DEF Account!Next
<1>3. CASE Publish
  <2>1. disk' = disk /\ revision' = revision + 1 /\ op' = op
    BY <1>3 DEF Publish, callerVars
  <2>2. /\ AccountSlot' = AccountSlot /\ StatusSlot' = StatusSlot
        /\ ImportedPlaces' = ImportedPlaces /\ Running' = Running
    BY <2>1 DEF AccountSlot, StatusSlot, ImportedPlaces, Marked, IsCloud, Exists,
       Complete, Running
  <2>3. Account!Publish
    BY <2>1, <2>2
       DEF Account!Publish, AccountSlot, StatusSlot, ImportedPlaces, Running
  <2> QED
    BY <2>3 DEF Account!Next
<1>4. ASSUME NEW n \in Names, Disable(n)
      PROVE  [Account!Next]_(Account!vars)
  <2> DEFINE f == <<"disabled", n>>
  <2>1. /\ disk' = [disk EXCEPT ![f] = FlagData] /\ revision' = revision /\ op' = op
        /\ f \in Files /\ f[1] = "disabled"
    BY <1>4 DEF Disable, callerVars, Files, Suffixes
  <2> HIDE DEF f
  <2>2. \A m \in Names : BundlePath(m) \in Files /\ BundlePath(m)[1] = "pharos"
    BY SyncFiles
  <2>3. AccountSlot' = AccountSlot /\ StatusSlot' = StatusSlot
    <3>1. \A m \in Marked : f # BundlePath(m)
      BY <2>1, <2>2 DEF Marked
    <3> QED
      BY <1>0, <2>1, <3>1, SlotStays
  <2>4. disk \in [Files -> Contents]
    BY <1>0 DEF TypeInv, TypeOK
  <2>5. ImportedPlaces' = ImportedPlaces
    BY <2>1, <2>2, <2>4, NamesAssumption DEF ImportedPlaces
  <2> QED
    BY <2>1, <2>3, <2>5 DEF Account!vars, AccountSlot, StatusSlot, ImportedPlaces
<1>5. ASSUME NEW c \in Callers, Call(c) \/ Step(c) \/ Failure(c)
      PROVE  disk' = disk /\ revision' = revision
  <2>1. CASE Call(c)
    BY <2>1 DEF Call, CallSync, CallLogout, CallImport, CallRemove, CallList
  <2>2. CASE Step(c)
    BY <2>2 DEF Step, FetchOk, FetchFails, ReadDir, RemoveDone, Wrap, Glob, ListRaw,
       ListStat, ListDone
  <2>3. CASE Failure(c)
    BY <2>3 DEF Failure, ReadDirFails, RemoveFails, WrapFails, OpenFails, WriteFails,
       Crash
  <2> QED
    BY <1>5, <2>1, <2>2, <2>3
<1>6. CASE UNCHANGED vars
  BY <1>2, <1>6 DEF vars
<1> QED
  BY <1>2, <1>3, <1>4, <1>5, <1>6 DEF Next

\* ImplementsAccountStore holds for calls that do not overlap when removals do not
\* fail and no import shares its file with a sync, through any crashes, failed
\* writes and malformed profiles: what readers see of the directory changes only
\* by the steps of AccountStore.
THEOREM StoreRefinesAccount ==
    ASSUME Orderly, NamesApart
    PROVE  Spec => ImplementsAccountStore
<1>1. Init => Account!Init
  <2> SUFFICES ASSUME Init
               PROVE  Account!Init
    OBVIOUS
  <2>1. Marked = {}
    BY SyncFiles DEF Init, Marked, IsCloud, Exists
  <2>2. AccountSlot = {} /\ StatusSlot = {}
    BY <2>1, NoSlot
  <2>3. ImportedPlaces = {}
    BY PathType, NamesAssumption, DataApart DEF Init, ImportedPlaces
  <2>4. Running = {}
    BY DEF Init, Running
  <2> QED
    BY <2>2, <2>3, <2>4
       DEF Init, Account!Init, AccountSlot, StatusSlot, ImportedPlaces, Running
<1>2. ViewInv /\ TypeInv' /\ [Next]_vars => [Account!Next]_(Account!vars)
  <2> SUFFICES ASSUME ViewInv, TypeInv', [Next]_vars
               PROVE  [Account!Next]_(Account!vars)
    OBVIOUS
  <2>1. ASSUME NEW c \in Callers, RemoveNext(c) \/ Open(c) \/ Write(c)
        PROVE  [Account!Next]_(Account!vars)
    BY <2>1, RemoveRefines, OpenRefines, WriteRefines
  <2> QED
    BY <2>1, OtherRefines
<1>3. Spec => [](ViewInv /\ TypeInv)
  <2>1. OrderInv /\ TypeInv /\ ImportInv => ViewInv /\ TypeInv
    BY DEF ViewInv
  <2> QED
    BY <2>1, OrderInvariant, ImportInvariant, PTL
<1> QED
  BY <1>1, <1>2, <1>3, PTL DEF Spec, ImplementsAccountStore, Account!Spec

-----------------------------------------------------------------------------
(* Nothing of an account outlives its marker, when every call runs to its end. *)

\* No alias ends in ".pharos", and no imported bundle in two of them.
StemsSettled ==
    /\ \A d \in Devices : Stem[BundleName[d]] = BundleName[d]
    /\ \A n \in ImportNames : Stem[Stem[n]] = Stem[n]

\* Calls do not overlap, and the only thing that may go wrong is the profile.
Steady == Serial /\ FaultKinds \subseteq {"json"} /\ StemsSettled

LEMMA SteadyOrderly ==
    ASSUME Steady
    PROVE  /\ Orderly
           /\ \A kind \in {"crash", "write", "remove"} : kind \notin FaultKinds
  BY DEF Steady, Orderly

\* An empty directory has no traces.
LEMMA TraceInit == Init => TraceInv
<1> SUFFICES ASSUME Init
             PROVE  TraceInv
  OBVIOUS
<1>1. BundlesInPlace
  <2>1. NoFile # FlagData
    BY ContentsAssumption DEF Data
  <2> QED
    BY <2>1 DEF Init, BundlesInPlace
<1>2. TracesMarked
  BY CloudApart DEF Init, TracesMarked, CloudFile
<1>3. PurgesWhole
  BY DEF Init, PurgesWhole
<1> QED
  BY <1>1, <1>2, <1>3 DEF TraceInv

\* The directory keeps its layout.
LEMMA PlaceNext ==
    ASSUME Steady, OrderInv, BundlesInPlace, [Next]_vars
    PROVE  BundlesInPlace'
<1>0. disk \in [Files -> Contents] /\ TypeInv
  BY DEF OrderInv, TypeInv, TypeOK
<1>1. FlagData \notin {NoFile, Torn, ImportData} /\ FlagData \notin CloudData
  BY CloudApart, DataApart, ContentsAssumption DEF Data
<1>2. ASSUME NEW c \in Callers, pc[c] \in {"open", "write"}
      PROVE  /\ file[c] \in Files
             /\ file[c][1] = "pharos" => Stem[file[c][2]] = file[c][2]
             /\ data[c] \in CloudData \cup {ImportData}
  <2>1. /\ file[c] \in Files /\ op[c] \in {"sync", "import"}
        /\ op[c] = "sync" => dev[c] \in Devices
    BY <1>0, <1>2 DEF TypeInv, CallOK
  <2>2. InstallAt(c)
    BY DEF OrderInv, InstallInv
  <2>3. CASE op[c] = "sync"
    <3>1. BundleName[dev[c]] \in Names
      BY <2>1, <2>3, NamesAssumption
    <3>2. file[c] \in {BundlePath(BundleName[dev[c]]), SyncedPath(BundleName[dev[c]]),
                       PidPath(BundleName[dev[c]])}
      BY <1>2, <2>2, <2>3 DEF InstallAt
    <3> QED
      BY <1>2, <2>1, <2>2, <2>3, <3>1, <3>2, SyncFiles
         DEF InstallAt, Steady, StemsSettled
  <2>4. CASE op[c] = "import"
    BY <2>1, <2>2, <2>4 DEF InstallAt, ImportPaths, BundlePath, Steady, StemsSettled
  <2> QED
    BY <2>1, <2>3, <2>4
<1>3. CASE disk' = disk
  BY <1>3 DEF BundlesInPlace
<1>4. ASSUME NEW f \in Files, disk' = [disk EXCEPT ![f] = NoFile]
      PROVE  BundlesInPlace'
  BY <1>0, <1>1, <1>4 DEF BundlesInPlace
<1>5. ASSUME NEW c \in Callers, pc[c] = "open", disk' = [disk EXCEPT ![file[c]] = Torn]
      PROVE  BundlesInPlace'
  BY <1>0, <1>1, <1>2, <1>5 DEF BundlesInPlace
<1>6. ASSUME NEW c \in Callers, pc[c] = "write",
             disk' = [disk EXCEPT ![file[c]] = data[c]]
      PROVE  BundlesInPlace'
  <2>1. data[c] # FlagData
    BY <1>1, <1>2, <1>6
  <2> QED
    BY <1>0, <1>2, <1>6, <2>1 DEF BundlesInPlace
<1>7. ASSUME NEW n \in Names, disk' = [disk EXCEPT ![<<"disabled", n>>] = FlagData]
      PROVE  BundlesInPlace'
  <2>1. \A f \in Files : disk'[f] = IF f = <<"disabled", n>> THEN FlagData ELSE disk[f]
    BY <1>0, <1>7
  <2> QED
    BY <2>1 DEF BundlesInPlace
<1> QED
  BY <1>3, <1>4, <1>5, <1>6, <1>7, DiskStep

\* While no call removes or writes, every file of an account is next to its marker.
LEMMA QuietTraces ==
    ASSUME TracesMarked, NEW c \in Callers,
           \A k \in Callers : k # c => pc[k] = "idle",
           \/ pc[c] \notin {"remove", "open", "write"}
           \/ pc[c] = "remove" /\ todo[c] = {}
    PROVE  \A f \in Files : CloudFile(f) => f[2] \in Marked
  BY DEF TracesMarked

\* That is kept by a step that does not change the directory.
LEMMA QuietStep ==
    ASSUME disk' = disk, \A f \in Files : CloudFile(f) => f[2] \in Marked
    PROVE  TracesMarked'
<1>1. \A f \in Files : CloudFile(f)' => CloudFile(f)
  BY DEF CloudFile
<1> QED
  BY <1>1, SameMarks DEF TracesMarked

\* A file that is written marks no name less.
LEMMA MarksStay ==
    ASSUME TypeInv, NEW f \in Files, NEW x, x # NoFile, disk' = [disk EXCEPT ![f] = x]
    PROVE  Marked \subseteq Marked'
<1>1. disk \in [Files -> Contents]
  BY DEF TypeInv, TypeOK
<1>2. \A n \in Names : SyncedPath(n) \in Files
  BY SyncFiles
<1> QED
  BY <1>1, <1>2 DEF Marked, IsCloud, Exists

\* purgeCloud and `caravel rm` remove the files of an account, in whatever order,
\* before they are done with its marker.
LEMMA RemoveTrace ==
    ASSUME OrderInv, TraceInv, NEW c \in Callers, RemoveNext(c),
           \A k \in Callers : k # c => pc[k] = "idle" /\ pc'[k] = "idle"
    PROVE  TracesMarked' /\ PurgesWhole'
<1> DEFINE g == FirstOf(todo[c])
<1>0. /\ TypeInv /\ disk \in [Files -> Contents] /\ todo \in [Callers -> SUBSET Files]
      /\ g \in Files /\ pc[c] = "remove" /\ pc' = pc /\ op' = op
      /\ disk' = [disk EXCEPT ![g] = NoFile] /\ todo'[c] = todo[c] \ {g}
  BY FirstOfMember DEF OrderInv, TypeInv, TypeOK, RemoveNext, Unlink
<1> HIDE DEF g
<1>1. \A f \in Files : disk'[f] = IF f = g THEN NoFile ELSE disk[f]
  BY <1>0
<1>2. Marked' = {n \in Marked : SyncedPath(n) # g}
  BY <1>0, TouchedMarks
<1>3. TracesMarked'
  <2> SUFFICES ASSUME NEW f \in Files, CloudFile(f)', f[2] \notin Marked'
               PROVE  f \in todo'[c]
    BY <1>0 DEF TracesMarked
  <2>1. f # g /\ CloudFile(f) /\ disk[f] # NoFile
    BY <1>1, CloudApart DEF CloudFile
  <2>2. CASE f[2] \in Marked
    <3>1. g = SyncedPath(f[2]) /\ f[2] \in Names
      BY <1>2, <2>2 DEF Marked
    <3>2. g \in todo[c]
      BY <1>0, FirstOfMember DEF RemoveNext, g
    <3>3. f = <<f[1], f[2]>> /\ f[1] \in {"pharos", "pharosid"}
      BY <2>1 DEF CloudFile, Files
    <3>4. <<f[1], f[2]>> \in todo[c] \/ disk[<<f[1], f[2]>>] = NoFile
      BY <1>0, <3>1, <3>2, <3>3 DEF TraceInv, PurgesWhole
    <3>5. f \in todo[c]
      BY <2>1, <3>3, <3>4
    <3> QED
      BY <1>0, <2>1, <3>5
  <2>3. CASE f[2] \notin Marked
    <3>1. f \in todo[c]
      BY <1>0, <2>1, <2>3 DEF TraceInv, TracesMarked
    <3> QED
      BY <1>0, <2>1, <3>1
  <2> QED
    BY <2>2, <2>3
<1>4. PurgesWhole'
  <2> SUFFICES ASSUME NEW n \in Names, SyncedPath(n) \in todo'[c],
                      NEW s \in {"pharos", "pharosid"}
               PROVE  <<s, n>> \in todo'[c] \/ disk'[<<s, n>>] = NoFile
    BY <1>0 DEF PurgesWhole
  <2>1. <<s, n>> \in Files
    BY DEF Files, Suffixes
  <2>2. <<s, n>> \in todo[c] \/ disk[<<s, n>>] = NoFile
    BY <1>0 DEF TraceInv, PurgesWhole
  <2> QED
    BY <1>0, <1>1, <2>1, <2>2
<1> QED
  BY <1>3, <1>4

\* What a sync opens or writes is next to its marker, or it goes on to write that.
LEMMA WriteTrace ==
    ASSUME Steady, OrderInv, TraceInv, NEW c \in Callers, Open(c) \/ Write(c),
           \A k \in Callers : k # c => pc[k] = "idle"
    PROVE  TracesMarked'
<1>0. /\ TypeInv /\ disk \in [Files -> Contents] /\ InstallAt(c)
      /\ pc[c] \in {"open", "write"} /\ file[c] \in Files
      /\ op[c] \in {"sync", "import"}
      /\ op[c] = "sync" => dev[c] \in Devices
  BY DEF OrderInv, InstallInv, TypeInv, TypeOK, CallOK, Open, Write
<1> DEFINE b == BundleName[dev[c]]
<1>1. op[c] = "sync" => /\ b \in Names
                        /\ Stem[b] = b
                        /\ file[c] \in {BundlePath(b), SyncedPath(b), PidPath(b)}
                        /\ data[c] \in CloudData
  BY <1>0, NamesAssumption DEF InstallAt, Steady, StemsSettled
<1>2. op[c] = "import" => data[c] = ImportData /\ file[c][1] = "pharos"
  BY <1>0 DEF InstallAt, TypeInv, CallOK
<1>3. PICK x \in {data[c], Torn} : disk' = [disk EXCEPT ![file[c]] = x]
  BY <1>0 DEF Open, Write, InstallAt
<1>4. x # NoFile
  <2>1. data[c] \in Data
    BY <1>0 DEF TypeInv, TypeOK
  <2> QED
    BY <1>3, <2>1, ContentsAssumption
<1>5. Marked \subseteq Marked'
  BY <1>0, <1>3, <1>4, MarksStay
<1>6. \A f \in Files : disk'[f] = IF f = file[c] THEN x ELSE disk[f]
  BY <1>0, <1>3
<1>7. \A f \in Files : CloudFile(f)' =>
         f[2] \in Marked \/ (op[c] = "sync" /\ f[2] = b)
  <2> SUFFICES ASSUME NEW f \in Files, CloudFile(f)'
               PROVE  f[2] \in Marked \/ (op[c] = "sync" /\ f[2] = b)
    OBVIOUS
  <2>1. CASE f = file[c]
    <3>1. op[c] # "import"
      BY <1>2, <1>3, <1>6, <2>1, CloudApart, DataApart DEF CloudFile
    <3>2. op[c] = "sync" /\ b \in Names /\ Stem[b] = b
      BY <1>0, <1>1, <3>1
    <3>3. f = BundlePath(b) \/ f = SyncedPath(b) \/ f = PidPath(b)
      BY <1>1, <2>1, <3>2
    <3> HIDE DEF b
    <3>4. f[2] = b
      BY <3>2, <3>3, SyncFiles
    <3> QED
      BY <3>2, <3>4
  <2>2. CASE f # file[c]
    <3>1. CloudFile(f)
      BY <1>6, <2>2 DEF CloudFile
    <3> QED
      BY <1>0, <3>1 DEF TraceInv, TracesMarked
  <2> QED
    BY <2>1, <2>2
<1>8. op[c] = "sync" => \/ /\ pc'[c] \in {"open", "write"}
                           /\ op'[c] = "sync" /\ dev'[c] = dev[c]
                        \/ b \in Marked
  <2> SUFFICES ASSUME op[c] = "sync"
               PROVE  \/ /\ pc'[c] \in {"open", "write"}
                         /\ op'[c] = "sync" /\ dev'[c] = dev[c]
                      \/ b \in Marked
    OBVIOUS
  <2>1. CASE Open(c)
    BY <2>1 DEF Open, TypeInv, TypeOK, OrderInv
  <2>2. CASE Write(c) /\ file[c][1] # "pharosid"
    <3>1. PICK f : GoOn(c, f)
      BY <2>2 DEF Write, AfterWrite
    <3> QED
      BY <1>0, <3>1, GoOnAt
  <2>3. CASE Write(c) /\ file[c][1] = "pharosid"
    <3>1. disk[SyncedPath(b)] = data[c]
      BY <1>0, <1>1, <2>3, SyncFiles, SteadyOrderly DEF InstallAt, Write
    <3> QED
      BY <1>1, <3>1, CloudApart DEF Marked, IsCloud, Exists
  <2> QED
    BY <2>1, <2>2, <2>3
<1> QED
  BY <1>5, <1>7, <1>8 DEF TracesMarked

\* Every step of calls that run to their end preserves TraceInv.
LEMMA TraceNext ==
    ASSUME Steady
    PROVE  OrderInv /\ TraceInv /\ [Next]_vars => TraceInv'
<1> SUFFICES ASSUME OrderInv, TraceInv, [Next]_vars
             PROVE  TraceInv'
  OBVIOUS
<1>0. /\ TypeInv /\ MarkInv /\ disk \in [Files -> Contents]
      /\ pc \in [Callers -> Points] /\ todo \in [Callers -> SUBSET Files]
  BY DEF OrderInv, TypeInv, TypeOK
<1>1. BundlesInPlace'
  BY PlaceNext DEF TraceInv
<1>2. ASSUME NEW c \in Callers, Call(c) \/ Step(c) \/ Failure(c)
      PROVE  TracesMarked' /\ PurgesWhole'
  <2>1. \A k \in Callers : k # c => pc[k] = "idle" /\ pc'[k] = "idle"
    BY <1>0, <1>2, OthersIdle, SteadyOrderly
  <2>2. CASE Call(c)
    <3>1. disk' = disk /\ pc[c] = "idle"
      BY <2>2 DEF Call, CallSync, CallLogout, CallImport, CallRemove, CallList,
         Begin, MayCall, Idle
    <3>2. TracesMarked'
      BY <2>1, <3>1, QuietTraces, QuietStep DEF TraceInv
    <3>3. ASSUME pc'[c] = "remove"
          PROVE  \E n \in Names : todo'[c] = {"pharos", "synced", "pharosid"} \X {n}
      BY <1>0, <2>2, <3>3 DEF Call, CallSync, CallLogout, CallImport, CallRemove,
         CallList, Begin
    <3>4. PurgesWhole'
      BY <2>1, <3>3 DEF PurgesWhole, SyncedPath
    <3> QED
      BY <3>2, <3>4
  <2>3. CASE RemoveNext(c)
    BY <2>1, <2>3, RemoveTrace
  <2>4. CASE Open(c) \/ Write(c)
    <3>1. TracesMarked'
      BY <2>1, <2>4, WriteTrace
    <3>2. pc'[c] # "remove"
      BY <1>0, <2>4 DEF Open, Write, AfterWrite, GoOn, Return
    <3> QED
      BY <2>1, <3>1, <3>2 DEF PurgesWhole
  <2>5. CASE ReadDir(c)
    <3>1. TracesMarked'
      BY <2>1, <2>5, QuietTraces, QuietStep DEF TraceInv, ReadDir
    <3>2. todo'[c] = Suffixes \X Marked
      BY <1>0, <2>5 DEF ReadDir, PurgeFiles
    <3>3. PurgesWhole'
      BY <2>1, <3>2 DEF PurgesWhole, SyncedPath, Suffixes
    <3> QED
      BY <3>1, <3>3
  <2>6. CASE \/ FetchOk(c) \/ FetchFails(c) \/ RemoveDone(c) \/ Wrap(c)
             \/ Glob(c) \/ ListRaw(c) \/ ListStat(c) \/ ListDone(c) \/ WrapFails(c)
    <3>1. /\ disk' = disk /\ pc'[c] # "remove"
          /\ \/ pc[c] \notin {"remove", "open", "write"}
             \/ pc[c] = "remove" /\ todo[c] = {}
      BY <1>0, <2>6 DEF FetchOk, FetchFails, RemoveDone, Wrap, Glob, ListRaw,
         ListStat, ListDone, WrapFails, Return
    <3>2. TracesMarked'
      BY <2>1, <3>1, QuietTraces, QuietStep DEF TraceInv
    <3> QED
      BY <2>1, <3>1, <3>2 DEF PurgesWhole
  <2>7. ~(ReadDirFails(c) \/ RemoveFails(c) \/ OpenFails(c) \/ WriteFails(c)
          \/ Crash(c))
    BY SteadyOrderly DEF ReadDirFails, RemoveFails, OpenFails, WriteFails, Crash,
       Fault
  <2> QED
    BY <1>2, <2>2, <2>3, <2>4, <2>5, <2>6, <2>7 DEF Step, Failure
<1>3. CASE Publish
  <2>1. /\ disk' = disk /\ pc' = pc /\ op' = op /\ dev' = dev /\ todo' = todo
        /\ Marked' = Marked
    BY <1>3, SameMarks DEF Publish, callerVars
  <2>2. \A f \in Files : CloudFile(f)' => CloudFile(f)
    BY <2>1 DEF CloudFile
  <2>3. TracesMarked'
    BY <2>1, <2>2 DEF TraceInv, TracesMarked
  <2>4. PurgesWhole'
    BY <2>1 DEF TraceInv, PurgesWhole
  <2> QED
    BY <1>1, <2>3, <2>4 DEF TraceInv
<1>4. ASSUME NEW n \in Names, Disable(n)
      PROVE  TracesMarked' /\ PurgesWhole'
  <2>1. <<"disabled", n>> \in Files
    BY DEF Files, Suffixes
  <2>2. Marked' = Marked
    BY <1>0, <1>4, <2>1, TouchedMarks DEF Disable
  <2>3. \A f \in Files : f[1] # "disabled" => disk'[f] = disk[f]
    BY <1>0, <1>4 DEF Disable
  <2>4. \A f \in Files : CloudFile(f)' => CloudFile(f)
    BY <2>3 DEF CloudFile
  <2>5. TracesMarked'
    BY <1>4, <2>2, <2>4 DEF Disable, callerVars, TraceInv, TracesMarked
  <2>6. \A m \in Names : \A s \in {"pharos", "pharosid"} :
           disk'[<<s, m>>] = disk[<<s, m>>]
    BY <2>3 DEF Files, Suffixes
  <2>7. PurgesWhole'
    BY <1>4, <2>6 DEF Disable, callerVars, TraceInv, PurgesWhole
  <2> QED
    BY <2>5, <2>7
<1>5. CASE UNCHANGED vars
  <2>1. /\ disk' = disk /\ pc' = pc /\ op' = op /\ dev' = dev /\ todo' = todo
        /\ Marked' = Marked
    BY <1>5, SameMarks DEF vars, callerVars
  <2>2. \A f \in Files : CloudFile(f)' => CloudFile(f)
    BY <2>1 DEF CloudFile
  <2>3. TracesMarked'
    BY <2>1, <2>2 DEF TraceInv, TracesMarked
  <2>4. PurgesWhole'
    BY <2>1 DEF TraceInv, PurgesWhole
  <2> QED
    BY <1>1, <2>3, <2>4 DEF TraceInv
<1> QED
  BY <1>1, <1>2, <1>3, <1>4, <1>5 DEF Next, TraceInv

SteadyInv == OrderInv /\ TraceInv

\* SteadyInv holds in every reachable state.
LEMMA SteadyInvariant ==
    ASSUME Steady
    PROVE  Spec => []SteadyInv
<1>1. Init => SteadyInv
  BY TypeInit, MarkInit, InstallInit, TraceInit DEF SteadyInv, OrderInv
<1>2. SteadyInv /\ [Next]_vars => SteadyInv'
  BY TypeNext, MarkNext, InstallNext, TraceNext, SteadyOrderly DEF SteadyInv, OrderInv
<1> QED
  BY <1>1, <1>2, PTL DEF Spec

-----------------------------------------------------------------------------
(* What a sync and a logout leave in the store. *)

\* The origin tells what a sync stored.
LEMMA CloudOrigin == \A x \in Data : x.origin = "cloud" <=> x \in CloudData
<1>1. ImportData.origin = "import" /\ FlagData.origin = "platform"
  BY DEF ImportData, FlagData
<1> QED
  BY <1>1, CloudApart DEF Data

\* The cloud bundles are the account files among the bundles.
LEMMA CloudBundleFile ==
    TypeInv => \A n \in Names :
                  n \in CloudBundles <=> disk[<<"pharos", n>>] \in CloudData
<1> SUFFICES ASSUME TypeInv, NEW n \in Names
             PROVE  n \in CloudBundles <=> disk[<<"pharos", n>>] \in CloudData
  OBVIOUS
<1>1. <<"pharos", n>> \in Files
  BY DEF Files, Suffixes
<1>2. disk[<<"pharos", n>>] \in Data \cup {NoFile, Torn}
  BY <1>1 DEF TypeInv, TypeOK, Contents
<1> QED
  BY <1>2, CloudOrigin, CloudApart DEF CloudBundles, Complete

\* No call is running.
AllIdle == \A c \in Callers : pc[c] = "idle"

\* Between calls every cloud bundle is marked.
LEMMA MarkedBundles == SteadyInv /\ AllIdle => CloudBundles \subseteq Marked
<1> SUFFICES ASSUME SteadyInv, AllIdle, NEW n \in Names, n \in CloudBundles
             PROVE  n \in Marked
  BY DEF CloudBundles
<1>1. disk[<<"pharos", n>>] \in CloudData
  BY CloudBundleFile DEF SteadyInv, OrderInv
<1>2. <<"pharos", n>> \in Files /\ CloudFile(<<"pharos", n>>)
  BY <1>1 DEF Files, Suffixes, CloudFile
<1> QED
  BY <1>2 DEF SteadyInv, TraceInv, TracesMarked, AllIdle

\* SteadyInv, after a step.
LEMMA SteadyStep ==
    ASSUME Steady, SteadyInv, [Next]_vars
    PROVE  SteadyInv'
  BY TypeNext, MarkNext, InstallNext, TraceNext, SteadyOrderly DEF SteadyInv, OrderInv

\* ReplacesCloudSet holds for calls that do not overlap and run to their end: the
\* purge of syncBundle finds every earlier bundle by its marker.
THEOREM SyncReplacesAll ==
    ASSUME Steady
    PROVE  Spec => ReplacesCloudSet
<1>1. ASSUME SteadyInv, [Next]_vars, NEW c \in Callers, Returns(c, "sync")
      PROVE  /\ CloudBundles' = {Stem[BundleName[dev[c]]]}
             /\ disk'[BundlePath(BundleName[dev[c]])] = data[c]
  <2> DEFINE b == BundleName[dev[c]]
  <2>1. /\ disk'[BundlePath(b)] = data[c] /\ Marked' = {b} /\ data[c] \in CloudData
        /\ Write(c) /\ dev[c] \in Devices
    BY <1>1, SyncReturn, SyncReturnInstalls, SteadyOrderly DEF SteadyInv, Installed
  <2>2. b \in Names /\ Stem[b] = b
    BY <2>1, NamesAssumption DEF Steady, StemsSettled
  <2>3. SteadyInv'
    BY <1>1, SteadyStep
  <2>4. \A k \in Callers : pc'[k] = "idle"
    <3>1. pc'[c] = "idle"
      BY <1>1 DEF Returns
    <3>2. \A k \in Callers : k # c => pc'[k] = "idle"
      BY <1>1, <2>1, OthersIdle, SteadyOrderly DEF SteadyInv, OrderInv, Step
    <3> QED
      BY <3>1, <3>2
  <2> HIDE DEF b
  <2>5. CloudBundles' \subseteq {b}
    <3>1. (SteadyInv /\ AllIdle => CloudBundles \subseteq Marked)'
      BY MarkedBundles, PTL
    <3> QED
      BY <2>1, <2>3, <2>4, <3>1 DEF AllIdle
  <2>6. b \in CloudBundles'
    <3>1. disk'[<<"pharos", b>>] \in CloudData
      BY <2>1, <2>2 DEF BundlePath
    <3>2. (TypeInv => \A n \in Names :
                         n \in CloudBundles <=> disk[<<"pharos", n>>] \in CloudData)'
      BY CloudBundleFile, PTL
    <3> QED
      BY <2>2, <2>3, <3>1, <3>2 DEF SteadyInv, OrderInv
  <2> QED
    BY <2>1, <2>2, <2>5, <2>6 DEF b
<1>2. SteadyInv /\ [Next]_vars =>
         [\A c \in Callers : Returns(c, "sync") =>
             /\ CloudBundles' = {Stem[BundleName[dev[c]]]}
             /\ disk'[BundlePath(BundleName[dev[c]])] = data[c]]_vars
  BY <1>1
<1> QED
  BY <1>2, SteadyInvariant, PTL DEF Spec, ReplacesCloudSet

\* A logout returns when it has removed the last of its files.
LEMMA LogoutReturn ==
    ASSUME Steady, OrderInv, [Next]_vars, NEW c \in Callers, Returns(c, "logout")
    PROVE  RemoveDone(c)
<1>0. /\ TypeInv /\ MarkInv /\ op[c] = "logout"
      /\ pc[c] # "idle" /\ pc'[c] = "idle" /\ result'[c] = "ok"
  BY DEF OrderInv, Returns, Idle
<1>1. pc \in [Callers -> Points] /\ result \in [Callers -> {"none", "ok", "error"}]
  BY <1>0 DEF TypeInv, TypeOK
<1>2. ~Publish /\ ~UNCHANGED vars /\ \A n \in Names : ~Disable(n)
  BY <1>0 DEF Publish, Disable, vars, callerVars
<1>3. \A k \in Callers : Call(k) \/ Step(k) \/ Failure(k) => k = c
  BY <1>0, OthersStay
<1>4. Call(c) \/ Step(c) \/ Failure(c)
  BY <1>2, <1>3 DEF Next
<1>5. ~Call(c)
  BY <1>0 DEF Call, CallSync, CallLogout, CallImport, CallRemove, CallList, Begin,
     MayCall, Idle
<1>6. ~Failure(c)
  BY <1>0, <1>1, SteadyOrderly DEF Failure, ReadDirFails, RemoveFails, WrapFails,
     OpenFails, WriteFails, Crash, Return, Fault
<1> QED
  BY <1>0, <1>1, <1>4, <1>5, <1>6 DEF Step, FetchOk, FetchFails, ReadDir,
     RemoveNext, Wrap, Open, Write, Glob, ListRaw, ListStat, ListDone, Return,
     TypeInv, CallOK

\* LogoutForgets holds for calls that do not overlap and run to their end: when
\* Logout returns the store holds no cloud bundle, no marker and no identity.
THEOREM LogoutForgetsAll ==
    ASSUME Steady
    PROVE  Spec => LogoutForgets
<1>1. ASSUME SteadyInv, [Next]_vars, NEW c \in Callers, Returns(c, "logout")
      PROVE  /\ CloudBundles' = {}
             /\ \A n \in Names : /\ disk'[SyncedPath(n)] = NoFile
                                 /\ disk'[PidPath(n)] = NoFile
  <2>1. RemoveDone(c) /\ op[c] = "logout"
    BY <1>1, LogoutReturn DEF SteadyInv, Returns
  <2>2. \A k \in Callers : k # c => pc[k] = "idle" /\ pc'[k] = "idle"
    BY <2>1, <1>1, OthersIdle, SteadyOrderly DEF SteadyInv, OrderInv, Step
  <2>3. Marked = {}
    BY <1>1, <2>1 DEF RemoveDone, SteadyInv, OrderInv, MarkInv, PurgePrecedesMark
  <2>4. disk' = disk
    BY <2>1 DEF RemoveDone
  <2>5. \A f \in Files : ~CloudFile(f)
    BY <1>1, <2>1, <2>2, <2>3, QuietTraces DEF RemoveDone, SteadyInv, TraceInv
  <2>6. \A n \in Names : /\ disk'[SyncedPath(n)] = NoFile
                         /\ disk'[PidPath(n)] = NoFile
    BY <2>3, <2>4, <2>5, SyncFiles DEF Marked, IsCloud, Exists, CloudFile
  <2>7. SteadyInv' /\ \A k \in Callers : pc'[k] = "idle"
    BY <1>1, <2>2, SteadyStep DEF Returns
  <2>8. CloudBundles' \subseteq Marked'
    <3>1. (SteadyInv /\ AllIdle => CloudBundles \subseteq Marked)'
      BY MarkedBundles, PTL
    <3> QED
      BY <2>7, <3>1 DEF AllIdle
  <2> QED
    BY <2>3, <2>4, <2>6, <2>8, SameMarks
<1>2. SteadyInv /\ [Next]_vars =>
         [\A c \in Callers : Returns(c, "logout") =>
             /\ CloudBundles' = {}
             /\ \A n \in Names : /\ disk'[SyncedPath(n)] = NoFile
                                 /\ disk'[PidPath(n)] = NoFile]_vars
  BY <1>1
<1> QED
  BY <1>2, SteadyInvariant, PTL DEF Spec, LogoutForgets

-----------------------------------------------------------------------------
(* What ListProfiles shows. *)

\* While a listing runs, the marker tells the origin of a bundle that can be read.
LEMMA MarkerTells ==
    ASSUME NamesApart, SteadyInv, ImportInv, NEW c \in Callers, pc[c] = "raw",
           \A k \in Callers : k # c => pc[k] = "idle",
           NEW f \in Files, f[1] = "pharos", Complete(f)
    PROVE  IsCloud(f[2]) <=> disk[f].origin = "cloud"
<1>1. f[2] \in Names
  BY DEF Files
<1>2. disk[f] \in Data /\ disk[f] # FlagData
  BY DEF SteadyInv, OrderInv, TypeInv, TypeOK, Contents, Complete, TraceInv,
     BundlesInPlace
<1>3. CASE disk[f] = ImportData
  <2>1. f[2] \notin SyncNames
    BY <1>3, PathsApart DEF ImportInv, ImportsInPlace
  <2>2. ~IsCloud(f[2])
    BY <1>1, <2>1 DEF ImportInv, MarkersFromSyncs
  <2> QED
    BY <1>2, <1>3, <2>2, CloudOrigin, DataApart
<1>4. CASE disk[f] \in CloudData
  <2>1. CloudFile(f)
    BY <1>4 DEF CloudFile
  <2>2. f[2] \in Marked
    BY <2>1, QuietTraces DEF SteadyInv, TraceInv
  <2> QED
    BY <1>2, <1>4, <2>2, CloudOrigin DEF Marked
<1> QED
  BY <1>2, <1>3, <1>4 DEF Data

\* A step of c leaves the rows the other callers have.
LEMMA OthersRows ==
    ASSUME TypeInv, NEW c \in Callers, Call(c) \/ Step(c) \/ Failure(c),
           NEW k \in Callers, k # c
    PROVE  listing'[k] = listing[k]
<1>0. listing \in [Callers -> SUBSET Rows]
  BY DEF TypeInv, TypeOK
<1>1. ASSUME NEW r, Return(c, r) PROVE listing'[k] = listing[k]
  BY <1>0, <1>1 DEF Return
<1>2. ASSUME NEW r, AfterWrite(c, r) PROVE listing'[k] = listing[k]
  BY <1>0, <1>1, <1>2 DEF AfterWrite, GoOn
<1>3. CASE Call(c)
  BY <1>3 DEF Call, CallSync, CallLogout, CallImport, CallRemove, CallList
<1>4. CASE Step(c)
  BY <1>0, <1>1, <1>2, <1>4 DEF Step, FetchOk, FetchFails, ReadDir, RemoveNext,
     RemoveDone, Wrap, Open, Write, Glob, ListRaw, ListStat, ListDone
<1>5. CASE Failure(c)
  BY <1>0, <1>1, <1>2, <1>5 DEF Failure, ReadDirFails, RemoveFails, WrapFails,
     OpenFails, WriteFails, Crash
<1> QED
  BY <1>3, <1>4, <1>5

\* The steps of a call that is not listing leave its rows or drop them.
LEMMA NotListing ==
    ASSUME TypeInv, NEW c \in Callers,
           Call(c) \/ Step(c) \/ Failure(c),
           ~Glob(c), ~ListRaw(c), ~ListStat(c)
    PROVE  pc'[c] \notin {"raw", "stat"} /\ listing'[c] \in {listing[c], {}}
<1>0. pc \in [Callers -> Points] /\ listing \in [Callers -> SUBSET Rows]
  BY DEF TypeInv, TypeOK
<1> DEFINE P == pc'[c] \notin {"raw", "stat"} /\ listing'[c] \in {listing[c], {}}
<1>1. ASSUME NEW r, Return(c, r) PROVE P
  BY <1>0, <1>1 DEF Return
<1>2. ASSUME NEW r, AfterWrite(c, r) PROVE P
  BY <1>0, <1>1, <1>2 DEF AfterWrite, GoOn
<1>3. CASE Call(c)
  BY <1>0, <1>3 DEF Call, CallSync, CallLogout, CallImport, CallRemove, CallList,
     Begin
<1>4. CASE Step(c)
  BY <1>0, <1>1, <1>2, <1>4 DEF Step, FetchOk, FetchFails, ReadDir, RemoveNext,
     RemoveDone, Wrap, Open, Write, ListDone
<1>5. CASE Failure(c)
  BY <1>0, <1>1, <1>2, <1>5 DEF Failure, ReadDirFails, RemoveFails, WrapFails,
     OpenFails, WriteFails, Crash
<1> QED
  BY <1>3, <1>4, <1>5

\* No listing has begun in the initial state.
LEMMA ListInit == Init => ListInv
  BY DEF Init, ListInv, ListAt

\* Every step preserves ListInv.
LEMMA ListNext ==
    ASSUME Steady, NamesApart
    PROVE  SteadyInv /\ ImportInv /\ ListInv /\ [Next]_vars => ListInv'
<1> SUFFICES ASSUME SteadyInv, ImportInv, ListInv, [Next]_vars
             PROVE  ListInv'
  OBVIOUS
<1>0. /\ TypeInv /\ MarkInv /\ pc \in [Callers -> Points]
      /\ todo \in [Callers -> SUBSET Files] /\ data \in [Callers -> Data]
      /\ listing \in [Callers -> SUBSET Rows]
  BY DEF SteadyInv, OrderInv, TypeInv, TypeOK
<1>1. ASSUME NEW c \in Callers, Call(c) \/ Step(c) \/ Failure(c)
      PROVE  ListInv'
  <2>1. \A k \in Callers : k # c => pc[k] = "idle" /\ pc'[k] = "idle"
    BY <1>0, <1>1, OthersIdle, SteadyOrderly
  <2>2. \A k \in Callers : k # c => listing'[k] = listing[k]
    BY <1>0, <1>1, OthersRows
  <2>3. \A k \in Callers : k # c => ListAt(k)'
    BY <2>1, <2>2 DEF ListInv, ListAt
  <2>4. ListAt(c)
    BY DEF ListInv
  <2>5. CASE Glob(c)
    <3>1. /\ pc'[c] = "raw" /\ listing' = listing
          /\ todo'[c] = {f \in Files : f[1] = "pharos" /\ Exists(f)}
      BY <1>0, <2>5 DEF Glob
    <3>2. \A f \in todo'[c] : f[1] = "pharos" /\ Stem[f[2]] = f[2]
      BY <3>1 DEF Exists, SteadyInv, TraceInv, BundlesInPlace
    <3>3. ListAt(c)'
      BY <2>4, <3>1, <3>2 DEF ListAt
    <3> QED
      BY <2>3, <3>3 DEF ListInv
  <2>6. CASE ListRaw(c)
    <3> DEFINE f == FirstOf(todo[c])
    <3>1. /\ pc[c] = "raw" /\ f \in todo[c] /\ f \in Files
          /\ listing' = listing /\ disk' = disk
      BY <1>0, <2>6, FirstOfMember DEF ListRaw
    <3>2. f[1] = "pharos" /\ Stem[f[2]] = f[2]
      BY <2>4, <3>1 DEF ListAt
    <3>3. BundlePath(f[2]) = f
      BY <3>1, <3>2 DEF BundlePath, Files
    <3>4. CASE Complete(f)
      <4>1. /\ pc'[c] = "stat" /\ todo' = todo /\ data'[c] = disk[f]
        BY <1>0, <2>6, <3>3, <3>4 DEF ListRaw
      <4>2. IsCloud(f[2]) <=> disk[f].origin = "cloud"
        BY <2>1, <3>1, <3>2, <3>4, MarkerTells
      <4>3. IsCloud(FirstOf(todo[c])[2])' <=> data'[c].origin = "cloud"
        BY <4>1, <4>2, <3>1 DEF IsCloud, Exists
      <4>4. ListAt(c)'
        BY <2>4, <3>1, <4>1, <4>3 DEF ListAt
      <4> QED
        BY <2>3, <4>4 DEF ListInv
    <3>5. CASE ~Complete(f)
      <4>1. pc' = pc /\ todo'[c] = todo[c] \ {f}
        BY <1>0, <2>6, <3>3, <3>5 DEF ListRaw
      <4>2. ListAt(c)'
        BY <2>4, <3>1, <4>1 DEF ListAt
      <4> QED
        BY <2>3, <4>2 DEF ListInv
    <3> QED
      BY <3>4, <3>5
  <2>7. CASE ListStat(c)
    <3> DEFINE f == FirstOf(todo[c])
               row == [name |-> f[2], data |-> data[c], cloud |-> IsCloud(f[2])]
    <3>1. /\ pc[c] = "stat" /\ pc'[c] = "raw" /\ todo'[c] = todo[c] \ {f}
          /\ listing'[c] = listing[c] \cup {row}
      BY <1>0, <2>7 DEF ListStat
    <3>2. row.cloud <=> row.data.origin = "cloud"
      BY <2>4, <3>1 DEF ListAt
    <3> HIDE DEF row
    <3>3. ListAt(c)'
      BY <2>4, <3>1, <3>2 DEF ListAt
    <3> QED
      BY <2>3, <3>3 DEF ListInv
  <2>8. CASE ~(Glob(c) \/ ListRaw(c) \/ ListStat(c))
    <3>1. pc'[c] \notin {"raw", "stat"} /\ listing'[c] \in {listing[c], {}}
      BY <1>0, <1>1, <2>8, NotListing
    <3>2. ListAt(c)'
      BY <2>4, <3>1 DEF ListAt
    <3> QED
      BY <2>3, <3>2 DEF ListInv
  <2> QED
    BY <2>5, <2>6, <2>7, <2>8
<1>2. ASSUME pc' = pc, todo' = todo, data' = data, listing' = listing,
             Marked' = Marked
      PROVE  ListInv'
  <2> SUFFICES ASSUME NEW c \in Callers
               PROVE  ListAt(c)'
    BY DEF ListInv
  <2>1. ListAt(c)
    BY DEF ListInv
  <2>2. pc[c] = "stat" => FirstOf(todo[c])[2] \in Names
    <3>1. pc[c] = "stat" => FirstOf(todo[c]) \in Files
      BY <1>0, FirstOfMember DEF TypeInv, CallOK
    <3> QED
      BY <3>1 DEF Files
  <2>3. \A n \in Names : IsCloud(n)' <=> IsCloud(n)
    BY <1>2 DEF Marked
  <2>4. pc[c] = "stat" =>
           (IsCloud(FirstOf(todo[c])[2])' <=> IsCloud(FirstOf(todo[c])[2]))
    BY <1>2, <2>2, <2>3 DEF IsCloud, Exists
  <2> QED
    BY <1>2, <2>1, <2>4 DEF ListAt
<1>3. CASE Publish
  BY <1>2, <1>3, SameMarks DEF Publish, callerVars
<1>4. ASSUME NEW n \in Names, Disable(n)
      PROVE  ListInv'
  <2>1. <<"disabled", n>> \in Files
    BY DEF Files, Suffixes
  <2>2. Marked' = Marked
    BY <1>0, <1>4, <2>1, TouchedMarks DEF Disable
  <2> QED
    BY <1>2, <1>4, <2>2 DEF Disable, callerVars
<1>5. CASE UNCHANGED vars
  BY <1>2, <1>5, SameMarks DEF vars, callerVars
<1> QED
  BY <1>1, <1>3, <1>4, <1>5 DEF Next

\* ListingTruthful holds for calls that do not overlap and run to their end, where
\* no imported bundle shares its file with a synced one: the row of a bundle says
\* truly whether it came from a sync.
THEOREM ListingIsTruthful ==
    ASSUME Steady, NamesApart
    PROVE  Spec => []ListingTruthful
<1>1. Init => ListInv
  BY ListInit
<1>2. SteadyInv /\ ImportInv /\ ListInv /\ [Next]_vars => ListInv'
  BY ListNext
<1>3. ListInv => ListingTruthful
  BY DEF ListInv, ListAt, ListingTruthful
<1>4. Spec => []SteadyInv
  BY SteadyInvariant
<1>5. Spec => [](TypeInv /\ ImportInv)
  BY ImportInvariant
<1> QED
  BY <1>1, <1>2, <1>3, <1>4, <1>5, PTL DEF Spec

-----------------------------------------------------------------------------
(* The bundle of the session. *)

\* Nothing is taken from the session by a step that changes none of its files.
LEMMA HeldStays ==
    ASSUME NEW d \in Devices, Held(d), Marked' = Marked,
           \A p \in {BundlePath(BundleName[d]), SyncedPath(BundleName[d]),
                     PidPath(BundleName[d])} : disk'[p] = disk[p]
    PROVE  Held(d)'
  BY DEF Held, Installed

\* A sync that returns success leaves its device holding a whole bundle.
LEMMA SyncHolds ==
    ASSUME Steady, OrderInv, [Next]_vars, NEW c \in Callers, Returns(c, "sync"),
           NEW d, d = dev[c]
    PROVE  /\ \E r \in 0..MaxRev :
                 Installed(disk', d, [origin |-> "cloud", dev |-> d, rev |-> r])
           /\ Marked' = {BundleName[d]}
<1>1. /\ Installed(disk', dev[c], data[c]) /\ Marked' = {BundleName[dev[c]]}
      /\ data[c] \in CloudData /\ data[c].dev = dev[c]
  BY SyncReturnInstalls, SteadyOrderly
<1>2. /\ data[c].rev \in 0..MaxRev
      /\ data[c] = [origin |-> "cloud", dev |-> d, rev |-> data[c].rev]
  BY <1>1, CloudApart
<1> QED
  BY <1>1, <1>2

\* A step of c that keeps the session keeps its bundle, unless c is a sync that has
\* begun to replace it.
LEMMA HeldStep ==
    ASSUME Steady, FaultKinds = {}, NamesApart, SteadyInv, SessionInv,
           NEW c \in Callers, Call(c) \/ Step(c) \/ Failure(c),
           session' = session, session # NoDevice, Unreplaced'
    PROVE  Held(session)'
<1> DEFINE b == BundleName[session]
<1>0. /\ TypeInv /\ MarkInv /\ InstallAt(c) /\ SpareAt(c)
      /\ disk \in [Files -> Contents] /\ todo \in [Callers -> SUBSET Files]
      /\ pc \in [Callers -> Points] /\ op \in [Callers -> Ops]
      /\ session \in Devices
  BY DEF SteadyInv, OrderInv, InstallInv, SessionInv, TypeInv, TypeOK
<1>1. b \in Names /\ Stem[b] = b
  BY <1>0, NamesAssumption DEF Steady, StemsSettled
<1>2. \A k \in Callers : k # c => op[k] = "none" /\ op'[k] = "none"
  BY <1>0, OthersIdle, SteadyOrderly
<1>3. op'[c] = "sync" => pc'[c] \in {"fetch", "readdir"}
  BY DEF Unreplaced
<1>4. PICK d \in Devices : d = session
  BY <1>0
<1>5. SUFFICES ASSUME Unreplaced => Held(d)
               PROVE  Held(d)'
  <2>1. Unreplaced => Held(d)
    BY <1>4 DEF SessionInv
  <2>2. Held(d)' => Held(session)'
    BY <1>4 DEF Held
  <2> QED
    BY <2>1, <2>2
<1>6. CASE op[c] = "sync" /\ pc[c] \notin {"fetch", "readdir"}
  <2>1. ~Call(c)
    BY <1>0, <1>6 DEF Call, CallSync, CallLogout, CallImport, CallRemove, CallList,
       Begin, MayCall, Idle, TypeInv, CallOK
  <2>2. ~Failure(c)
    BY DEF Failure, ReadDirFails, RemoveFails, WrapFails, OpenFails, WriteFails,
       Crash, Fault
  <2>3. Step(c)
    BY <2>1, <2>2
  <2>4. Write(c) /\ pc'[c] = "idle"
    BY <1>0, <1>3, <1>6, <2>3 DEF Step, FetchOk, FetchFails, ReadDir, RemoveNext,
       RemoveDone, Wrap, Open, Write, AfterWrite, GoOn, Return, Glob, ListRaw,
       ListStat, ListDone, TypeInv, CallOK
  <2>5. Returns(c, "sync") /\ [Next]_vars
    <3>1. Return(c, "ok")
      BY <1>0, <2>4 DEF Write, AfterWrite, GoOn
    <3>2. result'[c] = "ok"
      BY <1>0, <3>1 DEF Return, TypeInv, TypeOK
    <3> QED
      BY <1>6, <2>3, <2>4, <3>2 DEF Returns, Idle, Next, Write
  <2>6. session' = dev[c]
    BY <1>0, <1>6, <2>4 DEF Write, AfterWrite, GoOn, Return
  <2>7. d = dev[c]
    BY <1>4, <2>6
  <2>8. (\E r \in 0..MaxRev :
            Installed(disk', d, [origin |-> "cloud", dev |-> d, rev |-> r]))
        /\ Marked' = {BundleName[d]}
    BY <2>5, <2>7, SyncHolds DEF SteadyInv
  <2> QED
    BY <2>8 DEF Held
<1>7. CASE ~(op[c] = "sync" /\ pc[c] \notin {"fetch", "readdir"})
  <2>1. Held(d)
    BY <1>2, <1>5, <1>7 DEF Unreplaced
  <2>2. Marked = {b} /\ b = BundleName[d]
    BY <1>4, <2>1 DEF Held
  <2>3. SUFFICES ASSUME NEW f \in Files, NEW x, disk' = [disk EXCEPT ![f] = x],
                        f \notin {BundlePath(b), SyncedPath(b), PidPath(b)},
                        f[1] # "synced" \/ x = NoFile
                 PROVE  Held(d)'
    <3>1. CASE disk' = disk
      BY <2>1, <3>1, HeldStays, SameMarks
    <3>2. CASE RemoveNext(c)
      <4> DEFINE f == FirstOf(todo[c])
      <4>1. /\ f \in Files /\ f \in todo[c] /\ disk' = [disk EXCEPT ![f] = NoFile]
        BY <1>0, <3>2, FirstOfMember DEF RemoveNext, Unlink
      <4>2. op[c] = "rm"
        BY <1>0, <1>4, <1>7, <3>2 DEF RemoveNext, TypeInv, CallOK, SpareAt
      <4>3. f[2] # b
        BY <1>0, <4>1, <4>2 DEF SpareAt
      <4>4. f \notin {BundlePath(b), SyncedPath(b), PidPath(b)}
        BY <1>1, <4>3, SyncFiles
      <4> QED
        BY <2>3, <4>1, <4>4
    <3>3. CASE Open(c) \/ Write(c)
      <4>1. op[c] = "import" /\ file[c] \in Files /\ file[c] \in ImportPaths
        BY <1>0, <1>7, <3>3 DEF Open, Write, TypeInv, CallOK, InstallAt
      <4>2. /\ file[c][1] = "pharos"
            /\ file[c] \notin {BundlePath(b), SyncedPath(b), PidPath(b)}
        BY <1>0, <4>1, PathsApart
      <4>3. PICK f \in Files : f = file[c]
        BY <4>1
      <4>4. PICK x : disk' = [disk EXCEPT ![f] = x]
        BY <1>0, <3>3, <4>3 DEF Open, Write, InstallAt
      <4> QED
        BY <2>3, <4>2, <4>3, <4>4
    <3>4. CASE ~(RemoveNext(c) \/ Open(c) \/ Write(c))
      <4>1. disk' = disk
        BY <3>4 DEF Call, CallSync, CallLogout, CallImport, CallRemove, CallList,
           Step, FetchOk, FetchFails, ReadDir, RemoveDone, Wrap, Glob, ListRaw,
           ListStat, ListDone, Failure, ReadDirFails, RemoveFails, WrapFails,
           OpenFails, WriteFails, Crash
      <4> QED
        BY <3>1, <4>1
    <3> QED
      BY <3>2, <3>3, <3>4
  <2>4. Marked' = Marked
    BY <1>0, <2>2, <2>3, TouchedMarks
  <2>5. \A p \in {BundlePath(b), SyncedPath(b), PidPath(b)} : disk'[p] = disk[p]
    BY <1>0, <1>1, <2>3, SyncFiles
  <2> QED
    BY <2>1, <2>2, <2>4, <2>5, HeldStays
<1> QED
  BY <1>6, <1>7

\* A session begins with the return of a sync.
LEMMA SessionBegins ==
    ASSUME Steady, OrderInv, NEW c \in Callers, Call(c) \/ Step(c) \/ Failure(c),
           session' # session, session' # NoDevice
    PROVE  Returns(c, "sync") /\ session' = dev[c] /\ [Next]_vars
<1>0. /\ TypeInv /\ pc \in [Callers -> Points]
      /\ result \in [Callers -> {"none", "ok", "error"}]
  BY DEF OrderInv, TypeInv, TypeOK
<1>1. ~Call(c)
  BY DEF Call, CallSync, CallLogout, CallImport, CallRemove, CallList
<1>2. ~Failure(c)
  BY SteadyOrderly DEF Failure, ReadDirFails, RemoveFails, WrapFails, OpenFails,
     WriteFails, Crash, Fault, Return
<1>3. Write(c)
  BY <1>0, <1>1, <1>2 DEF Step, FetchOk, FetchFails, ReadDir, RemoveNext,
     RemoveDone, Wrap, Open, Glob, ListRaw, ListStat, ListDone, Return, TypeInv, CallOK
<1>4. Return(c, "ok")
  BY <1>3 DEF Write, AfterWrite, GoOn
<1>5. op[c] = "sync" /\ session' = dev[c]
  BY <1>4 DEF Return
<1>6. pc'[c] = "idle" /\ result'[c] = "ok"
  BY <1>0, <1>4 DEF Return
<1> QED
  BY <1>3, <1>5, <1>6 DEF Returns, Idle, Next, Step, Write

\* A call that removes files for the user spares those of the session.
LEMMA SpareStep ==
    ASSUME Steady, OrderInv, NEW c \in Callers, Call(c) \/ Step(c) \/ Failure(c),
           SpareAt(c)
    PROVE  SpareAt(c)'
<1>0. /\ TypeInv /\ pc \in [Callers -> Points] /\ op \in [Callers -> Ops]
      /\ todo \in [Callers -> SUBSET Files] /\ session \in Devices \cup {NoDevice}
  BY DEF OrderInv, TypeInv, TypeOK
<1>1. CASE Call(c)
  <2>1. CASE CallLogout(c)
    BY <1>0, <2>1 DEF CallLogout, Begin, SpareAt
  <2>2. ASSUME NEW n \in Names, CallRemove(c, n)
        PROVE  SpareAt(c)'
    <3>1. /\ op'[c] = "rm" /\ \A f \in todo'[c] : f[2] = n
          /\ session' = NoDevice \/ (session' = session /\ BundleName[session] # n)
                                 \/ (session' = session /\ session = NoDevice)
      BY <1>0, <2>2 DEF CallRemove, Begin
    <3> QED
      BY <3>1 DEF SpareAt
  <2>3. ASSUME NEW d \in Devices, CallSync(c, d)
        PROVE  SpareAt(c)'
    BY <1>0, <2>3 DEF CallSync, Begin, SpareAt
  <2>4. ASSUME NEW n \in ImportNames, CallImport(c, n)
        PROVE  SpareAt(c)'
    BY <1>0, <2>4 DEF CallImport, Begin, SpareAt
  <2>5. CASE CallList(c)
    BY <1>0, <2>5 DEF CallList, Begin, SpareAt
  <2> QED
    BY <1>1, <2>1, <2>2, <2>3, <2>4, <2>5 DEF Call
<1>2. CASE ReadDir(c)
  BY <1>0, <1>2 DEF ReadDir, SpareAt, TypeInv, CallOK
<1>3. CASE RemoveNext(c)
  <2>1. op' = op /\ session' = session /\ todo'[c] \subseteq todo[c]
    BY <1>0, <1>3 DEF RemoveNext
  <2> QED
    BY <2>1 DEF SpareAt
<1>4. CASE Step(c) /\ ~ReadDir(c) /\ ~RemoveNext(c)
  <2>1. op'[c] \notin {"logout", "rm"}
    BY <1>0, <1>4 DEF Step, FetchOk, FetchFails, RemoveDone, Wrap, Open, Write,
       AfterWrite, GoOn, Return, Glob, ListRaw, ListStat, ListDone, TypeInv, CallOK
  <2> QED
    BY <2>1 DEF SpareAt
<1>5. CASE Failure(c)
  <2>1. op'[c] = "none"
    BY <1>0, <1>5, SteadyOrderly DEF Failure, ReadDirFails, RemoveFails, WrapFails,
       OpenFails, WriteFails, Crash, Fault, Return
  <2> QED
    BY <2>1 DEF SpareAt
<1> QED
  BY <1>1, <1>2, <1>3, <1>4, <1>5

\* Every step preserves SessionInv.
LEMMA SessionNext ==
    ASSUME Steady, FaultKinds = {}, NamesApart
    PROVE  SteadyInv /\ SessionInv /\ [Next]_vars => SessionInv'
<1> SUFFICES ASSUME SteadyInv, SessionInv, [Next]_vars
             PROVE  SessionInv'
  OBVIOUS
<1>0. /\ TypeInv /\ MarkInv /\ OrderInv /\ disk \in [Files -> Contents]
      /\ session \in Devices \cup {NoDevice}
  BY DEF SteadyInv, OrderInv, TypeInv, TypeOK
<1>1. ASSUME NEW c \in Callers, Call(c) \/ Step(c) \/ Failure(c)
      PROVE  SessionInv'
  <2>1. \A k \in Callers : k # c => op'[k] = "none"
    BY <1>0, <1>1, OthersIdle, SteadyOrderly
  <2>2. SpareAt(c)'
    BY <1>0, <1>1, SpareStep DEF SessionInv
  <2>3. \A k \in Callers : SpareAt(k)'
    BY <2>1, <2>2 DEF SpareAt
  <2>4. ASSUME session' # NoDevice, Unreplaced'
        PROVE  Held(session)'
    <3>1. CASE session' = session
      BY <1>1, <2>4, <3>1, HeldStep
    <3>2. CASE session' # session
      <4>1. Returns(c, "sync") /\ session' = dev[c]
        BY <1>0, <1>1, <2>4, <3>2, SessionBegins
      <4>2. PICK d : d = dev[c]
        OBVIOUS
      <4>3. (\E r \in 0..MaxRev :
                Installed(disk', d, [origin |-> "cloud", dev |-> d, rev |-> r]))
            /\ Marked' = {BundleName[d]}
        BY <1>0, <4>1, <4>2, SyncHolds
      <4> QED
        BY <4>1, <4>2, <4>3 DEF Held
    <3> QED
      BY <3>1, <3>2
  <2> QED
    BY <2>3, <2>4 DEF SessionInv
<1>2. ASSUME pc' = pc, op' = op, todo' = todo, session' = session, Marked' = Marked,
             \A f \in Files : f[1] # "disabled" => disk'[f] = disk[f]
      PROVE  SessionInv'
  <2>1. \A k \in Callers : SpareAt(k)'
    BY <1>2 DEF SessionInv, SpareAt
  <2>2. ASSUME session' # NoDevice, Unreplaced'
        PROVE  Held(session)'
    <3>1. PICK d \in Devices : d = session
      BY <1>0, <1>2, <2>2
    <3>2. Held(d)
      BY <1>2, <2>2, <3>1 DEF SessionInv, Unreplaced
    <3>3. BundleName[d] \in Names
      BY NamesAssumption
    <3>4. Held(d)'
      BY <1>2, <3>2, <3>3, HeldStays, SyncFiles
    <3> QED
      BY <1>2, <3>1, <3>4 DEF Held
  <2> QED
    BY <2>1, <2>2 DEF SessionInv
<1>3. CASE Publish
  BY <1>2, <1>3, SameMarks DEF Publish, callerVars
<1>4. ASSUME NEW n \in Names, Disable(n)
      PROVE  SessionInv'
  <2>1. <<"disabled", n>> \in Files
    BY DEF Files, Suffixes
  <2>2. Marked' = Marked
    BY <1>0, <1>4, <2>1, TouchedMarks DEF Disable
  <2>3. \A f \in Files : f[1] # "disabled" => disk'[f] = disk[f]
    BY <1>0, <1>4 DEF Disable
  <2> QED
    BY <1>2, <1>4, <2>2, <2>3 DEF Disable, callerVars
<1>5. CASE UNCHANGED vars
  BY <1>2, <1>5, SameMarks DEF vars, callerVars
<1> QED
  BY <1>1, <1>3, <1>4, <1>5 DEF Next

\* SessionIntact holds for calls that do not overlap and in which nothing fails but
\* Fetch, where no imported bundle shares its file with a synced one: a device that
\* has synced and not logged out owns one whole cloud bundle, and the only marker.
THEOREM SessionStaysIntact ==
    ASSUME Steady, FaultKinds = {}, NamesApart
    PROVE  Spec => []SessionIntact
<1>1. Init => SessionInv
  BY DEF Init, SessionInv, SpareAt
<1>2. SteadyInv /\ SessionInv /\ [Next]_vars => SessionInv'
  BY SessionNext
<1>3. SteadyInv /\ SessionInv => SessionIntact
  <2> SUFFICES ASSUME SteadyInv, SessionInv, session # NoDevice,
                      \A c \in Callers : Idle(c)
               PROVE  Held(session)
    BY DEF SessionIntact, Held
  <2>1. \A c \in Callers : op[c] = "none"
    BY DEF SteadyInv, OrderInv, TypeInv, CallOK, Idle
  <2> QED
    BY <2>1 DEF SessionInv, Unreplaced
<1>4. Spec => []SteadyInv
  BY SteadyInvariant
<1> QED
  BY <1>1, <1>2, <1>3, <1>4, PTL DEF Spec
=============================================================================
