----------------------------- MODULE CloudStore -----------------------------
(***************************************************************************)
(* The profile store of the Go core (src/go/core.go over                   *)
(* src/go/profile/store.go): a flat directory that holds, for every bundle *)
(* name n,                                                                 *)
(*                                                                         *)
(*    n.pharos    the bundle itself                                        *)
(*    n.synced    the marker that makes it a cloud bundle                  *)
(*    n.pharosid  the device identity it was synced with                   *)
(*    n.disabled  a flag the desktop application keeps next to it          *)
(*                                                                         *)
(* and the operations that change or read it: SyncAndStore / Enroll (their *)
(* common part syncBundle), Logout, ImportBundle, ListProfiles and the     *)
(* command `caravel rm`.  The directory has no lock and nothing is written *)
(* atomically, so the model takes one step per system call, and several    *)
(* callers (threads of the app, or CLI processes) interleave.              *)
(***************************************************************************)
EXTENDS Naturals, FiniteSets

CONSTANTS
    Names,        \* bundle names; naturals, in the order ReadDir sorts them
    Stem,         \* Stem[n] is n without a trailing ".pharos" (Store.path)
    ImportNames,  \* the names ImportBundle is called with
    Devices,      \* device identities (.pharosid files) that may be synced
    BundleName,   \* BundleName[d] is the name a sync of d stores under
    Callers,      \* threads or processes that call the core
    Serial,       \* TRUE when the application never overlaps two calls
    FaultKinds,   \* which of "crash", "write", "remove", "json" may happen
    MaxFaults,    \* bound: how many of them
    MaxRev,       \* bound: revisions the controller publishes
    NoFile,       \* the file does not exist
    Torn,         \* the file exists but is truncated or half written
    NoDevice      \* no identity

ASSUME NamesAssumption ==
    /\ Names \subseteq Nat
    /\ Stem \in [Names -> Names]
    /\ ImportNames \subseteq Names
    /\ BundleName \in [Devices -> Names]

ASSUME BoundsAssumption ==
    /\ Serial \in BOOLEAN
    /\ FaultKinds \subseteq {"crash", "write", "remove", "json"}
    /\ MaxFaults \in Nat
    /\ MaxRev \in Nat

-----------------------------------------------------------------------------
(* Files and what they hold. *)

Suffixes == {"pharos", "synced", "disabled", "pharosid"}

Files == Suffixes \X Names

\* Store.path: the one place that trims ".pharos" from the name it is given.
BundlePath(n) == <<"pharos", Stem[n]>>

\* syncedPath and pidPath join the name and the suffix as they are.
SyncedPath(n) == <<"synced", n>>
PidPath(n) == <<"pharosid", n>>

\* What one sync writes, to each of the three files it writes.
CloudData == [origin : {"cloud"}, dev : Devices, rev : 0..MaxRev]
ImportData == [origin |-> "import"]
FlagData == [origin |-> "platform"]
Data == CloudData \cup {ImportData, FlagData}

\* The bytes of a file as the readers of the core can tell them apart.
Contents == Data \cup {NoFile, Torn}

\* A missing file, a torn one and one that can be read are told apart.
ASSUME ContentsAssumption ==
    /\ NoFile \notin Data \cup Files \cup {Torn}
    /\ Torn \notin Data
    /\ NoDevice \notin Devices

-----------------------------------------------------------------------------
VARIABLES
    disk,      \* the directory: Files -> Contents
    revision,  \* the revision of the account's profile on the controller
    pc,        \* where each caller is
    op,        \* the operation it runs
    dev,       \* the identity its sync was called with
    data,      \* the bytes it is about to write, or has read
    file,      \* the file it has open or is about to open
    linked,    \* whether the file it has open is still in the directory
    todo,      \* the files it has still to remove or to list
    listing,   \* the rows its ListProfiles has collected
    result,    \* how its last call ended
    session,   \* the platform's view: the identity last synced, or NoDevice
    faults     \* faults injected so far

callerVars == <<pc, op, dev, data, file, linked, todo, listing, result>>
vars == <<disk, revision, callerVars, session, faults>>

Points == {"idle", "fetch", "readdir", "remove", "open", "write",
           "glob", "raw", "stat"}
Ops == {"none", "sync", "logout", "import", "rm", "list"}
Rows == [name : Names, data : Data, cloud : BOOLEAN]

Exists(f) == disk[f] # NoFile
Complete(f) == disk[f] \notin {NoFile, Torn}

\* isCloud: the marker's existence, whatever it contains.
IsCloud(n) == Exists(SyncedPath(n))

Marked == {n \in Names : IsCloud(n)}

Init ==
    /\ disk = [f \in Files |-> NoFile]
    /\ revision = 0
    /\ pc = [c \in Callers |-> "idle"]
    /\ op = [c \in Callers |-> "none"]
    /\ dev = [c \in Callers |-> NoDevice]
    /\ data = [c \in Callers |-> FlagData]
    /\ file = [c \in Callers |-> NoFile]
    /\ linked = [c \in Callers |-> FALSE]
    /\ todo = [c \in Callers |-> {}]
    /\ listing = [c \in Callers |-> {}]
    /\ result = [c \in Callers |-> "none"]
    /\ session = NoDevice
    /\ faults = 0

-----------------------------------------------------------------------------
(* Beginning and ending a call. *)

Idle(c) == pc[c] = "idle"

MayCall(c) ==
    /\ Idle(c)
    /\ Serial => \A k \in Callers : Idle(k)

\* A call of operation o begins at point p.
Begin(c, o, p) ==
    /\ MayCall(c)
    /\ op' = [op EXCEPT ![c] = o]
    /\ pc' = [pc EXCEPT ![c] = p]
    /\ result' = [result EXCEPT ![c] = "none"]

\* The call of c returns r to the application; its locals are gone.
Return(c, r) ==
    /\ pc' = [pc EXCEPT ![c] = "idle"]
    /\ file' = [file EXCEPT ![c] = NoFile]
    /\ linked' = [linked EXCEPT ![c] = FALSE]
    /\ todo' = [todo EXCEPT ![c] = {}]
    /\ result' = [result EXCEPT ![c] = r]
    /\ session' = IF op[c] = "sync" /\ r = "ok" THEN dev[c] ELSE session
    /\ op' = [op EXCEPT ![c] = "none"]
    /\ dev' = [dev EXCEPT ![c] = NoDevice]
    /\ data' = [data EXCEPT ![c] = FlagData]
    /\ listing' = [listing EXCEPT ![c] = {}]

Fault(kind) ==
    /\ kind \in FaultKinds
    /\ faults < MaxFaults
    /\ faults' = faults + 1

-----------------------------------------------------------------------------
(* SyncAndStore and Enroll, up to the store: Fetch. *)

CallSync(c, d) ==
    /\ Begin(c, "sync", "fetch")
    /\ dev' = [dev EXCEPT ![c] = d]
    /\ UNCHANGED <<disk, revision, data, file, linked, todo, listing, session,
                   faults>>

\* Mutant: the revision is counted on the device, off by one.
FetchOk_Counted(c) ==
    /\ pc[c] = "fetch"
    /\ pc' = [pc EXCEPT ![c] = "readdir"]
    /\ data' = [data EXCEPT ![c] =
                  [origin |-> "cloud", dev |-> dev[c], rev |-> revision + 1]]
    /\ UNCHANGED <<disk, revision, op, dev, file, linked, todo, listing,
                   result, session, faults>>

\* Fetch answers with the revision current when GetProfile reached the
\* controller; what the caller does next may come much later.
FetchOk(c) ==
    /\ pc[c] = "fetch"
    /\ pc' = [pc EXCEPT ![c] = "readdir"]
    /\ data' = [data EXCEPT ![c] =
                  [origin |-> "cloud", dev |-> dev[c], rev |-> revision]]
    /\ UNCHANGED <<disk, revision, op, dev, file, linked, todo, listing,
                   result, session, faults>>

\* Mutant: the replace-all purge comes before the error check of Fetch.
FetchFails_Purged(c) ==
    /\ pc[c] = "fetch"
    /\ Return(c, "error")
    /\ disk' = [f \in Files |-> IF IsCloud(f[2]) THEN NoFile ELSE disk[f]]
    /\ UNCHANGED <<revision, faults>>

\* Any error of Fetch, its 45 s timeout included: nothing was touched yet.
FetchFails(c) ==
    /\ pc[c] = "fetch"
    /\ Return(c, "error")
    /\ UNCHANGED <<disk, revision, faults>>

-----------------------------------------------------------------------------
(* purgeCloud and `caravel rm`: removal, one os.Remove per step. *)

CallLogout(c) ==
    /\ Begin(c, "logout", "readdir")
    /\ session' = NoDevice
    /\ UNCHANGED <<disk, revision, dev, data, file, linked, todo, listing,
                   faults>>

\* Mutants: the identity is missing from the suffix list, as in cmdRemove the
\* flag is; the sidecars are removed and the bundle is not.
PurgeFiles_NoPid(S) == {"pharos", "synced", "disabled"} \X S
PurgeFiles_Sidecars(S) == {"synced", "disabled", "pharosid"} \X S

\* The files purgeCloud removes for the markers S it saw.
PurgeFiles(S) == Suffixes \X S

\* Mutants: the loop goes over *.pharos; a marker without its bundle is skipped.
ReadDir_Bundles(c) ==
    /\ pc[c] = "readdir"
    /\ todo' = [todo EXCEPT ![c] =
                  PurgeFiles({n \in Names : Exists(<<"pharos", n>>)})]
    /\ pc' = [pc EXCEPT ![c] = "remove"]
    /\ UNCHANGED <<disk, revision, op, dev, data, file, linked, listing,
                   result, session, faults>>

ReadDir_SkipOrphan(c) ==
    /\ pc[c] = "readdir"
    /\ todo' = [todo EXCEPT ![c] =
                  PurgeFiles({n \in Marked : Exists(<<"pharos", n>>)})]
    /\ pc' = [pc EXCEPT ![c] = "remove"]
    /\ UNCHANGED <<disk, revision, op, dev, data, file, linked, listing,
                   result, session, faults>>

\* os.ReadDir: the markers present now are the ones that will be purged.
ReadDir(c) ==
    /\ pc[c] = "readdir"
    /\ todo' = [todo EXCEPT ![c] = PurgeFiles(Marked)]
    /\ pc' = [pc EXCEPT ![c] = "remove"]
    /\ UNCHANGED <<disk, revision, op, dev, data, file, linked, listing,
                   result, session, faults>>

\* ReadDir's error makes purgeCloud return 0, which its callers do not look at.
ReadDirFails(c) ==
    /\ pc[c] = "readdir"
    /\ Fault("remove")
    /\ pc' = [pc EXCEPT ![c] = "remove"]
    /\ UNCHANGED <<disk, revision, op, dev, data, file, linked, todo, listing,
                   result, session>>

\* cmdRemove: three of the four suffixes of the name on the command line.
CallRemove(c, n) ==
    /\ Begin(c, "rm", "remove")
    /\ todo' = [todo EXCEPT ![c] = {"pharos", "synced", "pharosid"} \X {n}]
    /\ session' = IF session # NoDevice /\ BundleName[session] = n
                  THEN NoDevice ELSE session
    /\ UNCHANGED <<disk, revision, dev, data, file, linked, listing, faults>>

SuffixRank == [s \in Suffixes |->
    CASE s = "pharos" -> 1 [] s = "synced" -> 2
      [] s = "disabled" -> 3 [] s = "pharosid" -> 4]

\* The order of the two nested loops: directory order, then suffix order.
Before(f, g) ==
    \/ f[2] < g[2]
    \/ f[2] = g[2] /\ SuffixRank[f[1]] <= SuffixRank[g[1]]

FirstOf(S) == CHOOSE f \in S : \A g \in S : Before(f, g)

\* os.Remove of f: a writer that has f open goes on writing to a file that is
\* no longer in the directory.
Unlink(f) ==
    /\ disk' = [disk EXCEPT ![f] = NoFile]
    /\ linked' = [k \in Callers |-> linked[k] /\ file[k] # f]

RemoveNext(c) ==
    /\ pc[c] = "remove"
    /\ todo[c] # {}
    /\ LET f == FirstOf(todo[c])
       IN  /\ Unlink(f)
           /\ todo' = [todo EXCEPT ![c] = @ \ {f}]
    /\ UNCHANGED <<revision, pc, op, dev, data, file, listing, result, session,
                   faults>>

\* The errors of os.Remove are dropped.
RemoveFails(c) ==
    /\ pc[c] = "remove"
    /\ todo[c] # {}
    /\ Fault("remove")
    /\ todo' = [todo EXCEPT ![c] = @ \ {FirstOf(@)}]
    /\ UNCHANGED <<disk, revision, pc, op, dev, data, file, linked, listing,
                   result, session>>

\* Logout and rm end here.
RemoveDone(c) ==
    /\ pc[c] = "remove"
    /\ todo[c] = {}
    /\ op[c] \in {"logout", "rm"}
    /\ Return(c, "ok")
    /\ UNCHANGED <<disk, revision, faults>>

-----------------------------------------------------------------------------
(* Store.Import and the two sidecars. *)

\* WrapPlaintext succeeds and store.Import is called with the bundle's name.
Wrap(c) ==
    /\ pc[c] = "remove"
    /\ todo[c] = {}
    /\ op[c] = "sync"
    /\ pc' = [pc EXCEPT ![c] = "open"]
    /\ file' = [file EXCEPT ![c] = BundlePath(BundleName[dev[c]])]
    /\ UNCHANGED <<disk, revision, op, dev, data, linked, todo, listing,
                   result, session, faults>>

\* The decrypted profile is not JSON: found out after the purge.
WrapFails(c) ==
    /\ pc[c] = "remove"
    /\ todo[c] = {}
    /\ op[c] = "sync"
    /\ Fault("json")
    /\ Return(c, "error")
    /\ UNCHANGED <<disk, revision>>

\* ImportBundle, once the file was read and its header accepted.
CallImport(c, n) ==
    /\ Begin(c, "import", "open")
    /\ data' = [data EXCEPT ![c] = ImportData]
    /\ file' = [file EXCEPT ![c] = BundlePath(n)]
    /\ UNCHANGED <<disk, revision, dev, linked, todo, listing, session, faults>>

\* The call of c goes on to its next os.WriteFile, of f.
GoOn(c, f) ==
    /\ pc' = [pc EXCEPT ![c] = "open"]
    /\ file' = [file EXCEPT ![c] = f]
    /\ linked' = [linked EXCEPT ![c] = FALSE]
    /\ UNCHANGED <<op, dev, data, todo, listing, result, session>>

\* Mutant: the identity is not written again.
AfterWrite_NoPid(c, r) ==
    IF file[c][1] = "pharos" /\ op[c] = "sync" /\ r = "ok"
    THEN GoOn(c, SyncedPath(BundleName[dev[c]]))
    ELSE Return(c, r)

\* What follows the write of file[c], whose outcome was r: an error of
\* store.Import ends the call, an error of a sidecar is dropped.
AfterWrite(c, r) ==
    \/ /\ file[c][1] = "pharos"
       /\ op[c] = "sync"
       /\ r = "ok"
       /\ GoOn(c, SyncedPath(BundleName[dev[c]]))
    \/ /\ file[c][1] = "pharos"
       /\ op[c] = "import" \/ r = "error"
       /\ Return(c, r)
    \/ /\ file[c][1] = "synced"
       /\ GoOn(c, PidPath(BundleName[dev[c]]))
    \/ /\ file[c][1] = "pharosid"
       /\ Return(c, "ok")

\* os.WriteFile opens with O_CREATE and O_TRUNC ...
Open(c) ==
    /\ pc[c] = "open"
    /\ disk' = [disk EXCEPT ![file[c]] = Torn]
    /\ linked' = [linked EXCEPT ![c] = TRUE]
    /\ pc' = [pc EXCEPT ![c] = "write"]
    /\ UNCHANGED <<revision, op, dev, data, file, todo, listing, result,
                   session, faults>>

OpenFails(c) ==
    /\ pc[c] = "open"
    /\ Fault("write")
    /\ AfterWrite(c, "error")
    /\ UNCHANGED <<disk, revision>>

\* ... then writes from offset 0.  Bytes another caller wrote to the same file
\* meanwhile are overwritten, and may stick out behind a shorter text.
Write(c) ==
    /\ pc[c] = "write"
    /\ IF linked[c]
       THEN \E text \in {data[c]} \cup
                  (IF disk[file[c]] \in {Torn, data[c]} THEN {} ELSE {Torn}) :
               disk' = [disk EXCEPT ![file[c]] = text]
       ELSE UNCHANGED disk
    /\ AfterWrite(c, "ok")
    /\ UNCHANGED <<revision, faults>>

\* The write itself fails (a full disk): the file stays as Open left it.
WriteFails(c) ==
    /\ pc[c] = "write"
    /\ Fault("write")
    /\ AfterWrite(c, "error")
    /\ UNCHANGED <<disk, revision>>

-----------------------------------------------------------------------------
(* ListProfiles. *)

CallList(c) ==
    /\ Begin(c, "list", "glob")
    /\ UNCHANGED <<disk, revision, dev, data, file, linked, todo, listing,
                   session, faults>>

\* Store.List: the glob of *.pharos.
Glob(c) ==
    /\ pc[c] = "glob"
    /\ todo' = [todo EXCEPT ![c] =
                  {f \in Files : f[1] = "pharos" /\ Exists(f)}]
    /\ pc' = [pc EXCEPT ![c] = "raw"]
    /\ UNCHANGED <<disk, revision, op, dev, data, file, linked, listing, result,
                   session, faults>>

\* store.Raw and Parse: a bundle that has gone or does not parse is skipped.
ListRaw(c) ==
    /\ pc[c] = "raw"
    /\ todo[c] # {}
    /\ LET f == FirstOf(todo[c])
           path == BundlePath(f[2])
       IN  IF Complete(path)
           THEN /\ data' = [data EXCEPT ![c] = disk[path]]
                /\ pc' = [pc EXCEPT ![c] = "stat"]
                /\ UNCHANGED todo
           ELSE /\ todo' = [todo EXCEPT ![c] = @ \ {f}]
                /\ UNCHANGED <<data, pc>>
    /\ UNCHANGED <<disk, revision, op, dev, file, linked, listing, result,
                   session, faults>>

\* Mutant: the stat is of the bundle, not of its marker.
ListStat_Bundle(c) ==
    /\ pc[c] = "stat"
    /\ LET f == FirstOf(todo[c])
           row == [name |-> f[2], data |-> data[c], cloud |-> Exists(f)]
       IN  /\ listing' = [listing EXCEPT ![c] = @ \cup {row}]
           /\ todo' = [todo EXCEPT ![c] = @ \ {f}]
    /\ pc' = [pc EXCEPT ![c] = "raw"]
    /\ UNCHANGED <<disk, revision, op, dev, data, file, linked, result, session,
                   faults>>

\* isCloud, and the row is appended.
ListStat(c) ==
    /\ pc[c] = "stat"
    /\ LET f == FirstOf(todo[c])
           row == [name |-> f[2], data |-> data[c], cloud |-> IsCloud(f[2])]
       IN  /\ listing' = [listing EXCEPT ![c] = @ \cup {row}]
           /\ todo' = [todo EXCEPT ![c] = @ \ {f}]
    /\ pc' = [pc EXCEPT ![c] = "raw"]
    /\ UNCHANGED <<disk, revision, op, dev, data, file, linked, result, session,
                   faults>>

ListDone(c) ==
    /\ pc[c] = "raw"
    /\ todo[c] = {}
    /\ Return(c, "ok")
    /\ UNCHANGED <<disk, revision, faults>>

-----------------------------------------------------------------------------
(* The environment. *)

\* The process of c dies; what it had done to the directory stays.
Crash(c) ==
    /\ ~Idle(c)
    /\ Fault("crash")
    /\ Return(c, "none")
    /\ UNCHANGED <<disk, revision>>

\* The controller publishes a new revision of the profile.
Publish ==
    /\ revision < MaxRev
    /\ revision' = revision + 1
    /\ UNCHANGED <<disk, callerVars, session, faults>>

\* The desktop application disables a stored bundle.
Disable(n) ==
    /\ Exists(<<"pharos", n>>)
    /\ disk' = [disk EXCEPT ![<<"disabled", n>>] = FlagData]
    /\ UNCHANGED <<revision, callerVars, session, faults>>

-----------------------------------------------------------------------------
Call(c) ==
    \/ \E d \in Devices : CallSync(c, d)
    \/ CallLogout(c)
    \/ \E n \in ImportNames : CallImport(c, n)
    \/ \E n \in Names : CallRemove(c, n)
    \/ CallList(c)

\* A step a running call takes by itself.
Step(c) ==
    \/ FetchOk(c)
    \/ FetchFails(c)
    \/ ReadDir(c)
    \/ RemoveNext(c)
    \/ RemoveDone(c)
    \/ Wrap(c)
    \/ Open(c)
    \/ Write(c)
    \/ Glob(c)
    \/ ListRaw(c)
    \/ ListStat(c)
    \/ ListDone(c)

Failure(c) ==
    \/ ReadDirFails(c)
    \/ RemoveFails(c)
    \/ WrapFails(c)
    \/ OpenFails(c)
    \/ WriteFails(c)
    \/ Crash(c)

Next ==
    \/ \E c \in Callers : Call(c) \/ Step(c) \/ Failure(c)
    \/ Publish
    \/ \E n \in Names : Disable(n)

Spec == Init /\ [][Next]_vars

-----------------------------------------------------------------------------
(* Where a call can be: the facts TypeOK needs to be inductive. *)

CallOK ==
    \A c \in Callers :
        /\ pc[c] = "idle" => op[c] = "none"
        /\ pc[c] = "fetch" => op[c] = "sync"
        /\ pc[c] = "readdir" => op[c] \in {"sync", "logout"}
        /\ pc[c] = "remove" => op[c] \in {"sync", "logout", "rm"}
        /\ pc[c] \in {"open", "write"} =>
              /\ op[c] \in {"sync", "import"}
              /\ file[c] \in Files
              /\ op[c] = "import" => file[c][1] = "pharos"
        /\ pc[c] \in {"glob", "raw", "stat"} => op[c] = "list"
        /\ pc[c] = "stat" => todo[c] # {}
        /\ op[c] = "sync" => dev[c] \in Devices

-----------------------------------------------------------------------------
(* Properties. *)

\* Every variable has its type; in particular a file only ever holds what one
\* of the writers of core.go puts there.
TypeOK ==
    /\ disk \in [Files -> Contents]
    /\ revision \in 0..MaxRev
    /\ pc \in [Callers -> Points]
    /\ op \in [Callers -> Ops]
    /\ dev \in [Callers -> Devices \cup {NoDevice}]
    /\ data \in [Callers -> Data]
    /\ file \in [Callers -> Files \cup {NoFile}]
    /\ linked \in [Callers -> BOOLEAN]
    /\ todo \in [Callers -> SUBSET Files]
    /\ listing \in [Callers -> SUBSET Rows]
    /\ result \in [Callers -> {"none", "ok", "error"}]
    /\ session \in Devices \cup {NoDevice}
    /\ faults \in 0..MaxFaults

CloudBundles ==
    {n \in Names : Complete(<<"pharos", n>>)
                   /\ disk[<<"pharos", n>>].origin = "cloud"}

\* The names a cloud bundle or its sidecars may have on disk.
CloudNames == {BundleName[d] : d \in Devices}
                \cup {Stem[BundleName[d]] : d \in Devices}

\* No imported bundle shares its file with a synced one.
NamesApart == \A n \in ImportNames : Stem[n] \notin CloudNames

\* This step is the return of c's call of operation o with success.
Returns(c, o) ==
    /\ ~Idle(c)
    /\ op[c] = o
    /\ pc'[c] = "idle"
    /\ result'[c] = "ok"

\* In directory dir, the three files a sync of d writes all hold x.
Installed(dir, d, x) ==
    /\ dir[BundlePath(BundleName[d])] = x
    /\ dir[SyncedPath(BundleName[d])] = x
    /\ dir[PidPath(BundleName[d])] = x

\* Between calls, a device that has synced and has not logged out owns one
\* complete cloud bundle whose marker and identity come from the same sync, and
\* no other name is marked: in particular a sync that failed in Fetch left the
\* previous profile in place, because syncBundle purges only after Fetch.
SessionIntact ==
    (session # NoDevice /\ \A c \in Callers : Idle(c)) =>
        /\ \E r \in 0..MaxRev :
              Installed(disk, session,
                        [origin |-> "cloud", dev |-> session, rev |-> r])
        /\ Marked = {BundleName[session]}

\* At most one name carries a .synced marker, at every moment: purgeCloud runs
\* before the new marker is written, whatever crashes came before.
OneMarked == \A m, n \in Marked : m = n

\* A sync that returns success has installed bundle, marker and identity of the
\* revision it fetched, and its marker is the only one.
SyncInstalls ==
    [][\A c \in Callers : Returns(c, "sync") =>
          Installed(disk', dev[c], data[c]) /\ Marked' = {BundleName[dev[c]]}]_vars

\* SyncAndStore "REPLACES the whole cloud-synced set": when it returns success
\* the one cloud bundle in the store is the one it fetched.
ReplacesCloudSet ==
    [][\A c \in Callers : Returns(c, "sync") =>
          /\ CloudBundles' = {Stem[BundleName[dev[c]]]}
          /\ disk'[BundlePath(BundleName[dev[c]])] = data[c]]_vars

\* "Logout removes all cloud-synced profiles": when it returns the store holds
\* no cloud bundle, no marker and no device identity.
LogoutForgets ==
    [][\A c \in Callers : Returns(c, "logout") =>
          /\ CloudBundles' = {}
          /\ \A n \in Names : /\ disk'[SyncedPath(n)] = NoFile
                              /\ disk'[PidPath(n)] = NoFile]_vars

\* "Imported profiles (no marker) are kept": an imported bundle leaves the
\* store, or changes, only by `caravel rm` of its file or by importing over it,
\* whatever syncs and logouts run, fail or crash next to it.
ImportsKept ==
    [][\A n \in ImportNames :
          disk[BundlePath(n)] = ImportData =>
             \/ disk'[BundlePath(n)] = ImportData
             \/ \E c \in Callers :
                   \/ op[c] = "rm" /\ BundlePath(n) \in todo[c] \ todo'[c]
                   \/ op[c] = "import" /\ pc[c] = "open"
                                       /\ file[c] = BundlePath(n)]_vars

\* ListProfiles reads the bundle and stats the marker in two steps; between
\* calls that do not overlap each row says truly where its bundle came from.
ListingTruthful ==
    \A c \in Callers : \A row \in listing[c] :
        row.cloud <=> row.data.origin = "cloud"

\* Even while syncs and logouts of other callers run, a listing never shows an
\* imported bundle as a cloud one.
ImportsListedLocal ==
    \A c \in Callers : \A row \in listing[c] :
        row.data.origin = "import" => ~row.cloud

\* The store as its readers see it: ListProfiles shows a bundle with a marker as
\* the account's, ControllerStatus takes the account's revision from the marker,
\* and an imported bundle is one wherever an import can put it.
Account == INSTANCE AccountStore WITH
    Bundles <- CloudData,
    Places <- {BundlePath(n) : n \in ImportNames},
    Calls <- Ops \ {"none"},
    account <- {disk[BundlePath(n)] :
                  n \in {m \in Marked : Complete(BundlePath(m))}},
    status <- {disk[SyncedPath(n)] :
                 n \in {m \in Marked : /\ Complete(BundlePath(m))
                                       /\ Complete(SyncedPath(m))}},
    imported <- {p \in {BundlePath(n) : n \in ImportNames} : disk[p] = ImportData},
    current <- revision,
    running <- {op[c] : c \in Callers} \ {"none"}

\* The directory implements the abstract store, also when purges and writes are
\* cut short by crashes: no reader ever finds two account bundles, or a marker
\* that speaks of another bundle than the one beside it, and a sync or a logout
\* never changes an imported bundle.  (The identity is not part of it: a purge
\* that was cut short can leave an old .pharosid next to the next bundle.)
ImplementsAccountStore == Account!Spec

-----------------------------------------------------------------------------
(* The strengthening of ImportsKept and ImportsListedLocal: which names the *)
(* calls of each kind can reach, when NamesApart holds.                     *)

SyncNames == {BundleName[d] : d \in Devices}

\* Only a name some sync stored under is ever marked, so only such names are
\* purged.
MarkersFromSyncs ==
    /\ \A n \in Names : IsCloud(n) => n \in SyncNames
    /\ \A c \in Callers :
          /\ Idle(c) => todo[c] = {}
          /\ op[c] \in {"sync", "logout"} =>
                \A f \in todo[c] : f[2] \in SyncNames

\* A sync writes the three files of its own name and cloud data; an import
\* writes its one bundle.
WritersInBounds ==
    \A c \in Callers :
        /\ (op[c] = "sync" /\ pc[c] \in {"open", "write"}) =>
              LET b == BundleName[dev[c]]
              IN  /\ file[c] \in {BundlePath(b), SyncedPath(b), PidPath(b)}
                  /\ data[c] \in CloudData
        /\ (op[c] = "sync" /\ pc[c] \in {"readdir", "remove"}) =>
              data[c] \in CloudData
        /\ op[c] = "import" =>
              /\ data[c] = ImportData
              /\ \E n \in ImportNames : file[c] = BundlePath(n)

ImportPaths == {BundlePath(n) : n \in ImportNames}

\* Imported data is only found where an import put it, and a reader that holds
\* some read it there.
ImportsInPlace ==
    /\ \A f \in Files : disk[f] = ImportData => f \in ImportPaths
    /\ \A c \in Callers :
          /\ (pc[c] = "stat" /\ data[c] = ImportData) =>
                BundlePath(FirstOf(todo[c])[2]) \in ImportPaths
          /\ \A row \in listing[c] : row.data = ImportData => ~row.cloud

ImportInv == MarkersFromSyncs /\ WritersInBounds /\ ImportsInPlace

-----------------------------------------------------------------------------
(* The strengthening of OneMarked, for calls that do not overlap. *)

OneActive == \A c, k \in Callers : Idle(c) \/ Idle(k) \/ c = k

\* Between ReadDir and the new marker the old ones are gone or about to go.
PurgePrecedesMark ==
    \A c \in Callers :
        /\ (pc[c] = "remove" /\ op[c] \in {"sync", "logout"}) =>
              \A n \in Marked : SyncedPath(n) \in todo[c]
        /\ (pc[c] = "open" /\ op[c] = "sync" /\ file[c][1] # "pharosid") =>
              Marked = {}
        /\ (pc[c] = "write" /\ op[c] = "sync" /\ file[c][1] = "pharos") =>
              Marked = {}
        /\ (pc[c] = "write" /\ op[c] = "sync" /\ file[c][1] = "synced") =>
              Marked \subseteq {file[c][2]}

MarkInv == OneActive /\ PurgePrecedesMark /\ OneMarked
=============================================================================
