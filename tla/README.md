# TLA+ models of caravel

caravel is the client core of PharosVPN: a Go library (`src/go`) that enrolls a
device, syncs its profile from the controller, keeps profiles in a directory and
runs the tunnel, plus a headless command `caravel`. This directory holds
specifications of its stateful parts, the TLC configurations that check them on
small instances, and proofs checked by TLAPS.

## 1. Inventory

| component | source | state | operations | hard behaviour |
|---|---|---|---|---|
| profile store and cloud sync | `core.go`, `profile/store.go`, `cmd/caravel/main.go` (`cmdRemove`) | a flat directory with up to four files per bundle name | `ImportBundle`, `SyncAndStore` / `Enroll` (`syncBundle`), `Logout` (`purgeCloud`), `ListProfiles`, `caravel rm` | no lock, no atomic write, dropped errors, crash between any two system calls, several callers |
| tunnel handle | `vp/engine.go` | pointer to the device, RWMutex | `Close`, `Stats`, `IpcHandle`, `Wait` | any of them from many goroutines; the device is used after the lock is released |
| account sync | `sync/client.go`, `crypto/` | on the controller: wrapped account key, profile; on the device: one `Fetch` | `Authenticate`, `EnrollKeys`, `GetProfile`, unwrap, open | first devices racing, lost and late requests, an unverified passphrase |
| join-link enrollment | `enroll/`, `core.go` (`Enroll`) | one-time ticket on the controller; keys in memory; identity on disk at the very end | parse, claim, check, assemble, fetch, store | the ticket is spent by a request whose answer may be lost; devices sharing a link |
| Linux connect | `cmd/caravel/connect_linux.go` | tun device, routing table, undo list | `connect`, `configureNetwork`, `Close` | each `ip` command can fail; kill, engine exit and network change at any point |
| mobile session | `core.go` (`resolve`, `Prepare`, `Connect`, `Session`) | dup'd tun fd, one of two engines | `Connect`, `Stats`, `Stop` | unsynchronised `Stop`/`Stats`, ownership of the fd |
| XRay engine, tun2socks | `vp/xray.go`, `vp/tun2socks.go` | xray instance, loopback port, netstack, goroutines | `UpXRay`, `Close`, `Stats` | goroutines blocked in reads at stop |
| profile bundle | `profile/pharos.go` | none (pure) | `Parse`, `Select`, `Node`, `Tunnel`, `pickEndpoint`, `randPort` | defaults, fallbacks, random choice, ranges |
| device identity | `deviceid/` | none (pure) | `Parse`, `Marshal` | - |
| controller status | `core.go`, `sync/client.go` (`Reachable`) | none (reader) | `ControllerStatus`, `Reachable` | reads sidecars other calls rewrite |
| generated RPC code, build scripts | `gen/`, `scripts/` | - | - | - |

How they interact: `Enroll` and `SyncAndStore` call `Fetch`, and only when that
succeeded `purgeCloud` and then three `os.WriteFile`. `Enroll` calls `Claim`
first. `caravel connect` and `core.Connect` read a stored bundle and run
`vp.Tunnel`. The platform applications call the core from several threads, and
the command line is one process per call over the same directory.

What makes each part correct:

- store: a failed sync loses nothing; a successful one leaves exactly its own
  cloud bundle, marker and identity; logout leaves nothing of the account;
  imported bundles are never touched; listings say where a bundle came from;
- tunnel handle: one `device.Close`; no race on the pointer; nobody waits for
  ever, even while UAPI connections last;
- account sync: the account passphrase opens the account key on every device,
  whichever first device won, and that key the bundle, unless it was replaced;
- enrollment: a stored identity is registered and on one device only, and is
  given up only for a working one;
- host routes: the tunnel never carries its own packets, and disconnecting leaves
  no route behind;
- profile bundle: only the right secret opens it, under the header it was sealed
  with; a dial goes to the profile the user named, at its entry, to a port that
  exists; `Prepare` and `Connect` decide alike (but for the MTU of a cascade);
- mobile session and engines: the dup'd fd is closed once, a failed `Connect`
  lets go of it and of the engine, the apps' bytes go to the session's own proxy and are counted,
  and everything ends after `Stop`.

The hazards, each at its line, are listed in `PROJECT.json`.

## 2. Modules

**`CloudStore`** - the directory is a function from (suffix, name) to contents:
missing, torn, or data that says who wrote it. Every call is a small program
counter per caller; one step is one system call (`ReadDir`, each `os.Remove` in
the order of the code's loops, the open-with-truncate and the write of
`os.WriteFile`, each read and stat of a listing). `BundlePath` trims ".pharos" as
`Store.path` does, `SyncedPath` and `PidPath` do not. A file that is unlinked
while a writer has it open is no longer reachable (`linked`). `session` is what
the application believes: the identity of its last successful sync. Faults
(`FaultKinds`): "crash" of the process, "write" and "remove" errors, "json" for
a fetched profile that `WrapPlaintext` rejects. Synced data differs by device and
revision, so a mix of two syncs shows. `MCCloudStore` has the instances.

**`AccountStore`** - the abstract store, as its readers see it: one slot for the
account's bundle, the status of that slot, a set of imported bundles, the
controller's revision, and which operations run. The slot is filled in one step,
when it is empty, while a sync runs and never ahead of the controller; its status
is unknown at first and then that of the very bundle in it; only a sync, a logout
or a removal empties it. An import goes only while an import or a removal runs, so
a sync or a logout never touches one. `CloudStore` instantiates it (`Account`) with
a mapping from the directory: the slot holds the bundle of the marked name, the
status is what the marker says, a place holds an import when its file does.
`ImplementsAccountStore` is the refinement. The `.pharosid` is not part of it: a
purge cut short between `.synced` and `.pharosid` leaves an old identity, which the
next sync, cut short before its last write, leaves beside a new bundle.

**`TunnelHandle`** - the RWMutex is modelled with a pending writer that stops new
readers and with the batch of readers a writer lets in when it unlocks, since
that is what makes `Close` and `Stats` wait for each other. `Close` is the five
steps of its body; `device()` is lock, load, unlock; the use of the device comes
after it. `IpcHandle` may last for ever. Checked directly, without an MC module.

**`AccountSync`** - one `Fetch` per device and attempt, one step per RPC. Keys are
named by the device and the attempt that made them, a wrapped key records the
passphrase it was wrapped under, and `GetProfile` returns the bundle that is stored
with the blob of the key that is enrolled now. The controller is external: it may
take or refuse a second enrolment, seals the bundle to the enrolled key some time
after it got one (`Seal`), and so for a while has a bundle sealed to a key that was
replaced; a request the device gave up on may arrive later. `MCAccountSync` has
two devices with the right passphrase and others with a mistyped one.

**`Enrollment`** - one `Enroll` per device and attempt over a set of tickets, with
the answers of the controller reduced to what `claimRPC`, `Claim`,
`relayPin.verify` and `validateAssembled` look at. A claim the device gave up on
may arrive late or never. What a controller says to a spent ticket is not in the
repository; both a refusal and a repeated answer are possible in the model. The
store has the one name of the device's alias, and every step: `purgeCloud` finds
its work by the marker, removes bundle, marker and identity one by one and drops
every error, and each of the three writes may fail or be torn by a crash.

**`HostRoutes`** - the routing table maps destinations (the endpoint's /32, the two
halves, the prefixes of AllowedIPs, the default) to a gateway, the tunnel or
nothing; one step per `ip` command, each of which can fail. The kernel is
external: longest prefix wins, and a device that goes takes its routes with it.
`before` and `kept` are history variables for the properties.

**`ProfileDial`** - `profile/pharos.go` as operators (`Parse` with its three modes,
`Select`, `EntryNodeID`, `Node`, `Params`, `PickEndpoint`, `RandPort`), and the three
callers that dial: `Prepare`, `Connect` and `cmdConnect`. Where the code draws at
random, the operator is the set of what it may draw. An envelope is a header and a
body that records the key, and for password mode the header, it was sealed with;
so a rewritten header shows. A sync may replace the file between `Prepare` and
`Connect`. `MCProfileDial` enumerates bundles: cascades with marked, unmarked and
unlisted entries over nodes in both orders, pools at the ends of a small port
space (`MaxPort` for 65535), pairs of profiles whose names and ids clash or not,
and every header over every kind of body.

**`Session`** - `Connect` step by step, with who owns the dup'd fd (the raw number,
an `os.File`, the tun device) and how often close(2) was called on it; `UpXRay`
with the port that is free between `reserveLoopbackPort` and `Start`, where any
process may take it; the pumps as loops; and for every TCP flow the handler
(connect, SOCKS greeting, handshake with the app) and the two copiers of `splice`. `Stop` is one step for AmneziaWG
(`TunnelHandle` has its detail) and three for XRay, so that handlers and copiers
run between them. xray-core, the netstack and the tun driver are external. An
`inst.Start` that fails may have bound the port for TCP before; the instance is
dropped without `Close`, and keeps it.
`CallerCloses` says whether the caller of `UpXRay` may close the tun after `Close`.

`*Proofs` modules hold the theorems of the module they extend; `CloudStoreProofs` has
those of the store that need little of the calls' order, and `CloudSerialProofs`,
which extends it, those of calls that do not overlap. Operators whose
name ends in `_Something` and whose comment begins with "Mutant" are wrong
variants of the definition that follows, used to confirm that the checks notice.

## 3. Runs

Passing:

| run | instance | shows |
|---|---|---|
| `store_serial` | 2 devices, 3 names, 2 revisions after the first, calls do not overlap, no faults | `SessionIntact`, `ReplacesCloudSet`, `LogoutForgets`, `ListingTruthful`, `TypeOK` |
| `store_recovery` | as above with an alias that ends in ".pharos", up to 2 crashes or bad profiles | `OneMarked`, `SyncInstalls`; the refinement `ImplementsAccountStore` |
| `store_interleaved` | 2 callers at once, 1 device, 1 import, up to 2 faults of any kind | `ImportsKept`, `ImportsListedLocal` |
| `handle` | 3 goroutines | `ClosedOnce`, `NilAfterClose`, `NoRacingWrite`; with fairness `CloseReturns`, `StatsReturns`, `WaitEnds` |
| `sync` | 4 legacy devices (right passphrase by email and by leaf, mistyped by email and by leaf), 1 joined; the first of them calls Fetch twice, the others once | `RightPassphraseOpens`, `JoinedIndependent` |
| `enroll` | 2 devices, 2 tickets, 2 attempts | `SavedIdentityOwned`, `GivenUpForWorking` |
| `routes` | full, split and mixed profiles, an endpoint in the upper half, 2 gateways, host routes of its own, one of them around the endpoint | `NoRecursion`, `UpIsWhole`, `ClosesClean` |
| `dial` | some 300 envelopes, 4 names, 3 node ids, 2 preferences, 18 sets of secrets, ports up to 8 | `OpensOnlyWithKey`, `EntersAtEntry`, `DialablePort`, `ReachesNamed`, `ConnectMatchesPrepare` |
| `session` | 2 flows, 1 handler at a time, 1 byte per direction | `ClosedOnce`, `FailedReleases`, `OnlyOwnProxy`, `CountsSettle`; with fairness `BridgeEnds` |

Why these bounds are enough for the cases of interest: two devices are needed
for one sync to replace another's bundle, two callers for any race on a file (a
step touches one file), three goroutines for a writer, a reader inside and a
reader that queues behind the writer; two faults let a second one hit the
recovery from the first; two devices with the right passphrase can both be the
first of the account, with two others to mistype it, and two attempts let a late
request of the first meet the second; two gateways make a stale route visible; two flows let one dial while another
copies, and with one handler at a time the forwarder's limit is reached; pool
entries with a minimum and a maximum below, at and above the default port and at
the end of the port space are all there. In `sync` deadlock is not checked, since
users stop calling (`MaxAttempts`), nor in `session`, which ends when it has
stopped.

Runs that end in a counterexample, each a place where a comment promises what the code does not do (quoted in `PROJECT.json`,
"findings"):

| run | property | what happens |
|---|---|---|
| `enroll_persist` | `IdentityPersisted` | a failed Fetch drops the identity; the ticket is spent |
| `dial_mtu` | `TunnelHasProfileMTU` | `Connect` and `caravel connect` run a cascade profile with 1420, not with the reduced MTU that it carries and `Prepare` announces |
| `session_leak` | `FdReleased` | `Stop` of an XRay session never closes the dup'd tun fd; the inbound pump stays in its Read of it, and goroutines of the device may refer to it, so no finalizer need run |

### Where the passing runs stop

Each of these changes to a constant of a passing run makes TLC find a
counterexample; they are limits of the code, not of the models.

| run | change | then |
|---|---|---|
| `store_interleaved` | `ImportNames = {1}`, the name the device syncs under | `ImportsKept`: the sync overwrites, or purges, the imported bundle |
| `store_recovery` | two callers, `Serial = FALSE` | `SyncInstalls`, `OneMarked`: two overlapping syncs leave two cloud bundles |
| `store_recovery` | "write" in `FaultKinds` | `SyncInstalls`: a failed sidecar write is reported as success |
| `store_serial` | `SuffixedNames`, `SuffixedStem`, `SuffixedAlias` | `ListingTruthful`, `LogoutForgets`: an alias ending in ".pharos" is stored under the trimmed name and purged under the other |
| `store_recovery` | two callers, `Serial = FALSE` | `ImplementsAccountStore`: overlapping syncs show two account bundles, or one where a reader just saw another |
| `store_serial` | "crash" in `FaultKinds`, `MaxFaults = 1` | `LogoutForgets`: `purgeCloud` removes `.synced` before `.pharosid`; when it stops in between no later logout finds that `.pharosid`, private key included |
| `sync` | j in `EmailLogin` | no property fails, but j's Fetch ends in "login": email and password of a joined device are sent, not ignored |
| `routes` | `Covering = {net, wide}`, so that a profile allows a prefix around the endpoint | `NoRecursion`: a split tunnel routes the prefix around the endpoint into the tunnel before it looks the endpoint up |

Some limits are written into properties instead, because the code decides them:

- `RightPassphraseOpens`: a device that authenticates by its leaf wraps the new
  account key under whatever was typed, unverified, and a mistyped passphrase locks
  the others out; and a bundle sealed to keys that were replaced since does not open
  with the new ones. The property allows these two cases and no other;
- `EntersAtEntry`: when the entry hop is not among the nodes of the profile, `Node`
  falls back to the first node, although its comment says that dialing another node
  "would bypass the cascade" (`profile/pharos.go:387-388`);
- `ConnectMatchesPrepare` leaves the MTU of a cascade out, which is the run `dial_mtu`;
- `FailedReleases`: when `inst.Start` itself fails after it bound the port for TCP,
  `startXray` drops the instance without `Close` (`vp/xray.go:121-123`) and the
  listener stays;
- `BridgeEnds`: a handler that dials after `inst.Close` may meet a process that took
  the port and never answers; `proxy.Dialer.Dial` (`vp/tun2socks.go:184`) has neither
  a deadline nor the bridge's context, so this handler may stay for ever;
- `UpIsWhole` speaks of tunnels that capture the default route, which under
  `--no-default-route` ("do not capture the default route (split tunnel)",
  `cmd/caravel/connect_linux.go:37`) are those whose AllowedIPs have 0.0.0.0/0;
- `ReachesNamed`: with clashing names and ids the first match wins.

### Fairness

`TunnelHandle`: weak fairness of each goroutine's own
steps (the Go scheduler runs runnable goroutines) and strong fairness of taking
the writer side, which Go's mutex grants by its hand-off to waiters. A UAPI
client need never hang up, so `UseIpc` has no fairness, and the device need never
fail. `Session`: weak fairness of the steps of `Stop`, of the pumps once they can
go on, of a handler (its connect to a loopback port succeeds or is refused, the
session's own xray answers the greeting or drops it, the handshake with the app has
a timeout) as long as it does not wait for another process's answer, of `splice`'s
end, and of the finalizer of a file that was never made a device. Copiers are only fair once the netstack is closed, when reads
of the app's side fail; the other side follows because `closeWrite` ends xray's
connection. Nothing forces a packet to arrive, the user to stop or an owner to
close the tun, or another process to answer, which is why `BridgeEnds` lets the
inbound pump wait in its Read of an open tun and a handler in its Dial, and why `FdReleased` fails for `core.Session`.

## 4. Proofs

| theorem | assumption beside the constants' types | inductive invariant |
|---|---|---|
| `StoreTypeCorrect` | - | `TypeOK /\ CallOK`: where a call can be in each operation |
| `ImportsAreKept`, `ImportsAreListedLocal` | `NamesApart`: no import shares its file with a sync | `ImportInv`: only sync names are ever marked, hence purged; writers stay within their own files; imported data is only where imports put it |
| `AtMostOneMarked` | `Orderly`: calls do not overlap, removals do not fail | `MarkInv`: from `ReadDir` on, every marker is on the list of files to remove, and none is left when the new one is written |
| `StoreRefinesAccount` | `Orderly`, `NamesApart` | `ViewInv` = `ImportInv` and `OrderInv`, which is `TypeOK`, `CallOK`, `MarkInv` and `InstallInv`: a file being written is torn, the files a sync has finished hold what it fetched, and that is not ahead of the controller |
| `SyncInstallsWhole` | `Orderly`, writes do not fail | `OrderInv` |
| `SyncReplacesAll`, `LogoutForgetsAll` | `Steady`: calls do not overlap, nothing fails but `Fetch` and `WrapPlaintext`, no alias ends in ".pharos" | `SteadyInv` = `OrderInv` and `TraceInv`: every file of an account is next to a marker, or on the running call's list of removals, or being written by the running sync |
| `ListingIsTruthful` | `Steady`, `NamesApart` | with `SteadyInv`, `ListInv`: the marker that a listing is about to stat agrees with the bundle it has read |
| `SessionStaysIntact` | `Steady`, no faults, `NamesApart` | with `SteadyInv`, `SessionInv`: the session's bundle is whole until a sync has fetched and read the directory |
| `DeviceClosedOnce`, `NoDeviceAfterClose`, `CloseDoesNotRace` | - | `HandleInv`: who holds the lock at each point (`LockInv`), and that the device is with one goroutine from the clearing of the pointer on (`OwnerInv`) |
| `PassphraseOpens`, `JoinedNeedsNoAccountKey` | - | `SyncInv`: every wrapped key anywhere, on its way included, is a legacy device's and under the account passphrase or there was a mistyped leaf login; until keys are replaced the bundle, on the controller and on a device, is sealed to the enrolled key (`SealInv`) |
| `IdentityOwned`, `GivesUpForWorking` | - | `EnrollInv`: profiles are sealed to registered pairs only, a call past `Fetch` has such a pair, and a stored identity is registered and its own device's |
| `RoutesTypeCorrect`, `UpTunnelIsWhole`, `CloseLeavesNothing` | - | `RouteInv`: routes into the tunnel appear in the order of `configureNetwork` and vanish with the device (`TunRoutes`, `RoutesInPlace`); every other change of the table is on the undo list (`ChangesListed`) |
| `EndpointStaysOutside` | `EndpointOutside`: no profile allows a prefix around the endpoint | `OutsideInv`: the pin and the host's routes around the endpoint lead outside, and while the endpoint's half, either one, is in the tunnel the pin is there and will be undone after it |
| `OnlyKeyOpens`, `DialEntersAtEntry`, `PortIsDialable`, `DialReachesNamed`, `ConnectKeepsPromise` | `BundleAssumption`: slices are sequences and ports integers | `DialInv`: an answer on record is one that `Prepare`, `Connect`, `cmdConnect` or `Parse` gives for the file that is there; the rest are facts about the operators for every bundle |
| `SessionClosedOnce`, `SessionFailedReleases`, `SessionOnlyOwnProxy` | - | `SessionInv`: who owns the fd at each point (`FdInv`); the port is the session's from `Start` to `inst.Close` and the netstack is open only in between (`PortInv`); so a handler that dialed a stranger finds the netstack closed (`PeerInv`) |
| `SessionCountsSettle` | `Flows` is finite | `CountInv`: the counters are the sum of what the copiers that are done have moved, and copiers run only within their splice |

The assumptions are needed: without `NamesApart` a sync overwrites an import,
with overlapping calls there are two markers, with crashes a purge strands an
identity, with an alias ending in ".pharos" the purge misses the bundle, and a
profile that allows a prefix around the endpoint routes the tunnel into itself
(all under "Where the passing runs stop"). They are met by the instances of the
runs: `store_serial` satisfies `Steady` and `NamesApart`, `store_recovery`
`Orderly` and `NamesApart`, `routes` `EndpointOutside`. The proofs hold for any number of names,
devices, callers, tickets, attempts, flows and faults; the bounds (`MaxFaults`,
`MaxRev`, `MaxAttempts`, `MaxBytes`, `MaxPort`) are arbitrary numbers. Every
inductive invariant was first checked with TLC on the instances above.

The refinement (`StoreRefinesAccount`) is proved action by action. The slot of
`AccountStore` is the bundle of the marked name; since at most one name is marked,
there is at most one. A removal can only empty the slot. A sync opens and writes its
files when no marker is left, or only its own, and the file it is writing is torn;
so the slot is empty from its first `os.Remove` of the old set until its marker
stands next to its complete bundle, which fills it in one step with a revision the
controller has had, and the write of the marker then records that revision as its
status. A crash or a failed write at any point leaves the slot empty or as it was.
An import only changes the place it writes to, and shows as no import while it is
torn; by `NamesApart` no file of a sync is such a place.

The counters (`SessionCountsSettle`) need sums over sets. `Total` is the community
modules' `MapThenSumSet`, a recursive function chosen by its equation.
`SessionProofs` shows that this function exists for finite sets, that its values
are naturals, and how it follows a change of one summand; each by the least size
of a set for which the claim fails (`LeastNat`, `NoSmallest`).

Only model-checked: the liveness properties `CloseReturns`, `StatsReturns`,
`WaitEnds` and `BridgeEnds`, since the installed provers handle neither `ENABLED`
nor fairness. Every safety property that a passing run checks
is a theorem.

## 5. Not modelled

Cryptography (symbolic), text formats (a stored bundle is complete or torn, in
`ProfileDial` a record), the generated RPC code, printing and flags, IPv6 routes
(the code skips them), the obfuscation parameters that are passed through, and
`ControllerStatus` and `Reachable`, which change nothing and on which nothing in the
core acts. The race between `Session.Stop` and `Session.Stats` on the two pointers
of a session, which have no lock, is not modelled: the engines' own `Stats` against
`Close` is `TunnelHandle`.

## 6. Plan

Done: `CloudStore` and the `AccountStore` it implements, `TunnelHandle`,
`AccountSync`, `Enrollment`, `HostRoutes`, `ProfileDial`, `Session`.

Next, in this order:

1. `AccountSync` and `Enrollment` as parts of one account: that the device leaf a
   `Fetch` uses is one that an enrollment registered.
2. The refinement of `AccountStore` for overlapping callers, weakened to what
   still holds there (imports, and never ahead of the controller).
3. `ControllerStatus` as a reader in `CloudStore`.
