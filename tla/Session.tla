------------------------------ MODULE Session ------------------------------
(***************************************************************************)
(* One mobile session: core.Connect and Session.Stop (src/go/core.go) over *)
(* the AmneziaWG engine (vp/engine.go) or over the embedded xray client    *)
(* (vp/xray.go) and its bridge between the tun device and a SOCKS port     *)
(* (vp/tun2socks.go).                                                      *)
(*                                                                         *)
(* Connect's thread, the two pump goroutines and, for every TCP flow, a    *)
(* handler and two copiers run concurrently; another process may take the  *)
(* SOCKS port whenever it is free.  What Connect resolves is the subject   *)
(* of ProfileDial, the handle of the AmneziaWG engine that of TunnelHandle.       *)
(***************************************************************************)
EXTENDS Naturals, FiniteSets, FiniteSetsExt

CONSTANTS
    Flows,         \* TCP flows the apps may open
    MaxInFlight,   \* SYNs the forwarder handles at once (2048 in the code)
    MaxBytes,      \* bound: bytes a copier moves
    CallerCloses   \* TRUE: the caller of UpXRay may close the tun after Close,
                   \* which xray.go asks of it; FALSE: the caller is core.Session,
                   \* which never does

ASSUME SessionAssumption ==
    /\ MaxInFlight \in Nat
    /\ MaxBytes \in Nat
    /\ CallerCloses \in BOOLEAN

VARIABLES
    pc,              \* where Connect, and then Stop, is
    proto,           \* the engine resolve chose
    fd, closes,      \* the dup'd tun fd, and how often close(2) was called on it
    inst, port,      \* the engine; who listens on the reserved SOCKS port
    ctx, net,        \* the bridge is cancelled; its netstack is open
    inbound, outbound,
    flow, peer,      \* each flow's handler, and whom it has dialed
    up, down,        \* its copiers, app -> internet and internet -> app
    sent, received,  \* bytes they have moved
    tx, rx           \* bytes they have accounted

connVars == <<proto, fd, closes, inst, port>>
pumpVars == <<inbound, outbound>>
handlerVars == <<flow, peer>>
copyVars == <<up, down, sent, received, tx, rx>>
bridgeVars == <<ctx, net, pumpVars, handlerVars, copyVars>>
vars == <<pc, connVars, bridgeVars>>

TypeOK ==
    /\ pc \in {"idle", "tunnel", "engine", "reserve", "start", "bridge", "up",
               "cancelled", "closed", "stopped", "failed"}
    /\ proto \in {"none", "awg", "xray"}
    /\ fd \in {"none", "raw", "file", "dev", "closed"}
    /\ closes \in Nat
    /\ inst \in {"none", "dropped", "running", "closed"}
    /\ port \in {"none", "free", "ours", "foreign"}
    /\ ctx \in BOOLEAN /\ net \in BOOLEAN
    /\ inbound \in {"off", "check", "read", "done"}
    /\ outbound \in {"off", "recv", "write", "done"}
    /\ flow \in [Flows -> {"none", "queued", "greet", "dialed", "copy", "closed", "reset"}]
    /\ peer \in [Flows -> {"none", "own", "foreign"}]
    /\ up \in [Flows -> {"off", "copying", "done"}]
    /\ down \in [Flows -> {"off", "copying", "done"}]
    /\ sent \in [Flows -> 0..MaxBytes] /\ received \in [Flows -> 0..MaxBytes]
    /\ tx \in Nat /\ rx \in Nat

Init ==
    /\ pc = "idle" /\ proto = "none"
    /\ fd = "none" /\ closes = 0
    /\ inst = "none" /\ port = "none"
    /\ ctx = FALSE /\ net = FALSE
    /\ inbound = "off" /\ outbound = "off"
    /\ flow = [f \in Flows |-> "none"] /\ peer = [f \in Flows |-> "none"]
    /\ up = [f \in Flows |-> "off"] /\ down = [f \in Flows |-> "off"]
    /\ sent = [f \in Flows |-> 0] /\ received = [f \in Flows |-> 0]
    /\ tx = 0 /\ rx = 0

-----------------------------------------------------------------------------
(* Connect: who owns the dup'd fd on each path. *)

Trans(from, to) == pc = from /\ pc' = to

\* resolve succeeds and unix.Dup gives Connect an fd of its own.
Connect(p) ==
    /\ Trans("idle", "tunnel")
    /\ proto' = p
    /\ fd' = "raw"
    /\ UNCHANGED <<closes, inst, port, bridgeVars>>

\* resolve or unix.Dup fails: there is nothing to release.
ConnectRefused == Trans("idle", "failed") /\ UNCHANGED <<connVars, bridgeVars>>

\* unix.Close of the raw number; only before an os.File owns it.
CloseRaw == fd' = "closed" /\ closes' = closes + 1

\* XRayTunnel or Tunnel fails (no such protocol, no endpoint).
TunnelFails ==
    /\ Trans("tunnel", "failed")
    /\ CloseRaw
    /\ UNCHANGED <<proto, inst, port, bridgeVars>>

CreateTUN ==
    /\ Trans("tunnel", IF proto = "xray" THEN "reserve" ELSE "engine")
    /\ fd' = "dev"
    /\ UNCHANGED <<proto, closes, inst, port, bridgeVars>>

\* Mutant: the error path closes the number behind the os.File's back.
CreateTUNFails_Close ==
    /\ Trans("tunnel", "failed")
    /\ fd' = "file" /\ closes' = closes + 1
    /\ UNCHANGED <<proto, inst, port, bridgeVars>>

\* CreateTUNFromFile fails: the os.File is dropped without being closed.
CreateTUNFails ==
    /\ Trans("tunnel", "failed")
    /\ fd' = "file"
    /\ UNCHANGED <<proto, closes, inst, port, bridgeVars>>

\* The os.File of the fd may be out of reach: it was never made a device, or Session
\* has forgotten the device and neither pump uses it any more.  In the second case
\* goroutines of the device may refer to it still, so nothing promises that the
\* finalizer runs.
Unreachable ==
    \/ fd = "file"
    \/ fd = "dev" /\ pc = "stopped" /\ inbound = "done" /\ outbound = "done"

\* The runtime's finalizer of an os.File nobody refers to.
Finalize ==
    /\ Unreachable
    /\ CloseRaw
    /\ UNCHANGED <<pc, proto, inst, port, bridgeVars>>

\* Close of the tun device: its os.File closes the fd once, however often it is
\* asked to.
DevClose ==
    /\ fd' = "closed"
    /\ closes' = IF fd = "dev" THEN closes + 1 ELSE closes

\* vp.Up: the AmneziaWG device is configured and up.
Up ==
    /\ Trans("engine", "up")
    /\ inst' = "running"
    /\ UNCHANGED <<proto, fd, closes, port, bridgeVars>>

\* uapi, IpcSet or dev.Up fails; the last two close the device, which closes
\* the tun, and Connect closes it (again).
UpFails ==
    /\ Trans("engine", "failed")
    /\ DevClose
    /\ UNCHANGED <<proto, inst, port, bridgeVars>>

-----------------------------------------------------------------------------
(* UpXRay. *)

\* reserveLoopbackPort: the port is free again when it returns.
Reserve ==
    /\ Trans("reserve", "start")
    /\ port' = "free"
    /\ UNCHANGED <<proto, fd, closes, inst, bridgeVars>>

ReserveFails ==
    /\ Trans("reserve", "failed")
    /\ DevClose
    /\ UNCHANGED <<proto, inst, port, bridgeVars>>

\* Another process listens on a port nobody holds.
TakePort ==
    /\ port = "free"
    /\ port' = "foreign"
    /\ UNCHANGED <<pc, proto, fd, closes, inst, bridgeVars>>

\* Mutant: the error of inst.Start is dropped.
Start_Unchecked ==
    /\ Trans("start", "bridge")
    /\ inst' = "running"
    /\ port' = IF port = "free" THEN "ours" ELSE port
    /\ UNCHANGED <<proto, fd, closes, bridgeVars>>

\* startXray: the SOCKS inbound binds the port, if it is still free.
Start ==
    /\ Trans("start", "bridge")
    /\ port = "free"
    /\ inst' = "running"
    /\ port' = "ours"
    /\ UNCHANGED <<proto, fd, closes, bridgeVars>>

\* clientJSON, LoadJSONConfig or core.New fails, or inst.Start does; then the
\* instance is dropped without Close, and keeps the TCP port if it was bound before
\* what failed (the inbound listens on UDP too, and only TCP was reserved).
StartFails ==
    /\ Trans("start", "failed")
    /\ \/ inst' = "none" /\ UNCHANGED port
       \/ inst' = "dropped" /\ port' \in (IF port = "free" THEN {"free", "ours"} ELSE {port})
    /\ DevClose
    /\ UNCHANGED <<proto, bridgeVars>>

\* inst.Close: the port is anybody's.
InstClose == inst' = "closed" /\ port' = "free"

\* newTun2Socks succeeds; start launches the two pumps.
Bridge ==
    /\ Trans("bridge", "up")
    /\ net' = TRUE
    /\ inbound' = "check" /\ outbound' = "recv"
    /\ UNCHANGED <<connVars, ctx, handlerVars, copyVars>>

\* Mutant: the error path of newTun2Socks forgets the instance.
BridgeFails_KeepInst ==
    /\ Trans("bridge", "failed")
    /\ DevClose
    /\ UNCHANGED <<proto, inst, port, bridgeVars>>

BridgeFails ==
    /\ Trans("bridge", "failed")
    /\ InstClose
    /\ DevClose
    /\ UNCHANGED <<proto, bridgeVars>>

-----------------------------------------------------------------------------
(* Stop. *)

\* awg.Close: device.Close closes the tun with the device.
StopAwg ==
    /\ proto = "awg"
    /\ Trans("up", "stopped")
    /\ inst' = "closed"
    /\ DevClose
    /\ UNCHANGED <<proto, port, bridgeVars>>

\* Mutant: stop forgets the context.
Cancel_Keep ==
    /\ proto = "xray"
    /\ Trans("up", "cancelled")
    /\ UNCHANGED <<connVars, bridgeVars>>

\* xray.Close: bridge.stop cancels the context, ...
Cancel ==
    /\ proto = "xray"
    /\ Trans("up", "cancelled")
    /\ ctx' = TRUE
    /\ UNCHANGED <<connVars, net, pumpVars, handlerVars, copyVars>>

\* Mutant: the netstack stays open.
CloseNet_Keep == Trans("cancelled", "closed") /\ UNCHANGED <<connVars, bridgeVars>>

\* ... closes the channel endpoint and the netstack, ...
CloseNet ==
    /\ Trans("cancelled", "closed")
    /\ net' = FALSE
    /\ UNCHANGED <<connVars, ctx, pumpVars, handlerVars, copyVars>>

\* ... and then the instance is closed.  The tun is not.
CloseInst ==
    /\ Trans("closed", "stopped")
    /\ InstClose
    /\ UNCHANGED <<proto, fd, closes, bridgeVars>>

\* A caller that owns the tun closes it, after Close returned.
OwnerClose ==
    /\ CallerCloses
    /\ pc = "stopped"
    /\ fd = "dev"
    /\ DevClose
    /\ UNCHANGED <<pc, proto, inst, port, bridgeVars>>

-----------------------------------------------------------------------------
(* The pumps. *)

InCheck ==
    /\ inbound = "check"
    /\ inbound' = IF ctx THEN "done" ELSE "read"
    /\ UNCHANGED <<pc, connVars, ctx, net, outbound, handlerVars, copyVars>>

InFlight == {f \in Flows : flow[f] \in {"queued", "greet", "dialed"}}

\* dev.Read returns the SYN of flow f, which InjectInbound hands to the
\* forwarder: it starts a handler, unless too many are at work.
InSyn(f) ==
    /\ inbound = "read"
    /\ fd = "dev"
    /\ flow[f] = "none"
    /\ Cardinality(InFlight) < MaxInFlight
    /\ flow' = [flow EXCEPT ![f] = "queued"]
    /\ inbound' = "check"
    /\ UNCHANGED <<pc, connVars, ctx, net, outbound, peer, copyVars>>

\* A packet that starts nothing: of an open flow, a SYN beyond the limit, or
\* neither IPv4 nor IPv6.
InOther ==
    /\ inbound = "read"
    /\ fd = "dev"
    /\ inbound' = "check"
    /\ UNCHANGED <<pc, connVars, ctx, net, outbound, handlerVars, copyVars>>

\* dev.Read fails: the tun was closed by its owner.
InFails ==
    /\ inbound = "read"
    /\ fd = "closed"
    /\ inbound' = "done"
    /\ UNCHANGED <<pc, connVars, ctx, net, outbound, handlerVars, copyVars>>

\* ep.ReadContext returns a packet of the netstack; dev.Write sends it, and its
\* error is dropped.
OutRecv ==
    /\ outbound = "recv"
    /\ net
    /\ outbound' = "write"
    /\ UNCHANGED <<pc, connVars, ctx, net, inbound, handlerVars, copyVars>>

OutWrite ==
    /\ outbound = "write"
    /\ outbound' = "recv"
    /\ UNCHANGED <<pc, connVars, ctx, net, inbound, handlerVars, copyVars>>

\* ep.ReadContext returns nil.
OutEnd ==
    /\ outbound = "recv"
    /\ ctx
    /\ outbound' = "done"
    /\ UNCHANGED <<pc, connVars, ctx, net, inbound, handlerVars, copyVars>>

-----------------------------------------------------------------------------
(* handleTCP and splice. *)

\* dialer.Dial connects to whoever listens on the port now, ...
Dial(f) ==
    /\ flow[f] = "queued"
    /\ port \in {"ours", "foreign"}
    /\ flow' = [flow EXCEPT ![f] = "greet"]
    /\ peer' = [peer EXCEPT ![f] = IF port = "ours" THEN "own" ELSE "foreign"]
    /\ UNCHANGED <<pc, connVars, ctx, net, pumpVars, copyVars>>

\* ... and returns when the listener has answered the SOCKS greeting: it is given no
\* deadline, nor the bridge's context.
Greeted(f) ==
    /\ flow[f] = "greet"
    /\ flow' = [flow EXCEPT ![f] = "dialed"]
    /\ UNCHANGED <<pc, connVars, ctx, net, pumpVars, peer, copyVars>>

\* Dial fails, or CreateEndpoint does and remote is closed: RST.
Reset(f) ==
    /\ flow[f] \in {"queued", "greet", "dialed"}
    /\ flow' = [flow EXCEPT ![f] = "reset"]
    /\ UNCHANGED <<pc, connVars, ctx, net, pumpVars, peer, copyVars>>

\* CreateEndpoint: the handshake with the app needs the netstack.
Accept(f) ==
    /\ flow[f] = "dialed"
    /\ net
    /\ flow' = [flow EXCEPT ![f] = "copy"]
    /\ up' = [up EXCEPT ![f] = "copying"]
    /\ down' = [down EXCEPT ![f] = "copying"]
    /\ UNCHANGED <<pc, connVars, ctx, net, pumpVars, peer, sent, received, tx, rx>>

\* io.Copy moves a byte, in either direction.
CopyUp(f) ==
    /\ up[f] = "copying"
    /\ net
    /\ sent[f] < MaxBytes
    /\ sent' = [sent EXCEPT ![f] = @ + 1]
    /\ UNCHANGED <<pc, connVars, ctx, net, pumpVars, handlerVars, up, down,
                   received, tx, rx>>

CopyDown(f) ==
    /\ down[f] = "copying"
    /\ net
    /\ received[f] < MaxBytes
    /\ received' = [received EXCEPT ![f] = @ + 1]
    /\ UNCHANGED <<pc, connVars, ctx, net, pumpVars, handlerVars, up, down,
                   sent, tx, rx>>

\* A copier ends: it accounts what it moved and half-closes the other side.
EndUp(f) ==
    /\ up[f] = "copying"
    /\ up' = [up EXCEPT ![f] = "done"]
    /\ tx' = tx + sent[f]
    /\ UNCHANGED <<pc, connVars, ctx, net, pumpVars, handlerVars, down, sent,
                   received, rx>>

EndDown(f) ==
    /\ down[f] = "copying"
    /\ down' = [down EXCEPT ![f] = "done"]
    /\ rx' = rx + received[f]
    /\ UNCHANGED <<pc, connVars, ctx, net, pumpVars, handlerVars, up, sent,
                   received, tx>>

\* Mutant: splice waits for one copier only.
Close_First(f) ==
    /\ flow[f] = "copy"
    /\ "done" \in {up[f], down[f]}
    /\ flow' = [flow EXCEPT ![f] = "closed"]
    /\ UNCHANGED <<pc, connVars, ctx, net, pumpVars, peer, copyVars>>

\* Both copiers are done: splice closes both connections.
Close(f) ==
    /\ flow[f] = "copy"
    /\ up[f] = "done" /\ down[f] = "done"
    /\ flow' = [flow EXCEPT ![f] = "closed"]
    /\ UNCHANGED <<pc, connVars, ctx, net, pumpVars, peer, copyVars>>

-----------------------------------------------------------------------------
ConnectStep ==
    \/ \E p \in {"awg", "xray"} : Connect(p)
    \/ ConnectRefused
    \/ TunnelFails
    \/ CreateTUN
    \/ CreateTUNFails
    \/ Up
    \/ UpFails
    \/ Reserve
    \/ ReserveFails
    \/ Start
    \/ StartFails
    \/ Bridge
    \/ BridgeFails

StopStep == StopAwg \/ Cancel \/ CloseNet \/ CloseInst

PumpStep ==
    \/ InCheck
    \/ \E f \in Flows : InSyn(f)
    \/ InOther
    \/ InFails
    \/ OutRecv
    \/ OutWrite
    \/ OutEnd

FlowStep(f) ==
    \/ Dial(f)
    \/ Greeted(f)
    \/ Reset(f)
    \/ Accept(f)
    \/ CopyUp(f)
    \/ CopyDown(f)
    \/ EndUp(f)
    \/ EndDown(f)
    \/ Close(f)

Next ==
    \/ ConnectStep
    \/ StopStep
    \/ PumpStep
    \/ \E f \in Flows : FlowStep(f)
    \/ Finalize
    \/ TakePort
    \/ OwnerClose

\* The handler waits in Dial for the answer of another process.
Stalled(f) == flow[f] = "greet" /\ peer[f] = "foreign"

\* Goroutines that can run do; this session's xray answers or drops a greeting, and
\* the handshake with the app ends; the runtime finalizes an os.File that nobody
\* refers to.  Nothing makes the user press stop, an app send a packet, a peer hang
\* up, another process answer or an owner close the tun, but when the netstack is
\* closed its connections fail, and xray ends a connection whose writing side is
\* closed.
Fairness ==
    /\ WF_vars(CloseNet) /\ WF_vars(CloseInst)
    /\ WF_vars(fd = "file" /\ Finalize)
    /\ WF_vars(InCheck) /\ WF_vars(InFails) /\ WF_vars(OutWrite) /\ WF_vars(OutEnd)
    /\ \A f \in Flows :
          /\ WF_vars(~Stalled(f) /\ (Dial(f) \/ Greeted(f) \/ Reset(f) \/ Accept(f)))
          /\ WF_vars(~net /\ EndUp(f))
          /\ WF_vars(~net /\ up[f] = "done" /\ EndDown(f))
          /\ WF_vars(Close(f))

Spec == Init /\ [][Next]_vars
FairSpec == Spec /\ Fairness

-----------------------------------------------------------------------------
(* Properties. *)

\* Whatever fails and whoever closes, close(2) is called at most once on the
\* dup'd number: a second call could close a file the process opened since.
ClosedOnce == closes <= 1

\* A Connect that returned an error leaves no engine running, no tun device open
\* and nothing of its own on the SOCKS port, with the one exception of an instance
\* whose own Start failed: startXray drops it without Close, and a listener it had
\* bound by then stays.
FailedReleases ==
    pc = "failed" => /\ inst # "running"
                     /\ fd \notin {"raw", "dev"}
                     /\ port = "ours" => inst = "dropped"

\* The apps' bytes go to this session's xray and to nobody else, though its port
\* is free for others to take before Start and after Close.
OnlyOwnProxy == \A f \in Flows : flow[f] = "copy" => peer[f] = "own"

Total(b) == MapThenSumSet(LAMBDA f : b[f], Flows)

\* When no flow is open the counters hold every byte moved, each once, app ->
\* net as tx and net -> app as rx.
CountsSettle ==
    (\A f \in Flows : flow[f] # "copy") => tx = Total(sent) /\ rx = Total(received)

Quiet ==
    /\ inbound \in {"off", "done"} \/ (inbound = "read" /\ fd = "dev")
    /\ outbound \in {"off", "done"}
    /\ \A f \in Flows : flow[f] \in {"none", "reset", "closed"} \/ Stalled(f)

\* After Stop the outbound pump, the handlers and the splices end and nothing
\* starts them again; the inbound pump ends too, or waits in dev.Read for a packet
\* of a tun that its owner has not closed.  A handler whose Dial came after
\* inst.Close may wait for ever for another process that took the port.
BridgeEnds == pc = "stopped" ~> []Quiet

\* "The fd is dup'd so the engine owns its copy; Stop closes it": after Stop, and
\* after a Connect that failed, the dup'd fd is closed.
FdReleased == (pc \in {"stopped", "failed"} /\ fd # "none") ~> fd = "closed"

-----------------------------------------------------------------------------
(* The strengthening of the safety properties. *)

\* Who owns the fd at each point; it has been closed once if it is closed.
FdInv ==
    /\ closes = (IF fd = "closed" THEN 1 ELSE 0)
    /\ pc = "idle" => fd = "none"
    /\ pc = "tunnel" => fd = "raw"
    /\ pc \in {"engine", "reserve", "start", "bridge", "up", "cancelled", "closed"}
          => fd = "dev"
    /\ pc = "failed" => fd \notin {"raw", "dev"}

\* The port is this session's from Start to inst.Close (or, when Start failed, to the
\* end of the process), and the netstack is open only in between; so a dial that found somebody else comes too late.
PortInv ==
    /\ proto = "xray" /\ inst = "running" => port = "ours"
    /\ port = "ours" => inst \in {"running", "dropped"}
    /\ inst = "dropped" => pc = "failed"
    /\ net => port = "ours" /\ pc \in {"up", "cancelled"}
    /\ pc \in {"idle", "tunnel", "engine", "reserve", "start"} => inst = "none"
    /\ pc \in {"bridge", "up", "cancelled", "closed"} => inst = "running"
    /\ pc = "failed" => inst # "running"
    /\ pc \in {"reserve", "start", "bridge", "cancelled", "closed"} => proto = "xray"
    /\ pc = "engine" => proto = "awg"
    /\ pc = "idle" => proto = "none"
    /\ pc = "tunnel" => proto # "none"
    /\ proto # "xray" => port = "none"
    /\ pc = "start" => port \in {"free", "foreign"}
    /\ pc \in {"idle", "tunnel", "engine", "reserve"} => port = "none"

\* Handlers dial foreign listeners only when the netstack is closed for good.
PeerInv ==
    /\ inbound # "off" => pc \in {"up", "cancelled", "closed", "stopped"}
    /\ \A f \in Flows :
          /\ flow[f] = "copy" => peer[f] = "own"
          /\ (flow[f] \in {"greet", "dialed"} /\ peer[f] # "own") => pc = "stopped"
          /\ flow[f] # "none" => pc \in {"up", "cancelled", "closed", "stopped"}

SessionInv == TypeOK /\ FdInv /\ PortInv /\ PeerInv

\* What the copiers that are done have moved.
Accounted(copier, bytes) ==
    [f \in Flows |-> IF copier[f] = "done" THEN bytes[f] ELSE 0]

\* A copier moves bytes only between its start and its end, within the splice of
\* its flow, and accounts them at its end.
CountInv ==
    /\ tx = Total(Accounted(up, sent))
    /\ rx = Total(Accounted(down, received))
    /\ \A f \in Flows :
          /\ up[f] = "off" => sent[f] = 0
          /\ down[f] = "off" => received[f] = 0
          /\ flow[f] # "copy" => up[f] # "copying" /\ down[f] # "copying"
          /\ flow[f] \in {"queued", "greet", "dialed"} => up[f] = "off" /\ down[f] = "off"
          /\ flow[f] = "none" => up[f] = "off" /\ down[f] = "off"
=============================================================================
