----------------------------- MODULE HostRoutes -----------------------------
(***************************************************************************)
(* `caravel connect` on Linux (src/go/cmd/caravel/connect_linux.go): the   *)
(* tun device pharos0, the AmneziaWG tunnel over it and the host routes    *)
(* that send traffic into it, from connect to tunnel.Close.  Each `ip`     *)
(* command is a step of its own and can fail; meanwhile the host's network *)
(* can change, the engine can stop and the process can be killed.          *)
(*                                                                         *)
(* The kernel is external: the routing table has at most one route per     *)
(* destination, the most specific one wins, and a device that goes away    *)
(* takes its routes with it.                                               *)
(***************************************************************************)
EXTENDS Naturals, Sequences

CONSTANTS
    Cidrs,         \* IPv4 prefixes, other than default routes, of AllowedIPs
    Covering,      \* those of them that contain the endpoint
    Half,          \* the half of the address space the endpoint is in
    AllowedLists,  \* the AllowedIPs lists of the profiles
    Gateways,      \* gateways of the networks the host may be on
    Preset         \* destinations the host may have routes of its own for

\* The server endpoint's /32, the two halves and the host's default route.
Fixed == {"pin", "low", "high", "default"}
Dests == Fixed \cup Cidrs

ASSUME RoutesAssumption ==
    /\ Covering \subseteq Cidrs
    /\ Half \in {"low", "high"}
    /\ Cidrs \cap (Fixed \cup {"ipv6"}) = {}
    /\ AllowedLists \subseteq Seq(Cidrs \cup {"default", "ipv6"})
    /\ Preset \subseteq Dests \ {"default"}
    /\ {"none", "tun"} \cap Gateways = {}

VARIABLES
    table,     \* the routing table: a gateway, "tun" or "none" per destination
    pc,        \* where cmdConnect is
    full,      \* TRUE unless --no-default-route
    allowed,   \* the AllowedIPs that the loop has not looked at
    capture,   \* captureDefault
    via,       \* what routeTo answered
    undo,      \* tunnel.undo
    alive,     \* TRUE while the tun device exists
    before,    \* history: the table when connect was called
    kept       \* history: destinations whose `ip route del` failed

vars == <<table, pc, full, allowed, capture, via, undo, alive, before, kept>>

Points == {"down", "create", "up?", "link", "allowed", "lookup", "pin", "low",
           "high", "up", "close"}

Hops == Gateways \cup {"none"}

Init ==
    /\ table \in [Dests -> Hops]
    /\ \A x \in Dests \ (Preset \cup {"default"}) : table[x] = "none"
    /\ pc = "down"
    /\ full = TRUE
    /\ allowed = <<>>
    /\ capture = FALSE
    /\ via = "none"
    /\ undo = <<>>
    /\ alive = FALSE
    /\ before = table
    /\ kept = {}

-----------------------------------------------------------------------------
(* The kernel. *)

Route(x, hop) == table' = [table EXCEPT ![x] = hop]

\* The routes that are left when the tun device goes.
WithoutTun(t) == [x \in Dests |-> IF t[x] = "tun" THEN "none" ELSE t[x]]

\* ip route get <endpoint>
Lookup(t) ==
    LET covering == {c \in Covering : t[c] # "none"}
    IN  CASE t["pin"] # "none" -> t["pin"]
          [] t["pin"] = "none" /\ covering # {} -> t[CHOOSE c \in covering : TRUE]
          [] OTHER -> IF t[Half] # "none" THEN t[Half] ELSE t["default"]

-----------------------------------------------------------------------------
(* connect, up to the network configuration. *)

CallConnect(f, list) ==
    /\ pc = "down"
    /\ pc' = "create"
    /\ full' = f
    /\ allowed' = list
    /\ capture' = f
    /\ undo' = <<>>
    /\ via' = "none"
    /\ before' = table
    /\ kept' = {}
    /\ UNCHANGED <<table, alive>>

CreateTun ==
    /\ pc = "create"
    /\ alive' = TRUE
    /\ pc' = "up?"
    /\ UNCHANGED <<table, full, allowed, capture, via, undo, before, kept>>

CreateTunFails ==
    /\ pc = "create"
    /\ pc' = "down"
    /\ UNCHANGED <<table, full, allowed, capture, via, undo, alive, before, kept>>

VpUp ==
    /\ pc = "up?"
    /\ pc' = "link"
    /\ UNCHANGED <<table, full, allowed, capture, via, undo, alive, before, kept>>

\* dev.Name or vp.Up fails: the device is closed, no route was made yet.
VpUpFails ==
    /\ pc = "up?"
    /\ alive' = FALSE
    /\ pc' = "down"
    /\ UNCHANGED <<table, full, allowed, capture, via, undo, before, kept>>

-----------------------------------------------------------------------------
(* configureNetwork. *)

\* The address and the MTU are set.
ConfigureLink ==
    /\ pc = "link"
    /\ alive
    /\ pc' = IF full THEN "lookup" ELSE "allowed"
    /\ UNCHANGED <<table, full, allowed, capture, via, undo, alive, before, kept>>

\* An `ip` command succeeds in routing x to hop, and x will be undone.
Added(x, hop, next) ==
    /\ hop = "tun" => alive
    /\ Route(x, hop)
    /\ undo' = Append(undo, x)
    /\ pc' = next
    /\ UNCHANGED <<full, via, alive, before, kept>>

\* A default route in AllowedIPs is captured below, an IPv6 prefix is skipped.
SkipAllowed ==
    /\ pc = "allowed"
    /\ allowed # <<>>
    /\ Head(allowed) \in {"default", "ipv6"}
    /\ capture' = (capture \/ Head(allowed) = "default")
    /\ allowed' = Tail(allowed)
    /\ UNCHANGED <<table, pc, full, via, undo, alive, before, kept>>

\* ip route add: fails if there is a route to this prefix already.
AddAllowed ==
    /\ pc = "allowed"
    /\ allowed # <<>>
    /\ Head(allowed) \in Cidrs
    /\ table[Head(allowed)] = "none"
    /\ Added(Head(allowed), "tun", "allowed")
    /\ allowed' = Tail(allowed)
    /\ UNCHANGED capture

AllowedDone ==
    /\ pc = "allowed"
    /\ allowed = <<>>
    /\ pc' = IF capture THEN "lookup" ELSE "up"
    /\ UNCHANGED <<table, full, allowed, capture, via, undo, alive, before, kept>>

\* The endpoint is resolved, and routeTo asks for its route.
RouteTo ==
    /\ pc = "lookup"
    /\ Lookup(table) # "none"
    /\ via' = Lookup(table)
    /\ pc' = "pin"
    /\ UNCHANGED <<table, full, allowed, capture, undo, alive, before, kept>>

\* Mutant: the error of the command is not looked at.
ReplaceHalf_Unchecked(half, next) ==
    /\ pc = half
    /\ \/ Added(half, "tun", next)
       \/ pc' = next /\ UNCHANGED <<table, full, via, undo, alive, before, kept>>
    /\ UNCHANGED <<allowed, capture>>

\* ip route replace: whatever route there was to this half is gone.
ReplaceHalf(half, next) ==
    /\ pc = half
    /\ Added(half, "tun", next)
    /\ UNCHANGED <<allowed, capture>>

\* Mutant: the pin is noted for Close only when the first half is in place.
ReplacePin_Unlisted ==
    /\ pc = "pin"
    /\ Route("pin", via)
    /\ pc' = "low"
    /\ UNCHANGED <<full, allowed, capture, via, undo, alive, before, kept>>

ReplacePin ==
    /\ pc = "pin"
    /\ Added("pin", via, "low")
    /\ UNCHANGED <<allowed, capture>>

\* Any of the commands above, or the lookup of the endpoint, fails:
\* connect calls Close.
ConfigureFails ==
    /\ pc \in {"link", "allowed", "lookup", "pin", "low", "high"}
    /\ pc' = "close"
    /\ UNCHANGED <<table, full, allowed, capture, via, undo, alive, before, kept>>

-----------------------------------------------------------------------------
(* Disconnecting. *)

\* SIGINT or SIGTERM.
Signal ==
    /\ pc = "up"
    /\ pc' = "close"
    /\ UNCHANGED <<table, full, allowed, capture, via, undo, alive, before, kept>>

\* The destination Close works on: undo is gone through from its end.
LastUndo == undo[Len(undo)]
Undone == undo' = SubSeq(undo, 1, Len(undo) - 1)

\* Mutant: the routes are undone in the order they were made in.
UndoNext_First ==
    /\ pc = "close"
    /\ undo # <<>>
    /\ Route(Head(undo), "none")
    /\ undo' = Tail(undo)
    /\ UNCHANGED <<pc, full, allowed, capture, via, alive, before, kept>>

UndoNext ==
    /\ pc = "close"
    /\ undo # <<>>
    /\ Route(LastUndo, "none")
    /\ Undone
    /\ UNCHANGED <<pc, full, allowed, capture, via, alive, before, kept>>

\* The error of `ip route del` is dropped.
UndoFails ==
    /\ pc = "close"
    /\ undo # <<>>
    /\ kept' = kept \cup {LastUndo}
    /\ Undone
    /\ UNCHANGED <<table, pc, full, allowed, capture, via, alive, before>>

\* vt.Close closes the tun device.
CloseTunnel ==
    /\ pc = "close"
    /\ undo = <<>>
    /\ alive' = FALSE
    /\ table' = WithoutTun(table)
    /\ pc' = "down"
    /\ UNCHANGED <<full, allowed, capture, via, undo, before, kept>>

-----------------------------------------------------------------------------
(* The environment. *)

\* The process is killed: the kernel closes its tun device.
Crash ==
    /\ pc # "down"
    /\ alive' = FALSE
    /\ table' = WithoutTun(table)
    /\ undo' = <<>>
    /\ pc' = "down"
    /\ UNCHANGED <<full, allowed, capture, via, before, kept>>

\* The engine stops by itself; cmdConnect does not wait for that.
EngineExits ==
    /\ pc \notin {"down", "create", "up?"}
    /\ alive
    /\ alive' = FALSE
    /\ table' = WithoutTun(table)
    /\ UNCHANGED <<pc, full, allowed, capture, via, undo, before, kept>>

\* The host gets another gateway, or loses it; its link stays up, so the routes
\* through the old one stay as well.
NetworkChanges(g) ==
    /\ Route("default", g)
    /\ UNCHANGED <<pc, full, allowed, capture, via, undo, alive, before, kept>>

-----------------------------------------------------------------------------
Configure ==
    \/ ConfigureLink
    \/ SkipAllowed
    \/ AddAllowed
    \/ AllowedDone
    \/ RouteTo
    \/ ReplacePin
    \/ ReplaceHalf("low", "high")
    \/ ReplaceHalf("high", "up")
    \/ ConfigureFails

Next ==
    \/ \E f \in BOOLEAN, list \in AllowedLists : CallConnect(f, list)
    \/ CreateTun
    \/ CreateTunFails
    \/ VpUp
    \/ VpUpFails
    \/ Configure
    \/ Signal
    \/ UndoNext
    \/ UndoFails
    \/ CloseTunnel
    \/ Crash
    \/ EngineExits
    \/ \E g \in Hops : NetworkChanges(g)

Spec == Init /\ [][Next]_vars

-----------------------------------------------------------------------------
(* Properties. *)

\* Every variable has its type.
TypeOK ==
    /\ table \in [Dests -> Hops \cup {"tun"}]
    /\ pc \in Points
    /\ full \in BOOLEAN
    /\ allowed \in Seq(Cidrs \cup {"default", "ipv6"})
    /\ capture \in BOOLEAN
    /\ via \in Hops \cup {"tun"}
    /\ undo \in Seq(Dests)
    /\ alive \in BOOLEAN
    /\ before \in [Dests -> Hops \cup {"tun"}]
    /\ kept \in SUBSET Dests

\* "The encrypted UDP to the node does not recurse into the tunnel": at no moment
\* of connecting, of being up, of an error's clean-up or of disconnecting does the
\* host route the endpoint into the tunnel.  The pin comes first and goes last.
NoRecursion == kept = {} => Lookup(table) # "tun"

\* A tunnel that is reported up and whose engine runs has every route it needs:
\* no failed command went unnoticed.
UpIsWhole ==
    pc = "up" /\ alive /\ capture =>
        /\ table["low"] = "tun"
        /\ table["high"] = "tun"
        /\ table["pin"] # "none"

\* This step ends a Close that worked through all of undo.
Closed == pc = "close" /\ undo = <<>> /\ pc' = "down"

\* When Close has returned, after a signal or after any failed command, the host
\* has no route that it had not before connect, unless `ip route del` failed.
ClosesClean ==
    [][Closed =>
          \A x \in Dests \ (kept \cup {"default"}) :
             table'[x] \in {"none", before[x]}]_vars

-----------------------------------------------------------------------------
(* The inductive strengthening of the properties. *)

\* No profile allows a prefix around the endpoint; the host itself may well have
\* a route to one.
EndpointOutside ==
    \A list \in AllowedLists : \A i \in DOMAIN list : list[i] \notin Covering

\* Routes into the tunnel need the device, and configureNetwork makes them in its
\* order: none before the link is up, the halves last.
TunRoutes ==
    \A x \in Dests : table[x] = "tun" =>
        /\ alive
        /\ pc \notin {"down", "create", "up?", "link"}
        /\ x # "default"
        /\ pc \in {"allowed", "lookup", "pin", "low"} => x \notin {"low", "high"}
        /\ pc \in {"allowed", "lookup", "pin"} => x # "pin"

\* The pin and the halves that were reported routed are, while the device exists.
RoutesInPlace ==
    /\ pc = "pin" => via # "none"
    /\ alive /\ pc \in {"low", "high"} => table["pin"] # "none"
    /\ alive /\ pc = "high" => table["low"] = "tun"
    /\ alive /\ pc = "up" /\ capture =>
          /\ table["pin"] # "none"
          /\ table["low"] = "tun"
          /\ table["high"] = "tun"

\* Every route that differs from what connect found, and does not vanish with the
\* device, is on the list.
ChangesListed ==
    \A x \in Dests \ (kept \cup {"default"}) :
        \/ table[x] \in {"none", "tun", before[x]}
        \/ \E i \in DOMAIN undo : undo[i] = x
        \/ pc = "down"

RouteInv == TunRoutes /\ RoutesInPlace /\ ChangesListed

\* What Close will undo before the pin: the endpoint's half, while it is in the
\* tunnel.
HalfAfterPin ==
    \E j \in DOMAIN undo :
        /\ undo[j] = Half
        /\ \A i \in DOMAIN undo : undo[i] = "pin" => i < j

\* For NoRecursion: the pin and the prefixes around the endpoint are routed outside
\* the tunnel, and the pin is there as long as the endpoint's half is.
OutsideInv ==
    /\ \A i \in DOMAIN allowed : allowed[i] \notin Covering
    /\ \A x \in Covering \cup {"pin"} : table[x] # "tun"
    /\ pc = "pin" => via # "tun"
    /\ (kept = {} /\ table[Half] = "tun") => table["pin"] # "none" /\ HalfAfterPin
=============================================================================
