---------------------------- MODULE ProfileDial ----------------------------
(***************************************************************************)
(* From a stored .pharos file to an endpoint (src/go/profile/pharos.go,    *)
(* src/go/core.go and src/go/cmd/caravel/connect_linux.go): Parse opens    *)
(* the envelope, Select and Node choose a profile and the node to enter    *)
(* at, resolve the protocol, and pickEndpoint draws the address to dial.   *)
(*                                                                         *)
(* A mobile application calls Prepare, builds the tun and calls Connect,   *)
(* and each of the two reads the store and resolves by itself; a sync may  *)
(* replace the file in between.  Encryption is external: a ciphertext      *)
(* opens with the key, and the authenticated header, it was made with.     *)
(***************************************************************************)
EXTENDS Integers, SequencesExt

CONSTANTS
    Stored,             \* the envelopes the store may hold under the name
    Synced,             \* those a sync may replace the file by
    Refs, Prefs, Ids,   \* profile names, protocol preferences and node ids asked for
    Secrets,            \* the Options applications call Parse with
    DefaultClientPort,  \* 443 in the code
    MaxPort,            \* the highest port, 65535
    DefaultMTU,         \* 1420 in the code
    Empty,              \* the empty string
    None                \* no result yet

ASSUME DialAssumption ==
    /\ Synced \subseteq Stored
    /\ MaxPort \in Nat
    /\ DefaultClientPort \in 1 .. MaxPort
    /\ DefaultMTU \in Nat \ {0}

\* A decoded slice, and what json.Unmarshal makes of a connection profile: its
\* members are slices and integers, never a missing value.
IsList(s) == s \in Seq(ToSet(s)) /\ None \notin ToSet(s)

WellFormed(cp) ==
    /\ IsList(cp.path)
    /\ IsList(cp.nodes)
    /\ \A n \in ToSet(cp.nodes) :
          /\ IsList(n.protocols)
          /\ \A pr \in ToSet(n.protocols) :
                /\ IsList(pr.pool)
                /\ \A e \in ToSet(pr.pool) : e.min \in Int /\ e.max \in Int

\* A payload is a profile in the clear, a ciphertext, a sealed bundle or none of
\* these.
ASSUME BundleAssumption ==
    \A env \in Stored :
        /\ env.body.form \in {"plain", "cipher", "sealed", "junk"}
        /\ IsList(env.body.profiles)
        /\ \A cp \in ToSet(env.body.profiles) : WellFormed(cp)

VARIABLES
    file,      \* the bytes of the bundle
    prepared,  \* what the last Prepare was asked and answered
    fresh,     \* no sync has replaced the file since
    outcome    \* what the last Connect, cmdConnect or Parse was asked and answered

vars == <<file, prepared, fresh, outcome>>

-----------------------------------------------------------------------------
(* Parse. *)

\* A nil error.
NoError == ""

Fail(e) == [err |-> e, profiles |-> <<>>]

\* json.Unmarshal into a Profile: a sealed bundle is an object none of whose
\* members a Profile has, a ciphertext is a string.
Decode(body) ==
    CASE body.form = "plain" -> [err |-> NoError, profiles |-> body.profiles]
      [] body.form = "sealed" -> [err |-> NoError, profiles |-> <<>>]
      [] OTHER -> Fail("decode payload")

\* The header the password mode authenticates.
Aad(env) == <<env.v, env.enc, env.kdf>>

\* Mutant: the header is not authenticated.
OpenPassword_NoAad(env, password) ==
    IF password = Empty THEN Fail("ErrPasswordNeeded")
    ELSE IF env.kdf = None \/ env.body.form # "cipher" THEN Fail("ErrNotPharos")
    ELSE IF env.body.key # password THEN Fail("ErrWrongPassword")
    ELSE [err |-> NoError, profiles |-> env.body.profiles]

OpenPassword(env, password) ==
    IF password = Empty THEN Fail("ErrPasswordNeeded")
    ELSE IF env.kdf = None \/ env.body.form # "cipher" THEN Fail("ErrNotPharos")
    ELSE IF env.body.key # password \/ env.body.aad # Aad(env)
         THEN Fail("ErrWrongPassword")
    ELSE [err |-> NoError, profiles |-> env.body.profiles]

OpenAccount(env, opts) ==
    IF Empty \in {opts.deviceKey, opts.signer} THEN Fail("ErrAccountKeyNeeded")
    ELSE IF env.body.form \in {"cipher", "junk"} THEN Fail("ErrNotPharos")
    ELSE IF env.body.form = "plain" THEN Fail("ErrBadSignature")
    ELSE IF env.body.signer # opts.signer THEN Fail("ErrBadSignature")
    ELSE IF env.body.key # opts.deviceKey THEN Fail("ErrDecrypt")
    ELSE [err |-> NoError, profiles |-> env.body.profiles]

Parse(env, opts) ==
    IF ~env.tag THEN Fail("ErrNotPharos")
    ELSE IF env.v # 1 THEN Fail("ErrUnsupportedVer")
    ELSE CASE env.enc = "none" -> Decode(env.body)
           [] env.enc = "password" -> OpenPassword(env, opts.password)
           [] env.enc = "account" -> OpenAccount(env, opts)
           [] OTHER -> Fail("unknown enc mode")

NoSecrets == [password |-> Empty, deviceKey |-> Empty, signer |-> Empty]

-----------------------------------------------------------------------------
(* Which profile, which node, which protocol. *)

\* The first element of s that satisfies Test, or None.
First(s, Test(_)) ==
    LET i == SelectInSeq(s, Test) IN IF i = 0 THEN None ELSE s[i]

\* Mutant: a profile that is not found is replaced by the first.
Select_Default(profiles, ref) ==
    LET named == First(profiles, LAMBDA cp : ref \in {cp.id, cp.name})
    IN  IF named # None THEN named ELSE First(profiles, LAMBDA cp : TRUE)

Select(profiles, ref) ==
    First(profiles, LAMBDA cp : ref \in {Empty, cp.id, cp.name})

\* The entry hop's node id; Empty for a profile without a path.
EntryNodeID(cp) ==
    LET marked == First(cp.path, LAMBDA h : h.role = "entry")
    IN  IF marked # None THEN marked.id
        ELSE IF cp.path # <<>> THEN cp.path[1].id ELSE Empty

\* Mutant: a cascade is entered at the first node of the list.
Node_First(cp, id) == First(cp.nodes, LAMBDA n : id \in {Empty, n.id, n.name})

\* With no explicit id the entry hop, if the profile lists it; else the first node.
Node(cp, id) ==
    LET entry == First(cp.nodes, LAMBDA n : n.id = EntryNodeID(cp))
    IN  IF id = Empty /\ EntryNodeID(cp) # Empty /\ entry # None
        THEN entry
        ELSE First(cp.nodes, LAMBDA n : id \in {Empty, n.id, n.name})

UseXRay(cp, pref) ==
    \/ cp.protocol = "xray-reality"
    \/ cp.protocol = "both" /\ pref \in {"xray", "xray-reality"}

-----------------------------------------------------------------------------
(* Which endpoint. *)

\* Mutant: a reversed range is not collapsed.
RandPort_Reversed(min, max) ==
    LET lo == IF min <= 0 THEN DefaultClientPort ELSE min
    IN  IF max = lo THEN {lo} ELSE (IF lo < max THEN lo ELSE max) .. max

\* The ports randPort may return.
RandPort(min, max) ==
    LET lo == IF min <= 0 THEN DefaultClientPort ELSE min
    IN  IF max <= lo THEN {lo} ELSE lo .. max

Usable(pool) == {i \in DOMAIN pool : pool[i].ip # Empty}

\* The endpoints pickEndpoint may return; none if it fails.
PickEndpoint(pool, ips) ==
    IF Usable(pool) # {}
    THEN UNION {{[ip |-> pool[i].ip, port |-> p] :
                    p \in RandPort(pool[i].min, pool[i].max)} : i \in Usable(pool)}
    ELSE {[ip |-> ip, port |-> DefaultClientPort] : ip \in ToSet(ips) \ {Empty}}

\* What each caller reports of a call that failed, or of one that reached node n
\* of profile cp.
Failed(e) == [err |-> e, cp |-> None, node |-> None, proto |-> None,
              endpoint |-> None, mtu |-> 0]
Reached(cp, n, proto, endpoint, mtu) ==
    [err |-> NoError, cp |-> cp, node |-> n, proto |-> proto, endpoint |-> endpoint,
     mtu |-> mtu]

\* The node's params of a protocol: its first entry of that type.
Params(n, type) == First(n.protocols, LAMBDA pr : pr.type = type)

\* Node.Tunnel (amneziawg) and Node.XRayTunnel (xray-reality).
Tunnels(cp, n, type, mtu) ==
    LET pr == Params(n, type)
        ends == PickEndpoint(pr.pool, n.endpoints)
    IN  IF pr = None THEN {Failed("no such protocol")}
        ELSE IF ~pr.ok THEN {Failed("decode params")}
        ELSE IF ends = {} THEN {Failed("no endpoint to dial")}
        ELSE {Reached(cp, n, type, e, mtu) : e \in ends}

\* resolve, and the same calls in cmdConnect: Parse, Select and Node.
Resolve(env, ref, id) ==
    LET p == Parse(env, NoSecrets)
        cp == Select(p.profiles, ref)
        n == Node(cp, id)
        fail(e) == [err |-> e, cp |-> None, node |-> None]
    IN  IF p.err # NoError THEN fail(p.err)
        ELSE IF cp = None THEN fail("ErrNoProfile")
        ELSE IF n = None THEN fail("ErrNoNode")
        ELSE [err |-> NoError, cp |-> cp, node |-> n]

Type(cp, pref) == IF UseXRay(cp, pref) THEN "xray-reality" ELSE "amneziawg"

\* Prepare: a profile's own MTU goes before the default.
PrepareOutcomes(env, ref, pref) ==
    LET r == Resolve(env, ref, Empty)
    IN  IF r.err # NoError THEN {Failed(r.err)}
        ELSE Tunnels(r.cp, r.node, Type(r.cp, pref),
                     IF r.cp.mtu > 0 THEN r.cp.mtu ELSE DefaultMTU)

\* Mutant: Connect resolves "both" the other way round.
ConnectOutcomes_Both(env, ref, pref) ==
    LET r == Resolve(env, ref, Empty)
    IN  IF r.err # NoError THEN {Failed(r.err)}
        ELSE Tunnels(r.cp, r.node,
                     IF r.cp.protocol = "both" /\ pref = "auto" THEN "xray-reality"
                     ELSE Type(r.cp, pref), DefaultMTU)

\* Connect runs its engine with the default MTU.
ConnectOutcomes(env, ref, pref) ==
    LET r == Resolve(env, ref, Empty)
    IN  IF r.err # NoError THEN {Failed(r.err)}
        ELSE Tunnels(r.cp, r.node, Type(r.cp, pref), DefaultMTU)

\* cmdConnect: always AmneziaWG, always the default MTU, and --node may name
\* another node.
CmdOutcomes(env, ref, id) ==
    LET r == Resolve(env, ref, id)
    IN  IF r.err # NoError THEN {Failed(r.err)}
        ELSE Tunnels(r.cp, r.node, "amneziawg", DefaultMTU)

-----------------------------------------------------------------------------
Init ==
    /\ file \in Stored
    /\ prepared = None
    /\ fresh = TRUE
    /\ outcome = None

Prepare(ref, pref) ==
    /\ prepared = None
    /\ \E o \in PrepareOutcomes(file, ref, pref) :
          prepared' = [ref |-> ref, pref |-> pref, out |-> o]
    /\ fresh' = TRUE
    /\ UNCHANGED <<file, outcome>>

\* The tun is built as Prepare said; Connect is called with the same names.
Connect ==
    /\ prepared # None /\ outcome = None
    /\ prepared.out.err = NoError
    /\ \E o \in ConnectOutcomes(file, prepared.ref, prepared.pref) :
          outcome' = [op |-> "connect", ref |-> prepared.ref, id |-> Empty, out |-> o]
    /\ UNCHANGED <<file, prepared, fresh>>

CmdConnect(ref, id) ==
    /\ outcome = None
    /\ \E o \in CmdOutcomes(file, ref, id) :
          outcome' = [op |-> "cmd", ref |-> ref, id |-> id, out |-> o]
    /\ UNCHANGED <<file, prepared, fresh>>

\* An application opens the file with the secrets it has.
Open(opts) ==
    /\ outcome = None
    /\ outcome' = [op |-> "open", opts |-> opts, out |-> Parse(file, opts)]
    /\ UNCHANGED <<file, prepared, fresh>>

\* A sync replaces the bundle while an application is between the two calls.
Sync(env) ==
    /\ prepared # None /\ outcome = None /\ fresh
    /\ file' = env
    /\ fresh' = FALSE
    /\ UNCHANGED <<prepared, outcome>>

\* The session ends, the next one begins.
Again ==
    /\ prepared # None \/ outcome # None
    /\ prepared' = None
    /\ outcome' = None
    /\ fresh' = TRUE
    /\ UNCHANGED file

Next ==
    \/ \E ref \in Refs, pref \in Prefs : Prepare(ref, pref)
    \/ Connect
    \/ \E ref \in Refs, id \in Ids : CmdConnect(ref, id)
    \/ \E opts \in Secrets : Open(opts)
    \/ \E env \in Synced : Sync(env)
    \/ Again

Spec == Init /\ [][Next]_vars

-----------------------------------------------------------------------------
(* Properties. *)

\* The outcomes of calls that dial: Prepare, Connect and cmdConnect.
Dials ==
    (IF prepared = None THEN {} ELSE {[ref |-> prepared.ref, id |-> Empty,
                                       out |-> prepared.out]})
    \cup (IF outcome = None THEN {}
          ELSE IF outcome.op = "open" THEN {}
          ELSE {[ref |-> outcome.ref, id |-> outcome.id, out |-> outcome.out]})

Dialed == {d \in Dials : d.out.err = NoError}

\* The profiles of a file that was sealed are read only by an application that
\* has the secret, and, in password mode, only under the header they were sealed
\* with: "enc/v/KDF cannot be downgraded".
OpensOnlyWithKey ==
    (outcome # None /\ outcome.op = "open" /\ outcome.out.profiles # <<>>) =>
        CASE file.body.form = "plain" -> TRUE
          [] file.body.form = "cipher" -> /\ outcome.opts.password = file.body.key
                                          /\ Aad(file) = file.body.aad
          [] file.body.form = "sealed" -> /\ outcome.opts.deviceKey = file.body.key
                                          /\ outcome.opts.signer = file.body.signer

Listed(cp) == {cp.nodes[i].id : i \in DOMAIN cp.nodes}

\* "A cascade profile must enter at its entry hop": a dial that names no node goes
\* to a hop of the path marked entry, or to the first if none is, whenever the
\* profile lists that node.
EntersAtEntry ==
    \A d \in Dialed :
        LET cp == d.out.cp
            marked == {i \in DOMAIN cp.path : cp.path[i].role = "entry"}
            entry == IF marked = {} THEN 1
                     ELSE CHOOSE i \in marked : \A j \in marked : i <= j
        IN  (/\ d.id = Empty /\ cp.path # <<>>
             /\ cp.path[entry].id \in Listed(cp) \ {Empty}) =>
                d.out.node.id = cp.path[entry].id

\* An endpoint's port can be dialed if the pool's ports are 16-bit, and it is in
\* the range of an entry with its address if that entry has one; without such an
\* entry it is the client port.
DialablePort ==
    \A d \in Dialed :
        LET pool == Params(d.out.node, d.out.proto).pool
            port == d.out.endpoint.port
            from == {i \in DOMAIN pool : pool[i].ip = d.out.endpoint.ip}
        IN  /\ (\A i \in from : pool[i].min <= MaxPort /\ pool[i].max <= MaxPort)
                  => port \in 1 .. MaxPort
            /\ (from # {} /\ \A i \in from : pool[i].min \in 1 .. pool[i].max)
                  => \E i \in from : port \in pool[i].min .. pool[i].max
            /\ from = {} => port = DefaultClientPort

Distinct(s) ==
    \A i, j \in DOMAIN s : i # j =>
        {s[i].id, s[i].name} \cap {s[j].id, s[j].name} = {}

\* The profile a user picks from the list by name is the one that is dialed, and
\* a name the bundle does not have dials nothing, if no two profiles of it share a
\* name or an id.
ReachesNamed ==
    \A d \in Dials : (fresh /\ d.ref # Empty /\ Distinct(file.body.profiles)) =>
        LET named == {cp \in ToSet(file.body.profiles) : cp.name = d.ref}
        IN  /\ (named # {} /\ d.out.err = NoError) => d.out.cp \in named
            /\ d.ref \notin UNION {{cp.id, cp.name} : cp \in ToSet(file.body.profiles)}
                  => d.out.err # NoError

\* Connect enters the node, by the protocol, that Prepare built the tun for, if
\* no sync replaced the file in between, and runs a direct profile with the MTU
\* Prepare announced (for a cascade see TunnelHasProfileMTU); the endpoints they
\* draw may differ.
ConnectMatchesPrepare ==
    (outcome # None /\ outcome.op = "connect" /\ fresh) =>
        /\ outcome.out.err = NoError
        /\ outcome.out.node = prepared.out.node
        /\ outcome.out.proto = prepared.out.proto
        /\ outcome.out.cp.mtu = 0 => outcome.out.mtu = prepared.out.mtu

\* "MTU is the tunnel MTU the controller sets for this profile": the tunnel that
\* Prepare announces, and the ones Connect and cmdConnect run, have the MTU of the
\* profile, if it has one.
TunnelHasProfileMTU ==
    \A d \in Dialed : d.out.cp.mtu > 0 => d.out.mtu = d.out.cp.mtu

-----------------------------------------------------------------------------
(* The inductive invariant: where the answers of the calls come from. *)

\* What Prepare answered it read from a file that was stored, and from the one that
\* is there now unless a sync replaced it.
PreparedInv ==
    prepared # None =>
        \E env \in Stored, ref \in Refs, pref \in Prefs :
            /\ fresh => env = file
            /\ \E o \in PrepareOutcomes(env, ref, pref) :
                  prepared = [ref |-> ref, pref |-> pref, out |-> o]

\* What the other calls answered they read from the file that is there now.
OutcomeInv ==
    outcome # None =>
        \/ /\ prepared # None
           /\ prepared.out.err = NoError
           /\ \E o \in ConnectOutcomes(file, prepared.ref, prepared.pref) :
                 outcome = [op |-> "connect", ref |-> prepared.ref, id |-> Empty,
                            out |-> o]
        \/ \E ref \in Refs, id \in Ids : \E o \in CmdOutcomes(file, ref, id) :
               outcome = [op |-> "cmd", ref |-> ref, id |-> id, out |-> o]
        \/ \E opts \in Secrets :
               outcome = [op |-> "open", opts |-> opts, out |-> Parse(file, opts)]

DialInv == file \in Stored /\ PreparedInv /\ OutcomeInv
=============================================================================
