-------------------------- MODULE ProfileDialProofs --------------------------
(***************************************************************************)
(* Proofs about ProfileDial, for any bundles, names, secrets and ports.    *)
(***************************************************************************)
EXTENDS ProfileDial, WellFoundedInduction, TLAPS

-----------------------------------------------------------------------------
(* First, and the loops of pharos.go that are built on it. *)

\* A nonempty set of indices has a least one, and Min is that.
LEMMA LeastIndex ==
    ASSUME NEW I \in SUBSET Nat, I # {}
    PROVE  Min(I) \in I /\ \A j \in I : Min(I) <= j
<1>1. \E x \in I : \A y \in I : ~(<<y, x>> \in OpToRel(<, Nat))
  BY NatLessThanWellFounded, WFMin
<1>2. PICK x \in I : \A y \in I : ~(<<y, x>> \in OpToRel(<, Nat))
  BY <1>1
<1>3. \A y \in I : ~(y < x)
  BY <1>2 DEF OpToRel
<1>4. \A y \in I : x <= y
  BY <1>3
<1> QED
  BY <1>4 DEF Min

\* What First answers, by the set I of the indices that pass the test.
FirstAt(s, I) ==
    IF (IF I # {} THEN Min(I) ELSE 0) = 0 THEN None
    ELSE s[IF I # {} THEN Min(I) ELSE 0]

\* The element of the least index in I, or None if there is no index.
LEMMA FirstAtLeast ==
    ASSUME NEW s, IsList(s), NEW I \in SUBSET (1 .. Len(s))
    PROVE  /\ DOMAIN s = 1 .. Len(s)
           /\ I = {} <=> FirstAt(s, I) = None
           /\ I # {} => /\ Min(I) \in I
                        /\ Min(I) \in DOMAIN s
                        /\ \A j \in I : Min(I) <= j
                        /\ FirstAt(s, I) = s[Min(I)]
                        /\ FirstAt(s, I) \in ToSet(s)
<1>1. s \in Seq(ToSet(s)) /\ None \notin ToSet(s)
  BY DEF IsList
<1>2. DOMAIN s = 1 .. Len(s)
  BY <1>1
<1>3. \A i \in 1 .. Len(s) : s[i] \in ToSet(s)
  BY <1>2 DEF ToSet
<1>4. CASE I = {}
  BY <1>2, <1>4 DEF FirstAt
<1>5. CASE I # {}
  <2>1. I \in SUBSET Nat
    OBVIOUS
  <2>2. Min(I) \in I /\ \A j \in I : Min(I) <= j
    BY <1>5, <2>1, LeastIndex
  <2>3. Min(I) # 0
    BY <2>2
  <2> QED
    BY <1>1, <1>2, <1>3, <1>5, <2>2, <2>3 DEF FirstAt
<1> QED
  BY <1>4, <1>5

\* Select answers the first profile that has the name or the id asked for.
LEMMA SelectFirst ==
    ASSUME NEW profiles, IsList(profiles), NEW ref, Select(profiles, ref) # None
    PROVE  \E i \in DOMAIN profiles :
              /\ Select(profiles, ref) = profiles[i]
              /\ ref \in {Empty, profiles[i].id, profiles[i].name}
<1> DEFINE I == {i \in 1 .. Len(profiles) :
                    ref \in {Empty, profiles[i].id, profiles[i].name}}
<1>1. Select(profiles, ref) = FirstAt(profiles, I)
  BY DEF Select, First, SelectInSeq, FirstAt
<1>2. I \in SUBSET (1 .. Len(profiles))
  OBVIOUS
<1>3. \A i \in I : ref \in {Empty, profiles[i].id, profiles[i].name}
  OBVIOUS
<1> HIDE DEF I
<1> QED
  BY <1>1, <1>2, <1>3, FirstAtLeast

\* An empty bundle has no profile to select.
LEMMA SelectEmpty ==
    ASSUME NEW ref
    PROVE  Select(<<>>, ref) = None
<1> DEFINE I == {i \in 1 .. Len(<<>>) :
                    ref \in {Empty, <<>>[i].id, <<>>[i].name}}
<1>1. Select(<<>>, ref) = FirstAt(<<>>, I)
  BY DEF Select, First, SelectInSeq, FirstAt
<1>2. I = {}
  OBVIOUS
<1> QED
  BY <1>1, <1>2 DEF FirstAt

\* The params of a protocol are an entry of the node.
LEMMA ParamsMember ==
    ASSUME NEW n, IsList(n.protocols), NEW type, Params(n, type) # None
    PROVE  Params(n, type) \in ToSet(n.protocols)
<1> DEFINE I == {i \in 1 .. Len(n.protocols) : n.protocols[i].type = type}
<1>1. Params(n, type) = FirstAt(n.protocols, I)
  BY DEF Params, First, SelectInSeq, FirstAt
<1>2. I \in SUBSET (1 .. Len(n.protocols))
  OBVIOUS
<1> HIDE DEF I
<1> QED
  BY <1>1, <1>2, FirstAtLeast

\* The entry hop: the first that is marked, else the first of the path.
Entry(cp) ==
    LET marked == {i \in DOMAIN cp.path : cp.path[i].role = "entry"}
    IN  IF marked = {} THEN 1 ELSE Min(marked)

\* EntryNodeID answers the id of the entry hop.
LEMMA EntryOfPath ==
    ASSUME NEW cp, IsList(cp.path), cp.path # <<>>
    PROVE  EntryNodeID(cp) = cp.path[Entry(cp)].id
<1> DEFINE I == {i \in 1 .. Len(cp.path) : cp.path[i].role = "entry"}
           m == FirstAt(cp.path, I)
<1>1. EntryNodeID(cp) = IF m # None THEN m.id
                        ELSE IF cp.path # <<>> THEN cp.path[1].id ELSE Empty
  BY DEF EntryNodeID, First, SelectInSeq, FirstAt
<1>2. I \in SUBSET (1 .. Len(cp.path))
  OBVIOUS
<1>3. DOMAIN cp.path = 1 .. Len(cp.path)
  BY <1>2, FirstAtLeast
<1>4. Entry(cp) = IF I = {} THEN 1 ELSE Min(I)
  BY <1>3 DEF Entry
<1> HIDE DEF I
<1> QED
  BY <1>1, <1>2, <1>4, FirstAtLeast

\* A node that was found is a node of the profile.
LEMMA NodeMember ==
    ASSUME NEW cp, IsList(cp.nodes), NEW id, Node(cp, id) # None
    PROVE  Node(cp, id) \in ToSet(cp.nodes)
<1> DEFINE I == {i \in 1 .. Len(cp.nodes) : cp.nodes[i].id = EntryNodeID(cp)}
           J == {i \in 1 .. Len(cp.nodes) :
                    id \in {Empty, cp.nodes[i].id, cp.nodes[i].name}}
<1>1. Node(cp, id) \in {FirstAt(cp.nodes, I), FirstAt(cp.nodes, J)}
  BY DEF Node, First, SelectInSeq, FirstAt
<1>2. I \in SUBSET (1 .. Len(cp.nodes)) /\ J \in SUBSET (1 .. Len(cp.nodes))
  OBVIOUS
<1> HIDE DEF I, J
<1> QED
  BY <1>1, <1>2, FirstAtLeast

\* Without an explicit id, Node answers the entry hop's node if it is listed.
LEMMA NodeIsEntry ==
    ASSUME NEW cp, IsList(cp.nodes), EntryNodeID(cp) \in Listed(cp) \ {Empty}
    PROVE  Node(cp, Empty).id = EntryNodeID(cp)
<1> DEFINE I == {i \in 1 .. Len(cp.nodes) : cp.nodes[i].id = EntryNodeID(cp)}
           e == FirstAt(cp.nodes, I)
<1>1. e # None => Node(cp, Empty) = e
  BY DEF Node, First, SelectInSeq, FirstAt
<1>2. I \in SUBSET (1 .. Len(cp.nodes))
  OBVIOUS
<1>3. DOMAIN cp.nodes = 1 .. Len(cp.nodes)
  BY <1>2, FirstAtLeast
<1>4. I # {}
  BY <1>3 DEF Listed
<1>5. \A i \in I : cp.nodes[i].id = EntryNodeID(cp)
  OBVIOUS
<1> HIDE DEF I
<1> QED
  BY <1>1, <1>2, <1>4, <1>5, FirstAtLeast

-----------------------------------------------------------------------------
(* Endpoints. *)

\* randPort answers a port that exists, and one of the range if there is one.
LEMMA RandPortInRange ==
    ASSUME NEW min \in Int, NEW max \in Int, NEW port \in RandPort(min, max)
    PROVE  /\ port \in Int
           /\ min <= MaxPort /\ max <= MaxPort => port \in 1 .. MaxPort
           /\ min \in 1 .. max => port \in min .. max
  BY DialAssumption DEF RandPort

\* pickEndpoint answers an entry of the pool with a port drawn for it, or, when no
\* entry has an address, one of the node's addresses with the client port.
LEMMA EndpointSource ==
    ASSUME NEW pool, NEW ips, NEW e \in PickEndpoint(pool, ips)
    PROVE  \/ \E i \in Usable(pool) : /\ e.ip = pool[i].ip
                                      /\ e.port \in RandPort(pool[i].min, pool[i].max)
           \/ /\ Usable(pool) = {}
              /\ e.ip # Empty
              /\ e.port = DefaultClientPort
  BY DEF PickEndpoint

\* The three clauses of DialablePort, for one endpoint.
LEMMA EndpointPort ==
    ASSUME NEW pool, IsList(pool), NEW ips, NEW e \in PickEndpoint(pool, ips),
           \A x \in ToSet(pool) : x.min \in Int /\ x.max \in Int
    PROVE  LET from == {i \in DOMAIN pool : pool[i].ip = e.ip}
           IN  /\ (\A i \in from : pool[i].min <= MaxPort /\ pool[i].max <= MaxPort)
                     => e.port \in 1 .. MaxPort
               /\ (from # {} /\ \A i \in from : pool[i].min \in 1 .. pool[i].max)
                     => \E i \in from : e.port \in pool[i].min .. pool[i].max
               /\ from = {} => e.port = DefaultClientPort
<1>1. CASE \E i \in Usable(pool) : /\ e.ip = pool[i].ip
                                   /\ e.port \in RandPort(pool[i].min, pool[i].max)
  <2>1. PICK i \in DOMAIN pool : /\ e.ip = pool[i].ip
                                 /\ e.port \in RandPort(pool[i].min, pool[i].max)
    BY <1>1 DEF Usable
  <2>2. pool[i].min \in Int /\ pool[i].max \in Int
    BY <2>1 DEF ToSet
  <2>3. /\ pool[i].min <= MaxPort /\ pool[i].max <= MaxPort => e.port \in 1 .. MaxPort
        /\ pool[i].min \in 1 .. pool[i].max => e.port \in pool[i].min .. pool[i].max
    BY <2>1, <2>2, RandPortInRange
  <2> QED
    BY <2>1, <2>3
<1>2. CASE /\ Usable(pool) = {}
           /\ e.ip # Empty
           /\ e.port = DefaultClientPort
  BY <1>2, DialAssumption DEF Usable
<1> QED
  BY <1>1, <1>2, EndpointSource

-----------------------------------------------------------------------------
(* Resolving and dialing. *)

\* No error message is the nil error.
LEMMA ErrorsApart ==
    NoError \notin {"ErrNotPharos", "ErrUnsupportedVer", "unknown enc mode",
                   "decode payload", "ErrPasswordNeeded", "ErrWrongPassword",
                   "ErrAccountKeyNeeded", "ErrBadSignature", "ErrDecrypt",
                   "ErrNoProfile", "ErrNoNode", "no such protocol",
                   "decode params", "no endpoint to dial"}
  BY Zenon DEF NoError

\* Without secrets only a bundle that was not sealed is read.
LEMMA ParsePlain ==
    ASSUME NEW env, Parse(env, NoSecrets).err = NoError
    PROVE  Parse(env, NoSecrets).profiles \in {env.body.profiles, <<>>}
  BY ErrorsApart DEF Parse, NoSecrets, Decode, OpenPassword, OpenAccount, Fail

\* A profile that was resolved is one of the file's with the name asked for, and
\* the node is the one Node answers.
LEMMA ResolveOk ==
    ASSUME NEW env \in Stored, NEW ref, NEW id, Resolve(env, ref, id).err = NoError
    PROVE  LET r == Resolve(env, ref, id)
           IN  /\ \E i \in DOMAIN env.body.profiles :
                     /\ r.cp = env.body.profiles[i]
                     /\ ref \in {Empty, r.cp.id, r.cp.name}
               /\ WellFormed(r.cp)
               /\ r.node = Node(r.cp, id)
               /\ r.node \in ToSet(r.cp.nodes)
<1> DEFINE p == Parse(env, NoSecrets)
           cp == Select(p.profiles, ref)
           r == Resolve(env, ref, id)
<1>1. /\ p.err = NoError /\ cp # None /\ Node(cp, id) # None
      /\ r.cp = cp /\ r.node = Node(cp, id)
  BY ErrorsApart DEF Resolve
<1>2. p.profiles = env.body.profiles
  BY <1>1, ParsePlain, SelectEmpty
<1>3. IsList(env.body.profiles)
  BY BundleAssumption
<1>4. PICK i \in DOMAIN env.body.profiles :
         /\ cp = env.body.profiles[i]
         /\ ref \in {Empty, env.body.profiles[i].id, env.body.profiles[i].name}
  BY <1>1, <1>2, <1>3, SelectFirst
<1>5. WellFormed(cp)
  BY <1>4, BundleAssumption DEF ToSet
<1>6. Node(cp, id) \in ToSet(cp.nodes)
  BY <1>1, <1>5, NodeMember DEF WellFormed
<1> HIDE DEF p, cp, r
<1> QED
  BY <1>1, <1>4, <1>5, <1>6 DEF r

\* A call that failed says so.
LEMMA FailedSays == \A e : Failed(e).err = e
  BY DEF Failed

\* A call that reached a node did so with an endpoint of the params it found there,
\* and with any other draw it would have reached the node as well.
LEMMA TunnelsOk ==
    ASSUME NEW cp, NEW n, NEW type, NEW mtu, NEW o \in Tunnels(cp, n, type, mtu),
           o.err = NoError
    PROVE  /\ Params(n, type) # None
           /\ o.endpoint \in PickEndpoint(Params(n, type).pool, n.endpoints)
           /\ o.cp = cp /\ o.node = n /\ o.proto = type /\ o.mtu = mtu
           /\ \A m : \A q \in Tunnels(cp, n, type, m) : q.err = NoError
<1> DEFINE pr == Params(n, type)
           ends == PickEndpoint(pr.pool, n.endpoints)
<1>1. /\ o # Failed("no such protocol")
      /\ o # Failed("decode params")
      /\ o # Failed("no endpoint to dial")
  BY FailedSays, ErrorsApart
<1>2. ASSUME NEW m
      PROVE  Tunnels(cp, n, type, m) =
                IF pr = None THEN {Failed("no such protocol")}
                ELSE IF ~pr.ok THEN {Failed("decode params")}
                ELSE IF ends = {} THEN {Failed("no endpoint to dial")}
                ELSE {Reached(cp, n, type, e, m) : e \in ends}
  BY DEF Tunnels
<1> HIDE DEF pr, ends
<1>3. pr # None
  BY <1>1, <1>2
<1>4. \A m : Tunnels(cp, n, type, m) = {Reached(cp, n, type, e, m) : e \in ends}
  <2>1. CASE pr.ok
    BY <1>1, <1>2, <1>3, <2>1
  <2>2. CASE ~pr.ok
    BY <1>1, <1>2, <1>3, <2>2
  <2> QED
    BY <2>1, <2>2
<1>5. PICK e \in ends : o = Reached(cp, n, type, e, mtu)
  BY <1>4
<1>6. o.endpoint = e /\ o.cp = cp /\ o.node = n /\ o.proto = type /\ o.mtu = mtu
  BY <1>5 DEF Reached
<1>7. \A m : \A q \in Tunnels(cp, n, type, m) : q.err = NoError
  BY <1>4 DEF Reached
<1> QED
  BY <1>3, <1>6, <1>7 DEF pr, ends

-----------------------------------------------------------------------------
(* The invariant. *)

\* Before any call there is a stored file and no answer.
LEMMA DialInit == Init => DialInv
  BY DEF Init, DialInv, PreparedInv, OutcomeInv

\* Every call answers from the file, and a sync replaces the file only while no
\* answer depends on it but that of Prepare.
LEMMA DialNext == DialInv /\ [Next]_vars => DialInv'
<1> SUFFICES ASSUME DialInv, [Next]_vars
             PROVE  DialInv'
  OBVIOUS
<1> USE DEF DialInv
<1>1. ASSUME NEW ref \in Refs, NEW pref \in Prefs, Prepare(ref, pref)
      PROVE  DialInv'
  <2>1. PICK o \in PrepareOutcomes(file, ref, pref) :
           prepared' = [ref |-> ref, pref |-> pref, out |-> o]
    BY <1>1 DEF Prepare
  <2>2. UNCHANGED <<file, outcome>> /\ prepared = None
    BY <1>1 DEF Prepare
  <2>3. PreparedInv'
    BY <2>1, <2>2 DEF PreparedInv
  <2>4. OutcomeInv'
    BY <2>2 DEF OutcomeInv
  <2> QED
    BY <2>2, <2>3, <2>4
<1>2. CASE Connect
  BY <1>2 DEF Connect, PreparedInv, OutcomeInv
<1>3. ASSUME NEW ref \in Refs, NEW id \in Ids, CmdConnect(ref, id)
      PROVE  DialInv'
  BY <1>3 DEF CmdConnect, PreparedInv, OutcomeInv
<1>4. ASSUME NEW opts \in Secrets, Open(opts)
      PROVE  DialInv'
  BY <1>4 DEF Open, PreparedInv, OutcomeInv
<1>5. ASSUME NEW env \in Synced, Sync(env)
      PROVE  DialInv'
  BY <1>5, DialAssumption DEF Sync, PreparedInv, OutcomeInv
<1>6. CASE Again
  BY <1>6 DEF Again, PreparedInv, OutcomeInv
<1>7. CASE UNCHANGED vars
  BY <1>7 DEF vars, PreparedInv, OutcomeInv
<1> QED
  BY <1>1, <1>2, <1>3, <1>4, <1>5, <1>6, <1>7 DEF Next

\* DialInv holds in every reachable state.
LEMMA DialInvariant == Spec => []DialInv
  BY DialInit, DialNext, PTL DEF Spec

\* Every call that reached a node resolved a stored file, the one that is there now
\* if no sync came in between, and got through Node.Tunnel or Node.XRayTunnel.
LEMMA DialedFrom ==
    ASSUME DialInv, NEW d \in Dialed
    PROVE  \E env \in Stored :
              /\ fresh => env = file
              /\ Resolve(env, d.ref, d.id).err = NoError
              /\ \E type, mtu : d.out \in Tunnels(Resolve(env, d.ref, d.id).cp,
                                                  Resolve(env, d.ref, d.id).node,
                                                  type, mtu)
<1>0. d \in Dials /\ d.out.err = NoError
  BY DEF Dialed
<1>1. CASE /\ prepared # None
           /\ d = [ref |-> prepared.ref, id |-> Empty, out |-> prepared.out]
  <2>1. PICK env \in Stored, ref \in Refs, pref \in Prefs :
           /\ fresh => env = file
           /\ \E o \in PrepareOutcomes(env, ref, pref) :
                 prepared = [ref |-> ref, pref |-> pref, out |-> o]
    BY <1>1 DEF DialInv, PreparedInv
  <2>2. d.ref = ref /\ d.id = Empty /\ d.out \in PrepareOutcomes(env, ref, pref)
    BY <1>1, <2>1
  <2> DEFINE r == Resolve(env, ref, Empty)
  <2>3. r.err = NoError
    BY <1>0, <2>2, FailedSays DEF PrepareOutcomes
  <2>4. d.out \in Tunnels(r.cp, r.node, Type(r.cp, pref),
                          IF r.cp.mtu > 0 THEN r.cp.mtu ELSE DefaultMTU)
    BY <2>2, <2>3 DEF PrepareOutcomes
  <2> QED
    BY <2>1, <2>2, <2>3, <2>4
<1>2. CASE /\ outcome # None
           /\ outcome.op # "open"
           /\ d = [ref |-> outcome.ref, id |-> outcome.id, out |-> outcome.out]
  <2>1. file \in Stored
    BY DEF DialInv
  <2>2. CASE \E o \in ConnectOutcomes(file, prepared.ref, prepared.pref) :
                outcome = [op |-> "connect", ref |-> prepared.ref, id |-> Empty,
                           out |-> o]
    <3> DEFINE r == Resolve(file, d.ref, d.id)
    <3>1. /\ d.ref = prepared.ref /\ d.id = Empty
          /\ d.out \in ConnectOutcomes(file, d.ref, prepared.pref)
      BY <1>2, <2>2
    <3>2. r.err = NoError
      BY <1>0, <3>1, FailedSays DEF ConnectOutcomes
    <3>3. d.out \in Tunnels(r.cp, r.node, Type(r.cp, prepared.pref), DefaultMTU)
      BY <3>1, <3>2 DEF ConnectOutcomes
    <3> QED
      BY <2>1, <3>2, <3>3
  <2>3. CASE \E ref \in Refs, id \in Ids : \E o \in CmdOutcomes(file, ref, id) :
                outcome = [op |-> "cmd", ref |-> ref, id |-> id, out |-> o]
    <3> DEFINE r == Resolve(file, d.ref, d.id)
    <3>1. d.out \in CmdOutcomes(file, d.ref, d.id)
      BY <1>2, <2>3
    <3>2. r.err = NoError
      BY <1>0, <3>1, FailedSays DEF CmdOutcomes
    <3>3. d.out \in Tunnels(r.cp, r.node, "amneziawg", DefaultMTU)
      BY <3>1, <3>2 DEF CmdOutcomes
    <3> QED
      BY <2>1, <3>2, <3>3
  <2>4. CASE \E opts \in Secrets :
               outcome = [op |-> "open", opts |-> opts, out |-> Parse(file, opts)]
    BY <1>2, <2>4
  <2> QED
    BY <1>2, <2>2, <2>3, <2>4 DEF DialInv, OutcomeInv
<1> QED
  BY <1>0, <1>1, <1>2 DEF Dials

\* What a dial is made of: a profile of the file that has the name, the node that
\* Node answers for it, and an endpoint of that node's params.
LEMMA DialedOk ==
    ASSUME DialInv, NEW d \in Dialed
    PROVE  \E env \in Stored :
              /\ fresh => env = file
              /\ \E i \in DOMAIN env.body.profiles :
                    /\ d.out.cp = env.body.profiles[i]
                    /\ d.ref \in {Empty, d.out.cp.id, d.out.cp.name}
              /\ WellFormed(d.out.cp)
              /\ d.out.node = Node(d.out.cp, d.id)
              /\ d.out.node \in ToSet(d.out.cp.nodes)
              /\ Params(d.out.node, d.out.proto) # None
              /\ d.out.endpoint \in PickEndpoint(
                    Params(d.out.node, d.out.proto).pool, d.out.node.endpoints)
<1>1. PICK env \in Stored :
         /\ fresh => env = file
         /\ Resolve(env, d.ref, d.id).err = NoError
         /\ \E type, mtu : d.out \in Tunnels(Resolve(env, d.ref, d.id).cp,
                                             Resolve(env, d.ref, d.id).node,
                                             type, mtu)
  BY DialedFrom
<1> DEFINE r == Resolve(env, d.ref, d.id)
<1>2. PICK type, mtu : d.out \in Tunnels(r.cp, r.node, type, mtu)
  BY <1>1
<1>3. /\ \E i \in DOMAIN env.body.profiles :
            /\ r.cp = env.body.profiles[i]
            /\ d.ref \in {Empty, r.cp.id, r.cp.name}
      /\ WellFormed(r.cp)
      /\ r.node = Node(r.cp, d.id)
      /\ r.node \in ToSet(r.cp.nodes)
  BY <1>1, ResolveOk
<1> HIDE DEF r
<1>4. /\ Params(r.node, type) # None
      /\ d.out.endpoint \in PickEndpoint(Params(r.node, type).pool, r.node.endpoints)
      /\ d.out.cp = r.cp /\ d.out.node = r.node /\ d.out.proto = type
  BY <1>2, TunnelsOk DEF Dialed
<1> QED
  BY <1>1, <1>3, <1>4

-----------------------------------------------------------------------------
(* The theorems. *)

\* OpensOnlyWithKey holds in every reachable state: no header, however rewritten,
\* makes Parse give the profiles of a sealed file to who has not its secret.
THEOREM OnlyKeyOpens == Spec => []OpensOnlyWithKey
<1>1. DialInv => OpensOnlyWithKey
  <2> SUFFICES ASSUME DialInv, outcome # None, outcome.op = "open",
                      outcome.out.profiles # <<>>
               PROVE  CASE file.body.form = "plain" -> TRUE
                        [] file.body.form = "cipher" ->
                              /\ outcome.opts.password = file.body.key
                              /\ Aad(file) = file.body.aad
                        [] file.body.form = "sealed" ->
                              /\ outcome.opts.deviceKey = file.body.key
                              /\ outcome.opts.signer = file.body.signer
    BY DEF OpensOnlyWithKey
  <2>1. outcome.out = Parse(file, outcome.opts)
    BY DEF DialInv, OutcomeInv
  <2>2. Parse(file, outcome.opts).profiles # <<>>
    BY <2>1
  <2>3. file.body.form \in {"plain", "cipher", "sealed", "junk"}
    BY BundleAssumption DEF DialInv
  <2>4. CASE file.body.form = "plain"
    BY <2>4
  <2>5. CASE file.body.form = "cipher"
    <3>1. file.enc = "password"
      BY <2>2, <2>5 DEF Parse, Decode, OpenAccount, Fail
    <3>2. OpenPassword(file, outcome.opts.password).profiles # <<>>
      BY <2>2, <3>1 DEF Parse, Fail
    <3>3. /\ outcome.opts.password = file.body.key
          /\ Aad(file) = file.body.aad
      BY <3>2 DEF OpenPassword, Fail
    <3> QED
      BY <2>5, <3>3
  <2>6. CASE file.body.form = "sealed"
    <3>1. file.enc = "account"
      BY <2>2, <2>6 DEF Parse, Decode, OpenPassword, Fail
    <3>2. OpenAccount(file, outcome.opts).profiles # <<>>
      BY <2>2, <3>1 DEF Parse, Fail
    <3>3. /\ outcome.opts.deviceKey = file.body.key
          /\ outcome.opts.signer = file.body.signer
      BY <3>2 DEF OpenAccount, Fail
    <3> QED
      BY <2>6, <3>3
  <2>7. CASE file.body.form = "junk"
    BY <2>2, <2>7 DEF Parse, Decode, OpenPassword, OpenAccount, Fail
  <2> QED
    BY <2>3, <2>4, <2>5, <2>6, <2>7
<1> QED
  BY <1>1, DialInvariant, PTL

\* EntersAtEntry holds in every reachable state: a dial that names no node enters a
\* cascade at its entry hop whenever the profile lists that node.
THEOREM DialEntersAtEntry == Spec => []EntersAtEntry
<1>1. DialInv => EntersAtEntry
  <2> SUFFICES ASSUME DialInv, NEW d \in Dialed, d.id = Empty,
                      d.out.cp.path # <<>>,
                      d.out.cp.path[Entry(d.out.cp)].id \in Listed(d.out.cp) \ {Empty}
               PROVE  d.out.node.id = d.out.cp.path[Entry(d.out.cp)].id
    BY DEF EntersAtEntry, Entry, Min
  <2>1. WellFormed(d.out.cp) /\ d.out.node = Node(d.out.cp, d.id)
    BY DialedOk
  <2>2. EntryNodeID(d.out.cp) = d.out.cp.path[Entry(d.out.cp)].id
    BY <2>1, EntryOfPath DEF WellFormed
  <2> QED
    BY <2>1, <2>2, NodeIsEntry DEF WellFormed
<1> QED
  BY <1>1, DialInvariant, PTL

\* DialablePort holds in every reachable state, for any range in any pool.
THEOREM PortIsDialable == Spec => []DialablePort
<1>1. DialInv => DialablePort
  <2> SUFFICES ASSUME DialInv, NEW d \in Dialed
               PROVE  LET pool == Params(d.out.node, d.out.proto).pool
                          port == d.out.endpoint.port
                          from == {i \in DOMAIN pool : pool[i].ip = d.out.endpoint.ip}
                      IN  /\ (\A i \in from : pool[i].min <= MaxPort
                                              /\ pool[i].max <= MaxPort)
                                => port \in 1 .. MaxPort
                          /\ (from # {} /\ \A i \in from :
                                  pool[i].min \in 1 .. pool[i].max)
                                => \E i \in from :
                                      port \in pool[i].min .. pool[i].max
                          /\ from = {} => port = DefaultClientPort
    BY DEF DialablePort
  <2>1. /\ WellFormed(d.out.cp)
        /\ d.out.node \in ToSet(d.out.cp.nodes)
        /\ Params(d.out.node, d.out.proto) # None
        /\ d.out.endpoint \in PickEndpoint(
              Params(d.out.node, d.out.proto).pool, d.out.node.endpoints)
    BY DialedOk
  <2>2. IsList(d.out.node.protocols)
    BY <2>1 DEF WellFormed
  <2>3. Params(d.out.node, d.out.proto) \in ToSet(d.out.node.protocols)
    BY <2>1, <2>2, ParamsMember
  <2>4. /\ IsList(Params(d.out.node, d.out.proto).pool)
        /\ \A x \in ToSet(Params(d.out.node, d.out.proto).pool) :
              x.min \in Int /\ x.max \in Int
    BY <2>1, <2>3 DEF WellFormed
  <2> QED
    BY <2>1, <2>4, EndpointPort
<1> QED
  BY <1>1, DialInvariant, PTL

\* ReachesNamed holds in every reachable state: if no two profiles share a name or
\* an id, the one the user named is dialed, or none.
THEOREM DialReachesNamed == Spec => []ReachesNamed
<1>1. DialInv => ReachesNamed
  <2> SUFFICES ASSUME DialInv, NEW d \in Dials, fresh, d.ref # Empty,
                      Distinct(file.body.profiles), d.out.err = NoError
               PROVE  /\ \A cp \in ToSet(file.body.profiles) :
                            cp.name = d.ref => d.out.cp = cp
                      /\ \E cp \in ToSet(file.body.profiles) :
                            d.ref \in {cp.id, cp.name}
    BY DEF ReachesNamed
  <2>1. d \in Dialed
    BY DEF Dialed
  <2>2. PICK i \in DOMAIN file.body.profiles :
           /\ d.out.cp = file.body.profiles[i]
           /\ d.ref \in {d.out.cp.id, d.out.cp.name}
    BY <2>1, DialedOk
  <2> QED
    BY <2>2 DEF ToSet, Distinct
<1> QED
  BY <1>1, DialInvariant, PTL

\* ConnectMatchesPrepare holds in every reachable state: unless a sync replaced the
\* file, Connect succeeds with the node and the protocol Prepare announced.
THEOREM ConnectKeepsPromise == Spec => []ConnectMatchesPrepare
<1>1. DialInv => ConnectMatchesPrepare
  <2> SUFFICES ASSUME DialInv, outcome # None, outcome.op = "connect", fresh
               PROVE  /\ outcome.out.err = NoError
                      /\ outcome.out.node = prepared.out.node
                      /\ outcome.out.proto = prepared.out.proto
                      /\ outcome.out.cp.mtu = 0 => outcome.out.mtu = prepared.out.mtu
    BY DEF ConnectMatchesPrepare
  <2>1. /\ prepared # None
        /\ prepared.out.err = NoError
        /\ outcome.out \in ConnectOutcomes(file, prepared.ref, prepared.pref)
    BY DEF DialInv, OutcomeInv
  <2>2. prepared.out \in PrepareOutcomes(file, prepared.ref, prepared.pref)
    BY <2>1 DEF DialInv, PreparedInv
  <2> DEFINE r == Resolve(file, prepared.ref, Empty)
             type == Type(r.cp, prepared.pref)
             mtu == IF r.cp.mtu > 0 THEN r.cp.mtu ELSE DefaultMTU
  <2>3. r.err = NoError
    BY <2>1, <2>2, FailedSays DEF PrepareOutcomes
  <2>4. /\ prepared.out \in Tunnels(r.cp, r.node, type, mtu)
        /\ outcome.out \in Tunnels(r.cp, r.node, type, DefaultMTU)
    BY <2>1, <2>2, <2>3 DEF PrepareOutcomes, ConnectOutcomes
  <2>5. r.cp.mtu = 0 => mtu = DefaultMTU
    OBVIOUS
  <2> HIDE DEF r, type, mtu
  <2>6. /\ prepared.out.node = r.node /\ prepared.out.proto = type
        /\ prepared.out.mtu = mtu
        /\ \A m : \A q \in Tunnels(r.cp, r.node, type, m) : q.err = NoError
    BY <2>1, <2>4, TunnelsOk
  <2>7. outcome.out.err = NoError
    BY <2>4, <2>6
  <2>8. /\ outcome.out.cp = r.cp /\ outcome.out.node = r.node
        /\ outcome.out.proto = type /\ outcome.out.mtu = DefaultMTU
    BY <2>4, <2>7, TunnelsOk
  <2> QED
    BY <2>5, <2>6, <2>7, <2>8
<1> QED
  BY <1>1, DialInvariant, PTL
=============================================================================
