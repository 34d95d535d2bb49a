-------------------------- MODULE HostRoutesProofs --------------------------
(***************************************************************************)
(* Proofs about HostRoutes, for any profiles, gateways and host routes.    *)
(***************************************************************************)
EXTENDS HostRoutes, SequenceTheorems, TLAPS

-----------------------------------------------------------------------------
(* The operators of the model. *)

\* Whatever the destination, a lookup ends at a gateway, in the tunnel or nowhere.
LEMMA LookupType ==
    ASSUME TypeOK
    PROVE  Lookup(table) \in Hops \cup {"tun"}
<1> DEFINE covering == {c \in Covering : table[c] # "none"}
<1>1. Covering \subseteq Dests /\ {"pin", Half, "default"} \subseteq Dests
  BY RoutesAssumption DEF Dests, Fixed
<1>2. covering # {} => (CHOOSE c \in covering : TRUE) \in covering
  OBVIOUS
<1> QED
  BY <1>1, <1>2 DEF Lookup, TypeOK

\* The endpoint's route stays out of the tunnel as long as its pin, the prefixes
\* around it and the default route do, and there is a pin when the endpoint's half
\* of the address space is routed into the tunnel.
LEMMA LookupOutside ==
    ASSUME \A c \in Covering \cup {"default", "pin"} : table[c] # "tun",
           table[Half] = "tun" => table["pin"] # "none"
    PROVE  Lookup(table) # "tun"
<1> DEFINE covering == {c \in Covering : table[c] # "none"}
<1>1. covering # {} => (CHOOSE c \in covering : TRUE) \in covering
  OBVIOUS
<1> QED
  BY <1>1 DEF Lookup

\* Taking the device away removes the tunnel's routes and no other.
LEMMA WithoutTunRoutes ==
    ASSUME TypeOK, table' = WithoutTun(table)
    PROVE  /\ table' \in [Dests -> Hops \cup {"tun"}]
           /\ \A x \in Dests : table'[x] # "tun"
           /\ \A x \in Dests : table'[x] \in {"none", table[x]}
           /\ \A x \in Dests : table[x] # "tun" => table'[x] = table[x]
  BY RoutesAssumption DEF WithoutTun, TypeOK, Hops

\* Undone takes the last destination off the list and leaves the others where
\* they are.
LEMMA UndoneList ==
    ASSUME TypeOK, undo # <<>>, Undone
    PROVE  /\ Len(undo) \in DOMAIN undo
           /\ LastUndo \in Dests
           /\ undo' \in Seq(Dests)
           /\ DOMAIN undo' = DOMAIN undo \ {Len(undo)}
           /\ \A i \in DOMAIN undo' : undo'[i] = undo[i]
<1>1. undo \in Seq(Dests) /\ Len(undo) \in Nat /\ Len(undo) # 0
  BY DEF TypeOK
<1> DEFINE n == Len(undo) - 1
           rest == SubSeq(undo, 1, n)
<1>2. n \in Nat /\ n <= Len(undo) /\ Len(undo) = n + 1
  BY <1>1
<1> HIDE DEF n
<1>3. rest \in Seq(Dests) /\ Len(rest) = n /\ \A i \in 1 .. n : rest[i] = undo[i]
  BY <1>1, <1>2
<1>4. undo' = rest
  BY DEF Undone, n
<1>5. DOMAIN rest = 1 .. n /\ DOMAIN undo = 1 .. n + 1
  BY <1>1, <1>2, <1>3
<1> HIDE DEF rest
<1> QED
  BY <1>1, <1>2, <1>3, <1>4, <1>5 DEF LastUndo

\* Added routes one destination and puts it at the end of the list.
LEMMA AddedList ==
    ASSUME TypeOK, NEW x \in Dests, NEW hop, NEW next, Added(x, hop, next)
    PROVE  /\ undo' \in Seq(Dests)
           /\ DOMAIN undo' = DOMAIN undo \cup {Len(undo) + 1}
           /\ \A i \in DOMAIN undo : undo'[i] = undo[i] /\ i < Len(undo) + 1
           /\ undo'[Len(undo) + 1] = x
           /\ table'[x] = hop
           /\ \A y \in Dests \ {x} : table'[y] = table[y]
<1>1. undo \in Seq(Dests) /\ Len(undo) \in Nat /\ undo' = Append(undo, x)
  BY DEF TypeOK, Added
<1>2. table \in [Dests -> Hops \cup {"tun"}] /\ table' = [table EXCEPT ![x] = hop]
  BY DEF TypeOK, Added, Route
<1> QED
  BY <1>1, <1>2

-----------------------------------------------------------------------------
(* Type correctness. *)

\* A host without a tunnel has the right types.
LEMMA RoutesTypeInit == Init => TypeOK
  BY EmptySeq DEF Init, TypeOK, Points, Hops, Dests, Fixed

\* Every step of connecting, disconnecting and the environment keeps the types.
LEMMA RoutesTypeNext == TypeOK /\ [Next]_vars => TypeOK'
<1> SUFFICES ASSUME TypeOK, [Next]_vars
             PROVE  TypeOK'
  OBVIOUS
<1>0. {"pin", "low", "high", "default"} \subseteq Dests /\ Cidrs \subseteq Dests
  BY DEF Dests, Fixed
<1>1. ASSUME NEW f \in BOOLEAN, NEW list \in AllowedLists, CallConnect(f, list)
      PROVE  TypeOK'
  BY <1>1, RoutesAssumption DEF CallConnect, TypeOK, Points, Hops
<1>2. CASE CreateTun \/ CreateTunFails \/ VpUp \/ VpUpFails \/ ConfigureLink
           \/ AllowedDone \/ ConfigureFails \/ Signal
  BY <1>2 DEF CreateTun, CreateTunFails, VpUp, VpUpFails, ConfigureLink,
              AllowedDone, ConfigureFails, Signal, TypeOK, Points
<1>3. CASE SkipAllowed
  BY <1>3 DEF SkipAllowed, TypeOK
<1>4. ASSUME NEW x \in Dests, NEW hop \in Hops \cup {"tun"}, NEW next \in Points,
             Added(x, hop, next), capture' = capture,
             allowed' \in Seq(Cidrs \cup {"default", "ipv6"})
      PROVE  TypeOK'
  <2>1. undo' \in Seq(Dests)
    BY <1>4, AddedList
  <2> QED
    BY <1>4, <2>1 DEF Added, Route, TypeOK
<1>5. CASE AddAllowed
  <2>1. Head(allowed) \in Dests /\ Tail(allowed) \in Seq(Cidrs \cup {"default", "ipv6"})
    BY <1>0, <1>5 DEF AddAllowed, TypeOK
  <2> QED
    BY <1>4, <1>5, <2>1 DEF AddAllowed, Points
<1>6. CASE RouteTo
  BY <1>6, LookupType DEF RouteTo, TypeOK, Points
<1>7. CASE ReplacePin \/ ReplaceHalf("low", "high") \/ ReplaceHalf("high", "up")
  BY <1>0, <1>4, <1>7 DEF ReplacePin, ReplaceHalf, TypeOK, Points
<1>8. CASE UndoNext \/ UndoFails
  <2>1. undo' \in Seq(Dests) /\ LastUndo \in Dests
    BY <1>8, UndoneList DEF UndoNext, UndoFails
  <2> QED
    BY <1>8, <2>1 DEF UndoNext, UndoFails, Route, TypeOK, Hops
<1>9. CASE CloseTunnel \/ Crash \/ EngineExits
  <2>1. table' \in [Dests -> Hops \cup {"tun"}]
    BY <1>9, WithoutTunRoutes DEF CloseTunnel, Crash, EngineExits
  <2> QED
    BY <1>9, <2>1, EmptySeq DEF CloseTunnel, Crash, EngineExits, TypeOK, Points
<1>10. ASSUME NEW g \in Hops, NetworkChanges(g)
       PROVE  TypeOK'
  BY <1>0, <1>10 DEF NetworkChanges, Route, TypeOK
<1>11. CASE UNCHANGED vars
  BY <1>11 DEF vars, TypeOK
<1> QED
  BY <1>1, <1>2, <1>3, <1>5, <1>6, <1>7, <1>8, <1>9, <1>10, <1>11
     DEF Next, Configure

-----------------------------------------------------------------------------
(* The invariants. *)

\* The fixed destinations.
LEMMA FixedDests ==
    /\ {"pin", "low", "high", "default"} \subseteq Dests
    /\ Covering \subseteq Dests
    /\ {"pin", "low", "high", "default"} \cap Cidrs = {}
    /\ Half \in {"low", "high"}
  BY RoutesAssumption DEF Dests, Fixed

\* A host without a tunnel satisfies the invariants.
LEMMA RouteInit == Init => RouteInv /\ OutsideInv
<1> SUFFICES ASSUME Init
             PROVE  RouteInv /\ OutsideInv
  OBVIOUS
<1>1. \A x \in Dests : table[x] # "tun"
  BY RoutesAssumption DEF Init, Hops
<1> QED
  BY <1>1, FixedDests DEF Init, RouteInv, TunRoutes, RoutesInPlace, ChangesListed,
                          OutsideInv

\* Steps of connect that leave the host, the list and the history alone.
LEMMA QuietStep ==
    ASSUME TypeOK, RouteInv,
           UNCHANGED <<table, undo, alive, before, kept>>,
           \/ CreateTunFails \/ VpUp \/ ConfigureLink \/ SkipAllowed
           \/ AllowedDone \/ RouteTo \/ ConfigureFails \/ Signal
    PROVE  RouteInv' /\ (OutsideInv => OutsideInv')
<1>1. TunRoutes'
  BY DEF RouteInv, TunRoutes, CreateTunFails, VpUp, ConfigureLink, SkipAllowed,
         AllowedDone, RouteTo, ConfigureFails, Signal
<1>2. RoutesInPlace'
  BY DEF RouteInv, RoutesInPlace, CreateTunFails, VpUp, ConfigureLink,
         SkipAllowed, AllowedDone, RouteTo, ConfigureFails, Signal
<1>3. ChangesListed'
  BY DEF RouteInv, ChangesListed, CreateTunFails, VpUp, ConfigureLink,
         SkipAllowed, AllowedDone, RouteTo, ConfigureFails, Signal
<1>4. ASSUME OutsideInv
      PROVE  OutsideInv'
  <2>1. \A i \in DOMAIN allowed' : allowed'[i] \notin Covering
    <3>1. allowed' = allowed \/ (allowed # <<>> /\ allowed' = Tail(allowed))
      BY DEF CreateTunFails, VpUp, ConfigureLink, SkipAllowed, AllowedDone,
             RouteTo, ConfigureFails, Signal
    <3> QED
      BY <1>4, <3>1 DEF OutsideInv, TypeOK
  <2>2. pc' = "pin" => via' # "tun"
    <3>1. ASSUME RouteTo
          PROVE  Lookup(table) # "tun"
      BY <1>4, <3>1, FixedDests, LookupOutside
         DEF RouteTo, RouteInv, TunRoutes, OutsideInv
    <3> QED
      BY <3>1 DEF CreateTunFails, VpUp, ConfigureLink, SkipAllowed, AllowedDone,
                  RouteTo, ConfigureFails, Signal
  <2>3. HalfAfterPin' = HalfAfterPin
    BY DEF HalfAfterPin
  <2> QED
    BY <1>4, <2>1, <2>2, <2>3 DEF OutsideInv
<1> QED
  BY <1>1, <1>2, <1>3, <1>4 DEF RouteInv

\* A call of connect finds a host without tunnel routes.
LEMMA CallStep ==
    ASSUME TypeOK, RouteInv, NEW f \in BOOLEAN, NEW list \in AllowedLists,
           CallConnect(f, list)
    PROVE  RouteInv' /\ (EndpointOutside /\ OutsideInv => OutsideInv')
<1>1. RouteInv'
  BY FixedDests DEF CallConnect, RouteInv, TunRoutes, RoutesInPlace, ChangesListed
<1>2. EndpointOutside /\ OutsideInv => OutsideInv'
  BY FixedDests DEF CallConnect, EndpointOutside, RouteInv, TunRoutes, OutsideInv
<1> QED
  BY <1>1, <1>2

\* The tun device is created, or closed again before it had a route.
LEMMA DeviceStep ==
    ASSUME TypeOK, RouteInv, CreateTun \/ VpUpFails
    PROVE  RouteInv' /\ (OutsideInv => OutsideInv')
<1>1. RouteInv'
  BY DEF CreateTun, VpUpFails, RouteInv, TunRoutes, RoutesInPlace, ChangesListed
<1>2. OutsideInv => OutsideInv'
  BY DEF CreateTun, VpUpFails, OutsideInv, HalfAfterPin
<1> QED
  BY <1>1, <1>2

\* A prefix of AllowedIPs is routed into the tunnel.
LEMMA AllowedStep ==
    ASSUME TypeOK, RouteInv, AddAllowed
    PROVE  RouteInv' /\ (OutsideInv => OutsideInv')
<1> DEFINE x == Head(allowed)
<1>1. x \in Dests /\ x \notin {"pin", "low", "high", "default"}
  BY FixedDests DEF AddAllowed, Dests
<1>2. OutsideInv => /\ x \notin Covering
                    /\ \A i \in DOMAIN allowed' : allowed'[i] \notin Covering
  BY DEF AddAllowed, OutsideInv, TypeOK
<1>3. Added(x, "tun", "allowed") /\ alive
  BY DEF AddAllowed, Added
<1>4. /\ DOMAIN undo' = DOMAIN undo \cup {Len(undo) + 1}
      /\ \A i \in DOMAIN undo : undo'[i] = undo[i]
      /\ table'[x] = "tun"
      /\ \A y \in Dests \ {x} : table'[y] = table[y]
  BY <1>1, <1>3, AddedList
<1> HIDE DEF x
<1>5. TunRoutes'
  BY <1>1, <1>3, <1>4 DEF AddAllowed, Added, RouteInv, TunRoutes
<1>6. RoutesInPlace'
  BY <1>3 DEF Added, RoutesInPlace
<1>7. ChangesListed'
  BY <1>3, <1>4 DEF AddAllowed, Added, RouteInv, ChangesListed
<1>8. OutsideInv => OutsideInv'
  BY <1>1, <1>2, <1>3, <1>4, FixedDests
     DEF AddAllowed, Added, RouteInv, TunRoutes, OutsideInv
<1> QED
  BY <1>5, <1>6, <1>7, <1>8 DEF RouteInv

\* The pin is set, to what routeTo answered.
LEMMA PinStep ==
    ASSUME TypeOK, RouteInv, ReplacePin
    PROVE  RouteInv' /\ (OutsideInv => OutsideInv')
<1>1. Added("pin", via, "low") /\ (via = "tun" => alive) /\ via # "none"
  BY DEF ReplacePin, Added, RouteInv, RoutesInPlace
<1>2. /\ DOMAIN undo' = DOMAIN undo \cup {Len(undo) + 1}
      /\ \A i \in DOMAIN undo : undo'[i] = undo[i]
      /\ undo'[Len(undo) + 1] = "pin"
      /\ table'["pin"] = via
      /\ \A y \in Dests \ {"pin"} : table'[y] = table[y]
  BY <1>1, FixedDests, AddedList
<1>3. TunRoutes'
  BY <1>1, <1>2, FixedDests DEF ReplacePin, Added, RouteInv, TunRoutes
<1>4. RoutesInPlace'
  BY <1>1, <1>2 DEF Added, RoutesInPlace
<1>5. ChangesListed'
  BY <1>1, <1>2 DEF ReplacePin, Added, RouteInv, ChangesListed
<1>6. OutsideInv => OutsideInv'
  BY <1>1, <1>2, FixedDests DEF ReplacePin, Added, RouteInv, TunRoutes, OutsideInv
<1> QED
  BY <1>3, <1>4, <1>5, <1>6 DEF RouteInv

\* A half is routed into the tunnel, behind the pin on the list.
LEMMA HalfStep ==
    ASSUME TypeOK, RouteInv,
           NEW half \in {"low", "high"}, NEW next \in {"high", "up"},
           half = "low" <=> next = "high", ReplaceHalf(half, next)
    PROVE  RouteInv' /\ (OutsideInv => OutsideInv')
<1>1. half \in Dests /\ half \notin Covering
  BY FixedDests, RoutesAssumption
<1>2. Added(half, "tun", next) /\ alive
  BY DEF ReplaceHalf, Added
<1>3. /\ DOMAIN undo' = DOMAIN undo \cup {Len(undo) + 1}
      /\ \A i \in DOMAIN undo : undo'[i] = undo[i] /\ i < Len(undo) + 1
      /\ undo'[Len(undo) + 1] = half
      /\ table'[half] = "tun"
      /\ \A y \in Dests \ {half} : table'[y] = table[y]
  BY <1>1, <1>2, AddedList
<1>4. table'["pin"] # "none" /\ table'["pin"] = table["pin"]
  BY <1>2, <1>3, FixedDests DEF ReplaceHalf, RouteInv, RoutesInPlace
<1>5. TunRoutes'
  BY <1>1, <1>2, <1>3 DEF ReplaceHalf, Added, RouteInv, TunRoutes
<1>6. RoutesInPlace'
  BY <1>2, <1>3, <1>4, FixedDests DEF ReplaceHalf, Added, RouteInv, RoutesInPlace
<1>7. ChangesListed'
  BY <1>2, <1>3 DEF ReplaceHalf, Added, RouteInv, ChangesListed
<1>8. ASSUME OutsideInv
      PROVE  OutsideInv'
  <2>1. half = Half => HalfAfterPin'
    BY <1>3 DEF HalfAfterPin
  <2>2. half # Half /\ HalfAfterPin => HalfAfterPin'
    BY <1>3 DEF HalfAfterPin
  <2>3. half # Half => table'[Half] = table[Half]
    BY <1>3, FixedDests
  <2>4. \A y \in Covering \cup {"pin"} : table'[y] # "tun"
    BY <1>1, <1>3, <1>8, FixedDests DEF OutsideInv
  <2> QED
    BY <1>2, <1>4, <1>8, <2>1, <2>2, <2>3, <2>4 DEF ReplaceHalf, Added, OutsideInv
<1> QED
  BY <1>5, <1>6, <1>7, <1>8 DEF RouteInv

\* Close takes the next destination off the list, whether `ip route del` works or
\* not.  It meets the endpoint's half before the pin.
LEMMA UndoStep ==
    ASSUME TypeOK, RouteInv, UndoNext \/ UndoFails
    PROVE  RouteInv' /\ (OutsideInv => OutsideInv')
<1> DEFINE x == LastUndo
<1>1. /\ Len(undo) \in DOMAIN undo
      /\ x = undo[Len(undo)]
      /\ x \in Dests
      /\ DOMAIN undo' = DOMAIN undo \ {Len(undo)}
      /\ \A i \in DOMAIN undo' : undo'[i] = undo[i]
  BY UndoneList DEF UndoNext, UndoFails, LastUndo
<1>2. \A i \in DOMAIN undo : i <= Len(undo) /\ i \in Nat
  BY DEF TypeOK
<1> HIDE DEF x
<1>3. CASE UndoNext
  <2>1. table'[x] = "none" /\ \A y \in Dests \ {x} : table'[y] = table[y]
    BY <1>1, <1>3 DEF UndoNext, Route, TypeOK, x
  <2>2. TunRoutes' /\ RoutesInPlace'
    BY <1>1, <1>3, <2>1 DEF UndoNext, RouteInv, TunRoutes, RoutesInPlace
  <2>3. ChangesListed'
    BY <1>1, <1>3, <2>1 DEF UndoNext, RouteInv, ChangesListed
  <2>4. ASSUME OutsideInv
        PROVE  OutsideInv'
    <3>1. ASSUME kept = {}, table'[Half] = "tun"
          PROVE  table'["pin"] # "none" /\ HalfAfterPin'
      <4>1. x # Half /\ table[Half] = "tun"
        BY <2>1, <3>1, FixedDests
      <4>2. table["pin"] # "none" /\ HalfAfterPin
        BY <2>4, <3>1, <4>1 DEF OutsideInv
      <4>3. PICK j \in DOMAIN undo :
               /\ undo[j] = Half
               /\ \A i \in DOMAIN undo : undo[i] = "pin" => i < j
        BY <4>2 DEF HalfAfterPin
      <4>4. j \in DOMAIN undo' /\ x # "pin"
        BY <1>1, <1>2, <4>1, <4>3
      <4> QED
        BY <1>1, <2>1, <4>2, <4>3, <4>4, FixedDests DEF HalfAfterPin
    <3>2. \A y \in Covering \cup {"pin"} : table'[y] # "tun"
      BY <2>1, <2>4, FixedDests DEF OutsideInv
    <3> QED
      BY <1>3, <2>4, <3>1, <3>2 DEF UndoNext, OutsideInv
  <2> QED
    BY <2>2, <2>3, <2>4 DEF RouteInv
<1>4. CASE UndoFails
  <2>1. kept' = kept \cup {x}
    BY <1>4 DEF UndoFails, x
  <2>2. TunRoutes' /\ RoutesInPlace'
    BY <1>4 DEF UndoFails, RouteInv, TunRoutes, RoutesInPlace
  <2>3. ChangesListed'
    BY <1>1, <1>4, <2>1 DEF UndoFails, RouteInv, ChangesListed
  <2>4. OutsideInv => OutsideInv'
    BY <1>4, <2>1 DEF UndoFails, OutsideInv
  <2> QED
    BY <2>2, <2>3, <2>4 DEF RouteInv
<1> QED
  BY <1>3, <1>4

\* The device goes, by Close, with the process or with the engine.
LEMMA GoneStep ==
    ASSUME TypeOK, RouteInv, CloseTunnel \/ Crash \/ EngineExits
    PROVE  RouteInv' /\ (OutsideInv => OutsideInv')
<1>1. /\ \A y \in Dests : table'[y] # "tun"
      /\ \A y \in Dests : table'[y] \in {"none", table[y]}
  BY WithoutTunRoutes DEF CloseTunnel, Crash, EngineExits
<1>2. TunRoutes' /\ RoutesInPlace'
  BY <1>1 DEF CloseTunnel, Crash, EngineExits, RouteInv, TunRoutes, RoutesInPlace
<1>3. ChangesListed'
  <2>1. CASE CloseTunnel \/ Crash
    BY <2>1 DEF CloseTunnel, Crash, ChangesListed
  <2>2. CASE EngineExits
    BY <1>1, <2>2 DEF EngineExits, RouteInv, ChangesListed
  <2> QED
    BY <2>1, <2>2
<1>4. OutsideInv => OutsideInv'
  BY <1>1, FixedDests DEF CloseTunnel, Crash, EngineExits, OutsideInv
<1> QED
  BY <1>2, <1>3, <1>4 DEF RouteInv

\* The host gets another default route, or none.
LEMMA NetworkStep ==
    ASSUME TypeOK, RouteInv, NEW g \in Hops, NetworkChanges(g)
    PROVE  RouteInv' /\ (OutsideInv => OutsideInv')
<1>1. g # "tun" /\ "default" \notin Covering
  BY FixedDests, RoutesAssumption DEF Hops
<1>2. /\ table'["default"] = g
      /\ \A y \in Dests \ {"default"} : table'[y] = table[y]
  BY FixedDests DEF NetworkChanges, Route, TypeOK
<1>3. HalfAfterPin' = HalfAfterPin
  BY DEF NetworkChanges, HalfAfterPin
<1>4. TunRoutes' /\ RoutesInPlace'
  BY <1>1, <1>2, FixedDests DEF NetworkChanges, RouteInv, TunRoutes, RoutesInPlace
<1>5. ChangesListed'
  BY <1>2 DEF NetworkChanges, RouteInv, ChangesListed
<1>6. OutsideInv => OutsideInv'
  BY <1>1, <1>2, <1>3, FixedDests DEF NetworkChanges, OutsideInv
<1> QED
  BY <1>4, <1>5, <1>6 DEF RouteInv

\* Every step preserves the invariants.
LEMMA RouteNext ==
    TypeOK /\ RouteInv /\ [Next]_vars =>
        RouteInv' /\ (EndpointOutside /\ OutsideInv => OutsideInv')
<1> SUFFICES ASSUME TypeOK, RouteInv, [Next]_vars
             PROVE  RouteInv' /\ (EndpointOutside /\ OutsideInv => OutsideInv')
  OBVIOUS
<1>1. CASE Configure \/ Signal \/ CreateTunFails \/ VpUp
  <2>1. CASE AddAllowed
    BY <2>1, AllowedStep
  <2>2. CASE ReplacePin
    BY <2>2, PinStep
  <2>3. CASE ReplaceHalf("low", "high") \/ ReplaceHalf("high", "up")
    BY <2>3, HalfStep
  <2>4. CASE \/ CreateTunFails \/ VpUp \/ ConfigureLink \/ SkipAllowed
             \/ AllowedDone \/ RouteTo \/ ConfigureFails \/ Signal
    <3>1. UNCHANGED <<table, undo, alive, before, kept>>
      BY <2>4 DEF CreateTunFails, VpUp, ConfigureLink, SkipAllowed, AllowedDone,
                  RouteTo, ConfigureFails, Signal
    <3> QED
      BY <2>4, <3>1, QuietStep
  <2> QED
    BY <1>1, <2>1, <2>2, <2>3, <2>4 DEF Configure
<1>2. CASE UNCHANGED vars
  BY <1>2 DEF vars, RouteInv, TunRoutes, RoutesInPlace, ChangesListed, OutsideInv,
              HalfAfterPin
<1> QED
  BY <1>1, <1>2, CallStep, DeviceStep, UndoStep, GoneStep, NetworkStep DEF Next

-----------------------------------------------------------------------------
(* The theorems. *)

\* TypeOK holds in every reachable state.
THEOREM RoutesTypeCorrect == Spec => []TypeOK
  BY RoutesTypeInit, RoutesTypeNext, PTL DEF Spec

\* TypeOK and RouteInv hold in every reachable state.
LEMMA RouteInvariant == Spec => [](TypeOK /\ RouteInv)
<1>1. Init => TypeOK /\ RouteInv
  BY RoutesTypeInit, RouteInit
<1>2. TypeOK /\ RouteInv /\ [Next]_vars => (TypeOK /\ RouteInv)'
  BY RoutesTypeNext, RouteNext
<1> QED
  BY <1>1, <1>2, PTL DEF Spec

\* NoRecursion holds in every reachable state when no profile allows a prefix
\* around its own endpoint: through every failed command, crash, change of network
\* and clean-up the endpoint is reached outside the tunnel.
THEOREM EndpointStaysOutside ==
    ASSUME EndpointOutside
    PROVE  Spec => []NoRecursion
<1>1. Init => OutsideInv
  BY RouteInit
<1>2. TypeOK /\ RouteInv /\ OutsideInv /\ [Next]_vars => OutsideInv'
  BY RouteNext
<1>3. TypeOK /\ RouteInv /\ OutsideInv => NoRecursion
  <2> SUFFICES ASSUME TypeOK, RouteInv, OutsideInv, kept = {}
               PROVE  Lookup(table) # "tun"
    BY DEF NoRecursion
  <2> QED
    BY FixedDests, LookupOutside DEF RouteInv, TunRoutes, OutsideInv
<1> QED
  BY <1>1, <1>2, <1>3, RouteInvariant, PTL DEF Spec

\* UpIsWhole holds in every reachable state: a tunnel that is up and runs has the
\* pin and both halves.
THEOREM UpTunnelIsWhole == Spec => []UpIsWhole
<1>1. RouteInv => UpIsWhole
  BY DEF RouteInv, RoutesInPlace, UpIsWhole
<1> QED
  BY <1>1, RouteInvariant, PTL

\* ClosesClean holds in every behaviour: what a finished Close leaves behind was
\* there before connect, or its removal failed.
THEOREM CloseLeavesNothing == Spec => ClosesClean
<1> DEFINE Act == Closed => \A x \in Dests \ (kept \cup {"default"}) :
                                table'[x] \in {"none", before[x]}
<1>1. TypeOK /\ RouteInv /\ [Next]_vars => [Act]_vars
  <2> SUFFICES ASSUME TypeOK, RouteInv, Next, Closed,
                      NEW x \in Dests \ (kept \cup {"default"})
               PROVE  table'[x] \in {"none", before[x]}
    OBVIOUS
  <2>1. table' = WithoutTun(table)
    BY DEF Closed, Next, Configure, CallConnect, CreateTun, CreateTunFails, VpUp,
           VpUpFails, ConfigureLink, SkipAllowed, AddAllowed, Added, AllowedDone,
           RouteTo, ReplacePin, ReplaceHalf, ConfigureFails, Signal, UndoNext,
           UndoFails, CloseTunnel, Crash, EngineExits, NetworkChanges
  <2>2. table[x] \in {"none", "tun", before[x]}
    BY DEF Closed, RouteInv, ChangesListed
  <2> QED
    BY <2>1, <2>2, WithoutTunRoutes
<1> QED
  BY <1>1, RouteInvariant, PTL DEF Spec, ClosesClean
=============================================================================
