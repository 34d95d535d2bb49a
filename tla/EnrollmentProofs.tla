-------------------------- MODULE EnrollmentProofs --------------------------
(***************************************************************************)
(* Proofs about Enrollment, for any number of devices, tickets and Enroll  *)
(* calls.                                                                  *)
(***************************************************************************)
EXTENDS Enrollment, TLAPS

\* Every Enroll starts with all stores empty and nothing claimed.
LEMMA EnrollInit == Init => TypeOK /\ EnrollInv
BY AttemptsAssumption DEF Init, TypeOK, EnrollInv, Registered, Points, StorePoints,
   Outcomes

\* Each step preserves the types and the invariant: a claim is never changed
\* once it is registered, so pairs stay registered.
LEMMA EnrollNext == TypeOK /\ EnrollInv /\ [Next]_vars => TypeOK' /\ EnrollInv'
<1> SUFFICES ASSUME TypeOK, EnrollInv, [Next]_vars
             PROVE  TypeOK' /\ EnrollInv'
    OBVIOUS
<1> USE AttemptsAssumption, EnrollNoneAssumption
<1>1. ASSUME NEW d \in Devices, NEW t \in Tickets, CallEnroll(d, t)
      PROVE  TypeOK' /\ EnrollInv'
  <2>1. TypeOK'
      BY <1>1 DEF CallEnroll, TypeOK, Points, storeVars, Outcomes, Go
  <2>2. EnrollInv'
      BY <1>1 DEF CallEnroll, TypeOK, EnrollInv, Registered, KeyPair, Keys,
                  StorePoints, storeVars, Go
  <2> QED BY <2>1, <2>2
<1>2. ASSUME NEW d \in Devices, CallBadLink(d)
      PROVE  TypeOK' /\ EnrollInv'
    BY <1>2 DEF CallBadLink, TypeOK, EnrollInv, Registered, KeyPair, Keys, Points,
                storeVars, Outcomes
<1>3. ASSUME NEW d \in Devices, Step(d)
      PROVE  TypeOK' /\ EnrollInv'
  <2>1. CASE ClaimOk(d)
    <3>1. ticket[d] \in Tickets /\ KeyPair(d) \in Keys
        BY <2>1 DEF ClaimOk, EnrollInv
    <3>2. answer' \in [Devices -> Answers \cup {None}]
        BY <2>1, <3>1 DEF ClaimOk, Answered, TypeOK
    <3>3. TypeOK'
        BY <2>1, <3>1, <3>2 DEF ClaimOk, Answered, Go, TypeOK, Points, storeVars
    <3>4. Registered \subseteq Registered'
        BY <2>1, <3>1 DEF ClaimOk, Registered, TypeOK
    <3>5. EnrollInv'
        BY <2>1, <3>1, <3>4 DEF ClaimOk, Answered, Go, TypeOK, EnrollInv, KeyPair,
                                storeVars, StorePoints
    <3> QED BY <3>3, <3>5
  <2>2. CASE ClaimRepeated(d)
    <3>1. claims[ticket[d]] \in Keys
        BY <2>2 DEF ClaimRepeated, EnrollInv, TypeOK
    <3>2. answer' \in [Devices -> Answers \cup {None}]
        BY <2>2, <3>1 DEF ClaimRepeated, Answered, TypeOK
    <3>3. TypeOK'
        BY <2>2, <3>2 DEF ClaimRepeated, Answered, Go, TypeOK, Points, storeVars
    <3>4. EnrollInv'
        BY <2>2 DEF ClaimRepeated, Answered, Go, TypeOK, EnrollInv, KeyPair,
                    Registered, storeVars, StorePoints
    <3> QED BY <3>3, <3>4
  <2>3. CASE ClaimTimesOut(d)
    <3>1. <<ticket[d], KeyPair(d)>> \in Tickets \X Keys
        BY <2>3 DEF ClaimTimesOut, EnrollInv
    <3>2. TypeOK'
        BY <2>3, <3>1 DEF ClaimTimesOut, End, Go, TypeOK, Points, Outcomes, storeVars
    <3>3. EnrollInv'
        BY <2>3 DEF ClaimTimesOut, End, Go, TypeOK, EnrollInv, KeyPair, Registered,
                    storeVars, StorePoints
    <3> QED BY <3>2, <3>3
  <2>4. CASE ClaimSpent(d) \/ AssembleFails(d) \/ FetchFails(d)
    <3>1. /\ UNCHANGED <<claims, sealed, attempt, storeVars, inflight>>
          /\ \E o \in Outcomes : End(d, o)
        BY <2>4 DEF ClaimSpent, AssembleFails, FetchFails, Outcomes
    <3>2. TypeOK'
        BY <3>1 DEF End, Go, TypeOK, Points, storeVars
    <3>3. EnrollInv'
        BY <3>1 DEF End, Go, TypeOK, EnrollInv, KeyPair, Registered, storeVars,
                    StorePoints
    <3> QED BY <3>2, <3>3
  <2>5. CASE Assemble(d) \/ FetchOk(d) \/ ReadDir(d)
    BY <2>5 DEF Assemble, FetchOk, ReadDir, Go, TypeOK, EnrollInv, KeyPair,
                Registered, Points, StorePoints, storeVars
  <2>6. CASE RemoveBundle(d) \/ RemoveMarker(d) \/ RemoveIdentity(d)
             \/ Import(d) \/ Mark(d)
    <3>1. TypeOK'
      <4>1. /\ KeyPair(d) \in Keys
            /\ UNCHANGED <<claims, sealed, inflight, attempt, ticket, answer, outcome>>
            /\ \E p \in Points : pc' = [pc EXCEPT ![d] = p]
          BY <2>6 DEF RemoveBundle, RemoveMarker, RemoveIdentity, Import, Mark, Go,
                      EnrollInv, Points, StorePoints
      <4>2. profile' \in [Devices -> Keys \cup {None}]
          BY <2>6, <4>1 DEF RemoveBundle, RemoveMarker, RemoveIdentity, Import, Mark,
                            TypeOK
      <4>3. saved' \in [Devices -> Keys \cup {None}]
          BY <2>6 DEF RemoveBundle, RemoveMarker, RemoveIdentity, Import, Mark, TypeOK
      <4>4. marker' \in [Devices -> BOOLEAN]
        <5>1. \/ marker' = marker
              \/ marker' = [marker EXCEPT ![d] = FALSE]
              \/ marker' = [marker EXCEPT ![d] = TRUE]
          <6>1. CASE RemoveMarker(d)
              BY <6>1, Zenon DEF RemoveMarker
          <6>2. CASE Mark(d)
              BY <6>2, Zenon DEF Mark
          <6> QED BY <2>6, <6>1, <6>2 DEF RemoveBundle, RemoveIdentity, Import
        <5>2. marker \in [Devices -> BOOLEAN]
            BY DEF TypeOK
        <5> QED BY <5>1, <5>2
      <4>5. pc' \in [Devices -> Points]
          BY <4>1 DEF TypeOK
      <4> QED BY <4>1, <4>2, <4>3, <4>4, <4>5 DEF TypeOK
    <3>2. /\ UNCHANGED <<claims, sealed, inflight, attempt, ticket>>
          /\ \A e \in Devices : saved'[e] \in {saved[e], None}
          /\ pc[d] \in StorePoints
          /\ \E p \in StorePoints : pc' = [pc EXCEPT ![d] = p]
        BY <2>6 DEF RemoveBundle, RemoveMarker, RemoveIdentity, Import, Mark, Go,
                    TypeOK, StorePoints
    <3>3. EnrollInv'
        BY <3>2 DEF TypeOK, EnrollInv, KeyPair, Registered, StorePoints
    <3> QED BY <3>1, <3>3
  <2>7. CASE ImportFails(d) \/ PersistFails(d) \/ Crash(d)
    <3>1. /\ UNCHANGED <<claims, sealed, attempt, inflight, marker>>
          /\ profile' \in Unfinished(profile, d) /\ saved' \in Unfinished(saved, d)
          /\ \E o \in Outcomes : End(d, o)
        BY <2>7 DEF ImportFails, PersistFails, Crash, Outcomes, Unfinished
    <3>2. TypeOK'
        BY <3>1 DEF End, Go, TypeOK, Points, Unfinished
    <3>3. EnrollInv'
        BY <3>1 DEF End, Go, TypeOK, EnrollInv, KeyPair, Registered, StorePoints,
                    Unfinished
    <3> QED BY <3>2, <3>3
  <2>8. CASE Persist(d)
    <3>1. KeyPair(d) \in Keys /\ KeyPair(d) \in Registered /\ KeyPair(d)[1] = d
        BY <2>8 DEF Persist, EnrollInv, KeyPair, StorePoints
    <3>2. TypeOK'
        BY <2>8, <3>1 DEF Persist, End, Go, TypeOK, Points, Outcomes
    <3>3. EnrollInv'
        BY <2>8, <3>1 DEF Persist, End, Go, TypeOK, EnrollInv, KeyPair, Registered,
                          StorePoints
    <3> QED BY <3>2, <3>3
  <2> QED BY <1>3, <2>1, <2>2, <2>3, <2>4, <2>5, <2>6, <2>7, <2>8
          DEF Step
<1>4. ASSUME NEW m \in inflight, LateClaim(m)
      PROVE  TypeOK' /\ EnrollInv'
  <2>1. m[1] \in Tickets /\ m[2] \in Keys
      BY DEF TypeOK
  <2>2. TypeOK'
      BY <1>4, <2>1 DEF LateClaim, TypeOK, deviceVars, storeVars
  <2>3. Registered \subseteq Registered'
      BY <1>4, <2>1 DEF LateClaim, Registered, TypeOK
  <2>4. EnrollInv'
      BY <1>4, <2>3 DEF LateClaim, EnrollInv, KeyPair, deviceVars, storeVars
  <2> QED BY <2>2, <2>4
<1>5. ASSUME NEW t \in Tickets, Seal(t)
      PROVE  TypeOK' /\ EnrollInv'
    BY <1>5 DEF Seal, TypeOK, EnrollInv, KeyPair, Registered, deviceVars, storeVars
<1>6. CASE UNCHANGED vars
    BY <1>6 DEF vars, deviceVars, storeVars, TypeOK, EnrollInv, KeyPair, Registered
<1> QED BY <1>1, <1>2, <1>3, <1>4, <1>5, <1>6 DEF Next

\* TypeOK and EnrollInv hold in every reachable state.
LEMMA EnrollInvariant == Spec => [](TypeOK /\ EnrollInv)
BY EnrollInit, EnrollNext, PTL DEF Spec

\* SavedIdentityOwned holds in every reachable state: what a device has stored
\* is registered with the controller and is in no other device's store.
THEOREM IdentityOwned == Spec => []SavedIdentityOwned
<1>1. EnrollInv => SavedIdentityOwned
    BY DEF EnrollInv, SavedIdentityOwned
<1> QED BY <1>1, EnrollInvariant, PTL

\* GivenUpForWorking holds in every behaviour: only a call past a successful
\* Fetch, with a registered pair that a profile is sealed to, purges or replaces
\* a stored identity.
THEOREM GivesUpForWorking == Spec => GivenUpForWorking
<1> DEFINE Act == \A d \in Devices : saved[d] # None /\ saved'[d] # saved[d] =>
                      KeyPair(d) \in Registered \cap sealed
<1>1. TypeOK /\ EnrollInv /\ [Next]_vars => [Act]_vars
  <2> SUFFICES ASSUME TypeOK, EnrollInv, Next, NEW e \in Devices,
                      saved'[e] # saved[e]
               PROVE  KeyPair(e) \in Registered \cap sealed
      OBVIOUS
  <2>0. saved' # saved
      OBVIOUS
  <2>1. PICK d \in Devices : \/ RemoveIdentity(d)
                             \/ Persist(d)
                             \/ PersistFails(d)
                             \/ Crash(d) /\ pc[d] = "persist"
    <3>1. ASSUME NEW d \in Devices, Step(d)
          PROVE  \/ RemoveIdentity(d)
                 \/ Persist(d)
                 \/ PersistFails(d)
                 \/ Crash(d) /\ pc[d] = "persist"
      <4>1. CASE Crash(d)
          BY <2>0, <4>1 DEF Crash
      <4> QED
          BY <2>0, <3>1, <4>1
             DEF Step, ClaimOk, ClaimSpent, ClaimRepeated, ClaimTimesOut, Assemble,
                 AssembleFails, FetchOk, FetchFails, ReadDir, RemoveBundle,
                 RemoveMarker, Import, ImportFails, Mark, storeVars
    <3>2. ASSUME NEW d \in Devices, NEW t \in Tickets, CallEnroll(d, t)
          PROVE  saved' = saved
        BY <3>2 DEF CallEnroll, storeVars
    <3>3. ASSUME NEW d \in Devices, CallBadLink(d)
          PROVE  saved' = saved
        BY <3>3 DEF CallBadLink, storeVars
    <3>4. ASSUME NEW m \in inflight, LateClaim(m)
          PROVE  saved' = saved
        BY <3>4 DEF LateClaim, deviceVars, storeVars
    <3>5. ASSUME NEW t \in Tickets, Seal(t)
          PROVE  saved' = saved
        BY <3>5 DEF Seal, deviceVars, storeVars
    <3> QED BY <2>0, <3>1, <3>2, <3>3, <3>4, <3>5 DEF Next
  <2>2. d = e
      <3>1. \/ saved' = saved
            \/ \E x : saved' = [saved EXCEPT ![d] = x]
          BY <2>1 DEF RemoveIdentity, Persist, PersistFails, Crash, Unfinished
      <3> QED BY <3>1 DEF TypeOK
  <2> QED BY <2>1, <2>2 DEF RemoveIdentity, Persist, PersistFails, EnrollInv,
             StorePoints
<1> QED BY <1>1, EnrollInvariant, PTL DEF Spec, GivenUpForWorking
=============================================================================
