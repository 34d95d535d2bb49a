-------------------------- MODULE AccountSyncProofs --------------------------
(***************************************************************************)
(* What AccountSync promises of passphrases and keys, for any number of    *)
(* devices and Fetch calls.                                                *)
(***************************************************************************)
EXTENDS AccountSync, TLAPS

\* Before any Fetch the invariant holds: there are no keys anywhere.
LEMMA SyncInit == Init => SyncInv
<1> SUFFICES ASSUME Init
             PROVE  SyncInv
  OBVIOUS
<1>1. TypeOK
  BY SyncAssumption DEF Init, TypeOK, Points, Outcomes
<1>2. BlobInv
  BY DEF Init, BlobInv, SealInv
<1>3. OutcomeInv
  BY SyncAssumption DEF Init, OutcomeInv, RightPassphraseOpens, JoinedIndependent
<1> QED
  BY <1>1, <1>2, <1>3 DEF SyncInv

\* Once a mistyped leaf login has been made it stays made: no step of a device
\* takes back a Fetch call.
LEMMA MistypedStays ==
    ASSUME TypeOK, TypeOK', \A e \in Devices : attempt'[e] >= attempt[e],
           Mistyped # {}
    PROVE  Mistyped' # {}
<1>1. PICK e \in Legacy \ EmailLogin : Typed[e] # Pass /\ attempt[e] > 0
  BY DEF Mistyped
<1>2. e \in Devices /\ attempt[e] \in Nat /\ attempt'[e] \in Nat
  BY <1>1, SyncAssumption DEF TypeOK
<1>3. e \in Mistyped'
  BY <1>1, <1>2 DEF Mistyped
<1> QED
  BY <1>3

\* Every step of Fetch and of the controller preserves the invariant.
LEMMA SyncNext == SyncInv /\ [Next]_vars => SyncInv'
<1> SUFFICES ASSUME SyncInv, [Next]_vars
             PROVE  SyncInv'
  OBVIOUS
<1> USE SyncAssumption, NoneAssumption
<1>0. TypeOK /\ BlobInv /\ OutcomeInv
  BY DEF SyncInv
<1>1. ASSUME NEW d \in Devices, Step(d)
      PROVE  SyncInv'
  <2>1. CASE AuthOk(d)
    <3>0. Fresh(d) \in Blobs /\ Fresh(d).key[1] = d /\ Fresh(d).under = Typed[d]
      BY <1>0 DEF Fresh, Blobs, Keys, TypeOK
    <3>1. TypeOK'
      BY <1>0, <2>1, <3>0 DEF AuthOk, LoginAccepted, NeedsKeys, Go,
         controllerVars, TypeOK, BlobInv, Blobs, Keys,
         Points, Outcomes
    <3>2. Mistyped # {} => Mistyped' # {}
      <4>1. \A e \in Devices : attempt'[e] >= attempt[e]
        BY <1>0, <2>1 DEF AuthOk, LoginAccepted, NeedsKeys, Go, controllerVars,
           TypeOK
      <4> QED
        BY <1>0, <3>1, <4>1, MistypedStays
    <3>3. BlobInv'
      <4>1. NeedsKeys(d) => d \in Legacy /\ Wrapped(Fresh(d))
        BY <1>0, <2>1, <3>0 DEF AuthOk, LoginAccepted, NeedsKeys, Go,
           controllerVars, TypeOK, BlobInv, Mistyped, Wrapped
      <4>2. \A w : Wrapped(w) => Wrapped(w)'
        BY <3>2 DEF Wrapped
      <4> QED
        BY <1>0, <2>1, <3>0, <4>1, <4>2 DEF AuthOk, Go, NeedsKeys, TypeOK,
           BlobInv, SealInv, controllerVars
    <3>4. OutcomeInv'
      BY <1>0, <2>1, <3>2 DEF AuthOk, LoginAccepted, NeedsKeys, Go,
         controllerVars, TypeOK, BlobInv, Blobs, Keys, Wrapped,
         OutcomeInv, RightPassphraseOpens, JoinedIndependent
    <3> QED
      BY <3>1, <3>3, <3>4 DEF SyncInv
  <2>2. CASE AuthRejected(d)
    <3>1. TypeOK'
      BY <1>0, <2>2 DEF AuthRejected, LoginAccepted, Go, End, controllerVars,
         TypeOK, BlobInv, Blobs, Keys,
         Points, Outcomes
    <3>2. Mistyped # {} => Mistyped' # {}
      <4>1. \A e \in Devices : attempt'[e] >= attempt[e]
        BY <1>0, <2>2 DEF AuthRejected, LoginAccepted, Go, End, controllerVars,
           TypeOK
      <4> QED
        BY <1>0, <3>1, <4>1, MistypedStays
    <3>3. BlobInv'
      <4>1. \A w : Wrapped(w) => Wrapped(w)'
        BY <3>2 DEF Wrapped
      <4> QED
        BY <1>0, <2>2, <4>1 DEF AuthRejected, LoginAccepted, Go, End,
           controllerVars, TypeOK, BlobInv, SealInv, Blobs, Keys
    <3>4. OutcomeInv'
      BY <1>0, <2>2, <3>2 DEF AuthRejected, LoginAccepted, Go, End,
         controllerVars, TypeOK, BlobInv, Blobs, Keys, Wrapped,
         OutcomeInv, RightPassphraseOpens, JoinedIndependent
    <3> QED
      BY <3>1, <3>3, <3>4 DEF SyncInv
  <2>3. CASE EnrollOk(d)
    <3>1. TypeOK'
      BY <1>0, <2>3 DEF EnrollOk, Go, TakeKeys, controllerVars, TypeOK,
         BlobInv, Blobs, Keys,
         Points, Outcomes
    <3>2. Mistyped # {} => Mistyped' # {}
      <4>1. \A e \in Devices : attempt'[e] >= attempt[e]
        BY <1>0, <2>3 DEF EnrollOk, Go, TakeKeys, controllerVars, TypeOK
      <4> QED
        BY <1>0, <3>1, <4>1, MistypedStays
    <3>3. BlobInv'
      <4>1. \A w : Wrapped(w) => Wrapped(w)'
        BY <3>2 DEF Wrapped
      <4> QED
        BY <1>0, <2>3, <4>1 DEF EnrollOk, Go, TakeKeys, controllerVars, TypeOK,
           BlobInv, SealInv, Blobs, Keys
    <3>4. OutcomeInv'
      BY <1>0, <2>3, <3>2 DEF EnrollOk, Go, TakeKeys, controllerVars, TypeOK,
         BlobInv, Blobs, Keys, Wrapped,
         OutcomeInv, RightPassphraseOpens, JoinedIndependent
    <3> QED
      BY <3>1, <3>3, <3>4 DEF SyncInv
  <2>4. CASE EnrollRejected(d)
    <3>1. TypeOK'
      BY <1>0, <2>4 DEF EnrollRejected, Go, End, controllerVars, TypeOK,
         BlobInv, Blobs, Keys,
         Points, Outcomes
    <3>2. Mistyped # {} => Mistyped' # {}
      <4>1. \A e \in Devices : attempt'[e] >= attempt[e]
        BY <1>0, <2>4 DEF EnrollRejected, Go, End, controllerVars, TypeOK
      <4> QED
        BY <1>0, <3>1, <4>1, MistypedStays
    <3>3. BlobInv'
      <4>1. \A w : Wrapped(w) => Wrapped(w)'
        BY <3>2 DEF Wrapped
      <4> QED
        BY <1>0, <2>4, <4>1 DEF EnrollRejected, Go, End, controllerVars,
           TypeOK, BlobInv, SealInv, Blobs, Keys
    <3>4. OutcomeInv'
      BY <1>0, <2>4, <3>2 DEF EnrollRejected, Go, End, controllerVars, TypeOK,
         BlobInv, Blobs, Keys, Wrapped,
         OutcomeInv, RightPassphraseOpens, JoinedIndependent
    <3> QED
      BY <3>1, <3>3, <3>4 DEF SyncInv
  <2>5. CASE EnrollTimesOut(d)
    <3>1. TypeOK'
      BY <1>0, <2>5 DEF EnrollTimesOut, Go, End, controllerVars, TypeOK,
         BlobInv, Blobs, Keys,
         Points, Outcomes
    <3>2. Mistyped # {} => Mistyped' # {}
      <4>1. \A e \in Devices : attempt'[e] >= attempt[e]
        BY <1>0, <2>5 DEF EnrollTimesOut, Go, End, controllerVars, TypeOK
      <4> QED
        BY <1>0, <3>1, <4>1, MistypedStays
    <3>3. BlobInv'
      <4>1. \A w : Wrapped(w) => Wrapped(w)'
        BY <3>2 DEF Wrapped
      <4> QED
        BY <1>0, <2>5, <4>1 DEF EnrollTimesOut, Go, End, controllerVars,
           TypeOK, BlobInv, SealInv, Blobs, Keys
    <3>4. OutcomeInv'
      BY <1>0, <2>5, <3>2 DEF EnrollTimesOut, Go, End, controllerVars, TypeOK,
         BlobInv, Blobs, Keys, Wrapped,
         OutcomeInv, RightPassphraseOpens, JoinedIndependent
    <3> QED
      BY <3>1, <3>3, <3>4 DEF SyncInv
  <2>6. CASE GetProfileOk(d)
    <3>1. TypeOK'
      BY <1>0, <2>6 DEF GetProfileOk, Go, HasProfile, controllerVars, TypeOK,
         BlobInv, Blobs, Keys,
         Points, Outcomes
    <3>2. Mistyped # {} => Mistyped' # {}
      <4>1. \A e \in Devices : attempt'[e] >= attempt[e]
        BY <1>0, <2>6 DEF GetProfileOk, Go, HasProfile, controllerVars, TypeOK
      <4> QED
        BY <1>0, <3>1, <4>1, MistypedStays
    <3>3. BlobInv'
      <4>1. \A w : Wrapped(w) => Wrapped(w)'
        BY <3>2 DEF Wrapped
      <4> QED
        BY <1>0, <2>6, <4>1 DEF GetProfileOk, Go, HasProfile, controllerVars,
           TypeOK, BlobInv, SealInv, Blobs, Keys
    <3>4. OutcomeInv'
      BY <1>0, <2>6, <3>2 DEF GetProfileOk, Go, HasProfile, controllerVars,
         TypeOK, BlobInv, Blobs, Keys, Wrapped,
         OutcomeInv, RightPassphraseOpens, JoinedIndependent
    <3> QED
      BY <3>1, <3>3, <3>4 DEF SyncInv
  <2>7. CASE GetProfileNone(d)
    <3>1. TypeOK'
      BY <1>0, <2>7 DEF GetProfileNone, Go, End, HasProfile, controllerVars,
         TypeOK, BlobInv, Blobs, Keys,
         Points, Outcomes
    <3>2. Mistyped # {} => Mistyped' # {}
      <4>1. \A e \in Devices : attempt'[e] >= attempt[e]
        BY <1>0, <2>7 DEF GetProfileNone, Go, End, HasProfile, controllerVars,
           TypeOK
      <4> QED
        BY <1>0, <3>1, <4>1, MistypedStays
    <3>3. BlobInv'
      <4>1. \A w : Wrapped(w) => Wrapped(w)'
        BY <3>2 DEF Wrapped
      <4> QED
        BY <1>0, <2>7, <4>1 DEF GetProfileNone, Go, End, HasProfile,
           controllerVars, TypeOK, BlobInv, SealInv, Blobs, Keys
    <3>4. OutcomeInv'
      BY <1>0, <2>7, <3>2 DEF GetProfileNone, Go, End, HasProfile,
         controllerVars, TypeOK, BlobInv, Blobs, Keys, Wrapped,
         OutcomeInv, RightPassphraseOpens, JoinedIndependent
    <3> QED
      BY <3>1, <3>3, <3>4 DEF SyncInv
  <2>8. CASE DecryptionKey(d)
    <3>1. TypeOK'
      BY <1>0, <2>8 DEF DecryptionKey, Go, Unwraps, controllerVars, TypeOK,
         BlobInv, Blobs, Keys,
         Points, Outcomes
    <3>2. Mistyped # {} => Mistyped' # {}
      <4>1. \A e \in Devices : attempt'[e] >= attempt[e]
        BY <1>0, <2>8 DEF DecryptionKey, Go, Unwraps, controllerVars, TypeOK
      <4> QED
        BY <1>0, <3>1, <4>1, MistypedStays
    <3>3. BlobInv'
      <4>1. \A w : Wrapped(w) => Wrapped(w)'
        BY <3>2 DEF Wrapped
      <4> QED
        BY <1>0, <2>8, <4>1 DEF DecryptionKey, Go, Unwraps, controllerVars,
           TypeOK, BlobInv, SealInv, Blobs, Keys
    <3>4. OutcomeInv'
      BY <1>0, <2>8, <3>2 DEF DecryptionKey, Go, Unwraps, controllerVars,
         TypeOK, BlobInv, Blobs, Keys, Wrapped,
         OutcomeInv, RightPassphraseOpens, JoinedIndependent
    <3> QED
      BY <3>1, <3>3, <3>4 DEF SyncInv
  <2>9. CASE DecryptionKeyFails(d)
    <3>1. TypeOK'
      BY <1>0, <2>9 DEF DecryptionKeyFails, Go, End, Unwraps, controllerVars,
         TypeOK, BlobInv, Blobs, Keys,
         Points, Outcomes
    <3>2. Mistyped # {} => Mistyped' # {}
      <4>1. \A e \in Devices : attempt'[e] >= attempt[e]
        BY <1>0, <2>9 DEF DecryptionKeyFails, Go, End, Unwraps, controllerVars,
           TypeOK
      <4> QED
        BY <1>0, <3>1, <4>1, MistypedStays
    <3>3. BlobInv'
      <4>1. \A w : Wrapped(w) => Wrapped(w)'
        BY <3>2 DEF Wrapped
      <4> QED
        BY <1>0, <2>9, <4>1 DEF DecryptionKeyFails, Go, End, Unwraps,
           controllerVars, TypeOK, BlobInv, SealInv, Blobs, Keys
    <3>4. OutcomeInv'
      BY <1>0, <2>9, <3>2 DEF DecryptionKeyFails, Go, End, Unwraps,
         controllerVars, TypeOK, BlobInv, Blobs, Keys, Wrapped,
         OutcomeInv, RightPassphraseOpens, JoinedIndependent
    <3> QED
      BY <3>1, <3>3, <3>4 DEF SyncInv
  <2>10. CASE OpenProfile(d)
    <3>1. TypeOK'
      BY <1>0, <2>10 DEF OpenProfile, Go, End, controllerVars, TypeOK, BlobInv,
         Blobs, Keys,
         Points, Outcomes
    <3>2. Mistyped # {} => Mistyped' # {}
      <4>1. \A e \in Devices : attempt'[e] >= attempt[e]
        BY <1>0, <2>10 DEF OpenProfile, Go, End, controllerVars, TypeOK
      <4> QED
        BY <1>0, <3>1, <4>1, MistypedStays
    <3>3. BlobInv'
      <4>1. \A w : Wrapped(w) => Wrapped(w)'
        BY <3>2 DEF Wrapped
      <4> QED
        BY <1>0, <2>10, <4>1 DEF OpenProfile, Go, End, controllerVars, TypeOK,
           BlobInv, SealInv, Blobs, Keys
    <3>4. OutcomeInv'
      BY <1>0, <2>10, <3>2 DEF OpenProfile, Go, End, controllerVars, TypeOK,
         BlobInv, Blobs, Keys, Wrapped,
         OutcomeInv, RightPassphraseOpens, JoinedIndependent
    <3> QED
      BY <3>1, <3>3, <3>4 DEF SyncInv
  <2>11. CASE NetFails(d)
    <3>1. TypeOK'
      BY <1>0, <2>11 DEF NetFails, Go, End, controllerVars, TypeOK, BlobInv,
         Blobs, Keys,
         Points, Outcomes
    <3>2. Mistyped # {} => Mistyped' # {}
      <4>1. \A e \in Devices : attempt'[e] >= attempt[e]
        BY <1>0, <2>11 DEF NetFails, Go, End, controllerVars, TypeOK
      <4> QED
        BY <1>0, <3>1, <4>1, MistypedStays
    <3>3. BlobInv'
      <4>1. \A w : Wrapped(w) => Wrapped(w)'
        BY <3>2 DEF Wrapped
      <4> QED
        BY <1>0, <2>11, <4>1 DEF NetFails, Go, End, controllerVars, TypeOK,
           BlobInv, SealInv, Blobs, Keys
    <3>4. OutcomeInv'
      BY <1>0, <2>11, <3>2 DEF NetFails, Go, End, controllerVars, TypeOK,
         BlobInv, Blobs, Keys, Wrapped,
         OutcomeInv, RightPassphraseOpens, JoinedIndependent
    <3> QED
      BY <3>1, <3>3, <3>4 DEF SyncInv
  <2> QED
    BY <1>1, <2>1, <2>2, <2>3, <2>4, <2>5, <2>6, <2>7, <2>8, <2>9, <2>10,
       <2>11 DEF Step
<1>2. ASSUME NEW d \in Devices, Call(d)
      PROVE  SyncInv'
  <2>1. TypeOK'
    BY <1>0, <1>2 DEF Call, Go, controllerVars, TypeOK, BlobInv, Blobs, Keys,
       Points, Outcomes
  <2>2. Mistyped # {} => Mistyped' # {}
    <3>1. \A e \in Devices : attempt'[e] >= attempt[e]
      BY <1>0, <1>2 DEF Call, Go, controllerVars, TypeOK
    <3> QED
      BY <1>0, <2>1, <3>1, MistypedStays
  <2>3. BlobInv'
    <3>1. \A w : Wrapped(w) => Wrapped(w)'
      BY <2>2 DEF Wrapped
    <3> QED
      BY <1>0, <1>2, <3>1 DEF Call, Go, controllerVars, TypeOK, BlobInv,
         SealInv, Blobs, Keys
  <2>4. OutcomeInv'
    BY <1>0, <1>2, <2>2 DEF Call, Go, controllerVars, TypeOK, BlobInv, Blobs,
       Keys, Wrapped,
       OutcomeInv, RightPassphraseOpens, JoinedIndependent
  <2> QED
    BY <2>1, <2>3, <2>4 DEF SyncInv
<1>3. ASSUME NEW v \in inflight, LateEnroll(v)
      PROVE  SyncInv'
  <2>1. TypeOK'
    BY <1>0, <1>3 DEF LateEnroll, TakeKeys, deviceVars, controllerVars, TypeOK,
       BlobInv, Blobs, Keys,
       Points, Outcomes
  <2>2. Mistyped # {} => Mistyped' # {}
    <3>1. \A e \in Devices : attempt'[e] >= attempt[e]
      BY <1>0, <1>3 DEF LateEnroll, TakeKeys, deviceVars, controllerVars, TypeOK
    <3> QED
      BY <1>0, <2>1, <3>1, MistypedStays
  <2>3. BlobInv'
    <3>1. \A w : Wrapped(w) => Wrapped(w)'
      BY <2>2 DEF Wrapped
    <3>2. /\ v # None /\ Wrapped(v)
          /\ account' = v \/ (account # None /\ account' = account)
          /\ bundle' = bundle /\ (replaced => replaced')
          /\ account # account' => account = None \/ replaced'
      <4>1. v # None /\ Wrapped(v)
        BY <1>0 DEF TypeOK, BlobInv
      <4>2. CASE TakeKeys(v)
        <5>1. /\ account' = v /\ bundle' = bundle
              /\ replaced' = (replaced \/ account \notin {None, v})
          BY <4>2 DEF TakeKeys
        <5> QED
          BY <4>1, <5>1, Zenon
      <4>3. CASE account # None /\ UNCHANGED <<account, published, bundle, replaced>>
        BY <4>1, <4>3
      <4> QED
        BY <1>3, <4>2, <4>3 DEF LateEnroll
    <3>3. account' # None /\ Wrapped(account)'
      BY <1>0, <3>1, <3>2 DEF BlobInv
    <3>4. SealInv'
      BY <1>0, <3>2 DEF BlobInv, SealInv
    <3>5. /\ inflight' \subseteq inflight /\ pc' = pc /\ blob' = blob
          /\ sealed' = sealed /\ attempt' = attempt
      BY <1>3 DEF LateEnroll, deviceVars
    <3> QED
      BY <1>0, <3>1, <3>2, <3>3, <3>4, <3>5 DEF BlobInv
  <2>4. OutcomeInv'
    BY <1>0, <1>3, <2>2 DEF LateEnroll, TakeKeys, deviceVars, controllerVars,
       TypeOK, BlobInv, Blobs, Keys, Wrapped,
       OutcomeInv, RightPassphraseOpens, JoinedIndependent
  <2> QED
    BY <2>1, <2>3, <2>4 DEF SyncInv
<1>4. CASE Publish
  <2>1. TypeOK'
    BY <1>0, <1>4 DEF Publish, deviceVars, controllerVars, TypeOK, BlobInv,
       Blobs, Keys,
       Points, Outcomes
  <2>2. Mistyped # {} => Mistyped' # {}
    <3>1. \A e \in Devices : attempt'[e] >= attempt[e]
      BY <1>0, <1>4 DEF Publish, deviceVars, controllerVars, TypeOK
    <3> QED
      BY <1>0, <2>1, <3>1, MistypedStays
  <2>3. BlobInv'
    <3>1. \A w : Wrapped(w) => Wrapped(w)'
      BY <2>2 DEF Wrapped
    <3> QED
      BY <1>0, <1>4, <3>1 DEF Publish, deviceVars, controllerVars, TypeOK,
         BlobInv, SealInv, Blobs, Keys
  <2>4. OutcomeInv'
    BY <1>0, <1>4, <2>2 DEF Publish, deviceVars, controllerVars, TypeOK,
       BlobInv, Blobs, Keys, Wrapped,
       OutcomeInv, RightPassphraseOpens, JoinedIndependent
  <2> QED
    BY <2>1, <2>3, <2>4 DEF SyncInv
<1>5. CASE Seal
  <2>1. TypeOK'
    BY <1>0, <1>5 DEF Seal, deviceVars, controllerVars, TypeOK, BlobInv, Blobs,
       Keys,
       Points, Outcomes
  <2>2. Mistyped # {} => Mistyped' # {}
    <3>1. \A e \in Devices : attempt'[e] >= attempt[e]
      BY <1>0, <1>5 DEF Seal, deviceVars, controllerVars, TypeOK
    <3> QED
      BY <1>0, <2>1, <3>1, MistypedStays
  <2>3. BlobInv'
    <3>1. \A w : Wrapped(w) => Wrapped(w)'
      BY <2>2 DEF Wrapped
    <3> QED
      BY <1>0, <1>5, <3>1 DEF Seal, deviceVars, controllerVars, TypeOK,
         BlobInv, SealInv, Blobs, Keys
  <2>4. OutcomeInv'
    BY <1>0, <1>5, <2>2 DEF Seal, deviceVars, controllerVars, TypeOK, BlobInv,
       Blobs, Keys, Wrapped,
       OutcomeInv, RightPassphraseOpens, JoinedIndependent
  <2> QED
    BY <2>1, <2>3, <2>4 DEF SyncInv
<1>6. CASE UNCHANGED vars
  BY <1>0, <1>6 DEF vars, deviceVars, controllerVars, SealInv, SyncInv, TypeOK,
     BlobInv, Wrapped, Mistyped,
     OutcomeInv, RightPassphraseOpens, JoinedIndependent
<1> QED
  BY <1>1, <1>2, <1>3, <1>4, <1>5, <1>6 DEF Next

\* The invariant holds of every Fetch, whatever the devices are.
LEMMA SyncInvariant == Spec => []SyncInv
<1> QED
  BY SyncInit, SyncNext, PTL DEF Spec

\* A legacy device that is given the account passphrase fails to unwrap only if a
\* device that Authenticate let in by its leaf was given a wrong one, and fails to
\* open only if the controller replaced enrolled keys: not by racing first devices
\* alone, nor by lost or late EnrollKeys requests the controller rejects.
THEOREM PassphraseOpens == Spec => []RightPassphraseOpens
<1>1. SyncInv => RightPassphraseOpens
  BY DEF SyncInv, OutcomeInv
<1> QED
  BY <1>1, SyncInvariant, PTL

\* Fetch on a joined device enrols no account key and never fails on one.
THEOREM JoinedNeedsNoAccountKey == Spec => []JoinedIndependent
<1>1. SyncInv => JoinedIndependent
  BY DEF SyncInv, OutcomeInv
<1> QED
  BY <1>1, SyncInvariant, PTL
=============================================================================
