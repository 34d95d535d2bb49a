----------------------------- MODULE Enrollment -----------------------------
(***************************************************************************)
(* Joining by link: Enroll in src/go/core.go over Claim in                 *)
(* src/go/enroll/claim.go, run by several devices that may hold the same   *)
(* `pharosvpn://enroll` link.                                              *)
(*                                                                         *)
(*   parse the link -> generate keys -> ClaimEnrollment -> check the       *)
(*   answer and assemble the .pharosid -> Fetch -> purge the old cloud     *)
(*   bundle -> store the new one -> store the .pharosid                    *)
(*                                                                         *)
(* The ticket can be claimed once.  The keys and the assembled identity    *)
(* live in memory until the last of these steps.  The controller and the   *)
(* relay are external: they lose requests and answers, and a request may   *)
(* arrive after the device gave up on it.  CloudStore has a store with     *)
(* several names and the same steps; here a device has the one name its    *)
(* alias gives it.                                                         *)
(***************************************************************************)
EXTENDS Naturals

CONSTANTS
    Devices,      \* devices, each with a store of its own
    Tickets,      \* enrollment tickets the controller issued
    MaxAttempts,  \* bound: Enroll calls per device
    None          \* no key pair, no ticket, no answer

ASSUME AttemptsAssumption == MaxAttempts \in Nat

\* Every Enroll call generates key pairs of its own: the mTLS pair of the CSR
\* and the X25519 pair, which always go together.
Keys == Devices \X (1..MaxAttempts)

\* What the device looks at in the controller's answer and the relay's chain:
\* whether leaf certificate, fleet CA and relay address are there; the root
\* fingerprint against the link's; what the presented chain leads to; and whose
\* key the leaf certifies.
Answers == [whole : BOOLEAN,
            root  : {"pinned", "absent", "other"},
            chain : {"root", "fleet", "foreign"},
            leaf  : Keys]

ASSUME EnrollNoneAssumption == None \notin Keys \cup Answers \cup Tickets

VARIABLES
    claims,    \* the key pair each ticket was claimed for, or None
    sealed,    \* the key pairs the controller has sealed a profile to
    inflight,  \* claims the devices gave up on, not yet arrived
    attempt,   \* Enroll calls of each device so far
    pc,        \* where each device is in Enroll
    ticket,    \* the ticket of its link
    answer,    \* the answer to its claim
    profile,   \* the stored cloud bundle: the pair it was opened with, or None
    marker,    \* whether the .synced marker is in the store
    saved,     \* the stored .pharosid: its key pair, or None
    outcome    \* how its last Enroll ended

storeVars == <<profile, marker, saved>>
deviceVars == <<attempt, pc, ticket, answer, storeVars, outcome>>
vars == <<claims, sealed, inflight, deviceVars>>

\* Where a call is once Fetch has answered.
StorePoints == {"purge", "bundle", "marker", "identity", "import", "mark",
                "persist"}
Points == {"idle", "claim", "check", "fetch"} \cup StorePoints
Outcomes == {"none", "ok", "link", "net", "spent", "answer", "fetch", "store"}

Init ==
    /\ claims = [t \in Tickets |-> None]
    /\ sealed = {}
    /\ inflight = {}
    /\ attempt = [d \in Devices |-> 0]
    /\ pc = [d \in Devices |-> "idle"]
    /\ ticket = [d \in Devices |-> None]
    /\ answer = [d \in Devices |-> None]
    /\ profile = [d \in Devices |-> None]
    /\ marker = [d \in Devices |-> FALSE]
    /\ saved = [d \in Devices |-> None]
    /\ outcome = [d \in Devices |-> "none"]

Go(d, p) == pc' = [pc EXCEPT ![d] = p]

\* Enroll returns, and its keys and the assembled identity are gone.
End(d, o) ==
    /\ Go(d, "idle")
    /\ ticket' = [ticket EXCEPT ![d] = None]
    /\ answer' = [answer EXCEPT ![d] = None]
    /\ outcome' = [outcome EXCEPT ![d] = o]

-----------------------------------------------------------------------------
(* The call and its keys. *)

CallEnroll(d, t) ==
    /\ pc[d] = "idle"
    /\ attempt[d] < MaxAttempts
    /\ attempt' = [attempt EXCEPT ![d] = @ + 1]
    /\ ticket' = [ticket EXCEPT ![d] = t]
    /\ outcome' = [outcome EXCEPT ![d] = "none"]
    /\ Go(d, "claim")
    /\ UNCHANGED <<claims, sealed, inflight, answer, storeVars>>

\* ParseLink turns the link down: nothing is generated or sent.
CallBadLink(d) ==
    /\ pc[d] = "idle"
    /\ outcome' = [outcome EXCEPT ![d] = "link"]
    /\ UNCHANGED <<claims, sealed, inflight, attempt, pc, ticket, answer,
                   storeVars>>

\* Mutant: the pair is derived from the link, the same on every device.
KeyPair_PerLink(d) == <<CHOOSE e \in Devices : TRUE, 1>>

\* GenerateDeviceCSR and GenerateKeyPair: the pairs of the running call.
KeyPair(d) == <<d, attempt[d]>>

-----------------------------------------------------------------------------
(* ClaimEnrollment. *)

Answered(d, leaf) ==
    /\ answer' \in {[answer EXCEPT ![d] = x] :
                      x \in {y \in Answers : y.leaf = leaf}}
    /\ Go(d, "check")

ClaimOk(d) ==
    /\ pc[d] = "claim"
    /\ claims[ticket[d]] = None
    /\ claims' = [claims EXCEPT ![ticket[d]] = KeyPair(d)]
    /\ Answered(d, KeyPair(d))
    /\ UNCHANGED <<sealed, inflight, attempt, ticket, storeVars, outcome>>

\* A spent ticket is turned down ...
ClaimSpent(d) ==
    /\ pc[d] = "claim"
    /\ claims[ticket[d]] # None
    /\ End(d, "spent")
    /\ UNCHANGED <<claims, sealed, inflight, attempt, storeVars>>

\* ... or answered once more with the leaf of the first claim: the code does
\* not say which, and is ready for both.
ClaimRepeated(d) ==
    /\ pc[d] = "claim"
    /\ claims[ticket[d]] # None
    /\ Answered(d, claims[ticket[d]])
    /\ UNCHANGED <<claims, sealed, inflight, attempt, ticket, storeVars, outcome>>

\* Request or answer is lost, or the 45 s are over.  A request that is lost
\* never arrives; one whose answer was lost arrives nevertheless.
ClaimTimesOut(d) ==
    /\ pc[d] = "claim"
    /\ inflight' = inflight \cup {<<ticket[d], KeyPair(d)>>}
    /\ End(d, "net")
    /\ UNCHANGED <<claims, sealed, attempt, storeVars>>

LateClaim(m) ==
    /\ m \in inflight
    /\ inflight' = inflight \ {m}
    /\ claims' = [claims EXCEPT ![m[1]] = IF @ = None THEN m[2] ELSE @]
    /\ UNCHANGED <<sealed, deviceVars>>

-----------------------------------------------------------------------------
(* The answer is checked, and the identity assembled in memory. *)

\* relayPin.verify: the chain holds the pinned root, or its leaf was issued by
\* the fleet CA of the answer.
PinVerifies(x) == x.chain \in {"root", "fleet"}

\* The checks of claimRPC, Claim and validateAssembled, in this order.
Accepts(d, x) ==
    /\ x.whole
    /\ x.root # "other"
    /\ PinVerifies(x)
    /\ x.leaf = KeyPair(d)

Assemble(d) ==
    /\ pc[d] = "check"
    /\ Accepts(d, answer[d])
    /\ Go(d, "fetch")
    /\ UNCHANGED <<claims, sealed, inflight, attempt, ticket, answer, storeVars,
                   outcome>>

AssembleFails(d) ==
    /\ pc[d] = "check"
    /\ ~Accepts(d, answer[d])
    /\ End(d, "answer")
    /\ UNCHANGED <<claims, sealed, inflight, attempt, storeVars>>

-----------------------------------------------------------------------------
(* syncBundle. *)

\* Fetch: the controller knows the leaf, has sealed a profile to its key, and
\* the device opens it with the X25519 half of its pair.
FetchOk(d) ==
    /\ pc[d] = "fetch"
    /\ KeyPair(d) \in sealed
    /\ Go(d, "purge")
    /\ UNCHANGED <<claims, sealed, inflight, attempt, ticket, answer, storeVars,
                   outcome>>

\* Mutant: the replace-all purge comes before the error check of Fetch.
FetchFails_Purged(d) ==
    /\ pc[d] = "fetch"
    /\ profile' = [profile EXCEPT ![d] = None]
    /\ marker' = [marker EXCEPT ![d] = FALSE]
    /\ saved' = [saved EXCEPT ![d] = None]
    /\ End(d, "fetch")
    /\ UNCHANGED <<claims, sealed, inflight, attempt>>

\* No profile yet, the relay away, or the 45 s over.
FetchFails(d) ==
    /\ pc[d] = "fetch"
    /\ End(d, "fetch")
    /\ UNCHANGED <<claims, sealed, inflight, attempt, storeVars>>

\* purgeCloud finds what it removes by the marker; without one, or when ReadDir
\* fails, it removes nothing.
ReadDir(d) ==
    /\ pc[d] = "purge"
    /\ \/ marker[d] /\ Go(d, "bundle")
       \/ Go(d, "import")
    /\ UNCHANGED <<claims, sealed, inflight, attempt, ticket, answer, storeVars,
                   outcome>>

\* The bundle goes first, then the marker, then the identity; the error of each
\* os.Remove is dropped.
RemoveBundle(d) ==
    /\ pc[d] = "bundle"
    /\ profile' \in {profile, [profile EXCEPT ![d] = None]}
    /\ Go(d, "marker")
    /\ UNCHANGED <<claims, sealed, inflight, attempt, ticket, answer, marker,
                   saved, outcome>>

RemoveMarker(d) ==
    /\ pc[d] = "marker"
    /\ marker' \in {marker, [marker EXCEPT ![d] = FALSE]}
    /\ Go(d, "identity")
    /\ UNCHANGED <<claims, sealed, inflight, attempt, ticket, answer, profile,
                   saved, outcome>>

RemoveIdentity(d) ==
    /\ pc[d] = "identity"
    /\ saved' \in {saved, [saved EXCEPT ![d] = None]}
    /\ Go(d, "import")
    /\ UNCHANGED <<claims, sealed, inflight, attempt, ticket, answer, profile,
                   marker, outcome>>

\* What is in file f of d after an os.WriteFile that did not finish: the old
\* text, or a truncated one, which nothing can be read from.
Unfinished(f, d) == {f, [f EXCEPT ![d] = None]}

\* WrapPlaintext and store.Import.
Import(d) ==
    /\ pc[d] = "import"
    /\ profile' = [profile EXCEPT ![d] = KeyPair(d)]
    /\ Go(d, "mark")
    /\ UNCHANGED <<claims, sealed, inflight, attempt, ticket, answer, marker,
                   saved, outcome>>

ImportFails(d) ==
    /\ pc[d] = "import"
    /\ profile' \in Unfinished(profile, d)
    /\ End(d, "store")
    /\ UNCHANGED <<claims, sealed, inflight, attempt, marker, saved>>

\* The marker is written; the error is dropped.
Mark(d) ==
    /\ pc[d] = "mark"
    /\ marker' \in {marker, [marker EXCEPT ![d] = TRUE]}
    /\ Go(d, "persist")
    /\ UNCHANGED <<claims, sealed, inflight, attempt, ticket, answer, profile,
                   saved, outcome>>

\* The .pharosid is written, after everything else ...
Persist(d) ==
    /\ pc[d] = "persist"
    /\ saved' = [saved EXCEPT ![d] = KeyPair(d)]
    /\ End(d, "ok")
    /\ UNCHANGED <<claims, sealed, inflight, attempt, profile, marker>>

\* ... and an error of that write is dropped.
PersistFails(d) ==
    /\ pc[d] = "persist"
    /\ saved' \in Unfinished(saved, d)
    /\ End(d, "ok")
    /\ UNCHANGED <<claims, sealed, inflight, attempt, profile, marker>>

-----------------------------------------------------------------------------
(* The environment. *)

\* The process dies in the middle of Enroll, of one of its writes too.
Crash(d) ==
    /\ pc[d] # "idle"
    /\ profile' \in IF pc[d] = "import" THEN Unfinished(profile, d) ELSE {profile}
    /\ saved' \in IF pc[d] = "persist" THEN Unfinished(saved, d) ELSE {saved}
    /\ End(d, "none")
    /\ UNCHANGED <<claims, sealed, inflight, attempt, marker>>

\* The controller seals a profile to the key of a claimed ticket.
Seal(t) ==
    /\ claims[t] # None
    /\ sealed' = sealed \cup {claims[t]}
    /\ UNCHANGED <<claims, inflight, deviceVars>>

-----------------------------------------------------------------------------
Step(d) ==
    \/ ClaimOk(d)
    \/ ClaimSpent(d)
    \/ ClaimRepeated(d)
    \/ ClaimTimesOut(d)
    \/ Assemble(d)
    \/ AssembleFails(d)
    \/ FetchOk(d)
    \/ FetchFails(d)
    \/ ReadDir(d)
    \/ RemoveBundle(d)
    \/ RemoveMarker(d)
    \/ RemoveIdentity(d)
    \/ Import(d)
    \/ ImportFails(d)
    \/ Mark(d)
    \/ Persist(d)
    \/ PersistFails(d)
    \/ Crash(d)

Next ==
    \/ \E d \in Devices, t \in Tickets : CallEnroll(d, t)
    \/ \E d \in Devices : CallBadLink(d) \/ Step(d)
    \/ \E m \in inflight : LateClaim(m)
    \/ \E t \in Tickets : Seal(t)

Spec == Init /\ [][Next]_vars

-----------------------------------------------------------------------------
(* Properties. *)

\* Every variable has its type.
TypeOK ==
    /\ claims \in [Tickets -> Keys \cup {None}]
    /\ sealed \in SUBSET Keys
    /\ inflight \in SUBSET (Tickets \X Keys)
    /\ attempt \in [Devices -> 0..MaxAttempts]
    /\ pc \in [Devices -> Points]
    /\ ticket \in [Devices -> Tickets \cup {None}]
    /\ answer \in [Devices -> Answers \cup {None}]
    /\ profile \in [Devices -> Keys \cup {None}]
    /\ marker \in [Devices -> BOOLEAN]
    /\ saved \in [Devices -> Keys \cup {None}]
    /\ outcome \in [Devices -> Outcomes]

Registered == {claims[t] : t \in Tickets} \ {None}

\* The identity a device has stored is the one the controller registered for
\* some ticket, and no other device has it, however the devices race for one
\* link, whichever claims arrive late and whatever a spent ticket is answered.
SavedIdentityOwned ==
    \A d \in Devices : saved[d] # None =>
        /\ saved[d] \in Registered
        /\ \A e \in Devices \ {d} : saved[e] # saved[d]

\* The identity of an earlier enrollment is given up only for one the controller
\* has registered and sealed a profile to: a claim that is lost, turned down or
\* badly answered, or a Fetch that fails, costs a device nothing it had.
GivenUpForWorking ==
    [][\A d \in Devices : saved[d] # None /\ saved'[d] # saved[d] =>
          KeyPair(d) \in Registered \cap sealed]_vars

\* Enroll "assembles the `.pharosid` from the response, persists it, then syncs":
\* an Enroll that returns after assembling the identity (and did not crash) has
\* persisted it.
IdentityPersisted ==
    [][\A d \in Devices :
          /\ pc[d] \in {"fetch"} \cup StorePoints
          /\ pc'[d] = "idle"
          /\ outcome'[d] # "none"
          => saved'[d] = KeyPair(d)]_vars

-----------------------------------------------------------------------------
(* The inductive strengthening of SavedIdentityOwned and GivenUpForWorking. *)

\* A profile is sealed to registered pairs only, and a call that got past Fetch
\* runs with such a pair; a stored identity was generated on its own device.
EnrollInv ==
    /\ sealed \subseteq Registered
    /\ \A d \in Devices :
          /\ pc[d] \in StorePoints => KeyPair(d) \in sealed
          /\ pc[d] # "idle" => KeyPair(d) \in Keys
          /\ pc[d] = "claim" => ticket[d] \in Tickets
          /\ saved[d] # None => saved[d] \in Registered /\ saved[d][1] = d
=============================================================================
