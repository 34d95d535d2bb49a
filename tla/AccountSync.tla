---------------------------- MODULE AccountSync ----------------------------
(***************************************************************************)
(* The device side of account sync: Fetch in src/go/sync/client.go, run by *)
(* several devices of one account against the controller.                  *)
(*                                                                         *)
(*   dial -> Authenticate -> (EnrollKeys on a first device) -> GetProfile  *)
(*        -> recover the decryption key -> open the sealed bundle          *)
(*                                                                         *)
(* A legacy device opens the profile with the account key, which the       *)
(* controller keeps wrapped under a passphrase; a joined device (join      *)
(* link) holds its own key.  The controller and the relay are external.    *)
(* They lose requests and answers, a request may arrive after the device   *)
(* gave up on it, and the stored bundle stays sealed to the key it was     *)
(* sealed to until the controller seals it again.                          *)
(***************************************************************************)
EXTENDS Naturals

CONSTANTS
    Devices,      \* devices of the account
    Legacy,       \* those whose .pharosid carries no encryption key
    EmailLogin,   \* those that call Fetch with an email
    Typed,        \* Typed[d] is the passphrase the user gives on d
    Pass,         \* the passphrase of the account on the controller
    MaxAttempts,  \* bound: MaxAttempts[d] is how often d calls Fetch
    None          \* no key

ASSUME SyncAssumption ==
    /\ Legacy \subseteq Devices
    /\ EmailLogin \subseteq Devices
    /\ MaxAttempts \in [Devices -> Nat]

\* A key pair is named by the device and by the Fetch call that generates it;
\* call 0 stands for the pair a joined device made when it was enrolled.
Keys == Devices \X Nat

\* WrapPrivateKey: a private key in a blob only that passphrase opens.
Blobs == [key : Keys, under : {Typed[d] : d \in Devices}]

ASSUME NoneAssumption == None \notin Blobs \cup Keys

VARIABLES
    account,   \* the enrolled blob on the controller, or None
    published, \* whether the controller has a profile for the account
    bundle,    \* the key the account's stored bundle is sealed to, or None
    replaced,  \* history: enrolled keys were replaced by other ones
    inflight,  \* EnrollKeys requests the devices gave up on, not yet arrived
    attempt,   \* Fetch calls of each device so far
    pc,        \* where each device is in Fetch
    blob,      \* the blob it generated, or was given by GetProfile, or None
    sealed,    \* the key the bundle it was given is sealed to, or None
    outcome    \* how its last Fetch ended

deviceVars == <<attempt, pc, blob, sealed, outcome>>
controllerVars == <<account, published, bundle, replaced, inflight>>
vars == <<controllerVars, deviceVars>>

Points == {"idle", "auth", "enroll", "get", "unwrap", "open"}
Outcomes == {"none", "ok", "net", "login", "rejected", "noprofile",
             "unwrap", "seal"}

Init ==
    /\ account = None
    /\ published \in BOOLEAN
    /\ bundle = None
    /\ replaced = FALSE
    /\ inflight = {}
    /\ attempt = [d \in Devices |-> 0]
    /\ pc = [d \in Devices |-> "idle"]
    /\ blob = [d \in Devices |-> None]
    /\ sealed = [d \in Devices |-> None]
    /\ outcome = [d \in Devices |-> "none"]

Go(d, p) == pc' = [pc EXCEPT ![d] = p]

End(d, o) ==
    /\ Go(d, "idle")
    /\ outcome' = [outcome EXCEPT ![d] = o]
    /\ blob' = [blob EXCEPT ![d] = None]
    /\ sealed' = [sealed EXCEPT ![d] = None]
    /\ UNCHANGED attempt

-----------------------------------------------------------------------------
\* Fetch is called; Dial only builds the client.
Call(d) ==
    /\ pc[d] = "idle"
    /\ attempt[d] < MaxAttempts[d]
    /\ attempt' = [attempt EXCEPT ![d] = @ + 1]
    /\ outcome' = [outcome EXCEPT ![d] = "none"]
    /\ Go(d, "auth")
    /\ UNCHANGED <<controllerVars, blob, sealed>>

\* Mutant: the passphrase is checked on the device's own leaf only, the email
\* login sends none.
LoginAccepted_Leaf(d) == TRUE

\* Authenticate: with an email the passphrase is sent and verified, without one
\* the device's leaf authenticates and the passphrase stays on the device.
LoginAccepted(d) == d \in EmailLogin => Typed[d] = Pass

\* The key pair of this attempt, wrapped under what the user typed.
Fresh(d) == [key |-> <<d, attempt[d]>>, under |-> Typed[d]]

\* Mutant: a joined device without account keys enrols some, too.
NeedsKeys_All(d) == account = None

\* devicePriv == nil && !keysEnrolled
NeedsKeys(d) == d \in Legacy /\ account = None

AuthOk(d) ==
    /\ pc[d] = "auth"
    /\ LoginAccepted(d)
    /\ IF NeedsKeys(d)
       THEN Go(d, "enroll") /\ blob' = [blob EXCEPT ![d] = Fresh(d)]
       ELSE Go(d, "get") /\ UNCHANGED blob
    /\ UNCHANGED <<controllerVars, attempt, sealed, outcome>>

AuthRejected(d) ==
    /\ pc[d] = "auth"
    /\ ~LoginAccepted(d)
    /\ End(d, "login")
    /\ UNCHANGED controllerVars

-----------------------------------------------------------------------------
\* EnrollKeys reaches the controller with the blob w.  The code does not say what
\* the controller does with the keys of a second first device, so it may take
\* them or reject them.
TakeKeys(w) ==
    /\ account' = w
    /\ replaced' = (replaced \/ account \notin {None, w})
    /\ UNCHANGED <<published, bundle>>

EnrollOk(d) ==
    /\ pc[d] = "enroll"
    /\ TakeKeys(blob[d])
    /\ Go(d, "get")
    /\ UNCHANGED <<inflight, attempt, blob, sealed, outcome>>

EnrollRejected(d) ==
    /\ pc[d] = "enroll"
    /\ account # None
    /\ End(d, "rejected")
    /\ UNCHANGED controllerVars

\* The answer is lost or the 45 s are over, and the request is still on its way.
EnrollTimesOut(d) ==
    /\ pc[d] = "enroll"
    /\ inflight' = inflight \cup {blob[d]}
    /\ End(d, "net")
    /\ UNCHANGED <<account, published, bundle, replaced>>

\* A request the device gave up on arrives.
LateEnroll(b) ==
    /\ b \in inflight
    /\ inflight' = inflight \ {b}
    /\ \/ TakeKeys(b)
       \/ account # None /\ UNCHANGED <<account, published, bundle, replaced>>
    /\ UNCHANGED deviceVars

-----------------------------------------------------------------------------
\* The controller (external) seals the account's bundle to the enrolled key: when
\* there is a first one, and again some time after the keys were replaced.
Seal ==
    /\ published
    /\ account # None
    /\ bundle # account.key
    /\ bundle' = account.key
    /\ UNCHANGED <<account, published, replaced, inflight, deviceVars>>

\* Whether the controller has a bundle for d: the account's, once it is sealed, or
\* the one it sealed to a joined device's own key when that was claimed.
HasProfile(d) == published /\ (d \in Legacy => bundle # None)

\* GetProfile: the stored bundle, with the blob of the key that is enrolled now.
\* The code replaces whatever pair it generated by what the controller answers.
GetProfileOk(d) ==
    /\ pc[d] = "get"
    /\ HasProfile(d)
    /\ blob' = [blob EXCEPT ![d] = IF d \in Legacy THEN account ELSE None]
    /\ sealed' = [sealed EXCEPT ![d] = IF d \in Legacy THEN bundle ELSE <<d, 0>>]
    /\ Go(d, "unwrap")
    /\ UNCHANGED <<controllerVars, attempt, outcome>>

GetProfileNone(d) ==
    /\ pc[d] = "get"
    /\ ~HasProfile(d)
    /\ End(d, "noprofile")
    /\ UNCHANGED controllerVars

\* UnwrapPrivateKey opens a blob with the passphrase it was wrapped under.
Unwraps(d) == blob[d] # None /\ blob[d].under = Typed[d]

\* decryptionKey: the device's own key, or the account key unwrapped.
DecryptionKey(d) ==
    /\ pc[d] = "unwrap"
    /\ d \in Legacy => Unwraps(d)
    /\ Go(d, "open")
    /\ UNCHANGED <<controllerVars, attempt, blob, sealed, outcome>>

DecryptionKeyFails(d) ==
    /\ pc[d] = "unwrap"
    /\ d \in Legacy
    /\ ~Unwraps(d)
    /\ End(d, "unwrap")
    /\ UNCHANGED controllerVars

\* openProfile with that key.
OpenProfile(d) ==
    /\ pc[d] = "open"
    /\ LET key == IF d \in Legacy THEN blob[d].key ELSE <<d, 0>>
       IN  End(d, IF key = sealed[d] THEN "ok" ELSE "seal")
    /\ UNCHANGED controllerVars

\* An RPC other than EnrollKeys is lost or times out; these change nothing.
NetFails(d) ==
    /\ pc[d] \in {"auth", "get"}
    /\ End(d, "net")
    /\ UNCHANGED controllerVars

Publish ==
    /\ ~published
    /\ published' = TRUE
    /\ UNCHANGED <<account, bundle, replaced, inflight, deviceVars>>

-----------------------------------------------------------------------------
Step(d) ==
    \/ AuthOk(d)
    \/ AuthRejected(d)
    \/ EnrollOk(d)
    \/ EnrollRejected(d)
    \/ EnrollTimesOut(d)
    \/ GetProfileOk(d)
    \/ GetProfileNone(d)
    \/ DecryptionKey(d)
    \/ DecryptionKeyFails(d)
    \/ OpenProfile(d)
    \/ NetFails(d)

Next ==
    \/ \E d \in Devices : Call(d) \/ Step(d)
    \/ \E b \in inflight : LateEnroll(b)
    \/ Publish
    \/ Seal

Spec == Init /\ [][Next]_vars

-----------------------------------------------------------------------------
(* Properties. *)

\* Every variable has its type.
TypeOK ==
    /\ account \in Blobs \cup {None}
    /\ published \in BOOLEAN
    /\ bundle \in Keys \cup {None}
    /\ replaced \in BOOLEAN
    /\ inflight \in SUBSET Blobs
    /\ attempt \in [Devices -> Nat]
    /\ pc \in [Devices -> Points]
    /\ blob \in [Devices -> Blobs \cup {None}]
    /\ sealed \in [Devices -> Keys \cup {None}]
    /\ outcome \in [Devices -> Outcomes]

\* Devices that authenticated by their leaf and were given a wrong passphrase,
\* which nobody checked.
Mistyped == {e \in Legacy \ EmailLogin : Typed[e] # Pass /\ attempt[e] > 0}

\* A legacy device whose user types the account passphrase fails to unwrap the
\* account key only if a device that authenticated by its leaf had called Fetch
\* with a mistyped passphrase, and fails to open the bundle only if the controller
\* replaced enrolled keys by others: however first devices race, and whichever of
\* their EnrollKeys requests arrives, and when.
RightPassphraseOpens ==
    \A d \in Legacy : Typed[d] = Pass =>
        /\ outcome[d] = "unwrap" => Mistyped # {}
        /\ outcome[d] = "seal" => replaced

\* A joined device "never enrols an account key", and its Fetch does not depend
\* on the account's keys: it never fails on them.
JoinedIndependent ==
    /\ account # None => account.key[1] \in Legacy
    /\ \A d \in Devices \ Legacy :
          outcome[d] \notin {"rejected", "unwrap", "seal"}

-----------------------------------------------------------------------------
(* The strengthening of these properties: whose key is in a blob, and under  *)
(* what, on the controller, on the way to it and on the devices.             *)

Wrapped(w) ==
    /\ w.key[1] \in Legacy
    /\ w.under = Pass \/ Mistyped # {}

\* Until keys are replaced, the bundle is sealed to the enrolled key.
SealInv ==
    /\ bundle # None => account # None
    /\ (bundle # None /\ ~replaced) => bundle = account.key

BlobInv ==
    /\ account # None => Wrapped(account)
    /\ \A w \in inflight : Wrapped(w)
    /\ SealInv
    /\ \A d \in Devices :
          /\ pc[d] = "enroll" =>
                d \in Legacy /\ blob[d] \in Blobs /\ Wrapped(blob[d])
          /\ (pc[d] = "get" /\ d \in Legacy) => account # None
          /\ (pc[d] \in {"unwrap", "open"} /\ d \in Legacy) =>
                /\ blob[d] \in Blobs
                /\ Wrapped(blob[d])
                /\ blob[d].key = sealed[d] \/ replaced
          /\ (pc[d] \in {"unwrap", "open"} /\ d \notin Legacy) =>
                sealed[d] = <<d, 0>>
          /\ pc[d] # "idle" => attempt[d] > 0

OutcomeInv == RightPassphraseOpens /\ JoinedIndependent

SyncInv == TypeOK /\ BlobInv /\ OutcomeInv
=============================================================================
