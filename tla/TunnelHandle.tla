---------------------------- MODULE TunnelHandle ----------------------------
(***************************************************************************)
(* vp.Tunnel (src/go/vp/engine.go): a handle on a running AmneziaWG device *)
(* whose methods Close, Stats, IpcHandle and Wait may be called from many  *)
(* goroutines at once.  A sync.RWMutex guards the pointer to the device;   *)
(* the device itself is used, and closed, outside the lock.                *)
(*                                                                         *)
(* The handle starts as Up returns it.  The device (amneziawg-go) and the  *)
(* mutex (Go's sync) are external and modelled as far as the handle relies *)
(* on them: a pending writer stops new readers, the readers that wait when *)
(* a writer unlocks go before the next writer, and device.Close acts once. *)
(***************************************************************************)
EXTENDS Naturals

CONSTANTS
    Callers,   \* goroutines
    NoCaller   \* nobody

ASSUME CallersAssumption == NoCaller \notin Callers

VARIABLES
    writer,    \* who holds the writer side of mu, pending or granted
    readers,   \* who holds the read lock
    blocked,   \* readers that wait for the writer to unlock
    dev,       \* t.dev: TRUE while the pointer is set
    device,    \* "up" or "closed"
    pc, op,    \* where each goroutine is, and in which method
    got,       \* its local copy of t.dev: TRUE if it is not nil
    late,      \* TRUE if some Close had returned when its call began
    closes,    \* how often Close has called device.Close
    shut       \* TRUE once some Close has returned

lockVars == <<writer, readers, blocked>>
vars == <<lockVars, dev, device, pc, op, got, late, closes, shut>>

Ops == {"close", "stats", "ipc", "wait"}
Points == {"idle", "rlock", "blocked", "load", "runlock", "use", "await",
           "lock", "pending", "fetch", "clear", "unlock", "devclose", "return"}

Init ==
    /\ writer = NoCaller
    /\ readers = {}
    /\ blocked = {}
    /\ dev = TRUE
    /\ device = "up"
    /\ pc = [c \in Callers |-> "idle"]
    /\ op = [c \in Callers |-> "stats"]
    /\ got = [c \in Callers |-> FALSE]
    /\ late = [c \in Callers |-> FALSE]
    /\ closes = 0
    /\ shut = FALSE

Go(c, p) == pc' = [pc EXCEPT ![c] = p]

-----------------------------------------------------------------------------
(* device(): the pointer is read under the read lock. *)

Call(c, o) ==
    /\ pc[c] = "idle"
    /\ op' = [op EXCEPT ![c] = o]
    /\ late' = [late EXCEPT ![c] = shut]
    /\ Go(c, IF o = "close" THEN "lock" ELSE "rlock")
    /\ UNCHANGED <<lockVars, dev, device, got, closes, shut>>

\* Mutant: a reader that meets a writer does not queue, it tries again.
RLock_Retry(c) ==
    /\ pc[c] = "rlock"
    /\ writer = NoCaller
    /\ readers' = readers \cup {c}
    /\ Go(c, "load")
    /\ UNCHANGED <<writer, blocked, dev, device, op, got, late, closes, shut>>

\* t.mu.RLock(): a writer, pending or not, makes the reader wait.
RLock(c) ==
    /\ pc[c] = "rlock"
    /\ IF writer = NoCaller
       THEN /\ readers' = readers \cup {c}
            /\ Go(c, "load")
            /\ UNCHANGED blocked
       ELSE /\ blocked' = blocked \cup {c}
            /\ Go(c, "blocked")
            /\ UNCHANGED readers
    /\ UNCHANGED <<writer, dev, device, op, got, late, closes, shut>>

Load(c) ==
    /\ pc[c] = "load"
    /\ got' = [got EXCEPT ![c] = dev]
    /\ Go(c, "runlock")
    /\ UNCHANGED <<lockVars, dev, device, op, late, closes, shut>>

\* Mutant: the deferred RUnlock runs only when the device is not used any more.
RUnlock_Late(c) ==
    /\ pc[c] = "runlock"
    /\ Go(c, IF got[c] THEN "use" ELSE "return")
    /\ readers' = IF got[c] THEN readers ELSE readers \ {c}
    /\ UNCHANGED <<writer, blocked, dev, device, op, got, late, closes, shut>>

RUnlock(c) ==
    /\ pc[c] = "runlock"
    /\ readers' = readers \ {c}
    /\ Go(c, IF got[c] THEN "use" ELSE "return")
    /\ UNCHANGED <<writer, blocked, dev, device, op, got, late, closes, shut>>

-----------------------------------------------------------------------------
(* The device is used after the lock was released. *)

\* Stats: IpcGet answers, whether the device is up or already closed.
UseStats(c) ==
    /\ pc[c] = "use"
    /\ op[c] = "stats"
    /\ Go(c, "return")
    /\ UNCHANGED <<lockVars, dev, device, op, got, late, closes, shut>>

\* IpcHandle: dev.IpcHandle serves the connection until the client hangs up,
\* which it need never do.
UseIpc(c) ==
    /\ pc[c] = "use"
    /\ op[c] = "ipc"
    /\ Go(c, "return")
    /\ UNCHANGED <<lockVars, dev, device, op, got, late, closes, shut>>

\* Wait: the device's channel is returned, and the daemon receives from it.
UseWait(c) ==
    /\ pc[c] = "use"
    /\ op[c] = "wait"
    /\ Go(c, "await")
    /\ UNCHANGED <<lockVars, dev, device, op, got, late, closes, shut>>

\* The channel is closed when the device is.
Await(c) ==
    /\ pc[c] = "await"
    /\ device = "closed"
    /\ Go(c, "return")
    /\ UNCHANGED <<lockVars, dev, device, op, got, late, closes, shut>>

-----------------------------------------------------------------------------
(* Close. *)

\* Mutant: writers do not exclude each other.
Lock_Shared(c) ==
    /\ pc[c] = "lock"
    /\ writer' = c
    /\ Go(c, "pending")
    /\ UNCHANGED <<readers, blocked, dev, device, op, got, late, closes, shut>>

\* Mutant: Close takes and clears the pointer without the lock.
Lock_None(c) ==
    /\ pc[c] = "lock"
    /\ Go(c, "fetch")
    /\ UNCHANGED <<lockVars, dev, device, op, got, late, closes, shut>>

\* t.mu.Lock(): writers queue for the writer side ...
Lock(c) ==
    /\ pc[c] = "lock"
    /\ writer = NoCaller
    /\ writer' = c
    /\ Go(c, "pending")
    /\ UNCHANGED <<readers, blocked, dev, device, op, got, late, closes, shut>>

\* ... and wait for the readers that are inside.
Granted(c) ==
    /\ pc[c] = "pending"
    /\ readers = {}
    /\ Go(c, "fetch")
    /\ UNCHANGED <<lockVars, dev, device, op, got, late, closes, shut>>

\* dev := t.dev
Fetch(c) ==
    /\ pc[c] = "fetch"
    /\ got' = [got EXCEPT ![c] = dev]
    /\ Go(c, "clear")
    /\ UNCHANGED <<lockVars, dev, device, op, late, closes, shut>>

\* Mutant: the pointer stays set.
Clear_Keep(c) ==
    /\ pc[c] = "clear"
    /\ Go(c, "unlock")
    /\ UNCHANGED <<lockVars, dev, device, op, got, late, closes, shut>>

\* t.dev = nil
Clear(c) ==
    /\ pc[c] = "clear"
    /\ dev' = FALSE
    /\ Go(c, "unlock")
    /\ UNCHANGED <<lockVars, device, op, got, late, closes, shut>>

\* t.mu.Unlock() lets the waiting readers in.
Unlock(c) ==
    /\ pc[c] = "unlock"
    /\ writer' = NoCaller
    /\ readers' = blocked
    /\ blocked' = {}
    /\ pc' = [k \in Callers |->
                IF k = c THEN IF got[c] THEN "devclose" ELSE "return"
                ELSE IF k \in blocked THEN "load" ELSE pc[k]]
    /\ UNCHANGED <<dev, device, op, got, late, closes, shut>>

\* Mutant: the device is left to its finalizer.
DevClose_Forget(c) ==
    /\ pc[c] = "devclose"
    /\ Go(c, "return")
    /\ UNCHANGED <<lockVars, dev, device, op, got, late, closes, shut>>

\* dev.Close(), outside the lock; it does nothing on a device already closed.
DevClose(c) ==
    /\ pc[c] = "devclose"
    /\ closes' = closes + 1
    /\ device' = "closed"
    /\ Go(c, "return")
    /\ UNCHANGED <<lockVars, dev, op, got, late, shut>>

\* Any of the methods returns to its caller.
Return(c) ==
    /\ pc[c] = "return"
    /\ got' = [got EXCEPT ![c] = FALSE]
    /\ shut' = (shut \/ op[c] = "close")
    /\ Go(c, "idle")
    /\ UNCHANGED <<lockVars, dev, device, op, late, closes>>

\* The device exits by itself, on an unrecoverable tun error.
DeviceExits ==
    /\ device = "up"
    /\ device' = "closed"
    /\ UNCHANGED <<lockVars, dev, pc, op, got, late, closes, shut>>

-----------------------------------------------------------------------------
\* The steps a goroutine takes without waiting for anything but the mutex.
Step(c) ==
    \/ RLock(c)
    \/ Load(c)
    \/ RUnlock(c)
    \/ UseStats(c)
    \/ UseWait(c)
    \/ Await(c)
    \/ Granted(c)
    \/ Fetch(c)
    \/ Clear(c)
    \/ Unlock(c)
    \/ DevClose(c)
    \/ Return(c)

Next ==
    \/ \E c \in Callers : Step(c) \/ Lock(c) \/ UseIpc(c)
    \/ \E c \in Callers, o \in Ops : Call(c, o)
    \/ DeviceExits

Spec == Init /\ [][Next]_vars

\* The Go scheduler runs every runnable goroutine, and sync.Mutex hands the
\* writer side to a goroutine that keeps waiting for it.  A UAPI client that
\* never hangs up, and a device that never fails by itself, are allowed.
Fairness == \A c \in Callers : WF_vars(Step(c)) /\ SF_vars(Lock(c))

FairSpec == Spec /\ Fairness

-----------------------------------------------------------------------------
(* Properties. *)

\* Every variable has its type.
TypeOK ==
    /\ writer \in Callers \cup {NoCaller}
    /\ readers \in SUBSET Callers
    /\ blocked \in SUBSET Callers
    /\ dev \in BOOLEAN
    /\ device \in {"up", "closed"}
    /\ pc \in [Callers -> Points]
    /\ op \in [Callers -> Ops]
    /\ got \in [Callers -> BOOLEAN]
    /\ late \in [Callers -> BOOLEAN]
    /\ closes \in Nat
    /\ shut \in BOOLEAN

\* However many goroutines call Close, one of them gets the device to close:
\* t.dev is fetched and cleared in one critical section.
ClosedOnce ==
    /\ closes <= 1
    /\ \A c, k \in Callers :
          (pc[c] = "devclose" /\ pc[k] = "devclose") => c = k
    /\ (\E c \in Callers : pc[c] = "devclose") => closes = 0

\* A method called after a Close has returned gets no device: Stats answers
\* not-ok, IpcHandle does nothing, Wait's channel is closed.
NilAfterClose == \A c \in Callers : late[c] => ~got[c]

\* "mu guards dev so closing it can't race those readers": t.dev is written only
\* while no goroutine is between RLock and RUnlock.
NoRacingWrite == [][dev' # dev => readers = {}]_vars

\* Close returns even while UAPI connections are served for ever, because the
\* read lock is not held while the device is used.
CloseReturns ==
    \A c \in Callers : (pc[c] # "idle" /\ op[c] = "close") ~> pc[c] = "idle"

\* Stats returns too: no writer keeps it out of the read lock.
StatsReturns ==
    \A c \in Callers : (pc[c] # "idle" /\ op[c] = "stats") ~> pc[c] = "idle"

\* A daemon in Wait wakes up once some Close has returned, even if it got its
\* channel before.
WaitEnds ==
    \A c \in Callers : (shut /\ pc[c] = "await") ~> pc[c] # "await"

-----------------------------------------------------------------------------
(* The inductive strengthening of the three safety properties. *)

\* Where a goroutine can be in each method, and who holds the lock.
LockInv ==
    /\ \A c \in Callers :
          /\ pc[c] \in {"lock", "pending", "fetch", "clear", "unlock", "devclose"}
                => op[c] = "close"
          /\ pc[c] \in {"pending", "fetch", "clear", "unlock"} => writer = c
          /\ pc[c] \in {"fetch", "clear", "unlock"} => readers = {}
          /\ c \in blocked => pc[c] = "blocked" /\ op[c] # "close"
          /\ pc[c] \in {"rlock", "blocked", "load", "runlock", "use", "await"}
                => op[c] # "close"

\* A Close that is past the clearing left t.dev nil, and the device is with the
\* one goroutine that fetched it or was handed to device.Close already.
OwnerInv ==
    /\ dev => closes = 0
    /\ closes <= 1
    /\ shut => ~dev
    /\ \A c \in Callers :
          /\ (op[c] = "close" /\ pc[c] \in {"unlock", "devclose", "return"})
                => ~dev
          /\ pc[c] = "clear" => got[c] = dev
          /\ (pc[c] \in {"unlock", "devclose"} /\ got[c]) => closes = 0
          /\ pc[c] = "devclose" => got[c]
          /\ \A k \in Callers :
                (/\ pc[c] \in {"unlock", "devclose"} /\ got[c]
                 /\ pc[k] \in {"unlock", "devclose"} /\ got[k]) => c = k
          /\ pc[c] \in {"idle", "rlock", "blocked", "load", "lock", "pending",
                        "fetch"} => ~got[c]
          /\ late[c] => shut
          /\ late[c] => ~got[c]

HandleInv == TypeOK /\ LockInv /\ OwnerInv
=============================================================================
