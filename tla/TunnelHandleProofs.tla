------------------------- MODULE TunnelHandleProofs -------------------------
(***************************************************************************)
(* The safety of vp.Tunnel's Close against its readers, for any number of  *)
(* goroutines.                                                             *)
(***************************************************************************)
EXTENDS TunnelHandle, TLAPS

\* A tunnel that has just come up has an open device and a free lock.
LEMMA HandleInit == Init => HandleInv
<1> SUFFICES ASSUME Init
             PROVE  HandleInv
  OBVIOUS
<1>1. TypeOK
  BY DEF Init, TypeOK, Points, Ops
<1>2. LockInv
  BY DEF Init, LockInv
<1>3. OwnerInv
  BY DEF Init, OwnerInv
<1> QED
  BY <1>1, <1>2, <1>3 DEF HandleInv

\* Every step of a method, of a caller or of the device keeps the invariant.
LEMMA HandleNext == HandleInv /\ [Next]_vars => HandleInv'
<1> SUFFICES ASSUME HandleInv, [Next]_vars
             PROVE  HandleInv'
  OBVIOUS
<1> USE CallersAssumption
<1>1. ASSUME NEW c \in Callers, Step(c)
      PROVE  HandleInv'
  <2>1. CASE RLock(c)
    <3>1. TypeOK'
      BY <2>1 DEF RLock, Go, HandleInv, TypeOK, Points
    <3>2. LockInv'
      BY <2>1 DEF RLock, Go, HandleInv, TypeOK, LockInv
    <3>3. OwnerInv'
      BY <2>1 DEF RLock, Go, HandleInv, TypeOK, LockInv, OwnerInv
    <3> QED
      BY <3>1, <3>2, <3>3 DEF HandleInv
  <2>2. CASE Load(c)
    <3>1. TypeOK'
      BY <2>2 DEF Load, Go, lockVars, HandleInv, TypeOK, Points
    <3>2. LockInv'
      BY <2>2 DEF Load, Go, lockVars, HandleInv, TypeOK, LockInv
    <3>3. OwnerInv'
      BY <2>2 DEF Load, Go, lockVars, HandleInv, TypeOK, LockInv, OwnerInv
    <3> QED
      BY <3>1, <3>2, <3>3 DEF HandleInv
  <2>3. CASE RUnlock(c)
    <3>1. TypeOK'
      BY <2>3 DEF RUnlock, Go, HandleInv, TypeOK, Points
    <3>2. LockInv'
      BY <2>3 DEF RUnlock, Go, HandleInv, TypeOK, LockInv
    <3>3. OwnerInv'
      BY <2>3 DEF RUnlock, Go, HandleInv, TypeOK, LockInv, OwnerInv
    <3> QED
      BY <3>1, <3>2, <3>3 DEF HandleInv
  <2>4. CASE UseStats(c)
    <3>1. TypeOK'
      BY <2>4 DEF UseStats, Go, lockVars, HandleInv, TypeOK, Points
    <3>2. LockInv'
      BY <2>4 DEF UseStats, Go, lockVars, HandleInv, TypeOK, LockInv
    <3>3. OwnerInv'
      BY <2>4 DEF UseStats, Go, lockVars, HandleInv, TypeOK, LockInv, OwnerInv
    <3> QED
      BY <3>1, <3>2, <3>3 DEF HandleInv
  <2>5. CASE UseWait(c)
    <3>1. TypeOK'
      BY <2>5 DEF UseWait, Go, lockVars, HandleInv, TypeOK, Points
    <3>2. LockInv'
      BY <2>5 DEF UseWait, Go, lockVars, HandleInv, TypeOK, LockInv
    <3>3. OwnerInv'
      BY <2>5 DEF UseWait, Go, lockVars, HandleInv, TypeOK, LockInv, OwnerInv
    <3> QED
      BY <3>1, <3>2, <3>3 DEF HandleInv
  <2>6. CASE Await(c)
    <3>1. TypeOK'
      BY <2>6 DEF Await, Go, lockVars, HandleInv, TypeOK, Points
    <3>2. LockInv'
      BY <2>6 DEF Await, Go, lockVars, HandleInv, TypeOK, LockInv
    <3>3. OwnerInv'
      BY <2>6 DEF Await, Go, lockVars, HandleInv, TypeOK, LockInv, OwnerInv
    <3> QED
      BY <3>1, <3>2, <3>3 DEF HandleInv
  <2>7. CASE Granted(c)
    <3>1. TypeOK'
      BY <2>7 DEF Granted, Go, lockVars, HandleInv, TypeOK, Points
    <3>2. LockInv'
      BY <2>7 DEF Granted, Go, lockVars, HandleInv, TypeOK, LockInv
    <3>3. OwnerInv'
      BY <2>7 DEF Granted, Go, lockVars, HandleInv, TypeOK, LockInv, OwnerInv
    <3> QED
      BY <3>1, <3>2, <3>3 DEF HandleInv
  <2>8. CASE Fetch(c)
    <3>1. TypeOK'
      BY <2>8 DEF Fetch, Go, lockVars, HandleInv, TypeOK, Points
    <3>2. LockInv'
      BY <2>8 DEF Fetch, Go, lockVars, HandleInv, TypeOK, LockInv
    <3>3. OwnerInv'
      BY <2>8 DEF Fetch, Go, lockVars, HandleInv, TypeOK, LockInv, OwnerInv
    <3> QED
      BY <3>1, <3>2, <3>3 DEF HandleInv
  <2>9. CASE Clear(c)
    <3>1. TypeOK'
      BY <2>9 DEF Clear, Go, lockVars, HandleInv, TypeOK, Points
    <3>2. LockInv'
      BY <2>9 DEF Clear, Go, lockVars, HandleInv, TypeOK, LockInv
    <3>3. OwnerInv'
      BY <2>9 DEF Clear, Go, lockVars, HandleInv, TypeOK, LockInv, OwnerInv
    <3> QED
      BY <3>1, <3>2, <3>3 DEF HandleInv
  <2>10. CASE Unlock(c)
    <3>1. TypeOK'
      BY <2>10 DEF Unlock, HandleInv, TypeOK, Points
    <3>2. LockInv'
      BY <2>10 DEF Unlock, HandleInv, TypeOK, LockInv
    <3>3. OwnerInv'
      BY <2>10 DEF Unlock, HandleInv, TypeOK, LockInv, OwnerInv
    <3> QED
      BY <3>1, <3>2, <3>3 DEF HandleInv
  <2>11. CASE DevClose(c)
    <3>1. TypeOK'
      BY <2>11 DEF DevClose, Go, lockVars, HandleInv, TypeOK, Points
    <3>2. LockInv'
      BY <2>11 DEF DevClose, Go, lockVars, HandleInv, TypeOK, LockInv
    <3>3. OwnerInv'
      BY <2>11 DEF DevClose, Go, lockVars, HandleInv, TypeOK, LockInv,
         OwnerInv
    <3> QED
      BY <3>1, <3>2, <3>3 DEF HandleInv
  <2>12. CASE Return(c)
    <3>1. TypeOK'
      BY <2>12 DEF Return, Go, lockVars, HandleInv, TypeOK, Points
    <3>2. LockInv'
      BY <2>12 DEF Return, Go, lockVars, HandleInv, TypeOK, LockInv
    <3>3. OwnerInv'
      BY <2>12 DEF Return, Go, lockVars, HandleInv, TypeOK, LockInv, OwnerInv
    <3> QED
      BY <3>1, <3>2, <3>3 DEF HandleInv
  <2> QED
    BY <1>1, <2>1, <2>2, <2>3, <2>4, <2>5, <2>6, <2>7, <2>8, <2>9, <2>10, <2>11, <2>12 DEF Step
<1>2. ASSUME NEW c \in Callers, Lock(c)
      PROVE  HandleInv'
  <2>1. TypeOK'
    BY <1>2 DEF Lock, Go, HandleInv, TypeOK, Points
  <2>2. LockInv'
    BY <1>2 DEF Lock, Go, HandleInv, TypeOK, LockInv
  <2>3. OwnerInv'
    BY <1>2 DEF Lock, Go, HandleInv, TypeOK, LockInv, OwnerInv
  <2> QED
    BY <2>1, <2>2, <2>3 DEF HandleInv
<1>3. ASSUME NEW c \in Callers, UseIpc(c)
      PROVE  HandleInv'
  <2>1. TypeOK'
    BY <1>3 DEF UseIpc, Go, lockVars, HandleInv, TypeOK, Points
  <2>2. LockInv'
    BY <1>3 DEF UseIpc, Go, lockVars, HandleInv, TypeOK, LockInv
  <2>3. OwnerInv'
    BY <1>3 DEF UseIpc, Go, lockVars, HandleInv, TypeOK, LockInv, OwnerInv
  <2> QED
    BY <2>1, <2>2, <2>3 DEF HandleInv
<1>4. ASSUME NEW c \in Callers, NEW o \in Ops, Call(c, o)
      PROVE  HandleInv'
  <2>1. TypeOK'
    BY <1>4 DEF Call, Go, lockVars, HandleInv, TypeOK, Points
  <2>2. LockInv'
    BY <1>4 DEF Call, Go, lockVars, HandleInv, TypeOK, LockInv
  <2>3. OwnerInv'
    BY <1>4 DEF Call, Go, lockVars, HandleInv, TypeOK, LockInv, OwnerInv
  <2> QED
    BY <2>1, <2>2, <2>3 DEF HandleInv
<1>5. ASSUME DeviceExits
      PROVE  HandleInv'
  <2>1. TypeOK'
    BY <1>5 DEF DeviceExits, lockVars, HandleInv, TypeOK, Points
  <2>2. LockInv'
    BY <1>5 DEF DeviceExits, lockVars, HandleInv, TypeOK, LockInv
  <2>3. OwnerInv'
    BY <1>5 DEF DeviceExits, lockVars, HandleInv, TypeOK, LockInv, OwnerInv
  <2> QED
    BY <2>1, <2>2, <2>3 DEF HandleInv
<1>6. CASE UNCHANGED vars
  BY <1>6 DEF vars, lockVars, HandleInv, TypeOK, LockInv, OwnerInv
<1> QED
  BY <1>1, <1>2, <1>3, <1>4, <1>5, <1>6 DEF Next

\* HandleInv holds in every reachable state.
LEMMA HandleInvariant == Spec => []HandleInv
<1>1. Init => HandleInv
  BY HandleInit
<1>2. HandleInv /\ [Next]_vars => HandleInv'
  BY HandleNext
<1> QED
  BY <1>1, <1>2, PTL DEF Spec

\* Concurrent Close calls hand the device to device.Close at most once.
THEOREM DeviceClosedOnce == Spec => []ClosedOnce
<1>1. HandleInv => ClosedOnce
  BY DEF HandleInv, OwnerInv, ClosedOnce
<1> QED
  BY <1>1, HandleInvariant, PTL

\* No method that begins after a Close returned gets hold of the device.
THEOREM NoDeviceAfterClose == Spec => []NilAfterClose
<1>1. HandleInv => NilAfterClose
  BY DEF HandleInv, OwnerInv, NilAfterClose
<1> QED
  BY <1>1, HandleInvariant, PTL

\* t.dev is never written while a goroutine is inside the read lock.
THEOREM CloseDoesNotRace == Spec => NoRacingWrite
<1>1. HandleInv /\ [Next]_vars => [dev' # dev => readers = {}]_vars
  BY DEF HandleInv, LockInv, Next, Step, Call, RLock, Load, RUnlock, UseStats,
     UseIpc, UseWait, Await, Lock, Granted, Fetch, Clear, Unlock, DevClose,
     Return, DeviceExits, vars, lockVars, Go
<1> QED
  BY <1>1, HandleInvariant, PTL DEF Spec, NoRacingWrite
=============================================================================
