--------------------------- MODULE SessionProofs ---------------------------
(***************************************************************************)
(* The safety of a session for any number of flows: the dup'd fd is closed *)
(* at most once, a failed Connect lets go of it, no flow is spliced to a   *)
(* process other than this session's xray, and the byte counters lose      *)
(* nothing.                                                                *)
(***************************************************************************)
EXTENDS Session, WellFoundedInduction, FiniteSetTheorems, TLAPS

\* Before Connect nothing is open, dialed or bound.
LEMMA SessionInit == Init => SessionInv
<1> SUFFICES ASSUME Init
             PROVE  SessionInv
  OBVIOUS
<1> USE SessionAssumption
<1>1. TypeOK
  <2>1. ctx \in BOOLEAN /\ net \in BOOLEAN
    BY Zenon DEF Init
  <2> QED
    BY <2>1 DEF Init, TypeOK
<1>2. FdInv
  BY DEF Init, FdInv
<1>3. PortInv
  BY DEF Init, PortInv
<1>4. PeerInv
  BY DEF Init, PeerInv
<1> QED
  BY <1>1, <1>2, <1>3, <1>4 DEF SessionInv

\* Every step of Connect, its error paths included, keeps the invariant.
LEMMA ConnectKeeps ==
    ASSUME SessionInv, ConnectStep
    PROVE  SessionInv'
<1> USE SessionAssumption
<1>1. TypeOK /\ FdInv /\ PortInv /\ PeerInv
  BY DEF SessionInv
<1>2. ASSUME NEW p \in {"awg", "xray"}, Connect(p)
      PROVE  SessionInv'
  <2>1. TypeOK'
    BY <1>1, <1>2 DEF Connect, Trans, TypeOK,
       connVars, bridgeVars, pumpVars, handlerVars, copyVars
  <2>2. FdInv'
    BY <1>1, <1>2 DEF Connect, Trans, TypeOK, FdInv,
       connVars, bridgeVars, pumpVars, handlerVars, copyVars
  <2>3. PortInv'
    BY <1>1, <1>2 DEF Connect, Trans, TypeOK, PortInv,
       connVars, bridgeVars, pumpVars, handlerVars, copyVars
  <2>4. PeerInv'
    BY <1>1, <1>2 DEF Connect, Trans, TypeOK, PortInv, PeerInv,
       connVars, bridgeVars, pumpVars, handlerVars, copyVars
  <2> QED
    BY <2>1, <2>2, <2>3, <2>4 DEF SessionInv
<1>3. CASE ConnectRefused
  <2>1. TypeOK'
    BY <1>1, <1>3 DEF ConnectRefused, Trans, TypeOK,
       connVars, bridgeVars, pumpVars, handlerVars, copyVars
  <2>2. FdInv'
    BY <1>1, <1>3 DEF ConnectRefused, Trans, TypeOK, FdInv,
       connVars, bridgeVars, pumpVars, handlerVars, copyVars
  <2>3. PortInv'
    BY <1>1, <1>3 DEF ConnectRefused, Trans, TypeOK, PortInv,
       connVars, bridgeVars, pumpVars, handlerVars, copyVars
  <2>4. PeerInv'
    BY <1>1, <1>3 DEF ConnectRefused, Trans, TypeOK, PortInv, PeerInv,
       connVars, bridgeVars, pumpVars, handlerVars, copyVars
  <2> QED
    BY <2>1, <2>2, <2>3, <2>4 DEF SessionInv
<1>4. CASE TunnelFails
  <2>1. TypeOK'
    BY <1>1, <1>4 DEF TunnelFails, CloseRaw, Trans, TypeOK,
       connVars, bridgeVars, pumpVars, handlerVars, copyVars
  <2>2. FdInv'
    BY <1>1, <1>4 DEF TunnelFails, CloseRaw, Trans, TypeOK, FdInv,
       connVars, bridgeVars, pumpVars, handlerVars, copyVars
  <2>3. PortInv'
    BY <1>1, <1>4 DEF TunnelFails, CloseRaw, Trans, TypeOK, PortInv,
       connVars, bridgeVars, pumpVars, handlerVars, copyVars
  <2>4. PeerInv'
    BY <1>1, <1>4 DEF TunnelFails, CloseRaw, Trans, TypeOK, PortInv, PeerInv,
       connVars, bridgeVars, pumpVars, handlerVars, copyVars
  <2> QED
    BY <2>1, <2>2, <2>3, <2>4 DEF SessionInv
<1>5. CASE CreateTUN
  <2>1. TypeOK'
    BY <1>1, <1>5 DEF CreateTUN, Trans, TypeOK,
       connVars, bridgeVars, pumpVars, handlerVars, copyVars
  <2>2. FdInv'
    BY <1>1, <1>5 DEF CreateTUN, Trans, TypeOK, FdInv,
       connVars, bridgeVars, pumpVars, handlerVars, copyVars
  <2>3. PortInv'
    BY <1>1, <1>5 DEF CreateTUN, Trans, TypeOK, PortInv,
       connVars, bridgeVars, pumpVars, handlerVars, copyVars
  <2>4. PeerInv'
    BY <1>1, <1>5 DEF CreateTUN, Trans, TypeOK, PortInv, PeerInv,
       connVars, bridgeVars, pumpVars, handlerVars, copyVars
  <2> QED
    BY <2>1, <2>2, <2>3, <2>4 DEF SessionInv
<1>6. CASE CreateTUNFails
  <2>1. TypeOK'
    BY <1>1, <1>6 DEF CreateTUNFails, Trans, TypeOK,
       connVars, bridgeVars, pumpVars, handlerVars, copyVars
  <2>2. FdInv'
    BY <1>1, <1>6 DEF CreateTUNFails, Trans, TypeOK, FdInv,
       connVars, bridgeVars, pumpVars, handlerVars, copyVars
  <2>3. PortInv'
    BY <1>1, <1>6 DEF CreateTUNFails, Trans, TypeOK, PortInv,
       connVars, bridgeVars, pumpVars, handlerVars, copyVars
  <2>4. PeerInv'
    BY <1>1, <1>6 DEF CreateTUNFails, Trans, TypeOK, PortInv, PeerInv,
       connVars, bridgeVars, pumpVars, handlerVars, copyVars
  <2> QED
    BY <2>1, <2>2, <2>3, <2>4 DEF SessionInv
<1>7. CASE Up
  <2>1. TypeOK'
    BY <1>1, <1>7 DEF Up, Trans, TypeOK,
       connVars, bridgeVars, pumpVars, handlerVars, copyVars
  <2>2. FdInv'
    BY <1>1, <1>7 DEF Up, Trans, TypeOK, FdInv,
       connVars, bridgeVars, pumpVars, handlerVars, copyVars
  <2>3. PortInv'
    BY <1>1, <1>7 DEF Up, Trans, TypeOK, PortInv,
       connVars, bridgeVars, pumpVars, handlerVars, copyVars
  <2>4. PeerInv'
    BY <1>1, <1>7 DEF Up, Trans, TypeOK, PortInv, PeerInv,
       connVars, bridgeVars, pumpVars, handlerVars, copyVars
  <2> QED
    BY <2>1, <2>2, <2>3, <2>4 DEF SessionInv
<1>8. CASE UpFails
  <2>1. TypeOK'
    BY <1>1, <1>8 DEF UpFails, DevClose, Trans, TypeOK,
       connVars, bridgeVars, pumpVars, handlerVars, copyVars
  <2>2. FdInv'
    BY <1>1, <1>8 DEF UpFails, DevClose, Trans, TypeOK, FdInv,
       connVars, bridgeVars, pumpVars, handlerVars, copyVars
  <2>3. PortInv'
    BY <1>1, <1>8 DEF UpFails, DevClose, Trans, TypeOK, PortInv,
       connVars, bridgeVars, pumpVars, handlerVars, copyVars
  <2>4. PeerInv'
    BY <1>1, <1>8 DEF UpFails, DevClose, Trans, TypeOK, PortInv, PeerInv,
       connVars, bridgeVars, pumpVars, handlerVars, copyVars
  <2> QED
    BY <2>1, <2>2, <2>3, <2>4 DEF SessionInv
<1>9. CASE Reserve
  <2>1. TypeOK'
    BY <1>1, <1>9 DEF Reserve, Trans, TypeOK,
       connVars, bridgeVars, pumpVars, handlerVars, copyVars
  <2>2. FdInv'
    BY <1>1, <1>9 DEF Reserve, Trans, TypeOK, FdInv,
       connVars, bridgeVars, pumpVars, handlerVars, copyVars
  <2>3. PortInv'
    BY <1>1, <1>9 DEF Reserve, Trans, TypeOK, PortInv,
       connVars, bridgeVars, pumpVars, handlerVars, copyVars
  <2>4. PeerInv'
    BY <1>1, <1>9 DEF Reserve, Trans, TypeOK, PortInv, PeerInv,
       connVars, bridgeVars, pumpVars, handlerVars, copyVars
  <2> QED
    BY <2>1, <2>2, <2>3, <2>4 DEF SessionInv
<1>10. CASE ReserveFails
  <2>1. TypeOK'
    BY <1>1, <1>10 DEF ReserveFails, DevClose, Trans, TypeOK,
       connVars, bridgeVars, pumpVars, handlerVars, copyVars
  <2>2. FdInv'
    BY <1>1, <1>10 DEF ReserveFails, DevClose, Trans, TypeOK, FdInv,
       connVars, bridgeVars, pumpVars, handlerVars, copyVars
  <2>3. PortInv'
    BY <1>1, <1>10 DEF ReserveFails, DevClose, Trans, TypeOK, PortInv,
       connVars, bridgeVars, pumpVars, handlerVars, copyVars
  <2>4. PeerInv'
    BY <1>1, <1>10 DEF ReserveFails, DevClose, Trans, TypeOK, PortInv, PeerInv,
       connVars, bridgeVars, pumpVars, handlerVars, copyVars
  <2> QED
    BY <2>1, <2>2, <2>3, <2>4 DEF SessionInv
<1>11. CASE Start
  <2>1. TypeOK'
    BY <1>1, <1>11 DEF Start, Trans, TypeOK,
       connVars, bridgeVars, pumpVars, handlerVars, copyVars
  <2>2. FdInv'
    BY <1>1, <1>11 DEF Start, Trans, TypeOK, FdInv,
       connVars, bridgeVars, pumpVars, handlerVars, copyVars
  <2>3. PortInv'
    BY <1>1, <1>11 DEF Start, Trans, TypeOK, PortInv,
       connVars, bridgeVars, pumpVars, handlerVars, copyVars
  <2>4. PeerInv'
    BY <1>1, <1>11 DEF Start, Trans, TypeOK, PortInv, PeerInv,
       connVars, bridgeVars, pumpVars, handlerVars, copyVars
  <2> QED
    BY <2>1, <2>2, <2>3, <2>4 DEF SessionInv
<1>12. CASE StartFails
  <2>1. TypeOK'
    BY <1>1, <1>12 DEF StartFails, DevClose, Trans, TypeOK,
       connVars, bridgeVars, pumpVars, handlerVars, copyVars
  <2>2. FdInv'
    BY <1>1, <1>12 DEF StartFails, DevClose, Trans, TypeOK, FdInv,
       connVars, bridgeVars, pumpVars, handlerVars, copyVars
  <2>3. PortInv'
    BY <1>1, <1>12 DEF StartFails, DevClose, Trans, TypeOK, PortInv,
       connVars, bridgeVars, pumpVars, handlerVars, copyVars
  <2>4. PeerInv'
    BY <1>1, <1>12 DEF StartFails, DevClose, Trans, TypeOK, PortInv, PeerInv,
       connVars, bridgeVars, pumpVars, handlerVars, copyVars
  <2> QED
    BY <2>1, <2>2, <2>3, <2>4 DEF SessionInv
<1>13. CASE Bridge
  <2>1. TypeOK'
    <3>1. net' \in BOOLEAN
      BY <1>13, Zenon DEF Bridge
    <3> QED
      BY <1>1, <1>13, <3>1 DEF Bridge, Trans, TypeOK,
         connVars, bridgeVars, pumpVars, handlerVars, copyVars
  <2>2. FdInv'
    BY <1>1, <1>13 DEF Bridge, Trans, TypeOK, FdInv,
       connVars, bridgeVars, pumpVars, handlerVars, copyVars
  <2>3. PortInv'
    BY <1>1, <1>13 DEF Bridge, Trans, TypeOK, PortInv,
       connVars, bridgeVars, pumpVars, handlerVars, copyVars
  <2>4. PeerInv'
    BY <1>1, <1>13 DEF Bridge, Trans, TypeOK, PortInv, PeerInv,
       connVars, bridgeVars, pumpVars, handlerVars, copyVars
  <2> QED
    BY <2>1, <2>2, <2>3, <2>4 DEF SessionInv
<1>14. CASE BridgeFails
  <2>1. TypeOK'
    BY <1>1, <1>14 DEF BridgeFails, DevClose, InstClose, Trans, TypeOK,
       connVars, bridgeVars, pumpVars, handlerVars, copyVars
  <2>2. FdInv'
    BY <1>1, <1>14 DEF BridgeFails, DevClose, InstClose, Trans, TypeOK, FdInv,
       connVars, bridgeVars, pumpVars, handlerVars, copyVars
  <2>3. PortInv'
    BY <1>1, <1>14 DEF BridgeFails, DevClose, InstClose, Trans, TypeOK, PortInv,
       connVars, bridgeVars, pumpVars, handlerVars, copyVars
  <2>4. PeerInv'
    BY <1>1, <1>14 DEF BridgeFails, DevClose, InstClose, Trans, TypeOK, PortInv, PeerInv,
       connVars, bridgeVars, pumpVars, handlerVars, copyVars
  <2> QED
    BY <2>1, <2>2, <2>3, <2>4 DEF SessionInv
<1> QED
  BY <1>2, <1>3, <1>4, <1>5, <1>6, <1>7, <1>8, <1>9, <1>10, <1>11, <1>12, <1>13, <1>14 DEF ConnectStep

\* Every step of Stop keeps the invariant: the netstack goes before the port.
LEMMA StopKeeps ==
    ASSUME SessionInv, StopStep
    PROVE  SessionInv'
<1> USE SessionAssumption
<1>1. TypeOK /\ FdInv /\ PortInv /\ PeerInv
  BY DEF SessionInv
<1>2. CASE StopAwg
  <2>1. TypeOK'
    BY <1>1, <1>2 DEF StopAwg, DevClose, Trans, TypeOK,
       connVars, bridgeVars, pumpVars, handlerVars, copyVars
  <2>2. FdInv'
    BY <1>1, <1>2 DEF StopAwg, DevClose, Trans, TypeOK, FdInv,
       connVars, bridgeVars, pumpVars, handlerVars, copyVars
  <2>3. PortInv'
    BY <1>1, <1>2 DEF StopAwg, DevClose, Trans, TypeOK, PortInv,
       connVars, bridgeVars, pumpVars, handlerVars, copyVars
  <2>4. PeerInv'
    BY <1>1, <1>2 DEF StopAwg, DevClose, Trans, TypeOK, PortInv, PeerInv,
       connVars, bridgeVars, pumpVars, handlerVars, copyVars
  <2> QED
    BY <2>1, <2>2, <2>3, <2>4 DEF SessionInv
<1>3. CASE Cancel
  <2>1. TypeOK'
    <3>1. ctx' \in BOOLEAN
      BY <1>3, Zenon DEF Cancel
    <3> QED
      BY <1>1, <1>3, <3>1 DEF Cancel, Trans, TypeOK,
         connVars, bridgeVars, pumpVars, handlerVars, copyVars
  <2>2. FdInv'
    BY <1>1, <1>3 DEF Cancel, Trans, TypeOK, FdInv,
       connVars, bridgeVars, pumpVars, handlerVars, copyVars
  <2>3. PortInv'
    BY <1>1, <1>3 DEF Cancel, Trans, TypeOK, PortInv,
       connVars, bridgeVars, pumpVars, handlerVars, copyVars
  <2>4. PeerInv'
    BY <1>1, <1>3 DEF Cancel, Trans, TypeOK, PortInv, PeerInv,
       connVars, bridgeVars, pumpVars, handlerVars, copyVars
  <2> QED
    BY <2>1, <2>2, <2>3, <2>4 DEF SessionInv
<1>4. CASE CloseNet
  <2>1. TypeOK'
    <3>1. net' \in BOOLEAN
      BY <1>4, Zenon DEF CloseNet
    <3> QED
      BY <1>1, <1>4, <3>1 DEF CloseNet, Trans, TypeOK,
         connVars, bridgeVars, pumpVars, handlerVars, copyVars
  <2>2. FdInv'
    BY <1>1, <1>4 DEF CloseNet, Trans, TypeOK, FdInv,
       connVars, bridgeVars, pumpVars, handlerVars, copyVars
  <2>3. PortInv'
    BY <1>1, <1>4 DEF CloseNet, Trans, TypeOK, PortInv,
       connVars, bridgeVars, pumpVars, handlerVars, copyVars
  <2>4. PeerInv'
    BY <1>1, <1>4 DEF CloseNet, Trans, TypeOK, PortInv, PeerInv,
       connVars, bridgeVars, pumpVars, handlerVars, copyVars
  <2> QED
    BY <2>1, <2>2, <2>3, <2>4 DEF SessionInv
<1>5. CASE CloseInst
  <2>1. TypeOK'
    BY <1>1, <1>5 DEF CloseInst, InstClose, Trans, TypeOK,
       connVars, bridgeVars, pumpVars, handlerVars, copyVars
  <2>2. FdInv'
    BY <1>1, <1>5 DEF CloseInst, InstClose, Trans, TypeOK, FdInv,
       connVars, bridgeVars, pumpVars, handlerVars, copyVars
  <2>3. PortInv'
    BY <1>1, <1>5 DEF CloseInst, InstClose, Trans, TypeOK, PortInv,
       connVars, bridgeVars, pumpVars, handlerVars, copyVars
  <2>4. PeerInv'
    BY <1>1, <1>5 DEF CloseInst, InstClose, Trans, TypeOK, PortInv, PeerInv,
       connVars, bridgeVars, pumpVars, handlerVars, copyVars
  <2> QED
    BY <2>1, <2>2, <2>3, <2>4 DEF SessionInv
<1> QED
  BY <1>2, <1>3, <1>4, <1>5 DEF StopStep

\* The pumps touch neither fd nor port.
LEMMA PumpKeeps ==
    ASSUME SessionInv, PumpStep
    PROVE  SessionInv'
<1> USE SessionAssumption
<1>1. TypeOK /\ FdInv /\ PortInv /\ PeerInv
  BY DEF SessionInv
<1>2. ASSUME NEW f \in Flows, InSyn(f)
      PROVE  SessionInv'
  <2>1. TypeOK'
    BY <1>1, <1>2 DEF InSyn, TypeOK,
       connVars, bridgeVars, pumpVars, handlerVars, copyVars
  <2>2. FdInv'
    BY <1>1, <1>2 DEF InSyn, TypeOK, FdInv,
       connVars, bridgeVars, pumpVars, handlerVars, copyVars
  <2>3. PortInv'
    BY <1>1, <1>2 DEF InSyn, TypeOK, PortInv,
       connVars, bridgeVars, pumpVars, handlerVars, copyVars
  <2>4. PeerInv'
    BY <1>1, <1>2 DEF InSyn, TypeOK, PortInv, PeerInv,
       connVars, bridgeVars, pumpVars, handlerVars, copyVars
  <2> QED
    BY <2>1, <2>2, <2>3, <2>4 DEF SessionInv
<1>3. CASE InCheck
  <2>1. TypeOK'
    BY <1>1, <1>3 DEF InCheck, TypeOK,
       connVars, bridgeVars, pumpVars, handlerVars, copyVars
  <2>2. FdInv'
    BY <1>1, <1>3 DEF InCheck, TypeOK, FdInv,
       connVars, bridgeVars, pumpVars, handlerVars, copyVars
  <2>3. PortInv'
    BY <1>1, <1>3 DEF InCheck, TypeOK, PortInv,
       connVars, bridgeVars, pumpVars, handlerVars, copyVars
  <2>4. PeerInv'
    BY <1>1, <1>3 DEF InCheck, TypeOK, PortInv, PeerInv,
       connVars, bridgeVars, pumpVars, handlerVars, copyVars
  <2> QED
    BY <2>1, <2>2, <2>3, <2>4 DEF SessionInv
<1>4. CASE InOther
  <2>1. TypeOK'
    BY <1>1, <1>4 DEF InOther, TypeOK,
       connVars, bridgeVars, pumpVars, handlerVars, copyVars
  <2>2. FdInv'
    BY <1>1, <1>4 DEF InOther, TypeOK, FdInv,
       connVars, bridgeVars, pumpVars, handlerVars, copyVars
  <2>3. PortInv'
    BY <1>1, <1>4 DEF InOther, TypeOK, PortInv,
       connVars, bridgeVars, pumpVars, handlerVars, copyVars
  <2>4. PeerInv'
    BY <1>1, <1>4 DEF InOther, TypeOK, PortInv, PeerInv,
       connVars, bridgeVars, pumpVars, handlerVars, copyVars
  <2> QED
    BY <2>1, <2>2, <2>3, <2>4 DEF SessionInv
<1>5. CASE InFails
  <2>1. TypeOK'
    BY <1>1, <1>5 DEF InFails, TypeOK,
       connVars, bridgeVars, pumpVars, handlerVars, copyVars
  <2>2. FdInv'
    BY <1>1, <1>5 DEF InFails, TypeOK, FdInv,
       connVars, bridgeVars, pumpVars, handlerVars, copyVars
  <2>3. PortInv'
    BY <1>1, <1>5 DEF InFails, TypeOK, PortInv,
       connVars, bridgeVars, pumpVars, handlerVars, copyVars
  <2>4. PeerInv'
    BY <1>1, <1>5 DEF InFails, TypeOK, PortInv, PeerInv,
       connVars, bridgeVars, pumpVars, handlerVars, copyVars
  <2> QED
    BY <2>1, <2>2, <2>3, <2>4 DEF SessionInv
<1>6. CASE OutRecv
  <2>1. TypeOK'
    BY <1>1, <1>6 DEF OutRecv, TypeOK,
       connVars, bridgeVars, pumpVars, handlerVars, copyVars
  <2>2. FdInv'
    BY <1>1, <1>6 DEF OutRecv, TypeOK, FdInv,
       connVars, bridgeVars, pumpVars, handlerVars, copyVars
  <2>3. PortInv'
    BY <1>1, <1>6 DEF OutRecv, TypeOK, PortInv,
       connVars, bridgeVars, pumpVars, handlerVars, copyVars
  <2>4. PeerInv'
    BY <1>1, <1>6 DEF OutRecv, TypeOK, PortInv, PeerInv,
       connVars, bridgeVars, pumpVars, handlerVars, copyVars
  <2> QED
    BY <2>1, <2>2, <2>3, <2>4 DEF SessionInv
<1>7. CASE OutWrite
  <2>1. TypeOK'
    BY <1>1, <1>7 DEF OutWrite, TypeOK,
       connVars, bridgeVars, pumpVars, handlerVars, copyVars
  <2>2. FdInv'
    BY <1>1, <1>7 DEF OutWrite, TypeOK, FdInv,
       connVars, bridgeVars, pumpVars, handlerVars, copyVars
  <2>3. PortInv'
    BY <1>1, <1>7 DEF OutWrite, TypeOK, PortInv,
       connVars, bridgeVars, pumpVars, handlerVars, copyVars
  <2>4. PeerInv'
    BY <1>1, <1>7 DEF OutWrite, TypeOK, PortInv, PeerInv,
       connVars, bridgeVars, pumpVars, handlerVars, copyVars
  <2> QED
    BY <2>1, <2>2, <2>3, <2>4 DEF SessionInv
<1>8. CASE OutEnd
  <2>1. TypeOK'
    BY <1>1, <1>8 DEF OutEnd, TypeOK,
       connVars, bridgeVars, pumpVars, handlerVars, copyVars
  <2>2. FdInv'
    BY <1>1, <1>8 DEF OutEnd, TypeOK, FdInv,
       connVars, bridgeVars, pumpVars, handlerVars, copyVars
  <2>3. PortInv'
    BY <1>1, <1>8 DEF OutEnd, TypeOK, PortInv,
       connVars, bridgeVars, pumpVars, handlerVars, copyVars
  <2>4. PeerInv'
    BY <1>1, <1>8 DEF OutEnd, TypeOK, PortInv, PeerInv,
       connVars, bridgeVars, pumpVars, handlerVars, copyVars
  <2> QED
    BY <2>1, <2>2, <2>3, <2>4 DEF SessionInv
<1> QED
  BY <1>2, <1>3, <1>4, <1>5, <1>6, <1>7, <1>8 DEF PumpStep

\* A handler that has dialed somebody else finds the netstack closed.
LEMMA FlowKeeps ==
    ASSUME SessionInv, NEW f \in Flows, FlowStep(f)
    PROVE  SessionInv'
<1> USE SessionAssumption
<1>1. TypeOK /\ FdInv /\ PortInv /\ PeerInv
  BY DEF SessionInv
<1>2. CASE Dial(f)
  <2>1. TypeOK'
    BY <1>1, <1>2 DEF Dial, TypeOK,
       connVars, bridgeVars, pumpVars, handlerVars, copyVars
  <2>2. FdInv'
    BY <1>1, <1>2 DEF Dial, TypeOK, FdInv,
       connVars, bridgeVars, pumpVars, handlerVars, copyVars
  <2>3. PortInv'
    BY <1>1, <1>2 DEF Dial, TypeOK, PortInv,
       connVars, bridgeVars, pumpVars, handlerVars, copyVars
  <2>4. PeerInv'
    BY <1>1, <1>2 DEF Dial, TypeOK, PortInv, PeerInv,
       connVars, bridgeVars, pumpVars, handlerVars, copyVars
  <2> QED
    BY <2>1, <2>2, <2>3, <2>4 DEF SessionInv
<1>3. CASE Reset(f)
  <2>1. TypeOK'
    BY <1>1, <1>3 DEF Reset, TypeOK,
       connVars, bridgeVars, pumpVars, handlerVars, copyVars
  <2>2. FdInv'
    BY <1>1, <1>3 DEF Reset, TypeOK, FdInv,
       connVars, bridgeVars, pumpVars, handlerVars, copyVars
  <2>3. PortInv'
    BY <1>1, <1>3 DEF Reset, TypeOK, PortInv,
       connVars, bridgeVars, pumpVars, handlerVars, copyVars
  <2>4. PeerInv'
    BY <1>1, <1>3 DEF Reset, TypeOK, PortInv, PeerInv,
       connVars, bridgeVars, pumpVars, handlerVars, copyVars
  <2> QED
    BY <2>1, <2>2, <2>3, <2>4 DEF SessionInv
<1>4. CASE Accept(f)
  <2>1. TypeOK'
    BY <1>1, <1>4 DEF Accept, TypeOK,
       connVars, bridgeVars, pumpVars, handlerVars, copyVars
  <2>2. FdInv'
    BY <1>1, <1>4 DEF Accept, TypeOK, FdInv,
       connVars, bridgeVars, pumpVars, handlerVars, copyVars
  <2>3. PortInv'
    BY <1>1, <1>4 DEF Accept, TypeOK, PortInv,
       connVars, bridgeVars, pumpVars, handlerVars, copyVars
  <2>4. PeerInv'
    BY <1>1, <1>4 DEF Accept, TypeOK, PortInv, PeerInv,
       connVars, bridgeVars, pumpVars, handlerVars, copyVars
  <2> QED
    BY <2>1, <2>2, <2>3, <2>4 DEF SessionInv
<1>5. CASE CopyUp(f)
  <2>1. TypeOK'
    BY <1>1, <1>5 DEF CopyUp, TypeOK,
       connVars, bridgeVars, pumpVars, handlerVars, copyVars
  <2>2. FdInv'
    BY <1>1, <1>5 DEF CopyUp, TypeOK, FdInv,
       connVars, bridgeVars, pumpVars, handlerVars, copyVars
  <2>3. PortInv'
    BY <1>1, <1>5 DEF CopyUp, TypeOK, PortInv,
       connVars, bridgeVars, pumpVars, handlerVars, copyVars
  <2>4. PeerInv'
    BY <1>1, <1>5 DEF CopyUp, TypeOK, PortInv, PeerInv,
       connVars, bridgeVars, pumpVars, handlerVars, copyVars
  <2> QED
    BY <2>1, <2>2, <2>3, <2>4 DEF SessionInv
<1>6. CASE CopyDown(f)
  <2>1. TypeOK'
    BY <1>1, <1>6 DEF CopyDown, TypeOK,
       connVars, bridgeVars, pumpVars, handlerVars, copyVars
  <2>2. FdInv'
    BY <1>1, <1>6 DEF CopyDown, TypeOK, FdInv,
       connVars, bridgeVars, pumpVars, handlerVars, copyVars
  <2>3. PortInv'
    BY <1>1, <1>6 DEF CopyDown, TypeOK, PortInv,
       connVars, bridgeVars, pumpVars, handlerVars, copyVars
  <2>4. PeerInv'
    BY <1>1, <1>6 DEF CopyDown, TypeOK, PortInv, PeerInv,
       connVars, bridgeVars, pumpVars, handlerVars, copyVars
  <2> QED
    BY <2>1, <2>2, <2>3, <2>4 DEF SessionInv
<1>7. CASE EndUp(f)
  <2>1. TypeOK'
    BY <1>1, <1>7 DEF EndUp, TypeOK,
       connVars, bridgeVars, pumpVars, handlerVars, copyVars
  <2>2. FdInv'
    BY <1>1, <1>7 DEF EndUp, TypeOK, FdInv,
       connVars, bridgeVars, pumpVars, handlerVars, copyVars
  <2>3. PortInv'
    BY <1>1, <1>7 DEF EndUp, TypeOK, PortInv,
       connVars, bridgeVars, pumpVars, handlerVars, copyVars
  <2>4. PeerInv'
    BY <1>1, <1>7 DEF EndUp, TypeOK, PortInv, PeerInv,
       connVars, bridgeVars, pumpVars, handlerVars, copyVars
  <2> QED
    BY <2>1, <2>2, <2>3, <2>4 DEF SessionInv
<1>8. CASE EndDown(f)
  <2>1. TypeOK'
    BY <1>1, <1>8 DEF EndDown, TypeOK,
       connVars, bridgeVars, pumpVars, handlerVars, copyVars
  <2>2. FdInv'
    BY <1>1, <1>8 DEF EndDown, TypeOK, FdInv,
       connVars, bridgeVars, pumpVars, handlerVars, copyVars
  <2>3. PortInv'
    BY <1>1, <1>8 DEF EndDown, TypeOK, PortInv,
       connVars, bridgeVars, pumpVars, handlerVars, copyVars
  <2>4. PeerInv'
    BY <1>1, <1>8 DEF EndDown, TypeOK, PortInv, PeerInv,
       connVars, bridgeVars, pumpVars, handlerVars, copyVars
  <2> QED
    BY <2>1, <2>2, <2>3, <2>4 DEF SessionInv
<1>9. CASE Close(f)
  <2>1. TypeOK'
    BY <1>1, <1>9 DEF Close, TypeOK,
       connVars, bridgeVars, pumpVars, handlerVars, copyVars
  <2>2. FdInv'
    BY <1>1, <1>9 DEF Close, TypeOK, FdInv,
       connVars, bridgeVars, pumpVars, handlerVars, copyVars
  <2>3. PortInv'
    BY <1>1, <1>9 DEF Close, TypeOK, PortInv,
       connVars, bridgeVars, pumpVars, handlerVars, copyVars
  <2>4. PeerInv'
    BY <1>1, <1>9 DEF Close, TypeOK, PortInv, PeerInv,
       connVars, bridgeVars, pumpVars, handlerVars, copyVars
  <2> QED
    BY <2>1, <2>2, <2>3, <2>4 DEF SessionInv
<1>10. CASE Greeted(f)
  <2>1. TypeOK'
    BY <1>1, <1>10 DEF Greeted, TypeOK,
       connVars, bridgeVars, pumpVars, handlerVars, copyVars
  <2>2. FdInv'
    BY <1>1, <1>10 DEF Greeted, TypeOK, FdInv,
       connVars, bridgeVars, pumpVars, handlerVars, copyVars
  <2>3. PortInv'
    BY <1>1, <1>10 DEF Greeted, TypeOK, PortInv,
       connVars, bridgeVars, pumpVars, handlerVars, copyVars
  <2>4. PeerInv'
    BY <1>1, <1>10 DEF Greeted, TypeOK, PortInv, PeerInv,
       connVars, bridgeVars, pumpVars, handlerVars, copyVars
  <2> QED
    BY <2>1, <2>2, <2>3, <2>4 DEF SessionInv
<1> QED
  BY <1>2, <1>3, <1>4, <1>5, <1>6, <1>7, <1>8, <1>9, <1>10 DEF FlowStep

\* So do the finalizer, the other processes and the owner of the tun.
LEMMA RestKeeps ==
    ASSUME SessionInv, Finalize \/ TakePort \/ OwnerClose
    PROVE  SessionInv'
<1> USE SessionAssumption
<1>1. TypeOK /\ FdInv /\ PortInv /\ PeerInv
  BY DEF SessionInv
<1>2. CASE Finalize
  <2>1. TypeOK'
    BY <1>1, <1>2 DEF Finalize, Unreachable, CloseRaw, TypeOK,
       connVars, bridgeVars, pumpVars, handlerVars, copyVars
  <2>2. FdInv'
    BY <1>1, <1>2 DEF Finalize, Unreachable, CloseRaw, TypeOK, FdInv,
       connVars, bridgeVars, pumpVars, handlerVars, copyVars
  <2>3. PortInv'
    BY <1>1, <1>2 DEF Finalize, Unreachable, CloseRaw, TypeOK, FdInv, PortInv,
       connVars, bridgeVars, pumpVars, handlerVars, copyVars
  <2>4. PeerInv'
    BY <1>1, <1>2 DEF Finalize, Unreachable, CloseRaw, TypeOK, PortInv, PeerInv,
       connVars, bridgeVars, pumpVars, handlerVars, copyVars
  <2> QED
    BY <2>1, <2>2, <2>3, <2>4 DEF SessionInv
<1>3. CASE TakePort
  <2>1. TypeOK'
    BY <1>1, <1>3 DEF TakePort, TypeOK,
       connVars, bridgeVars, pumpVars, handlerVars, copyVars
  <2>2. FdInv'
    BY <1>1, <1>3 DEF TakePort, TypeOK, FdInv,
       connVars, bridgeVars, pumpVars, handlerVars, copyVars
  <2>3. PortInv'
    BY <1>1, <1>3 DEF TakePort, TypeOK, PortInv,
       connVars, bridgeVars, pumpVars, handlerVars, copyVars
  <2>4. PeerInv'
    BY <1>1, <1>3 DEF TakePort, TypeOK, PortInv, PeerInv,
       connVars, bridgeVars, pumpVars, handlerVars, copyVars
  <2> QED
    BY <2>1, <2>2, <2>3, <2>4 DEF SessionInv
<1>4. CASE OwnerClose
  <2>1. TypeOK'
    BY <1>1, <1>4 DEF OwnerClose, DevClose, TypeOK,
       connVars, bridgeVars, pumpVars, handlerVars, copyVars
  <2>2. FdInv'
    BY <1>1, <1>4 DEF OwnerClose, DevClose, TypeOK, FdInv,
       connVars, bridgeVars, pumpVars, handlerVars, copyVars
  <2>3. PortInv'
    BY <1>1, <1>4 DEF OwnerClose, DevClose, TypeOK, PortInv,
       connVars, bridgeVars, pumpVars, handlerVars, copyVars
  <2>4. PeerInv'
    BY <1>1, <1>4 DEF OwnerClose, DevClose, TypeOK, PortInv, PeerInv,
       connVars, bridgeVars, pumpVars, handlerVars, copyVars
  <2> QED
    BY <2>1, <2>2, <2>3, <2>4 DEF SessionInv
<1> QED
  BY <1>2, <1>3, <1>4 DEF Finalize

\* The invariant is inductive.
LEMMA SessionNext == SessionInv /\ [Next]_vars => SessionInv'
<1> SUFFICES ASSUME SessionInv, [Next]_vars
             PROVE  SessionInv'
  OBVIOUS
<1>1. CASE UNCHANGED vars
  BY <1>1 DEF vars, connVars, bridgeVars, pumpVars, handlerVars, copyVars,
              SessionInv, TypeOK, FdInv, PortInv, PeerInv
<1>2. CASE Next
  BY <1>2, ConnectKeeps, StopKeeps, PumpKeeps, FlowKeeps, RestKeeps DEF Next
<1> QED
  BY <1>1, <1>2

\* The ownership of fd, port and netstack is as the strengthening says, always.
THEOREM SessionInvariant == Spec => []SessionInv
<1> QED
  BY SessionInit, SessionNext, PTL DEF Spec

\* core.Connect and Session.Stop close the dup'd fd at most once, on every path.
THEOREM SessionClosedOnce == Spec => []ClosedOnce
<1>1. SessionInv => ClosedOnce
  BY DEF SessionInv, FdInv, ClosedOnce
<1> QED
  BY <1>1, SessionInvariant, PTL

\* A Connect that returns an error leaves no engine, tun or port behind, but for the
\* port of an instance that startXray dropped when its Start failed.
THEOREM SessionFailedReleases == Spec => []FailedReleases
<1>1. SessionInv => FailedReleases
  BY DEF SessionInv, FdInv, PortInv, FailedReleases
<1> QED
  BY <1>1, SessionInvariant, PTL

\* handleTCP never splices a flow to a process that took the SOCKS port.
THEOREM SessionOnlyOwnProxy == Spec => []OnlyOwnProxy
<1>1. SessionInv => OnlyOwnProxy
  BY DEF SessionInv, PeerInv, OnlyOwnProxy
<1> QED
  BY <1>1, SessionInvariant, PTL

-----------------------------------------------------------------------------
(* The sum over the flows.  The induction on the size of a set is by the least *)
(* size for which the claim fails.                                             *)

\* A nonempty set of naturals has a least element.
LEMMA LeastNat ==
    ASSUME NEW T \in SUBSET Nat, T # {}
    PROVE  \E x \in T : \A y \in T : x <= y
<1>1. PICK x \in T : \A y \in T : ~(<<y, x>> \in OpToRel(<, Nat))
  BY NatLessThanWellFounded, WFMin
<1>2. \A y \in T : ~(y < x)
  BY <1>1 DEF OpToRel
<1> QED
  BY <1>2

\* The member of s that MapThenSumSet takes first.
Pick(s) == CHOOSE x \in s : TRUE

\* g is the recursive function by which MapThenSumSet sums b over the subsets of S.
IsSum(g, b, S) ==
    g = [s \in SUBSET S |-> IF s = {} THEN 0 ELSE b[Pick(s)] + g[s \ {Pick(s)}]]

\* Total is the value of that function for all flows.
LEMMA TotalIsSum ==
    ASSUME NEW b
    PROVE  Total(b) = (CHOOSE g : IsSum(g, b, Flows))[Flows]
  BY Zenon DEF Total, MapThenSumSet, MapThenFoldSet, IsSum, Pick

\* Taking the picked member away leaves a set that is one smaller.
LEMMA PickSmaller ==
    ASSUME NEW S, IsFiniteSet(S), NEW s \in SUBSET S
    PROVE  /\ Cardinality(s) \in Nat
           /\ s # {} => /\ Pick(s) \in s
                        /\ s \ {Pick(s)} \in SUBSET S
                        /\ Cardinality(s \ {Pick(s)}) = Cardinality(s) - 1
           /\ s = {} <=> Cardinality(s) = 0
<1>1. IsFiniteSet(s)
  BY FS_Subset
<1>2. s # {} => Pick(s) \in s
  BY DEF Pick
<1> QED
  BY <1>1, <1>2, FS_CardinalityType, FS_RemoveElement, FS_EmptySet

\* The function exists.
LEMMA SumExists ==
    ASSUME NEW S, IsFiniteSet(S), NEW b \in [S -> Nat]
    PROVE  \E g : IsSum(g, b, S)
<1> DEFINE Upto(n) == {s \in SUBSET S : Cardinality(s) <= n}
           Rec(g, s) == IF s = {} THEN 0 ELSE b[Pick(s)] + g[s \ {Pick(s)}]
           Good(n) == \E g \in [Upto(n) -> Nat] : \A s \in Upto(n) : g[s] = Rec(g, s)
           T == {n \in Nat : ~Good(n)}
<1>0. \A s \in SUBSET S :
         /\ Cardinality(s) \in Nat
         /\ s # {} => /\ Pick(s) \in s
                      /\ s \ {Pick(s)} \in SUBSET S
                      /\ Cardinality(s \ {Pick(s)}) = Cardinality(s) - 1
         /\ s = {} <=> Cardinality(s) = 0
  BY PickSmaller
<1>1. T = {}
  <2> SUFFICES ASSUME T # {}
               PROVE  FALSE
    OBVIOUS
  <2>1. PICK m \in T : \A y \in T : m <= y
    BY LeastNat
  <2>2. m \in Nat /\ ~Good(m)
    BY <2>1
  <2>3. m # 0 => m - 1 \in Nat /\ Good(m - 1)
    <3>1. m # 0 => m - 1 \in Nat /\ m - 1 \notin T
      <4> HIDE DEF T
      <4> QED
        BY <2>1, <2>2
    <3> HIDE DEF Good
    <3> QED
      BY <3>1
  <2>4. CASE m = 0
    <3> DEFINE z == [s \in Upto(0) |-> 0]
    <3>1. ASSUME NEW s \in Upto(0)
          PROVE  s = {}
      <4>1. s \in SUBSET S /\ Cardinality(s) <= 0
        OBVIOUS
      <4>2. Cardinality(s) \in Nat
        BY <1>0, <4>1
      <4>3. Cardinality(s) = 0
        BY <4>1, <4>2
      <4> QED
        BY <1>0, <4>1, <4>3
    <3>2. z \in [Upto(0) -> Nat] /\ \A s \in Upto(0) : z[s] = Rec(z, s)
      BY <3>1
    <3> HIDE DEF z, Rec, Upto
    <3>3. Good(0)
      BY <3>2
    <3> HIDE DEF Good
    <3> QED
      BY <2>2, <2>4, <3>3
  <2>5. CASE m # 0
    <3>1. Good(m - 1) /\ m \in Nat /\ m - 1 \in Nat
      BY <2>2, <2>3, <2>5
    <3>2. PICK g \in [Upto(m - 1) -> Nat] : \A s \in Upto(m - 1) : g[s] = Rec(g, s)
      <4> HIDE DEF Upto, Rec
      <4> QED
        BY <3>1
    <3> DEFINE h == [s \in Upto(m) |-> IF Cardinality(s) <= m - 1 THEN g[s]
                                       ELSE Rec(g, s)]
    <3>3. \A s \in Upto(m) : s # {} => /\ s \ {Pick(s)} \in Upto(m - 1)
                                       /\ s \ {Pick(s)} \in Upto(m)
                                       /\ Pick(s) \in S
      BY <1>0, <3>1
    <3>4. \A s \in Upto(m) : Cardinality(s) <= m - 1 => s \in Upto(m - 1)
      OBVIOUS
    <3>5. ASSUME NEW s \in Upto(m - 1)
          PROVE  s \in Upto(m) /\ Cardinality(s) <= m - 1
      <4>1. s \in SUBSET S /\ Cardinality(s) <= m - 1
        OBVIOUS
      <4>2. Cardinality(s) \in Nat
        BY <1>0, <4>1
      <4>3. Cardinality(s) <= m
        BY <3>1, <4>1, <4>2
      <4> QED
        BY <4>1, <4>3
    <3> HIDE DEF Upto
    <3>6. \A s \in Upto(m - 1) : h[s] = g[s]
      BY <3>5
    <3>7. \A s \in Upto(m) : Rec(g, s) \in Nat
      BY <3>2, <3>3
    <3>8. h \in [Upto(m) -> Nat]
      BY <3>2, <3>4, <3>7
    <3>9. \A s \in Upto(m) : h[s] = Rec(g, s)
      BY <3>2, <3>4
    <3> HIDE DEF h
    <3>10. \A s \in Upto(m) : Rec(h, s) = Rec(g, s)
      BY <3>3, <3>6
    <3> HIDE DEF Rec
    <3>11. \A s \in Upto(m) : h[s] = Rec(h, s)
      BY <3>9, <3>10
    <3>12. Good(m)
      BY <3>8, <3>11
    <3> HIDE DEF Good
    <3> QED
      BY <2>2, <3>12
  <2> QED
    BY <2>4, <2>5
<1>2. Cardinality(S) \in Nat /\ Upto(Cardinality(S)) = SUBSET S
  BY FS_CardinalityType, FS_Subset
<1>3. Good(Cardinality(S))
  BY <1>1, <1>2
<1>4. PICK g \in [SUBSET S -> Nat] : \A s \in SUBSET S : g[s] = Rec(g, s)
  BY <1>2, <1>3
<1>5. g = [s \in SUBSET S |-> Rec(g, s)]
  BY <1>4
<1> QED
  BY <1>5 DEF IsSum

\* Induction over the subsets of S: no nonempty set of subsets is closed under
\* taking the picked member away and without the empty set.
LEMMA NoSmallest ==
    ASSUME NEW S, IsFiniteSet(S), NEW B \in SUBSET (SUBSET S),
           \A s \in B : s # {} /\ s \ {Pick(s)} \in B
    PROVE  B = {}
<1> SUFFICES ASSUME B # {}
             PROVE  FALSE
  OBVIOUS
<1> DEFINE T == {Cardinality(s) : s \in B}
<1>1. \A s \in B : Cardinality(s) \in Nat
  BY PickSmaller
<1>2. T \in SUBSET Nat /\ T # {}
  BY <1>1
<1>3. PICK m \in T : \A y \in T : m <= y
  BY <1>2, LeastNat
<1>4. PICK s \in B : Cardinality(s) = m
  BY <1>3
<1>5. s # {} /\ s \ {Pick(s)} \in B
  BY <1>4
<1>6. Cardinality(s \ {Pick(s)}) = m - 1
  BY <1>4, <1>5, PickSmaller
<1>7. m - 1 \in T
  BY <1>5, <1>6
<1>8. m \in Nat
  BY <1>1, <1>4
<1> HIDE DEF T
<1>9. m <= m - 1
  BY <1>3, <1>7
<1> QED
  BY <1>8, <1>9

\* What the recursive function says of one set.
LEMMA SumStep ==
    ASSUME NEW S, NEW b, NEW g, IsSum(g, b, S)
    PROVE  /\ g[{}] = 0
           /\ \A s \in SUBSET S : s # {} => g[s] = b[Pick(s)] + g[s \ {Pick(s)}]
  BY DEF IsSum

\* Sums of naturals are naturals.
LEMMA SumNat ==
    ASSUME NEW S, IsFiniteSet(S), NEW b \in [S -> Nat], NEW g, IsSum(g, b, S)
    PROVE  \A s \in SUBSET S : g[s] \in Nat
<1> DEFINE B == {s \in SUBSET S : g[s] \notin Nat}
<1>1. ASSUME NEW s \in B
      PROVE  s # {} /\ s \ {Pick(s)} \in B
  <2>0. g[{}] = 0 /\ g[s] \notin Nat
    BY SumStep
  <2>1. s # {}
    BY <2>0
  <2>2. Pick(s) \in S /\ s \ {Pick(s)} \in SUBSET S
    BY <2>1, PickSmaller
  <2>3. g[s] = b[Pick(s)] + g[s \ {Pick(s)}]
    BY <2>1, SumStep
  <2>4. b[Pick(s)] \in Nat /\ g[s] \notin Nat
    BY <2>2
  <2>5. g[s \ {Pick(s)}] \notin Nat
    BY <2>3, <2>4
  <2> QED
    BY <2>1, <2>2, <2>5
<1>2. B = {}
  BY <1>1, NoSmallest
<1> QED
  BY <1>2

\* A sum of zeros is zero.
LEMMA SumZero ==
    ASSUME NEW S, IsFiniteSet(S), NEW b \in [S -> Nat], NEW g, IsSum(g, b, S),
           \A x \in S : b[x] = 0
    PROVE  \A s \in SUBSET S : g[s] = 0
<1> DEFINE B == {s \in SUBSET S : g[s] # 0}
<1>1. ASSUME NEW s \in B
      PROVE  s # {} /\ s \ {Pick(s)} \in B
  <2>1. s # {}
    BY SumStep
  <2>2. Pick(s) \in S /\ s \ {Pick(s)} \in SUBSET S
    BY <2>1, PickSmaller
  <2>3. g[s] = b[Pick(s)] + g[s \ {Pick(s)}]
    BY <2>1, SumStep
  <2>4. g[s \ {Pick(s)}] \in Nat
    BY <2>2, SumNat
  <2> QED
    BY <2>1, <2>2, <2>3, <2>4
<1>2. B = {}
  BY <1>1, NoSmallest
<1> QED
  BY <1>2

\* Changing one summand changes the sums it is part of by the difference.
LEMMA SumUpdate ==
    ASSUME NEW S, IsFiniteSet(S), NEW b \in [S -> Nat], NEW c \in [S -> Nat],
           NEW x \in S, \A y \in S \ {x} : c[y] = b[y],
           NEW g, IsSum(g, b, S), NEW h, IsSum(h, c, S)
    PROVE  \A s \in SUBSET S : /\ x \in s => h[s] + b[x] = g[s] + c[x]
                               /\ x \notin s => h[s] = g[s]
<1> DEFINE Moved(s) == /\ x \in s => h[s] + b[x] = g[s] + c[x]
                       /\ x \notin s => h[s] = g[s]
           B == {s \in SUBSET S : ~Moved(s)}
<1>1. ASSUME NEW s \in B
      PROVE  s # {} /\ s \ {Pick(s)} \in B
  <2> DEFINE p == Pick(s)
             r == s \ {p}
  <2>1. s \in SUBSET S /\ ~Moved(s)
    OBVIOUS
  <2>2. s # {}
    BY <2>1, SumStep
  <2>3. p \in s /\ p \in S /\ r \in SUBSET S
    BY <2>2, PickSmaller
  <2>4. g[s] = b[p] + g[r] /\ h[s] = c[p] + h[r]
    BY <2>2, SumStep
  <2>5. /\ g[r] \in Nat /\ h[r] \in Nat
        /\ b[p] \in Nat /\ c[p] \in Nat /\ b[x] \in Nat /\ c[x] \in Nat
    BY <2>3, SumNat
  <2>6. Moved(r) => Moved(s)
    <3>1. CASE p = x
      BY <2>3, <2>4, <2>5, <3>1
    <3>2. CASE p # x
      <4>1. c[p] = b[p] /\ (x \in s <=> x \in r)
        BY <2>3, <3>2
      <4> HIDE DEF p, r
      <4> QED
        BY <2>4, <2>5, <4>1
    <3> QED
      BY <3>1, <3>2
  <2> HIDE DEF Moved
  <2> QED
    BY <2>1, <2>2, <2>3, <2>6
<1>2. B = {}
  BY <1>1, NoSmallest
<1> QED
  BY <1>2

\* Total is the sum of such a function.
LEMMA TotalSum ==
    ASSUME IsFiniteSet(Flows), NEW b \in [Flows -> Nat]
    PROVE  \E g : IsSum(g, b, Flows) /\ Total(b) = g[Flows]
<1> DEFINE g == CHOOSE f : IsSum(f, b, Flows)
<1>1. IsSum(g, b, Flows)
  BY SumExists
<1>2. Total(b) = g[Flows]
  BY TotalIsSum
<1> QED
  BY <1>1, <1>2

\* Total is a natural number, and zero when nothing was moved.
LEMMA TotalNat ==
    ASSUME IsFiniteSet(Flows), NEW b \in [Flows -> Nat]
    PROVE  /\ Total(b) \in Nat
           /\ (\A f \in Flows : b[f] = 0) => Total(b) = 0
<1>1. PICK g : IsSum(g, b, Flows) /\ Total(b) = g[Flows]
  BY TotalSum
<1>2. Flows \in SUBSET Flows
  OBVIOUS
<1>3. g[Flows] \in Nat
  BY <1>1, <1>2, SumNat
<1>4. ASSUME \A f \in Flows : b[f] = 0
      PROVE  g[Flows] = 0
  BY <1>1, <1>2, <1>4, SumZero
<1> QED
  BY <1>1, <1>3, <1>4

\* Total follows the change of one flow's count.
LEMMA TotalUpdate ==
    ASSUME IsFiniteSet(Flows), NEW b \in [Flows -> Nat], NEW f \in Flows, NEW v \in Nat
    PROVE  Total([b EXCEPT ![f] = v]) + b[f] = Total(b) + v
<1> DEFINE c == [b EXCEPT ![f] = v]
<1>1. c \in [Flows -> Nat] /\ c[f] = v /\ \A y \in Flows \ {f} : c[y] = b[y]
  OBVIOUS
<1>2. PICK g : IsSum(g, b, Flows) /\ Total(b) = g[Flows]
  BY TotalSum
<1>3. PICK h : IsSum(h, c, Flows) /\ Total(c) = h[Flows]
  BY <1>1, TotalSum
<1>4. Flows \in SUBSET Flows
  OBVIOUS
<1>5. h[Flows] + b[f] = g[Flows] + v
  <2>1. \A s \in SUBSET Flows : f \in s => h[s] + b[f] = g[s] + v
    <3> HIDE DEF c
    <3> QED
      BY <1>1, <1>2, <1>3, SumUpdate
  <2> QED
    BY <1>4, <2>1
<1> QED
  BY <1>2, <1>3, <1>5

-----------------------------------------------------------------------------
(* The counters. *)

countVars == <<flow, copyVars>>

\* Nothing is accounted before Connect.
LEMMA CountInit ==
    ASSUME IsFiniteSet(Flows), Init
    PROVE  CountInv
<1>1. /\ Accounted(up, sent) \in [Flows -> Nat]
      /\ \A f \in Flows : Accounted(up, sent)[f] = 0
  BY DEF Init, Accounted
<1>2. /\ Accounted(down, received) \in [Flows -> Nat]
      /\ \A f \in Flows : Accounted(down, received)[f] = 0
  BY DEF Init, Accounted
<1>3. Total(Accounted(up, sent)) = 0 /\ Total(Accounted(down, received)) = 0
  BY <1>1, <1>2, TotalNat
<1> QED
  BY <1>3 DEF Init, CountInv

\* Connect, Stop and the pumps, but for a SYN, leave flows and counters alone.
LEMMA OthersCountNothing ==
    ASSUME TypeOK, [Next]_vars,
           ~\E f \in Flows : InSyn(f) \/ FlowStep(f)
    PROVE  UNCHANGED countVars
<1> USE DEF countVars, connVars, bridgeVars, pumpVars, handlerVars, copyVars
<1>1. CASE ConnectStep
  BY <1>1 DEF ConnectStep, Connect, ConnectRefused, TunnelFails, CreateTUN,
     CreateTUNFails, Up, UpFails, Reserve, ReserveFails, Start, StartFails,
     Bridge, BridgeFails
<1>2. CASE StopStep
  BY <1>2 DEF StopStep, StopAwg, Cancel, CloseNet, CloseInst
<1>3. CASE PumpStep
  BY <1>3 DEF PumpStep, InCheck, InOther, InFails, OutRecv, OutWrite, OutEnd
<1>4. CASE Finalize \/ TakePort \/ OwnerClose
  BY <1>4 DEF Finalize, TakePort, OwnerClose
<1>5. CASE UNCHANGED vars
  BY <1>5 DEF vars
<1> QED
  BY <1>1, <1>2, <1>3, <1>4, <1>5 DEF Next

\* Starting a copier accounts nothing yet.
LEMMA AccountedStarts ==
    ASSUME NEW copier \in [Flows -> {"off", "copying", "done"}], NEW bytes,
           NEW f \in Flows, copier[f] # "done"
    PROVE  Accounted([copier EXCEPT ![f] = "copying"], bytes) = Accounted(copier, bytes)
  BY DEF Accounted

\* Nor does a byte that it moves.
LEMMA AccountedMoves ==
    ASSUME NEW copier, NEW bytes \in [Flows -> Nat],
           NEW f \in Flows, copier[f] # "done"
    PROVE  Accounted(copier, [bytes EXCEPT ![f] = @ + 1]) = Accounted(copier, bytes)
  BY DEF Accounted

\* Its end accounts what it moved.
LEMMA AccountedEnds ==
    ASSUME IsFiniteSet(Flows),
           NEW copier \in [Flows -> {"off", "copying", "done"}],
           NEW bytes \in [Flows -> Nat], NEW f \in Flows, copier[f] # "done"
    PROVE  Total(Accounted([copier EXCEPT ![f] = "done"], bytes))
              = Total(Accounted(copier, bytes)) + bytes[f]
<1> DEFINE a == Accounted(copier, bytes)
           c == Accounted([copier EXCEPT ![f] = "done"], bytes)
<1>1. a \in [Flows -> Nat] /\ a[f] = 0 /\ bytes[f] \in Nat
  BY DEF Accounted
<1>2. c = [a EXCEPT ![f] = bytes[f]]
  BY DEF Accounted
<1>3. Total(c) + a[f] = Total(a) + bytes[f]
  <2> HIDE DEF a, c
  <2>1. Total([a EXCEPT ![f] = bytes[f]]) + a[f] = Total(a) + bytes[f]
    BY <1>1, TotalUpdate
  <2> QED
    BY <1>2, <2>1
<1>4. c \in [Flows -> Nat]
  BY <1>1, <1>2
<1>5. Total(c) \in Nat /\ Total(a) \in Nat
  BY <1>1, <1>4, TotalNat
<1> HIDE DEF a, c
<1>6. Total(c) = Total(a) + bytes[f]
  BY <1>1, <1>3, <1>5
<1> QED
  BY <1>6 DEF a, c

\* Every step keeps the counters in line with the copiers.
LEMMA CountNext ==
    ASSUME IsFiniteSet(Flows), TypeOK, CountInv, [Next]_vars
    PROVE  CountInv'
<1> USE SessionAssumption
<1>0. /\ up \in [Flows -> {"off", "copying", "done"}]
      /\ down \in [Flows -> {"off", "copying", "done"}]
      /\ sent \in [Flows -> Nat] /\ received \in [Flows -> Nat]
      /\ flow \in [Flows -> {"none", "queued", "greet", "dialed", "copy", "closed", "reset"}]
  BY DEF TypeOK
<1>1. CASE UNCHANGED countVars
  BY <1>1 DEF CountInv, countVars, copyVars
<1>2. ASSUME NEW f \in Flows, InSyn(f) \/ Dial(f) \/ Greeted(f) \/ Reset(f) \/ Close(f)
      PROVE  CountInv'
  BY <1>0, <1>2 DEF CountInv, InSyn, Dial, Greeted, Reset, Close, copyVars
<1>3. ASSUME NEW f \in Flows, Accept(f)
      PROVE  CountInv'
  <2>1. up[f] = "off" /\ down[f] = "off"
    BY <1>3 DEF CountInv, Accept
  <2>2. /\ Accounted(up, sent)' = Accounted(up, sent)
        /\ Accounted(down, received)' = Accounted(down, received)
    BY <1>0, <1>3, <2>1, AccountedStarts DEF Accept
  <2> QED
    BY <1>0, <1>3, <2>1, <2>2 DEF CountInv, Accept
<1>4. ASSUME NEW f \in Flows, CopyUp(f)
      PROVE  CountInv'
  <2>1. Accounted(up, sent)' = Accounted(up, sent)
    BY <1>0, <1>4, AccountedMoves DEF CopyUp
  <2> QED
    BY <1>0, <1>4, <2>1 DEF CountInv, CopyUp, handlerVars
<1>5. ASSUME NEW f \in Flows, CopyDown(f)
      PROVE  CountInv'
  <2>1. Accounted(down, received)' = Accounted(down, received)
    BY <1>0, <1>5, AccountedMoves DEF CopyDown
  <2> QED
    BY <1>0, <1>5, <2>1 DEF CountInv, CopyDown, handlerVars
<1>6. ASSUME NEW f \in Flows, EndUp(f)
      PROVE  CountInv'
  <2>1. Total(Accounted(up, sent))' = Total(Accounted(up, sent)) + sent[f]
    BY <1>0, <1>6, AccountedEnds DEF EndUp
  <2> QED
    BY <1>0, <1>6, <2>1 DEF CountInv, EndUp, handlerVars
<1>7. ASSUME NEW f \in Flows, EndDown(f)
      PROVE  CountInv'
  <2>1. Total(Accounted(down, received))' = Total(Accounted(down, received)) + received[f]
    BY <1>0, <1>7, AccountedEnds DEF EndDown
  <2> QED
    BY <1>0, <1>7, <2>1 DEF CountInv, EndDown, handlerVars
<1> QED
  BY <1>1, <1>2, <1>3, <1>4, <1>5, <1>6, <1>7, OthersCountNothing DEF FlowStep

\* Without an open flow every copier has accounted all it moved.
LEMMA CountsAgree ==
    ASSUME TypeOK, CountInv
    PROVE  CountsSettle
<1> SUFFICES ASSUME \A f \in Flows : flow[f] # "copy"
             PROVE  tx = Total(sent) /\ rx = Total(received)
  BY DEF CountsSettle
<1>1. Accounted(up, sent) = sent
  BY DEF TypeOK, CountInv, Accounted
<1>2. Accounted(down, received) = received
  BY DEF TypeOK, CountInv, Accounted
<1> QED
  BY <1>1, <1>2 DEF CountInv

\* The totals that Session.Stats reports lose and repeat no byte, for any finite
\* set of flows: when no splice is open tx is what the up copiers moved and rx what
\* the down copiers moved, however they interleaved.
THEOREM SessionCountsSettle ==
    ASSUME IsFiniteSet(Flows)
    PROVE  Spec => []CountsSettle
<1>1. Init => CountInv
  BY CountInit
<1>2. TypeOK /\ CountInv /\ [Next]_vars => CountInv'
  BY CountNext
<1>3. TypeOK /\ CountInv => CountsSettle
  BY CountsAgree
<1>4. SessionInv => TypeOK
  BY DEF SessionInv
<1> QED
  BY <1>1, <1>2, <1>3, <1>4, SessionInvariant, PTL DEF Spec
=============================================================================
