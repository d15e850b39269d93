------------------------ MODULE LockAndServerProofs ------------------------
(***************************************************************************)
(* Proofs about WriterLock, for every number of processes and local files, *)
(* every retry budget and every choice of fork points, and about           *)
(* ServerLife, for any number of processes, data directories and kills.    *)
(* The two specifications share no state, and neither part cites the other.*)
(***************************************************************************)
EXTENDS WriterLockProps, ServerLife, TLAPS

(***************************************************************************)
(* WriterLock.                                                             *)
(***************************************************************************)
USE DEF Roles, Files, PCs, Outcomes, ForkStates

\* The initial state satisfies the inductive invariant of the guard.
LEMMA InitIndInv == Init => IndInv
  BY PathsAssumption, ProcsAssumption
  DEF Init, IndInv, TypeOK, GateSerialises, RolePlaces, FilesOwned, ScanComplete, Announced,
      Exclusive, RepairUnopposed, MetadataNamesServer, Critical, Registered

\* Every variable keeps its type; a file re-created under the gate has a name.
LEMMA NextTypeOK == TypeOK /\ FilesOwned /\ [Next]_vars => TypeOK'
<1> SUFFICES ASSUME TypeOK, FilesOwned, [Next]_vars PROVE TypeOK'
  OBVIOUS
<1> USE PathsAssumption, ProcsAssumption DEF TypeOK, Registered, Goto, Ends, Register, Close,
    TryLock, scanVars, metaVars
<1>0. ASSUME NEW p \in Procs, NEW f, TryLock(p, f) PROVE lock' \in [Files -> SUBSET Procs]
  BY <1>0
<1> HIDE DEF TryLock
<1>1. ASSUME NEW p \in Procs, Step(p) PROVE TypeOK'
  <2>1. CASE LockOwn(p)
    <3>1. lock' \in [Files -> SUBSET Procs] BY <2>1, <1>0 DEF LockOwn
    <3>2. refs' \in [Procs -> [Roles -> Nat]] BY <2>1 DEF LockOwn
    <3>3. pc' \in [Procs -> PCs] BY <2>1 DEF LockOwn
    <3>4. outcome' \in [Procs -> Outcomes] BY <2>1 DEF LockOwn
    <3> QED BY <2>1, <3>1, <3>2, <3>3, <3>4 DEF LockOwn
  <2>2. CASE OwnRefused(p) BY <2>2 DEF OwnRefused
  <2>3. CASE \E at \in {"gate", "srv", "probe"} : Busy(p, at) BY <2>3 DEF Busy
  <2>4. CASE PassGate(p) BY <2>4, <1>0 DEF PassGate
  <2>5. CASE GateRefused(p) BY <2>5 DEF GateRefused
  <2>6. CASE Recreate(p) BY <2>6 DEF Recreate, FilesOwned
  <2>7. CASE LockRecreated(p) BY <2>7, <1>0 DEF LockRecreated
  <2>8. CASE LeaveGate(p) BY <2>8 DEF LeaveGate
  <2>9. CASE BeginScan(p) BY <2>9, <1>0 DEF BeginScan
  <2>10. CASE ServerRefused(p) BY <2>10 DEF ServerRefused
  <2>11. CASE ScanEntry(p) BY <2>11 DEF ScanEntry
  <2>12. CASE ScanUnlocked(p) BY <2>12, <1>0 DEF ScanUnlocked
  <2>13. CASE ScanClose(p) BY <2>13 DEF ScanClose
  <2>14. CASE ScanUnlink(p) BY <2>14 DEF ScanUnlink
  <2>15. CASE ScanRefused(p) BY <2>15 DEF ScanRefused
  <2>16. CASE Serve(p) BY <2>16 DEF Serve, WriteMetadata
  <2>17. CASE UnlinkOwn(p) BY <2>17 DEF UnlinkOwn
  <2>18. CASE CloseServer(p) BY <2>18 DEF CloseServer
  <2>19. CASE ProbeLocks(p) BY <2>19, <1>0 DEF ProbeLocks
  <2>20. CASE ProbeFree(p) BY <2>20 DEF ProbeFree
  <2>21. CASE ProbeServed(p) BY <2>21 DEF ProbeServed
  <2>22. CASE AfterFork(p) BY <2>22 DEF AfterFork
  <2> QED
    BY <1>1, <2>1, <2>2, <2>3, <2>4, <2>5, <2>6, <2>7, <2>8, <2>9, <2>10, <2>11, <2>12,
       <2>13, <2>14, <2>15, <2>16, <2>17, <2>18, <2>19, <2>20, <2>21, <2>22 DEF Step
<1>2. ASSUME NEW p \in Procs, Begin(p) PROVE TypeOK'
  <2>1. CASE Start(p) BY <2>1 DEF Start
  <2>2. CASE CreateOwn(p) BY <2>2 DEF CreateOwn
  <2>3. CASE StartServer(p) BY <2>3 DEF StartServer
  <2>4. CASE StartProbe(p) BY <2>4 DEF StartProbe
  <2>5. CASE ProbeSelf(p) BY <2>5 DEF ProbeSelf
  <2>6. CASE ReleaseLocal(p) BY <2>6 DEF ReleaseLocal
  <2>7. CASE ReleaseServer(p) BY <2>7 DEF ReleaseServer
  <2>8. CASE \E r \in Roles : AcquireAgain(p, r) BY <2>8 DEF AcquireAgain
  <2>9. CASE \E r \in Roles : ReleaseRef(p, r) BY <2>9 DEF ReleaseRef
  <2>10. CASE \E c \in Procs : Fork(p, c) BY <2>10 DEF Fork, RegisteredFiles
  <2> QED
    BY <1>2, <2>1, <2>2, <2>3, <2>4, <2>5, <2>6, <2>7, <2>8, <2>9, <2>10 DEF Begin
<1>3. ASSUME NEW p \in Procs, Fault(p) PROVE TypeOK'
  <2>1. CASE OwnFails(p) BY <2>1 DEF OwnFails
  <2>2. CASE GateFails(p) BY <2>2 DEF GateFails
  <2>3. CASE ScanFails(p) BY <2>3 DEF ScanFails
  <2>4. CASE Crash(p) BY <2>4 DEF Crash
  <2>5. CASE ScanDenied(p)
    <3>1. todo' \in [Procs -> SUBSET Paths] BY <2>5 DEF ScanDenied
    <3>2. pc' \in [Procs -> PCs] BY <2>5 DEF ScanDenied
    <3>3. scanAt' \in [Procs -> Paths \cup {NoFile}] BY <2>5 DEF ScanDenied
    <3> QED BY <2>5, <3>1, <3>2, <3>3 DEF ScanDenied
  <2> QED BY <1>3, <2>1, <2>2, <2>3, <2>4, <2>5 DEF Fault
<1>4. CASE UNCHANGED vars BY <1>4 DEF vars
<1> QED BY <1>1, <1>2, <1>3, <1>4 DEF Next

\* Registering a role changes that role's count and no other.
LEMMA RegisterOne ==
  ASSUME TypeOK, NEW p \in Procs, NEW r \in Roles, Register(p, r)
  PROVE  /\ refs'[p][r] = refs[p][r] + 1
         /\ \A q \in Procs, s \in Roles : q # p \/ s # r => refs'[q][s] = refs[q][s]
  BY DEF TypeOK, Register

\* The parts of the inductive invariant that relate several variables.
Relations ==
  /\ GateSerialises
  /\ RolePlaces
  /\ FilesOwned
  /\ ScanComplete
  /\ Announced
  /\ Exclusive
  /\ RepairUnopposed
  /\ MetadataNamesServer

LEMMA NextRelations == IndInv /\ TypeOK' /\ [Next]_vars => Relations'
<1> SUFFICES ASSUME TypeOK, TypeOK', Relations, [Next]_vars PROVE Relations'
  BY DEF IndInv, Relations
<1> USE PathsAssumption, ProcsAssumption DEF TypeOK, Relations, GateSerialises, RolePlaces,
    FilesOwned, ScanComplete, Announced, Exclusive, RepairUnopposed, MetadataNamesServer,
    Critical, Registered, Goto, Ends, Register, Close, TryLock, scanVars, metaVars
<1>1. ASSUME NEW p \in Procs, Step(p) PROVE Relations'
  <2>1. CASE LockOwn(p)
    <3>1. GateSerialises' BY <2>1 DEF LockOwn
    <3>2. RolePlaces' BY <2>1 DEF LockOwn
    <3>3. FilesOwned' BY <2>1 DEF LockOwn
    <3>4. ScanComplete' BY <2>1 DEF LockOwn
    <3>5. Announced'
      <4>1. /\ lock[file[p]] = {}
            /\ lock' = [lock EXCEPT ![file[p]] = {p}]
            /\ file[p] \in Paths
            /\ UNCHANGED <<file, linked>>
        BY <2>1 DEF LockOwn
      <4>2. \A q \in Procs : refs'[q]["server"] = refs[q]["server"]
        <5> HIDE DEF Register
        <5> QED BY <2>1, RegisterOne DEF LockOwn
      <4>3. \A q \in Procs : q # p => refs'[q]["local"] = refs[q]["local"]
        BY <2>1 DEF LockOwn
      <4>4. Registered(p, "local")' => file[p] \in linked /\ p \in lock'[file[p]]
        <5>1. CASE Registered(p, "server") BY <4>1, <2>1, <5>1 DEF LockOwn
        <5>2. CASE ~Registered(p, "server")
          <6>1. refs' = refs BY <2>1, <5>2 DEF LockOwn
          <6> QED BY <6>1, <2>1 DEF LockOwn
        <5> QED BY <5>1, <5>2
      <4>5. ASSUME NEW q \in Procs, q # p, Registered(q, "local")
            PROVE file[q] \in linked /\ q \in lock'[file[q]]
        BY <4>1, <4>5
      <4>6. ASSUME NEW q \in Procs, Registered(q, "server") PROVE q \in lock'[ServerLock]
        BY <4>1, <4>6
      <4> QED BY <4>1, <4>2, <4>3, <4>4, <4>5, <4>6
    <3>6. Exclusive' BY <2>1 DEF LockOwn
    <3>7. RepairUnopposed' BY <2>1 DEF LockOwn
    <3>8. MetadataNamesServer'
      <4>1. \A q \in Procs : refs'[q]["server"] = refs[q]["server"]
        <5> HIDE DEF Register
        <5> QED BY <2>1, RegisterOne DEF LockOwn
      <4>2. UNCHANGED <<meta, unsaid>> BY <2>1 DEF LockOwn
      <4> HIDE DEF TryLock
      <4> QED BY <4>1, <4>2
    <3> QED BY <3>1, <3>2, <3>3, <3>4, <3>5, <3>6, <3>7, <3>8 DEF Relations
  <2>2. CASE OwnRefused(p) BY <2>2 DEF OwnRefused
  <2>3. CASE \E at \in {"gate", "srv", "probe"} : Busy(p, at) BY <2>3 DEF Busy
  <2>4. CASE PassGate(p) BY <2>4 DEF PassGate
  <2>5. CASE GateRefused(p) BY <2>5 DEF GateRefused
  <2>6. CASE Recreate(p) BY <2>6 DEF Recreate
  <2>7. CASE LockRecreated(p) BY <2>7 DEF LockRecreated
  <2>8. CASE LeaveGate(p)
    <3>1. GateSerialises'
      <4>1. /\ pc[p] = "gateHeld" /\ pc' = [pc EXCEPT ![p] = "idle"]
            /\ file[p] \in linked
            /\ Close(p, {ServerLock})
            /\ UNCHANGED <<file, linked>>
        BY <2>8 DEF LeaveGate
      <4>2. /\ \A q \in Procs : refs'[q]["server"] = refs[q]["server"]
            /\ \A q \in Procs : q # p => refs'[q]["local"] = refs[q]["local"]
        <5> HIDE DEF Register
        <5> QED BY <2>8, RegisterOne DEF LeaveGate
      <4> HIDE DEF Register
      <4>3. ~Registered(p, "server") BY <4>1
      <4> QED BY <4>1, <4>2, <4>3
    <3>2. RolePlaces' BY <2>8 DEF LeaveGate
    <3>3. FilesOwned' BY <2>8 DEF LeaveGate
    <3>4. ScanComplete' BY <2>8 DEF LeaveGate
    <3>5. Announced'
      <4>1. /\ pc[p] = "gateHeld" /\ pc' = [pc EXCEPT ![p] = "idle"]
            /\ file[p] \in linked
            /\ Close(p, {ServerLock})
            /\ UNCHANGED <<file, linked>>
        BY <2>8 DEF LeaveGate
      <4>2. /\ \A q \in Procs : refs'[q]["server"] = refs[q]["server"]
            /\ \A q \in Procs : q # p => refs'[q]["local"] = refs[q]["local"]
        <5> HIDE DEF Register
        <5> QED BY <2>8, RegisterOne DEF LeaveGate
      <4> HIDE DEF Register
      <4>3. ~Registered(p, "server") BY <4>1
      <4> QED BY <4>1, <4>2, <4>3
    <3>6. Exclusive' BY <2>8 DEF LeaveGate
    <3>7. RepairUnopposed' BY <2>8 DEF LeaveGate
    <3>8. MetadataNamesServer' BY <2>8 DEF LeaveGate
    <3> QED BY <3>1, <3>2, <3>3, <3>4, <3>5, <3>6, <3>7, <3>8 DEF Relations
  <2>9. CASE BeginScan(p) BY <2>9 DEF BeginScan
  <2>10. CASE ServerRefused(p) BY <2>10 DEF ServerRefused
  <2>11. CASE ScanEntry(p)
    <3>1. GateSerialises' BY <2>11 DEF ScanEntry, Own
    <3>2. RolePlaces' BY <2>11 DEF ScanEntry, Own
    <3>3. FilesOwned' BY <2>11 DEF ScanEntry, Own
    <3>4. ScanComplete'
      <4>1. PICK f \in todo[p] :
              /\ Own(p, f) \/ f \notin linked \/ lock[f] # {}
              /\ todo' = [todo EXCEPT ![p] = @ \ {f}]
              /\ live' = [live EXCEPT ![p] = @ \/ (~Own(p, f) /\ f \in linked)]
        BY <2>11 DEF ScanEntry
      <4>2. UNCHANGED <<pc, refs, file, scanAt, linked, lock>> BY <2>11 DEF ScanEntry
      <4>3. ASSUME NEW q \in Procs, q # p, Registered(q, "local"), ~live'[p], pc[p] = "scan"
            PROVE file[q] \in todo'[p]
        <5>1. file[q] \in linked /\ lock[file[q]] # {} /\ file[q] \in todo[p]
          <6>1. live'[p] = (live[p] \/ (~Own(p, f) /\ f \in linked)) BY <4>1
          <6>2. ~live[p] BY <6>1, <4>3
          <6> QED BY <6>2, <4>3, <2>11 DEF ScanEntry
        <5>2. live'[p] = (live[p] \/ (~Own(p, f) /\ f \in linked)) BY <4>1
        <5>3. Own(p, f) \/ f \notin linked BY <5>2, <4>3
        <5>4. file[q] # f BY <5>1, <5>3, <4>3 DEF Own
        <5> QED BY <4>1, <5>1, <5>4
      <4>4. \A q \in Procs : q # p => todo'[q] = todo[q] /\ live'[q] = live[q] BY <4>1
      <4> QED BY <2>11, <4>2, <4>3, <4>4 DEF ScanEntry
    <3>5. Announced' BY <2>11 DEF ScanEntry, Own
    <3>6. Exclusive' BY <2>11 DEF ScanEntry, Own
    <3>7. RepairUnopposed' BY <2>11 DEF ScanEntry, Own
    <3>8. MetadataNamesServer' BY <2>11 DEF ScanEntry, Own
    <3> QED BY <3>1, <3>2, <3>3, <3>4, <3>5, <3>6, <3>7, <3>8 DEF Relations
  <2>12. CASE ScanUnlocked(p) BY <2>12 DEF ScanUnlocked, Own
  <2>13. CASE ScanClose(p) BY <2>13 DEF ScanClose
  <2>14. CASE ScanUnlink(p) BY <2>14 DEF ScanUnlink
  <2>15. CASE ScanRefused(p) BY <2>15 DEF ScanRefused
  <2>16. CASE Serve(p) BY <2>16 DEF Serve, WriteMetadata
  <2>17. CASE UnlinkOwn(p) BY <2>17 DEF UnlinkOwn
  <2>18. CASE CloseServer(p) BY <2>18 DEF CloseServer
  <2>19. CASE ProbeLocks(p) BY <2>19 DEF ProbeLocks
  <2>20. CASE ProbeFree(p) BY <2>20 DEF ProbeFree
  <2>21. CASE ProbeServed(p) BY <2>21 DEF ProbeServed
  <2>22. CASE AfterFork(p)
    <3>1. GateSerialises' BY <2>22 DEF AfterFork
    <3>2. RolePlaces' BY <2>22 DEF AfterFork
    <3>3. FilesOwned' BY <2>22 DEF AfterFork
    <3>4. ScanComplete' BY <2>22 DEF AfterFork
    <3>5. Announced' BY <2>22 DEF AfterFork
    <3>6. Exclusive' BY <2>22 DEF AfterFork
    <3>7. RepairUnopposed' BY <2>22 DEF AfterFork
    <3>8. MetadataNamesServer' BY <2>22 DEF AfterFork
    <3> QED BY <3>1, <3>2, <3>3, <3>4, <3>5, <3>6, <3>7, <3>8 DEF Relations
  <2> HIDE DEF Relations
  <2> QED BY <1>1, <2>1, <2>2, <2>3, <2>4, <2>5, <2>6, <2>7, <2>8, <2>9, <2>10, <2>11, <2>12, <2>13, <2>14, <2>15, <2>16, <2>17, <2>18, <2>19, <2>20, <2>21, <2>22 DEF Step
<1>2. ASSUME NEW p \in Procs, Begin(p) PROVE Relations'
  <2>1. CASE Start(p) BY <2>1 DEF Start
  <2>2. CASE CreateOwn(p) BY <2>2 DEF CreateOwn, Fresh
  <2>3. CASE StartServer(p) BY <2>3 DEF StartServer
  <2>4. CASE StartProbe(p) BY <2>4 DEF StartProbe
  <2>5. CASE ProbeSelf(p) BY <2>5 DEF ProbeSelf
  <2>6. CASE ReleaseLocal(p) BY <2>6 DEF ReleaseLocal
  <2>7. CASE ReleaseServer(p) BY <2>7 DEF ReleaseServer
  <2>8. CASE \E r \in Roles : AcquireAgain(p, r) BY <2>8 DEF AcquireAgain
  <2>9. CASE \E r \in Roles : ReleaseRef(p, r) BY <2>9 DEF ReleaseRef
  <2>10. CASE \E c \in Procs : Fork(p, c)
    <3>1. GateSerialises' BY <2>10 DEF Fork, RegisteredFiles
    <3>2. RolePlaces' BY <2>10 DEF Fork, RegisteredFiles
    <3>3. FilesOwned' BY <2>10 DEF Fork, RegisteredFiles
    <3>4. ScanComplete' BY <2>10 DEF Fork, RegisteredFiles
    <3>5. Announced' BY <2>10 DEF Fork, RegisteredFiles
    <3>6. Exclusive' BY <2>10 DEF Fork, RegisteredFiles
    <3>7. RepairUnopposed' BY <2>10 DEF Fork, RegisteredFiles
    <3>8. MetadataNamesServer' BY <2>10 DEF Fork, RegisteredFiles
    <3> QED BY <3>1, <3>2, <3>3, <3>4, <3>5, <3>6, <3>7, <3>8 DEF Relations
  <2> HIDE DEF Relations
  <2> QED BY <1>2, <2>1, <2>2, <2>3, <2>4, <2>5, <2>6, <2>7, <2>8, <2>9, <2>10 DEF Begin
<1>3. ASSUME NEW p \in Procs, Fault(p) PROVE Relations'
  <2>1. CASE OwnFails(p) BY <2>1 DEF OwnFails
  <2>2. CASE GateFails(p)
    <3>1. GateSerialises'
      <4>1. /\ pc[p] \in {"gate", "gateHeld", "repair"}
            /\ pc' = [pc EXCEPT ![p] = "unlinkOwn"]
            /\ Close(p, {file[p], ServerLock})
            /\ UNCHANGED refs
        BY <2>2 DEF GateFails
      <4>2. ~Registered(p, "server") BY <4>1
      <4> QED BY <4>1, <4>2
    <3>2. RolePlaces' BY <2>2 DEF GateFails
    <3>3. FilesOwned' BY <2>2 DEF GateFails
    <3>4. ScanComplete' BY <2>2 DEF GateFails
    <3>5. Announced' BY <2>2 DEF GateFails
    <3>6. Exclusive' BY <2>2 DEF GateFails
    <3>7. RepairUnopposed' BY <2>2 DEF GateFails
    <3>8. MetadataNamesServer' BY <2>2 DEF GateFails
    <3> QED BY <3>1, <3>2, <3>3, <3>4, <3>5, <3>6, <3>7, <3>8 DEF Relations
  <2>3. CASE ScanFails(p) BY <2>3 DEF ScanFails
  <2>4. CASE Crash(p) BY <2>4 DEF Crash
  <2>5. CASE ScanDenied(p) BY <2>5 DEF ScanDenied, Own
  <2> HIDE DEF Relations
  <2> QED BY <1>3, <2>1, <2>2, <2>3, <2>4, <2>5 DEF Fault
<1>4. CASE UNCHANGED vars BY <1>4 DEF vars
<1> HIDE DEF Relations
<1> QED BY <1>1, <1>2, <1>3, <1>4 DEF Next

\* The inductive invariant holds in every reachable state.
THEOREM IndInvHolds == Spec => []IndInv
<1>1. IndInv /\ [Next]_vars => IndInv'
  <2> SUFFICES ASSUME IndInv, [Next]_vars PROVE IndInv'
    OBVIOUS
  <2>1. TypeOK' BY NextTypeOK DEF IndInv
  <2>2. Relations' BY <2>1, NextRelations
  <2> QED BY <2>1, <2>2 DEF IndInv, Relations
<1> QED BY InitIndInv, <1>1, PTL DEF Spec

\* Type correctness of the guard's state.
THEOREM TypeCorrect == Spec => []TypeOK
<1>1. IndInv => TypeOK BY DEF IndInv
<1> QED BY IndInvHolds, <1>1, PTL

\* However many processes race, fork and crash, a served store is used by no
\* other process.
THEOREM ExclusiveHolds == Spec => []Exclusive
<1>1. IndInv => Exclusive BY DEF IndInv
<1> QED BY IndInvHolds, <1>1, PTL

\* A registered role is always visible to a scan: no scan ever removes the
\* file of a registered local for good.
THEOREM AnnouncedHolds == Spec => []Announced
<1>1. IndInv => Announced BY DEF IndInv
<1> QED BY IndInvHolds, <1>1, PTL

\* server.json is the registered server's own record unless its write failed.
THEOREM MetadataHolds == Spec => []MetadataNamesServer
<1>1. IndInv => MetadataNamesServer BY DEF IndInv
<1> QED BY IndInvHolds, <1>1, PTL

\* A probe that answers "free" does so while it has server.lock, so at that
\* moment no process is registered as the server.
THEOREM ProbeSoundHolds == Spec => ProbeSound
<1> DEFINE Answer == \A p \in Procs : outcome[p] # "free" /\ outcome'[p] = "free" =>
                       \A q \in Procs : refs'[q]["server"] = 0
<1>1. IndInv /\ [Next]_vars => [Answer]_vars
  <2> SUFFICES ASSUME IndInv, [Next]_vars, NEW p \in Procs,
                      outcome[p] # "free", outcome'[p] = "free"
               PROVE  \A q \in Procs : refs'[q]["server"] = 0
    OBVIOUS
  <2> USE DEF IndInv, TypeOK, Goto, Ends
  <2>1. ProbeFree(p)
    <3>1. ASSUME NEW r \in Procs, Step(r) PROVE ProbeFree(p)
      BY <3>1 DEF Step, LockOwn, OwnRefused, Busy, PassGate, GateRefused, Recreate,
         LockRecreated, LeaveGate, BeginScan, ServerRefused, ScanEntry, ScanUnlocked,
         ScanClose, ScanUnlink, ScanRefused, Serve, UnlinkOwn, CloseServer, ProbeLocks,
         ProbeFree, ProbeServed, AfterFork
    <3>2. ASSUME NEW r \in Procs, Begin(r) PROVE ProbeFree(p)
      BY <3>2 DEF Begin, Start, CreateOwn, StartServer, StartProbe, ProbeSelf, ReleaseLocal,
         ReleaseServer, AcquireAgain, ReleaseRef, Fork
    <3>3. ASSUME NEW r \in Procs, Fault(r) PROVE ProbeFree(p)
      BY <3>3 DEF Fault, OwnFails, GateFails, ScanFails, ScanDenied, Crash
    <3>4. ~ UNCHANGED vars BY DEF vars
    <3> QED BY <3>1, <3>2, <3>3, <3>4 DEF Next
  <2>2. \A q \in Procs : ~Registered(q, "server")
    BY <2>1 DEF ProbeFree, Critical, GateSerialises, RolePlaces
  <2> QED BY <2>1, <2>2 DEF ProbeFree, Registered
<1> QED BY IndInvHolds, <1>1, PTL DEF Spec, ProbeSound

-----------------------------------------------------------------------------
(* The registries implement the abstract lock service. *)

\* As long as the counts do not change, neither do the roles.
LEMMA SameRefsSameRoles == UNCHANGED refs => UNCHANGED roles
  BY DEF roles, Registered

\* A registration the guard lets through is one the service grants.
LEMMA RegisterTakes ==
  ASSUME TypeOK, NEW p \in Procs, NEW r \in Roles, Register(p, r),
         \A q \in Procs \ {p} : ~Registered(q, "server"),
         \A q \in Procs \ {p} : r = "server" => ~Registered(q, "local")
  PROVE  Abstract!Take(p, r)
<1>1. /\ \A s \in Roles : Registered(p, s)' <=> Registered(p, s) \/ s = r
      /\ \A q \in Procs, s \in Roles : q # p => (Registered(q, s)' <=> Registered(q, s))
  BY RegisterOne DEF Registered, TypeOK
<1>2. roles' = [roles EXCEPT ![p] = @ \cup {r}]
  BY <1>1 DEF roles
<1>3. Abstract!Compatible(p, r)
  <2> SUFFICES ASSUME NEW q \in Procs \ {p}
               PROVE  IF r = "server" THEN roles[q] = {} ELSE "server" \notin roles[q]
    BY DEF Abstract!Compatible
  <2>1. roles[q] = {s \in Roles : Registered(q, s)} BY DEF roles
  <2>2. CASE r = "server"
    <3>1. ~Registered(q, "server") /\ ~Registered(q, "local") BY <2>2
    <3>2. \A s \in Roles : ~Registered(q, s) BY <3>1
    <3> QED BY <2>1, <2>2, <3>2
  <2>3. CASE r # "server"
    <3>1. "server" \notin roles[q] BY <2>1
    <3> QED BY <2>3, <3>1
  <2> QED BY <2>2, <2>3
<1> QED BY <1>2, <1>3 DEF Abstract!Take

\* Every step of the guard is a step of the lock service, or changes no role.
LEMMA StepRefines == IndInv /\ [Next]_vars => [Abstract!Next]_roles
<1> SUFFICES ASSUME IndInv, [Next]_vars PROVE [Abstract!Next]_roles
  OBVIOUS
<1> USE DEF IndInv, Relations
<1>0. TypeOK /\ UNCHANGED refs => UNCHANGED roles BY SameRefsSameRoles
<1>1. ASSUME NEW p \in Procs, LockOwn(p) PROVE [Abstract!Next]_roles
  <2>1. CASE ~Registered(p, "server") BY <1>0, <1>1, <2>1 DEF LockOwn
  <2>2. CASE Registered(p, "server")
    <3>1. Register(p, "local") BY <1>1, <2>2 DEF LockOwn
    <3>2. \A q \in Procs \ {p} : ~Registered(q, "server")
      BY <2>2 DEF GateSerialises, Critical
    <3>3. Abstract!Take(p, "local") BY <3>1, <3>2, RegisterTakes
    <3> QED BY <3>3 DEF Abstract!Next, Abstract!Roles
  <2> QED BY <2>1, <2>2
<1>2. ASSUME NEW p \in Procs, LeaveGate(p) PROVE [Abstract!Next]_roles
  <2>1. Register(p, "local") BY <1>2 DEF LeaveGate
  <2>2. \A q \in Procs \ {p} : ~Registered(q, "server")
    BY <1>2 DEF LeaveGate, Goto, GateSerialises, Critical
  <2>3. Abstract!Take(p, "local") BY <2>1, <2>2, RegisterTakes
  <2> QED BY <2>3 DEF Abstract!Next, Abstract!Roles
<1>3. ASSUME NEW p \in Procs, Serve(p) PROVE [Abstract!Next]_roles
  <2>1. Register(p, "server") BY <1>3 DEF Serve
  <2>2. \A q \in Procs \ {p} : ~Registered(q, "server") /\ ~Registered(q, "local")
    BY <1>3 DEF Serve, Goto, GateSerialises, Critical, ScanComplete
  <2>3. Abstract!Take(p, "server") BY <2>1, <2>2, RegisterTakes
  <2> QED BY <2>3 DEF Abstract!Next, Abstract!Roles
<1>4. ASSUME NEW p \in Procs, NEW r \in Roles, refs[p][r] > 1, refs' \in [Procs -> [Roles -> Nat]],
             refs'[p][r] > 0, \A q \in Procs, s \in Roles : q # p \/ s # r => refs'[q][s] = refs[q][s]
      PROVE  UNCHANGED roles
  <2>1. \A q \in Procs, s \in Roles : Registered(q, s)' <=> Registered(q, s)
    BY <1>4 DEF Registered, TypeOK
  <2> QED BY <2>1 DEF roles
<1>5. ASSUME NEW p \in Procs, NEW r \in Roles, AcquireAgain(p, r) PROVE UNCHANGED roles
  <2>1. \A q \in Procs, s \in Roles : Registered(q, s)' <=> Registered(q, s)
    BY <1>5, RegisterOne DEF AcquireAgain, Registered, TypeOK
  <2> QED BY <2>1 DEF roles
<1>6. ASSUME NEW p \in Procs, NEW r \in Roles, ReleaseRef(p, r) PROVE UNCHANGED roles
  BY <1>6, <1>4 DEF ReleaseRef, TypeOK
<1>7. ASSUME NEW p \in Procs, NEW r \in Roles, refs' = [refs EXCEPT ![p][r] = 0]
      PROVE  [Abstract!Next]_roles
  <2>1. \A q \in Procs, s \in Roles :
          Registered(q, s)' <=> Registered(q, s) /\ ~(q = p /\ s = r)
    BY <1>7 DEF Registered, TypeOK
  <2>2. roles' = [roles EXCEPT ![p] = @ \ {r}] BY <2>1 DEF roles
  <2> QED BY <2>2 DEF Abstract!Next, Abstract!Drop, Abstract!Roles
<1>8. ASSUME NEW p \in Procs, Crash(p) PROVE [Abstract!Next]_roles
  <2>1. \A q \in Procs, s \in Roles : Registered(q, s)' <=> q # p /\ Registered(q, s)
    BY <1>8 DEF Crash, Registered, TypeOK
  <2>2. roles' = [roles EXCEPT ![p] = {}] BY <2>1 DEF roles
  <2> QED BY <2>2 DEF Abstract!Next, Abstract!Die
<1>9. ASSUME NEW p \in Procs, Step(p) PROVE [Abstract!Next]_roles
  <2>1. CASE LockOwn(p) \/ LeaveGate(p) \/ Serve(p) BY <2>1, <1>1, <1>2, <1>3
  <2>2. CASE ~(LockOwn(p) \/ LeaveGate(p) \/ Serve(p))
    <3>1. UNCHANGED refs
      BY <1>9, <2>2 DEF Step, OwnRefused, Busy, PassGate, GateRefused, Recreate,
         LockRecreated, BeginScan, ServerRefused, ScanEntry, ScanUnlocked, ScanClose,
         ScanUnlink, ScanRefused, UnlinkOwn, CloseServer, ProbeLocks, ProbeFree,
         ProbeServed, AfterFork
    <3> QED BY <3>1, <1>0
  <2> QED BY <2>1, <2>2
<1>10. ASSUME NEW p \in Procs, Begin(p) PROVE [Abstract!Next]_roles
  <2>1. CASE \E r \in Roles : AcquireAgain(p, r) \/ ReleaseRef(p, r) BY <2>1, <1>5, <1>6
  <2>2. CASE ReleaseLocal(p) BY <2>2, <1>7 DEF ReleaseLocal
  <2>3. CASE ReleaseServer(p) BY <2>3, <1>7 DEF ReleaseServer
  <2>4. CASE \/ Start(p) \/ CreateOwn(p) \/ StartServer(p) \/ StartProbe(p) \/ ProbeSelf(p)
             \/ \E c \in Procs : Fork(p, c)
    <3>1. UNCHANGED refs
      BY <2>4 DEF Start, CreateOwn, StartServer, StartProbe, ProbeSelf, Fork
    <3> QED BY <3>1, <1>0
  <2> QED BY <1>10, <2>1, <2>2, <2>3, <2>4 DEF Begin
<1>11. ASSUME NEW p \in Procs, Fault(p) PROVE [Abstract!Next]_roles
  <2>1. CASE Crash(p) BY <2>1, <1>8
  <2>2. CASE OwnFails(p) \/ GateFails(p) \/ ScanFails(p) \/ ScanDenied(p)
    BY <2>2, <1>0 DEF OwnFails, GateFails, ScanFails, ScanDenied
  <2> QED BY <1>11, <2>1, <2>2 DEF Fault
<1>12. CASE UNCHANGED vars BY <1>12, <1>0 DEF vars
<1> QED BY <1>9, <1>10, <1>11, <1>12 DEF Next

\* WriterLock implements StoreRole: seen through the registries, the files,
\* scans, repairs and forks are an atomic lock service.
THEOREM RefinesStoreRole == Spec => ImplementsStoreRole
<1>1. Init => Abstract!Init
  <2> SUFFICES ASSUME Init PROVE roles = [p \in Procs |-> {}] BY DEF Abstract!Init
  <2>1. \A p \in Procs, r \in Roles : ~Registered(p, r) BY DEF Init, Registered
  <2> QED BY <2>1 DEF roles
<1> QED BY <1>1, IndInvHolds, StepRefines, PTL DEF Spec, ImplementsStoreRole, Abstract!Spec

\* When only threads that acquire nothing fork, a locked server.lock always has
\* an owner: releases, exits and crashes leave no lock behind.
THEOREM NoOrphanLockHolds ==
  ASSUME ForkPoints \subseteq {"idle"}
  PROVE  Spec => []NoOrphanLock
<1> DEFINE Owners == \A p \in lock[ServerLock] :
                       Critical(p) \/ (pc[p] = "child" /\ ServerLock \in inherit[p])
<1>1. Init => Owners BY DEF Init
<1>2. IndInv /\ Owners /\ [Next]_vars => Owners'
  <2> SUFFICES ASSUME IndInv, Owners, [Next]_vars PROVE Owners'
    OBVIOUS
  <2> USE PathsAssumption DEF IndInv, TypeOK, RolePlaces, FilesOwned, GateSerialises, Critical,
      Registered, Goto, Ends, Register, Close, TryLock
  <2>1. ASSUME NEW p \in Procs, Step(p) PROVE Owners'
    <3>1. CASE LockOwn(p)
      <4>1. UNCHANGED inherit /\ lock'[ServerLock] = lock[ServerLock] BY <3>1 DEF LockOwn
      <4>2. \A q \in Procs : q # p => pc'[q] = pc[q] BY <3>1 DEF LockOwn
      <4>3. \A q \in Procs : Registered(q, "server") => Registered(q, "server")'
        BY <3>1, RegisterOne DEF LockOwn
      <4> HIDE DEF Register
      <4> QED BY <4>1, <4>2, <4>3, <3>1 DEF LockOwn
    <3>2. CASE OwnRefused(p) BY <3>2 DEF OwnRefused
    <3>3. CASE \E at \in {"gate", "srv", "probe"} : Busy(p, at) BY <3>3 DEF Busy
    <3>4. CASE PassGate(p) BY <3>4 DEF PassGate
    <3>5. CASE GateRefused(p) BY <3>5 DEF GateRefused
    <3>6. CASE Recreate(p) BY <3>6 DEF Recreate
    <3>7. CASE LockRecreated(p) BY <3>7 DEF LockRecreated
    <3>8. CASE LeaveGate(p) BY <3>8 DEF LeaveGate
    <3>9. CASE BeginScan(p) BY <3>9 DEF BeginScan
    <3>10. CASE ServerRefused(p) BY <3>10 DEF ServerRefused
    <3>11. CASE ScanEntry(p) BY <3>11 DEF ScanEntry
    <3>12. CASE ScanUnlocked(p) BY <3>12 DEF ScanUnlocked
    <3>13. CASE ScanClose(p) BY <3>13 DEF ScanClose
    <3>14. CASE ScanUnlink(p) BY <3>14 DEF ScanUnlink
    <3>15. CASE ScanRefused(p) BY <3>15 DEF ScanRefused
    <3>16. CASE Serve(p) BY <3>16 DEF Serve
    <3>17. CASE UnlinkOwn(p) BY <3>17 DEF UnlinkOwn
    <3>18. CASE CloseServer(p) BY <3>18 DEF CloseServer
    <3>19. CASE ProbeLocks(p) BY <3>19 DEF ProbeLocks
    <3>20. CASE ProbeFree(p) BY <3>20 DEF ProbeFree
    <3>21. CASE ProbeServed(p) BY <3>21 DEF ProbeServed
    <3>22. CASE AfterFork(p) BY <3>22 DEF AfterFork
    <3> HIDE DEF Owners
    <3> QED BY <2>1, <3>1, <3>2, <3>3, <3>4, <3>5, <3>6, <3>7, <3>8, <3>9, <3>10, <3>11, <3>12, <3>13, <3>14, <3>15, <3>16, <3>17, <3>18, <3>19, <3>20, <3>21, <3>22 DEF Step
  <2>2. ASSUME NEW p \in Procs, Begin(p) PROVE Owners'
    <3>1. CASE Start(p) BY <3>1 DEF Start
    <3>2. CASE CreateOwn(p) BY <3>2 DEF CreateOwn
    <3>3. CASE StartServer(p) BY <3>3 DEF StartServer
    <3>4. CASE StartProbe(p) BY <3>4 DEF StartProbe
    <3>5. CASE ProbeSelf(p) BY <3>5 DEF ProbeSelf
    <3>6. CASE ReleaseLocal(p) BY <3>6 DEF ReleaseLocal
    <3>7. CASE ReleaseServer(p) BY <3>7 DEF ReleaseServer
    <3>8. CASE \E r \in Roles : AcquireAgain(p, r) BY <3>8 DEF AcquireAgain
    <3>9. CASE \E r \in Roles : ReleaseRef(p, r) BY <3>9 DEF ReleaseRef
    <3>10. CASE \E c \in Procs : Fork(p, c) BY <3>10 DEF Fork, RegisteredFiles
    <3> HIDE DEF Owners
    <3> QED BY <2>2, <3>1, <3>2, <3>3, <3>4, <3>5, <3>6, <3>7, <3>8, <3>9, <3>10 DEF Begin
  <2>3. ASSUME NEW p \in Procs, Fault(p) PROVE Owners'
    <3>1. CASE OwnFails(p) BY <3>1 DEF OwnFails
    <3>2. CASE GateFails(p) BY <3>2 DEF GateFails
    <3>3. CASE ScanFails(p) BY <3>3 DEF ScanFails
    <3>4. CASE Crash(p) BY <3>4 DEF Crash
    <3>5. CASE ScanDenied(p) BY <3>5 DEF ScanDenied, Own
    <3> HIDE DEF Owners
    <3> QED BY <2>3, <3>1, <3>2, <3>3, <3>4, <3>5 DEF Fault
  <2>4. CASE UNCHANGED vars BY <2>4 DEF vars
  <2> HIDE DEF Owners
  <2> QED BY <2>1, <2>2, <2>3, <2>4 DEF Next
<1>3. Owners => NoOrphanLock BY DEF NoOrphanLock
<1> QED BY <1>1, <1>2, <1>3, IndInvHolds, PTL DEF Spec

(***************************************************************************)
(* ServerLife.                                                             *)
(***************************************************************************)
HIDE DEF Roles, Files, PCs, Outcomes, ForkStates
USE DEF AllKinds, Steps

Shapes == [kind: AllKinds \cup {"none", "worker", "reloaded"}, at: Steps,
           dir: Dirs \cup {None}, refs: SUBSET {"import", "serve"},
           parent: Pids \cup {None}, orphan: BOOLEAN]
Secrets == {None} \cup [pid: Pids, ended: BOOLEAN]

\* A process x holds a reference of its role from its preflight on, until its storage is closed;
\* only a supervisor and a host that has to claim the role again let go of it after the import.
Held(x) ==
  /\ x.at \in {"down", "preflight", "supervise", "cleanup"} => x.refs = {}
  /\ x.at \in {"build", "claimed", "record", "serving", "stopping", "using"} => x.refs # {}
  /\ x.at = "imported" /\ x.kind \in {"direct", "worker", "reloaded"} => x.refs # {}
  /\ x.at = "using" => x.kind \in {"local", "maintenance"}
  /\ x.at \notin {"down", "preflight", "using"} => x.kind \notin {"local", "maintenance"}

\* Two processes share a data directory only if both are local ones.
Shared(x, y) == x.refs # {} /\ y.refs # {} /\ x.dir = y.dir => {x.kind, y.kind} = {"local"}
Exclusion == \A p, q \in Pids : p # q => Shared(proc[p], proc[q])

\* The files are those of the process that writes them, or serves; the gate is closed only
\* between the two writes.
FilesNamed ==
  /\ \A p \in Pids : At(p, "record") <=> gate = p
  /\ \A p \in Pids : At(p, "record") => token = Owned(p)
  /\ \A p \in Pids : At(p, "serving") => token = Owned(p) /\ record = Owned(p)

\* Only a server that serves, or ends with its last cycle, dreams.
Dreams == \A p \in Pids : job[p] # "none" => proc[p].at \in {"serving", "stopping"}

IInv ==
  /\ ServerTypeOK
  /\ \A p \in Pids : Held(proc[p])
  /\ Exclusion /\ FilesNamed /\ Dreams
  /\ due => ran = 0

LEMMA TypeParts ==
  ServerTypeOK <=> /\ proc \in [Pids -> Shapes]
             /\ token \in Secrets /\ record \in Secrets
             /\ gate \in Pids \cup {None}
             /\ job \in [Pids -> {"none", "due", "failed"}]
             /\ ran \in 0 .. 1 /\ enabled \in BOOLEAN /\ due \in BOOLEAN
BY DEF ServerTypeOK, Shapes, Secrets

LEMMA OwnedParts ==
  ASSUME NEW p \in Pids
  PROVE  Owned(p) \in [pid: Pids, ended: BOOLEAN] /\ Owned(p).pid = p
BY DEF Owned

LEMMA OwnedDiffer ==
  ASSUME NEW p \in Pids, NEW q \in Pids, Owned(p) = Owned(q)
  PROVE  p = q
BY OwnedParts

LEMMA OwnedIsSecret ==
  ASSUME NEW p \in Pids
  PROVE  Owned(p) # None /\ Owned(p) \in Secrets
BY OwnedParts, NoneAssumption DEF Secrets

\* What a process is granted: nobody else uses the directory, or local processes only.
LEMMA FreeMeans ==
  ASSUME NEW p \in Pids, NEW r \in {"local", "server"}, Free(p, r),
         NEW q \in Pids \ {p}, proc[q].dir = proc[p].dir, proc[q].refs # {}
  PROVE  r = "local" /\ proc[q].kind = "local"
<1>1. IF r = "server" THEN RoleOf(q, proc[p].dir) = {} ELSE "server" \notin RoleOf(q, proc[p].dir)
  BY DEF Free, Role!Compatible
<1> QED
  BY <1>1 DEF RoleOf

\* The second reference of a process cannot be refused.
LEMMA HeldIsFree ==
  ASSUME Exclusion, NEW p \in Pids, proc[p].refs # {}, proc[p].kind # "local"
  PROVE  Free(p, "server")
<1> SUFFICES ASSUME NEW q \in Pids \ {p} PROVE RoleOf(q, proc[p].dir) = {}
  BY DEF Free, Role!Compatible
<1>1. Shared(proc[p], proc[q])
  BY DEF Exclusion
<1> QED
  BY <1>1 DEF Shared, RoleOf

LEMMA SharedSymmetric == \A x, y : Shared(x, y) => Shared(y, x)
BY DEF Shared

(***************************************************************************)
(* One process moves to x.                                                 *)
(***************************************************************************)
Admitted(p, x) ==
  \/ x.refs = {}
  \/ proc[p].refs # {} /\ x.dir = proc[p].dir /\ x.kind = proc[p].kind
  \/ \A q \in Pids \ {p} : Shared(x, proc[q])

LEMMA MoveKeeps ==
  ASSUME IInv, NEW p \in Pids, NEW x \in Shapes, Held(x), Admitted(p, x),
         proc' = [proc EXCEPT ![p] = x]
  PROVE  /\ proc' \in [Pids -> Shapes]
         /\ proc'[p] = x /\ \A q \in Pids \ {p} : proc'[q] = proc[q]
         /\ \A q \in Pids : Held(proc'[q])
         /\ Exclusion'
<1>1. proc \in [Pids -> Shapes] /\ \A q \in Pids : Held(proc[q])
  BY TypeParts DEF IInv
<1>2. proc'[p] = x /\ \A q \in Pids \ {p} : proc'[q] = proc[q]
  BY <1>1
<1>3. \A q \in Pids \ {p} : Shared(x, proc[q])
  BY DEF Admitted, Shared, IInv, Exclusion
<1>4. \A q, r \in Pids : q # r => Shared(proc'[q], proc'[r])
  BY <1>2, <1>3, SharedSymmetric DEF IInv, Exclusion
<1> QED
  BY <1>1, <1>2, <1>4 DEF Exclusion

\* ... without writing the files.
LEMMA PlainMove ==
  ASSUME IInv, NEW p \in Pids, NEW x \in Shapes, Held(x), Admitted(p, x),
         proc' = [proc EXCEPT ![p] = x],
         x.at \notin {"record", "serving"}, proc[p].at # "record",
         job[p] = "none" \/ x.at = "stopping",
         UNCHANGED <<files, job, schedule>>
  PROVE  IInv'
<1>1. /\ proc' \in [Pids -> Shapes]
      /\ proc'[p] = x /\ \A q \in Pids \ {p} : proc'[q] = proc[q]
      /\ \A q \in Pids : Held(proc'[q])
      /\ Exclusion'
  BY MoveKeeps
<1>2. token' = token /\ record' = record /\ gate' = gate /\ job' = job
      /\ enabled' = enabled /\ due' = due /\ ran' = ran
  BY DEF files, schedule
<1>3. ServerTypeOK'
  BY <1>1, <1>2 DEF IInv, ServerTypeOK, Shapes
<1>4. FilesNamed'
  BY <1>1, <1>2 DEF IInv, FilesNamed, At
<1>5. Dreams'
  BY <1>1, <1>2 DEF IInv, Dreams
<1> QED
  BY <1>1, <1>2, <1>3, <1>4, <1>5 DEF IInv

(***************************************************************************)
(* A process ends, of itself or not.                                       *)
(***************************************************************************)
Left(p, x) == [x EXCEPT !.orphan = @ \/ x.parent = p]

LEMMA EndsKeeps ==
  ASSUME IInv, NEW p \in Pids, Exits(p), UNCHANGED schedule
  PROVE  IInv'
<1>1. proc \in [Pids -> Shapes] /\ token \in Secrets /\ record \in Secrets
  BY TypeParts DEF IInv
<1>2. Down \in Shapes /\ Held(Down) /\ Down.refs = {} /\ Down.at = "down"
  BY DEF Down, Shapes, Held
<1>3. ASSUME NEW q \in Pids \ {p}
      PROVE  LET x == Left(p, proc[q])  y == proc[q] IN
               x \in Shapes /\ x.at = y.at /\ x.refs = y.refs /\ x.kind = y.kind /\ x.dir = y.dir
  <2>1. PICK b \in BOOLEAN : Left(p, proc[q]) = [proc[q] EXCEPT !.orphan = b]
    BY Zenon DEF Left
  <2> QED
    BY <1>1, <2>1 DEF Shapes
<1>4. proc'[p] = Down /\ \A q \in Pids \ {p} : proc'[q] = Left(p, proc[q])
  BY Zenon DEF Exits, Left
<1>5. proc' \in [Pids -> Shapes]
  BY <1>2, <1>3, <1>4 DEF Exits
<1>6. \A q \in Pids : Held(proc'[q])
  BY <1>2, <1>3, <1>4 DEF Held, IInv
<1>7. Exclusion'
  BY <1>2, <1>3, <1>4 DEF IInv, Exclusion, Shared
<1>8. /\ token' = EndedOf(token, p) /\ record' = EndedOf(record, p)
      /\ gate' = (IF gate = p THEN None ELSE gate)
      /\ job' = [job EXCEPT ![p] = "none"] /\ enabled' = enabled /\ due' = due /\ ran' = ran
  BY DEF Exits, schedule
<1>9. \A f \in Secrets : EndedOf(f, p) \in Secrets
  BY DEF EndedOf, Secrets, Owned
<1>10. \A q \in Pids \ {p} : EndedOf(Owned(q), p) = Owned(q)
  BY DEF EndedOf, Owned
<1>11. ServerTypeOK'
  BY <1>1, <1>5, <1>8, <1>9, TypeParts DEF IInv, ServerTypeOK, Secrets, Shapes
<1>12. FilesNamed'
  <2>1. \A q \in Pids : At(q, "record")' <=> q # p /\ At(q, "record")
    BY <1>2, <1>3, <1>4 DEF At
  <2>2. \A q \in Pids : At(q, "serving")' <=> q # p /\ At(q, "serving")
    BY <1>2, <1>3, <1>4 DEF At
  <2>3. \A q \in Pids : gate' = q <=> q # p /\ gate = q
    BY <1>8, NoneAssumption
  <2> QED
    BY <2>1, <2>2, <2>3, <1>8, <1>10 DEF IInv, FilesNamed, Owned
<1>13. Dreams'
  BY <1>3, <1>4, <1>8 DEF IInv, Dreams, ServerTypeOK
<1> QED
  BY <1>6, <1>7, <1>8, <1>11, <1>12, <1>13 DEF IInv

(***************************************************************************)
(* The actions.                                                            *)
(***************************************************************************)
LEMMA NotDreaming ==
  ASSUME IInv, NEW p \in Pids, proc[p].at \notin {"serving", "stopping"}
  PROVE  job[p] = "none"
BY DEF IInv, Dreams

LEMMA StartKeeps ==
  ASSUME IInv, NEW p \in Pids,
         \/ \E kind \in Kinds, d \in Dirs : Launch(p, kind, d)
         \/ \E s \in Pids : Spawn(s, p)
  PROVE  IInv'
<1>0. proc \in [Pids -> Shapes]
  BY TypeParts DEF IInv
<1>1. ASSUME NEW x \in Shapes, x.at = "preflight", x.refs = {}, ~Running(p),
             proc' = [proc EXCEPT ![p] = x], UNCHANGED <<files, job, schedule>>
      PROVE  IInv'
  <2>1. Held(x) /\ Admitted(p, x)
    BY <1>1 DEF Held, Admitted
  <2>2. job[p] = "none" /\ proc[p].at = "down"
    BY <1>1, NotDreaming DEF Running
  <2> QED
    BY <1>1, <2>1, <2>2, PlainMove
<1>2. ASSUME NEW kind \in Kinds, NEW d \in Dirs, Launch(p, kind, d) PROVE IInv'
  <2> DEFINE x == [Down EXCEPT !.kind = kind, !.at = "preflight", !.dir = d]
  <2>1. x \in Shapes /\ x.at = "preflight" /\ x.refs = {}
    BY KindsAssumption DEF Down, Shapes
  <2> QED
    BY <1>1, <1>2, <2>1 DEF Launch
<1>3. ASSUME NEW s \in Pids, Spawn(s, p) PROVE IInv'
  <2> DEFINE k == IF proc[s].kind = "multi" THEN "worker" ELSE "reloaded"
             x == [Down EXCEPT !.kind = k, !.at = "preflight", !.dir = proc[s].dir, !.parent = s]
  <2>1. k \in {"worker", "reloaded"}
    OBVIOUS
  <2>2. proc' = [proc EXCEPT ![p] = x] /\ ~Running(p) /\ UNCHANGED <<files, job, schedule>>
    BY <1>3 DEF Spawn
  <2> HIDE DEF k
  <2>3. x \in Shapes /\ x.at = "preflight" /\ x.refs = {}
    BY <1>0, <2>1 DEF Down, Shapes
  <2> QED
    BY <1>1, <2>2, <2>3
<1> QED
  BY <1>2, <1>3

LEMMA RefusedKeeps ==
  ASSUME IInv, NEW p \in Pids, Refused(p), proc[p].at \in {"preflight", "imported"},
         UNCHANGED schedule
  PROVE  IInv'
<1>1. CASE Parks(p)
  <2> DEFINE x == [proc[p] EXCEPT !.at = "parked"]
  <2>1. proc[p] \in Shapes /\ Held(proc[p])
    BY TypeParts DEF IInv
  <2>2. /\ x \in Shapes /\ x.at = "parked" /\ x.refs = proc[p].refs /\ x.kind = "worker"
        /\ x.dir = proc[p].dir /\ x.kind = proc[p].kind
    BY <1>1, <2>1 DEF Parks, Shapes
  <2>3. proc' = [proc EXCEPT ![p] = x] /\ UNCHANGED <<files, job>>
    BY <1>1 DEF Refused, Go
  <2> HIDE DEF x
  <2>4. Held(x) /\ Admitted(p, x)
    BY <2>2 DEF Held, Admitted
  <2> QED
    BY <2>2, <2>3, <2>4, NotDreaming, PlainMove
<1>2. CASE ~Parks(p)
  BY <1>2, EndsKeeps DEF Refused
<1> QED
  BY <1>1, <1>2

LEMMA ImportKeeps ==
  ASSUME IInv, NEW p \in Pids, Preflight(p) \/ Build(p) \/ Claim(p) \/ Use(p)
  PROVE  IInv'
<1>0. proc[p] \in Shapes /\ Held(proc[p])
  BY TypeParts DEF IInv
\* p goes on, with references that it has or was granted.
<1>1. ASSUME NEW a \in {"build", "supervise", "imported", "claimed", "using"},
             NEW kept \in SUBSET {"import", "serve"},
             proc[p].at \in {"preflight", "build", "imported"},
             LET x == [proc[p] EXCEPT !.at = a, !.refs = kept] IN
               /\ proc' = [proc EXCEPT ![p] = x]
               /\ Held(x)
               /\ Admitted(p, x),
             UNCHANGED <<files, job, schedule>>
      PROVE  IInv'
  <2> DEFINE x == [proc[p] EXCEPT !.at = a, !.refs = kept]
  <2>1. x \in Shapes /\ x.at = a
    BY <1>0 DEF Shapes
  <2>2. proc' = [proc EXCEPT ![p] = x] /\ Held(x) /\ Admitted(p, x)
    BY <1>1
  <2> HIDE DEF x
  <2> QED
    BY <1>1, <2>1, <2>2, NotDreaming, PlainMove
<1>2. ASSUME NEW r \in {"local", "server"}, Free(p, r),
             r = "local" => proc[p].kind = "local",
             NEW x, x.dir = proc[p].dir, x.kind = proc[p].kind
      PROVE  Admitted(p, x)
  BY <1>2, FreeMeans DEF Admitted, Shared
<1>3. CASE Preflight(p)
  <2> DEFINE x == [proc[p] EXCEPT !.at = "build", !.refs = {"import"}]
  <2>1. /\ x.at = "build" /\ x.refs = {"import"} /\ x.kind = proc[p].kind /\ x.dir = proc[p].dir
        /\ proc[p].at = "preflight" /\ proc[p].kind \notin {"local", "maintenance"}
        /\ UNCHANGED schedule
    BY <1>0, <1>3 DEF Shapes, Preflight, At
  <2>2. CASE Free(p, "server")
    <3>1. proc' = [proc EXCEPT ![p] = x] /\ UNCHANGED <<files, job>>
      BY <1>3, <2>2 DEF Preflight
    <3>2. Held(x) /\ Admitted(p, x)
      BY <1>2, <2>1, <2>2 DEF Held
    <3> QED
      BY <1>1, <2>1, <3>1, <3>2
  <2>3. CASE ~Free(p, "server")
    BY <1>3, <2>1, <2>3, RefusedKeeps DEF Preflight
  <2> QED
    BY <2>2, <2>3
<1>4. CASE Build(p)
  <2>1. proc[p].at = "build" /\ UNCHANGED schedule
    BY <1>4 DEF Build, At
  <2>2. CASE Exits(p)
    BY <2>1, <2>2, EndsKeeps
  <2>3. CASE ~Exits(p)
    <3> DEFINE a == IF proc[p].kind \in {"multi", "reload"} THEN "supervise" ELSE "imported"
               kept == IF Retains(p) THEN proc[p].refs ELSE {}
               x == [proc[p] EXCEPT !.at = a, !.refs = kept]
    <3>1. proc' = [proc EXCEPT ![p] = x] /\ UNCHANGED <<files, job>>
      BY <1>4, <2>3 DEF Build
    <3>2. /\ a \in {"supervise", "imported"} /\ kept \in SUBSET {"import", "serve"}
          /\ a = "supervise" => kept = {}
          /\ a = "imported" /\ proc[p].kind \in {"direct", "worker", "reloaded"} => kept # {}
          /\ kept \in {{}, proc[p].refs}
      BY <1>0, <2>1 DEF Retains, Held, Shapes
    <3> HIDE DEF a, kept
    <3>3. x.at = a /\ x.refs = kept /\ x.kind = proc[p].kind /\ x.dir = proc[p].dir
      BY <1>0 DEF Shapes
    <3>4. Held(x) /\ Admitted(p, x)
      BY <1>0, <2>1, <3>2, <3>3 DEF Held, Admitted
    <3> QED
      BY <1>1, <2>1, <3>1, <3>2, <3>4
  <2> QED
    BY <2>2, <2>3
<1>5. CASE Claim(p)
  <2> DEFINE x == [proc[p] EXCEPT !.at = "claimed", !.refs = {"serve"}]
  <2>1. /\ x.at = "claimed" /\ x.refs = {"serve"} /\ x.kind = proc[p].kind /\ x.dir = proc[p].dir
        /\ proc[p].at = "imported" /\ UNCHANGED schedule
    BY <1>0, <1>5 DEF Shapes, Claim, At
  <2>2. CASE Free(p, "server")
    <3>1. proc' = [proc EXCEPT ![p] = x] /\ UNCHANGED <<files, job>>
      BY <1>5, <2>2 DEF Claim
    <3>2. Held(x) /\ Admitted(p, x)
      BY <1>0, <1>2, <2>1, <2>2 DEF Held
    <3> QED
      BY <1>1, <2>1, <3>1, <3>2
  <2>3. CASE ~Free(p, "server")
    BY <1>5, <2>1, <2>3, RefusedKeeps DEF Claim
  <2> QED
    BY <2>2, <2>3
<1>6. CASE Use(p)
  <2> DEFINE x == [proc[p] EXCEPT !.at = "using", !.refs = {"serve"}]
             r == IF proc[p].kind = "local" THEN "local" ELSE "server"
  <2>1. /\ x.at = "using" /\ x.refs = {"serve"} /\ x.kind = proc[p].kind /\ x.dir = proc[p].dir
        /\ proc[p].at = "preflight" /\ proc[p].kind \in {"local", "maintenance"}
        /\ UNCHANGED schedule
    BY <1>0, <1>6 DEF Shapes, Use, At
  <2>2. CASE Free(p, r)
    <3>1. proc' = [proc EXCEPT ![p] = x] /\ UNCHANGED <<files, job>>
      BY <1>6, <2>2 DEF Use
    <3>2. Held(x) /\ Admitted(p, x)
      BY <1>2, <2>1, <2>2 DEF Held
    <3> QED
      BY <1>1, <2>1, <3>1, <3>2
  <2>3. CASE ~Free(p, r)
    BY <1>6, <2>1, <2>3, EndsKeeps DEF Use
  <2> QED
    BY <2>2, <2>3
<1> QED
  BY <1>3, <1>4, <1>5, <1>6

LEMMA FilesKeep ==
  ASSUME IInv, NEW p \in Pids, WriteToken(p) \/ WriteRecord(p)
  PROVE  IInv'
<1>0. proc[p] \in Shapes /\ Held(proc[p]) /\ job \in [Pids -> {"none", "due", "failed"}]
      /\ token \in Secrets /\ record \in Secrets
  BY TypeParts DEF IInv
\* p goes on to step a with the references that it has.
<1>1. ASSUME NEW a \in {"record", "serving", "stopping"}, proc' = [proc EXCEPT ![p].at = a],
             proc[p].at \in {"claimed", "record"}
      PROVE  /\ proc' \in [Pids -> Shapes] /\ proc'[p].at = a
             /\ \A q \in Pids \ {p} : proc'[q] = proc[q]
             /\ \A q \in Pids : Held(proc'[q])
             /\ Exclusion'
  <2> DEFINE x == [proc[p] EXCEPT !.at = a]
  <2>1. /\ x \in Shapes /\ x.at = a /\ x.refs = proc[p].refs /\ x.kind = proc[p].kind
        /\ x.dir = proc[p].dir
    BY <1>0 DEF Shapes
  <2>2. proc' = [proc EXCEPT ![p] = x]
    BY <1>1
  <2> HIDE DEF x
  <2>3. Held(x) /\ Admitted(p, x)
    BY <1>0, <1>1, <2>1 DEF Held, Admitted
  <2> QED
    BY <2>1, <2>2, <2>3, MoveKeeps
<1>2. Owned(p) \in Secrets
  BY OwnedIsSecret
<1>3. job[p] = "none" /\ UNCHANGED <<job, schedule>> /\ proc[p].at \in {"claimed", "record"}
  BY NotDreaming DEF WriteToken, WriteRecord, At
<1>4. job' = job /\ enabled' = enabled /\ due' = due /\ ran' = ran
  BY <1>3 DEF schedule
<1>5. CASE WriteToken(p) /\ ~(gate = None /\ Replaceable)
  <2>1. token' = token /\ record' = record /\ gate' = gate
        /\ proc' = [proc EXCEPT ![p].at = "stopping"]
    BY <1>5 DEF WriteToken, Go
  <2>2. proc[p].at = "claimed"
    BY <1>5 DEF WriteToken, At, Go
  <2>0. /\ proc' \in [Pids -> Shapes] /\ proc'[p].at = "stopping"
        /\ \A q \in Pids \ {p} : proc'[q] = proc[q]
        /\ \A q \in Pids : Held(proc'[q])
        /\ Exclusion'
    BY <1>1, <2>1, <2>2
  <2>3. ServerTypeOK'
    BY <2>0, <1>4, <1>5, <2>1, <2>2, TypeParts DEF IInv, ServerTypeOK, Secrets, Shapes
  <2>4. FilesNamed'
    BY <2>0, <1>4, <1>5, <2>1, <2>2 DEF IInv, FilesNamed, At
  <2>5. Dreams'
    BY <2>0, <1>3, <1>4, <1>5, <2>2 DEF IInv, Dreams
  <2> QED
    BY <2>0, <1>4, <1>5, <2>2, <2>3, <2>4, <2>5 DEF IInv
<1>6. CASE WriteToken(p) /\ gate = None /\ Replaceable
  <2>1. /\ gate = None /\ Replaceable /\ gate' = p /\ token' = Owned(p) /\ record' = record
        /\ proc' = [proc EXCEPT ![p].at = "record"] /\ proc[p].at = "claimed"
    BY <1>6 DEF WriteToken, At, Go
  <2>0. /\ proc' \in [Pids -> Shapes] /\ proc'[p].at = "record"
        /\ \A q \in Pids \ {p} : proc'[q] = proc[q]
        /\ \A q \in Pids : Held(proc'[q])
        /\ Exclusion'
    BY <1>1, <2>1
  <2>2. \A q \in Pids : proc[q].at \notin {"record", "serving"}
    <3> SUFFICES ASSUME NEW q \in Pids, proc[q].at \in {"record", "serving"} PROVE FALSE
      OBVIOUS
    <3>1. proc[q].at # "record"
      BY <2>1, NoneAssumption DEF IInv, FilesNamed, At
    <3>2. record = Owned(q) /\ Running(q)
      BY <3>1 DEF IInv, FilesNamed, At, Running
    <3>3. record # None /\ record.pid = q
      BY <3>2, OwnedParts, OwnedIsSecret
    <3> QED
      BY <2>1, <3>2, <3>3 DEF Replaceable
  <2>3. ServerTypeOK'
    BY <1>0, <2>0, <1>2, <1>4, <2>1, TypeParts DEF IInv, ServerTypeOK, Secrets, Shapes
  <2>4. FilesNamed'
    BY <2>0, <2>1, <2>2 DEF FilesNamed, At
  <2>5. Dreams'
    BY <2>0, <1>3, <1>4, <2>1 DEF IInv, Dreams
  <2> QED
    BY <2>0, <1>4, <2>1, <2>3, <2>4, <2>5 DEF IInv
<1>7. CASE WriteRecord(p)
  <2>1. PICK a \in {"serving", "stopping"} :
          /\ proc' = [proc EXCEPT ![p].at = a] /\ gate' = None /\ proc[p].at = "record"
          /\ a = "serving" => record' = Owned(p) /\ token' = token
          /\ a = "stopping" => record' = record /\ token' = None
    BY <1>7 DEF WriteRecord, At, Go
  <2>0. /\ proc' \in [Pids -> Shapes] /\ proc'[p].at = a
        /\ \A q \in Pids \ {p} : proc'[q] = proc[q]
        /\ \A q \in Pids : Held(proc'[q])
        /\ Exclusion'
    BY <1>1, <2>1
  <2>2. gate = p /\ token = Owned(p)
    BY <2>1 DEF IInv, FilesNamed, At
  <2>3. \A q \in Pids \ {p} : proc[q].at # "record" /\ proc[q].at # "serving"
    <3> SUFFICES ASSUME NEW q \in Pids \ {p} PROVE proc[q].at # "record" /\ proc[q].at # "serving"
      OBVIOUS
    <3>1. Owned(q) # Owned(p)
      BY OwnedDiffer
    <3> QED
      BY <2>2, <3>1 DEF IInv, FilesNamed, At
  <2>4. ServerTypeOK'
    BY <1>0, <2>0, <1>2, <1>4, <2>1, TypeParts DEF IInv, ServerTypeOK, Secrets, Shapes
  <2>5. FilesNamed'
    BY <2>0, <2>1, <2>2, <2>3, NoneAssumption DEF FilesNamed, At
  <2>6. Dreams'
    BY <2>0, <1>3, <1>4, <2>1 DEF IInv, Dreams
  <2> QED
    BY <2>0, <1>4, <2>1, <2>4, <2>5, <2>6 DEF IInv
<1> QED
  BY <1>5, <1>6, <1>7

LEMMA CleanUpKeeps ==
  ASSUME IInv, NEW p \in Pids, CleanUp(p)
  PROVE  IInv'
<1>1. CASE Exits(p)
  BY <1>1, EndsKeeps DEF CleanUp
<1>2. CASE ~Exits(p)
  <2>1. /\ proc[p].at = "cleanup" /\ proc' = [proc EXCEPT ![p] = Down]
        /\ token' = (IF token = Owned(p) THEN None ELSE token)
        /\ record' = (IF record = Owned(p) THEN None ELSE record)
        /\ gate' = gate /\ job' = job /\ enabled' = enabled /\ due' = due /\ ran' = ran
    BY <1>2 DEF CleanUp, At, schedule
  <2>2. Down \in Shapes /\ Held(Down) /\ Admitted(p, Down) /\ Down.at = "down"
    BY DEF Down, Shapes, Held, Admitted
  <2>3. /\ proc' \in [Pids -> Shapes]
        /\ proc'[p] = Down /\ \A q \in Pids \ {p} : proc'[q] = proc[q]
        /\ \A q \in Pids : Held(proc'[q])
        /\ Exclusion'
    BY <2>1, <2>2, MoveKeeps
  <2>4. ServerTypeOK'
    BY <2>1, <2>3, TypeParts DEF IInv, ServerTypeOK, Secrets, Shapes
  <2>5. \A q \in Pids \ {p} : Owned(q) # Owned(p)
    BY OwnedDiffer
  <2>6. FilesNamed'
    <3>1. \A q \in Pids : proc'[q].at \in {"record", "serving"} => q # p
      BY <2>2, <2>3
    <3>2. gate # p
      BY <2>1 DEF IInv, FilesNamed, At
    <3> QED
      BY <2>1, <2>2, <2>3, <2>5, <3>1, <3>2 DEF IInv, FilesNamed, At
  <2>7. Dreams'
    BY <2>1, <2>3, NotDreaming DEF IInv, Dreams
  <2> QED
    BY <2>1, <2>3, <2>4, <2>6, <2>7 DEF IInv
<1> QED
  BY <1>1, <1>2

LEMMA StopKeeps ==
  ASSUME IInv, NEW p \in Pids, Stop(p) \/ Release(p)
  PROVE  IInv'
<1>0. proc[p] \in Shapes /\ Held(proc[p])
  BY TypeParts DEF IInv
<1>1. CASE Stop(p)
  <2> DEFINE x == [proc[p] EXCEPT !.at = "stopping"]
  <2>1. /\ x \in Shapes /\ x.at = "stopping" /\ x.refs = proc[p].refs /\ x.kind = proc[p].kind
        /\ x.dir = proc[p].dir
    BY <1>0 DEF Shapes
  <2>2. proc' = [proc EXCEPT ![p] = x] /\ proc[p].at = "serving"
        /\ UNCHANGED <<files, job, schedule>>
    BY <1>1 DEF Stop, Go, At
  <2> HIDE DEF x
  <2>3. Held(x) /\ Admitted(p, x)
    BY <1>0, <2>1, <2>2 DEF Held, Admitted
  <2> QED
    BY <2>1, <2>2, <2>3, PlainMove
<1>2. CASE Release(p)
  <2> DEFINE x == [proc[p] EXCEPT !.at = "cleanup", !.refs = {}]
  <2>1. x \in Shapes /\ x.at = "cleanup" /\ x.refs = {} /\ x.kind = proc[p].kind
    BY <1>0 DEF Shapes
  <2>2. /\ proc' = [proc EXCEPT ![p] = x] /\ proc[p].at = "stopping" /\ job[p] = "none"
        /\ UNCHANGED <<files, job, schedule>>
    BY <1>2 DEF Release, At
  <2> HIDE DEF x
  <2>3. Held(x) /\ Admitted(p, x)
    BY <1>0, <2>1, <2>2 DEF Held, Admitted
  <2> QED
    BY <2>1, <2>2, <2>3, PlainMove
<1> QED
  BY <1>1, <1>2

LEMMA DreamKeeps ==
  ASSUME IInv,
         \/ \E p \in Pids : Dream(p)
         \/ \E on \in BOOLEAN : Configure(on)
         \/ TimePasses
  PROVE  IInv'
<1>0. ran \in 0 .. 1 /\ due \in BOOLEAN /\ enabled \in BOOLEAN
      /\ job \in [Pids -> {"none", "due", "failed"}]
  BY TypeParts DEF IInv
<1>1. proc' = proc /\ token' = token /\ record' = record /\ gate' = gate
  BY DEF Dream, Poll, Cycle, RecordFailure, Configure, TimePasses, files
<1>2. /\ job' \in [Pids -> {"none", "due", "failed"}]
      /\ \A q \in Pids : job'[q] # "none" => job[q] # "none" \/ At(q, "serving")
  BY <1>0 DEF Dream, Poll, Cycle, RecordFailure, Configure, TimePasses
<1>3. due' \in BOOLEAN /\ enabled' \in BOOLEAN
  BY <1>0 DEF Dream, Poll, Cycle, RecordFailure, Configure, TimePasses, schedule
<1>4. ran' \in 0 .. 1 /\ (due' => ran' = 0)
  BY <1>0 DEF Dream, Poll, Cycle, RecordFailure, Configure, TimePasses, schedule, IInv
<1>5. ServerTypeOK'
  BY <1>1, <1>2, <1>3, <1>4 DEF IInv, ServerTypeOK
<1>6. FilesNamed' /\ Exclusion' /\ \A q \in Pids : Held(proc'[q])
  BY <1>1 DEF IInv, FilesNamed, Exclusion, At
<1>7. Dreams'
  BY <1>1, <1>2 DEF IInv, Dreams, At
<1> QED
  BY <1>4, <1>5, <1>6, <1>7 DEF IInv

(***************************************************************************)
(* The specification.                                                      *)
(***************************************************************************)
LEMMA InitHolds == ServerInit => IInv
<1> SUFFICES ASSUME ServerInit PROVE IInv
  OBVIOUS
<1>1. Down \in Shapes /\ Held(Down) /\ Down.refs = {} /\ Down.at = "down"
  BY DEF Down, Shapes, Held
<1>2. /\ \A p \in Pids : proc[p] = Down /\ job[p] = "none"
      /\ proc \in [Pids -> Shapes] /\ job \in [Pids -> {"none", "due", "failed"}]
  BY <1>1 DEF ServerInit
<1>3. ServerTypeOK
  <2>1. token \in Secrets /\ record \in Secrets /\ gate \in Pids \cup {None} /\ ran \in 0 .. 1
    BY DEF ServerInit, Secrets
  <2>2. enabled \in BOOLEAN /\ due \in BOOLEAN
    BY DEF ServerInit
  <2> QED
    BY <1>2, <2>1, <2>2, TypeParts
<1>4. Exclusion /\ Dreams
  BY <1>1, <1>2 DEF Exclusion, Shared, Dreams
<1>5. FilesNamed
  BY <1>1, <1>2, NoneAssumption DEF ServerInit, FilesNamed, At
<1> QED
  BY <1>1, <1>2, <1>3, <1>4, <1>5 DEF IInv, ServerInit

LEMMA StepKeeps == IInv /\ [ServerNext]_serverVars => IInv'
<1> SUFFICES ASSUME IInv, [ServerNext]_serverVars PROVE IInv'
  OBVIOUS
<1>1. CASE UNCHANGED serverVars
  <2>1. /\ proc' = proc /\ token' = token /\ record' = record /\ gate' = gate /\ job' = job
        /\ enabled' = enabled /\ due' = due /\ ran' = ran
    BY <1>1 DEF serverVars, files, schedule
  <2> QED
    BY <2>1 DEF IInv, ServerTypeOK, Exclusion, FilesNamed, Dreams, At
<1>2. ASSUME NEW p \in Pids, ServerStep(p) PROVE IInv'
  BY <1>2, ImportKeeps, FilesKeep, StopKeeps, CleanUpKeeps, EndsKeeps DEF ServerStep, Leave
<1>3. CASE Environment
  <2>1. ASSUME NEW p \in Pids,
               \/ \E kind \in Kinds, d \in Dirs : Launch(p, kind, d)
               \/ \E s \in Pids : Spawn(s, p)
        PROVE  IInv'
    BY <2>1, StartKeeps
  <2>2. ASSUME NEW p \in Pids, Stop(p) PROVE IInv'
    BY <2>2, StopKeeps
  <2>3. ASSUME NEW p \in Pids, Terminate(p) \/ StopSupervisor(p) \/ Finish(p) \/ Kill(p)
        PROVE  IInv'
    BY <2>3, EndsKeeps DEF Terminate, StopSupervisor, Finish, Kill
  <2>4. CASE (\E on \in BOOLEAN : Configure(on)) \/ TimePasses
    BY <2>4, DreamKeeps
  <2> QED
    BY <1>3, <2>1, <2>2, <2>3, <2>4 DEF Environment
<1>4. ASSUME NEW p \in Pids, Dream(p) PROVE IInv'
  BY <1>4, DreamKeeps
<1> QED
  BY <1>1, <1>2, <1>3, <1>4 DEF ServerNext

LEMMA Invariant == ServerSpec => []IInv
BY InitHolds, StepKeeps, PTL DEF ServerSpec

\* Every reachable state is well typed: next_run never stands for more than one cycle.
THEOREM ServersTypeCorrect == ServerSpec => []ServerTypeOK
<1>1. IInv => ServerTypeOK
  BY DEF IInv
<1> QED
  BY <1>1, Invariant, PTL

\* preflight_server_role and claim_server_role (server/writer_role.py): however many servers,
\* supervisors, workers, local processes and maintenance share the machine, and wherever they are
\* killed, no two of them work on one data directory but local ones, from the import of a server to
\* the close of its storage.
THEOREM DirectoriesExclusive == ServerSpec => []OneWriter
<1>1. IInv => OneWriter
  <2> SUFFICES ASSUME IInv PROVE OneWriter
    OBVIOUS
  <2>1. \A p \in Pids : Held(proc[p])
    BY DEF IInv
  <2>2. \A p \in Pids : Writes(p) => proc[p].refs # {}
    BY <2>1 DEF Writes, Held
  <2>3. \A p \in Pids : job[p] # "none" => Writes(p)
    BY DEF IInv, Dreams, Writes
  <2> QED
    BY <2>2, <2>3 DEF IInv, Exclusion, Shared, OneWriter
<1> QED
  BY <1>1, Invariant, PTL

\* claim_server_role: a process that serves in the way the import foresaw is never refused
\* between its import and its lifespan.
THEOREM ClaimGranted == ServerSpec => []NoGap
<1>1. IInv => NoGap
  <2> SUFFICES ASSUME IInv, NEW p \in Pids, At(p, "imported"),
                      proc[p].kind \in {"direct", "worker", "reloaded"}
               PROVE  Free(p, "server")
    BY DEF NoGap
  <2>1. proc[p].refs # {} /\ proc[p].kind # "local"
    BY DEF IInv, Held, At
  <2> QED
    BY <2>1, HeldIsFree DEF IInv
<1> QED
  BY <1>1, Invariant, PTL

\* write_owner_token_files and cleanup_owner_token_files (server/owner_token.py): a server that
\* serves finds its own secret and its own record, though others write and clean up the same
\* files, are killed between the two, and get the pids of those that ended.
THEOREM FilesNameServer == ServerSpec => []TokenNamesServer
<1>1. IInv => TokenNamesServer
  BY DEF IInv, FilesNamed, TokenNamesServer
<1> QED
  BY <1>1, Invariant, PTL

\* run(scheduled=True) (server/dreaming.py): no cycle but for a next_run that has come, and one only
\* for each, in whichever order the servers that found it due get to it.
THEOREM CyclesScheduled == ServerSpec => OneCyclePerDue
<1>1. IInv /\ [ServerNext]_serverVars => [ran' > ran => enabled /\ due /\ ran = 0]_serverVars
  <2> SUFFICES ASSUME IInv, ServerNext, ran' > ran PROVE enabled /\ due /\ ran = 0
    BY DEF serverVars
  <2>1. ran \in 0 .. 1
    BY TypeParts DEF IInv
  <2>2. ASSUME NEW p \in Pids, ServerStep(p) PROVE ran' = ran
    BY <2>2 DEF ServerStep, Preflight, Build, Claim, WriteToken, WriteRecord, Release, CleanUp, Leave,
                Use, schedule
  <2>3. CASE Environment
    <3>1. ran' = ran \/ ran' = 0
      BY <2>3 DEF Environment, Launch, Stop, Terminate, StopSupervisor, Finish, Kill, Spawn,
                  Configure, TimePasses, schedule
    <3> QED
      BY <2>1, <3>1
  <2>4. ASSUME NEW p \in Pids, Dream(p) PROVE enabled /\ due /\ ran = 0
    <3>1. enabled /\ due
      BY <2>1, <2>4 DEF Dream, Poll, Cycle, RecordFailure, schedule
    <3> QED
      BY <3>1, <2>1 DEF IInv
  <2> QED
    BY <2>1, <2>2, <2>3, <2>4 DEF ServerNext
<1> QED
  BY <1>1, Invariant, PTL DEF ServerSpec, OneCyclePerDue
=============================================================================
