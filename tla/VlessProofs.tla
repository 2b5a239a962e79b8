----------------------------- MODULE VlessProofs -----------------------------
(***************************************************************************)
(* Theorems about a VLESS source, for every number of tunnels, edits,      *)
(* failed or lost calls and restarts: its types, the exclusion the target  *)
(* lock gives, where a second copy of a tunnel can come from, what saved   *)
(* hashes stand for, that no two inbounds share a port, and, while no call *)
(* fails, that memory and Xray agree and that no drift is seen where there *)
(* is none.                                                                *)
(***************************************************************************)
EXTENDS VlessSource, TargetProofs

-----------------------------------------------------------------------------
(* Types and lock.                                                         *)

(* A step of the sync (syncPlans, syncer.go) moves the sync and treats the *)
(* lock as its own.                                                        *)
LEMMA SyncMoves ==
  ASSUME PcTypeOK, SyncStep
  PROVE  Moving(Sync)
<1> USE ProcFacts DEF Moving, Moves, Mutating, At, Goto, Unlock, LockTarget, Labels, FreePC, ApplyPC
<1>1. CASE SyncStart
  BY <1>1 DEF SyncStart
<1>2. CASE DriftCheck
  BY <1>2 DEF DriftCheck
<1>3. CASE ApplyBegin
  BY <1>3 DEF ApplyBegin
<1>4. CASE Commit
  BY <1>4 DEF Commit
<1> QED
  BY <1>1, <1>2, <1>3, <1>4, ApplyMoves DEF SyncStep

(* A step of a worker moves it and treats the lock as its own.             *)
LEMMA WorkerMoves ==
  ASSUME PcTypeOK, NEW w \in Tunnels, WorkerStep(w)
  PROVE  Moving(w)
  BY CheckMoves, RepairMoves, RejoinMoves DEF WorkerStep

(* The ports of a subscription fit into the range.                         *)
LEMMA PortsFit ==
  ASSUME NEW S \in SUBSET Tunnels
  PROVE  PortsOf(S) \in [Tunnels -> Ports \cup {0}]
<1>1. ASSUME NEW t \in Tunnels
      PROVE  Cardinality(S \cap 1..t) \in Ports \cup {0}
  <2>1. IsFiniteSet(Tunnels) /\ Cardinality(Tunnels) = N
    BY XrayAssumption, FS_Interval DEF Tunnels
  <2>2. S \cap 1..t \subseteq Tunnels
    OBVIOUS
  <2>3. Cardinality(S \cap 1..t) \in Nat /\ Cardinality(S \cap 1..t) <= N
    BY <2>1, <2>2, FS_Subset, FS_CardinalityType
  <2> QED
    BY <2>3, XrayAssumption DEF Ports
<1> QED
  BY <1>1 DEF PortsOf

(* A step of the sync (syncPlans, syncer.go) keeps every type.             *)
LEMMA SyncTypes ==
  ASSUME TypeOK, SyncStep
  PROVE  TargetTypeOK'
<1> USE DEF TypeOK, TargetTypeOK
<1>0. Sync \in Procs /\ Moving(Sync)
  BY SyncMoves, ProcFacts DEF CtlTypeOK, PcTypeOK
<1>1. CASE SyncStart
  <2>1. XrayTypeOK' /\ MemTypeOK' /\ TickTypeOK' /\ grant' \subseteq Procs
    BY <1>1 DEF SyncStart, XrayTypeOK, MemTypeOK, TickTypeOK, CtlTypeOK, xrayVars, memVars, tickVars
  <2>2. SyncTypeOK'
    BY <1>1, PortsFit DEF SyncStart, SyncTypeOK
  <2> QED
    BY <1>0, <2>1, <2>2, MovingTypes
<1>2. CASE DriftCheck
  <2>1. XrayTypeOK' /\ grant' \subseteq Procs
    BY <1>2, RpcTypes DEF DriftCheck, Calls, CtlTypeOK
  <2> QED
    BY <1>0, <1>2, <2>1, QuietTypes DEF DriftCheck
<1>3. CASE ApplyBegin
  <2>1. XrayTypeOK' /\ grant' \subseteq Procs
    BY <1>3, RpcTypes DEF ApplyBegin, Calls, CtlTypeOK
  <2>2. MemTypeOK' /\ TickTypeOK' /\ SyncTypeOK'
    BY <1>3 DEF ApplyBegin, MemTypeOK, TickTypeOK, SyncTypeOK, memVars, tickVars
  <2> QED
    BY <1>0, <2>1, <2>2, MovingTypes
<1>4. CASE Commit
  <2>1. XrayTypeOK' /\ TickTypeOK' /\ SyncTypeOK' /\ grant' \subseteq Procs
    BY <1>4 DEF Commit, XrayTypeOK, TickTypeOK, SyncTypeOK, CtlTypeOK, xrayVars, tickVars
  <2>2. MemTypeOK'
    BY <1>4, InitialType DEF Commit, MemTypeOK, SyncTypeOK, memVars
  <2> QED
    BY <1>0, <2>1, <2>2, MovingTypes
<1> QED
  BY <1>1, <1>2, <1>3, <1>4, ApplyTypes DEF SyncStep

(* A restart of Xray or of scd keeps every type.                           *)
LEMMA RestartTypes ==
  ASSUME TypeOK, Restart
  PROVE  TypeOK'
<1> USE DEF TypeOK, TargetTypeOK
<1>1. NoPorts \in [Tunnels -> Ports \cup {0}]
  BY DEF NoPorts
<1>2. faults' \in 0..MaxFaults
  BY XrayAssumption DEF Restart, RestartXray, RestartScd, Fault, XrayTypeOK
<1>3. CASE RestartXray /\ UNCHANGED <<memVars, lock, pc, grant, syncVars, tickVars>>
  BY <1>1, <1>2, <1>3 DEF Restart, RestartXray, XrayTypeOK, MemTypeOK, CtlTypeOK, SyncTypeOK,
     TickTypeOK, memVars, syncVars, tickVars
<1>4. CASE RestartScd
  <2>1. XrayTypeOK' /\ CtlTypeOK'
    BY <1>2, <1>4 DEF RestartScd, XrayTypeOK, CtlTypeOK, Labels, FreePC
  <2>2. MemTypeOK'
    BY <1>1, <1>4, InitialType DEF RestartScd, MemTypeOK
  <2>3. SyncTypeOK'
    BY <1>1, <1>4 DEF RestartScd, SyncTypeOK
  <2>4. TickTypeOK'
    BY <1>1, <1>4 DEF RestartScd, TickTypeOK
  <2> QED
    BY <2>1, <2>2, <2>3, <2>4 DEF Restart
<1> QED
  BY <1>3, <1>4 DEF Restart

(* Every step keeps the types.                                             *)
LEMMA TypeKept ==
  ASSUME TypeOK, [Next]_vars
  PROVE  TypeOK'
<1>1. CASE SyncStep /\ intact' = (intact \/ At(Sync, "out-list")) /\ UNCHANGED <<file, edits>>
  BY <1>1, SyncTypes DEF TypeOK
<1>2. CASE (TickStart \/ \E w \in Tunnels : WorkerStep(w)) /\ UNCHANGED <<file, edits, intact>>
  BY <1>2, TickTypes, CheckTypes, RepairTypes, RejoinTypes DEF WorkerStep, TypeOK
<1>3. CASE Restart
  BY <1>3, RestartTypes
<1>4. CASE Edit
  <2>1. TargetTypeOK'
    BY <1>4 DEF Edit, TypeOK, TargetTypeOK, XrayTypeOK, MemTypeOK, CtlTypeOK, SyncTypeOK, TickTypeOK,
       targetVars, xrayVars, memVars, syncVars, tickVars
  <2> QED
    BY <1>4, <2>1, VlessAssumption DEF Edit, TypeOK
<1>5. CASE UNCHANGED vars
  BY <1>5 DEF TypeOK, TargetTypeOK, XrayTypeOK, MemTypeOK, CtlTypeOK, SyncTypeOK, TickTypeOK,
     vars, targetVars, xrayVars, memVars, syncVars, tickVars
<1> QED
  BY <1>1, <1>2, <1>3, <1>4, <1>5 DEF Next

(* The types hold when scd starts.                                         *)
LEMMA TypeInit == Init => TypeOK
<1> SUFFICES ASSUME Init PROVE TypeOK
  OBVIOUS
<1>1. NoPorts \in [Tunnels -> Ports \cup {0}]
  BY DEF NoPorts
<1>2. XrayTypeOK /\ CtlTypeOK
  BY <1>1, XrayAssumption DEF Init, TargetInit, XrayInit, XrayTypeOK, CtlTypeOK, Labels, FreePC
<1>3. MemTypeOK
  BY <1>1, InitialType DEF Init, TargetInit, MemTypeOK
<1>4. SyncTypeOK
  BY <1>1 DEF Init, TargetInit, SyncTypeOK
<1>5. TickTypeOK
  BY <1>1, TargetAssumption DEF Init, TargetInit, TickTypeOK
<1> QED
  BY <1>2, <1>3, <1>4, <1>5, VlessAssumption DEF Init, TypeOK, TargetTypeOK

(* Every reachable state of a VLESS source has its type: in particular the *)
(* ports of every topology, plan and inbound lie in the port range.        *)
THEOREM TypeCorrect == Spec => []TypeOK
<1>1. Init => TypeOK
  BY TypeInit
<1>2. TypeOK /\ [Next]_vars => TypeOK'
  BY TypeKept
<1> QED
  BY <1>1, <1>2, PTL DEF Spec

-----------------------------------------------------------------------------
(* Two copies of a tunnel.  A process adds an outbound only where the      *)
(* other one of the tunnel is known to be gone.  Each part below is about  *)
(* labels inside the critical section, so only the holder of the lock can  *)
(* disturb its own.                                                        *)

(* Worker w: what it knows of its tunnel on the way to an add.             *)
WorkerKnows(w) ==
  /\ pc[w] \in RepairPC => port[w] # 0 /\ cur[w] = Initial
  /\ pc[w] \in {"rejoin-rm-rule", "rejoin-rm-out"} => cur[w] # Initial
  /\ pc[w] \in {"repair-add", "rejoin-undo-add"} /\ Prefixed => <<w, Initial>> \notin outs
  /\ pc[w] = "rejoin-add" => <<w, "bare">> \notin outs

(* The sync: everything it has listed is still to remove, then only what   *)
(* it added itself is there.                                               *)
SyncKnows ==
  /\ pc[Sync] = "out-remove" => outs \subseteq todo
  /\ pc[Sync] = "out-add" => outs \subseteq Tunnels \X {Initial}

(* Without a prefix there is only one tag per tunnel.                      *)
OneTag ==
  ~Prefixed => /\ \A t \in Tunnels : cur[t] = "bare"
               /\ \A t \in Tunnels : <<t, "obs">> \notin outs \cup todo \cup backups

CopyInv == TypeOK /\ LockHeld /\ (\A w \in Tunnels : WorkerKnows(w)) /\ SyncKnows /\ OneTag

(* A step that gives no tunnel a second copy.                              *)
NoNewCopy == \A t \in Tunnels : Doubled(t)' => Doubled(t)

(* What the others know survives a step of p: either p holds the lock, and *)
(* they are outside, or p touches nothing they know about.                 *)
LEMMA OthersKnow ==
  ASSUME CopyInv, NEW p \in Procs, Moving(p),
         Mutating(p) \/ UNCHANGED <<outs, port, cur, todo>>
  PROVE  /\ \A w \in Tunnels : w # p => WorkerKnows(w)'
         /\ p # Sync => SyncKnows'
<1> USE DEF CopyInv
<1>1. \A q \in Procs : q # p => pc'[q] = pc[q]
  BY DEF Moving, Moves, TypeOK, TargetTypeOK, CtlTypeOK
<1>2. CASE Mutating(p)
  <2>1. \A q \in Procs : q # p => pc'[q] \in FreePC
    BY <1>1, <1>2 DEF LockHeld, Mutating
  <2> QED
    BY <2>1, ProcFacts DEF WorkerKnows, SyncKnows, FreePC, RepairPC
<1>3. CASE UNCHANGED <<outs, port, cur, todo>>
  <2>1. ASSUME NEW w \in Tunnels, w # p
        PROVE  WorkerKnows(w)'
    BY <1>1, <1>3, <2>1, ProcFacts DEF WorkerKnows
  <2>2. ASSUME p # Sync
        PROVE  SyncKnows'
    BY <1>1, <1>3, <2>2, ProcFacts DEF SyncKnows
  <2> QED
    BY <2>1, <2>2
<1> QED
  BY <1>2, <1>3

(* A step of a repair (repair.go) keeps CopyInv and adds no second copy.   *)
LEMMA RepairCopies ==
  ASSUME CopyInv, NEW w \in Tunnels, Repair(w)
  PROVE  WorkerKnows(w)' /\ OneTag' /\ NoNewCopy /\ (Mutating(w) \/ UNCHANGED <<outs, port, cur, todo>>)
<1> USE DEF CopyInv, WorkerKnows, OneTag, NoNewCopy, Doubled
<1> USE DEF At, Goto, Then, Unlock, Mutating, FreePC, RepairPC, memVars, syncVars
<1>0. /\ pc \in [Procs -> Labels] /\ w \in Procs /\ cur[w] \in Variants /\ Initial \in Variants
      /\ cur \in [Tunnels -> Variants]
  BY ProcFacts, InitialType DEF TypeOK, TargetTypeOK, CtlTypeOK, MemTypeOK
<1>1. CASE RepairSkip(w)
  BY <1>0, <1>1 DEF RepairSkip, xrayVars
<1>2. CASE RepairBegin(w)
  BY <1>0, <1>2 DEF RepairBegin, Read, ShouldRejoin, Initial, Variants
<1>3. CASE RepairList(w)
  BY <1>0, <1>3 DEF RepairList, Read
<1>4. CASE RemoveRuleStep(w, "repair-rm-rule", "repair-rm-out")
  BY <1>0, <1>4 DEF RemoveRuleStep, RemoveRule
<1>5. CASE RemoveOutboundStep(w, "repair-rm-out", "repair-add", "repair-restore")
  BY <1>0, <1>5 DEF RemoveOutboundStep, RemoveOutbound
<1>6. CASE RestoreRuleStep(w, "repair-restore", "repair-failed")
  BY <1>0, <1>6 DEF RestoreRuleStep, AddRule
<1>7. CASE RepairAdd(w)
  BY <1>0, <1>7 DEF RepairAdd, CappedAdd, CheckCap, SendAdd, AddOutbound, Read, Initial
<1>8. CASE RepairAddRule(w)
  BY <1>0, <1>8 DEF RepairAddRule, AddRule
<1>9. CASE RepairEnd(w)
  BY <1>0, <1>9 DEF RepairEnd, xrayVars
<1> QED
  BY <1>1, <1>2, <1>3, <1>4, <1>5, <1>6, <1>7, <1>8, <1>9 DEF Repair

(* A step of a rejoin (repair.go) keeps CopyInv and adds no second copy.   *)
LEMMA RejoinCopies ==
  ASSUME CopyInv, NEW w \in Tunnels, Rejoin(w)
  PROVE  WorkerKnows(w)' /\ OneTag' /\ NoNewCopy /\ (Mutating(w) \/ UNCHANGED <<outs, port, cur, todo>>)
<1> USE DEF CopyInv, WorkerKnows, OneTag, NoNewCopy, Doubled
<1> USE DEF At, Goto, Then, Unlock, Mutating, FreePC, RepairPC, memVars, syncVars
<1>0. /\ pc \in [Procs -> Labels] /\ w \in Procs /\ cur[w] \in Variants /\ Initial \in Variants
      /\ cur \in [Tunnels -> Variants]
  BY ProcFacts, InitialType DEF TypeOK, TargetTypeOK, CtlTypeOK, MemTypeOK
<1>1. CASE RejoinView(w)
  BY <1>0, <1>1 DEF RejoinView, xrayVars
<1>2. CASE RejoinBegin(w)
  BY <1>0, <1>2 DEF RejoinBegin, Read, ShouldRejoin, xrayVars
<1>3. CASE RemoveRuleStep(w, "rejoin-rm-rule", "rejoin-rm-out")
  BY <1>0, <1>3 DEF RemoveRuleStep, RemoveRule
<1>4. CASE RemoveOutboundStep(w, "rejoin-rm-out", "rejoin-add", "rejoin-restore")
  BY <1>0, <1>4 DEF RemoveOutboundStep, RemoveOutbound, Initial, Variants
<1>5. CASE \/ RestoreRuleStep(w, "rejoin-restore", "rejoin-failed")
           \/ RestoreRuleStep(w, "rejoin-undo-rule", "rejoin-failed")
  BY <1>0, <1>5 DEF RestoreRuleStep, AddRule
<1>6. CASE RejoinAdd(w)
  BY <1>0, <1>6 DEF RejoinAdd, CappedAdd, CheckCap, SendAdd, AddOutbound, Read, Initial
<1>7. CASE RejoinAddRule(w)
  BY <1>0, <1>7 DEF RejoinAddRule, AddRule
<1>8. CASE RejoinUndoOut(w)
  BY <1>0, <1>8 DEF RejoinUndoOut, RemoveOutbound
<1>9. CASE RejoinUndoAdd(w)
  BY <1>0, <1>9 DEF RejoinUndoAdd, CappedAdd, CheckCap, SendAdd, AddOutbound, Read, Initial
<1>10. CASE RejoinEnd(w)
  BY <1>0, <1>10 DEF RejoinEnd, xrayVars, Initial
<1> QED
  BY <1>1, <1>2, <1>3, <1>4, <1>5, <1>6, <1>7, <1>8, <1>9, <1>10 DEF Rejoin

(* A check (checkTunnel, tunnels.go) keeps CopyInv and touches no          *)
(* outbound.                                                               *)
LEMMA CheckCopies ==
  ASSUME CopyInv, NEW w \in Tunnels, StartCheck(w) \/ ProbeFails(w, "repair") \/ ProbeSucceeds(w)
  PROVE  WorkerKnows(w)' /\ OneTag' /\ NoNewCopy /\ UNCHANGED <<outs, port, cur, todo>>
<1>1. pc'[w] \in FreePC
  BY ProcFacts DEF CopyInv, TypeOK, TargetTypeOK, CtlTypeOK, FreePC, Goto, ProbeOver,
     StartCheck, ProbeFails, ProbeSucceeds
<1>2. UNCHANGED <<outs, port, cur, todo, backups>>
  BY DEF StartCheck, ProbeFails, ProbeSucceeds, xrayVars, memVars, syncVars
<1> QED
  BY <1>1, <1>2 DEF CopyInv, WorkerKnows, OneTag, NoNewCopy, Doubled, FreePC, RepairPC

(* The sync gives a tunnel a second copy only while it restores backups.   *)
LEMMA SyncCopies ==
  ASSUME CopyInv, SyncStep
  PROVE  /\ SyncKnows' /\ OneTag'
         /\ At(Sync, "undo-restore") \/ NoNewCopy
         /\ Mutating(Sync) \/ UNCHANGED <<outs, port, cur, todo>>
<1> USE DEF CopyInv, SyncKnows, OneTag, NoNewCopy, Doubled
<1> USE DEF At, Goto, Then, Unlock, Mutating, FreePC, memVars, syncVars, xrayVars
<1>0. pc \in [Procs -> Labels] /\ Sync \in Procs /\ outs \subseteq Tags /\ Initial \in Variants
  BY ProcFacts, InitialType DEF TypeOK, TargetTypeOK, CtlTypeOK, XrayTypeOK
<1>1. CASE SyncStart
  BY <1>0, <1>1 DEF SyncStart
<1>2. CASE DriftCheck
  BY <1>0, <1>2 DEF DriftCheck, Read
<1>3. CASE ApplyBegin
  BY <1>0, <1>3 DEF ApplyBegin, Read
<1>4. CASE OutList
  BY <1>0, <1>4 DEF OutList, ListKind, Read
<1>5. CASE InList \/ RuleList
  BY <1>0, <1>5 DEF InList, RuleList, ListKind, Read
<1>6. CASE OutRemove
  <2>1. CASE todo = {} /\ Through("out-remove", "out-add")
    BY <1>0, <2>1 DEF Through
  <2>2. CASE ~(todo = {} /\ Through("out-remove", "out-add"))
    BY <1>0, <1>6, <2>2 DEF OutRemove, RemoveOutbound
  <2> QED
    BY <2>1, <2>2
<1>7. CASE OutAdd
  <2>1. CASE Through("out-add", "in-list")
    BY <1>0, <2>1 DEF Through
  <2>2. CASE /\ CheckCap(Sync, "undo-remove", FALSE)
             /\ UNCHANGED <<port, cur, mon, repairErr, lock, plan, todo, left, backups>>
             /\ At(Sync, "out-add")
    BY <1>0, <2>2 DEF CheckCap, Read
  <2>3. ASSUME NEW t \in Tunnels, NEW ok \in BOOLEAN,
               SendAdd(Sync, <<t, Initial>>, ok), Then(Sync, ok, "out-add", "undo-remove"),
               UNCHANGED <<port, cur, mon, repairErr, lock, plan, todo, left, backups>>,
               At(Sync, "out-add")
        PROVE  /\ SyncKnows' /\ OneTag' /\ NoNewCopy /\ Mutating(Sync)
    <3>1. outs' \subseteq outs \cup {<<t, Initial>>}
      BY <2>3 DEF SendAdd, AddOutbound
    <3>2. outs' \subseteq Tunnels \X {Initial}
      BY <2>3, <3>1
    <3>3. OneTag'
      BY <2>3, <3>2 DEF Initial
    <3>4. NoNewCopy
      BY <3>2
    <3> QED
      BY <1>0, <2>3, <3>2, <3>3, <3>4
  <2> QED
    BY <1>7, <2>1, <2>2, <2>3 DEF OutAdd
<1>8. CASE UndoRemove
  <2>1. CASE Through("undo-remove", "undo-restore")
    BY <1>0, <2>1 DEF Through
  <2>2. CASE ~Through("undo-remove", "undo-restore")
    BY <1>0, <1>8, <2>2 DEF UndoRemove, RemoveOutbound
  <2> QED
    BY <2>1, <2>2
<1>9. CASE UndoRestore
  <2>1. /\ pc[Sync] = "undo-restore" /\ pc'[Sync] \in {"undo-restore", "in-list"}
        /\ outs' \subseteq outs \cup backups /\ backups' \subseteq backups
        /\ UNCHANGED <<cur, todo>>
    BY <1>0, <1>9 DEF UndoRestore, CheckCap, SendAdd, AddOutbound, Read
  <2> QED
    BY <2>1
<1>10. CASE InRemove \/ InAdd
  BY <1>0, <1>10 DEF InRemove, InAdd, Through, RemoveInbound, AddInbound
<1>11. CASE RuleRemove \/ RuleAdd
  BY <1>0, <1>11 DEF RuleRemove, RuleAdd, Through, RemoveRule, AddRule
<1>12. CASE Commit
  BY <1>0, <1>12 DEF Commit, Initial
<1> QED
  BY <1>1, <1>2, <1>3, <1>4, <1>5, <1>6, <1>7, <1>8, <1>9, <1>10, <1>11, <1>12
     DEF SyncStep, ApplyPlans

(* Every step keeps CopyInv, and only the rollback adds a second copy.     *)
LEMMA CopyStep ==
  ASSUME CopyInv, [Next]_vars
  PROVE  CopyInv' /\ (At(Sync, "undo-restore") \/ NoNewCopy)
<1>0. TypeOK' /\ PcTypeOK
  BY TypeKept DEF CopyInv, TypeOK, TargetTypeOK, CtlTypeOK, PcTypeOK
<1>1. CASE SyncStep
  <2>1. Moving(Sync) /\ LockHeld'
    BY <1>0, <1>1, SyncMoves, MoveKeepsLock, ProcFacts DEF CopyInv
  <2> QED
    BY <1>0, <1>1, <2>1, SyncCopies, OthersKnow, ProcFacts DEF CopyInv
<1>2. ASSUME NEW w \in Tunnels, WorkerStep(w)
      PROVE  CopyInv' /\ NoNewCopy
  <2>1. w \in Procs /\ w # Sync /\ Moving(w) /\ LockHeld'
    BY <1>0, <1>2, WorkerMoves, MoveKeepsLock, ProcFacts DEF CopyInv
  <2>2. /\ WorkerKnows(w)' /\ OneTag' /\ NoNewCopy
        /\ Mutating(w) \/ UNCHANGED <<outs, port, cur, todo>>
    BY <1>2, CheckCopies, RepairCopies, RejoinCopies DEF WorkerStep
  <2> QED
    BY <1>0, <2>1, <2>2, OthersKnow DEF CopyInv
<1>3. CASE UNCHANGED <<outs, port, cur, todo, backups, pc, lock>>
  BY <1>0, <1>3 DEF CopyInv, LockHeld, Mutating, WorkerKnows, SyncKnows, OneTag, NoNewCopy, Doubled
<1>4. TickStart \/ Edit \/ UNCHANGED vars => UNCHANGED <<outs, port, cur, todo, backups, pc, lock>>
  BY DEF TickStart, Edit, vars, targetVars, xrayVars, memVars, syncVars
<1>5. CASE Restart
  <2>1. CASE RestartXray /\ UNCHANGED <<memVars, lock, pc, grant, syncVars, tickVars>>
    BY <1>0, <2>1 DEF RestartXray, memVars, syncVars,
       CopyInv, LockHeld, Mutating, WorkerKnows, SyncKnows, OneTag, NoNewCopy, Doubled
  <2>2. CASE RestartScd
    <3>1. \A p \in Procs : pc'[p] = "idle"
      BY <2>2 DEF RestartScd
    <3>2. LockHeld' /\ (\A w \in Tunnels : WorkerKnows(w)') /\ SyncKnows'
      BY <3>1, ProcFacts DEF LockHeld, Mutating, FreePC, RepairPC, WorkerKnows, SyncKnows
    <3>3. OneTag' /\ NoNewCopy
      BY <2>2 DEF RestartScd, CopyInv, OneTag, Initial, NoNewCopy, Doubled
    <3> QED
      BY <1>0, <3>2, <3>3 DEF CopyInv
  <2> QED
    BY <1>5, <2>1, <2>2 DEF Restart
<1> QED
  BY <1>1, <1>2, <1>3, <1>4, <1>5 DEF Next

(* CopyInv holds when scd starts.                                          *)
LEMMA CopyInit == Init => CopyInv
<1> SUFFICES ASSUME Init PROVE CopyInv
  OBVIOUS
<1>1. TypeOK
  BY TypeInit
<1>2. \A p \in Procs : pc[p] = "idle"
  BY DEF Init, TargetInit
<1>3. LockHeld /\ (\A w \in Tunnels : WorkerKnows(w)) /\ SyncKnows
  BY <1>2, ProcFacts DEF LockHeld, Mutating, FreePC, RepairPC, WorkerKnows, SyncKnows
<1>4. OneTag
  BY DEF Init, TargetInit, XrayInit, OneTag, Initial
<1> QED
  BY <1>1, <1>3, <1>4 DEF CopyInv

(* LockTarget, state.go:577: repairs, rejoins and applies of one target    *)
(* exclude each other; whoever is inside a critical section holds the      *)
(* target lock, across failures and restarts.                              *)
THEOREM LockExcludes == Spec => []LockHeld
<1>1. Init => CopyInv
  BY CopyInit
<1>2. CopyInv /\ [Next]_vars => CopyInv'
  BY CopyStep
<1>3. CopyInv => LockHeld
  BY DEF CopyInv
<1> QED
  BY <1>1, <1>2, <1>3, PTL DEF Spec

(* removeTunnel, repair.go: no step of a repair, a rejoin or a sync gives  *)
(* a tunnel a second outbound, except the restore of backups after a       *)
(* failed apply, for any number of failed or lost calls and restarts.      *)
THEOREM CopiesOnlyFromRollback == Spec => OnlyRollbackDoubles
<1>1. Init => CopyInv
  BY CopyInit
<1>2. CopyInv /\ [Next]_vars => CopyInv'
  BY CopyStep
<1>3. CopyInv /\ [Next]_vars
      => [\A t \in Tunnels : Doubled(t)' /\ ~Doubled(t) => At(Sync, "undo-restore")]_vars
  BY CopyStep DEF NoNewCopy
<1> QED
  BY <1>1, <1>2, <1>3, PTL DEF Spec, OnlyRollbackDoubles

-----------------------------------------------------------------------------
(* The monitor state "repairing".                                          *)

RepairingInv == "Dial" \notin Refusable => \A t \in Tunnels : mon[t] = "repairing" => pc[t] \in RepairPC

(* Every step keeps RepairingInv.                                          *)
LEMMA RepairingStep ==
  ASSUME CopyInv, RepairingInv, [Next]_vars
  PROVE  RepairingInv'
<1> SUFFICES ASSUME "Dial" \notin Refusable, NEW t \in Tunnels, mon'[t] = "repairing"
             PROVE  pc'[t] \in RepairPC
  BY DEF RepairingInv
<1>0. /\ pc \in [Procs -> Labels] /\ t \in Procs /\ t # Sync /\ mon \in [Tunnels -> {"idle", "healthy", "degraded", "repairing"}]
      /\ mon[t] = "repairing" => pc[t] \in RepairPC
      /\ WorkerKnows(t)
  BY ProcFacts DEF CopyInv, RepairingInv, TypeOK, TargetTypeOK, CtlTypeOK, MemTypeOK
<1>1. CASE SyncStep
  <2>1. pc'[t] = pc[t]
    BY <1>0, <1>1, SyncMoves DEF PcTypeOK, Moving, Moves
  <2>2. mon'[t] = mon[t]
    BY <1>0, <1>1 DEF SyncStep, SyncStart, DriftCheck, ApplyBegin, Commit, ApplyPlans, OutList, InList,
       RuleList, ListKind, OutRemove, OutAdd, UndoRemove, UndoRestore, InRemove, InAdd, RuleRemove,
       RuleAdd, Through, memVars
  <2> QED
    BY <1>0, <2>1, <2>2
<1>2. ASSUME NEW w \in Tunnels, WorkerStep(w)
      PROVE  pc'[t] \in RepairPC
  <2>1. CASE w # t
    <3>1. pc'[t] = pc[t]
      BY <1>0, <1>2, <2>1, WorkerMoves DEF PcTypeOK, Moving, Moves
    <3>2. mon'[t] = mon[t]
      BY <1>0, <1>2, <2>1 DEF WorkerStep, StartCheck, ProbeFails, ProbeSucceeds, SetMon, Repair, Rejoin,
         RepairSkip, RepairBegin, RepairList, RemoveRuleStep, RemoveOutboundStep, RestoreRuleStep,
         RepairAdd, RepairAddRule, RepairEnd, RejoinView, RejoinBegin, RejoinAdd, RejoinAddRule,
         RejoinUndoOut, RejoinUndoAdd, RejoinEnd, memVars
    <3> QED
      BY <1>0, <3>1, <3>2
  <2>2. CASE w = t
    <3> USE <1>0, <2>2 DEF At, Goto, Then, Unlock, RepairPC, memVars, SetMon
    <3>1. CASE StartCheck(w) \/ ProbeFails(w, "repair") \/ ProbeSucceeds(w)
      BY <3>1 DEF StartCheck, ProbeFails, ProbeSucceeds, ProbeOver
    <3>2. CASE RepairSkip(w) \/ RepairBegin(w) \/ RepairList(w)
      BY <3>2 DEF RepairSkip, RepairBegin, RepairList, Read, Refused, WorkerKnows
    <3>3. CASE \/ RemoveRuleStep(w, "repair-rm-rule", "repair-rm-out")
               \/ RemoveOutboundStep(w, "repair-rm-out", "repair-add", "repair-restore")
               \/ RestoreRuleStep(w, "repair-restore", "repair-failed")
      BY <3>3 DEF RemoveRuleStep, RemoveOutboundStep, RestoreRuleStep
    <3>4. CASE RepairAdd(w) \/ RepairAddRule(w)
      BY <3>4 DEF RepairAdd, RepairAddRule, CappedAdd, CheckCap, SendAdd
    <3>5. CASE RepairEnd(w)
      BY <3>5 DEF RepairEnd, WorkerKnows
    <3>6. CASE Rejoin(w)
      <4>1. pc[w] \notin RepairPC /\ mon' = mon
        BY <3>6 DEF Rejoin, RejoinView, RejoinBegin, RemoveRuleStep, RemoveOutboundStep, RestoreRuleStep,
           RejoinAdd, RejoinAddRule, RejoinUndoOut, RejoinUndoAdd, RejoinEnd
      <4> QED
        BY <4>1
    <3> QED
      BY <1>2, <3>1, <3>2, <3>3, <3>4, <3>5, <3>6 DEF WorkerStep, Repair
  <2> QED
    BY <2>1, <2>2
<1>3. CASE Restart
  BY <1>0, <1>3 DEF Restart, RestartXray, RestartScd, memVars
<1>4. CASE TickStart \/ Edit \/ UNCHANGED vars
  BY <1>0, <1>4 DEF TickStart, Edit, vars, targetVars, memVars
<1> QED
  BY <1>1, <1>2, <1>3, <1>4 DEF Next

(* Repair, repair.go:92: while no client creation fails, a tunnel is       *)
(* "repairing" only under the lock of its own worker; every end of a       *)
(* repair, and every sync or restart, leaves a final state.                *)
THEOREM RepairingHasOwner == Spec => []RepairingIsOwned
<1>1. Init => CopyInv /\ RepairingInv
  <2>1. Init => RepairingInv
    BY DEF Init, TargetInit, RepairingInv
  <2> QED
    BY <2>1, CopyInit
<1>2. CopyInv /\ RepairingInv /\ [Next]_vars => (CopyInv /\ RepairingInv)'
  BY CopyStep, RepairingStep
<1>3. CopyInv /\ RepairingInv => RepairingIsOwned
  BY ProcFacts DEF CopyInv, RepairingInv, RepairingIsOwned, LockHeld, Mutating, RepairPC, FreePC
<1> QED
  BY <1>1, <1>2, <1>3, PTL DEF Spec

-----------------------------------------------------------------------------
(* The commit of an apply.  As long as no kind has failed and Xray has not *)
(* restarted, the sync knows what its kinds have put into Xray.            *)

ApplyKnows == intact => ApplyKnown

(* What a worker never touches, and what it touches only under the lock.   *)
LEMMA WorkerLeaves ==
  ASSUME PcTypeOK, NEW w \in Tunnels, WorkerStep(w)
  PROVE  /\ UNCHANGED <<plan, todo, left, backups, added, failed, port>>
         /\ Mutating(w) \/ UNCHANGED <<outs, ins, rules, cur, hashes>>
<1> USE DEF At, Mutating, FreePC, syncVars, memVars, xrayVars
<1>1. CASE StartCheck(w) \/ ProbeFails(w, "repair") \/ ProbeSucceeds(w)
  BY <1>1 DEF StartCheck, ProbeFails, ProbeSucceeds
<1>2. CASE RepairSkip(w) \/ RepairBegin(w) \/ RejoinView(w) \/ RejoinBegin(w)
  BY <1>2 DEF RepairSkip, RepairBegin, RejoinView, RejoinBegin, Read
<1>3. CASE RepairList(w) \/ RepairEnd(w) \/ RejoinEnd(w)
  BY <1>3 DEF RepairList, RepairEnd, RejoinEnd
<1>4. CASE \/ RemoveRuleStep(w, "repair-rm-rule", "repair-rm-out")
           \/ RemoveOutboundStep(w, "repair-rm-out", "repair-add", "repair-restore")
           \/ RestoreRuleStep(w, "repair-restore", "repair-failed")
           \/ RepairAdd(w) \/ RepairAddRule(w)
  BY <1>4 DEF RemoveRuleStep, RemoveOutboundStep, RestoreRuleStep, RepairAdd, RepairAddRule
<1>5. CASE \/ RemoveRuleStep(w, "rejoin-rm-rule", "rejoin-rm-out")
           \/ RemoveOutboundStep(w, "rejoin-rm-out", "rejoin-add", "rejoin-restore")
           \/ RestoreRuleStep(w, "rejoin-restore", "rejoin-failed")
           \/ RejoinAdd(w) \/ RejoinAddRule(w) \/ RejoinUndoOut(w) \/ RejoinUndoAdd(w)
           \/ RestoreRuleStep(w, "rejoin-undo-rule", "rejoin-failed")
  BY <1>5 DEF RemoveRuleStep, RemoveOutboundStep, RestoreRuleStep, RejoinAdd, RejoinAddRule,
              RejoinUndoOut, RejoinUndoAdd
<1> QED
  BY <1>1, <1>2, <1>3, <1>4, <1>5 DEF WorkerStep, Repair, Rejoin

(* The sync knows as much after a step of anyone else.                     *)
LEMMA SyncKnowledgeStays ==
  ASSUME CopyInv, ApplyKnows, NEW w \in Tunnels, WorkerStep(w), intact' = intact
  PROVE  ApplyKnows' /\ pc'[Sync] = pc[Sync]
<1>1. PcTypeOK /\ LockHeld /\ w \in Procs /\ w # Sync
  BY ProcFacts DEF CopyInv, TypeOK, TargetTypeOK, CtlTypeOK, PcTypeOK
<1>2. Moving(w)
  BY <1>1, WorkerMoves
<1>3. UNCHANGED <<plan, todo, left, added, failed>> /\ (Mutating(w) \/ UNCHANGED <<outs, ins, rules>>)
  BY <1>1, WorkerLeaves
<1>4. pc'[Sync] = pc[Sync]
  BY <1>1, <1>2, ProcFacts DEF PcTypeOK, Moving, Moves
<1> QED
  BY <1>1, <1>2, <1>3, <1>4, ApplyStays DEF ApplyKnows

(* Every step keeps what the sync knows.                                   *)
LEMMA KnowledgeStep ==
  ASSUME CopyInv, ApplyKnows, [Next]_vars
  PROVE  ApplyKnows'
<1> USE DEF InPC, RulePC
<1>0. pc \in [Procs -> Labels] /\ Sync \in Procs /\ TargetTypeOK
  BY ProcFacts DEF CopyInv, TypeOK, TargetTypeOK, CtlTypeOK
<1>1. CASE SyncStep /\ intact' = (intact \/ At(Sync, "out-list"))
  <2>1. CASE SyncStart \/ DriftCheck \/ ApplyBegin \/ Commit
    <3>1. pc'[Sync] \in {"idle", "drift", "apply", "out-list"}
      BY <1>0, <2>1 DEF SyncStart, DriftCheck, ApplyBegin, Commit, Goto, Unlock
    <3> QED
      BY <3>1 DEF ApplyKnows, ApplyKnown, ApplyHas
  <2>2. CASE ApplyPlans
    <3>1. pc[Sync] = "out-list" => ApplyKnown
      BY DEF ApplyKnown, ApplyHas
    <3>2. intact' => ApplyKnown
      BY <1>1, <3>1 DEF ApplyKnows, At
    <3> QED
      BY <1>0, <2>2, <3>2, ApplyKnowsOn DEF ApplyKnows
  <2> QED
    BY <1>1, <2>1, <2>2 DEF SyncStep
<1>2. CASE Restart
  BY <1>2 DEF Restart, ApplyKnows
<1>3. CASE UNCHANGED <<outs, ins, rules, pc, plan, todo, left, added, failed, intact>>
  BY <1>3 DEF ApplyKnows, ApplyKnown, ApplyHas, Planned, PlanOn, RouteOn
<1>4. CASE TickStart /\ UNCHANGED intact
  BY <1>3, <1>4 DEF TickStart, xrayVars, syncVars
<1>5. CASE Edit \/ UNCHANGED vars
  BY <1>3, <1>5 DEF Edit, vars, targetVars, xrayVars, syncVars
<1> QED
  BY <1>1, <1>2, <1>4, <1>5, SyncKnowledgeStays DEF Next

(* The sync knows nothing when scd starts.                                 *)
LEMMA KnowledgeInit == Init => ApplyKnows
  BY ProcFacts DEF Init, TargetInit, ApplyKnows, ApplyKnown, ApplyHas, InPC, RulePC

(* A worker can only reset the hashes (stateLost, repair.go).              *)
LEMMA WorkerHashes ==
  ASSUME NEW w \in Tunnels, WorkerStep(w)
  PROVE  hashes' = hashes \/ hashes' = NoHash
<1>0. MaxActive = 0
  BY VlessAssumption
<1>1. StartCheck(w) \/ ProbeFails(w, "repair") \/ ProbeSucceeds(w) => UNCHANGED hashes
  BY DEF StartCheck, ProbeFails, ProbeSucceeds, memVars
<1>2. Repair(w) => hashes' \in {hashes, NoHash}
  BY <1>0 DEF Repair, RepairSkip, RepairBegin, RepairList, RemoveRuleStep, RemoveOutboundStep, RestoreRuleStep,
     RepairAdd, RepairAddRule, RepairEnd, CappedAdd, CheckCap, SendAdd, memVars
<1>3. Rejoin(w) => UNCHANGED hashes
  <2>1. RejoinAdd(w) \/ RejoinUndoAdd(w) => UNCHANGED hashes
    BY <1>0 DEF RejoinAdd, RejoinUndoAdd, CappedAdd, CheckCap, SendAdd
  <2> QED
    BY <2>1 DEF Rejoin, RejoinView, RejoinBegin, RemoveRuleStep, RemoveOutboundStep, RestoreRuleStep,
       RejoinAddRule, RejoinUndoOut, RejoinEnd, memVars
<1> QED
  BY <1>1, <1>2, <1>3 DEF WorkerStep

(* Hashes appear only in a commit of an apply in which no kind failed.     *)
LEMMA OnlyCommitHashes ==
  ASSUME CopyInv, [Next]_vars, hashes' # hashes, hashes' # NoHash
  PROVE  /\ At(Sync, "commit") /\ ~failed
         /\ hashes' = plan /\ UNCHANGED <<outs, ins, rules>>
<1>0. PcTypeOK /\ MaxActive = 0
  BY VlessAssumption DEF CopyInv, TypeOK, TargetTypeOK, CtlTypeOK, PcTypeOK
<1>1. CASE Commit
  BY <1>1 DEF Commit, memVars, xrayVars
<1>2. CASE SyncStart \/ DriftCheck \/ ApplyBegin \/ OutList \/ OutRemove \/ UndoRemove \/ InList \/ InRemove \/ InAdd
           \/ RuleList \/ RuleRemove \/ RuleAdd
  BY <1>2 DEF SyncStart, DriftCheck, ApplyBegin, OutList, InList, RuleList, ListKind, OutRemove, UndoRemove,
     InRemove, InAdd, RuleRemove, RuleAdd, Through, memVars
<1>3. CASE OutAdd \/ UndoRestore
  BY <1>0, <1>3 DEF OutAdd, UndoRestore, Through, CheckCap, SendAdd, memVars
<1>4. ASSUME NEW w \in Tunnels, WorkerStep(w)
      PROVE  FALSE
  BY <1>4, WorkerHashes
<1>5. CASE TickStart \/ Restart \/ Edit \/ UNCHANGED vars
  BY <1>5 DEF TickStart, Restart, RestartScd, Edit, vars, targetVars, memVars
<1> QED
  BY <1>1, <1>2, <1>3, <1>4, <1>5 DEF Next, SyncStep, ApplyPlans

(* What the sync knows at its commit.                                      *)
LEMMA CommitHolds ==
  ASSUME CopyInv, ApplyKnows, At(Sync, "commit"), ~failed, intact
  PROVE  Holds(plan, [t \in Tunnels |-> Initial])
<1>1. outs = Planned \X {Initial} /\ ins = plan /\ rules = RouteOn(Planned)
  BY DEF At, ApplyKnows, ApplyKnown, ApplyHas, InPC, RulePC
<1>2. outs = {<<t, [u \in Tunnels |-> Initial][t]>> : t \in {u \in Tunnels : plan[u] # 0}}
  BY <1>1 DEF Planned
<1>3. rules = [t \in Tunnels |-> IF plan[t] # 0 THEN [u \in Tunnels |-> Initial][t] ELSE "none"]
  BY <1>1 DEF RouteOn, Planned
<1> QED
  BY <1>1, <1>2, <1>3 DEF Holds

(* syncPlans, syncer.go: whenever hashes are saved, Xray holds exactly the *)
(* plan they stand for, every tunnel in the balancer, whatever calls were  *)
(* refused or lost before, unless Xray restarted during the apply.         *)
THEOREM HashesAreExact == Spec => CommitIsExact
<1>1. Init => CopyInv /\ ApplyKnows
  BY CopyInit, KnowledgeInit
<1>2. CopyInv /\ ApplyKnows /\ [Next]_vars => (CopyInv /\ ApplyKnows)'
  BY CopyStep, KnowledgeStep
<1>3. CopyInv /\ ApplyKnows /\ [Next]_vars
      => [hashes' # hashes /\ hashes' # NoHash /\ intact
            => Holds(hashes', [t \in Tunnels |-> Initial])]_vars
  BY OnlyCommitHashes, CommitHolds
<1> QED
  BY <1>1, <1>2, <1>3, PTL DEF Spec, CommitIsExact

-----------------------------------------------------------------------------
(* Memory and Xray while no call fails.  A process that has the lock knows *)
(* how far its tunnel is from what memory says, and every other tunnel is  *)
(* as memory says.                                                         *)

MatchInv == faults = 0 => intact /\ SyncHas /\ FreeMatches /\ \A w \in Tunnels : WorkerHas(w)

(* A step of the sync (syncPlans, syncer.go) without a failed call: only   *)
(* its commit hands over a target that has changed.                        *)
LEMMA SyncMatches ==
  ASSUME CopyInv, ApplyKnows, MatchInv, faults' = 0, SyncStep
  PROVE  /\ faults = 0 /\ SyncHas' /\ FreeMatches'
         /\ Mutating(Sync) \/ UNCHANGED <<outs, ins, rules, port, cur>>
<1> USE DEF At, Goto, Unlock, memVars, xrayVars
<1>0. /\ TargetTypeOK /\ LockHeld /\ MaxActive = 0
      /\ pc \in [Procs -> Labels] /\ Sync \in Procs /\ Sync # Nobody /\ failed \in BOOLEAN
      /\ ~Fault /\ (Answered => faults = 0)
  BY NoFault, ProcFacts, VlessAssumption DEF CopyInv, TypeOK, TargetTypeOK, CtlTypeOK, SyncTypeOK
<1>1. CASE SyncStart \/ DriftCheck
  <2>1. /\ UNCHANGED <<outs, ins, rules, port, cur, lock>> /\ Answered
        /\ pc'[Sync] \in {"drift", "apply", "idle"}
    BY <1>0, <1>1 DEF SyncStart, DriftCheck, Read, Refused, Answered
  <2> QED
    BY <1>0, <2>1 DEF MatchInv, SyncHas, FreeMatches, AsRecorded, Placed, Has, ApplyPC
<1>2. CASE ApplyBegin
  <2>1. /\ UNCHANGED <<outs, ins, rules, port, cur>> /\ lock' = Sync /\ Answered
        /\ pc'[Sync] = "out-list" /\ ~failed'
    BY <1>0, <1>2 DEF ApplyBegin, Read, Refused, LockTarget
  <2> QED
    BY <1>0, <2>1 DEF SyncHas, FreeMatches
<1>3. CASE ApplyPlans
  <2>1. faults = 0 => SyncHas /\ ApplyHas
    BY DEF MatchInv, SyncHas, ApplyKnows, ApplyKnown, ApplyHas, ApplyPC, InPC, RulePC
  <2> QED
    BY <1>0, <1>3, <2>1, ApplyMatches DEF FreeMatches
<1>4. CASE Commit
  <2>1. /\ pc[Sync] = "commit" /\ pc'[Sync] = "idle" /\ faults = 0 /\ UNCHANGED <<outs, ins, rules>>
    BY <1>0, <1>4 DEF Commit
  <2>2. intact /\ ~failed
    BY <2>1 DEF MatchInv, SyncHas, ApplyPC
  <2>3. port' = plan /\ cur' = [t \in Tunnels |-> Initial]
    BY <1>4, <2>2 DEF Commit
  <2>4. outs = Planned \X {Initial} /\ ins = plan /\ rules = RouteOn(Planned)
    BY <2>1, <2>2 DEF ApplyKnows, ApplyKnown, ApplyHas, InPC, RulePC
  <2>5. ASSUME NEW t \in Tunnels
        PROVE  AsRecorded(t)'
    BY <2>1, <2>3, <2>4 DEF AsRecorded, Placed, Has, Planned, RouteOn
  <2> QED
    BY <2>1, <2>5 DEF SyncHas, FreeMatches, Mutating, ApplyPC, FreePC
<1> QED
  BY <1>1, <1>2, <1>3, <1>4 DEF SyncStep

(* Every step keeps MatchInv, and without a failed call no worker resets   *)
(* the hashes.                                                             *)
LEMMA MatchStep ==
  ASSUME CopyInv, ApplyKnows, MatchInv, [Next]_vars
  PROVE  /\ MatchInv'
         /\ faults' = 0 => ~Restart
         /\ \A w \in Tunnels : faults' = 0 /\ WorkerStep(w) => faults = 0 /\ UNCHANGED hashes
<1>0. PcTypeOK /\ LockHeld
  BY DEF CopyInv, TypeOK, TargetTypeOK, CtlTypeOK, PcTypeOK
<1>1. ASSUME NEW w \in Tunnels, WorkerStep(w), faults' = 0
      PROVE  faults = 0 /\ WorkerHas(w)' /\ FreeMatches' /\ UNCHANGED hashes
  <2>1. TargetTypeOK /\ LockHeld /\ MaxActive = 0 /\ (faults = 0 => FreeMatches /\ WorkerHas(w))
    BY VlessAssumption DEF CopyInv, TypeOK, MatchInv
  <2>2. CASE StartCheck(w) \/ ProbeFails(w, "repair") \/ ProbeSucceeds(w)
    BY <1>1, <2>1, <2>2, CheckMatches
  <2>3. CASE Repair(w)
    BY <1>1, <2>1, <2>3, RepairMatches
  <2>4. CASE Rejoin(w)
    BY <1>1, <2>1, <2>4, RejoinMatches
  <2> QED
    BY <1>1, <2>2, <2>3, <2>4 DEF WorkerStep
<1>2. ASSUME faults' = 0
      PROVE  ~Restart
  BY <1>2, NoFault DEF CopyInv, TypeOK, Restart, RestartXray, RestartScd
<1>3. ASSUME faults' = 0, SyncStep, intact' = (intact \/ At(Sync, "out-list"))
      PROVE  MatchInv'
  <2>1. /\ faults = 0 /\ SyncHas' /\ FreeMatches'
        /\ Mutating(Sync) \/ UNCHANGED <<outs, ins, rules, port, cur>>
    BY <1>3, SyncMatches
  <2>2. intact'
    BY <1>3, <2>1 DEF MatchInv
  <2>3. \A w \in Tunnels : WorkerHas(w)'
    BY <1>0, <1>3, <2>1, OthersHave, SyncMoves, ProcFacts DEF MatchInv
  <2> QED
    BY <2>1, <2>2, <2>3 DEF MatchInv
<1>4. ASSUME faults' = 0, NEW w \in Tunnels, WorkerStep(w), UNCHANGED intact
      PROVE  MatchInv'
  <2>1. faults = 0 /\ WorkerHas(w)' /\ FreeMatches'
    BY <1>1, <1>4
  <2>2. UNCHANGED <<port, failed>> /\ (Mutating(w) \/ UNCHANGED <<outs, ins, rules, cur>>)
    BY <1>0, <1>4, WorkerLeaves
  <2>3. \A v \in Tunnels : WorkerHas(v)'
    BY <1>0, <1>4, <2>1, <2>2, OthersHave, WorkerMoves, ProcFacts DEF MatchInv
  <2>4. pc'[Sync] = pc[Sync]
    BY <1>0, <1>4, WorkerMoves, ProcFacts DEF PcTypeOK, Moving, Moves
  <2> QED
    BY <1>4, <2>1, <2>2, <2>3, <2>4 DEF MatchInv, SyncHas
<1>5. ASSUME UNCHANGED <<outs, ins, rules, faults, port, cur, lock, pc, failed, intact>>
      PROVE  MatchInv'
  <2>1. \A t \in Tunnels : AsRecorded(t)' <=> AsRecorded(t)
    BY <1>5, RecordStays
  <2>2. FreeMatches' <=> FreeMatches
    BY <1>5, <2>1 DEF FreeMatches
  <2>3. SyncHas' <=> SyncHas
    BY <1>5 DEF SyncHas
  <2>4. ASSUME NEW w \in Tunnels, WorkerHas(w)
        PROVE  WorkerHas(w)'
    BY <1>5, <2>1, <2>4 DEF WorkerHas, Placed, Has
  <2>5. ASSUME faults' = 0
        PROVE  intact' /\ SyncHas' /\ FreeMatches' /\ \A w \in Tunnels : WorkerHas(w)'
    <3>1. intact /\ SyncHas /\ FreeMatches /\ \A w \in Tunnels : WorkerHas(w)
      BY <1>5, <2>5 DEF MatchInv
    <3> QED
      BY <1>5, <2>2, <2>3, <2>4, <3>1
  <2> QED
    BY <2>5 DEF MatchInv
<1>6. TickStart /\ UNCHANGED intact
      => UNCHANGED <<outs, ins, rules, faults, port, cur, lock, pc, failed, intact>>
  BY DEF TickStart, xrayVars, memVars, syncVars
<1>7. Edit \/ UNCHANGED vars
      => UNCHANGED <<outs, ins, rules, faults, port, cur, lock, pc, failed, intact>>
  BY DEF Edit, vars, targetVars, xrayVars, memVars, syncVars
<1>8. faults' # 0 => MatchInv'
  BY DEF MatchInv
<1>9. MatchInv'
  BY <1>2, <1>3, <1>4, <1>5, <1>6, <1>7, <1>8 DEF Next
<1> QED
  BY <1>1, <1>2, <1>9

(* Memory and Xray are both empty when scd starts.                         *)
LEMMA MatchInit == Init => MatchInv
<1> SUFFICES ASSUME Init PROVE MatchInv
  OBVIOUS
<1>1. \A p \in Procs : pc[p] = "idle"
  BY DEF Init, TargetInit
<1>2. SyncHas /\ \A w \in Tunnels : WorkerHas(w)
  BY <1>1, ProcFacts DEF SyncHas, WorkerHas, ApplyPC, RepairPC, RejoinPC, BadPC
<1>3. FreeMatches
  BY DEF Init, TargetInit, XrayInit, NoPorts, FreeMatches, AsRecorded, Placed, Has
<1> QED
  BY <1>2, <1>3 DEF Init, MatchInv

(* repair.go, syncer.go: as long as no call fails, Xray holds exactly the  *)
(* tunnels of memory, each on its recorded outbound, whenever the target   *)
(* lock is free, however many repairs, rejoins and syncs interleave.       *)
THEOREM MemoryIsXray == Spec => []MemoryMatchesXray
<1>1. Init => CopyInv /\ ApplyKnows /\ MatchInv
  BY CopyInit, KnowledgeInit, MatchInit
<1>2. CopyInv /\ ApplyKnows /\ MatchInv /\ [Next]_vars => (CopyInv /\ ApplyKnows /\ MatchInv)'
  BY CopyStep, KnowledgeStep, MatchStep
<1>3. CopyInv /\ MatchInv => MemoryMatchesXray
  BY RecordedHolds DEF CopyInv, TypeOK, MatchInv, FreeMatches, MemoryMatchesXray
<1> QED
  BY <1>1, <1>2, <1>3, PTL DEF Spec

-----------------------------------------------------------------------------
(* Drift.  The hashes stand for the topology in memory, and while no call  *)
(* fails a sync that found them equal to its plan finds nothing missing.   *)

HashInv ==
  /\ hashes = NoHash \/ hashes = port
  /\ faults = 0 => /\ pc[Sync] = "drift" => hashes = plan
                   /\ pc[Sync] = "apply" => hashes # plan

(* No plan is the empty value of the hashes.                               *)
LEMMA PlanIsNoHash ==
  ASSUME TypeOK
  PROVE  plan # NoHash
<1>1. 1 \in Tunnels
  BY XrayAssumption DEF Tunnels
<1>2. DOMAIN plan = Tunnels
  BY DEF TypeOK, TargetTypeOK, SyncTypeOK
<1>3. DOMAIN NoHash = {}
  BY DEF NoHash
<1> QED
  BY <1>1, <1>2, <1>3

(* missingInXray, syncer.go: nothing of a recorded topology is missing.    *)
LEMMA NothingMissing ==
  ASSUME TypeOK, \A t \in Tunnels : AsRecorded(t)
  PROVE  ~Missing(port)
<1> SUFFICES ASSUME NEW t \in Tunnels, port[t] # 0
             PROVE  ins[t] # 0 /\ rules[t] # "none" /\ {<<t, "obs">>, <<t, "bare">>} \cap outs # {}
  BY DEF Missing
<1>1. cur[t] \in Variants
  BY DEF TypeOK, TargetTypeOK, MemTypeOK
<1>2. ins[t] = port[t] /\ rules[t] = cur[t] /\ <<t, cur[t]>> \in outs
  BY <1>1 DEF AsRecorded, Placed, Has
<1> QED
  BY <1>1, <1>2 DEF Variants

(* Every step keeps HashInv.                                               *)
LEMMA HashStep ==
  ASSUME CopyInv, ApplyKnows, MatchInv, HashInv, [Next]_vars
  PROVE  HashInv'
<1> USE DEF At, Goto, Unlock, memVars, syncVars
<1>0. /\ pc \in [Procs -> Labels] /\ Sync \in Procs /\ PcTypeOK /\ TypeOK /\ MaxActive = 0
  BY ProcFacts, VlessAssumption DEF CopyInv, TypeOK, TargetTypeOK, CtlTypeOK, PcTypeOK
<1>1. CASE SyncStart
  <2>1. /\ UNCHANGED <<hashes, port>>
        /\ hashes = plan' => pc'[Sync] = "drift"
        /\ hashes # plan' => pc'[Sync] = "apply"
    BY <1>0, <1>1 DEF SyncStart
  <2> QED
    BY <2>1 DEF HashInv
<1>2. CASE DriftCheck
  <2>1. /\ UNCHANGED <<hashes, port, plan>> /\ pc[Sync] = "drift" /\ lock = Nobody
        /\ pc'[Sync] = "idle" \/ (pc'[Sync] = "apply" /\ Missing(plan) /\ faults' = faults)
    BY <1>0, <1>2 DEF DriftCheck, Read, Answered
  <2>2. ASSUME faults' = 0, pc'[Sync] = "apply"
        PROVE  FALSE
    <3>1. faults = 0 /\ Missing(plan)
      BY <2>1, <2>2
    <3>2. plan = port
      BY <1>0, <2>1, <3>1, PlanIsNoHash DEF HashInv
    <3>3. \A t \in Tunnels : AsRecorded(t)
      BY <2>1, <3>1 DEF MatchInv, FreeMatches
    <3> QED
      BY <1>0, <3>1, <3>2, <3>3, NothingMissing
  <2> QED
    BY <2>1, <2>2 DEF HashInv
<1>3. CASE ApplyBegin
  <2>1. UNCHANGED <<hashes, port>> /\ pc'[Sync] \in {"out-list", "idle"}
    BY <1>0, <1>3 DEF ApplyBegin
  <2> QED
    BY <2>1 DEF HashInv
<1>4. CASE ApplyPlans
  <2>1. pc'[Sync] \notin {"drift", "apply"}
    BY <1>0, <1>4 DEF ApplyPlans, OutList, InList, RuleList, ListKind, OutRemove, OutAdd, UndoRemove, UndoRestore,
       InRemove, InAdd, RuleRemove, RuleAdd, Through, CheckCap, SendAdd, Then
  <2>2. UNCHANGED <<hashes, port>>
    BY <1>0, <1>4 DEF ApplyPlans, OutList, InList, RuleList, ListKind, OutRemove, OutAdd, UndoRemove, UndoRestore,
       InRemove, InAdd, RuleRemove, RuleAdd, Through, CheckCap, SendAdd
  <2> QED
    BY <2>1, <2>2 DEF HashInv
<1>5. CASE Commit
  <2>1. pc'[Sync] = "idle" /\ (UNCHANGED <<hashes, port>> \/ hashes' = port')
    BY <1>0, <1>5 DEF Commit
  <2> QED
    BY <2>1 DEF HashInv
<1>6. ASSUME NEW w \in Tunnels, WorkerStep(w)
      PROVE  HashInv'
  <2>1. UNCHANGED <<plan, port>> /\ pc'[Sync] = pc[Sync]
    BY <1>0, <1>6, WorkerLeaves, WorkerMoves, ProcFacts DEF PcTypeOK, Moving, Moves
  <2>2. hashes' = hashes \/ hashes' = NoHash
    BY <1>6, WorkerHashes
  <2>3. faults' = 0 => faults = 0 /\ hashes' = hashes
    BY <1>6, MatchStep
  <2> QED
    BY <2>1, <2>2, <2>3 DEF HashInv
<1>7. CASE Restart
  <2>1. faults' # 0
    BY <1>7, MatchStep
  <2>2. UNCHANGED <<hashes, port>> \/ hashes' = NoHash
    BY <1>7 DEF Restart, RestartScd
  <2> QED
    BY <2>1, <2>2 DEF HashInv
<1>8. CASE TickStart \/ Edit \/ UNCHANGED vars
  BY <1>8 DEF TickStart, Edit, vars, targetVars, xrayVars, HashInv
<1> QED
  BY <1>1, <1>2, <1>3, <1>4, <1>5, <1>6, <1>7, <1>8 DEF Next, SyncStep

(* missingInXray, syncer.go: while no call fails, an unchanged             *)
(* subscription is never applied a second time, whatever repair or rejoin  *)
(* is under way.                                                           *)
THEOREM DriftIsReal == Spec => []NoFalseDrift
<1>1. Init => CopyInv /\ ApplyKnows /\ MatchInv /\ HashInv
  <2>1. Init => HashInv
    BY ProcFacts DEF Init, TargetInit, HashInv
  <2> QED
    BY <2>1, CopyInit, KnowledgeInit, MatchInit
<1>2. CopyInv /\ ApplyKnows /\ MatchInv /\ HashInv /\ [Next]_vars
      => (CopyInv /\ ApplyKnows /\ MatchInv /\ HashInv)'
  BY CopyStep, KnowledgeStep, MatchStep, HashStep
<1>3. HashInv => NoFalseDrift
  BY DEF HashInv, NoFalseDrift, At
<1> QED
  BY <1>1, <1>2, <1>3, PTL DEF Spec

-----------------------------------------------------------------------------
(* The ports of the inbounds.                                              *)

(* BuildSource (topology.go): the tunnels of a subscription have different *)
(* ports.                                                                  *)
LEMMA PlanDistinct ==
  ASSUME NEW S \in SUBSET Tunnels
  PROVE  Distinct(PortsOf(S)) /\ IsPortMap(PortsOf(S))
<1>1. ASSUME NEW s \in S, NEW t \in S, s < t
      PROVE  Cardinality(S \cap 1..s) # Cardinality(S \cap 1..t)
  <2>1. s \in Nat /\ t \in Nat /\ t \in 1..t /\ t \notin 1..s /\ 1..s \subseteq 1..t
    BY <1>1 DEF Tunnels
  <2>2. IsFiniteSet(S \cap 1..t)
    <3>1. IsFiniteSet(1..t)
      BY <2>1, FS_Interval
    <3> QED
      BY <3>1, FS_Subset
  <2>3. S \cap 1..s \subseteq S \cap 1..t /\ t \in S \cap 1..t /\ t \notin S \cap 1..s
    BY <1>1, <2>1
  <2> QED
    BY <2>2, <2>3, FS_Subset
<1>2. ASSUME NEW s \in Tunnels, NEW t \in Tunnels, s # t, PortsOf(S)[s] # 0
      PROVE  PortsOf(S)[s] # PortsOf(S)[t]
  <2>1. s \in S /\ PortsOf(S)[s] = Cardinality(S \cap 1..s)
    BY <1>2 DEF PortsOf
  <2>2. CASE t \notin S
    BY <1>2, <2>2 DEF PortsOf
  <2>3. CASE t \in S
    <3>1. s < t \/ t < s
      BY <1>2 DEF Tunnels
    <3>2. PortsOf(S)[t] = Cardinality(S \cap 1..t)
      BY <2>3 DEF PortsOf
    <3>3. CASE s < t
      BY <1>1, <2>1, <2>3, <3>2, <3>3
    <3>4. CASE t < s
      BY <1>1, <2>1, <2>3, <3>2, <3>4
    <3> QED
      BY <3>1, <3>3, <3>4
  <2> QED
    BY <2>2, <2>3
<1> QED
  BY <1>2 DEF Distinct, IsPortMap, PortsOf

(* A full apply is the only writer of inbounds, and nobody else touches    *)
(* what it knows.                                                          *)
LEMMA PortsStep ==
  ASSUME TypeOK, ApplyPorts, [Next]_vars
  PROVE  ApplyPorts'
<1> USE DEF At, Goto, syncVars, xrayVars
<1>0. Sync \in Procs /\ pc \in [Procs -> Labels] /\ PcTypeOK
  BY ProcFacts DEF TypeOK, TargetTypeOK, CtlTypeOK, PcTypeOK
<1>1. CASE SyncStart
  <2>1. plan' = PortsOf(file) /\ ins' = ins /\ pc'[Sync] \in {"drift", "apply"}
    BY <1>0, <1>1 DEF SyncStart
  <2> QED
    BY <2>1, PlanDistinct DEF ApplyPorts, TypeOK, IsPortMap, Distinct
<1>2. CASE DriftCheck \/ ApplyBegin \/ Commit
  <2>1. UNCHANGED <<ins, plan>> /\ pc'[Sync] \in {"idle", "apply", "out-list"}
    BY <1>0, <1>2 DEF DriftCheck, ApplyBegin, Commit, Read, Unlock
  <2> QED
    BY <2>1 DEF ApplyPorts, IsPortMap, Distinct
<1>3. CASE ApplyPlans
  BY <1>0, <1>3, ApplyKeepsPorts
<1>4. ASSUME UNCHANGED <<ins, plan, left, failed>>, pc'[Sync] = pc[Sync]
      PROVE  ApplyPorts'
  BY <1>4 DEF ApplyPorts, IsPortMap, Distinct, Fits
<1>5. ASSUME NEW w \in Tunnels, WorkerStep(w)
      PROVE  ApplyPorts'
  <2>1. w # Sync /\ Moving(w)
    BY <1>0, <1>5, WorkerMoves, ProcFacts
  <2>2. pc'[Sync] = pc[Sync] /\ UNCHANGED <<plan, left, failed>>
    BY <1>0, <1>5, <2>1, WorkerLeaves DEF Moving, Moves
  <2>3. UNCHANGED ins
    <3>1. CASE Repair(w)
      BY <3>1 DEF Repair, RepairSkip, RepairBegin, RepairList, RemoveRuleStep, RemoveOutboundStep, RestoreRuleStep,
         RepairAdd, RepairAddRule, RepairEnd, CappedAdd, CheckCap, SendAdd, Read, AddOutbound, RemoveOutbound,
         AddRule, RemoveRule
    <3>2. CASE Rejoin(w)
      BY <3>2 DEF Rejoin, RejoinView, RejoinBegin, RemoveRuleStep, RemoveOutboundStep, RestoreRuleStep,
         RejoinAdd, RejoinAddRule, RejoinUndoOut, RejoinUndoAdd, RejoinEnd, CappedAdd, CheckCap, SendAdd, Read,
         AddOutbound, RemoveOutbound, AddRule, RemoveRule
    <3> QED
      BY <1>5, <3>1, <3>2 DEF WorkerStep, StartCheck, ProbeFails, ProbeSucceeds
  <2> QED
    BY <1>4, <2>2, <2>3
<1>6. CASE Restart
  <2>1. CASE RestartXray /\ UNCHANGED <<pc, syncVars>>
    BY <2>1 DEF RestartXray, ApplyPorts, IsPortMap, Distinct, Fits, NoPorts
  <2>2. CASE RestartScd
    BY <1>0, <2>2 DEF RestartScd, ApplyPorts, IsPortMap, Distinct, NoPorts
  <2> QED
    BY <1>6, <2>1, <2>2 DEF Restart
<1>7. CASE TickStart \/ Edit \/ UNCHANGED vars
  BY <1>4, <1>7 DEF TickStart, Edit, vars, targetVars
<1> QED
  BY <1>1, <1>2, <1>3, <1>5, <1>6, <1>7 DEF Next, SyncStep

(* No two inbounds of a VLESS source listen on one port, although an edit  *)
(* shifts the ports of the tunnels behind it and an apply may fail half    *)
(* way (BuildSource, apply.Inbounds).                                      *)
THEOREM InboundsApart == Spec => []PortsDistinct
<1>1. Init => ApplyPorts
  BY ProcFacts DEF Init, TargetInit, XrayInit, ApplyPorts, IsPortMap, Distinct, NoPorts
<1>2. TypeOK /\ ApplyPorts /\ [Next]_vars => ApplyPorts'
  BY PortsStep
<1>3. ApplyPorts => PortsDistinct
  BY DEF ApplyPorts, Distinct, PortsDistinct
<1>4. Spec => []TypeOK
  BY TypeCorrect
<1> QED
  BY <1>1, <1>2, <1>3, <1>4, PTL DEF Spec
=============================================================================
