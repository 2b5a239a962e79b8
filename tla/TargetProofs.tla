---------------------------- MODULE TargetProofs ----------------------------
(***************************************************************************)
(* What every step of the monitor (module Target) and of the full apply    *)
(* (module FullApply) does to the control state: it moves one process, and *)
(* it takes, keeps or releases the target lock as the code does; and how   *)
(* far it takes Xray from memory while no call fails (WorkerHas, SyncHas,  *)
(* ApplyHas).  The theorems about whole sources rest on these lemmas.      *)
(***************************************************************************)
EXTENDS FullApply, FiniteSetTheorems, TLAPS

(* The program counters have their type.                                   *)
PcTypeOK == pc \in [Procs -> Labels]

(* LockTarget, state.go: a process is inside a critical section only while *)
(* it holds the lock of the target.                                        *)
LockHeld == \A p \in Procs : Mutating(p) => lock = p

(* Process p goes to l; it keeps the lock as it is, takes the free lock,   *)
(* or releases its own.                                                    *)
Moves(p, l) ==
  /\ pc' = [pc EXCEPT ![p] = l]
  /\ l \in Labels
  /\ \/ lock' = lock /\ (Mutating(p) \/ l \in FreePC)
     \/ lock = Nobody /\ lock' = p
     \/ Mutating(p) /\ lock' = Nobody /\ l \in FreePC

Moving(p) == \E l \in Labels : Moves(p, l)

(* The sync is not a tunnel worker, and nobody is not a process.           *)
LEMMA ProcFacts ==
  /\ Sync \notin Tunnels /\ Sync \in Procs
  /\ Nobody \notin Procs
  /\ Tunnels \subseteq Procs
  BY XrayAssumption DEF Sync, Nobody, Procs, Tunnels

(* A move keeps the lock discipline.                                       *)
LEMMA MoveKeepsLock ==
  ASSUME PcTypeOK, LockHeld, NEW p \in Procs, Moving(p)
  PROVE  PcTypeOK' /\ LockHeld'
<1>1. PICK l \in Labels : Moves(p, l)
  BY DEF Moving
<1>2. PcTypeOK'
  BY <1>1 DEF Moves, PcTypeOK
<1>3. \A q \in Procs : pc'[q] = IF q = p THEN l ELSE pc[q]
  BY <1>1 DEF Moves, PcTypeOK
<1>4. ASSUME NEW q \in Procs, Mutating(q)'
      PROVE  lock' = q
  BY <1>1, <1>3, <1>4, ProcFacts DEF Moves, Mutating, LockHeld
<1> QED
  BY <1>2, <1>4 DEF LockHeld

(* A step of a repair (repair.go) moves its worker and treats the lock as  *)
(* its own.                                                                *)
LEMMA RepairMoves ==
  ASSUME PcTypeOK, NEW w \in Tunnels, Repair(w)
  PROVE  Moving(w)
<1> USE DEF Moving, Moves, Mutating, At, Goto, Then, Unlock, LockTarget
<1> USE DEF Labels, FreePC, RepairPC
<1>1. CASE RepairSkip(w)
  BY <1>1 DEF RepairSkip
<1>2. CASE RepairBegin(w)
  BY <1>2 DEF RepairBegin
<1>3. CASE RepairList(w)
  BY <1>3 DEF RepairList
<1>4. CASE RemoveRuleStep(w, "repair-rm-rule", "repair-rm-out")
  BY <1>4 DEF RemoveRuleStep
<1>5. CASE RemoveOutboundStep(w, "repair-rm-out", "repair-add", "repair-restore")
  BY <1>5 DEF RemoveOutboundStep
<1>6. CASE RestoreRuleStep(w, "repair-restore", "repair-failed")
  BY <1>6 DEF RestoreRuleStep
<1>7. CASE RepairAdd(w)
  BY <1>7 DEF RepairAdd, CappedAdd, CheckCap, SendAdd, PcTypeOK
<1>8. CASE RepairAddRule(w)
  BY <1>8 DEF RepairAddRule
<1>9. CASE RepairEnd(w)
  BY <1>9 DEF RepairEnd
<1> QED
  BY <1>1, <1>2, <1>3, <1>4, <1>5, <1>6, <1>7, <1>8, <1>9 DEF Repair

(* A step of a rejoin (repair.go) moves its worker and treats the lock as  *)
(* its own.                                                                *)
LEMMA RejoinMoves ==
  ASSUME PcTypeOK, NEW w \in Tunnels, Rejoin(w)
  PROVE  Moving(w)
<1> USE DEF Moving, Moves, Mutating, At, Goto, Then, Unlock, LockTarget
<1> USE DEF Labels, FreePC, RejoinPC
<1>1. CASE RejoinView(w)
  BY <1>1 DEF RejoinView
<1>2. CASE RejoinBegin(w)
  BY <1>2 DEF RejoinBegin
<1>3. CASE RemoveRuleStep(w, "rejoin-rm-rule", "rejoin-rm-out")
  BY <1>3 DEF RemoveRuleStep
<1>4. CASE RemoveOutboundStep(w, "rejoin-rm-out", "rejoin-add", "rejoin-restore")
  BY <1>4 DEF RemoveOutboundStep
<1>5. CASE \/ RestoreRuleStep(w, "rejoin-restore", "rejoin-failed")
           \/ RestoreRuleStep(w, "rejoin-undo-rule", "rejoin-failed")
  BY <1>5 DEF RestoreRuleStep
<1>6. CASE RejoinAdd(w)
  BY <1>6 DEF RejoinAdd, CappedAdd, CheckCap, SendAdd, PcTypeOK
<1>7. CASE RejoinAddRule(w)
  BY <1>7 DEF RejoinAddRule
<1>8. CASE RejoinUndoOut(w)
  BY <1>8 DEF RejoinUndoOut
<1>9. CASE RejoinUndoAdd(w)
  BY <1>9 DEF RejoinUndoAdd, CappedAdd, CheckCap, SendAdd, PcTypeOK
<1>10. CASE RejoinEnd(w)
  BY <1>10 DEF RejoinEnd
<1> QED
  BY <1>1, <1>2, <1>3, <1>4, <1>5, <1>6, <1>7, <1>8, <1>9, <1>10 DEF Rejoin

(* A check (checkTunnel, tunnels.go) moves its worker without the lock.    *)
LEMMA CheckMoves ==
  ASSUME PcTypeOK, NEW w \in Tunnels, NEW next \in {"repair", "replace"},
         StartCheck(w) \/ ProbeFails(w, next) \/ ProbeSucceeds(w)
  PROVE  Moving(w)
  BY DEF Moving, Moves, Mutating, At, Goto, Labels, FreePC,
         StartCheck, ProbeFails, ProbeSucceeds, ProbeOver

(* A step of a full apply (applyPlans, syncer.go) moves the sync under its *)
(* lock.                                                                   *)
LEMMA ApplyMoves ==
  ASSUME PcTypeOK, ApplyPlans
  PROVE  Moving(Sync)
<1> USE ProcFacts DEF Moving, Moves, Mutating, At, Goto, Then
<1> USE DEF Labels, FreePC, ApplyPC
<1>1. CASE OutList \/ InList \/ RuleList
  BY <1>1 DEF OutList, InList, RuleList, ListKind
<1>2. CASE OutRemove
  BY <1>2 DEF OutRemove, Through
<1>3. CASE OutAdd
  BY <1>3 DEF OutAdd, Through, CheckCap, SendAdd, PcTypeOK
<1>4. CASE UndoRemove
  BY <1>4 DEF UndoRemove, Through, PcTypeOK
<1>5. CASE UndoRestore
  BY <1>5 DEF UndoRestore, CheckCap, SendAdd, PcTypeOK
<1>6. CASE InRemove \/ InAdd
  BY <1>6 DEF InRemove, InAdd, Through
<1>7. CASE RuleRemove \/ RuleAdd
  BY <1>7 DEF RuleRemove, RuleAdd, Through
<1> QED
  BY <1>1, <1>2, <1>3, <1>4, <1>5, <1>6, <1>7 DEF ApplyPlans

-----------------------------------------------------------------------------
(* Every step of the monitor and of the full apply keeps the types of      *)
(* module Target, proved part by part: what is in Xray, in memory, in the  *)
(* control state, in the locals of the sync and in those of the tick.      *)

(* The initial and the unprefixed outbound are variants.                   *)
LEMMA InitialType == Initial \in Variants /\ "bare" \in Variants
  BY DEF Initial, Variants

(* An outbound of a tunnel is a tag.                                       *)
LEMMA TagType ==
  ASSUME NEW t \in Tunnels, NEW v \in Variants
  PROVE  <<t, v>> \in Tags
  BY DEF Tags

(* Every call keeps the type of Xray's state.                              *)
LEMMA RpcTypes ==
  ASSUME XrayTypeOK, NEW ok \in BOOLEAN
  PROVE  /\ \A call \in Calls : Read(call, ok) => XrayTypeOK'
         /\ \A tag \in Tags : AddOutbound(tag, ok) \/ RemoveOutbound(tag, ok) => XrayTypeOK'
         /\ \A t \in Tunnels, p \in Ports \cup {0} : AddInbound(t, p, ok) => XrayTypeOK'
         /\ \A t \in Tunnels : RemoveInbound(t, ok) \/ RemoveRule(t, ok) => XrayTypeOK'
         /\ \A t \in Tunnels, v \in Variants : AddRule(t, v, ok) => XrayTypeOK'
<1> USE XrayAssumption DEF XrayTypeOK, Answered, Refused, Lost, Fault
<1>1. \A call \in Calls : Read(call, ok) => XrayTypeOK'
  BY DEF Read
<1>2. \A tag \in Tags : AddOutbound(tag, ok) \/ RemoveOutbound(tag, ok) => XrayTypeOK'
  BY DEF AddOutbound, RemoveOutbound
<1>3. \A t \in Tunnels, p \in Ports \cup {0} : AddInbound(t, p, ok) => XrayTypeOK'
  BY DEF AddInbound
<1>4. \A t \in Tunnels : RemoveInbound(t, ok) \/ RemoveRule(t, ok) => XrayTypeOK'
  BY DEF RemoveInbound, RemoveRule
<1>5. \A t \in Tunnels, v \in Variants : AddRule(t, v, ok) => XrayTypeOK'
  BY DEF AddRule
<1> QED
  BY <1>1, <1>2, <1>3, <1>4, <1>5

(* A step that moves p and leaves memory and the locals alone.             *)
LEMMA QuietTypes ==
  ASSUME TargetTypeOK, XrayTypeOK', NEW p \in Procs, Moving(p), grant' \subseteq Procs,
         UNCHANGED <<memVars, syncVars, tickVars>>
  PROVE  TargetTypeOK'
<1>1. MemTypeOK' /\ SyncTypeOK' /\ TickTypeOK'
  BY DEF TargetTypeOK, MemTypeOK, SyncTypeOK, TickTypeOK, memVars, syncVars, tickVars
<1>2. CtlTypeOK'
  BY DEF TargetTypeOK, CtlTypeOK, Moving, Moves
<1> QED
  BY <1>1, <1>2 DEF TargetTypeOK

(* A process that moves keeps the type of the control state.               *)
LEMMA MovingTypes ==
  ASSUME TargetTypeOK, NEW p \in Procs, Moving(p), grant' \subseteq Procs
  PROVE  CtlTypeOK'
  BY DEF TargetTypeOK, CtlTypeOK, Moving, Moves

(* capped.AddOutbound keeps the types it touches.                          *)
LEMMA CappedAddTypes ==
  ASSUME TargetTypeOK, NEW p \in Procs, NEW tag \in Tags, NEW onOk, NEW onErr, NEW resets \in BOOLEAN,
         CappedAdd(p, tag, onOk, onErr, resets)
  PROVE  XrayTypeOK' /\ grant' \subseteq Procs /\ hashes' \in {hashes, NoHash}
<1>1. CASE CheckCap(p, onErr, resets)
  <2>1. XrayTypeOK'
    BY <1>1, RpcTypes DEF CheckCap, Calls, TargetTypeOK
  <2>2. grant' \subseteq Procs /\ hashes' \in {hashes, NoHash}
    BY <1>1 DEF CheckCap, TargetTypeOK, CtlTypeOK
  <2> QED
    BY <2>1, <2>2
<1>2. ASSUME NEW ok \in BOOLEAN, SendAdd(p, tag, ok)
      PROVE  XrayTypeOK' /\ grant' \subseteq Procs /\ hashes' \in {hashes, NoHash}
  BY <1>2, RpcTypes DEF SendAdd, TargetTypeOK, CtlTypeOK
<1> QED
  BY <1>1, <1>2 DEF CappedAdd

(* A step of a repair (repair.go) keeps every type.                        *)
LEMMA RepairTypes ==
  ASSUME TargetTypeOK, NEW w \in Tunnels, Repair(w)
  PROVE  TargetTypeOK'
<1>0. w \in Procs /\ Moving(w) /\ cur[w] \in Variants
  BY RepairMoves, ProcFacts DEF TargetTypeOK, CtlTypeOK, MemTypeOK, PcTypeOK
<1>1. CASE RepairSkip(w)
  <2>1. XrayTypeOK' /\ grant' \subseteq Procs
    BY <1>1 DEF RepairSkip, TargetTypeOK, XrayTypeOK, CtlTypeOK, xrayVars
  <2> QED
    BY <1>0, <1>1, <2>1, QuietTypes DEF RepairSkip
<1>2. CASE RepairBegin(w)
  <2>1. XrayTypeOK' /\ grant' \subseteq Procs
    BY <1>2, RpcTypes DEF RepairBegin, TargetTypeOK, CtlTypeOK, Calls
  <2>2. MemTypeOK' /\ SyncTypeOK' /\ TickTypeOK'
    <3>1. MemTypeOK'
      BY <1>2 DEF RepairBegin, TargetTypeOK, MemTypeOK
    <3>2. SyncTypeOK'
      BY <1>2 DEF RepairBegin, TargetTypeOK, SyncTypeOK, syncVars
    <3>3. slots' \in {slots, slots - 1} /\ UNCHANGED <<refs, aim, downs>>
      BY <1>2 DEF RepairBegin
    <3>4. TickTypeOK'
      BY <3>3 DEF TargetTypeOK, TickTypeOK
    <3> QED
      BY <3>1, <3>2, <3>4
  <2> QED
    BY <1>0, <2>1, <2>2, MovingTypes DEF TargetTypeOK
<1>3. CASE RepairList(w)
  <2>1. XrayTypeOK' /\ grant' \subseteq Procs
    BY <1>3, RpcTypes DEF RepairList, TargetTypeOK, CtlTypeOK, Calls
  <2>2. MemTypeOK' /\ SyncTypeOK' /\ TickTypeOK'
    BY <1>3 DEF RepairList, TargetTypeOK, MemTypeOK, SyncTypeOK, TickTypeOK, memVars, syncVars,
                tickVars, SetMon
  <2> QED
    BY <1>0, <2>1, <2>2, MovingTypes DEF TargetTypeOK
<1>4. CASE RemoveRuleStep(w, "repair-rm-rule", "repair-rm-out")
  <2>1. XrayTypeOK' /\ grant' \subseteq Procs
    BY <1>4, RpcTypes DEF RemoveRuleStep, TargetTypeOK, CtlTypeOK
  <2> QED
    BY <1>0, <1>4, <2>1, QuietTypes DEF RemoveRuleStep
<1>5. CASE RemoveOutboundStep(w, "repair-rm-out", "repair-add", "repair-restore")
  <2>1. XrayTypeOK' /\ grant' \subseteq Procs
    BY <1>0, <1>5, RpcTypes, TagType DEF RemoveOutboundStep, TargetTypeOK, CtlTypeOK
  <2> QED
    BY <1>0, <1>5, <2>1, QuietTypes DEF RemoveOutboundStep
<1>6. CASE RestoreRuleStep(w, "repair-restore", "repair-failed")
  <2>1. XrayTypeOK' /\ grant' \subseteq Procs
    BY <1>0, <1>6, RpcTypes DEF RestoreRuleStep, TargetTypeOK, CtlTypeOK
  <2> QED
    BY <1>0, <1>6, <2>1, QuietTypes DEF RestoreRuleStep
<1>7. CASE RepairAdd(w)
  <2>1. CappedAdd(w, <<w, "bare">>, "repair-add-rule", "repair-failed", TRUE)
    BY <1>7 DEF RepairAdd
  <2>2. XrayTypeOK' /\ grant' \subseteq Procs /\ hashes' \in {hashes, NoHash}
    BY <1>0, <2>1, CappedAddTypes, TagType, InitialType
  <2>3. MemTypeOK' /\ SyncTypeOK' /\ TickTypeOK'
    BY <1>7, <2>2 DEF RepairAdd, TargetTypeOK, MemTypeOK, SyncTypeOK, TickTypeOK, syncVars, tickVars
  <2> QED
    BY <1>0, <2>2, <2>3, MovingTypes DEF TargetTypeOK
<1>8. CASE RepairAddRule(w)
  <2>1. XrayTypeOK' /\ grant' \subseteq Procs
    BY <1>8, RpcTypes, InitialType DEF RepairAddRule, TargetTypeOK, CtlTypeOK
  <2> QED
    BY <1>0, <1>8, <2>1, QuietTypes DEF RepairAddRule
<1>9. CASE RepairEnd(w)
  <2>1. XrayTypeOK' /\ grant' \subseteq Procs
    BY <1>9 DEF RepairEnd, TargetTypeOK, XrayTypeOK, CtlTypeOK, xrayVars
  <2>2. MemTypeOK' /\ SyncTypeOK' /\ TickTypeOK'
    BY <1>9, InitialType DEF RepairEnd, TargetTypeOK, MemTypeOK, SyncTypeOK, TickTypeOK, syncVars,
                tickVars, SetMon
  <2> QED
    BY <1>0, <2>1, <2>2, MovingTypes DEF TargetTypeOK
<1> QED
  BY <1>1, <1>2, <1>3, <1>4, <1>5, <1>6, <1>7, <1>8, <1>9 DEF Repair

(* A step of a rejoin (repair.go) keeps every type.                        *)
LEMMA RejoinTypes ==
  ASSUME TargetTypeOK, NEW w \in Tunnels, Rejoin(w)
  PROVE  TargetTypeOK'
<1>0. w \in Procs /\ Moving(w) /\ cur[w] \in Variants
  BY RejoinMoves, ProcFacts DEF TargetTypeOK, CtlTypeOK, MemTypeOK, PcTypeOK
<1>1. CASE RejoinView(w)
  <2>1. XrayTypeOK' /\ grant' \subseteq Procs
    BY <1>1 DEF RejoinView, TargetTypeOK, XrayTypeOK, CtlTypeOK, xrayVars
  <2> QED
    BY <1>0, <1>1, <2>1, QuietTypes DEF RejoinView
<1>2. CASE RejoinBegin(w)
  <2>1. XrayTypeOK' /\ grant' \subseteq Procs
    <3>1. XrayTypeOK' \/ UNCHANGED xrayVars
      BY <1>2, RpcTypes DEF RejoinBegin, TargetTypeOK, Calls
    <3> QED
      BY <1>2, <3>1 DEF RejoinBegin, TargetTypeOK, XrayTypeOK, CtlTypeOK, xrayVars
  <2> QED
    BY <1>0, <1>2, <2>1, QuietTypes DEF RejoinBegin
<1>3. CASE RemoveRuleStep(w, "rejoin-rm-rule", "rejoin-rm-out")
  <2>1. XrayTypeOK' /\ grant' \subseteq Procs
    BY <1>3, RpcTypes DEF RemoveRuleStep, TargetTypeOK, CtlTypeOK
  <2> QED
    BY <1>0, <1>3, <2>1, QuietTypes DEF RemoveRuleStep
<1>4. CASE RemoveOutboundStep(w, "rejoin-rm-out", "rejoin-add", "rejoin-restore")
  <2>1. XrayTypeOK' /\ grant' \subseteq Procs
    BY <1>0, <1>4, RpcTypes, TagType DEF RemoveOutboundStep, TargetTypeOK, CtlTypeOK
  <2> QED
    BY <1>0, <1>4, <2>1, QuietTypes DEF RemoveOutboundStep
<1>5. CASE \/ RestoreRuleStep(w, "rejoin-restore", "rejoin-failed")
           \/ RestoreRuleStep(w, "rejoin-undo-rule", "rejoin-failed")
  <2>1. XrayTypeOK' /\ grant' \subseteq Procs
    BY <1>0, <1>5, RpcTypes DEF RestoreRuleStep, TargetTypeOK, CtlTypeOK
  <2> QED
    BY <1>0, <1>5, <2>1, QuietTypes DEF RestoreRuleStep
<1>6. CASE RejoinAdd(w) \/ RejoinUndoAdd(w)
  <2>1. \/ CappedAdd(w, <<w, Initial>>, "rejoin-add-rule", "rejoin-undo-out", TRUE)
        \/ CappedAdd(w, <<w, "bare">>, "rejoin-undo-rule", "rejoin-undo-rule", FALSE)
    BY <1>6 DEF RejoinAdd, RejoinUndoAdd
  <2>2. XrayTypeOK' /\ grant' \subseteq Procs /\ hashes' \in {hashes, NoHash}
    BY <1>0, <2>1, CappedAddTypes, TagType, InitialType
  <2>3. MemTypeOK' /\ SyncTypeOK' /\ TickTypeOK'
    BY <1>6, <2>2 DEF RejoinAdd, RejoinUndoAdd, TargetTypeOK, MemTypeOK, SyncTypeOK, TickTypeOK,
                      syncVars, tickVars
  <2> QED
    BY <1>0, <2>2, <2>3, MovingTypes DEF TargetTypeOK
<1>7. CASE RejoinAddRule(w)
  <2>1. XrayTypeOK' /\ grant' \subseteq Procs
    BY <1>7, RpcTypes, InitialType DEF RejoinAddRule, TargetTypeOK, CtlTypeOK
  <2> QED
    BY <1>0, <1>7, <2>1, QuietTypes DEF RejoinAddRule
<1>8. CASE RejoinUndoOut(w)
  <2>1. XrayTypeOK' /\ grant' \subseteq Procs
    BY <1>8, RpcTypes, TagType, InitialType DEF RejoinUndoOut, TargetTypeOK, CtlTypeOK
  <2> QED
    BY <1>0, <1>8, <2>1, QuietTypes DEF RejoinUndoOut
<1>9. CASE RejoinEnd(w)
  <2>1. XrayTypeOK' /\ grant' \subseteq Procs
    BY <1>9 DEF RejoinEnd, TargetTypeOK, XrayTypeOK, CtlTypeOK, xrayVars
  <2>2. MemTypeOK' /\ SyncTypeOK' /\ TickTypeOK'
    BY <1>9, InitialType DEF RejoinEnd, TargetTypeOK, MemTypeOK, SyncTypeOK, TickTypeOK, syncVars,
                tickVars
  <2> QED
    BY <1>0, <2>1, <2>2, MovingTypes DEF TargetTypeOK
<1> QED
  BY <1>1, <1>2, <1>3, <1>4, <1>5, <1>6, <1>7, <1>8, <1>9 DEF Rejoin

(* A tick takes no more goroutines than there are tunnels.                 *)
LEMMA KnownFinite == IsFiniteSet(Known) /\ Cardinality(Known) \in Nat
<1>1. IsFiniteSet(Tunnels)
  BY XrayAssumption, FS_Interval DEF Tunnels
<1> QED
  BY <1>1, FS_Subset, FS_CardinalityType DEF Known

(* The start of a tick (TunnelTick, tunnels.go) keeps every type.          *)
LEMMA TickTypes ==
  ASSUME TargetTypeOK, TickStart
  PROVE  TargetTypeOK'
<1>1. XrayTypeOK' /\ MemTypeOK' /\ CtlTypeOK' /\ SyncTypeOK'
  BY DEF TickStart, TargetTypeOK, XrayTypeOK, MemTypeOK, CtlTypeOK, SyncTypeOK, xrayVars, memVars, syncVars
<1>2. slots' \in Int
  BY KnownFinite, TargetAssumption DEF TickStart
<1>3. TickTypeOK'
  BY <1>2 DEF TickStart, TargetTypeOK, MemTypeOK, TickTypeOK
<1> QED
  BY <1>1, <1>3 DEF TargetTypeOK

(* A check of a worker (checkTunnel, tunnels.go) keeps every type.         *)
LEMMA CheckTypes ==
  ASSUME TargetTypeOK, NEW w \in Tunnels, NEW next \in {"repair", "replace"},
         StartCheck(w) \/ ProbeFails(w, next) \/ ProbeSucceeds(w)
  PROVE  TargetTypeOK'
<1>0. w \in Procs /\ Moving(w)
  BY CheckMoves, ProcFacts DEF TargetTypeOK, CtlTypeOK, PcTypeOK
<1>1. XrayTypeOK' /\ grant' \subseteq Procs /\ SyncTypeOK'
  BY DEF StartCheck, ProbeFails, ProbeSucceeds, TargetTypeOK, XrayTypeOK, CtlTypeOK, SyncTypeOK,
         xrayVars, syncVars
<1>2. MemTypeOK'
  BY DEF StartCheck, ProbeFails, ProbeSucceeds, TargetTypeOK, MemTypeOK, memVars, SetMon
<1>3. refs' \in [Tunnels -> Ports \cup {0}] /\ aim' \in [Tunnels -> Ports \cup {0}]
  BY DEF StartCheck, ProbeFails, ProbeSucceeds, TargetTypeOK, TickTypeOK, ProbeOver
<1>4. slots' = slots /\ downs' \in {downs, downs + 1} /\ (downs' # downs => downs < MaxDowns)
  BY DEF StartCheck, ProbeFails, ProbeSucceeds
<1>5. TickTypeOK'
  BY <1>3, <1>4, TargetAssumption DEF TargetTypeOK, TickTypeOK
<1> QED
  BY <1>0, <1>1, <1>2, <1>5, MovingTypes DEF TargetTypeOK

(* A step of a full apply (applyPlans, syncer.go) keeps every type.        *)
LEMMA ApplyTypes ==
  ASSUME TargetTypeOK, ApplyPlans
  PROVE  TargetTypeOK'
<1>0. Sync \in Procs /\ Moving(Sync)
  BY ApplyMoves, ProcFacts DEF TargetTypeOK, CtlTypeOK, PcTypeOK
<1>1. /\ OutList \/ InList \/ RuleList => XrayTypeOK'
      /\ OutRemove \/ UndoRemove => XrayTypeOK'
      /\ InRemove \/ InAdd => XrayTypeOK'
      /\ RuleRemove \/ RuleAdd => XrayTypeOK'
  <2> USE DEF TargetTypeOK, Through, xrayVars
  <2>0. UNCHANGED xrayVars => XrayTypeOK'
    BY DEF XrayTypeOK
  <2>1. ASSUME OutList \/ InList \/ RuleList PROVE XrayTypeOK'
    BY <2>1, RpcTypes DEF OutList, InList, RuleList, ListKind, Calls
  <2>2. ASSUME OutRemove \/ UndoRemove PROVE XrayTypeOK'
    BY <2>0, <2>2, RpcTypes, TagType, InitialType DEF OutRemove, UndoRemove, SyncTypeOK
  <2>3. ASSUME InRemove \/ InAdd PROVE XrayTypeOK'
    BY <2>0, <2>3, RpcTypes DEF InRemove, InAdd, SyncTypeOK
  <2>4. ASSUME RuleRemove \/ RuleAdd PROVE XrayTypeOK'
    BY <2>0, <2>4, RpcTypes, InitialType DEF RuleRemove, RuleAdd, SyncTypeOK
  <2> QED
    BY <2>1, <2>2, <2>3, <2>4
<1>2. OutAdd => XrayTypeOK' /\ grant' \subseteq Procs /\ hashes' \in {hashes, NoHash}
  <2> SUFFICES ASSUME OutAdd
               PROVE  XrayTypeOK' /\ grant' \subseteq Procs /\ hashes' \in {hashes, NoHash}
    OBVIOUS
  <2>1. CASE Through("out-add", "in-list")
    BY <2>1 DEF Through, TargetTypeOK, XrayTypeOK, CtlTypeOK, xrayVars, memVars
  <2>2. CASE CheckCap(Sync, "undo-remove", FALSE)
    BY <1>0, <2>2, RpcTypes DEF CheckCap, TargetTypeOK, CtlTypeOK, Calls
  <2>3. ASSUME NEW t \in Tunnels, NEW ok \in BOOLEAN, SendAdd(Sync, <<t, Initial>>, ok)
        PROVE  XrayTypeOK' /\ grant' \subseteq Procs /\ hashes' \in {hashes, NoHash}
    BY <2>3, RpcTypes, TagType, InitialType DEF SendAdd, TargetTypeOK, CtlTypeOK
  <2> QED
    BY <2>1, <2>2, <2>3 DEF OutAdd
<1>3. UndoRestore => XrayTypeOK' /\ grant' \subseteq Procs /\ hashes' \in {hashes, NoHash}
  <2> SUFFICES ASSUME UndoRestore
               PROVE  XrayTypeOK' /\ grant' \subseteq Procs /\ hashes' \in {hashes, NoHash}
    OBVIOUS
  <2>1. CASE UNCHANGED <<xrayVars, memVars, grant>>
    BY <2>1 DEF TargetTypeOK, XrayTypeOK, CtlTypeOK, xrayVars, memVars
  <2>2. CASE CheckCap(Sync, "in-list", FALSE)
    BY <1>0, <2>2, RpcTypes DEF CheckCap, TargetTypeOK, CtlTypeOK, Calls
  <2>3. ASSUME NEW tag \in backups, NEW ok \in BOOLEAN, SendAdd(Sync, tag, ok)
        PROVE  XrayTypeOK' /\ grant' \subseteq Procs /\ hashes' \in {hashes, NoHash}
    BY <2>3, RpcTypes DEF SendAdd, TargetTypeOK, CtlTypeOK, SyncTypeOK
  <2>4. CASE Read("List", FALSE) /\ grant' = grant \ {Sync} /\ UNCHANGED memVars
    BY <2>4, RpcTypes DEF TargetTypeOK, CtlTypeOK, Calls, memVars
  <2> QED
    BY <2>1, <2>2, <2>3, <2>4 DEF UndoRestore
<1>4. XrayTypeOK' /\ grant' \subseteq Procs /\ hashes' \in {hashes, NoHash}
  <2>1. OutAdd \/ UndoRestore \/ (UNCHANGED grant /\ UNCHANGED hashes)
    BY DEF ApplyPlans, OutList, InList, RuleList, ListKind, OutRemove, UndoRemove, InRemove, InAdd,
           RuleRemove, RuleAdd, Through, memVars
  <2> QED
    BY <1>1, <1>2, <1>3, <2>1 DEF ApplyPlans, TargetTypeOK, CtlTypeOK
<1>5. UNCHANGED <<port, cur, mon, repairErr, plan, tickVars>>
  BY DEF ApplyPlans, OutList, InList, RuleList, ListKind, OutRemove, OutAdd, UndoRemove, UndoRestore,
         InRemove, InAdd, RuleRemove, RuleAdd, Through, memVars, syncVars
<1>6. MemTypeOK' /\ TickTypeOK'
  BY <1>4, <1>5 DEF TargetTypeOK, MemTypeOK, TickTypeOK, tickVars
<1>7. SyncTypeOK'
  <2> USE DEF TargetTypeOK, SyncTypeOK, XrayTypeOK, Through, syncVars, NoteFailure
  <2>1. CASE OutList \/ InList \/ RuleList
    BY <2>1 DEF OutList, InList, RuleList, ListKind
  <2>2. CASE OutRemove \/ UndoRemove
    BY <2>2 DEF OutRemove, UndoRemove
  <2>3. CASE OutAdd
    BY <2>3 DEF OutAdd
  <2>4. CASE UndoRestore
    BY <2>4 DEF UndoRestore
  <2>5. CASE InRemove \/ InAdd
    BY <2>5 DEF InRemove, InAdd
  <2>6. CASE RuleRemove \/ RuleAdd
    BY <2>6 DEF RuleRemove, RuleAdd
  <2> QED
    BY <2>1, <2>2, <2>3, <2>4, <2>5, <2>6 DEF ApplyPlans
<1> QED
  BY <1>0, <1>4, <1>6, <1>7, MovingTypes DEF TargetTypeOK

-----------------------------------------------------------------------------
(* The ports of the inbounds.                                              *)

(* No two tunnels on one port.                                             *)
Distinct(f) == \A s, t \in Tunnels : s # t /\ f[s] # 0 => f[s] # f[t]

(* Every inbound is on the port f gives its tunnel.                        *)
Fits(f) == \A t \in Tunnels : ins[t] \in {0, f[t]}

IsPortMap(f) == f = [t \in Tunnels |-> f[t]]

(* The inbounds during a full apply.                                       *)
ApplyPorts ==
  /\ IsPortMap(ins) /\ IsPortMap(plan)
  /\ Distinct(ins) /\ Distinct(plan)
  /\ pc[Sync] = "in-remove" => \A t \in Tunnels : ins[t] # 0 => t \in left
  /\ pc[Sync] = "in-add" => Fits(plan)
  /\ pc[Sync] \in {"rule-list", "rule-remove", "rule-add", "commit"} /\ ~failed => Fits(plan)

(* apply.Inbounds (inbounds.go) removes every inbound it listed before it  *)
(* adds the first one of the plan, so no step of a full apply puts two     *)
(* inbounds on one port.                                                   *)
LEMMA ApplyKeepsPorts ==
  ASSUME PcTypeOK, ApplyPorts, ApplyPlans
  PROVE  ApplyPorts'
<1> USE DEF At, Goto, Then
<1>0. Sync \in Procs /\ pc \in [Procs -> Labels]
  BY ProcFacts DEF PcTypeOK
<1>1. CASE OutList \/ OutRemove \/ OutAdd \/ UndoRemove \/ UndoRestore
  <2>1. UNCHANGED <<ins, plan>>
    BY <1>1 DEF OutList, OutRemove, OutAdd, UndoRemove, UndoRestore, ListKind, Through, Read, CheckCap, SendAdd,
       AddOutbound, RemoveOutbound, xrayVars, syncVars
  <2>2. pc'[Sync] \in {"out-remove", "out-add", "undo-remove", "undo-restore", "in-list"}
    BY <1>0, <1>1 DEF OutList, OutRemove, OutAdd, UndoRemove, UndoRestore, ListKind, Through, CheckCap, SendAdd
  <2> QED
    BY <2>1, <2>2 DEF ApplyPorts, IsPortMap, Distinct
<1>2. CASE InList
  <2>1. UNCHANGED <<ins, plan>> /\ left' = {t \in Tunnels : ins[t] # 0}
    BY <1>2 DEF InList, ListKind, Read
  <2>2. pc'[Sync] = "in-remove" \/ (pc'[Sync] = "rule-list" /\ failed')
    BY <1>0, <1>2 DEF InList, ListKind, NoteFailure
  <2> QED
    BY <2>1, <2>2 DEF ApplyPorts, IsPortMap, Distinct
<1>3. CASE InRemove
  <2>1. CASE left = {} /\ Through("in-remove", "in-add")
    <3>1. UNCHANGED <<ins, plan>> /\ pc[Sync] = "in-remove" /\ pc'[Sync] = "in-add"
      BY <1>0, <2>1 DEF Through, xrayVars, syncVars
    <3>2. \A t \in Tunnels : ins[t] = 0
      BY <2>1, <3>1 DEF ApplyPorts
    <3> QED
      BY <3>1, <3>2 DEF ApplyPorts, IsPortMap, Distinct, Fits
  <2>2. ASSUME NEW t \in left, NEW ok \in BOOLEAN, pc[Sync] = "in-remove", RemoveInbound(t, ok),
               Then(Sync, ok, "in-remove", "rule-list"), left' = left \ {t}, NoteFailure(ok), UNCHANGED plan
        PROVE  ApplyPorts'
    <3>1. ins' = ins \/ ins' = [ins EXCEPT ![t] = 0]
      BY <2>2 DEF RemoveInbound
    <3>2. ok => ins' = [ins EXCEPT ![t] = 0]
      BY <2>2 DEF RemoveInbound
    <3>3. IsPortMap(ins)' /\ \A u \in Tunnels : ins'[u] \in {0, ins[u]} /\ (u # t => ins'[u] = ins[u])
      BY <3>1 DEF ApplyPorts, IsPortMap
    <3>4. Distinct(ins)'
      BY <3>3 DEF ApplyPorts, Distinct
    <3>5. (ok /\ pc'[Sync] = "in-remove") \/ (pc'[Sync] = "rule-list" /\ failed')
      BY <1>0, <2>2 DEF NoteFailure
    <3>6. ok => \A u \in Tunnels : ins'[u] # 0 => u \in left'
      BY <2>2, <3>2 DEF ApplyPorts, IsPortMap
    <3> QED
      BY <2>2, <3>3, <3>4, <3>5, <3>6 DEF ApplyPorts, IsPortMap, Distinct
  <2> QED
    BY <1>3, <2>1, <2>2 DEF InRemove
<1>4. CASE InAdd
  <2>0. pc[Sync] = "in-add" /\ Fits(plan)
    BY <1>4 DEF InAdd, Through, ApplyPorts
  <2>1. CASE Through("in-add", "rule-list")
    <3>1. UNCHANGED <<ins, plan>> /\ pc'[Sync] = "rule-list"
      BY <1>0, <2>1 DEF Through, xrayVars, syncVars
    <3> QED
      BY <2>0, <3>1 DEF ApplyPorts, IsPortMap, Distinct, Fits
  <2>2. ASSUME NEW t \in Tunnels, NEW ok \in BOOLEAN, AddInbound(t, plan[t], ok),
               Then(Sync, ok, "in-add", "rule-list"), UNCHANGED plan
        PROVE  ApplyPorts'
    <3>1. ins' = ins \/ ins' = [ins EXCEPT ![t] = plan[t]] \/ ins' = [ins EXCEPT ![t] = IF @ = 0 THEN plan[t] ELSE @]
      BY <2>2 DEF AddInbound
    <3>2. IsPortMap(ins)' /\ Fits(plan)'
      BY <2>0, <2>2, <3>1 DEF ApplyPorts, IsPortMap, Fits
    <3>3. Distinct(ins)'
      BY <2>2, <3>2 DEF ApplyPorts, Distinct, Fits
    <3>4. pc'[Sync] \in {"in-add", "rule-list"}
      BY <1>0, <2>2
    <3> QED
      BY <2>2, <3>2, <3>3, <3>4 DEF ApplyPorts, IsPortMap, Distinct
  <2> QED
    BY <1>4, <2>1, <2>2 DEF InAdd
<1>5. CASE RuleList \/ RuleRemove \/ RuleAdd
  <2>1. UNCHANGED <<ins, plan>>
    BY <1>5 DEF RuleList, RuleRemove, RuleAdd, ListKind, Through, Read, AddRule, RemoveRule, xrayVars, syncVars
  <2>2. /\ pc[Sync] \in {"rule-list", "rule-remove", "rule-add"}
        /\ pc'[Sync] \in {"rule-remove", "rule-add", "commit"}
    BY <1>0, <1>5 DEF RuleList, RuleRemove, RuleAdd, ListKind, Through
  <2>3. failed => failed'
    BY <1>5 DEF RuleList, RuleRemove, RuleAdd, ListKind, Through, NoteFailure, syncVars
  <2> QED
    BY <2>1, <2>2, <2>3 DEF ApplyPorts, IsPortMap, Distinct, Fits
<1> QED
  BY <1>1, <1>2, <1>3, <1>4, <1>5 DEF ApplyPlans

-----------------------------------------------------------------------------
(* A full apply.  As long as no kind has failed, the sync knows what its   *)
(* kinds have put into Xray, unless Xray restarts.                         *)

Planned == {t \in Tunnels : plan[t] # 0}
InPC == {"in-list", "in-remove", "in-add"}
RulePC == {"rule-list", "rule-remove", "rule-add", "commit"}

(* The inbounds and rules of the plan for the tunnels of S.                *)
PlanOn(S) == [t \in Tunnels |-> IF t \in S THEN plan[t] ELSE 0]
RouteOn(S) == [t \in Tunnels |-> IF t \in S THEN Initial ELSE "none"]

ApplyHas ==
  /\ pc[Sync] = "out-remove" => outs \subseteq todo
  /\ pc[Sync] \in {"out-remove", "in-remove", "rule-remove"} => added = {}
  /\ pc[Sync] \in {"out-add", "in-add", "rule-add"} => added \subseteq Planned
  /\ pc[Sync] = "out-add" => outs = added \X {Initial}
  /\ pc[Sync] \in InPC \cup RulePC => outs = Planned \X {Initial}
  /\ pc[Sync] = "in-remove" => left = {t \in Tunnels : ins[t] # 0}
  /\ pc[Sync] = "in-add" => ins = PlanOn(added)
  /\ pc[Sync] \in RulePC => ins = plan
  /\ pc[Sync] = "rule-remove" => left = {t \in Tunnels : rules[t] # "none"}
  /\ pc[Sync] = "rule-add" => rules = RouteOn(added)
  /\ pc[Sync] = "commit" => rules = RouteOn(Planned)
ApplyKnown == failed \/ ApplyHas

(* The sync knows as much after a step of anyone else.                     *)
LEMMA ApplyStays ==
  ASSUME PcTypeOK, LockHeld, ApplyKnown, NEW p \in Procs, p # Sync, Moving(p),
         Mutating(p) \/ UNCHANGED <<outs, ins, rules>>,
         UNCHANGED <<plan, todo, left, added, failed>>
  PROVE  ApplyKnown' /\ pc'[Sync] = pc[Sync]
<1>1. pc'[Sync] = pc[Sync]
  BY ProcFacts DEF PcTypeOK, Moving, Moves
<1>2. CASE Mutating(p)
  <2>1. pc[Sync] \in FreePC
    BY <1>2, ProcFacts DEF LockHeld, Mutating
  <2> QED
    BY <1>1, <2>1 DEF ApplyKnown, ApplyHas, FreePC, InPC, RulePC
<1>3. CASE UNCHANGED <<outs, ins, rules>>
  BY <1>1, <1>3 DEF ApplyKnown, ApplyHas, Planned, PlanOn, RouteOn
<1> QED
  BY <1>1, <1>2, <1>3

(* apply.Outbounds (outbounds.go) leaves exactly the plan unless it fails. *)
LEMMA OutboundsKnown ==
  ASSUME TargetTypeOK, ApplyKnown, OutList \/ OutRemove \/ OutAdd \/ UndoRemove \/ UndoRestore
  PROVE  ApplyKnown'
<1> USE DEF At, Goto, Then, InPC, RulePC
<1>0. pc \in [Procs -> Labels] /\ Sync \in Procs /\ outs \subseteq Tags
  BY ProcFacts DEF TargetTypeOK, CtlTypeOK, XrayTypeOK
<1>1. CASE OutList
  BY <1>0, <1>1 DEF OutList, ListKind, NoteFailure, Read, ApplyKnown, ApplyHas
<1>2. CASE OutRemove
  <2>1. CASE todo = {} /\ Through("out-remove", "out-add")
    <3>1. (failed \/ outs = {}) /\ pc'[Sync] = "out-add" /\ UNCHANGED <<outs, added, failed>>
      BY <1>0, <2>1 DEF Through, ApplyKnown, ApplyHas, xrayVars, syncVars
    <3>2. pc[Sync] = "out-remove"
      BY <1>0, <2>1 DEF Through
    <3> QED
      BY <3>1, <3>2 DEF ApplyKnown, ApplyHas
  <2>2. CASE ~(todo = {} /\ Through("out-remove", "out-add"))
    <3>1. PICK tag \in todo, ok \in BOOLEAN :
            /\ RemoveOutbound(tag, ok) /\ Then(Sync, ok, "out-remove", "undo-remove")
            /\ todo' = todo \ {tag} /\ UNCHANGED <<added, failed>> /\ pc[Sync] = "out-remove"
      BY <1>2, <2>2 DEF OutRemove
    <3>2. pc'[Sync] = "undo-remove" \/ (pc'[Sync] = "out-remove" /\ outs' = outs \ {tag})
      BY <1>0, <3>1 DEF RemoveOutbound
    <3> QED
      BY <3>1, <3>2 DEF ApplyKnown, ApplyHas
  <2> QED
    BY <2>1, <2>2
<1>3. CASE OutAdd
  <2>0. pc[Sync] = "out-add"
    BY <1>0, <1>3 DEF OutAdd, Through
  <2>1. CASE Unplaced = {} /\ Through("out-add", "in-list")
    BY <1>0, <2>0, <2>1 DEF Through, Unplaced, xrayVars, syncVars, ApplyKnown, ApplyHas, Planned
  <2>2. ASSUME NEW t \in Tunnels, NEW ok \in BOOLEAN, IsNext(t),
               SendAdd(Sync, <<t, Initial>>, ok), Then(Sync, ok, "out-add", "undo-remove"),
               added' = IF ok THEN added \cup {t} ELSE added,
               UNCHANGED <<plan, failed>>
        PROVE  ApplyKnown'
    <3>1. CASE ok
      <4>1. outs' = outs \cup {<<t, Initial>>} /\ added' = added \cup {t} /\ pc'[Sync] = "out-add"
        BY <1>0, <2>2, <3>1 DEF SendAdd, AddOutbound
      <4>2. plan[t] # 0
        BY <2>2 DEF IsNext, Unplaced
      <4> QED
        BY <2>0, <2>2, <4>1, <4>2 DEF ApplyKnown, ApplyHas, Planned
    <3>2. CASE ~ok
      BY <1>0, <2>0, <2>2, <3>2 DEF ApplyKnown, ApplyHas
    <3> QED
      BY <3>1, <3>2
  <2>3. ASSUME CheckCap(Sync, "undo-remove", FALSE), UNCHANGED <<plan, added, failed>>
        PROVE  ApplyKnown'
    <3>1. outs' = outs /\ pc'[Sync] \in {"out-add", "undo-remove"}
      BY <1>0, <2>0, <2>3 DEF CheckCap, Read
    <3> QED
      BY <2>0, <2>3, <3>1 DEF ApplyKnown, ApplyHas, Planned
  <2> QED
    BY <1>3, <2>1, <2>2, <2>3 DEF OutAdd
<1>4. CASE UndoRemove
  <2>1. pc[Sync] = "undo-remove" /\ pc'[Sync] \in {"undo-remove", "undo-restore"}
    BY <1>0, <1>4 DEF UndoRemove, Through
  <2> QED
    BY <2>1 DEF ApplyKnown, ApplyHas
<1>5. CASE UndoRestore
  <2>1. pc'[Sync] = "undo-restore" \/ (pc'[Sync] = "in-list" /\ failed')
    BY <1>0, <1>5 DEF UndoRestore, CheckCap
  <2> QED
    BY <2>1 DEF ApplyKnown, ApplyHas
<1> QED
  BY <1>1, <1>2, <1>3, <1>4, <1>5

(* apply.Inbounds (inbounds.go) leaves exactly the plan unless it fails.   *)
LEMMA InboundsKnown ==
  ASSUME TargetTypeOK, ApplyKnown, InList \/ InRemove \/ InAdd
  PROVE  ApplyKnown'
<1> USE DEF At, Goto, Then, NoteFailure, InPC, RulePC
<1>0. /\ pc \in [Procs -> Labels] /\ Sync \in Procs
      /\ plan \in [Tunnels -> Ports \cup {0}] /\ ins \in [Tunnels -> Ports \cup {0}]
  BY ProcFacts DEF TargetTypeOK, CtlTypeOK, SyncTypeOK, XrayTypeOK
<1>1. CASE InList
  <2>1. pc[Sync] = "in-list"
    BY <1>0, <1>1 DEF InList, ListKind
  <2>2. PICK ok \in BOOLEAN :
          Read("List", ok) /\ Then(Sync, ok, "in-remove", "rule-list") /\ NoteFailure(ok)
    BY <1>1 DEF InList, ListKind
  <2>3. /\ UNCHANGED <<plan, outs, ins>> /\ added' = {} /\ left' = {t \in Tunnels : ins[t] # 0}
        /\ ok \/ failed'
        /\ ok => pc'[Sync] = "in-remove"
        /\ ~failed' => ~failed
    BY <1>0, <1>1, <2>2 DEF InList, ListKind, Read
  <2> QED
    BY <2>1, <2>3 DEF ApplyKnown, ApplyHas, Planned
<1>2. CASE InRemove
  <2>0. pc[Sync] = "in-remove"
    BY <1>0, <1>2 DEF InRemove, Through
  <2>1. CASE left = {} /\ Through("in-remove", "in-add")
    <3>1. pc'[Sync] = "in-add" /\ UNCHANGED <<outs, ins, rules, plan, added, failed>>
      BY <1>0, <2>1 DEF Through, xrayVars, syncVars
    <3>2. ASSUME ~failed
          PROVE  ins = [t \in Tunnels |-> 0] /\ added = {}
      BY <1>0, <2>0, <2>1, <3>2 DEF ApplyKnown, ApplyHas
    <3> QED
      BY <2>0, <3>1, <3>2 DEF ApplyKnown, ApplyHas, Planned, PlanOn
  <2>2. ASSUME NEW t \in left, NEW ok \in BOOLEAN, RemoveInbound(t, ok),
               Then(Sync, ok, "in-remove", "rule-list"), left' = left \ {t}, NoteFailure(ok),
               UNCHANGED <<plan, added>>
        PROVE  ApplyKnown'
    <3>1. CASE ok
      <4>1. pc'[Sync] = "in-remove" /\ ins' = [ins EXCEPT ![t] = 0] /\ outs' = outs /\ failed' = failed
        BY <1>0, <2>2, <3>1 DEF RemoveInbound, TargetTypeOK, SyncTypeOK
      <4>2. left = {u \in Tunnels : ins[u] # 0} => left' = {u \in Tunnels : ins'[u] # 0}
        BY <1>0, <2>2, <4>1
      <4> QED
        BY <2>0, <2>2, <4>1, <4>2 DEF ApplyKnown, ApplyHas, Planned
    <3>2. CASE ~ok
      BY <2>2, <3>2 DEF ApplyKnown, ApplyHas
    <3> QED
      BY <3>1, <3>2
  <2> QED
    BY <1>2, <2>1, <2>2 DEF InRemove
<1>3. CASE InAdd
  <2>0. pc[Sync] = "in-add"
    BY <1>0, <1>3 DEF InAdd, Through
  <2>1. CASE Unplaced = {} /\ Through("in-add", "rule-list")
    <3>1. pc'[Sync] = "rule-list" /\ UNCHANGED <<outs, ins, rules, plan, added, failed>>
      BY <1>0, <2>1 DEF Through, xrayVars, syncVars
    <3>2. ASSUME added \subseteq Planned
          PROVE  PlanOn(added) = plan
      BY <1>0, <2>1, <3>2 DEF PlanOn, Planned, Unplaced
    <3> QED
      BY <2>0, <3>1, <3>2 DEF ApplyKnown, ApplyHas, Planned
  <2>2. ASSUME NEW t \in Tunnels, NEW ok \in BOOLEAN, IsNext(t), AddInbound(t, plan[t], ok),
               Then(Sync, ok, "in-add", "rule-list"), added' = added \cup {t}, NoteFailure(ok),
               UNCHANGED plan
        PROVE  ApplyKnown'
    <3>1. CASE ok
      <4>1. pc'[Sync] = "in-add" /\ ins' = [ins EXCEPT ![t] = plan[t]] /\ outs' = outs /\ failed' = failed
        BY <1>0, <2>2, <3>1 DEF AddInbound, TargetTypeOK, SyncTypeOK
      <4>2. plan[t] # 0
        BY <2>2 DEF IsNext, Unplaced
      <4>3. ins = PlanOn(added) => ins' = PlanOn(added)'
        BY <2>2, <4>1 DEF PlanOn
      <4> QED
        BY <2>0, <2>2, <4>1, <4>2, <4>3 DEF ApplyKnown, ApplyHas, Planned
    <3>2. CASE ~ok
      BY <2>2, <3>2 DEF ApplyKnown, ApplyHas
    <3> QED
      BY <3>1, <3>2
  <2> QED
    BY <1>3, <2>1, <2>2 DEF InAdd
<1> QED
  BY <1>1, <1>2, <1>3

(* apply.Routing (routing.go) leaves exactly the plan unless it fails.     *)
LEMMA RulesKnown ==
  ASSUME TargetTypeOK, ApplyKnown, RuleList \/ RuleRemove \/ RuleAdd
  PROVE  ApplyKnown'
<1> USE DEF At, Goto, Then, NoteFailure, InPC, RulePC
<1>0. /\ pc \in [Procs -> Labels] /\ Sync \in Procs
      /\ plan \in [Tunnels -> Ports \cup {0}] /\ rules \in [Tunnels -> Variants \cup {"none"}]
  BY ProcFacts DEF TargetTypeOK, CtlTypeOK, SyncTypeOK, XrayTypeOK
<1>1. CASE RuleList
  <2>1. pc[Sync] = "rule-list"
    BY <1>0, <1>1 DEF RuleList, ListKind
  <2>2. PICK ok \in BOOLEAN :
          Read("List", ok) /\ Then(Sync, ok, "rule-remove", "commit") /\ NoteFailure(ok)
    BY <1>1 DEF RuleList, ListKind
  <2>3. /\ UNCHANGED <<plan, outs, ins, rules>> /\ added' = {}
        /\ left' = {t \in Tunnels : rules[t] # "none"}
        /\ ok \/ failed'
        /\ ok => pc'[Sync] = "rule-remove"
        /\ ~failed' => ~failed
    BY <1>0, <1>1, <2>2 DEF RuleList, ListKind, Read
  <2> QED
    BY <2>1, <2>3 DEF ApplyKnown, ApplyHas, Planned
<1>2. CASE RuleRemove
  <2>0. pc[Sync] = "rule-remove"
    BY <1>0, <1>2 DEF RuleRemove, Through
  <2>1. CASE left = {} /\ Through("rule-remove", "rule-add")
    <3>1. pc'[Sync] = "rule-add" /\ UNCHANGED <<outs, ins, rules, plan, added, failed>>
      BY <1>0, <2>1 DEF Through, xrayVars, syncVars
    <3>2. ASSUME ~failed
          PROVE  rules = [t \in Tunnels |-> "none"] /\ added = {}
      BY <1>0, <2>0, <2>1, <3>2 DEF ApplyKnown, ApplyHas
    <3> QED
      BY <2>0, <3>1, <3>2 DEF ApplyKnown, ApplyHas, Planned, RouteOn
  <2>2. ASSUME NEW t \in left, NEW ok \in BOOLEAN, RemoveRule(t, ok),
               Then(Sync, ok, "rule-remove", "commit"), left' = left \ {t}, NoteFailure(ok),
               UNCHANGED <<plan, added>>
        PROVE  ApplyKnown'
    <3>1. CASE ok
      <4>1. /\ pc'[Sync] = "rule-remove" /\ rules' = [rules EXCEPT ![t] = "none"]
            /\ outs' = outs /\ ins' = ins /\ failed' = failed
        BY <1>0, <2>2, <3>1 DEF RemoveRule, TargetTypeOK, SyncTypeOK
      <4>2. left = {u \in Tunnels : rules[u] # "none"} => left' = {u \in Tunnels : rules'[u] # "none"}
        BY <1>0, <2>2, <4>1
      <4> QED
        BY <2>0, <2>2, <4>1, <4>2 DEF ApplyKnown, ApplyHas, Planned
    <3>2. CASE ~ok
      BY <2>2, <3>2 DEF ApplyKnown, ApplyHas
    <3> QED
      BY <3>1, <3>2
  <2> QED
    BY <1>2, <2>1, <2>2 DEF RuleRemove
<1>3. CASE RuleAdd
  <2>0. pc[Sync] = "rule-add"
    BY <1>0, <1>3 DEF RuleAdd, Through
  <2>1. CASE Unplaced = {} /\ Through("rule-add", "commit")
    <3>1. pc'[Sync] = "commit" /\ UNCHANGED <<outs, ins, rules, plan, added, failed>>
      BY <1>0, <2>1 DEF Through, xrayVars, syncVars
    <3>2. ASSUME added \subseteq Planned
          PROVE  added = Planned
      BY <2>1, <3>2 DEF Planned, Unplaced
    <3> QED
      BY <2>0, <3>1, <3>2 DEF ApplyKnown, ApplyHas, Planned, RouteOn
  <2>2. ASSUME NEW t \in Tunnels, NEW ok \in BOOLEAN, IsNext(t), AddRule(t, Initial, ok),
               Then(Sync, ok, "rule-add", "commit"), added' = added \cup {t}, NoteFailure(ok),
               UNCHANGED plan
        PROVE  ApplyKnown'
    <3>1. CASE ok
      <4>1. /\ pc'[Sync] = "rule-add" /\ rules' = [rules EXCEPT ![t] = Initial]
            /\ outs' = outs /\ ins' = ins /\ failed' = failed
        BY <1>0, <2>2, <3>1 DEF AddRule, TargetTypeOK, SyncTypeOK
      <4>2. plan[t] # 0
        BY <2>2 DEF IsNext, Unplaced
      <4>3. rules = RouteOn(added) => rules' = RouteOn(added)'
        BY <2>2, <4>1 DEF RouteOn
      <4> QED
        BY <2>0, <2>2, <4>1, <4>2, <4>3 DEF ApplyKnown, ApplyHas, Planned
    <3>2. CASE ~ok
      BY <2>2, <3>2 DEF ApplyKnown, ApplyHas
    <3> QED
      BY <3>1, <3>2
  <2> QED
    BY <1>3, <2>1, <2>2 DEF RuleAdd
<1> QED
  BY <1>1, <1>2, <1>3

(* A step of a full apply keeps what the sync knows of its own calls.      *)
LEMMA ApplyKnowsOn ==
  ASSUME TargetTypeOK, ApplyKnown, ApplyPlans
  PROVE  ApplyKnown'
  BY OutboundsKnown, InboundsKnown, RulesKnown DEF ApplyPlans

-----------------------------------------------------------------------------
(* Memory and Xray while no call fails.  A process that has the lock knows *)
(* how far its tunnel is from what memory says, and every other tunnel is  *)
(* as memory says.                                                         *)

(* Xray has tunnel t on the variants V, with inbound port i and rule r.    *)
Has(t, V, i, r) ==
  /\ \A v \in Variants : <<t, v>> \in outs <=> v \in V
  /\ ins[t] = i
  /\ rules[t] = r
Placed(t, V, r) == Has(t, V, port[t], r)

AsRecorded(t) == IF port[t] = 0 THEN Placed(t, {}, "none") ELSE Placed(t, {cur[t]}, cur[t])

(* Where a worker only gets after a failed call.                           *)
BadPC == {"repair-restore", "repair-failed", "repair-rule-failed", "rejoin-restore", "rejoin-undo-out",
          "rejoin-undo-add", "rejoin-undo-rule", "rejoin-failed", "rejoin-stuck"}

WorkerHas(w) ==
  /\ pc[w] \notin BadPC
  /\ pc[w] \in RepairPC \cup RejoinPC => port[w] # 0 /\ \A t \in Tunnels \ {w} : AsRecorded(t)
  /\ pc[w] \in {"repair-list", "repair-rm-rule", "rejoin-rm-rule"} => AsRecorded(w)
  /\ pc[w] \in {"repair-rm-out", "rejoin-rm-out"} => Placed(w, {cur[w]}, "none")
  /\ pc[w] \in {"repair-add", "rejoin-add"} => Placed(w, {}, "none")
  /\ pc[w] = "repair-add-rule" => Placed(w, {"bare"}, "none")
  /\ pc[w] = "rejoin-add-rule" => Placed(w, {Initial}, "none")
  /\ pc[w] = "repair-done" => Placed(w, {"bare"}, "bare")
  /\ pc[w] = "rejoin-done" => Placed(w, {Initial}, Initial)

SyncHas ==
  pc[Sync] \in ApplyPC => ~failed /\ pc[Sync] \notin {"undo-remove", "undo-restore"}

FreeMatches == lock = Nobody => \A t \in Tunnels : AsRecorded(t)

(* No call failed in a step after which the count of failures is zero.     *)
LEMMA NoFault ==
  ASSUME TargetTypeOK, faults' = 0
  PROVE  ~Fault /\ (Answered => faults = 0)
<1>1. faults \in Int /\ faults >= 0
  BY XrayAssumption DEF TargetTypeOK, XrayTypeOK
<1> QED
  BY <1>1 DEF Fault, Answered

(* Tunnel t is as recorded, or not, when nothing of it changes.            *)
LEMMA RecordStays ==
  ASSUME NEW t \in Tunnels, ins'[t] = ins[t], rules'[t] = rules[t], port'[t] = port[t], cur'[t] = cur[t],
         \A v \in Variants : <<t, v>> \in outs' <=> <<t, v>> \in outs
  PROVE  AsRecorded(t)' <=> AsRecorded(t)
  BY DEF AsRecorded, Placed, Has

(* What a worker has survives a step of another process p.                 *)
LEMMA OthersHave ==
  ASSUME PcTypeOK, LockHeld, NEW p \in Procs, Moving(p), NEW w \in Tunnels, w # p, WorkerHas(w),
         Mutating(p) \/ UNCHANGED <<outs, ins, rules, port, cur>>
  PROVE  WorkerHas(w)'
<1>1. pc'[w] = pc[w]
  BY ProcFacts DEF Moving, Moves, PcTypeOK
<1>2. CASE Mutating(p)
  <2>1. pc'[w] \in FreePC
    BY <1>1, <1>2, ProcFacts DEF LockHeld, Mutating
  <2> QED
    BY <2>1 DEF WorkerHas, FreePC, RepairPC, RejoinPC, BadPC
<1>3. CASE UNCHANGED <<outs, ins, rules, port, cur>>
  BY <1>1, <1>3 DEF WorkerHas, AsRecorded, Placed, Has
<1> QED
  BY <1>2, <1>3

(* A check (checkTunnel, tunnels.go) touches neither memory's topology nor *)
(* Xray.                                                                   *)
LEMMA CheckMatches ==
  ASSUME TargetTypeOK, LockHeld, faults' = 0, NEW w \in Tunnels,
         NEW next \in {"repair", "replace"}, StartCheck(w) \/ ProbeFails(w, next) \/ ProbeSucceeds(w),
         faults = 0 => FreeMatches
  PROVE  faults = 0 /\ WorkerHas(w)' /\ FreeMatches' /\ UNCHANGED hashes
<1>1. pc'[w] \in FreePC
  BY ProcFacts DEF TargetTypeOK, CtlTypeOK, FreePC, Goto, ProbeOver,
     StartCheck, ProbeFails, ProbeSucceeds
<1>2. UNCHANGED <<outs, ins, rules, faults, port, cur, lock, hashes>>
  BY DEF StartCheck, ProbeFails, ProbeSucceeds, xrayVars, memVars
<1> QED
  BY <1>1, <1>2 DEF WorkerHas, FreeMatches, AsRecorded, Placed, Has, FreePC, RepairPC, RejoinPC, BadPC

(* A repair (repair.go) without a failed call brings its tunnel from one   *)
(* recorded state to the next.                                             *)
LEMMA RepairMatches ==
  ASSUME TargetTypeOK, LockHeld, faults' = 0, NEW w \in Tunnels, Repair(w),
         faults = 0 => FreeMatches /\ WorkerHas(w) /\ (MaxActive # 0 /\ pc[w] = "repair-add" => CapFree)
  PROVE  faults = 0 /\ WorkerHas(w)' /\ FreeMatches' /\ UNCHANGED hashes
<1> USE DEF At, Goto, Then, Unlock, memVars
<1>0. /\ pc \in [Procs -> Labels] /\ w \in Procs /\ cur \in [Tunnels -> Variants]
      /\ ins \in [Tunnels -> Ports \cup {0}] /\ rules \in [Tunnels -> Variants \cup {"none"}]
      /\ ~Fault /\ (Answered => faults = 0) /\ w # Nobody
  BY NoFault, ProcFacts
     DEF TargetTypeOK, CtlTypeOK, MemTypeOK, XrayTypeOK
<1>a. faults = 0 => FreeMatches /\ WorkerHas(w) /\ (pc[w] \in RepairPC => lock = w)
  BY <1>0 DEF LockHeld, Mutating, RepairPC, FreePC
<1>1. CASE RepairSkip(w)
  <2>1. /\ UNCHANGED <<outs, ins, rules, faults, port, cur, lock, hashes>>
        /\ pc'[w] = "idle"
    BY <1>0, <1>1 DEF RepairSkip, xrayVars
  <2> QED
    BY <1>a, <2>1 DEF FreeMatches, WorkerHas, AsRecorded, Placed, Has, BadPC, RepairPC, RejoinPC
<1>2. CASE RepairBegin(w)
  <2>1. /\ UNCHANGED <<outs, ins, rules, port, cur, hashes>> /\ Answered /\ lock = Nobody /\ lock' = w
        /\ pc'[w] = "repair-list" /\ port[w] # 0
    BY <1>0, <1>2 DEF RepairBegin, Read, Refused, LockTarget
  <2> QED
    BY <1>0, <1>a, <2>1 DEF FreeMatches, WorkerHas, AsRecorded, Placed, Has, BadPC
<1>3. CASE RepairList(w)
  <2>1. pc[w] = "repair-list" /\ Answered /\ UNCHANGED <<outs, ins, rules>>
    BY <1>0, <1>3 DEF RepairList, Read, Refused
  <2>2. ins[w] # 0 /\ port[w] # 0
    BY <1>0, <1>a, <2>1 DEF WorkerHas, AsRecorded, Placed, Has, RepairPC
  <2>3. pc'[w] = "repair-rm-rule" /\ UNCHANGED <<lock, port, cur, hashes>>
    BY <1>0, <1>3, <2>2 DEF RepairList, Read, Refused
  <2> QED
    BY <1>0, <1>a, <2>1, <2>3 DEF FreeMatches, WorkerHas, AsRecorded, Placed, Has, BadPC, RepairPC
<1>4. CASE RemoveRuleStep(w, "repair-rm-rule", "repair-rm-out")
  <2>1. /\ pc[w] = "repair-rm-rule" /\ pc'[w] = "repair-rm-out" /\ Answered
        /\ UNCHANGED <<outs, ins, lock, port, cur, hashes>> /\ rules' = [rules EXCEPT ![w] = "none"]
    BY <1>0, <1>4 DEF RemoveRuleStep, RemoveRule, Refused, Lost
  <2>2. \A t \in Tunnels \ {w} : AsRecorded(t)'
    BY <1>0, <1>a, <2>1, RecordStays DEF WorkerHas, RepairPC
  <2>3. Placed(w, {cur[w]}, "none")'
    BY <1>0, <1>a, <2>1 DEF WorkerHas, AsRecorded, Placed, Has, RepairPC
  <2> QED
    BY <1>0, <1>a, <2>1, <2>2, <2>3 DEF FreeMatches, WorkerHas, BadPC, RepairPC
<1>5. CASE RemoveOutboundStep(w, "repair-rm-out", "repair-add", "repair-restore")
  <2>1. /\ pc[w] = "repair-rm-out" /\ pc'[w] = "repair-add" /\ Answered
        /\ UNCHANGED <<rules, ins, lock, port, cur, hashes>> /\ outs' = outs \ {<<w, cur[w]>>}
    BY <1>0, <1>5 DEF RemoveOutboundStep, RemoveOutbound, Refused, Lost
  <2>2. \A t \in Tunnels \ {w} : AsRecorded(t)'
    BY <1>0, <1>a, <2>1, RecordStays DEF WorkerHas, RepairPC
  <2>3. Placed(w, {}, "none")'
    BY <1>0, <1>a, <2>1 DEF WorkerHas, Placed, Has
  <2> QED
    BY <1>0, <1>a, <2>1, <2>2, <2>3 DEF FreeMatches, WorkerHas, BadPC, RepairPC
<1>6. CASE RestoreRuleStep(w, "repair-restore", "repair-failed")
  <2>1. pc[w] = "repair-restore" /\ Answered
    BY <1>0, <1>6 DEF RestoreRuleStep, AddRule, Refused, Lost
  <2> QED
    BY <1>0, <1>a, <2>1 DEF WorkerHas, BadPC
<1>7. CASE RepairAdd(w)
  <2>0. /\ pc[w] = "repair-add" /\ UNCHANGED <<lock, port, cur>>
        /\ \/ CheckCap(w, "repair-failed", TRUE)
           \/ /\ UNCHANGED hashes
              /\ \E ok \in BOOLEAN : AddOutbound(<<w, "bare">>, ok) /\ Then(w, ok, "repair-add-rule", "repair-failed")
    BY <1>0, <1>7 DEF RepairAdd, CappedAdd, SendAdd
  <2>a. CASE CheckCap(w, "repair-failed", TRUE)
    <3>1. Answered /\ UNCHANGED <<outs, ins, rules>>
      BY <1>0, <2>a DEF CheckCap, Read, Refused
    <3>2. UNCHANGED <<pc, hashes>>
      BY <1>0, <1>a, <2>0, <2>a, <3>1 DEF CheckCap, Read, Refused
    <3> QED
      BY <1>0, <1>a, <2>0, <3>1, <3>2, RecordStays DEF FreeMatches, WorkerHas, Placed, Has, Has, BadPC, RepairPC
  <2>b. CASE UNCHANGED hashes /\ \E ok \in BOOLEAN : AddOutbound(<<w, "bare">>, ok) /\ Then(w, ok, "repair-add-rule", "repair-failed")
    <3>1. PICK ok \in BOOLEAN : AddOutbound(<<w, "bare">>, ok) /\ Then(w, ok, "repair-add-rule", "repair-failed")
      BY <2>b
    <3>2. Answered /\ UNCHANGED <<rules, ins>>
      BY <1>0, <3>1 DEF AddOutbound, Refused, Lost
    <3>3. <<w, "bare">> \notin outs
      BY <1>0, <1>a, <2>0, <3>2 DEF WorkerHas, Placed, Has, Has, Variants
    <3>4. outs' = outs \cup {<<w, "bare">>} /\ pc'[w] = "repair-add-rule"
      BY <1>0, <3>1, <3>3 DEF AddOutbound, Refused, Lost
    <3>5. \A t \in Tunnels \ {w} : AsRecorded(t)'
      BY <1>0, <1>a, <2>0, <3>2, <3>4, RecordStays DEF WorkerHas, RepairPC
    <3>6. Placed(w, {"bare"}, "none")'
      BY <1>0, <1>a, <2>0, <3>2, <3>4 DEF WorkerHas, Placed, Has, Has
    <3> QED
      BY <1>0, <1>a, <2>0, <2>b, <3>2, <3>4, <3>5, <3>6 DEF FreeMatches, WorkerHas, BadPC, RepairPC
  <2> QED
    BY <2>0, <2>a, <2>b
<1>8. CASE RepairAddRule(w)
  <2>1. PICK ok \in BOOLEAN : AddRule(w, "bare", ok) /\ Then(w, ok, "repair-done", "repair-rule-failed")
    BY <1>0, <1>8 DEF RepairAddRule
  <2>2. pc[w] = "repair-add-rule" /\ Answered /\ UNCHANGED <<outs, ins, lock, port, cur, hashes>>
    BY <1>0, <1>8, <2>1 DEF RepairAddRule, AddRule, Refused, Lost
  <2>3. rules[w] = "none"
    BY <1>0, <1>a, <2>2 DEF WorkerHas, Placed, Has
  <2>4. rules' = [rules EXCEPT ![w] = "bare"] /\ pc'[w] = "repair-done"
    BY <1>0, <2>1, <2>3 DEF AddRule, Refused, Lost
  <2>5. \A t \in Tunnels \ {w} : AsRecorded(t)'
    BY <1>0, <1>a, <2>2, <2>4, RecordStays DEF WorkerHas, RepairPC
  <2>6. Placed(w, {"bare"}, "bare")'
    BY <1>0, <1>a, <2>2, <2>4 DEF WorkerHas, Placed, Has
  <2> QED
    BY <1>0, <1>a, <2>2, <2>4, <2>5, <2>6 DEF FreeMatches, WorkerHas, BadPC, RepairPC
<1>9. CASE RepairEnd(w)
  <2>1. faults = 0 /\ UNCHANGED <<outs, ins, rules, port, hashes>> /\ pc'[w] = "idle"
    BY <1>0, <1>9 DEF RepairEnd, xrayVars
  <2>2. pc[w] = "repair-done"
    BY <1>a, <1>9, <2>1 DEF RepairEnd, WorkerHas, BadPC
  <2>3. port[w] # 0 /\ cur' = [cur EXCEPT ![w] = "bare"]
    BY <1>a, <1>9, <2>1, <2>2 DEF RepairEnd, WorkerHas, RepairPC
  <2>4. \A t \in Tunnels \ {w} : AsRecorded(t)'
    BY <1>0, <1>a, <2>1, <2>2, <2>3, RecordStays DEF WorkerHas, RepairPC
  <2>5. AsRecorded(w)'
    BY <1>0, <1>a, <2>1, <2>2, <2>3 DEF WorkerHas, AsRecorded, Placed, Has
  <2> QED
    BY <2>1, <2>4, <2>5 DEF FreeMatches, WorkerHas, BadPC, RepairPC, RejoinPC
<1> QED
  BY <1>1, <1>2, <1>3, <1>4, <1>5, <1>6, <1>7, <1>8, <1>9 DEF Repair

(* A rejoin (repair.go) without a failed call does the same.               *)
LEMMA RejoinMatches ==
  ASSUME TargetTypeOK, LockHeld, faults' = 0, NEW w \in Tunnels, Rejoin(w),
         faults = 0 => FreeMatches /\ WorkerHas(w) /\ (MaxActive # 0 /\ pc[w] = "rejoin-add" => CapFree)
  PROVE  faults = 0 /\ WorkerHas(w)' /\ FreeMatches' /\ UNCHANGED hashes
<1> USE DEF At, Goto, Then, Unlock, memVars
<1>0. /\ pc \in [Procs -> Labels] /\ w \in Procs /\ cur \in [Tunnels -> Variants]
      /\ ins \in [Tunnels -> Ports \cup {0}] /\ rules \in [Tunnels -> Variants \cup {"none"}]
      /\ ~Fault /\ (Answered => faults = 0) /\ w # Nobody /\ Initial \in Variants
  BY NoFault, ProcFacts, InitialType
     DEF TargetTypeOK, CtlTypeOK, MemTypeOK, XrayTypeOK
<1>a. faults = 0 => FreeMatches /\ WorkerHas(w) /\ (pc[w] \in RejoinPC => lock = w)
  BY <1>0 DEF LockHeld, Mutating, RejoinPC, FreePC
<1>1. CASE RejoinView(w)
  <2>1. /\ UNCHANGED <<outs, ins, rules, faults, port, cur, lock, hashes>>
        /\ pc'[w] \in {"rejoin", "idle"}
    BY <1>0, <1>1 DEF RejoinView, xrayVars
  <2> QED
    BY <1>a, <2>1 DEF FreeMatches, WorkerHas, AsRecorded, Placed, Has, BadPC, RepairPC, RejoinPC
<1>2. CASE RejoinBegin(w)
  <2>1. CASE ~ShouldRejoin(w)
    <3>1. /\ UNCHANGED <<outs, ins, rules, faults, port, cur, lock, hashes>>
          /\ pc'[w] = "idle"
      BY <1>0, <1>2, <2>1 DEF RejoinBegin, xrayVars
    <3> QED
      BY <1>a, <3>1 DEF FreeMatches, WorkerHas, AsRecorded, Placed, Has, BadPC, RepairPC, RejoinPC
  <2>2. CASE ShouldRejoin(w)
    <3>1. /\ UNCHANGED <<outs, ins, rules, port, cur, hashes>> /\ Answered /\ lock = Nobody /\ lock' = w
          /\ pc'[w] = "rejoin-rm-rule" /\ port[w] # 0
      BY <1>0, <1>2, <2>2 DEF RejoinBegin, Read, Refused, LockTarget, ShouldRejoin
    <3> QED
      BY <1>0, <1>a, <3>1 DEF FreeMatches, WorkerHas, AsRecorded, Placed, Has, BadPC
  <2> QED
    BY <2>1, <2>2
<1>3. CASE RemoveRuleStep(w, "rejoin-rm-rule", "rejoin-rm-out")
  <2>1. /\ pc[w] = "rejoin-rm-rule" /\ pc'[w] = "rejoin-rm-out" /\ Answered
        /\ UNCHANGED <<outs, ins, lock, port, cur, hashes>> /\ rules' = [rules EXCEPT ![w] = "none"]
    BY <1>0, <1>3 DEF RemoveRuleStep, RemoveRule, Refused, Lost
  <2>2. \A t \in Tunnels \ {w} : AsRecorded(t)'
    BY <1>0, <1>a, <2>1, RecordStays DEF WorkerHas, RejoinPC
  <2>3. Placed(w, {cur[w]}, "none")'
    BY <1>0, <1>a, <2>1 DEF WorkerHas, AsRecorded, Placed, Has, RejoinPC
  <2> QED
    BY <1>0, <1>a, <2>1, <2>2, <2>3 DEF FreeMatches, WorkerHas, BadPC, RejoinPC
<1>4. CASE RemoveOutboundStep(w, "rejoin-rm-out", "rejoin-add", "rejoin-restore")
  <2>1. /\ pc[w] = "rejoin-rm-out" /\ pc'[w] = "rejoin-add" /\ Answered
        /\ UNCHANGED <<rules, ins, lock, port, cur, hashes>> /\ outs' = outs \ {<<w, cur[w]>>}
    BY <1>0, <1>4 DEF RemoveOutboundStep, RemoveOutbound, Refused, Lost
  <2>2. \A t \in Tunnels \ {w} : AsRecorded(t)'
    BY <1>0, <1>a, <2>1, RecordStays DEF WorkerHas, RejoinPC
  <2>3. Placed(w, {}, "none")'
    BY <1>0, <1>a, <2>1 DEF WorkerHas, Placed, Has
  <2> QED
    BY <1>0, <1>a, <2>1, <2>2, <2>3 DEF FreeMatches, WorkerHas, BadPC, RejoinPC
<1>5. CASE RejoinAdd(w)
  <2>0. /\ pc[w] = "rejoin-add" /\ UNCHANGED <<lock, port, cur>>
        /\ \/ CheckCap(w, "rejoin-undo-out", TRUE)
           \/ /\ UNCHANGED hashes
              /\ \E ok \in BOOLEAN : AddOutbound(<<w, Initial>>, ok) /\ Then(w, ok, "rejoin-add-rule", "rejoin-undo-out")
    BY <1>0, <1>5 DEF RejoinAdd, CappedAdd, SendAdd
  <2>a. CASE CheckCap(w, "rejoin-undo-out", TRUE)
    <3>1. Answered /\ UNCHANGED <<outs, ins, rules>>
      BY <1>0, <2>a DEF CheckCap, Read, Refused
    <3>2. UNCHANGED <<pc, hashes>>
      BY <1>0, <1>a, <2>0, <2>a, <3>1 DEF CheckCap, Read, Refused
    <3> QED
      BY <1>0, <1>a, <2>0, <3>1, <3>2, RecordStays DEF FreeMatches, WorkerHas, Placed, Has, Has, BadPC, RejoinPC
  <2>b. CASE UNCHANGED hashes /\ \E ok \in BOOLEAN : AddOutbound(<<w, Initial>>, ok) /\ Then(w, ok, "rejoin-add-rule", "rejoin-undo-out")
    <3>1. PICK ok \in BOOLEAN : AddOutbound(<<w, Initial>>, ok) /\ Then(w, ok, "rejoin-add-rule", "rejoin-undo-out")
      BY <2>b
    <3>2. Answered /\ UNCHANGED <<rules, ins>>
      BY <1>0, <3>1 DEF AddOutbound, Refused, Lost
    <3>3. <<w, Initial>> \notin outs
      BY <1>0, <1>a, <2>0, <3>2 DEF WorkerHas, Placed, Has, Has, Variants
    <3>4. outs' = outs \cup {<<w, Initial>>} /\ pc'[w] = "rejoin-add-rule"
      BY <1>0, <3>1, <3>3 DEF AddOutbound, Refused, Lost
    <3>5. \A t \in Tunnels \ {w} : AsRecorded(t)'
      BY <1>0, <1>a, <2>0, <3>2, <3>4, RecordStays DEF WorkerHas, RejoinPC
    <3>6. Placed(w, {Initial}, "none")'
      BY <1>0, <1>a, <2>0, <3>2, <3>4 DEF WorkerHas, Placed, Has, Has
    <3> QED
      BY <1>0, <1>a, <2>0, <2>b, <3>2, <3>4, <3>5, <3>6 DEF FreeMatches, WorkerHas, BadPC, RejoinPC
  <2> QED
    BY <2>0, <2>a, <2>b
<1>6. CASE RejoinAddRule(w)
  <2>1. PICK ok \in BOOLEAN : AddRule(w, Initial, ok) /\ Then(w, ok, "rejoin-done", "rejoin-undo-out")
    BY <1>0, <1>6 DEF RejoinAddRule
  <2>2. pc[w] = "rejoin-add-rule" /\ Answered /\ UNCHANGED <<outs, ins, lock, port, cur, hashes>>
    BY <1>0, <1>6, <2>1 DEF RejoinAddRule, AddRule, Refused, Lost
  <2>3. rules[w] = "none"
    BY <1>0, <1>a, <2>2 DEF WorkerHas, Placed, Has
  <2>4. rules' = [rules EXCEPT ![w] = Initial] /\ pc'[w] = "rejoin-done"
    BY <1>0, <2>1, <2>3 DEF AddRule, Refused, Lost
  <2>5. \A t \in Tunnels \ {w} : AsRecorded(t)'
    BY <1>0, <1>a, <2>2, <2>4, RecordStays DEF WorkerHas, RejoinPC
  <2>6. Placed(w, {Initial}, Initial)'
    BY <1>0, <1>a, <2>2, <2>4 DEF WorkerHas, Placed, Has
  <2> QED
    BY <1>0, <1>a, <2>2, <2>4, <2>5, <2>6 DEF FreeMatches, WorkerHas, BadPC, RejoinPC
<1>7. CASE \/ RejoinUndoOut(w) \/ RejoinUndoAdd(w)
           \/ RestoreRuleStep(w, "rejoin-restore", "rejoin-failed")
           \/ RestoreRuleStep(w, "rejoin-undo-rule", "rejoin-failed")
  <2>1. pc[w] \in BadPC
    BY <1>7 DEF RejoinUndoOut, RejoinUndoAdd, RestoreRuleStep, BadPC
  <2>2. Answered
    BY <1>0, <1>7 DEF RejoinUndoOut, RejoinUndoAdd, RestoreRuleStep, CappedAdd, CheckCap, SendAdd,
       RemoveOutbound, AddOutbound, AddRule, Read, Refused, Lost
  <2> QED
    BY <1>0, <1>a, <2>1, <2>2 DEF WorkerHas
<1>8. CASE RejoinEnd(w)
  <2>1. faults = 0 /\ UNCHANGED <<outs, ins, rules, port, hashes>> /\ pc'[w] = "idle"
    BY <1>0, <1>8 DEF RejoinEnd, xrayVars
  <2>2. pc[w] = "rejoin-done"
    BY <1>a, <1>8, <2>1 DEF RejoinEnd, WorkerHas, BadPC
  <2>3. port[w] # 0 /\ cur' = [cur EXCEPT ![w] = Initial]
    BY <1>a, <1>8, <2>1, <2>2 DEF RejoinEnd, WorkerHas, RejoinPC
  <2>4. \A t \in Tunnels \ {w} : AsRecorded(t)'
    BY <1>0, <1>a, <2>1, <2>2, <2>3, RecordStays DEF WorkerHas, RejoinPC
  <2>5. AsRecorded(w)'
    BY <1>0, <1>a, <2>1, <2>2, <2>3 DEF WorkerHas, AsRecorded, Placed, Has
  <2> QED
    BY <2>1, <2>4, <2>5 DEF FreeMatches, WorkerHas, BadPC, RepairPC, RejoinPC
<1> QED
  BY <1>1, <1>2, <1>3, <1>4, <1>5, <1>6, <1>7, <1>8 DEF Rejoin

(* A full apply (applyPlans, syncer.go) of which no call fails is refused  *)
(* nowhere either: it adds only what it knows to be absent.                *)
LEMMA ApplyMatches ==
  ASSUME TargetTypeOK, LockHeld, faults' = 0, ApplyPlans,
         faults = 0 => SyncHas /\ ApplyHas,
         faults = 0 /\ MaxActive # 0 /\ pc[Sync] = "out-add" /\ Unplaced # {} => CapFree
  PROVE  faults = 0 /\ SyncHas' /\ Mutating(Sync) /\ lock' = Sync /\ UNCHANGED hashes
<1> USE DEF At, Goto, Then, NoteFailure, memVars, xrayVars, syncVars, InPC, RulePC
<1>0. /\ pc \in [Procs -> Labels] /\ Sync \in Procs /\ failed \in BOOLEAN
      /\ outs \subseteq Tags /\ ins \in [Tunnels -> Ports \cup {0}] /\ left \subseteq Tunnels
      /\ rules \in [Tunnels -> Variants \cup {"none"}]
      /\ ~Fault /\ (Answered => faults = 0)
  BY NoFault, ProcFacts
     DEF TargetTypeOK, CtlTypeOK, SyncTypeOK, XrayTypeOK
<1>a. faults = 0 /\ pc[Sync] \in ApplyPC
      => ~failed /\ pc[Sync] \notin {"undo-remove", "undo-restore"} /\ lock = Sync
  BY <1>0 DEF SyncHas, LockHeld, Mutating, ApplyPC, FreePC
<1>b. ASSUME NEW here, NEW next, Through(here, next), here \in ApplyPC,
             next \in ApplyPC \ {"undo-remove", "undo-restore"}
      PROVE  faults = 0 /\ SyncHas' /\ Mutating(Sync) /\ lock' = Sync /\ UNCHANGED hashes
  <2>1. /\ pc[Sync] = here /\ pc'[Sync] = next /\ UNCHANGED <<faults, lock, failed, hashes>>
    BY <1>0, <1>b DEF Through
  <2> QED
    BY <1>a, <1>b, <2>1 DEF SyncHas, Mutating, ApplyPC, FreePC
<1>1. CASE OutList \/ InList \/ RuleList
  <2>1. /\ pc[Sync] \in {"out-list", "in-list", "rule-list"} /\ Answered
        /\ pc'[Sync] \in {"out-remove", "in-remove", "rule-remove"} /\ failed' = failed
        /\ UNCHANGED <<lock, hashes>>
    BY <1>0, <1>1 DEF OutList, InList, RuleList, ListKind, Read, Refused
  <2> QED
    BY <1>0, <1>a, <2>1 DEF SyncHas, Mutating, ApplyPC, FreePC
<1>2. CASE OutRemove
  <2>1. CASE Through("out-remove", "out-add")
    BY <1>b, <2>1 DEF ApplyPC
  <2>2. CASE ~Through("out-remove", "out-add")
    <3>1. /\ pc[Sync] = "out-remove" /\ pc'[Sync] = "out-remove" /\ Answered
          /\ UNCHANGED <<lock, failed, hashes>>
      BY <1>0, <1>2, <2>2 DEF OutRemove, RemoveOutbound, Refused, Lost
    <3> QED
      BY <1>0, <1>a, <3>1 DEF SyncHas, Mutating, ApplyPC, FreePC
  <2> QED
    BY <2>1, <2>2
<1>3. CASE OutAdd
  <2>1. CASE Through("out-add", "in-list")
    BY <1>b, <2>1 DEF ApplyPC
  <2>2. ASSUME NEW t \in Tunnels, NEW ok \in BOOLEAN, IsNext(t), At(Sync, "out-add"),
               SendAdd(Sync, <<t, Initial>>, ok), Then(Sync, ok, "out-add", "undo-remove"),
               UNCHANGED <<lock, failed>>
        PROVE  faults = 0 /\ SyncHas' /\ Mutating(Sync) /\ lock' = Sync /\ UNCHANGED hashes
    <3>1. Answered /\ UNCHANGED hashes
      BY <1>0, <2>2 DEF SendAdd, AddOutbound, Refused, Lost
    <3>2. t \notin added /\ outs = added \X {Initial}
      BY <1>0, <1>a, <2>2, <3>1 DEF ApplyHas, IsNext, Unplaced, ApplyPC
    <3>3. pc'[Sync] = "out-add"
      BY <1>0, <2>2, <3>2 DEF SendAdd, AddOutbound, Refused, Lost
    <3> QED
      BY <1>0, <1>a, <2>2, <3>1, <3>3 DEF SyncHas, Mutating, ApplyPC, FreePC
  <2>3. ASSUME CheckCap(Sync, "undo-remove", FALSE), At(Sync, "out-add"), Unplaced # {}, UNCHANGED <<lock, failed>>
        PROVE  faults = 0 /\ SyncHas' /\ Mutating(Sync) /\ lock' = Sync /\ UNCHANGED hashes
    <3>1. Answered /\ faults = 0
      BY <1>0, <2>3 DEF CheckCap, Read, Refused
    <3>2. UNCHANGED <<pc, hashes>>
      BY <1>0, <2>3, <3>1 DEF CheckCap, Read, Refused
    <3> QED
      BY <1>0, <1>a, <2>3, <3>1, <3>2 DEF SyncHas, Mutating, ApplyPC, FreePC
  <2> QED
    BY <1>3, <2>1, <2>2, <2>3 DEF OutAdd
<1>4. CASE UndoRemove \/ UndoRestore
  <2>1. pc[Sync] \in {"undo-remove", "undo-restore"}
    BY <1>4 DEF UndoRemove, UndoRestore, Through
  <2>2. Answered
    BY <1>0, <1>4 DEF UndoRemove, UndoRestore, Through, CheckCap, SendAdd, AddOutbound, RemoveOutbound,
       Read, Refused, Lost, Answered
  <2> QED
    BY <1>0, <1>a, <2>1, <2>2 DEF ApplyPC
<1>5. CASE InRemove
  <2>1. CASE Through("in-remove", "in-add")
    BY <1>b, <2>1 DEF ApplyPC
  <2>2. ASSUME NEW t \in left, NEW ok \in BOOLEAN, At(Sync, "in-remove"), RemoveInbound(t, ok),
               Then(Sync, ok, "in-remove", "rule-list"), NoteFailure(ok), UNCHANGED <<lock, hashes>>
        PROVE  faults = 0 /\ SyncHas' /\ Mutating(Sync) /\ lock' = Sync /\ UNCHANGED hashes
    <3>1. Answered
      BY <1>0, <2>2 DEF RemoveInbound, Refused, Lost
    <3>2. ins[t] # 0
      BY <1>0, <1>a, <2>2, <3>1 DEF ApplyHas, ApplyPC
    <3>3. ok
      BY <1>0, <2>2, <3>2 DEF RemoveInbound, Refused, Lost
    <3>4. pc'[Sync] = "in-remove" /\ failed' = failed
      BY <1>0, <2>2, <3>3
    <3> QED
      BY <1>0, <1>a, <2>2, <3>1, <3>4 DEF SyncHas, Mutating, ApplyPC, FreePC
  <2> QED
    BY <1>5, <2>1, <2>2 DEF InRemove
<1>6. CASE InAdd
  <2>1. CASE Through("in-add", "rule-list")
    BY <1>b, <2>1 DEF ApplyPC
  <2>2. ASSUME NEW t \in Tunnels, NEW ok \in BOOLEAN, IsNext(t), At(Sync, "in-add"),
               AddInbound(t, plan[t], ok), Then(Sync, ok, "in-add", "rule-list"), NoteFailure(ok),
               UNCHANGED <<lock, hashes>>
        PROVE  faults = 0 /\ SyncHas' /\ Mutating(Sync) /\ lock' = Sync /\ UNCHANGED hashes
    <3>1. Answered
      BY <1>0, <2>2 DEF AddInbound, Refused, Lost
    <3>2. ins[t] = 0
      BY <1>0, <1>a, <2>2, <3>1 DEF ApplyHas, PlanOn, IsNext, Unplaced, ApplyPC
    <3>3. ok
      BY <1>0, <2>2, <3>2 DEF AddInbound, Refused, Lost
    <3>4. pc'[Sync] = "in-add" /\ failed' = failed
      BY <1>0, <2>2, <3>3
    <3> QED
      BY <1>0, <1>a, <2>2, <3>1, <3>4 DEF SyncHas, Mutating, ApplyPC, FreePC
  <2> QED
    BY <1>6, <2>1, <2>2 DEF InAdd
<1>7. CASE RuleRemove
  <2>1. CASE Through("rule-remove", "rule-add")
    BY <1>b, <2>1 DEF ApplyPC
  <2>2. CASE ~Through("rule-remove", "rule-add")
    <3>1. /\ pc[Sync] = "rule-remove" /\ pc'[Sync] = "rule-remove" /\ Answered
          /\ UNCHANGED <<lock, failed, hashes>>
      BY <1>0, <1>7, <2>2 DEF RuleRemove, RemoveRule, Refused, Lost
    <3> QED
      BY <1>0, <1>a, <3>1 DEF SyncHas, Mutating, ApplyPC, FreePC
  <2> QED
    BY <2>1, <2>2
<1>8. CASE RuleAdd
  <2>1. CASE Through("rule-add", "commit")
    BY <1>b, <2>1 DEF ApplyPC
  <2>2. ASSUME NEW t \in Tunnels, NEW ok \in BOOLEAN, IsNext(t), At(Sync, "rule-add"),
               AddRule(t, Initial, ok), Then(Sync, ok, "rule-add", "commit"), NoteFailure(ok),
               UNCHANGED <<lock, hashes>>
        PROVE  faults = 0 /\ SyncHas' /\ Mutating(Sync) /\ lock' = Sync /\ UNCHANGED hashes
    <3>1. Answered
      BY <1>0, <2>2 DEF AddRule, Refused, Lost
    <3>2. rules[t] = "none"
      BY <1>0, <1>a, <2>2, <3>1 DEF ApplyHas, RouteOn, IsNext, Unplaced, ApplyPC
    <3>3. ok
      BY <1>0, <2>2, <3>2 DEF AddRule, Refused, Lost
    <3>4. pc'[Sync] = "rule-add" /\ failed' = failed
      BY <1>0, <2>2, <3>3
    <3> QED
      BY <1>0, <1>a, <2>2, <3>1, <3>4 DEF SyncHas, Mutating, ApplyPC, FreePC
  <2> QED
    BY <1>8, <2>1, <2>2 DEF RuleAdd
<1> QED
  BY <1>1, <1>2, <1>3, <1>4, <1>5, <1>6, <1>7, <1>8 DEF ApplyPlans

(* Tunnel by tunnel or as a whole: Xray holds what memory says.            *)
LEMMA RecordedHolds ==
  ASSUME TargetTypeOK, \A t \in Tunnels : AsRecorded(t)
  PROVE  Holds(port, cur)
<1>1. /\ port \in [Tunnels -> Ports \cup {0}] /\ cur \in [Tunnels -> Variants] /\ outs \subseteq Tags
      /\ ins \in [Tunnels -> Ports \cup {0}] /\ rules \in [Tunnels -> Variants \cup {"none"}]
  BY DEF TargetTypeOK, MemTypeOK, XrayTypeOK
<1>2. ASSUME NEW t \in Tunnels
      PROVE  /\ ins[t] = port[t] /\ rules[t] = IF port[t] # 0 THEN cur[t] ELSE "none"
             /\ \A v \in Variants : <<t, v>> \in outs <=> port[t] # 0 /\ v = cur[t]
  BY DEF AsRecorded, Placed, Has
<1>3. ins = port
  BY <1>1, <1>2
<1>4. rules = [t \in Tunnels |-> IF port[t] # 0 THEN cur[t] ELSE "none"]
  BY <1>1, <1>2
<1>5. outs = {<<t, cur[t]>> : t \in {u \in Tunnels : port[u] # 0}}
  BY <1>1, <1>2 DEF Tags
<1> QED
  BY <1>3, <1>4, <1>5 DEF Holds
=============================================================================
