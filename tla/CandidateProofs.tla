--------------------------- MODULE CandidateProofs ---------------------------
(***************************************************************************)
(* A candidate source, proved for every number of candidates, slots,       *)
(* faults and restarts and every set of files: no RPC of a sync, a repair, *)
(* a rejoin or a replacement takes Xray above maxActive outbounds of the   *)
(* source or puts two of its inbounds on one port; no two of its tunnels   *)
(* in Xray have one key; no candidate in quarantine becomes active; the    *)
(* warnings of gone tunnels fit the empty slots; and while no call fails   *)
(* memory and Xray agree whenever the lock is free.                        *)
(*                                                                         *)
(* None of these is inductive alone.  CheckCap reads Xray in one RPC and   *)
(* the add is the next one; a place found free is still free then only     *)
(* because whoever checked holds the target lock (LockHeld) and every step *)
(* it can take before its add gives the place up (CapGranted).  The ports  *)
(* need what memory knows of Xray at every step of a slot operation        *)
(* (SlotPorts) and what saved hashes mean between operations (SavedPorts). *)
(* Keys and quarantines need the choices themselves: what Rank, Pick and   *)
(* Decide return (PickFits, DecideGood), and that it still holds when a    *)
(* choice is carried out (ActsHold, WorkerHolds, FillHolds, PlanHolds).    *)
(* Memory and Xray differ in the middle of every operation: SlotHas says   *)
(* for each step of a slot operation in which tunnels and by what, and     *)
(* Room that CheckCap never refuses while they agree.                      *)
(***************************************************************************)
EXTENDS CandidateSource, TargetProofs, WellFoundedInduction, SequenceTheorems

(* Where an AddOutbound of a capped source is the next call.               *)
AddPC == {"repair-add", "rejoin-add", "rejoin-undo-add", "out-add", "undo-restore",
          "slot-add", "fill-add"}

(* The sync still has something to add.                                    *)
Ready ==
  /\ At(Sync, "out-add") => Unplaced # {}
  /\ At(Sync, "undo-restore") => backups # {}

(* A granted place is free, and its holder's next call is the add.         *)
CapGranted ==
  /\ grant \subseteq {p \in Procs : pc[p] \in AddPC}
  /\ grant # {} => CapFree
  /\ Sync \in grant => Ready

CapInv == PcTypeOK /\ LockHeld /\ IsFiniteSet(outs) /\ Cap /\ CapGranted

(* What a step of p does to the outbounds and the grants: it adds nothing  *)
(* and ends without a grant, it gets one for a free place, or it spends it *)
(* on one outbound.                                                        *)
Gives(p) == p \notin grant' /\ grant' \subseteq grant /\ outs' \subseteq outs
Gets(p) ==
  /\ CapFree /\ pc[p] \in AddPC /\ (p = Sync => Ready)
  /\ grant' = grant \cup {p}
  /\ UNCHANGED <<outs, pc, plan, added, backups>>
Spends(p) == p \in grant /\ grant' = grant \ {p} /\ \E tag : outs' \subseteq outs \cup {tag}

Capped(p) ==
  /\ Gives(p) \/ Gets(p) \/ Spends(p)
  /\ p # Sync => UNCHANGED <<plan, added, backups>>

(* A process that moves keeps CapInv when the outbounds do not grow, or    *)
(* grow by the add it was granted.                                         *)
LEMMA CapStep ==
  ASSUME CapInv, NEW p \in Procs, Moving(p), Capped(p)
  PROVE  CapInv'
<1>1. PICK l \in Labels : Moves(p, l)
  BY DEF Moving
<1>2. PcTypeOK' /\ LockHeld'
  BY MoveKeepsLock DEF CapInv
<1>3. \A q \in Procs : q # p => pc'[q] = pc[q]
  BY <1>1 DEF Moves, CapInv, PcTypeOK
<1>4. MaxActive \in Nat /\ IsFiniteSet(outs) /\ Cardinality(outs) \in Nat
  BY CandidateAssumption, FS_CardinalityType DEF CapInv
<1>5. CASE Gives(p)
  <2>1. IsFiniteSet(outs') /\ Cardinality(outs') \in Nat /\ Cardinality(outs') <= Cardinality(outs)
    BY <1>4, <1>5, FS_Subset, FS_CardinalityType DEF Gives
  <2>2. Cap' /\ (grant' # {} => CapFree')
    BY <1>4, <1>5, <2>1 DEF CapInv, Cap, CapGranted, CapFree, Gives
  <2>3. grant' \subseteq {q \in Procs : pc'[q] \in AddPC}
    BY <1>3, <1>5 DEF CapInv, CapGranted, Gives
  <2>4. ASSUME Sync \in grant'
        PROVE  Ready'
    <3>1. p # Sync /\ Sync \in grant
      BY <1>5, <2>4 DEF Gives
    <3>2. Ready /\ UNCHANGED <<plan, added, backups>> /\ pc'[Sync] = pc[Sync]
      BY <1>3, <3>1, ProcFacts DEF CapInv, CapGranted, Capped
    <3> QED
      BY <3>2 DEF Ready, Unplaced, At
  <2> QED
    BY <1>2, <2>1, <2>2, <2>3, <2>4 DEF CapInv, CapGranted
<1>6. CASE Gets(p)
  <2>1. UNCHANGED <<outs, pc>> /\ Cap' /\ CapFree'
    BY <1>6 DEF Gets, CapInv, Cap, CapFree
  <2>2. grant' \subseteq {q \in Procs : pc'[q] \in AddPC}
    BY <1>6 DEF CapInv, CapGranted, Gets
  <2>3. Sync \in grant' => Ready'
    BY <1>6 DEF CapInv, CapGranted, Gets, Ready, Unplaced, At
  <2> QED
    BY <1>2, <1>4, <2>1, <2>2, <2>3 DEF CapInv, CapGranted
<1>7. CASE Spends(p)
  <2>1. grant' = {}
    <3>1. \A q \in grant : q = p
      BY <1>7 DEF Spends, CapInv, CapGranted, LockHeld, Mutating, AddPC, FreePC
    <3> QED
      BY <1>7, <3>1 DEF Spends
  <2>2. PICK tag : outs' \subseteq outs \cup {tag}
    BY <1>7 DEF Spends
  <2>3. IsFiniteSet(outs \cup {tag}) /\ Cardinality(outs \cup {tag}) \in Nat
        /\ Cardinality(outs \cup {tag}) <= Cardinality(outs) + 1
    <3>1. /\ IsFiniteSet(outs \cup {tag})
          /\ Cardinality(outs \cup {tag}) = IF tag \in outs THEN Cardinality(outs)
                                                             ELSE Cardinality(outs) + 1
      BY <1>4, FS_AddElement
    <3> QED
      BY <1>4, <3>1
  <2>4. IsFiniteSet(outs') /\ Cardinality(outs') \in Nat /\ Cardinality(outs') <= Cardinality(outs) + 1
    BY <1>4, <2>2, <2>3, FS_Subset, FS_CardinalityType
  <2>5. Cap'
    BY <1>4, <1>7, <2>4 DEF Cap, CapInv, CapGranted, CapFree, Spends
  <2> QED
    BY <1>2, <2>1, <2>4, <2>5 DEF CapInv, CapGranted
<1> QED
  BY <1>5, <1>6, <1>7 DEF Capped

-----------------------------------------------------------------------------
(* The adds: CheckCap and SendAdd.                                         *)

(* CheckCap (cap.go) grants an add only while a place is free.             *)
LEMMA CheckIsCapped ==
  ASSUME CapInv, NEW p \in Procs, NEW onErr, NEW resets \in BOOLEAN,
         pc[p] \in AddPC, p = Sync => Ready,
         CheckCap(p, onErr, resets), UNCHANGED <<plan, added, backups>>
  PROVE  Capped(p)
  BY DEF CheckCap, Read, Capped, Gives, Gets

(* An add that was granted uses up its grant.                              *)
LEMMA SendIsCapped ==
  ASSUME CapInv, NEW p \in Procs, NEW tag, NEW ok \in BOOLEAN,
         SendAdd(p, tag, ok), p # Sync => UNCHANGED <<plan, added, backups>>
  PROVE  Capped(p)
<1>1. p \in grant /\ grant' = grant \ {p}
  BY CandidateAssumption DEF SendAdd, CapInv
<1>2. outs' \subseteq outs \cup {tag}
  BY DEF SendAdd, AddOutbound
<1> QED
  BY <1>1, <1>2 DEF Capped, Spends

(* capped.AddOutbound (cap.go): the check and the add keep CapInv.         *)
LEMMA AddIsCapped ==
  ASSUME CapInv, NEW p \in Procs, NEW tag, NEW onOk, NEW onErr, NEW resets \in BOOLEAN,
         pc[p] \in AddPC, p = Sync => Ready,
         CappedAdd(p, tag, onOk, onErr, resets), UNCHANGED <<plan, added, backups>>
  PROVE  Capped(p)
<1>1. CASE CheckCap(p, onErr, resets)
  BY <1>1, CheckIsCapped
<1>2. CASE \E ok \in BOOLEAN : SendAdd(p, tag, ok) /\ Then(p, ok, onOk, onErr)
  BY <1>2, SendIsCapped
<1> QED
  BY <1>1, <1>2 DEF CappedAdd

(* A step of p that touches no grant and adds no outbound.                 *)
LEMMA QuietIsCapped ==
  ASSUME CapInv, NEW p \in Procs, pc[p] \notin AddPC, grant' = grant, outs' \subseteq outs,
         p # Sync => UNCHANGED <<plan, added, backups>>
  PROVE  Capped(p)
  BY DEF CapInv, CapGranted, Capped, Gives

(* Every step of a repair (repair.go) keeps CapInv.                        *)
LEMMA RepairCapped ==
  ASSUME CapInv, NEW w \in Tunnels, Repair(w)
  PROVE  Capped(w)
<1> USE DEF At, syncVars, AddPC
<1>0. w \in Procs /\ w # Sync
  BY ProcFacts
<1>1. CASE RepairSkip(w)
  BY <1>0, <1>1, QuietIsCapped DEF RepairSkip, xrayVars
<1>2. CASE RepairBegin(w)
  BY <1>0, <1>2, QuietIsCapped DEF RepairBegin, Read
<1>3. CASE RepairList(w)
  BY <1>0, <1>3, QuietIsCapped DEF RepairList, Read
<1>4. CASE RemoveRuleStep(w, "repair-rm-rule", "repair-rm-out")
  BY <1>0, <1>4, QuietIsCapped DEF RemoveRuleStep, RemoveRule
<1>5. CASE RemoveOutboundStep(w, "repair-rm-out", "repair-add", "repair-restore")
  BY <1>0, <1>5, QuietIsCapped DEF RemoveOutboundStep, RemoveOutbound
<1>6. CASE RestoreRuleStep(w, "repair-restore", "repair-failed")
  BY <1>0, <1>6, QuietIsCapped DEF RestoreRuleStep, AddRule
<1>7. CASE RepairAdd(w)
  <2>1. /\ CappedAdd(w, <<w, "bare">>, "repair-add-rule", "repair-failed", TRUE)
        /\ pc[w] \in AddPC /\ UNCHANGED <<plan, added, backups>>
    BY <1>7 DEF RepairAdd
  <2> QED
    BY <1>0, <2>1, AddIsCapped
<1>8. CASE RepairAddRule(w)
  BY <1>0, <1>8, QuietIsCapped DEF RepairAddRule, AddRule
<1>9. CASE RepairEnd(w)
  BY <1>0, <1>9, QuietIsCapped DEF RepairEnd, xrayVars
<1> QED
  BY <1>1, <1>2, <1>3, <1>4, <1>5, <1>6, <1>7, <1>8, <1>9 DEF Repair

(* Every step of a rejoin (repair.go), its rollback included, keeps        *)
(* CapInv.                                                                 *)
LEMMA RejoinCapped ==
  ASSUME CapInv, NEW w \in Tunnels, Rejoin(w)
  PROVE  Capped(w)
<1> USE DEF At, syncVars, AddPC
<1>0. w \in Procs /\ w # Sync
  BY ProcFacts
<1>1. CASE RejoinView(w)
  BY <1>0, <1>1, QuietIsCapped DEF RejoinView, xrayVars
<1>2. CASE RejoinBegin(w)
  BY <1>0, <1>2, QuietIsCapped DEF RejoinBegin, Read, xrayVars
<1>3. CASE RemoveRuleStep(w, "rejoin-rm-rule", "rejoin-rm-out")
  BY <1>0, <1>3, QuietIsCapped DEF RemoveRuleStep, RemoveRule
<1>4. CASE RemoveOutboundStep(w, "rejoin-rm-out", "rejoin-add", "rejoin-restore")
  BY <1>0, <1>4, QuietIsCapped DEF RemoveOutboundStep, RemoveOutbound
<1>5. CASE \/ RestoreRuleStep(w, "rejoin-restore", "rejoin-failed")
           \/ RestoreRuleStep(w, "rejoin-undo-rule", "rejoin-failed")
  BY <1>0, <1>5, QuietIsCapped DEF RestoreRuleStep, AddRule
<1>6. CASE RejoinAdd(w)
  <2>1. /\ CappedAdd(w, <<w, Initial>>, "rejoin-add-rule", "rejoin-undo-out", TRUE)
        /\ pc[w] \in AddPC /\ UNCHANGED <<plan, added, backups>>
    BY <1>6 DEF RejoinAdd
  <2> QED
    BY <1>0, <2>1, AddIsCapped
<1>7. CASE RejoinAddRule(w)
  BY <1>0, <1>7, QuietIsCapped DEF RejoinAddRule, AddRule
<1>8. CASE RejoinUndoOut(w)
  BY <1>0, <1>8, QuietIsCapped DEF RejoinUndoOut, RemoveOutbound
<1>9. CASE RejoinUndoAdd(w)
  <2>1. /\ CappedAdd(w, <<w, "bare">>, "rejoin-undo-rule", "rejoin-undo-rule", FALSE)
        /\ pc[w] \in AddPC /\ UNCHANGED <<plan, added, backups>>
    BY <1>9 DEF RejoinUndoAdd
  <2> QED
    BY <1>0, <2>1, AddIsCapped
<1>10. CASE RejoinEnd(w)
  BY <1>0, <1>10, QuietIsCapped DEF RejoinEnd, xrayVars
<1> QED
  BY <1>1, <1>2, <1>3, <1>4, <1>5, <1>6, <1>7, <1>8, <1>9, <1>10 DEF Rejoin

(* Every step of a full apply keeps CapInv, restoreBackups (outbounds.go)  *)
(* included.                                                               *)
LEMMA ApplyCapped ==
  ASSUME CapInv, ApplyPlans
  PROVE  Capped(Sync)
<1> USE ProcFacts DEF At, AddPC
<1>1. CASE OutList \/ InList \/ RuleList
  BY <1>1, QuietIsCapped DEF OutList, InList, RuleList, ListKind, Read
<1>2. CASE OutRemove
  BY <1>2, QuietIsCapped DEF OutRemove, Through, RemoveOutbound, xrayVars
<1>3. CASE OutAdd
  <2>1. CASE Unplaced = {} /\ Through("out-add", "in-list")
    BY <1>3, <2>1 DEF Through, Capped, Gives, CapInv, CapGranted, Ready, xrayVars
  <2>2. CASE ~(Unplaced = {} /\ Through("out-add", "in-list"))
    <3>1. /\ pc[Sync] \in AddPC /\ Ready
          /\ \/ CheckCap(Sync, "undo-remove", FALSE) /\ UNCHANGED <<plan, added, backups>>
             \/ \E t \in Tunnels, ok \in BOOLEAN : SendAdd(Sync, <<t, Initial>>, ok)
      BY <1>3, <2>2 DEF OutAdd, Ready
    <3> QED
      BY <3>1, CheckIsCapped, SendIsCapped
  <2> QED
    BY <2>1, <2>2
<1>4. CASE UndoRemove
  BY <1>4, QuietIsCapped DEF UndoRemove, Through, RemoveOutbound, xrayVars
<1>5. CASE UndoRestore
  BY <1>5, CandidateAssumption DEF UndoRestore, Read, CheckCap, SendAdd, AddOutbound, Capped, Gives,
     Gets, Spends, CapInv, CapGranted, Ready, xrayVars
<1>6. CASE InRemove \/ InAdd
  BY <1>6, QuietIsCapped DEF InRemove, InAdd, Through, RemoveInbound, AddInbound, xrayVars
<1>7. CASE RuleRemove \/ RuleAdd
  BY <1>7, QuietIsCapped DEF RuleRemove, RuleAdd, Through, RemoveRule, AddRule, xrayVars
<1> QED
  BY <1>1, <1>2, <1>3, <1>4, <1>5, <1>6, <1>7 DEF ApplyPlans

-----------------------------------------------------------------------------
(* Slot operations, by the sync or by a worker.                            *)

(* The calls of ReplaceTunnel and RemoveTunnel (tunnel.go) keep CapInv,    *)
(* whoever makes them.                                                     *)
LEMMA SlotStep ==
  ASSUME CapInv, NEW p \in Procs, SlotRemove(p) \/ SlotAddOutbound(p) \/ SlotAdd(p)
  PROVE  Moving(p) /\ Capped(p)
<1> USE DEF At, AddPC, CapInv
<1>1. CASE SlotRemove(p)
  <2>1. Moving(p)
    BY <1>1 DEF SlotRemove, RPCLeaves, Moving, Moves, Goto, Then, Mutating, Labels, FreePC, SlotPC
  <2>2. /\ pc[p] \notin AddPC /\ grant' = grant /\ outs' \subseteq outs
        /\ UNCHANGED <<plan, added, backups>>
    BY <1>1 DEF SlotRemove, RPCLeaves, syncVars, RemoveRule, RemoveOutbound, AddRule, RemoveInbound
  <2> QED
    BY <2>1, <2>2, QuietIsCapped
<1>2. CASE SlotAddOutbound(p)
  <2>1. Moving(p)
    BY <1>2 DEF SlotAddOutbound, CappedAdd, CheckCap, SendAdd, PcTypeOK,
                Moving, Moves, Goto, Then, Mutating, Labels, FreePC, SlotPC
  <2>2. /\ CappedAdd(p, <<to, Initial>>, "slot-add-in", "slot-failed", FALSE)
        /\ pc[p] \in AddPC /\ (p = Sync => Ready)
        /\ UNCHANGED <<plan, added, backups>>
    BY <1>2 DEF SlotAddOutbound, syncVars, Ready
  <2> QED
    BY <2>1, <2>2, AddIsCapped
<1>3. CASE SlotAdd(p)
  <2>1. Moving(p)
    BY <1>3 DEF SlotAdd, RPCLeaves, Moving, Moves, Goto, Then, Mutating, Labels, FreePC, SlotPC
  <2>2. /\ pc[p] \notin AddPC /\ grant' = grant /\ outs' \subseteq outs
        /\ UNCHANGED <<plan, added, backups>>
    BY <1>3 DEF SlotAdd, RPCLeaves, syncVars, AddInbound, AddRule
  <2> QED
    BY <2>1, <2>2, QuietIsCapped
<1> QED
  BY <1>1, <1>2, <1>3

(* The sync adds a tunnel to an empty slot.                                *)
LEMMA FillStep ==
  ASSUME CapInv, FillAddOutbound \/ FillAdd
  PROVE  Moving(Sync) /\ Capped(Sync)
<1> USE ProcFacts DEF At, AddPC, CapInv
<1>1. CASE FillAddOutbound
  <2>1. Moving(Sync)
    BY <1>1 DEF FillAddOutbound, CappedAdd, CheckCap, SendAdd, PcTypeOK,
                Moving, Moves, Goto, Then, Mutating, Labels, FreePC, SlotPC
  <2>2. /\ CappedAdd(Sync, <<to, Initial>>, "fill-add-in", "fill-undo-out", FALSE)
        /\ pc[Sync] \in AddPC /\ Ready
        /\ UNCHANGED <<plan, added, backups>>
    BY <1>1 DEF FillAddOutbound, syncVars, Ready
  <2> QED
    BY <2>1, <2>2, AddIsCapped
<1>2. CASE FillAdd
  <2>1. Moving(Sync)
    BY <1>2 DEF FillAdd, RPCLeaves, Moving, Moves, Goto, Then, Mutating, Labels, FreePC, SlotPC
  <2>2. pc[Sync] \notin AddPC /\ grant' = grant /\ outs' \subseteq outs
    BY <1>2 DEF FillAdd, RPCLeaves, AddInbound, AddRule, RemoveRule, RemoveInbound, RemoveOutbound
  <2> QED
    BY <2>1, <2>2, QuietIsCapped
<1> QED
  BY <1>1, <1>2

(* The steps of the sync that add nothing.                                 *)
LEMMA SyncQuietStep ==
  ASSUME CapInv,
         \/ SyncStart \/ SyncBegin \/ SyncList \/ FullBegin \/ FullEnd
         \/ DecideSlots \/ NextAct \/ FillNext \/ SlotEndSync \/ FillEnd
  PROVE  Moving(Sync) /\ Capped(Sync)
<1> USE ProcFacts DEF At, AddPC, Moving, Moves, Goto, Then, Unlock, LockTarget, Mutating,
                      Labels, FreePC, ApplyPC, SlotPC
<1>1. CASE SyncStart
  BY <1>1, QuietIsCapped DEF SyncStart, xrayVars
<1>2. CASE SyncBegin
  BY <1>2, QuietIsCapped DEF SyncBegin, Read
<1>3. CASE SyncList
  BY <1>3, QuietIsCapped DEF SyncList, Read
<1>4. CASE FullBegin
  BY <1>4, QuietIsCapped DEF FullBegin, xrayVars
<1>5. CASE FullEnd
  BY <1>5, QuietIsCapped DEF FullEnd, SyncEnd, xrayVars
<1>6. CASE DecideSlots
  BY <1>6, QuietIsCapped DEF DecideSlots, xrayVars
<1>7. CASE NextAct
  BY <1>7, QuietIsCapped DEF NextAct, xrayVars
<1>8. CASE FillNext
  BY <1>8, QuietIsCapped DEF FillNext, SyncEnd, xrayVars
<1>9. CASE SlotEndSync
  BY <1>9, QuietIsCapped DEF SlotEndSync, SyncEnd, xrayVars
<1>10. CASE FillEnd
  BY <1>10, QuietIsCapped DEF FillEnd, SyncEnd, xrayVars
<1> QED
  BY <1>1, <1>2, <1>3, <1>4, <1>5, <1>6, <1>7, <1>8, <1>9, <1>10

(* The steps of the monitor that add nothing.                              *)
LEMMA ReplaceQuietStep ==
  ASSUME CapInv, NEW w \in Tunnels,
         \/ ReplaceSkip(w) \/ ReplaceBegin(w) \/ ReplaceList(w) \/ ReplaceChoose(w) \/ ReplaceEnd(w)
  PROVE  Moving(w) /\ Capped(w)
<1> USE DEF At, AddPC, Moving, Moves, Goto, Then, Unlock, LockTarget, Mutating,
            Labels, FreePC, SlotPC, syncVars
<1>0. w \in Procs /\ w # Sync
  BY ProcFacts
<1>1. CASE ReplaceSkip(w)
  BY <1>0, <1>1, QuietIsCapped DEF ReplaceSkip, xrayVars
<1>2. CASE ReplaceBegin(w)
  BY <1>0, <1>2, QuietIsCapped DEF ReplaceBegin, Read
<1>3. CASE ReplaceList(w)
  BY <1>0, <1>3, QuietIsCapped DEF ReplaceList, Read
<1>4. CASE ReplaceChoose(w)
  BY <1>0, <1>4, QuietIsCapped DEF ReplaceChoose, xrayVars
<1>5. CASE ReplaceEnd(w)
  BY <1>0, <1>5, QuietIsCapped DEF ReplaceEnd, xrayVars
<1> QED
  BY <1>1, <1>2, <1>3, <1>4, <1>5

(* The steps of a monitor worker (checkTunnel, ReplaceFailed) keep CapInv. *)
LEMMA CheckStep ==
  ASSUME CapInv, NEW w \in Tunnels, StartCheck(w) \/ CheckFails(w) \/ CheckSucceeds(w)
  PROVE  Moving(w) /\ Capped(w)
<1>0. w \in Procs /\ w # Sync
  BY ProcFacts
<1>1. Moving(w)
  <2>1. PICK next \in {"repair", "replace"} : StartCheck(w) \/ ProbeFails(w, next) \/ ProbeSucceeds(w)
    BY DEF CheckFails, CheckSucceeds
  <2> QED
    BY <2>1, CheckMoves DEF CapInv
<1>2. Capped(w)
  BY <1>0, QuietIsCapped DEF At, AddPC, syncVars, xrayVars, StartCheck, CheckFails, CheckSucceeds,
     ProbeFails, ProbeSucceeds
<1> QED
  BY <1>1, <1>2

-----------------------------------------------------------------------------
(* Every step of the specification keeps the invariant.                    *)
LEMMA CapInvKept ==
  ASSUME CapInv, [Next]_vars
  PROVE  CapInv'
<1>1. CASE SyncStep
  <2>1. Moving(Sync) /\ Capped(Sync)
    BY <1>1, SyncQuietStep, SlotStep, FillStep, ApplyMoves, ApplyCapped, ProcFacts
       DEF SyncStep, CapInv
  <2> QED
    BY <2>1, CapStep, ProcFacts
<1>2. ASSUME NEW w \in Tunnels, WorkerStep(w)
      PROVE  CapInv'
  <2>1. Moving(w) /\ Capped(w)
    BY <1>2, CheckStep, RepairMoves, RepairCapped, RejoinMoves, RejoinCapped,
       ReplaceQuietStep, SlotStep, ProcFacts DEF WorkerStep, CapInv
  <2> QED
    BY <2>1, CapStep, ProcFacts
<1>3. CASE UNCHANGED <<outs, lock, pc, grant, plan, added, backups>>
  BY <1>3 DEF CapInv, PcTypeOK, LockHeld, Mutating, Cap, CapGranted, CapFree, Ready, Unplaced, At
<1>4. CASE Restart
  <2>1. IsFiniteSet({}) /\ Cardinality({}) = 0
    BY FS_EmptySet
  <2>2. CASE RestartXray /\ UNCHANGED <<memVars, lock, pc, grant, syncVars>>
    BY <2>1, <2>2, CandidateAssumption
       DEF RestartXray, CapInv, PcTypeOK, LockHeld, Mutating, Cap, CapGranted, CapFree, Ready,
           Unplaced, At, syncVars
  <2>3. CASE RestartScd
    BY <2>3 DEF RestartScd, CapInv, PcTypeOK, LockHeld, Mutating, Cap, CapGranted, Labels, FreePC
  <2> QED
    BY <1>4, <2>2, <2>3 DEF Restart
<1>5. Next \/ UNCHANGED vars
  OBVIOUS
<1>6. Tick \/ Edit \/ Expire \/ UNCHANGED vars => UNCHANGED <<outs, lock, pc, grant, plan, added, backups>>
  BY DEF Tick, TickStart, Edit, Expire, vars, targetVars, xrayVars, syncVars
<1> QED
  BY <1>1, <1>2, <1>3, <1>4, <1>5, <1>6 DEF Next

(* README.md:329-337, cap.go: "Xray never holds more than maxActive        *)
(* outbounds of the source", for every number of candidates and slots, any *)
(* selection and any number of failed or lost calls and restarts.          *)
THEOREM CapHolds == Spec => []Cap
<1>1. Init => CapInv
  <2> SUFFICES ASSUME Init PROVE CapInv
    OBVIOUS
  <2>1. outs = {} /\ grant = {} /\ pc = [p \in Procs |-> "idle"]
    BY DEF Init, TargetInit, XrayInit
  <2>2. IsFiniteSet({}) /\ Cardinality({}) = 0
    BY FS_EmptySet
  <2> QED
    BY <2>1, <2>2, CandidateAssumption
       DEF CapInv, PcTypeOK, LockHeld, Mutating, Cap, CapGranted, Labels, FreePC
<1>2. CapInv /\ [Next]_vars => CapInv'
  BY CapInvKept
<1>3. CapInv => Cap
  BY DEF CapInv
<1> QED
  BY <1>1, <1>2, <1>3, PTL DEF Spec

-----------------------------------------------------------------------------
(* The ports of the inbounds.  A port is chosen from the candidates (full) *)
(* or from memory (decide, fill, ReplaceFailed), never from what Xray has; *)
(* it is free in Xray because saved hashes mean that memory knows the port *)
(* of every inbound.                                                       *)

(* The topology when the slot of tunnel from is empty, and when to has it. *)
Vacated == [t \in Tunnels |-> IF t = from THEN 0 ELSE port[t]]
Replaced == [t \in Tunnels |-> IF t = to THEN at ELSE IF t = from THEN 0 ELSE port[t]]
Filled == [t \in Tunnels |-> IF t = to THEN at ELSE port[t]]

ReplacePC == {"slot-rm-rule", "slot-rm-out", "slot-rm-other", "slot-restore", "slot-rm-in",
              "slot-add", "slot-add-in", "slot-add-rule", "slot-done", "slot-failed"}
FillPC == {"fill-add", "fill-add-in", "fill-add-rule", "fill-done"}

(* What process p, inside a slot operation, knows of the inbounds.         *)
SlotPorts(p) ==
  /\ pc[p] \in {"sync-list", "decide", "next-act", "fill", "replace-list", "replace-choose",
                "slot-rm-rule", "slot-rm-out", "slot-rm-other", "slot-rm-in", "fill-add", "fill-add-in"}
       => Fits(port)
  /\ pc[p] \in ReplacePC => from \in Tunnels /\ at = port[from]
  /\ pc[p] \in {"slot-add", "slot-add-in"} => Fits(Vacated)
  /\ pc[p] \in {"slot-add-rule", "slot-done"} => Fits(Replaced)
  /\ pc[p] \in FillPC => \A t \in Tunnels : port[t] # at
  /\ pc[p] \in {"fill-add-rule", "fill-done"} => Fits(Filled)

(* Outside of slot operations and applies, saved hashes mean that every    *)
(* inbound of the source is on the port memory has for it.                 *)
SavedPorts ==
  hashes # NoHash /\ (\A p \in Procs : pc[p] \notin SlotPC \cup ApplyPC) => Fits(port)

PortInv ==
  /\ ApplyPorts
  /\ IsPortMap(port) /\ Distinct(port)
  /\ \A p \in Procs : SlotPorts(p)
  /\ SavedPorts

(* What the others know of the inbounds survives a step of p.              *)
LEMMA OthersPorts ==
  ASSUME CapInv, PortInv, NEW p \in Procs, Moving(p), NEW q \in Procs, q # p,
         Mutating(p) \/ UNCHANGED <<ins, port, from, to, at>>
  PROVE  SlotPorts(q)' /\ (Mutating(p) => pc'[q] \in FreePC)
<1>1. pc'[q] = pc[q]
  BY DEF Moving, Moves, CapInv, PcTypeOK
<1>2. Mutating(p) => pc'[q] \in FreePC
  BY <1>1 DEF CapInv, LockHeld, Mutating
<1>3. CASE Mutating(p)
  BY <1>2, <1>3 DEF SlotPorts, FreePC, ReplacePC, FillPC
<1>4. CASE UNCHANGED <<ins, port, from, to, at>>
  <2>1. SlotPorts(q)
    BY DEF PortInv
  <2>2. /\ Fits(port)' <=> Fits(port)
        /\ Fits(Vacated)' <=> Fits(Vacated)
    BY <1>4 DEF Fits, Vacated
  <2>3. /\ Fits(Replaced)' <=> Fits(Replaced)
        /\ Fits(Filled)' <=> Fits(Filled)
    BY <1>4 DEF Fits, Replaced, Filled
  <2> QED
    BY <1>1, <1>2, <1>4, <2>1, <2>2, <2>3 DEF SlotPorts
<1> QED
  BY <1>2, <1>3, <1>4

(* A step that changes no port and starts no kind of a full apply.         *)
LEMMA QuietPorts ==
  ASSUME CapInv, PortInv, NEW p \in Procs, Moving(p), SlotPorts(p)',
         Mutating(p) \/ UNCHANGED <<from, to, at>>,
         UNCHANGED <<ins, port, plan>>, hashes' \in {hashes, NoHash},
         p = Sync => pc'[Sync] \in FreePC \cup SlotPC \cup {"out-list"},
         p # Sync => UNCHANGED <<left, failed>>,
         pc[p] \in SlotPC \cup ApplyPC => Fits(port) \/ hashes' = NoHash \/ pc'[p] \in SlotPC \cup ApplyPC
  PROVE  PortInv'
<1>0. pc \in [Procs -> Labels] /\ \A q \in Procs : q # p => pc'[q] = pc[q]
  BY DEF Moving, Moves, CapInv, PcTypeOK
<1>1. \A q \in Procs : SlotPorts(q)'
  BY OthersPorts
<1>2. ApplyPorts'
  <2>1. CASE p = Sync
    BY <2>1 DEF PortInv, ApplyPorts, IsPortMap, Distinct, FreePC, SlotPC
  <2>2. CASE p # Sync
    BY <1>0, <2>2, ProcFacts DEF PortInv, ApplyPorts, IsPortMap, Distinct, Fits
  <2> QED
    BY <2>1, <2>2
<1>3. SavedPorts'
  <2> SUFFICES ASSUME hashes' # NoHash, \A q \in Procs : pc'[q] \notin SlotPC \cup ApplyPC
               PROVE  Fits(port)'
    BY DEF SavedPorts
  <2>1. CASE pc[p] \in SlotPC \cup ApplyPC
    BY <2>1 DEF Fits
  <2>2. CASE pc[p] \notin SlotPC \cup ApplyPC
    BY <1>0, <2>2 DEF PortInv, SavedPorts, Fits
  <2> QED
    BY <2>1, <2>2
<1> QED
  BY <1>1, <1>2, <1>3 DEF PortInv, IsPortMap, Distinct

(* A call of a slot operation.                                             *)
LEMMA CallPorts ==
  ASSUME CapInv, PortInv, NEW p \in Procs, Moving(p), SlotPorts(p)',
         Mutating(p), pc'[p] \in SlotPC, UNCHANGED <<port, plan>>,
         IsPortMap(ins)', Distinct(ins)'
  PROVE  PortInv'
<1>1. \A q \in Procs : SlotPorts(q)' /\ (q # p => pc'[q] \in FreePC)
  BY OthersPorts
<1>2. ApplyPorts'
  BY <1>1, ProcFacts DEF PortInv, ApplyPorts, IsPortMap, Distinct, FreePC, SlotPC
<1>3. SavedPorts'
  BY DEF SavedPorts
<1> QED
  BY <1>1, <1>2, <1>3 DEF PortInv, IsPortMap, Distinct

(* The end of a slot operation or of a full apply.                         *)
LEMMA EndPorts ==
  ASSUME CapInv, PortInv, NEW p \in Procs, Moving(p), SlotPorts(p)',
         Mutating(p), pc'[p] \in FreePC \cup SlotPC, UNCHANGED ins, plan' \in {plan, NoPorts},
         IsPortMap(port)', Distinct(port)', hashes' = NoHash \/ Fits(port)'
  PROVE  PortInv'
<1>1. \A q \in Procs : SlotPorts(q)' /\ (q # p => pc'[q] \in FreePC)
  BY OthersPorts
<1>2. ApplyPorts'
  BY <1>1, ProcFacts DEF PortInv, ApplyPorts, IsPortMap, Distinct, FreePC, SlotPC, NoPorts
<1>3. SavedPorts'
  BY DEF SavedPorts
<1> QED
  BY <1>1, <1>2, <1>3 DEF PortInv

(* Where the monitor is, and what it leaves alone, while it checks,        *)
(* repairs and rejoins.                                                    *)
LEMMA MonitorStep ==
  ASSUME CapInv, NEW w \in Tunnels,
         \/ (StartCheck(w) \/ Repair(w) \/ Rejoin(w)) /\ UNCHANGED slotVars
         \/ CheckFails(w) \/ CheckSucceeds(w)
  PROVE  /\ w \in Procs /\ w # Sync /\ Moving(w)
         /\ UNCHANGED <<ins, port, plan, from, to, at, left, failed>> /\ hashes' \in {hashes, NoHash}
         /\ pc[w] \in FreePC \cup RepairPC \cup RejoinPC /\ pc'[w] \in FreePC \cup RepairPC \cup RejoinPC
<1> USE DEF memVars, syncVars, xrayVars, slotVars
<1>0. w \in Procs /\ w # Sync /\ Moving(w)
  BY CheckStep, RepairMoves, RejoinMoves, ProcFacts DEF CapInv
<1>1. ASSUME StartCheck(w) \/ CheckFails(w) \/ CheckSucceeds(w)
      PROVE  /\ UNCHANGED <<ins, port, plan, from, to, at, left, failed, hashes>>
             /\ pc[w] \in FreePC /\ pc'[w] \in FreePC
  BY <1>0, <1>1 DEF CapInv, PcTypeOK, StartCheck, CheckFails, CheckSucceeds, ProbeFails, ProbeSucceeds, ProbeOver,
     At, Goto, FreePC
<1>2. ASSUME Repair(w), UNCHANGED slotVars
      PROVE  /\ UNCHANGED <<ins, port, plan, from, to, at, left, failed>> /\ hashes' \in {hashes, NoHash}
             /\ pc[w] \in FreePC \cup RepairPC /\ pc'[w] \in FreePC \cup RepairPC
  <2>1. UNCHANGED <<ins, port, plan, left, failed>> /\ hashes' \in {hashes, NoHash}
    BY <1>2 DEF Repair, RepairSkip, RepairBegin, RepairList, RemoveRuleStep, RemoveOutboundStep, RestoreRuleStep,
       RepairAdd, RepairAddRule, RepairEnd, CappedAdd, CheckCap, SendAdd, Read, AddOutbound, RemoveOutbound,
       AddRule, RemoveRule
  <2>2. pc[w] \in FreePC \cup RepairPC /\ pc'[w] \in FreePC \cup RepairPC
    BY <1>0, <1>2 DEF CapInv, PcTypeOK, Repair, RepairSkip, RepairBegin, RepairList, RemoveRuleStep,
       RemoveOutboundStep, RestoreRuleStep, RepairAdd, RepairAddRule, RepairEnd, CappedAdd, CheckCap, SendAdd,
       At, Goto, Then, Unlock, FreePC, RepairPC
  <2> QED
    BY <1>2, <2>1, <2>2
<1>3. ASSUME Rejoin(w), UNCHANGED slotVars
      PROVE  /\ UNCHANGED <<ins, port, plan, from, to, at, left, failed>> /\ hashes' \in {hashes, NoHash}
             /\ pc[w] \in FreePC \cup RejoinPC /\ pc'[w] \in FreePC \cup RejoinPC
  <2>1. UNCHANGED <<ins, port, plan, left, failed>> /\ hashes' \in {hashes, NoHash}
    BY <1>3 DEF Rejoin, RejoinView, RejoinBegin, RemoveRuleStep, RemoveOutboundStep, RestoreRuleStep,
       RejoinAdd, RejoinAddRule, RejoinUndoOut, RejoinUndoAdd, RejoinEnd, CappedAdd, CheckCap, SendAdd, Read,
       AddOutbound, RemoveOutbound, AddRule, RemoveRule
  <2>2. pc[w] \in FreePC \cup RejoinPC /\ pc'[w] \in FreePC \cup RejoinPC
    BY <1>0, <1>3 DEF CapInv, PcTypeOK, Rejoin, RejoinView, RejoinBegin, RemoveRuleStep, RemoveOutboundStep,
       RestoreRuleStep, RejoinAdd, RejoinAddRule, RejoinUndoOut, RejoinUndoAdd, RejoinEnd, CappedAdd, CheckCap,
       SendAdd, At, Goto, Then, Unlock, FreePC, RejoinPC
  <2> QED
    BY <1>3, <2>1, <2>2
<1>4. /\ UNCHANGED <<ins, port, plan, from, to, at, left, failed>> /\ hashes' \in {hashes, NoHash}
      /\ pc[w] \in FreePC \cup RepairPC \cup RejoinPC /\ pc'[w] \in FreePC \cup RepairPC \cup RejoinPC
  BY <1>1, <1>2, <1>3
<1> QED
  BY <1>0, <1>4

(* The checks, repairs and rejoins of the monitor touch no inbound.        *)
LEMMA MonitorPorts ==
  ASSUME CapInv, PortInv, NEW w \in Tunnels,
         \/ (StartCheck(w) \/ Repair(w) \/ Rejoin(w)) /\ UNCHANGED slotVars
         \/ CheckFails(w) \/ CheckSucceeds(w)
  PROVE  PortInv'
<1>1. /\ w \in Procs /\ w # Sync /\ Moving(w)
      /\ UNCHANGED <<ins, port, plan, from, to, at, left, failed>> /\ hashes' \in {hashes, NoHash}
      /\ pc[w] \in FreePC \cup RepairPC \cup RejoinPC /\ pc'[w] \in FreePC \cup RepairPC \cup RejoinPC
  BY MonitorStep
<1>2. SlotPorts(w)'
  BY <1>1 DEF SlotPorts, FreePC, RepairPC, RejoinPC, ReplacePC, FillPC
<1>3. pc[w] \notin SlotPC \cup ApplyPC
  BY <1>1 DEF FreePC, RepairPC, RejoinPC, SlotPC, ApplyPC
<1> QED
  BY <1>1, <1>2, <1>3, QuietPorts

(* The slot that is replaced keeps its port for itself.                    *)
LEMMA ReplacedDistinct ==
  ASSUME Distinct(port), from \in Tunnels, at = port[from]
  PROVE  Distinct(Replaced)
  BY DEF Distinct, Replaced

(* The calls of ReplaceTunnel and RemoveTunnel (tunnel.go) put no inbound  *)
(* on the port of another one.                                             *)
LEMMA ReplaceKeepsPorts ==
  ASSUME CapInv, PortInv, NEW p \in Procs, SlotRemove(p) \/ SlotAddOutbound(p) \/ SlotAdd(p)
  PROVE  PortInv'
<1> USE DEF At, Goto, Then, memVars, syncVars, slotVars, RPCLeaves
<1>0. /\ pc \in [Procs -> Labels] /\ Moving(p) /\ Mutating(p)
      /\ SlotPorts(p) /\ IsPortMap(ins) /\ Distinct(ins) /\ IsPortMap(port) /\ Distinct(port)
  BY SlotStep DEF CapInv, PcTypeOK, PortInv, ApplyPorts, Mutating, SlotRemove, SlotAddOutbound, SlotAdd, FreePC
<1>1. UNCHANGED <<port, plan, from, to, at>>
  BY DEF SlotRemove, SlotAddOutbound, SlotAdd
<1>2. pc[p] \in ReplacePC /\ pc'[p] \in ReplacePC
  BY <1>0 DEF SlotRemove, SlotAddOutbound, SlotAdd, CappedAdd, CheckCap, SendAdd, ReplacePC
<1>3. from \in Tunnels /\ at = port[from] /\ pc'[p] \in SlotPC /\ pc'[p] \notin FillPC
  BY <1>0, <1>2 DEF SlotPorts, ReplacePC, SlotPC, FillPC
<1>4. ASSUME SlotPorts(p)', ins' = ins
      PROVE  PortInv'
  BY <1>0, <1>1, <1>3, <1>4, CallPorts DEF IsPortMap, Distinct
<1>5. CASE SlotRemove(p) /\ pc[p] # "slot-rm-in"
  <2>1. /\ pc[p] \in {"slot-rm-rule", "slot-rm-out", "slot-rm-other", "slot-restore"} /\ ins' = ins
        /\ pc'[p] \in {"slot-rm-out", "slot-rm-other", "slot-rm-in", "slot-restore", "slot-failed"}
        /\ pc[p] = "slot-restore" => pc'[p] = "slot-failed"
    BY <1>0, <1>5 DEF SlotRemove, RemoveRule, RemoveOutbound, AddRule
  <2>2. SlotPorts(p)'
    BY <1>0, <1>1, <1>3, <2>1 DEF SlotPorts, ReplacePC, FillPC, Fits
  <2> QED
    BY <1>4, <2>1, <2>2
<1>6. CASE SlotRemove(p) /\ pc[p] = "slot-rm-in"
  <2>1. PICK ok \in BOOLEAN : /\ RemoveInbound(from, ok)
                              /\ Then(p, ok, IF to = 0 THEN "slot-done" ELSE "slot-add", "slot-failed")
    BY <1>6 DEF SlotRemove
  <2>2. ins' = ins \/ ins' = [ins EXCEPT ![from] = 0]
    BY <2>1 DEF RemoveInbound
  <2>3. IsPortMap(ins)' /\ Distinct(ins)'
    BY <1>0, <2>2 DEF IsPortMap, Distinct
  <2>4. ok => Fits(Vacated)'
    <3>1. ok => ins' = [ins EXCEPT ![from] = 0]
      BY <2>1 DEF RemoveInbound
    <3>2. Fits(port)
      BY <1>0, <1>6 DEF SlotPorts
    <3> QED
      BY <1>0, <1>1, <3>1, <3>2 DEF Fits, Vacated, IsPortMap
  <2>5. to = 0 => Replaced' = Vacated'
    BY <1>1, ProcFacts DEF Replaced, Vacated, Sync
  <2>6. \/ ok /\ to = 0 /\ pc'[p] = "slot-done"
        \/ ok /\ pc'[p] = "slot-add"
        \/ pc'[p] = "slot-failed"
    BY <1>0, <2>1
  <2>7. SlotPorts(p)'
    BY <1>1, <1>3, <2>4, <2>5, <2>6 DEF SlotPorts, FillPC
  <2> QED
    BY <1>0, <1>1, <1>3, <2>3, <2>7, CallPorts
<1>7. CASE SlotAddOutbound(p)
  <2>1. /\ pc[p] = "slot-add" /\ ins' = ins
        /\ pc'[p] \in {"slot-add", "slot-add-in", "slot-failed"}
    BY <1>0, <1>7 DEF SlotAddOutbound, CappedAdd, CheckCap, SendAdd, Read, AddOutbound
  <2>2. SlotPorts(p)'
    BY <1>0, <1>1, <1>3, <2>1 DEF SlotPorts, FillPC, Fits, Vacated
  <2> QED
    BY <1>4, <2>1, <2>2
<1>8. CASE SlotAdd(p) /\ pc[p] = "slot-add-in"
  <2>1. PICK ok \in BOOLEAN : AddInbound(to, at, ok) /\ Then(p, ok, "slot-add-rule", "slot-failed")
    BY <1>8 DEF SlotAdd
  <2>2. Fits(Vacated)
    BY <1>0, <1>8 DEF SlotPorts
  <2>3. \/ ~ok /\ ins' = ins
        \/ ins' = [ins EXCEPT ![to] = at]
        \/ ins' = [ins EXCEPT ![to] = IF @ = 0 THEN at ELSE @] /\ ins[to] = 0
        \/ ins' = [ins EXCEPT ![to] = IF @ = 0 THEN at ELSE @] /\ ins[to] # 0 /\ ~ok
    BY <2>1 DEF AddInbound
  <2>4. IsPortMap(ins)' /\ (Fits(Replaced)' \/ (~ok /\ ins' = ins))
    BY <1>0, <1>1, <2>2, <2>3 DEF IsPortMap, Fits, Vacated, Replaced
  <2>5. Distinct(ins)'
    <3>1. Distinct(Replaced) /\ Replaced' = Replaced
      BY <1>0, <1>1, <1>3, ReplacedDistinct DEF Replaced
    <3> QED
      BY <1>0, <2>4, <3>1 DEF Fits, Distinct
  <2>6. (ok /\ pc'[p] = "slot-add-rule") \/ pc'[p] = "slot-failed"
    BY <1>0, <2>1
  <2>7. SlotPorts(p)'
    BY <1>1, <1>3, <2>4, <2>6 DEF SlotPorts, FillPC
  <2> QED
    BY <1>0, <1>1, <1>3, <2>4, <2>5, <2>7, CallPorts
<1>9. CASE SlotAdd(p) /\ pc[p] # "slot-add-in"
  <2>1. pc[p] = "slot-add-rule" /\ ins' = ins /\ pc'[p] \in {"slot-done", "slot-failed"}
    BY <1>0, <1>9 DEF SlotAdd, AddRule
  <2>2. SlotPorts(p)'
    BY <1>0, <1>1, <1>3, <2>1 DEF SlotPorts, FillPC, Fits, Replaced
  <2> QED
    BY <1>4, <2>1, <2>2
<1> QED
  BY <1>5, <1>6, <1>7, <1>8, <1>9

(* ReplaceSourceTunnel (state.go) gives the new tunnel the port of the old *)
(* one, which no other tunnel has.                                         *)
LEMMA ReplaceEndPorts ==
  ASSUME CapInv, PortInv, NEW p \in Procs, Moving(p), Mutating(p),
         pc'[p] \in FreePC \cup {"next-act"}, UNCHANGED ins, plan' \in {plan, NoPorts},
         \/ At(p, "slot-done") /\ ReplaceSourceTunnel(from, to, at, FALSE)
         \/ At(p, "slot-failed") /\ ReplaceSourceTunnel(from, 0, 0, TRUE) /\ pc'[p] \in FreePC
  PROVE  PortInv'
<1>0. SlotPorts(p) /\ Distinct(port) /\ pc[p] \in ReplacePC
  BY DEF PortInv, At, ReplacePC
<1>1. from \in Tunnels /\ at = port[from]
  BY <1>0 DEF SlotPorts
<1>2. IsPortMap(port)' /\ Distinct(port)' /\ (hashes' = NoHash \/ Fits(port)')
  <2>1. CASE At(p, "slot-done") /\ ReplaceSourceTunnel(from, to, at, FALSE)
    <3>1. port' = Replaced /\ Fits(Replaced)
      BY <1>0, <2>1 DEF ReplaceSourceTunnel, Replaced, SlotPorts, At
    <3>2. Distinct(Replaced)
      BY <1>0, <1>1, ReplacedDistinct
    <3> QED
      BY <3>1, <3>2 DEF IsPortMap, Distinct, Fits, Replaced
  <2>2. CASE At(p, "slot-failed") /\ ReplaceSourceTunnel(from, 0, 0, TRUE)
    <3>1. hashes' = NoHash /\ port' = [t \in Tunnels |-> IF t = 0 THEN 0 ELSE IF t = from THEN 0 ELSE port[t]]
      BY <2>2 DEF ReplaceSourceTunnel
    <3> QED
      BY <1>0, <3>1 DEF IsPortMap, Distinct
  <2> QED
    BY <2>1, <2>2
<1>3. SlotPorts(p)'
  <2>1. pc'[p] = "next-act" => Fits(port)'
    <3>1. ASSUME pc'[p] = "next-act"
          PROVE  port' = Replaced /\ Fits(Replaced)
      BY <1>0, <3>1 DEF ReplaceSourceTunnel, Replaced, SlotPorts, At, FreePC
    <3> QED
      BY <3>1 DEF Fits
  <2> QED
    BY <2>1 DEF SlotPorts, FreePC, ReplacePC, FillPC
<1> QED
  BY <1>2, <1>3, EndPorts DEF SlotPC

-----------------------------------------------------------------------------
(* The choice of candidates (module Selection).                            *)

(* A set of naturals that is not empty has a least element, which Min is.  *)
LEMMA LeastPort ==
  ASSUME NEW S \in SUBSET Nat, S # {}
  PROVE  Min(S) \in S /\ \A y \in S : Min(S) <= y
<1> DEFINE R == {ss \in Nat \X Nat : ss[1] < ss[2]}
<1>1. R = OpToRel(<, Nat)
  BY Zenon DEF OpToRel
<1>2. IsWellFoundedOn(R, Nat)
  BY <1>1, NatLessThanWellFounded, Zenon
<1> HIDE DEF R
<1>3. PICK x \in S : \A y \in S : ~(<<y, x>> \in R)
  BY <1>2, WFMin
<1>4. \A a, b \in Nat : a < b => <<a, b>> \in R
  BY DEF R
<1>5. ASSUME NEW y \in S PROVE x =< y
  <2>1. x \in Nat /\ y \in Nat
    OBVIOUS
  <2>2. ~(y < x)
    BY <2>1, <1>3, <1>4
  <2> QED
    BY <2>1, <2>2
<1> QED
  BY <1>5 DEF Min

-----------------------------------------------------------------------------
(* Rank (selection.go).                                                    *)

(* A sequence of numbers as long as n.                                     *)
IsKey(s, n) == s \in Seq(Int) /\ Len(s) = n

(* The lexicographic order on sequences of one length is strict and total. *)
LEMMA LexOrder ==
  ASSUME NEW n \in Nat, NEW s, NEW t, NEW u, IsKey(s, n), IsKey(t, n), IsKey(u, n)
  PROVE  /\ ~LexLess(s, s)
         /\ LexLess(s, t) /\ LexLess(t, u) => LexLess(s, u)
         /\ s # t => LexLess(s, t) \/ LexLess(t, s)
<1>0. \A k \in {s, t, u} : DOMAIN k = 1..n /\ (\A i \in 1..n : k[i] \in Int) /\ k = [i \in 1..n |-> k[i]]
  BY LenProperties, ElementOfSeq DEF IsKey
<1>1. ~LexLess(s, s)
  BY <1>0 DEF LexLess
<1>2. ASSUME LexLess(s, t), LexLess(t, u)
      PROVE  LexLess(s, u)
  <2>1. PICK i \in 1..n : s[i] < t[i] /\ \A j \in 1..i-1 : s[j] = t[j]
    BY <1>0, <1>2 DEF LexLess
  <2>2. PICK k \in 1..n : t[k] < u[k] /\ \A j \in 1..k-1 : t[j] = u[j]
    BY <1>0, <1>2 DEF LexLess
  <2>3. CASE i <= k
    <3>1. s[i] < u[i] /\ \A j \in 1..i-1 : s[j] = u[j]
      <4>1. \A j \in 1..i-1 : j \in 1..k-1
        BY <2>3
      <4>2. CASE i = k
        BY <1>0, <2>1, <2>2, <4>1, <4>2
      <4>3. CASE i < k
        BY <1>0, <2>1, <2>2, <4>1, <4>3
      <4> QED
        BY <2>3, <4>2, <4>3
    <3> QED
      BY <1>0, <3>1 DEF LexLess
  <2>4. CASE k < i
    <3>1. s[k] < u[k] /\ \A j \in 1..k-1 : s[j] = u[j]
      BY <1>0, <2>1, <2>2, <2>4
    <3> QED
      BY <1>0, <3>1 DEF LexLess
  <2> QED
    BY <2>3, <2>4
<1>3. ASSUME s # t
      PROVE  LexLess(s, t) \/ LexLess(t, s)
  <2> DEFINE D == {i \in 1..n : s[i] # t[i]}
  <2>1. D # {} /\ D \subseteq Nat
    BY <1>0, <1>3
  <2>2. PICK i \in D : \A j \in D : i <= j
    <3> HIDE DEF D
    <3> QED
      BY <2>1, LeastPort
  <2>3. \A j \in 1..i-1 : s[j] = t[j]
    BY <2>2
  <2>4. s[i] < t[i] \/ t[i] < s[i]
    BY <1>0, <2>2
  <2> QED
    BY <1>0, <2>2, <2>3, <2>4 DEF LexLess
<1> QED
  BY <1>1, <1>2, <1>3

(* The place of a member is the number of members before it: in a strict   *)
(* total order no two members have the same.                               *)
LEMMA PlacesDiffer ==
  ASSUME NEW S, IsFiniteSet(S), NEW R, NEW place,
         place = [c \in S |-> Cardinality({d \in S : <<d, c>> \in R})],
         \A c \in S : <<c, c>> \notin R,
         \A c, d, e \in S : <<c, d>> \in R /\ <<d, e>> \in R => <<c, e>> \in R,
         \A c, d \in S : c # d => <<c, d>> \in R \/ <<d, c>> \in R
  PROVE  /\ place \in [S -> Nat]
         /\ \A c, d \in S : place[c] = place[d] => c = d
<1> DEFINE Before(c) == {d \in S : <<d, c>> \in R}
<1>1. \A c \in S : IsFiniteSet(Before(c)) /\ Cardinality(Before(c)) \in Nat
  BY FS_Subset, FS_CardinalityType
<1>2. ASSUME NEW c \in S, NEW d \in S, <<c, d>> \in R
      PROVE  Cardinality(Before(c)) # Cardinality(Before(d))
  <2>1. Before(c) \subseteq Before(d) /\ c \in Before(d) /\ c \notin Before(c)
    BY <1>2
  <2> HIDE DEF Before
  <2> QED
    BY <1>1, <2>1, FS_Subset, SMT
<1>3. \A c \in S : place[c] = Cardinality(Before(c))
  OBVIOUS
<1> HIDE DEF Before
<1> QED
  BY <1>1, <1>2, <1>3

(* A key that ends with x.                                                 *)
KeyTo(s, n, x) == IsKey(s, n) /\ s[n] = x

(* The concatenation of two keys ends with the end of the second.          *)
LEMMA ConcatKey ==
  ASSUME NEW m \in Nat, NEW n \in Nat \ {0}, NEW x, NEW s, NEW t, IsKey(s, m), KeyTo(t, n, x)
  PROVE  KeyTo(s \o t, m + n, x)
<1>1. /\ s \in Seq(Int) /\ t \in Seq(Int) /\ Len(s) = m /\ Len(t) = n /\ t[n] = x
  BY DEF IsKey, KeyTo
<1> DEFINE c == s \o t
<1>2. /\ c \in Seq(Int) /\ Len(c) = Len(s) + Len(t)
      /\ \A i \in 1..Len(s) + Len(t) : c[i] = IF i <= Len(s) THEN s[i] ELSE t[i - Len(s)]
  BY <1>1, ConcatProperties, Zenon
<1> HIDE DEF c
<1>3. IsKey(c, m + n)
  BY <1>1, <1>2 DEF IsKey
<1>4. c[m + n] = t[n]
  <2>1. m + n \in 1..m + n /\ ~(m + n <= m) /\ (m + n) - m = n
    OBVIOUS
  <2> QED
    BY <1>1, <1>2, <2>1
<1>5. KeyTo(c, m + n, x)
  BY <1>1, <1>3, <1>4 DEF KeyTo
<1> QED
  BY <1>5 DEF c

(* Sort keys have one length for a strategy and end with the tag.          *)
LEMMA SortKeys ==
  ASSUME NEW strategy
  PROVE  \E n \in Nat \ {0} : \A c \in CandidateType : KeyTo(SortKey(c, strategy), n, c.tag)
<1>1. ASSUME NEW c \in CandidateType
      PROVE  /\ IsKey(OrLast(c.score, None), 2) /\ IsKey(OrLast(c.load, None), 2)
             /\ IsKey(OrLast(c.label, 0), 2) /\ KeyTo(<<c.tag>>, 1, c.tag)
  <2>1. c.tag \in Int /\ c.score \in Int /\ c.load \in Int /\ c.label \in Int
    BY DEF CandidateType, Tunnels
  <2>2. \A x \in Int : \A m : IsKey(OrLast(x, m), 2)
    BY DEF OrLast, IsKey
  <2> QED
    BY <2>1, <2>2 DEF IsKey, KeyTo
<1>2. ASSUME NEW a, NEW b, NEW l, NEW y, NEW x, IsKey(a, 2), IsKey(b, 2), IsKey(l, 2), KeyTo(y, 1, x)
      PROVE  KeyTo(a \o b \o l \o y, 7, x) /\ KeyTo(l \o y, 3, x)
  <2>1. /\ 2 + 2 = 4 /\ 4 + 2 = 6 /\ 6 + 1 = 7 /\ 2 + 1 = 3 /\ 2 \in Nat /\ 4 \in Nat /\ 6 \in Nat
        /\ 1 \in Nat \ {0} /\ 2 \in Nat \ {0}
    OBVIOUS
  <2>2. IsKey(a \o b, 4)
    <3>1. KeyTo(b, 2, b[2])
      BY <1>2 DEF KeyTo
    <3> QED
      BY <1>2, <2>1, <3>1, ConcatKey DEF KeyTo
  <2>3. IsKey(a \o b \o l, 6)
    <3>1. KeyTo(l, 2, l[2])
      BY <1>2 DEF KeyTo
    <3> QED
      BY <2>1, <2>2, <3>1, ConcatKey DEF KeyTo
  <2>4. KeyTo(a \o b \o l \o y, 6 + 1, x)
    BY <1>2, <2>1, <2>3, ConcatKey, Zenon
  <2>5. KeyTo(l \o y, 2 + 1, x)
    BY <1>2, <2>1, ConcatKey, Zenon
  <2> QED
    BY <2>1, <2>4, <2>5, Zenon
<1>3. CASE strategy \in {"score", "load"}
  <2>1. ASSUME NEW c \in CandidateType
        PROVE  KeyTo(SortKey(c, strategy), 7, c.tag)
    <3> DEFINE a == OrLast(c.score, None)
               b == OrLast(c.load, None)
               l == OrLast(c.label, 0)
               y == <<c.tag>>
    <3>1. SortKey(c, strategy) \in {a \o b \o l \o y, b \o a \o l \o y}
      BY <1>3, Zenon DEF SortKey
    <3>2. IsKey(a, 2) /\ IsKey(b, 2) /\ IsKey(l, 2) /\ KeyTo(y, 1, c.tag)
      BY <1>1, <2>1
    <3> HIDE DEF a, b, l, y
    <3>3. KeyTo(a \o b \o l \o y, 7, c.tag) /\ KeyTo(b \o a \o l \o y, 7, c.tag)
      BY <1>2, <3>2, Zenon
    <3> QED
      BY <3>1, <3>3, Zenon
  <2> QED
    BY <2>1
<1>4. CASE strategy \notin {"score", "load"}
  <2>1. ASSUME NEW c \in CandidateType
        PROVE  KeyTo(SortKey(c, strategy), 3, c.tag)
    <3> DEFINE l == OrLast(c.label, 0)
               y == <<c.tag>>
    <3>1. SortKey(c, strategy) = l \o y
      BY <1>4, Zenon DEF SortKey
    <3>2. IsKey(l, 2) /\ KeyTo(y, 1, c.tag)
      BY <1>1, <2>1
    <3> HIDE DEF l, y
    <3> QED
      BY <1>2, <3>1, <3>2, Zenon
  <2> QED
    BY <2>1
<1> QED
  BY <1>3, <1>4

(* A candidate file: finitely many candidates, one per tag.                *)
IsFile(f) ==
  /\ IsFiniteSet(f) /\ f \subseteq CandidateType
  /\ \A c, d \in f : c.tag = d.tag => c = d

(* A ranking gives every candidate a place of its own.                     *)
IsRanking(f, ranked) ==
  /\ ranked \in [f -> Nat]
  /\ \A c, d \in f : ranked[c] = ranked[d] => c = d

(* The first sort has no ties: the tag decides last.                       *)
LEMMA SortedRanks ==
  ASSUME NEW f, IsFile(f), NEW strategy
  PROVE  IsRanking(f, Sorted(f, strategy))
<1> DEFINE K(c) == SortKey(c, strategy)
           R == {p \in f \X f : LexLess(K(p[1]), K(p[2]))}
<1>1. PICK n \in Nat \ {0} : \A c \in CandidateType : KeyTo(K(c), n, c.tag)
  BY SortKeys
<1>2. \A c \in f : IsKey(K(c), n) /\ K(c)[n] = c.tag
  BY <1>1 DEF KeyTo, IsFile
<1> HIDE DEF K
<1>3. \A c, d \in f : <<c, d>> \in R <=> LexLess(K(c), K(d))
  OBVIOUS
<1>4. \A c, d \in f : c # d => K(c) # K(d)
  BY <1>2 DEF IsFile
<1>5. Sorted(f, strategy) = [c \in f |-> Cardinality({d \in f : <<d, c>> \in R})]
  <2>1. \A c \in f : {d \in f : LexLess(K(d), K(c))} = {d \in f : <<d, c>> \in R}
    BY <1>3
  <2> HIDE DEF R
  <2> QED
    BY <2>1, Zenon DEF Sorted, K
<1> HIDE DEF R
<1>6. /\ \A c \in f : <<c, c>> \notin R
      /\ \A c, d, e \in f : <<c, d>> \in R /\ <<d, e>> \in R => <<c, e>> \in R
      /\ \A c, d \in f : c # d => <<c, d>> \in R \/ <<d, c>> \in R
  BY <1>2, <1>3, <1>4, LexOrder
<1> QED
  BY <1>5, <1>6, PlacesDiffer DEF IsFile, IsRanking

(* Rank: the groups of a masque key do not bring ties back.                *)
LEMMA RankRanks ==
  ASSUME NEW f, IsFile(f), NEW strategy
  PROVE  IsRanking(f, Rank(f, strategy))
<1> DEFINE sorted == Sorted(f, strategy)
           K(c) == GroupKey(c, sorted)
           R == {p \in f \X f : LexLess(K(p[1]), K(p[2]))}
<1>1. IsRanking(f, sorted)
  BY SortedRanks
<1>2. ASSUME NEW c \in f
      PROVE  IsKey(K(c), 3) /\ K(c)[3] = sorted[c]
  <2>1. c.priority \in Int /\ sorted[c] \in Nat /\ DOMAIN sorted = f
    BY <1>1 DEF IsFile, IsRanking, CandidateType
  <2>2. c.transport # 0 => Min({sorted[d] : d \in Mates(f, c)}) \in Nat
    <3> DEFINE S == {sorted[d] : d \in Mates(f, c)}
    <3>1. c.transport # 0 => S # {} /\ S \subseteq Nat
      BY <1>1 DEF IsRanking, Mates
    <3> HIDE DEF S
    <3>2. c.transport # 0 => Min(S) \in Nat
      BY <3>1, LeastPort
    <3> QED
      BY <3>2 DEF S
  <2> HIDE DEF sorted
  <2> QED
    BY <2>1, <2>2 DEF GroupKey, IsKey
<1> HIDE DEF K
<1>3. \A c, d \in f : <<c, d>> \in R <=> LexLess(K(c), K(d))
  OBVIOUS
<1>4. \A c, d \in f : c # d => K(c) # K(d)
  BY <1>1, <1>2 DEF IsRanking
<1>5. Rank(f, strategy) = [c \in f |-> Cardinality({d \in f : <<d, c>> \in R})]
  <2>1. \A c \in f : {d \in f : LexLess(K(d), K(c))} = {d \in f : <<d, c>> \in R}
    BY <1>3
  <2> HIDE DEF R
  <2> QED
    BY <2>1, Zenon DEF Rank, K
<1> HIDE DEF R
<1>6. /\ \A c \in f : <<c, c>> \notin R
      /\ \A c, d, e \in f : <<c, d>> \in R /\ <<d, e>> \in R => <<c, e>> \in R
      /\ \A c, d \in f : c # d => <<c, d>> \in R \/ <<d, c>> \in R
  BY <1>2, <1>3, <1>4, LexOrder
<1> QED
  BY <1>5, <1>6, PlacesDiffer DEF IsFile, IsRanking

(* Best is one of the candidates it is asked about, and before them all.   *)
LEMMA BestIsFirst ==
  ASSUME NEW f, NEW ranked, IsRanking(f, ranked), NEW S \in SUBSET f, S # {}
  PROVE  Best(S, ranked) \in S /\ \A d \in S : ranked[Best(S, ranked)] <= ranked[d]
<1> DEFINE P == {ranked[c] : c \in S}
<1>1. P # {} /\ P \subseteq Nat
  BY DEF IsRanking
<1>2. PICK c \in S : \A d \in S : ranked[c] <= ranked[d]
  <2>1. \A d \in S : ranked[d] \in P
    OBVIOUS
  <2>2. Min(P) \in P /\ \A y \in P : Min(P) <= y
    <3> HIDE DEF P
    <3> QED
      BY <1>1, LeastPort
  <2> QED
    BY <2>1, <2>2
<1> QED
  BY <1>2 DEF Best

(* Pick: the places of the first candidates of the keys are 1, 2, ... and  *)
(* their own, so at most maxActive are picked, no two of one key.          *)
LEMMA SeatsDiffer ==
  ASSUME NEW f, IsFiniteSet(f), NEW ranked, IsRanking(f, ranked)
  PROVE  LET first == Firsts(f, ranked) IN
         /\ \A c \in first : Seat(c, ranked) \in 1..Cardinality(first)
         /\ \A c, d \in first : Seat(c, ranked) = Seat(d, ranked) => c = d
         /\ \A c, d \in first : c.key = d.key => c = d
<1> DEFINE first == Firsts(f, ranked)
           Upto(c) == {d \in first : ranked[d] <= ranked[c]}
<1>1. first \subseteq f /\ IsFiniteSet(first) /\ \A c \in first : ranked[c] \in Nat
  BY FS_Subset DEF Firsts, IsRanking
<1>2. \A c : Seat(c, ranked) = Cardinality(Upto(c))
  BY DEF Seat, IsRanking
<1>3. \A c, d \in first : c.key = d.key => c = d
  BY <1>1 DEF Firsts, IsRanking
<1>4. \A c, d \in first : ranked[c] = ranked[d] => c = d
  BY <1>1 DEF IsRanking
<1> HIDE DEF first
<1>5. ASSUME NEW c \in first
      PROVE  /\ IsFiniteSet(Upto(c))
             /\ Cardinality(Upto(c)) \in 1..Cardinality(first)
  <2>1. Upto(c) \subseteq first /\ c \in Upto(c)
    BY <1>1
  <2>2. IsFiniteSet(Upto(c)) /\ Cardinality(Upto(c)) <= Cardinality(first)
    BY <1>1, <2>1, FS_Subset
  <2>3. Cardinality(Upto(c)) # 0
    BY <2>1, <2>2, FS_EmptySet
  <2> HIDE DEF Upto
  <2> QED
    BY <1>1, <2>2, <2>3, FS_CardinalityType
<1>6. ASSUME NEW c \in first, NEW d \in first, ranked[c] < ranked[d]
      PROVE  Cardinality(Upto(c)) # Cardinality(Upto(d))
  <2>1. Upto(c) \subseteq Upto(d) /\ d \in Upto(d) /\ d \notin Upto(c)
    BY <1>1, <1>6
  <2> HIDE DEF Upto
  <2> QED
    BY <1>5, <2>1, FS_Subset
<1>7. \A c, d \in first : Cardinality(Upto(c)) = Cardinality(Upto(d)) => c = d
  <2> HIDE DEF Upto
  <2> QED
    BY <1>1, <1>4, <1>6
<1> HIDE DEF Upto
<1> QED
  BY <1>2, <1>3, <1>5, <1>7 DEF first

(* Pick: at most n candidates, one per key, each on a seat of its own.     *)
LEMMA PickFits ==
  ASSUME NEW f, IsFiniteSet(f), NEW ranked, IsRanking(f, ranked), NEW n \in Nat
  PROVE  LET picked == Pick(ranked, n) IN
         /\ picked \subseteq f /\ IsFiniteSet(picked) /\ Cardinality(picked) <= n
         /\ \A c, d \in picked : c.key = d.key => c = d
         /\ \A c, d \in picked : Seat(c, ranked) = Seat(d, ranked) => c = d
         /\ \A c \in picked : Seat(c, ranked) \in 1..Cardinality(f)
<1> DEFINE picked == Pick(ranked, n)
           first == Firsts(f, ranked)
           seat == [c \in picked |-> Seat(c, ranked)]
<1>1. picked \subseteq first /\ first \subseteq f /\ \A c \in picked : Seat(c, ranked) <= n
  BY DEF Pick, Firsts, IsRanking
<1>2. IsFiniteSet(picked) /\ IsFiniteSet(first) /\ Cardinality(first) <= Cardinality(f)
  BY <1>1, FS_Subset
<1>3. /\ \A c \in first : Seat(c, ranked) \in 1..Cardinality(first)
      /\ \A c, d \in first : Seat(c, ranked) = Seat(d, ranked) => c = d
      /\ \A c, d \in first : c.key = d.key => c = d
  BY SeatsDiffer
<1>4. Cardinality(first) \in Nat /\ Cardinality(f) \in Nat
  BY <1>2, FS_CardinalityType
<1>5. Cardinality(picked) <= n
  <2>1. seat \in Injection(picked, 1..n)
    <3>1. \A c \in picked : Seat(c, ranked) \in 1..n
      BY <1>1, <1>3, <1>4
    <3> HIDE DEF picked, first
    <3> QED
      BY <1>1, <1>3, <3>1 DEF Injection, IsInjective
  <2>2. IsFiniteSet(1..n) /\ Cardinality(1..n) = n
    BY FS_Interval
  <2> HIDE DEF picked, seat
  <2> QED
    BY <2>1, <2>2, FS_Injection
<1>6. \A c \in first : Seat(c, ranked) \in 1..Cardinality(f)
  BY <1>2, <1>3, <1>4
<1> HIDE DEF picked, first
<1> QED
  BY <1>1, <1>2, <1>3, <1>5, <1>6 DEF picked

-----------------------------------------------------------------------------
(* Decide (decide.go).                                                     *)

(* The file of a tag does not matter: its key and pair are its own.        *)
Loadable == Files \cup {{}}

(* What a file or an empty set of candidates gives the rankings.           *)
LEMMA FileFacts ==
  ASSUME NEW f \in Loadable
  PROVE  /\ IsFile(f) /\ IsRanking(f, Ranked(f)) /\ TagsOf(f) \subseteq Tunnels
         /\ \A c \in f : /\ KeyOf(c.tag) = c.key /\ Pair(CandidateOf(c.tag)) = Pair(c)
                         /\ c.tag \in TagsOf(f)
<1>1. IsFile(f)
  BY CandidateAssumption, FS_EmptySet DEF Loadable, IsFile
<1>2. IsRanking(f, Ranked(f))
  BY <1>1, RankRanks DEF Ranked
<1>3. TagsOf(f) \subseteq Tunnels
  BY <1>1 DEF IsFile, TagsOf, CandidateType
<1>4. ASSUME NEW c \in f
      PROVE  KeyOf(c.tag) = c.key /\ Pair(CandidateOf(c.tag)) = Pair(c) /\ c.tag \in TagsOf(f)
  <2>1. c \in UNION Files
    BY DEF Loadable
  <2>2. CandidateOf(c.tag) \in UNION Files /\ CandidateOf(c.tag).tag = c.tag
    BY <2>1 DEF CandidateOf
  <2>3. Pair(CandidateOf(c.tag)) = Pair(c)
    BY <2>1, <2>2, CandidateAssumption
  <2> QED
    BY <2>3 DEF Pair, KeyOf, TagsOf
<1> QED
  BY <1>1, <1>2, <1>3, <1>4

(* The tunnel an action leaves in the slot of t, and the slots whose       *)
(* tunnel will be one of the file.                                         *)
Fin(acted, t) == IF acted[t] = Keep THEN t ELSE acted[t]
Live(acted) == {t \in Known : Fin(acted, t) \in TagsOf(loaded)}

(* What the decisions of a sync promise: new tunnels come from the file,   *)
(* are not active and not in quarantine, and no two slots end with one     *)
(* key.                                                                    *)
GoodActs(acted) ==
  /\ acted \in [Known -> {Keep, Drop} \cup TagsOf(loaded)]
  /\ \A t \in Known : acted[t] \in TagsOf(loaded) =>
       acted[t] \notin Known /\ Pair(CandidateOf(acted[t])) \notin quarantine
  /\ \A t, u \in Live(acted) : t # u => KeyOf(Fin(acted, t)) # KeyOf(Fin(acted, u))

(* After turn i of Decide: the keys and tags in use are those of the       *)
(* decisions so far, and a tunnel that left the file has its decision.     *)
TurnInv(s, i) ==
  /\ GoodActs(s.acts)
  /\ s = [acts |-> s.acts, inUse |-> s.inUse, keys |-> s.keys, series |-> s.series]
  /\ Known \subseteq s.inUse
  /\ \A t \in Live(s.acts) : KeyOf(Fin(s.acts, t)) \in s.keys
  /\ \A t \in Known : port[t] <= i /\ t \notin TagsOf(loaded) => s.acts[t] # Keep

TurnOf(s, i) == Turn(s, i, SlotOf, N, Switchable, Ranked(loaded), quarantine, better, Config)

(* take: a free candidate for the slot of a tunnel.                        *)
LEMMA TakeKeeps ==
  ASSUME NEW s, NEW i \in Nat, TurnInv(s, i), loaded \in Loadable, NEW t \in Known, NEW keys,
         \A u \in Live(s.acts) \ {t} : KeyOf(Fin(s.acts, u)) \in keys,
         NEW c \in loaded, c.tag \notin s.inUse, c.key \notin keys, Pair(c) \notin quarantine
  PROVE  TurnInv(Take([s EXCEPT !.keys = keys], t, c), i) 
<1> DEFINE r == Take([s EXCEPT !.keys = keys], t, c)
<1>1. /\ r.acts = [s.acts EXCEPT ![t] = c.tag] /\ r.inUse = s.inUse \cup {c.tag} /\ r.keys = keys \cup {c.key}
      /\ r = [acts |-> r.acts, inUse |-> r.inUse, keys |-> r.keys, series |-> r.series]
  <2> DEFINE q == [s EXCEPT !.keys = keys]
  <2>1. s = [acts |-> s.acts, inUse |-> s.inUse, keys |-> s.keys, series |-> s.series]
    BY DEF TurnInv
  <2>2. q = [acts |-> s.acts, inUse |-> s.inUse, keys |-> keys, series |-> s.series]
    BY <2>1
  <2> HIDE DEF q
  <2>3. Take(q, t, c) = [acts |-> [s.acts EXCEPT ![t] = c.tag], inUse |-> s.inUse \cup {c.tag},
                         keys |-> keys \cup {c.key}, series |-> s.series]
    BY <2>2 DEF Take
  <2>4. r = Take(q, t, c)
    BY DEF q
  <2> HIDE DEF r
  <2> QED
    BY <2>3, <2>4
<1>2. /\ KeyOf(c.tag) = c.key /\ Pair(CandidateOf(c.tag)) = Pair(c) /\ c.tag \in TagsOf(loaded)
      /\ c.tag # Keep
  BY FileFacts DEF Tunnels, Keep
<1>3. s.acts \in [Known -> {Keep, Drop} \cup TagsOf(loaded)] /\ Known \subseteq s.inUse
  BY DEF TurnInv, GoodActs
<1> HIDE DEF r
<1>4. /\ Fin(r.acts, t) = c.tag
      /\ \A u \in Known : u # t => Fin(r.acts, u) = Fin(s.acts, u) /\ r.acts[u] = s.acts[u]
  BY <1>1, <1>2, <1>3 DEF Fin
<1>5. Live(r.acts) = Live(s.acts) \cup {t}
  BY <1>2, <1>4 DEF Live
<1>6. GoodActs(r.acts)
  <2>1. r.acts \in [Known -> {Keep, Drop} \cup TagsOf(loaded)]
    BY <1>1, <1>2, <1>3
  <2>2. \A u \in Known : r.acts[u] \in TagsOf(loaded) =>
          r.acts[u] \notin Known /\ Pair(CandidateOf(r.acts[u])) \notin quarantine
    BY <1>1, <1>2, <1>3, <1>4 DEF TurnInv, GoodActs
  <2>3. \A u, v \in Live(r.acts) : u # v => KeyOf(Fin(r.acts, u)) # KeyOf(Fin(r.acts, v))
    <3>1. \A u \in Live(s.acts) \ {t} : KeyOf(Fin(r.acts, u)) \in keys /\ Fin(r.acts, u) = Fin(s.acts, u)
      BY <1>4 DEF Live
    <3>2. KeyOf(Fin(r.acts, t)) \notin keys
      BY <1>2, <1>4
    <3> QED
      BY <1>5, <3>1, <3>2 DEF TurnInv, GoodActs
  <2> QED
    BY <2>1, <2>2, <2>3 DEF GoodActs
<1>7. \A u \in Live(r.acts) : KeyOf(Fin(r.acts, u)) \in r.keys
  <2>1. KeyOf(Fin(r.acts, t)) \in r.keys
    BY <1>1, <1>2, <1>4
  <2>2. \A u \in Live(s.acts) \ {t} : KeyOf(Fin(r.acts, u)) \in r.keys
    BY <1>1, <1>4 DEF Live
  <2> QED
    BY <1>5, <2>1, <2>2
<1>8. \A u \in Known : port[u] <= i /\ u \notin TagsOf(loaded) => r.acts[u] # Keep
  BY <1>1, <1>2, <1>3, <1>4 DEF TurnInv
<1>9. TurnInv(r, i)
  BY <1>1, <1>3, <1>6, <1>7, <1>8 DEF TurnInv
<1> QED
  BY <1>9 DEF r

(* The first loop: a tunnel that left the file is replaced or removed.     *)
LEMMA GoneKeeps ==
  ASSUME NEW s, NEW i \in Nat, TurnInv(s, i), loaded \in Loadable, NEW t \in Known
  PROVE  LET r == Gone(s, t, Ranked(loaded), quarantine) IN
         TurnInv(r, i) /\ (t \notin TagsOf(loaded) => r.acts[t] # Keep)
<1> DEFINE ranked == Ranked(loaded)
           free == Allowed(ranked, s.inUse, s.keys, quarantine)
           r == Gone(s, t, ranked, quarantine)
<1>1. DOMAIN ranked = loaded /\ IsRanking(loaded, ranked) /\ Present(ranked) = TagsOf(loaded)
  BY FileFacts DEF IsRanking, Present, TagsOf
<1>2. s.acts \in [Known -> {Keep, Drop} \cup TagsOf(loaded)]
  BY DEF TurnInv, GoodActs
<1>3. Drop \notin TagsOf(loaded) /\ Keep \notin TagsOf(loaded) /\ Drop # Keep
  BY FileFacts DEF Drop, Keep, Tunnels
<1>4. CASE t \in TagsOf(loaded)
  BY <1>1, <1>4 DEF Gone
<1>5. CASE t \notin TagsOf(loaded) /\ free # {}
  <2> DEFINE c == Best(free, ranked)
  <2>1. free \subseteq loaded
    BY <1>1 DEF Allowed
  <2>2. c \in free
    <3> HIDE DEF free, ranked
    <3> QED
      BY <1>1, <1>5, <2>1, BestIsFirst
  <2>3. c \in loaded /\ c.tag \notin s.inUse /\ c.key \notin s.keys /\ Pair(c) \notin quarantine
    BY <1>1, <2>2 DEF Allowed
  <2>4. s = [s EXCEPT !.keys = s.keys]
    BY DEF TurnInv
  <2>5. r = Take(s, t, c)
    BY <1>1, <1>5 DEF Gone
  <2> HIDE DEF c, free, ranked, r
  <2>6. TurnInv(Take([s EXCEPT !.keys = s.keys], t, c), i)
    <3>1. \A u \in Live(s.acts) \ {t} : KeyOf(Fin(s.acts, u)) \in s.keys
      BY DEF TurnInv
    <3> QED
      BY <2>3, <3>1, TakeKeeps
  <2>7. r.acts[t] = c.tag
    BY <1>2, <2>5 DEF Take
  <2>8. c.tag \in TagsOf(loaded)
    BY <2>3 DEF TagsOf
  <2>9. TurnInv(r, i) /\ r.acts[t] # Keep
    BY <1>3, <2>4, <2>5, <2>6, <2>7, <2>8
  <2> QED
    BY <2>9 DEF r, ranked
<1>6. CASE t \notin TagsOf(loaded) /\ free = {}
  <2>1. r = [s EXCEPT !.acts[t] = Drop]
    BY <1>1, <1>6 DEF Gone
  <2> HIDE DEF r
  <2>2. /\ r.acts = [s.acts EXCEPT ![t] = Drop] /\ r.inUse = s.inUse /\ r.keys = s.keys
        /\ r = [acts |-> r.acts, inUse |-> r.inUse, keys |-> r.keys, series |-> r.series]
    BY <2>1 DEF TurnInv
  <2>3. \A u \in Known : u # t => r.acts[u] = s.acts[u] /\ Fin(r.acts, u) = Fin(s.acts, u)
    BY <1>2, <2>2 DEF Fin
  <2>4. r.acts[t] = Drop /\ Fin(r.acts, t) = Drop
    BY <1>2, <1>3, <2>2 DEF Fin
  <2>5. Live(r.acts) = Live(s.acts) \ {t}
    BY <1>3, <2>3, <2>4 DEF Live
  <2>6. GoodActs(r.acts)
    BY <1>2, <1>3, <2>2, <2>3, <2>4, <2>5 DEF TurnInv, GoodActs, Live
  <2>7. TurnInv(r, i)
    BY <1>3, <2>2, <2>3, <2>4, <2>5, <2>6 DEF TurnInv, Live
  <2> QED
    BY <1>3, <2>4, <2>7 DEF r
<1> QED
  BY <1>4, <1>5, <1>6

(* The second loop: a switch gives up the key of the tunnel it replaces,   *)
(* and only that one.                                                      *)
LEMMA SwitchKeeps ==
  ASSUME NEW s, NEW i \in Nat, TurnInv(s, i), loaded \in Loadable, NEW t \in Known,
         \A u \in Known : port[u] <= i
  PROVE  TurnInv(Switch(s, t, Ranked(loaded), quarantine, better, Config), i)
<1> DEFINE ranked == Ranked(loaded)
           a == ByTag(t, ranked)
           others == s.keys \ {a.key}
           rivals == {c \in Rivals(a, ranked, s.inUse, others, quarantine) : Beats(c, a, Config.strategy, Config.margin)}
           best == Best(rivals, ranked)
           k == <<t, best.tag>>
           n == 1 + (IF k \in DOMAIN better THEN better[k] ELSE 0)
           r == Switch(s, t, ranked, quarantine, better, Config)
           series == [j \in DOMAIN s.series \cup {k} |-> IF j = k THEN n ELSE s.series[j]]
<1>1. DOMAIN ranked = loaded /\ IsRanking(loaded, ranked) /\ Present(ranked) = TagsOf(loaded)
  BY FileFacts DEF IsRanking, Present, TagsOf
<1>2. s.acts \in [Known -> {Keep, Drop} \cup TagsOf(loaded)]
  BY DEF TurnInv, GoodActs
<1>3. \/ r = s
      \/ s.acts[t] = Keep /\ rivals # {} /\ r = Take([s EXCEPT !.keys = others], t, best)
      \/ r = [s EXCEPT !.series = series]
  BY DEF Switch
<1>4. CASE s.acts[t] = Keep /\ rivals # {} /\ r = Take([s EXCEPT !.keys = others], t, best)
  <2>1. t \in TagsOf(loaded)
    BY <1>4 DEF TurnInv
  <2>2. a \in loaded /\ a.tag = t
    BY <1>1, <2>1 DEF ByTag, TagsOf
  <2>3. a.key = KeyOf(t)
    BY <2>2, FileFacts
  <2>4. rivals \subseteq Allowed(ranked, s.inUse, others, quarantine)
    BY DEF Rivals
  <2>5. rivals \subseteq loaded
    BY <1>1, <2>4 DEF Allowed
  <2> HIDE DEF rivals, a, ranked
  <2>6. best \in rivals
    BY <1>1, <1>4, <2>5, BestIsFirst
  <2>7. best \in loaded /\ best.tag \notin s.inUse /\ best.key \notin others /\ Pair(best) \notin quarantine
    BY <1>1, <2>4, <2>6 DEF Allowed
  <2>8. \A u \in Live(s.acts) \ {t} : KeyOf(Fin(s.acts, u)) \in others
    <3>1. t \in Live(s.acts) /\ Fin(s.acts, t) = t
      BY <1>4, <2>1 DEF Live, Fin
    <3>2. \A u \in Live(s.acts) \ {t} : KeyOf(Fin(s.acts, u)) # KeyOf(t)
      BY <3>1 DEF TurnInv, GoodActs
    <3> QED
      BY <2>3, <3>2 DEF TurnInv
  <2> HIDE DEF best, others
  <2> QED
    BY <1>4, <2>7, <2>8, TakeKeeps DEF ranked
<1>5. CASE r = [s EXCEPT !.series = series]
  <2> HIDE DEF r, series
  <2>1. /\ r.acts = s.acts /\ r.inUse = s.inUse /\ r.keys = s.keys
        /\ r = [acts |-> r.acts, inUse |-> r.inUse, keys |-> r.keys, series |-> r.series]
    BY <1>5 DEF TurnInv
  <2>2. TurnInv(r, i)
    BY <2>1 DEF TurnInv
  <2> QED
    BY <2>2 DEF r, ranked
<1> QED
  BY <1>3, <1>4, <1>5

(* Memory as Decide finds it: every tunnel has a port of its own within    *)
(* the range and a key of its own.                                         *)
Decidable ==
  /\ loaded \in Loadable
  /\ port \in [Tunnels -> 0..N] /\ Distinct(port)
  /\ \A t, u \in Known : KeyOf(t) = KeyOf(u) => t = u

(* One turn of either loop of Decide keeps what is known of the actions.   *)
LEMMA TurnKeeps ==
  ASSUME Decidable, NEW s, NEW i \in Nat \ {0}, TurnInv(s, i - 1)
  PROVE  TurnInv(TurnOf(s, i), i)
<1> DEFINE j == IF i <= N THEN i ELSE i - N
           here == {t \in Known : port[t] = j}
           t == CHOOSE u \in here : TRUE
           r == TurnOf(s, i)
<1>0. N \in Nat /\ i - 1 \in Nat /\ Known \subseteq Tunnels /\ \A u \in Known : port[u] \in 1..N
  BY XrayAssumption DEF Decidable, Known
<1>1. DOMAIN SlotOf = Known /\ {u \in DOMAIN SlotOf : SlotOf[u] = j} = here
  BY DEF SlotOf
<1>2. /\ here = {} => r = s
      /\ here # {} /\ i <= N => r = Gone(s, t, Ranked(loaded), quarantine)
      /\ here # {} /\ ~(i <= N) => r \in {s, Switch(s, t, Ranked(loaded), quarantine, better, Config)}
  BY <1>1 DEF TurnOf, Turn
<1>3. here # {} => t \in Known /\ port[t] = j
  OBVIOUS
<1>4. \A u \in Known : port[u] = j => here # {} /\ u = t
  BY <1>3 DEF Decidable, Distinct, Known
<1> HIDE DEF r, t, here
<1>5. ASSUME NEW q, TurnInv(q, i - 1),
             \A u \in Known : port[u] = i /\ u \notin TagsOf(loaded) => q.acts[u] # Keep
      PROVE  TurnInv(q, i)
  <2>1. \A u \in Known : port[u] <= i => port[u] <= i - 1 \/ port[u] = i
    BY <1>0
  <2>2. \A u \in Known : port[u] <= i /\ u \notin TagsOf(loaded) => q.acts[u] # Keep
    BY <1>5, <2>1 DEF TurnInv
  <2> QED
    BY <1>5, <2>2 DEF TurnInv
<1>6. CASE here = {}
  <2>1. \A u \in Known : port[u] # i
    BY <1>0, <1>4, <1>6
  <2> QED
    BY <1>2, <1>5, <1>6, <2>1 DEF r
<1>7. CASE here # {} /\ i <= N
  <2>1. TurnInv(r, i - 1) /\ (t \notin TagsOf(loaded) => r.acts[t] # Keep)
    BY <1>0, <1>2, <1>3, <1>7, GoneKeeps DEF Decidable
  <2> QED
    BY <1>4, <1>5, <1>7, <2>1 DEF r
<1>8. CASE here # {} /\ ~(i <= N)
  <2>1. \A u \in Known : port[u] <= i - 1 /\ port[u] # i
    BY <1>0, <1>8
  <2>2. TurnInv(r, i - 1)
    BY <1>0, <1>2, <1>3, <1>8, <2>1, SwitchKeeps DEF Decidable
  <2> QED
    BY <1>5, <2>1, <2>2 DEF r
<1> QED
  BY <1>6, <1>7, <1>8

(* The start of Decide.                                                    *)
LEMMA StartHolds ==
  ASSUME Decidable
  PROVE  TurnInv(Start(Known, Ranked(loaded)), 0)
<1> DEFINE s == Start(Known, Ranked(loaded))
<1>1. DOMAIN Ranked(loaded) = loaded
  BY FileFacts DEF Decidable, IsRanking
<1>2. /\ s.acts = [t \in Known |-> Keep] /\ s.inUse = Known /\ s.keys = KeysOf(loaded, Known)
      /\ s = [acts |-> s.acts, inUse |-> s.inUse, keys |-> s.keys, series |-> s.series]
  BY <1>1 DEF Start
<1> HIDE DEF s
<1>3. Keep \notin TagsOf(loaded)
  BY FileFacts DEF Decidable, Keep, Tunnels
<1>4. \A t \in Known : s.acts[t] = Keep /\ Fin(s.acts, t) = t
  BY <1>2 DEF Fin
<1>5. Live(s.acts) = Known \cap TagsOf(loaded)
  BY <1>4 DEF Live
<1>6. GoodActs(s.acts)
  BY <1>2, <1>3, <1>4, <1>5 DEF GoodActs, Decidable
<1>7. \A t \in Live(s.acts) : KeyOf(Fin(s.acts, t)) \in s.keys
  <2>1. ASSUME NEW t \in Known, t \in TagsOf(loaded)
        PROVE  KeyOf(t) \in KeysOf(loaded, Known)
    <3>1. PICK c \in loaded : c.tag = t
      BY <2>1 DEF TagsOf
    <3> QED
      BY <2>1, <3>1, FileFacts DEF KeysOf, Decidable
  <2> QED
    BY <1>2, <1>4, <1>5, <2>1
<1>8. \A t \in Known : port[t] <= 0 => FALSE
  BY DEF Known, Decidable
<1>9. TurnInv(s, 0)
  BY <1>2, <1>6, <1>7, <1>8 DEF TurnInv
<1> QED
  BY <1>9 DEF s

(* The two loops of Decide as a recursive function.                        *)
Turns(n, g) == g = [i \in 0..n |-> IF i = 0 THEN Start(Known, Ranked(loaded)) ELSE TurnOf(g[i - 1], i)]

(* The loops have a result after any number of turns.                      *)
LEMMA TurnsExist ==
  ASSUME NEW n \in Nat
  PROVE  \E g : Turns(n, g)
<1> DEFINE P(m) == \E g : Turns(m, g)
           Bad == {m \in Nat : ~P(m)}
<1>1. P(0)
  <2> DEFINE g == [i \in 0..0 |-> Start(Known, Ranked(loaded))]
  <2>1. g = [i \in 0..0 |-> IF i = 0 THEN Start(Known, Ranked(loaded)) ELSE TurnOf(g[i - 1], i)]
    <3>1. \A i \in 0..0 : i = 0
      OBVIOUS
    <3> QED
      BY <3>1, Zenon
  <2> QED
    BY <2>1 DEF Turns
<1>2. ASSUME NEW m \in Nat, P(m)
      PROVE  P(m + 1)
  <2>1. PICK g : Turns(m, g)
    BY <1>2
  <2> DEFINE A == Start(Known, Ranked(loaded))
             h == [i \in 0..m + 1 |-> IF i = m + 1 THEN TurnOf(g[m], m + 1) ELSE g[i]]
  <2>2. \A i \in 0..m : g[i] = IF i = 0 THEN A ELSE TurnOf(g[i - 1], i)
    BY <2>1, Zenon DEF Turns
  <2> HIDE DEF A
  <2>3. \A i \in 0..m + 1 : h[i] = IF i = 0 THEN A ELSE TurnOf(h[i - 1], i)
    BY <2>2
  <2>4. h = [i \in 0..m + 1 |-> h[i]]
    OBVIOUS
  <2> HIDE DEF h
  <2>5. h = [i \in 0..m + 1 |-> IF i = 0 THEN A ELSE TurnOf(h[i - 1], i)]
    BY <2>3, <2>4, Zenon
  <2> QED
    BY <2>5 DEF Turns, A
<1> HIDE DEF P
<1>3. Bad = {}
  <2> SUFFICES ASSUME Bad # {} PROVE FALSE
    OBVIOUS
  <2>1. Min(Bad) \in Bad /\ \A y \in Bad : Min(Bad) <= y
    BY LeastPort
  <2> DEFINE b == Min(Bad)
  <2> HIDE DEF b
  <2>2. b \in Nat /\ ~P(b) /\ \A y \in Nat : ~P(y) => b <= y
    BY <2>1 DEF b
  <2>3. b # 0 /\ b - 1 \in Nat /\ ~(b <= b - 1) /\ (b - 1) + 1 = b
    BY <1>1, <2>2
  <2>4. P(b - 1)
    BY <2>2, <2>3
  <2> QED
    BY <1>2, <2>2, <2>3, <2>4
<1> QED
  BY <1>3 DEF P

(* Decide keeps its promises, and no tunnel that left the file.            *)
LEMMA DecideGood ==
  ASSUME Decidable
  PROVE  LET acted == Decide(SlotOf, N, Switchable, Ranked(loaded), quarantine, better, Config).acts
         IN  GoodActs(acted) /\ \A t \in Known : acted[t] = Keep => t \in TagsOf(loaded)
<1> DEFINE last == 2 * N
           after == CHOOSE g : Turns(last, g)
           Bad == {m \in Nat : m <= last /\ ~TurnInv(after[m], m)}
<1>0. N \in Nat /\ last \in Nat
  BY XrayAssumption
<1>1. Turns(last, after)
  <2> HIDE DEF last
  <2> QED
    BY <1>0, TurnsExist
<1>2. Decide(SlotOf, N, Switchable, Ranked(loaded), quarantine, better, Config) = after[last]
  <2>1. DOMAIN SlotOf = Known
    BY DEF SlotOf
  <2> QED
    BY <2>1 DEF Decide, Turns, TurnOf
<1>3. \A i \in 0..last : after[i] = IF i = 0 THEN Start(Known, Ranked(loaded)) ELSE TurnOf(after[i - 1], i)
  <2> HIDE DEF last, after
  <2> QED
    BY <1>1, Zenon DEF Turns
<1> HIDE DEF after, last
<1>4. Bad = {}
  <2> SUFFICES ASSUME Bad # {} PROVE FALSE
    OBVIOUS
  <2> DEFINE b == Min(Bad)
  <2>1. b \in Bad /\ \A y \in Bad : b <= y
    BY LeastPort
  <2> HIDE DEF b
  <2>2. b \in Nat /\ b <= last /\ ~TurnInv(after[b], b)
    BY <2>1
  <2>3. b # 0
    <3>1. after[0] = Start(Known, Ranked(loaded))
      BY <1>0, <1>3
    <3> QED
      BY <2>2, <3>1, StartHolds
  <2>4. b - 1 \in Nat /\ b - 1 <= last /\ ~(b <= b - 1) /\ b \in Nat \ {0} /\ b \in 0..last
    BY <1>0, <2>2, <2>3
  <2>5. TurnInv(after[b - 1], b - 1)
    BY <2>1, <2>4
  <2>6. after[b] = TurnOf(after[b - 1], b)
    BY <1>3, <2>3, <2>4
  <2> QED
    BY <2>2, <2>4, <2>5, <2>6, TurnKeeps
<1>5. TurnInv(after[last], last)
  BY <1>0, <1>4
<1>6. \A t \in Known : port[t] <= last
  BY <1>0, XrayAssumption DEF Decidable, Known, last
<1> QED
  BY <1>2, <1>5, <1>6 DEF TurnInv

-----------------------------------------------------------------------------
(* The candidates of the file, of the running sync and of memory.          *)

FilesOK == file \in Files /\ loaded \in Loadable /\ cands \in Loadable

(* A sync loads the file and stores what it loaded.                        *)
LEMMA FilesKept ==
  ASSUME FilesOK, [Next]_vars
  PROVE  FilesOK'
<1> USE DEF FilesOK, Loadable
<1>1. CASE SyncStep
  BY <1>1 DEF SyncStep, SyncStart, SyncBegin, SyncList, FullBegin, FullEnd, DecideSlots, NextAct, FillNext,
     SlotRemove, SlotAddOutbound, SlotAdd, SlotEndSync, FillAddOutbound, FillAdd, FillEnd, SyncEnd,
     RPCLeaves, fileVars, selVars
<1>2. ASSUME NEW w \in Tunnels, WorkerStep(w)
      PROVE  FilesOK'
  BY <1>2 DEF WorkerStep, CheckFails, CheckSucceeds, ReplaceSkip, ReplaceBegin, ReplaceList, ReplaceChoose,
     SlotRemove, SlotAddOutbound, SlotAdd, ReplaceEnd, RPCLeaves, fileVars, selVars
<1>3. CASE Tick \/ Restart \/ Edit \/ Expire \/ UNCHANGED vars
  BY <1>3 DEF Tick, Restart, Edit, Expire, vars, fileVars, selVars
<1> QED
  BY <1>1, <1>2, <1>3 DEF Next

-----------------------------------------------------------------------------
(* The port of an empty slot.                                              *)

(* The search of fill (wireguard.go) ends within the first so many ports,  *)
(* on one that no tunnel of memory has.                                    *)
LEMMA FreePortFresh ==
  FreePort \in 1..Cardinality(Known) + 1 /\ \A t \in Tunnels : port[t] # FreePort
<1> DEFINE used == {port[t] : t \in Known}
           n == Cardinality(Known) + 1
           f == [t \in Known |-> port[t]]
<1>1. IsFiniteSet(Known) /\ Cardinality(Known) \in Nat
  <2>1. IsFiniteSet(Tunnels)
    BY XrayAssumption, FS_Interval DEF Tunnels
  <2>2. Known \subseteq Tunnels
    BY DEF Known
  <2> QED
    BY <2>1, <2>2, FS_Subset, FS_CardinalityType
<1>2. IsFiniteSet(used) /\ Cardinality(used) <= Cardinality(Known) /\ Cardinality(used) \in Nat
  <2>1. f \in Surjection(Known, used)
    BY DEF Surjection
  <2> HIDE DEF f, used
  <2> QED
    BY <1>1, <2>1, FS_Surjection, FS_CardinalityType
<1>3. IsFiniteSet(1..n) /\ Cardinality(1..n) = n /\ n \in Nat /\ n > Cardinality(Known)
  <2>1. n \in Nat /\ n > Cardinality(Known)
    BY <1>1
  <2> HIDE DEF n
  <2>2. IsFiniteSet(1..n) /\ Cardinality(1..n) = IF 1 > n THEN 0 ELSE n - 1 + 1
    BY <2>1, FS_Interval
  <2> QED
    BY <1>1, <2>1, <2>2
<1>4. (1..n) \ used # {}
  <2>1. SUFFICES ASSUME (1..n) \subseteq used
                 PROVE  FALSE
    OBVIOUS
  <2> HIDE DEF n, used
  <2>2. Cardinality(1..n) <= Cardinality(used)
    BY <1>2, <2>1, FS_Subset
  <2> QED
    BY <1>1, <1>2, <1>3, <2>2
<1>5. FreePort \in (1..n) \ used
  <2>1. (1..n) \ used \subseteq Nat
    BY <1>3
  <2>2. FreePort = Min((1..n) \ used)
    BY DEF FreePort
  <2> HIDE DEF n, used
  <2> QED
    BY <1>4, <2>1, <2>2, LeastPort
<1>6. FreePort # 0
  BY <1>3, <1>5
<1> QED
  BY <1>5, <1>6 DEF Known

(* apply.AddTunnel and its rollback (tunnel.go).                           *)
LEMMA FillKeepsPorts ==
  ASSUME CapInv, PortInv, FillAddOutbound \/ FillAdd
  PROVE  PortInv'
<1> USE DEF At, Goto, Then, memVars, syncVars, slotVars, RPCLeaves
<1>0. /\ Sync \in Procs /\ pc \in [Procs -> Labels] /\ Moving(Sync) /\ Mutating(Sync)
      /\ SlotPorts(Sync) /\ IsPortMap(ins) /\ Distinct(ins) /\ IsPortMap(port) /\ Distinct(port)
  BY ProcFacts, FillStep DEF CapInv, PcTypeOK, PortInv, ApplyPorts, Mutating, FillAddOutbound, FillAdd, FreePC
<1>1. UNCHANGED <<port, plan, from, to, at>>
  BY DEF FillAddOutbound, FillAdd
<1>2. pc'[Sync] \in SlotPC /\ pc'[Sync] \notin ReplacePC
  BY <1>0 DEF FillAddOutbound, FillAdd, CappedAdd, CheckCap, SendAdd, SlotPC, ReplacePC
<1>3. ASSUME SlotPorts(Sync)', ins' = ins
      PROVE  PortInv'
  BY <1>0, <1>1, <1>2, <1>3, CallPorts DEF IsPortMap, Distinct
<1>4. CASE FillAddOutbound
  <2>1. /\ pc[Sync] = "fill-add" /\ ins' = ins
        /\ pc'[Sync] \in {"fill-add", "fill-add-in", "fill-undo-out"}
    BY <1>0, <1>4 DEF FillAddOutbound, CappedAdd, CheckCap, SendAdd, Read, AddOutbound
  <2>2. Fits(port)' /\ \A t \in Tunnels : port'[t] # at'
    BY <1>0, <1>1, <2>1 DEF SlotPorts, Fits, FillPC
  <2>3. SlotPorts(Sync)'
    BY <1>2, <2>1, <2>2 DEF SlotPorts
  <2> QED
    BY <1>3, <2>1, <2>3
<1>5. CASE FillAdd /\ pc[Sync] = "fill-add-in"
  <2>1. PICK ok \in BOOLEAN : AddInbound(to, at, ok) /\ Then(Sync, ok, "fill-add-rule", "fill-undo-out")
    BY <1>5 DEF FillAdd
  <2>2. Fits(port) /\ \A t \in Tunnels : port[t] # at
    BY <1>0, <1>5 DEF SlotPorts, FillPC
  <2>3. \/ ~ok /\ ins' = ins
        \/ ins' = [ins EXCEPT ![to] = at] /\ ins[to] = 0
        \/ ins' = [ins EXCEPT ![to] = IF @ = 0 THEN at ELSE @] /\ ins[to] = 0
        \/ ins' = [ins EXCEPT ![to] = IF @ = 0 THEN at ELSE @] /\ ins[to] # 0 /\ ~ok
    BY <2>1 DEF AddInbound
  <2>4. IsPortMap(ins)' /\ (Fits(Filled)' \/ (~ok /\ ins' = ins))
    BY <1>0, <1>1, <2>2, <2>3 DEF IsPortMap, Fits, Filled
  <2>5. Distinct(ins)'
    <3>1. Distinct(Filled) /\ Filled' = Filled
      BY <1>0, <1>1, <2>2 DEF Filled, Distinct
    <3> QED
      BY <1>0, <2>4, <3>1 DEF Fits, Distinct
  <2>6. (ok /\ pc'[Sync] = "fill-add-rule") \/ pc'[Sync] = "fill-undo-out"
    BY <1>0, <2>1
  <2>7. SlotPorts(Sync)'
    BY <1>1, <1>2, <2>2, <2>4, <2>6 DEF SlotPorts, FillPC
  <2> QED
    BY <1>0, <1>1, <1>2, <2>4, <2>5, <2>7, CallPorts
<1>6. CASE FillAdd /\ pc[Sync] = "fill-add-rule"
  <2>1. ins' = ins /\ pc'[Sync] \in {"fill-done", "fill-undo-rule"}
    BY <1>0, <1>6 DEF FillAdd, AddRule
  <2>2. Fits(Filled)' /\ \A t \in Tunnels : port'[t] # at'
    BY <1>0, <1>1, <1>6, <2>1 DEF SlotPorts, Fits, Filled, FillPC
  <2>3. SlotPorts(Sync)'
    BY <1>2, <2>1, <2>2 DEF SlotPorts
  <2> QED
    BY <1>3, <2>1, <2>3
<1>7. CASE FillAdd /\ pc[Sync] \notin {"fill-add-in", "fill-add-rule"}
  <2>1. pc'[Sync] \in {"fill-undo-in", "fill-undo-out", "fill-failed"}
    BY <1>0, <1>7 DEF FillAdd
  <2>2. SlotPorts(Sync)'
    BY <1>2, <2>1 DEF SlotPorts, FillPC
  <2>3. ins' = ins \/ ins' = [ins EXCEPT ![to] = 0]
    BY <1>7 DEF FillAdd, RemoveRule, RemoveInbound, RemoveOutbound
  <2>4. IsPortMap(ins)' /\ Distinct(ins)'
    BY <1>0, <2>3 DEF IsPortMap, Distinct
  <2> QED
    BY <1>0, <1>1, <1>2, <2>2, <2>4, CallPorts
<1> QED
  BY <1>4, <1>5, <1>6, <1>7

-----------------------------------------------------------------------------
(* The steps of the sync and of a replacement that call nothing or list.   *)

(* While the lock is free, saved hashes mean that memory knows the port of *)
(* every inbound.                                                          *)
LEMMA FreeFits ==
  ASSUME CapInv, PortInv, lock = Nobody, hashes # NoHash
  PROVE  Fits(port)
<1>1. \A p \in Procs : pc[p] \in FreePC
  BY ProcFacts DEF CapInv, LockHeld, Mutating
<1>2. \A p \in Procs : pc[p] \notin SlotPC \cup ApplyPC
  BY <1>1 DEF FreePC, SlotPC, ApplyPC
<1> QED
  BY <1>2 DEF PortInv, SavedPorts

(* syncWireGuard up to its decision: the steps before the first call that  *)
(* changes Xray.                                                           *)
LEMMA SyncBeginPorts ==
  ASSUME CapInv, PortInv, SyncStart \/ SyncBegin \/ SyncList
  PROVE  PortInv'
<1> USE DEF At, Goto, Then, LockTarget, memVars, syncVars, xrayVars, slotVars
<1>0. Sync \in Procs /\ Moving(Sync) /\ pc \in [Procs -> Labels] /\ SlotPorts(Sync)
  BY ProcFacts, SyncQuietStep DEF CapInv, PcTypeOK, PortInv
<1>1. UNCHANGED <<ins, port, plan, hashes, from, to, at>>
  BY DEF SyncStart, SyncBegin, SyncList, Read
<1>2. /\ pc'[Sync] \in {"apply", "full", "sync-list", "idle", "decide"}
      /\ pc[Sync] \in SlotPC \cup ApplyPC => pc'[Sync] \in SlotPC
  BY <1>0 DEF SyncStart, SyncBegin, SyncList, SlotPC, ApplyPC
<1>3. pc'[Sync] \in {"sync-list", "decide"} => Fits(port)
  <2>1. CASE SyncStart
    BY <1>0, <2>1 DEF SyncStart
  <2>2. CASE SyncBegin
    <3>1. pc'[Sync] \in {"sync-list", "decide"} => lock = Nobody /\ hashes # NoHash
      BY <1>0, <2>2 DEF SyncBegin
    <3> QED
      BY <3>1, FreeFits
  <2>3. CASE SyncList
    BY <1>0, <2>3 DEF SyncList, SlotPorts
  <2> QED
    BY <2>1, <2>2, <2>3
<1>4. SlotPorts(Sync)'
  <2>1. Fits(port)' <=> Fits(port)
    BY <1>1 DEF Fits
  <2> QED
    BY <1>2, <1>3, <2>1 DEF SlotPorts, ReplacePC, FillPC
<1> QED
  BY <1>0, <1>1, <1>2, <1>4, QuietPorts DEF FreePC, SlotPC

(* decide and fill (wireguard.go): a slot is kept, or its tunnel and its   *)
(* own port are handed to the calls; an empty slot gets a port of no one.  *)
LEMMA DecidePorts ==
  ASSUME CapInv, PortInv, DecideSlots \/ NextAct \/ FillNext
  PROVE  PortInv'
<1> USE DEF At, Goto, memVars, syncVars, xrayVars, slotVars
<1>0. /\ Sync \in Procs /\ Moving(Sync) /\ pc \in [Procs -> Labels] /\ SlotPorts(Sync)
      /\ Mutating(Sync) /\ pc[Sync] \in {"decide", "next-act", "fill"}
  BY ProcFacts, SyncQuietStep DEF CapInv, PcTypeOK, PortInv, DecideSlots, NextAct, FillNext, Mutating, FreePC
<1>1. UNCHANGED <<ins, port, hashes>> /\ Fits(port) /\ Fits(port)'
  <2>1. UNCHANGED <<ins, port, hashes>>
    BY DEF DecideSlots, NextAct, FillNext
  <2>2. Fits(port)
    BY <1>0 DEF SlotPorts
  <2> QED
    BY <2>1, <2>2 DEF Fits
<1>2. ASSUME SlotPorts(Sync)', pc'[Sync] \in SlotPC, UNCHANGED plan
      PROVE  PortInv'
  BY <1>0, <1>1, <1>2, QuietPorts
<1>3. CASE DecideSlots
  <2>1. pc'[Sync] = "next-act" /\ UNCHANGED plan
    BY <1>0, <1>3 DEF DecideSlots
  <2>2. SlotPorts(Sync)'
    BY <1>1, <2>1 DEF SlotPorts, ReplacePC, FillPC
  <2> QED
    BY <1>2, <2>1, <2>2 DEF SlotPC
<1>4. CASE NextAct
  <2>1. UNCHANGED plan
    BY <1>4 DEF NextAct
  <2>2. \/ pc'[Sync] = "fill"
        \/ pc'[Sync] = "slot-rm-rule" /\ from' \in Tunnels /\ at' = port[from']
    BY <1>0, <1>4 DEF NextAct, Due
  <2>3. SlotPorts(Sync)'
    BY <1>1, <2>2 DEF SlotPorts, ReplacePC, FillPC
  <2> QED
    BY <1>2, <2>1, <2>2, <2>3 DEF SlotPC
<1>5. CASE FillNext
  <2>1. CASE at' = FreePort /\ pc'[Sync] = "fill-add" /\ UNCHANGED syncVars
    <3>1. SlotPorts(Sync)'
      BY <1>1, <2>1, FreePortFresh DEF SlotPorts, ReplacePC, FillPC
    <3> QED
      BY <1>2, <2>1, <3>1 DEF SlotPC
  <2>2. CASE pc'[Sync] = "idle" /\ plan' = NoPorts
    <3>1. SlotPorts(Sync)'
      BY <2>2 DEF SlotPorts, ReplacePC, FillPC
    <3>2. IsPortMap(port)' /\ Distinct(port)'
      BY <1>1 DEF PortInv, IsPortMap, Distinct
    <3> QED
      BY <1>0, <1>1, <2>2, <3>1, <3>2, EndPorts DEF FreePC
  <2>3. \/ at' = FreePort /\ pc' = [pc EXCEPT ![Sync] = "fill-add"] /\ UNCHANGED syncVars
        \/ pc' = [pc EXCEPT ![Sync] = "idle"] /\ plan' = NoPorts
    BY <1>5 DEF FillNext, SyncEnd, Unlock
  <2> QED
    BY <1>0, <2>1, <2>2, <2>3
<1> QED
  BY <1>3, <1>4, <1>5

(* The end of apply.AddTunnel: the new tunnel has the free port, or the    *)
(* hashes are reset because its inbound may still be there.                *)
LEMMA FillEndPorts ==
  ASSUME CapInv, PortInv, FillEnd
  PROVE  PortInv'
<1> USE DEF At, Goto, syncVars, xrayVars
<1>0. /\ Sync \in Procs /\ Moving(Sync) /\ pc \in [Procs -> Labels] /\ SlotPorts(Sync)
      /\ Mutating(Sync) /\ UNCHANGED ins /\ plan' \in {plan, NoPorts} /\ IsPortMap(port) /\ Distinct(port)
  BY ProcFacts, SyncQuietStep DEF CapInv, PcTypeOK, PortInv, FillEnd, SyncEnd, Mutating, FreePC
<1>1. CASE At(Sync, "fill-done") /\ ReplaceSourceTunnel(0, to, at, FALSE) /\ Goto(Sync, "fill")
  <2>1. port' = Filled /\ Fits(Filled) /\ \A t \in Tunnels : port[t] # at
    BY <1>0, <1>1, ProcFacts DEF ReplaceSourceTunnel, Filled, SlotPorts, FillPC, Sync
  <2>2. IsPortMap(port)' /\ Distinct(port)' /\ Fits(port)'
    BY <1>0, <2>1 DEF IsPortMap, Distinct, Fits, Filled
  <2>3. pc'[Sync] = "fill"
    BY <1>0, <1>1
  <2>4. SlotPorts(Sync)'
    BY <2>2, <2>3 DEF SlotPorts, ReplacePC, FillPC
  <2> QED
    BY <1>0, <2>2, <2>3, <2>4, EndPorts DEF SlotPC
<1>2. CASE At(Sync, "fill-failed") /\ hashes' = NoHash /\ Unlock(Sync, "idle") /\ UNCHANGED port
  <2>1. pc'[Sync] = "idle"
    BY <1>0, <1>2 DEF Unlock
  <2>2. SlotPorts(Sync)'
    BY <2>1 DEF SlotPorts, ReplacePC, FillPC
  <2>3. IsPortMap(port)' /\ Distinct(port)'
    BY <1>0, <1>2 DEF IsPortMap, Distinct
  <2> QED
    BY <1>0, <1>2, <2>1, <2>2, <2>3, EndPorts DEF FreePC
<1> QED
  BY <1>1, <1>2 DEF FillEnd, SyncEnd

(* What a full apply picks: at most maxActive candidates of the file       *)
(* outside quarantine, of different keys and on different seats.           *)
LEMMA FullPicks ==
  ASSUME FilesOK
  PROVE  LET ranked == Ranked(Eligible)
             picked == Pick(ranked, MaxActive)
         IN  /\ \A t \in TagsOf(picked) : ByTag(t, ranked) \in picked /\ ByTag(t, ranked).tag = t
             /\ \A c, d \in picked : Seat(c, ranked) = Seat(d, ranked) => c = d
             /\ \A c \in picked : Seat(c, ranked) \in 1..N
             /\ \A c, d \in picked : c.key = d.key => c = d
             /\ \A c \in picked : c \in loaded /\ Pair(c) \notin quarantine
             /\ IsFiniteSet(picked) /\ Cardinality(picked) <= MaxActive
<1> DEFINE f == Eligible
           ranked == Ranked(f)
           picked == Pick(ranked, MaxActive)
<1>1. f \subseteq loaded /\ (\A c \in f : Pair(c) \notin quarantine) /\ IsFile(loaded)
  BY FileFacts DEF Eligible, FilesOK
<1>2. IsFile(f)
  BY <1>1, FS_Subset DEF IsFile
<1> HIDE DEF f
<1>3. IsRanking(f, ranked) /\ DOMAIN ranked = f
  BY <1>2, RankRanks DEF Ranked, IsRanking
<1>4. MaxActive \in Nat
  BY CandidateAssumption
<1>5. IsFiniteSet(f) /\ Cardinality(f) <= N /\ Cardinality(f) \in Nat
  <2> DEFINE tag == [c \in f |-> c.tag]
  <2>1. tag \in Injection(f, Tunnels)
    BY <1>2 DEF Injection, IsInjective, IsFile, CandidateType
  <2>2. IsFiniteSet(Tunnels) /\ Cardinality(Tunnels) = N
    BY XrayAssumption, FS_Interval DEF Tunnels
  <2> HIDE DEF tag
  <2> QED
    BY <2>1, <2>2, FS_Injection, FS_CardinalityType
<1> HIDE DEF ranked
<1>6. /\ picked \subseteq f /\ IsFiniteSet(picked) /\ Cardinality(picked) <= MaxActive
      /\ \A c, d \in picked : c.key = d.key => c = d
      /\ \A c, d \in picked : Seat(c, ranked) = Seat(d, ranked) => c = d
      /\ \A c \in picked : Seat(c, ranked) \in 1..Cardinality(f)
  BY <1>3, <1>4, <1>5, PickFits
<1>7. ASSUME NEW t \in TagsOf(picked)
      PROVE  ByTag(t, ranked) \in picked /\ ByTag(t, ranked).tag = t
  <2>1. PICK c \in picked : c.tag = t
    BY DEF TagsOf
  <2>2. ByTag(t, ranked) \in f /\ ByTag(t, ranked).tag = t
    BY <1>3, <1>6, <2>1 DEF ByTag
  <2> QED
    BY <1>2, <1>6, <2>1, <2>2 DEF IsFile
<1>8. \A c \in picked : Seat(c, ranked) \in 1..N
  BY <1>5, <1>6, XrayAssumption
<1> HIDE DEF picked
<1> QED
  BY <1>1, <1>6, <1>7, <1>8 DEF f, ranked, picked

(* full (wireguard.go): the place of a tunnel among the picked ones is its *)
(* port, and a place has one candidate.                                    *)
LEMMA FullPorts ==
  ASSUME CapInv, PortInv, FilesOK,
         FullBegin \/ FullEnd \/ (ApplyPlans /\ UNCHANGED slotVars)
  PROVE  PortInv'
<1> USE DEF At, Goto, syncVars, xrayVars
<1>0. /\ Sync \in Procs /\ Moving(Sync) /\ pc \in [Procs -> Labels] /\ ApplyPorts
      /\ IsPortMap(port) /\ Distinct(port) /\ IsPortMap(plan) /\ Distinct(plan)
  BY ProcFacts, SyncQuietStep, ApplyMoves DEF CapInv, PcTypeOK, PortInv, ApplyPorts
<1>1. CASE FullBegin
  <2>1. /\ UNCHANGED <<ins, port>> /\ pc'[Sync] = "out-list" /\ pc[Sync] = "full"
    BY <1>0, <1>1 DEF FullBegin, memVars
  <2>2. IsPortMap(plan)' /\ Distinct(plan)'
    <3> DEFINE ranked == Ranked(Eligible)
               picked == Pick(ranked, MaxActive)
               At1(t) == Seat(ByTag(t, ranked), ranked)
    <3>1. plan' = [t \in Tunnels |-> IF t \in TagsOf(picked) THEN At1(t) ELSE 0]
      BY <1>1 DEF FullBegin
    <3>2. \A c, d \in picked : Seat(c, ranked) = Seat(d, ranked) => c = d
      BY FullPicks
    <3>3. \A t \in TagsOf(picked) : ByTag(t, ranked) \in picked /\ ByTag(t, ranked).tag = t
      BY FullPicks
    <3>4. ASSUME NEW s \in Tunnels, NEW t \in Tunnels, s # t, plan'[s] # 0
          PROVE  plan'[s] # plan'[t]
      <4>1. s \in TagsOf(picked) /\ plan'[s] = At1(s)
        BY <3>1, <3>4
      <4>2. CASE t \in TagsOf(picked)
        BY <3>1, <3>2, <3>3, <3>4, <4>1, <4>2
      <4>3. CASE t \notin TagsOf(picked)
        BY <3>1, <3>4, <4>3
      <4> QED
        BY <4>2, <4>3
    <3> HIDE DEF picked, At1
    <3> QED
      BY <3>1, <3>4 DEF IsPortMap, Distinct
  <2>3. ApplyPorts'
    BY <1>0, <2>1, <2>2 DEF ApplyPorts, IsPortMap, Distinct
  <2>4. SlotPorts(Sync)'
    BY <2>1 DEF SlotPorts, ReplacePC, FillPC
  <2>5. Mutating(Sync)
    BY <2>1 DEF Mutating, FreePC
  <2>6. \A q \in Procs : SlotPorts(q)'
    BY <1>0, <2>4, <2>5, OthersPorts
  <2>7. SavedPorts'
    BY <1>0, <2>1 DEF SavedPorts, ApplyPC
  <2> QED
    BY <1>0, <2>1, <2>3, <2>6, <2>7 DEF PortInv, IsPortMap, Distinct
<1>2. CASE FullEnd
  <2>1. /\ UNCHANGED ins /\ pc[Sync] = "commit" /\ pc'[Sync] = "idle" /\ plan' = NoPorts
        /\ failed => port' = NoPorts /\ hashes' = NoHash
        /\ ~failed => port' = plan
    BY <1>0, <1>2 DEF FullEnd, SyncEnd, Unlock
  <2>2. ~failed => Fits(port)'
    <3>1. ~failed => Fits(plan)
      BY <1>0, <2>1 DEF ApplyPorts
    <3> QED
      BY <2>1, <3>1 DEF Fits
  <2>3. IsPortMap(port)' /\ Distinct(port)'
    BY <1>0, <2>1 DEF IsPortMap, Distinct, NoPorts
  <2>4. SlotPorts(Sync)'
    BY <2>1 DEF SlotPorts, ReplacePC, FillPC
  <2>5. Mutating(Sync)
    BY <2>1 DEF Mutating, FreePC
  <2>6. pc'[Sync] \in FreePC
    BY <2>1 DEF FreePC
  <2> QED
    BY <1>0, <2>1, <2>2, <2>3, <2>4, <2>5, <2>6, EndPorts
<1>3. CASE ApplyPlans /\ UNCHANGED slotVars
  <2>1. ApplyPorts'
    BY <1>0, <1>3, ApplyKeepsPorts DEF CapInv
  <2>2. UNCHANGED port
    BY <1>3 DEF ApplyPlans, OutList, OutRemove, OutAdd, UndoRemove, UndoRestore, InList, InRemove, InAdd,
       RuleList, RuleRemove, RuleAdd, ListKind, Through, memVars
  <2>3. pc[Sync] \in ApplyPC /\ pc'[Sync] \in ApplyPC
    BY <1>0, <1>3 DEF ApplyPlans, OutList, OutRemove, OutAdd, UndoRemove, UndoRestore, InList, InRemove, InAdd,
       RuleList, RuleRemove, RuleAdd, ListKind, Through, CheckCap, Then, ApplyPC
  <2>4. SlotPorts(Sync)'
    BY <2>3 DEF SlotPorts, ApplyPC, ReplacePC, FillPC
  <2>5. Mutating(Sync)
    BY <2>3 DEF Mutating, FreePC, ApplyPC
  <2>6. \A q \in Procs : SlotPorts(q)'
    BY <1>0, <2>4, <2>5, OthersPorts
  <2>7. SavedPorts'
    BY <1>0, <2>3 DEF SavedPorts
  <2> QED
    BY <1>0, <2>1, <2>2, <2>6, <2>7 DEF PortInv, IsPortMap, Distinct
<1> QED
  BY <1>1, <1>2, <1>3

(* ReplaceFailed (wireguard.go) hands the calls a tunnel of memory and its *)
(* own port.                                                               *)
LEMMA ReplacePorts ==
  ASSUME CapInv, PortInv, NEW w \in Tunnels,
         \/ ReplaceSkip(w) \/ ReplaceBegin(w) \/ ReplaceList(w) \/ ReplaceChoose(w) \/ ReplaceEnd(w)
  PROVE  PortInv'
<1> USE DEF At, Goto, Unlock, LockTarget, memVars, syncVars, xrayVars, slotVars
<1>0. w \in Procs /\ w # Sync /\ Moving(w) /\ pc \in [Procs -> Labels] /\ SlotPorts(w)
  BY ProcFacts, ReplaceQuietStep DEF CapInv, PcTypeOK, PortInv
<1>1. CASE ReplaceSkip(w) \/ ReplaceBegin(w)
  <2>1. /\ UNCHANGED <<ins, port, plan, hashes, from, to, at, left, failed>>
        /\ pc[w] = "replace" /\ pc'[w] \in {"repair", "replace-list", "idle"}
        /\ pc'[w] = "replace-list" => lock = Nobody /\ hashes # NoHash
    BY <1>0, <1>1 DEF ReplaceSkip, ReplaceBegin, Read
  <2>2. pc'[w] = "replace-list" => Fits(port)'
    <3>1. pc'[w] = "replace-list" => Fits(port)
      BY <2>1, FreeFits
    <3> QED
      BY <2>1, <3>1 DEF Fits
  <2>3. SlotPorts(w)' /\ pc[w] \notin SlotPC \cup ApplyPC
    BY <2>1, <2>2 DEF SlotPorts, ReplacePC, FillPC, SlotPC, ApplyPC
  <2> QED
    BY <1>0, <2>1, <2>3, QuietPorts
<1>2. CASE ReplaceList(w) \/ ReplaceChoose(w)
  <2>1. /\ UNCHANGED <<ins, port, plan, left, failed>> /\ hashes' \in {hashes, NoHash}
    BY <1>2 DEF ReplaceList, ReplaceChoose, Read
  <2>2. /\ pc[w] \in {"replace-list", "replace-choose"}
        /\ \/ pc'[w] \in {"repair", "idle", "replace-choose"}
           \/ pc'[w] = "slot-rm-rule" /\ from' = w /\ at' = port[w]
    BY <1>0, <1>2 DEF ReplaceList, ReplaceChoose
  <2>3. Fits(port) /\ Fits(port)'
    <3>1. Fits(port)
      BY <1>0, <2>2 DEF SlotPorts
    <3> QED
      BY <2>1, <3>1 DEF Fits
  <2>4. SlotPorts(w)' /\ Mutating(w)
    BY <2>1, <2>2, <2>3 DEF SlotPorts, ReplacePC, FillPC, Mutating, FreePC
  <2> QED
    BY <1>0, <2>1, <2>3, <2>4, QuietPorts
<1>3. CASE ReplaceEnd(w)
  <2>1. /\ pc'[w] = "idle" /\ Mutating(w) /\ UNCHANGED <<ins, plan>>
        /\ \/ At(w, "slot-done") /\ ReplaceSourceTunnel(from, to, at, FALSE)
           \/ At(w, "slot-failed") /\ ReplaceSourceTunnel(from, 0, 0, TRUE)
    BY <1>0, <1>3 DEF ReplaceEnd, Mutating, FreePC
  <2>2. pc'[w] \in FreePC
    BY <2>1 DEF FreePC
  <2> QED
    BY <1>0, <2>1, <2>2, ReplaceEndPorts
<1> QED
  BY <1>1, <1>2, <1>3

(* The end of a replacement or removal by the sync.                        *)
LEMMA SlotEndPorts ==
  ASSUME CapInv, PortInv, SlotEndSync
  PROVE  PortInv'
<1> USE DEF At, Goto, syncVars, xrayVars
<1>0. Sync \in Procs /\ Moving(Sync) /\ pc \in [Procs -> Labels]
  BY ProcFacts, SyncQuietStep DEF CapInv, PcTypeOK
<1>1. UNCHANGED ins /\ plan' \in {plan, NoPorts} /\ Mutating(Sync)
  BY DEF SlotEndSync, SyncEnd, Mutating, FreePC
<1>2. \/ At(Sync, "slot-done") /\ ReplaceSourceTunnel(from, to, at, FALSE) /\ pc'[Sync] = "next-act"
      \/ At(Sync, "slot-failed") /\ ReplaceSourceTunnel(from, 0, 0, TRUE) /\ pc'[Sync] = "idle"
  BY <1>0 DEF SlotEndSync, SyncEnd, Unlock
<1>3. "idle" \in FreePC
  BY DEF FreePC
<1> QED
  BY <1>0, <1>1, <1>2, <1>3, ReplaceEndPorts

-----------------------------------------------------------------------------
(* A restart of Xray leaves no inbound; one of scd forgets the hashes, and *)
(* the first sync then applies in full.                                    *)
LEMMA RestartPorts ==
  ASSUME CapInv, PortInv, Restart
  PROVE  PortInv'
<1>1. CASE RestartXray /\ UNCHANGED <<memVars, pc, syncVars, slotVars>>
  <2>1. /\ ins' = NoPorts
        /\ UNCHANGED <<port, hashes, pc, plan, left, failed, from, to, at>>
    BY <1>1 DEF RestartXray, memVars, syncVars, slotVars
  <2>2. ApplyPorts'
    BY <2>1 DEF PortInv, ApplyPorts, IsPortMap, Distinct, Fits, NoPorts
  <2>3. Fits(port)' /\ Fits(Vacated)' /\ Fits(Replaced)' /\ Fits(Filled)'
    BY <2>1 DEF Fits, NoPorts
  <2>4. \A p \in Procs : SlotPorts(p)'
    BY <2>1, <2>3 DEF PortInv, SlotPorts
  <2> QED
    BY <2>1, <2>2, <2>3, <2>4 DEF PortInv, SavedPorts, IsPortMap, Distinct
<1>2. CASE RestartScd
  <2>1. /\ port' = NoPorts /\ plan' = NoPorts /\ hashes' = NoHash /\ ins' = ins
        /\ \A p \in Procs : pc'[p] = "idle"
    BY <1>2 DEF RestartScd
  <2>2. ApplyPorts'
    BY <2>1, ProcFacts DEF PortInv, ApplyPorts, IsPortMap, Distinct, NoPorts
  <2>3. \A p \in Procs : SlotPorts(p)'
    BY <2>1 DEF SlotPorts, ReplacePC, FillPC
  <2> QED
    BY <2>1, <2>2, <2>3 DEF PortInv, SavedPorts, IsPortMap, Distinct, NoPorts
<1> QED
  BY <1>1, <1>2 DEF Restart

(* Every step of the specification keeps the ports apart.                  *)
LEMMA PortInvKept ==
  ASSUME CapInv, PortInv, FilesOK, [Next]_vars
  PROVE  PortInv'
<1>1. CASE SyncStep
  BY <1>1, SyncBeginPorts, DecidePorts, FillEndPorts, FullPorts, SlotEndPorts, ReplaceKeepsPorts,
     FillKeepsPorts, ProcFacts DEF SyncStep
<1>2. ASSUME NEW w \in Tunnels, WorkerStep(w)
      PROVE  PortInv'
  BY <1>2, MonitorPorts, ReplacePorts, ReplaceKeepsPorts, ProcFacts DEF WorkerStep
<1>3. CASE Restart
  BY <1>3, RestartPorts
<1>4. CASE Tick \/ Edit \/ Expire \/ UNCHANGED vars
  <2>1. UNCHANGED <<ins, port, hashes, pc, plan, left, failed, from, to, at>>
    BY <1>4 DEF Tick, TickStart, Edit, Expire, vars, targetVars, memVars, xrayVars, syncVars, slotVars
  <2>2. /\ Fits(port)' <=> Fits(port)
        /\ Fits(plan)' <=> Fits(plan)
        /\ Fits(Vacated)' <=> Fits(Vacated)
    BY <2>1 DEF Fits, Vacated
  <2>3. /\ Fits(Replaced)' <=> Fits(Replaced)
        /\ Fits(Filled)' <=> Fits(Filled)
    BY <2>1 DEF Fits, Replaced, Filled
  <2>4. ApplyPorts' /\ SavedPorts'
    BY <2>1, <2>2 DEF PortInv, ApplyPorts, SavedPorts, IsPortMap, Distinct
  <2>5. \A p \in Procs : SlotPorts(p)'
    BY <2>1, <2>2, <2>3 DEF PortInv, SlotPorts
  <2> QED
    BY <2>1, <2>4, <2>5 DEF PortInv, IsPortMap, Distinct
<1> QED
  BY <1>1, <1>2, <1>3, <1>4 DEF Next

(* The initial state has no inbound, no tunnel and no candidate.           *)
LEMMA PortInit == Init => CapInv /\ PortInv /\ FilesOK
<1> SUFFICES ASSUME Init PROVE CapInv /\ PortInv /\ FilesOK
  OBVIOUS
<1>1. /\ outs = {} /\ grant = {} /\ pc = [p \in Procs |-> "idle"]
      /\ ins = NoPorts /\ port = NoPorts /\ plan = NoPorts /\ hashes = NoHash
  BY DEF Init, TargetInit, XrayInit
<1>2. IsFiniteSet({}) /\ Cardinality({}) = 0
  BY FS_EmptySet
<1>3. CapInv
  BY <1>1, <1>2, CandidateAssumption
     DEF CapInv, PcTypeOK, LockHeld, Mutating, Cap, CapGranted, Labels, FreePC
<1>4. ApplyPorts /\ SavedPorts
  BY <1>1, ProcFacts DEF ApplyPorts, SavedPorts, IsPortMap, Distinct, NoPorts
<1>5. \A p \in Procs : SlotPorts(p)
  BY <1>1 DEF SlotPorts, ReplacePC, FillPC
<1> QED
  BY <1>1, <1>3, <1>4, <1>5 DEF PortInv, IsPortMap, Distinct, NoPorts, FilesOK, Loadable, Init, CandidateInit

(* No two inbounds of a candidate source listen on one port (BuildSource,  *)
(* fill, ReplaceTunnel): for every number of candidates and slots, every   *)
(* file and any failed or lost calls and restarts.                         *)
THEOREM PortsNeverShared == Spec => []PortsDistinct
<1>1. Init => CapInv /\ PortInv /\ FilesOK
  BY PortInit
<1>2. CapInv /\ PortInv /\ FilesOK /\ [Next]_vars => (CapInv /\ PortInv /\ FilesOK)'
  BY CapInvKept, PortInvKept, FilesKept
<1>3. PortInv => PortsDistinct
  BY DEF PortInv, ApplyPorts, Distinct, PortsDistinct
<1> QED
  BY <1>1, <1>2, <1>3, PTL DEF Spec

-----------------------------------------------------------------------------
(* The types of a candidate source.                                        *)

Acted == [Tunnels -> {Keep, Drop} \cup Tunnels]

SlotTypeOK ==
  /\ from \in Tunnels \cup {0} /\ to \in Tunnels \cup {0} /\ at \in Ports \cup {0}
  /\ acts \in Acted
  /\ unreplaced \subseteq Tunnels
  /\ fails \in [Tunnels -> 0..ReplaceAfter]

(* Where tunnel to is being added.                                         *)
ToPC == {"slot-add", "slot-add-in", "slot-add-rule"} \cup FillPC \cup {"fill-undo-rule", "fill-undo-in", "fill-undo-out"}
ToSet == \A p \in Procs : pc[p] \in ToPC => to # 0

TypeOK == TargetTypeOK /\ SlotTypeOK /\ ToSet

-----------------------------------------------------------------------------
(* Every step keeps the types.                                             *)

(* A process that moves keeps TypeOK when it keeps every part of it.       *)
LEMMA TypeStep ==
  ASSUME TypeOK, CapInv, CapInv', NEW p \in Procs, Moving(p), Mutating(p) \/ to' = to,
         XrayTypeOK', MemTypeOK', SyncTypeOK', TickTypeOK', SlotTypeOK', pc'[p] \in ToPC => to' # 0
  PROVE  TypeOK'
<1>1. CtlTypeOK'
  BY MovingTypes DEF TypeOK, CapInv, CapGranted
<1>2. ASSUME NEW q \in Procs, q # p, pc'[q] \in ToPC
      PROVE  to' # 0
  <2>1. pc[q] \in ToPC
    BY <1>2 DEF Moving, Moves, CapInv, PcTypeOK
  <2>2. Mutating(q) /\ to # 0
    BY <2>1 DEF TypeOK, ToSet, ToPC, FillPC, Mutating, FreePC
  <2>3. ~Mutating(p)
    BY <1>2, <2>2 DEF CapInv, LockHeld
  <2> QED
    BY <2>2, <2>3
<1> QED
  BY <1>1, <1>2 DEF TypeOK, TargetTypeOK, ToSet

(* A monitor that starts over, and a slot whose tunnel changes.            *)
LEMMA RestartedTypes ==
  ASSUME TypeOK, NEW S, Restarted(S)
  PROVE  /\ cur' \in [Tunnels -> Variants] /\ mon' \in [Tunnels -> {"idle", "healthy", "degraded", "repairing"}]
         /\ repairErr' \subseteq Tunnels /\ fails' \in [Tunnels -> 0..ReplaceAfter]
<1>1. ReplaceAfter \in Nat
  BY CandidateAssumption
<1> QED
  BY <1>1, InitialType DEF Restarted, TypeOK, TargetTypeOK, MemTypeOK, SlotTypeOK

(* ReplaceSourceTunnel records a port of the range, or none.               *)
LEMMA ReplacedTypes ==
  ASSUME TypeOK, NEW old, NEW new, NEW p \in Ports \cup {0}, NEW reset \in BOOLEAN,
         ReplaceSourceTunnel(old, new, p, reset)
  PROVE  MemTypeOK' /\ fails' \in [Tunnels -> 0..ReplaceAfter]
<1>1. port' \in [Tunnels -> Ports \cup {0}] /\ hashes' \in {port', NoHash}
  BY DEF ReplaceSourceTunnel, TypeOK, TargetTypeOK, MemTypeOK
<1>2. Restarted({old, new})
  BY DEF ReplaceSourceTunnel
<1> QED
  BY <1>1, <1>2, RestartedTypes DEF MemTypeOK

(* The calls of a slot operation.                                          *)
LEMMA SlotTypes ==
  ASSUME TypeOK, CapInv, PortInv, CapInv', NEW p \in Procs,
         SlotRemove(p) \/ SlotAddOutbound(p) \/ SlotAdd(p)
  PROVE  TypeOK'
<1> USE DEF At
<1>0. /\ Moving(p) /\ pc \in [Procs -> Labels] /\ SlotPorts(p)
  BY SlotStep DEF CapInv, PcTypeOK, PortInv
<1>1. /\ pc[p] \in ReplacePC /\ Mutating(p) /\ from \in Tunnels
      /\ pc[p] \in {"slot-add", "slot-add-in", "slot-add-rule"} => to \in Tunnels
      /\ at \in Ports \cup {0} /\ cur[from] \in Variants /\ Other(cur[from]) \in Variants
  <2>1. pc[p] \in ReplacePC /\ Mutating(p)
    BY DEF SlotRemove, SlotAddOutbound, SlotAdd, ReplacePC, Mutating, FreePC
  <2>2. from \in Tunnels
    BY <1>0, <2>1 DEF SlotPorts
  <2>3. Other(cur[from]) \in Variants
    BY DEF Other, Variants
  <2> QED
    BY <2>1, <2>2, <2>3 DEF TypeOK, ToSet, ToPC, SlotTypeOK, TargetTypeOK, MemTypeOK
<1>2. XrayTypeOK' /\ hashes' \in {hashes, NoHash}
  <2>1. CASE SlotRemove(p)
    BY <1>1, <2>1, RpcTypes, TagType DEF SlotRemove, TypeOK, TargetTypeOK, RPCLeaves, memVars
  <2>2. CASE SlotAddOutbound(p)
    <3>1. CappedAdd(p, <<to, Initial>>, "slot-add-in", "slot-failed", FALSE) /\ <<to, Initial>> \in Tags
      BY <1>1, <2>2, TagType, InitialType DEF SlotAddOutbound
    <3> QED
      BY <3>1, CappedAddTypes DEF TypeOK
  <2>3. CASE SlotAdd(p)
    BY <1>1, <2>3, RpcTypes, InitialType DEF SlotAdd, TypeOK, TargetTypeOK, RPCLeaves, memVars
  <2> QED
    BY <2>1, <2>2, <2>3
<1>3. UNCHANGED <<port, cur, mon, repairErr, syncVars, tickVars, fileVars, loaded, selVars, fails, slotVars>>
  BY DEF SlotRemove, SlotAddOutbound, SlotAdd, RPCLeaves, memVars
<1>4. MemTypeOK' /\ SyncTypeOK' /\ TickTypeOK' /\ SlotTypeOK'
  BY <1>2, <1>3 DEF TypeOK, TargetTypeOK, MemTypeOK, SyncTypeOK, TickTypeOK, SlotTypeOK, syncVars, tickVars,
     selVars, slotVars
<1>5. pc'[p] \in ToPC => to # 0
  BY <1>0, <1>1 DEF SlotRemove, SlotAddOutbound, SlotAdd, CappedAdd, CheckCap, SendAdd, Goto, Then,
     ToPC, FillPC, ReplacePC, TypeOK, ToSet
<1> QED
  BY <1>0, <1>1, <1>2, <1>3, <1>4, <1>5, TypeStep DEF slotVars

(* The best of the candidates that may take a slot is one of them.         *)
LEMMA ChoiceGood ==
  ASSUME NEW f \in Loadable, NEW inUse, NEW keys, NEW pairs,
         Allowed(Ranked(f), inUse, keys, pairs) # {}
  PROVE  LET t == Best(Allowed(Ranked(f), inUse, keys, pairs), Ranked(f)).tag IN
         /\ t \in TagsOf(f) /\ t \in Tunnels \ inUse /\ KeyOf(t) \notin keys
         /\ Pair(CandidateOf(t)) \notin pairs
<1> DEFINE free == Allowed(Ranked(f), inUse, keys, pairs)
           c == Best(free, Ranked(f))
<1>1. free \subseteq f /\ IsRanking(f, Ranked(f)) /\ TagsOf(f) \subseteq Tunnels
  BY FileFacts DEF Allowed, IsRanking
<1>2. c \in free
  BY <1>1, BestIsFirst
<1>3. c \in f /\ c.tag \notin inUse /\ c.key \notin keys /\ Pair(c) \notin pairs
  BY <1>1, <1>2 DEF Allowed
<1>4. KeyOf(c.tag) = c.key /\ Pair(CandidateOf(c.tag)) = Pair(c) /\ c.tag \in TagsOf(f)
  BY <1>3, FileFacts
<1> QED
  BY <1>1, <1>3, <1>4

(* A port of fill is one of the range: some tunnel of it is not active.    *)
LEMMA FreePortFits ==
  ASSUME NEW t \in Tunnels \ Known
  PROVE  FreePort \in Ports
<1>1. IsFiniteSet(Tunnels) /\ Cardinality(Tunnels) = N
  BY XrayAssumption, FS_Interval DEF Tunnels
<1>2. Known \subseteq Tunnels /\ Known # Tunnels
  BY DEF Known
<1>3. Cardinality(Known) <= N /\ Cardinality(Known) # N /\ Cardinality(Known) \in Nat
  BY <1>1, <1>2, KnownFinite, FS_Subset
<1> QED
  BY <1>3, FreePortFresh, XrayAssumption DEF Ports

(* The tunnel of a sync's fill gets added, or its add is undone.           *)
LEMMA FillTypes ==
  ASSUME TypeOK, CapInv, CapInv', FillAddOutbound \/ FillAdd
  PROVE  TypeOK'
<1> USE DEF At
<1>0. Sync \in Procs /\ Moving(Sync) /\ pc \in [Procs -> Labels]
  BY ProcFacts, FillStep DEF CapInv, PcTypeOK
<1>1. pc[Sync] \in ToPC /\ Mutating(Sync) /\ to \in Tunnels /\ at \in Ports \cup {0}
  <2>1. pc[Sync] \in ToPC /\ Mutating(Sync)
    BY DEF FillAddOutbound, FillAdd, ToPC, FillPC, Mutating, FreePC
  <2> QED
    BY <1>0, <2>1 DEF TypeOK, ToSet, SlotTypeOK
<1>2. XrayTypeOK' /\ hashes' \in {hashes, NoHash}
  <2>1. CASE FillAddOutbound
    <3>1. CappedAdd(Sync, <<to, Initial>>, "fill-add-in", "fill-undo-out", FALSE) /\ <<to, Initial>> \in Tags
      BY <1>1, <2>1, TagType, InitialType DEF FillAddOutbound
    <3> QED
      BY <1>0, <3>1, CappedAddTypes DEF TypeOK
  <2>2. CASE FillAdd
    BY <1>1, <2>2, RpcTypes, TagType, InitialType DEF FillAdd, TypeOK, TargetTypeOK, RPCLeaves, memVars
  <2> QED
    BY <2>1, <2>2
<1>3. UNCHANGED <<port, cur, mon, repairErr, syncVars, tickVars, fileVars, loaded, selVars, fails, slotVars>>
  BY DEF FillAddOutbound, FillAdd, RPCLeaves, memVars
<1>4. MemTypeOK' /\ SyncTypeOK' /\ TickTypeOK' /\ SlotTypeOK'
  BY <1>2, <1>3 DEF TypeOK, TargetTypeOK, MemTypeOK, SyncTypeOK, TickTypeOK, SlotTypeOK, syncVars, tickVars,
     selVars, slotVars
<1> QED
  BY <1>0, <1>1, <1>2, <1>3, <1>4, TypeStep, ProcFacts DEF slotVars, Sync

(* The steps of the sync that make no call which changes Xray.             *)
LEMMA SyncBeginTypes ==
  ASSUME TypeOK, CapInv, CapInv', SyncStart \/ SyncBegin \/ SyncList
  PROVE  TypeOK'
<1>0. Sync \in Procs /\ Moving(Sync) /\ pc \in [Procs -> Labels]
  BY ProcFacts, SyncQuietStep DEF CapInv, PcTypeOK
<1>1. XrayTypeOK' /\ grant' \subseteq Procs
  <2>1. UNCHANGED xrayVars => XrayTypeOK'
    BY DEF TypeOK, TargetTypeOK, XrayTypeOK, xrayVars
  <2> QED
    BY <2>1, RpcTypes DEF SyncStart, SyncBegin, SyncList, Calls, TypeOK, TargetTypeOK, CtlTypeOK
<1>2. UNCHANGED <<memVars, syncVars, tickVars, selVars, fails, slotVars>>
  BY DEF SyncStart, SyncBegin, SyncList
<1>3. pc'[Sync] \notin ToPC
  BY <1>0 DEF SyncStart, SyncBegin, SyncList, Goto, Then, ToPC, FillPC
<1>4. MemTypeOK' /\ SyncTypeOK' /\ TickTypeOK' /\ SlotTypeOK'
  BY <1>2 DEF TypeOK, TargetTypeOK, MemTypeOK, SyncTypeOK, TickTypeOK, SlotTypeOK, memVars, syncVars, tickVars,
     selVars, slotVars
<1> QED
  BY <1>0, <1>1, <1>2, <1>3, <1>4, TypeStep DEF slotVars

(* The locals of a sync that has ended.                                    *)
LEMMA SyncEndTypes ==
  ASSUME TypeOK, NEW c, SyncEnd(c)
  PROVE  /\ SyncTypeOK' /\ acts' \in Acted /\ from' = 0 /\ to' = 0 /\ at' = 0
         /\ pc' = [pc EXCEPT ![Sync] = "idle"]
  BY DEF SyncEnd, Unlock, Goto, SyncTypeOK, NoPorts, Tags, NoActs, Acted

(* The plan of a full apply uses ports of the range.                       *)
LEMMA FullTypes ==
  ASSUME TypeOK, CapInv, CapInv', FilesOK, FullBegin \/ FullEnd
  PROVE  TypeOK'
<1>0. Sync \in Procs /\ Moving(Sync) /\ pc \in [Procs -> Labels] /\ Mutating(Sync)
  BY ProcFacts, SyncQuietStep DEF CapInv, PcTypeOK, FullBegin, FullEnd, At, Mutating, FreePC
<1>1. XrayTypeOK' /\ TickTypeOK'
  BY DEF FullBegin, FullEnd, TypeOK, TargetTypeOK, XrayTypeOK, xrayVars, TickTypeOK, tickVars
<1>2. CASE FullBegin
  <2> DEFINE ranked == Ranked(Eligible)
             picked == Pick(ranked, MaxActive)
  <2>1. plan' = [t \in Tunnels |-> IF t \in TagsOf(picked) THEN Seat(ByTag(t, ranked), ranked) ELSE 0]
    BY <1>2 DEF FullBegin
  <2>2. \A t \in TagsOf(picked) : Seat(ByTag(t, ranked), ranked) \in Ports
    BY FullPicks DEF Ports
  <2>3. plan' \in [Tunnels -> Ports \cup {0}]
    <3> HIDE DEF ranked, picked
    <3> QED
      BY <2>1, <2>2
  <2>4. pc'[Sync] = "out-list" /\ UNCHANGED <<memVars, todo, left, backups, added, failed, selVars, fails, slotVars>>
    BY <1>0, <1>2 DEF FullBegin, Goto
  <2>5. MemTypeOK' /\ SyncTypeOK' /\ SlotTypeOK'
    BY <2>3, <2>4 DEF TypeOK, TargetTypeOK, MemTypeOK, SyncTypeOK, SlotTypeOK, memVars, selVars, slotVars
  <2> QED
    BY <1>0, <1>1, <2>4, <2>5, TypeStep DEF ToPC, FillPC
<1>3. CASE FullEnd
  <2>1. SyncTypeOK' /\ acts' \in Acted /\ from' = 0 /\ to' = 0 /\ at' = 0 /\ pc'[Sync] = "idle"
    BY <1>0, <1>3, SyncEndTypes DEF FullEnd
  <2>2. /\ cur' \in [Tunnels -> Variants] /\ mon' \in [Tunnels -> {"idle", "healthy", "degraded", "repairing"}]
        /\ repairErr' \subseteq Tunnels /\ fails' \in [Tunnels -> 0..ReplaceAfter]
    BY <1>3, RestartedTypes DEF FullEnd
  <2>3. /\ port' \in [Tunnels -> Ports \cup {0}]
        /\ hashes' \in [Tunnels -> Ports \cup {0}] \cup {NoHash}
        /\ unreplaced' \subseteq Tunnels
    BY <1>3 DEF FullEnd, NoPorts, TypeOK, TargetTypeOK, SyncTypeOK, SlotTypeOK
  <2>4. MemTypeOK' /\ SlotTypeOK'
    BY <2>1, <2>2, <2>3 DEF MemTypeOK, SlotTypeOK
  <2> QED
    BY <1>0, <1>1, <2>1, <2>4, TypeStep DEF ToPC, FillPC
<1> QED
  BY <1>2, <1>3

-----------------------------------------------------------------------------
(* The keys, quarantines and warnings of the slots.                        *)

(* No two of the tunnels S have one key; Xray has outbounds of S only.     *)
KeysDiffer(S) == \A s, t \in S : KeyOf(s) = KeyOf(t) => s = t
Covers(S) == \A a \in outs : a[1] \in S

(* Memory is in order: its tunnels are candidates of c with keys of their  *)
(* own, and Xray has outbounds of no other tunnel.                         *)
Settled(c) == KeysDiffer(Known) /\ Known \subseteq TagsOf(c) /\ Covers(Known)

(* Tunnel t may become active: it is not, and its pair is not in           *)
(* quarantine.                                                             *)
Eligibly(t) == t \in Tunnels \ Known /\ Pair(CandidateOf(t)) \notin quarantine

(* The tunnel that the slot of t ends with, 0 for none: the one under way  *)
(* (from, to), or the one an action is left for.                           *)
Final(t) == IF t = from THEN to ELSE IF acts[t] = Keep THEN t ELSE Successor(acts[t])

(* The decisions of a sync are still good while they are carried out.      *)
ActsHold ==
  /\ Due \subseteq Known \ {from}
  /\ \A t \in Known : Final(t) # 0 =>
       Final(t) \in TagsOf(loaded) /\ (t \in Due \cup {from} => Eligibly(Final(t)))
  /\ \A t, u \in Known : Final(t) # 0 /\ Final(u) # 0 /\ KeyOf(Final(t)) = KeyOf(Final(u)) => t = u

(* So is the choice of a worker for its slot, and of fill for an empty one.*)
WorkerHolds ==
  /\ KeysDiffer(Known) /\ Known \subseteq TagsOf(cands)
  /\ to \in TagsOf(cands) /\ Eligibly(to)
  /\ \A t \in Known \ {from} : KeyOf(t) # KeyOf(to)
FillHolds ==
  /\ Cardinality(Known) < MaxActive
  /\ to \in TagsOf(loaded) /\ Eligibly(to)
  /\ \A t \in Known : KeyOf(t) # KeyOf(to)

(* What process p knows of the tunnels of memory at each of its steps ...  *)
SlotChoice(p) ==
  /\ pc[p] \in RepairPC \cup RejoinPC \cup {"replace-list", "replace-choose"} => p \in Known
  /\ pc[p] \in {"sync-list", "decide", "replace-list", "replace-choose"} => Settled(cands)
  /\ pc[p] = "next-act" /\ p = Sync => from = 0 /\ ActsHold
  /\ pc[p] \in ReplacePC => from \in Known /\ IF p = Sync THEN ActsHold ELSE WorkerHolds
  /\ pc[p] \in {"fill"} \cup FillPC /\ p = Sync => KeysDiffer(Known) /\ Known \subseteq TagsOf(loaded)
  /\ pc[p] \in FillPC /\ p = Sync => FillHolds

(* ... and of the outbounds of Xray.                                       *)
SlotOuts(p) ==
  /\ pc[p] \in {"next-act", "fill", "fill-add", "slot-rm-rule", "slot-rm-out", "slot-rm-other", "slot-restore"}
       => Covers(Known)
  /\ pc[p] = "slot-rm-other" => <<from, cur[from]>> \notin outs
  /\ pc[p] \in {"slot-rm-in", "slot-add"} => Covers(Known \ {from})
  /\ pc[p] \in {"slot-add-in", "slot-add-rule", "slot-done"} => Covers((Known \ {from}) \cup {to})
  /\ pc[p] \in {"fill-add-in", "fill-add-rule", "fill-done"} => Covers(Known \cup {to})

(* The plan of a full apply, and what Xray has of it.                      *)
PlanHolds ==
  pc[Sync] \in ApplyPC =>
    /\ KeysDiffer(Planned) /\ Planned \subseteq TagsOf(loaded) /\ Cardinality(Planned) <= MaxActive
    /\ \A t \in Planned : Pair(CandidateOf(t)) \notin quarantine
PlanOuts ==
  /\ pc[Sync] = "out-remove" => outs \subseteq todo /\ added = {}
  /\ pc[Sync] = "out-add" => added \subseteq Planned /\ Covers(added)
  /\ pc[Sync] \in ApplyPC \ {"out-list", "out-remove", "out-add", "undo-remove", "undo-restore"} /\ ~failed
       => Covers(Planned)

(* Outside of slot operations and applies, saved hashes mean that memory   *)
(* is in order and no slot is under way.                                   *)
SavedKeys == hashes # NoHash /\ (\A p \in Procs : pc[p] \notin SlotPC \cup ApplyPC) => Settled(cands)
NoneUnderWay == (\A p \in Procs : pc[p] \notin ReplacePC) => from = 0

(* The warned and the active tunnels together fit the slots.               *)
WarnedFit == Cardinality(unreplaced \cup Known) <= MaxActive

(* Without a prefix there is one variant.                                  *)
OneVariant == ~Prefixed => \A t \in Tunnels : cur[t] = "bare" /\ <<t, "obs">> \notin outs \cup todo \cup backups

SlotInv ==
  /\ WarnedFit /\ OneVariant
  /\ \A p \in Procs : SlotChoice(p) /\ SlotOuts(p)
  /\ PlanHolds /\ PlanOuts /\ SavedKeys /\ NoneUnderWay

-----------------------------------------------------------------------------
(* The types, continued: these steps need the keys or the quarantines.     *)

(* Memory is in order at decide: every tunnel has a key of its own.        *)
LEMMA DecideFinds ==
  ASSUME TypeOK, PortInv, FilesOK, SlotInv, At(Sync, "decide")
  PROVE  Decidable
<1>1. Settled(cands) /\ Distinct(port)
  BY ProcFacts DEF SlotInv, SlotChoice, At, PortInv
<1>2. port \in [Tunnels -> 0..N]
  BY XrayAssumption DEF TypeOK, TargetTypeOK, MemTypeOK, Ports
<1> QED
  BY <1>1, <1>2 DEF Decidable, FilesOK, Settled, KeysDiffer

(* decide and fill hand the slot operations tunnels and ports of the range.*)
LEMMA DecideTypes ==
  ASSUME TypeOK, CapInv, CapInv', PortInv, FilesOK, SlotInv, DecideSlots \/ NextAct \/ FillNext
  PROVE  TypeOK'
<1> USE DEF At, Goto
<1>0. Sync \in Procs /\ Moving(Sync) /\ pc \in [Procs -> Labels] /\ Mutating(Sync)
  BY ProcFacts, SyncQuietStep DEF CapInv, PcTypeOK, DecideSlots, NextAct, FillNext, Mutating, FreePC
<1>1. XrayTypeOK' /\ TickTypeOK' /\ MemTypeOK'
  BY DEF DecideSlots, NextAct, FillNext, TypeOK, TargetTypeOK, XrayTypeOK, xrayVars, TickTypeOK, tickVars,
     MemTypeOK, memVars
<1>2. CASE DecideSlots
  <2> DEFINE acted == Decide(SlotOf, N, Switchable, Ranked(loaded), quarantine, better, Config).acts
  <2>1. acts' = [t \in Tunnels |-> IF t \in Known THEN acted[t] ELSE Keep]
    BY <1>2 DEF DecideSlots
  <2>2. GoodActs(acted)
    BY <1>2, DecideFinds, DecideGood DEF DecideSlots
  <2>3. TagsOf(loaded) \subseteq Tunnels
    BY FileFacts DEF FilesOK
  <2>4. acts' \in Acted
    <3> HIDE DEF acted
    <3> QED
      BY <2>1, <2>2, <2>3 DEF GoodActs, Acted
  <2>5. pc'[Sync] = "next-act" /\ UNCHANGED <<syncVars, unreplaced, fails, from, to, at>>
    BY <1>0, <1>2 DEF DecideSlots
  <2>6. SyncTypeOK' /\ SlotTypeOK'
    BY <2>4, <2>5 DEF TypeOK, TargetTypeOK, SyncTypeOK, SlotTypeOK, syncVars
  <2> QED
    BY <1>0, <1>1, <2>5, <2>6, TypeStep DEF ToPC, FillPC
<1>3. CASE NextAct
  <2>1. UNCHANGED <<syncVars, unreplaced, fails>> /\ pc'[Sync] \in {"fill", "slot-rm-rule"}
    BY <1>0, <1>3 DEF NextAct, selVars
  <2>2. /\ from' \in Tunnels \cup {0} /\ to' \in Tunnels \cup {0} /\ at' \in Ports \cup {0}
        /\ acts' \in Acted
    <3>1. CASE UNCHANGED slotVars
      BY <3>1 DEF slotVars, TypeOK, SlotTypeOK
    <3>2. ASSUME NEW t \in Due, from' = t, to' = Successor(acts[t]), at' = port[t], acts' = [acts EXCEPT ![t] = Keep]
          PROVE  /\ from' \in Tunnels \cup {0} /\ to' \in Tunnels \cup {0} /\ at' \in Ports \cup {0}
                 /\ acts' \in Acted
      BY <3>2 DEF Due, Successor, TypeOK, SlotTypeOK, TargetTypeOK, MemTypeOK, Acted
    <3> QED
      BY <1>3, <3>1, <3>2 DEF NextAct
  <2>3. SyncTypeOK' /\ SlotTypeOK'
    BY <2>1, <2>2 DEF TypeOK, TargetTypeOK, SyncTypeOK, SlotTypeOK, syncVars
  <2> QED
    BY <1>0, <1>1, <2>1, <2>3, TypeStep DEF ToPC, FillPC
<1>4. CASE FillNext
  <2>1. UNCHANGED <<unreplaced, fails>>
    BY <1>4 DEF FillNext
  <2>2. CASE SyncEnd(loaded)
    <3>1. SyncTypeOK' /\ acts' \in Acted /\ from' = 0 /\ to' = 0 /\ at' = 0 /\ pc'[Sync] = "idle"
      BY <1>0, <2>2, SyncEndTypes
    <3>2. SlotTypeOK'
      BY <2>1, <3>1 DEF TypeOK, SlotTypeOK
    <3> QED
      BY <1>0, <1>1, <3>1, <3>2, TypeStep DEF ToPC, FillPC
  <2>3. CASE ~SyncEnd(loaded)
    <3> DEFINE free == Allowed(Ranked(loaded), Known, KeysOf(loaded, Known), quarantine)
    <3>1. /\ free # {} /\ to' = Best(free, Ranked(loaded)).tag /\ at' = FreePort
          /\ UNCHANGED <<syncVars, acts, from>>
      BY <1>4, <2>3 DEF FillNext
    <3>2. to' \in Tunnels \ Known
      BY <3>1, ChoiceGood DEF FilesOK
    <3>3. at' \in Ports
      BY <3>1, <3>2, FreePortFits
    <3>4. SyncTypeOK' /\ SlotTypeOK'
      BY <2>1, <3>1, <3>2, <3>3 DEF TypeOK, TargetTypeOK, SyncTypeOK, SlotTypeOK, syncVars
    <3> QED
      BY <1>0, <1>1, <3>2, <3>4, TypeStep, ProcFacts DEF Sync
  <2> QED
    BY <2>2, <2>3
<1> QED
  BY <1>2, <1>3, <1>4

(* The end of a slot operation records them.                               *)
LEMMA SlotEndTypes ==
  ASSUME TypeOK, CapInv, CapInv', PortInv, SlotEndSync \/ FillEnd
  PROVE  TypeOK'
<1> USE DEF At, Goto
<1>0. Sync \in Procs /\ Moving(Sync) /\ pc \in [Procs -> Labels] /\ Mutating(Sync)
  BY ProcFacts, SyncQuietStep DEF CapInv, PcTypeOK, SlotEndSync, FillEnd, Mutating, FreePC
<1>1. XrayTypeOK' /\ TickTypeOK'
  BY DEF SlotEndSync, FillEnd, TypeOK, TargetTypeOK, XrayTypeOK, xrayVars, TickTypeOK, tickVars
<1>2. MemTypeOK' /\ fails' \in [Tunnels -> 0..ReplaceAfter]
  <2>1. at \in Ports \cup {0} /\ 0 \in Ports \cup {0}
    BY DEF TypeOK, SlotTypeOK
  <2>2. CASE \E old, new, p \in Ports \cup {0}, reset \in BOOLEAN : ReplaceSourceTunnel(old, new, p, reset)
    BY <2>2, ReplacedTypes
  <2>3. CASE hashes' = NoHash /\ UNCHANGED <<port, cur, mon, repairErr, fails>>
    BY <2>3 DEF TypeOK, TargetTypeOK, MemTypeOK, SlotTypeOK
  <2>4. \/ \E reset \in BOOLEAN : \/ ReplaceSourceTunnel(from, to, at, reset)
                                  \/ ReplaceSourceTunnel(from, 0, 0, reset)
                                  \/ ReplaceSourceTunnel(0, to, at, reset)
        \/ hashes' = NoHash /\ UNCHANGED <<port, cur, mon, repairErr, fails>>
    BY DEF SlotEndSync, FillEnd
  <2> QED
    BY <2>1, <2>3, <2>4, ReplacedTypes
<1>3. unreplaced' \subseteq Tunnels
  <2>1. CASE SlotEndSync /\ At(Sync, "slot-failed")
    BY <2>1 DEF SlotEndSync, TypeOK, SlotTypeOK
  <2>2. CASE SlotEndSync /\ At(Sync, "slot-done") /\ to # 0
    BY <2>2 DEF SlotEndSync, TypeOK, SlotTypeOK
  <2>3. CASE SlotEndSync /\ At(Sync, "slot-done") /\ to = 0
    <3>1. SlotPorts(Sync) /\ pc[Sync] \in ReplacePC
      BY <1>0, <2>3 DEF PortInv, ReplacePC
    <3>2. from \in Tunnels /\ unreplaced' = unreplaced \cup {from}
      BY <2>3, <3>1 DEF SlotEndSync, SlotPorts
    <3> QED
      BY <3>2 DEF TypeOK, SlotTypeOK
  <2>4. CASE FillEnd
    BY <2>4 DEF FillEnd, Unwarn, TypeOK, SlotTypeOK
  <2> QED
    BY <2>1, <2>2, <2>3, <2>4 DEF SlotEndSync
<1>4. /\ SyncTypeOK' /\ acts' \in Acted /\ from' = 0 /\ to' = 0 /\ at' = 0
      /\ pc'[Sync] \in {"idle", "next-act", "fill"}
  <2>1. CASE SyncEnd(loaded)
    BY <1>0, <2>1, SyncEndTypes
  <2>2. CASE ~SyncEnd(loaded)
    <3>1. /\ UNCHANGED <<syncVars, acts>> /\ from' = 0 /\ to' = 0 /\ at' = 0
          /\ pc'[Sync] \in {"next-act", "fill"}
      BY <1>0, <2>2 DEF SlotEndSync, FillEnd
    <3> QED
      BY <3>1 DEF TypeOK, TargetTypeOK, SyncTypeOK, SlotTypeOK, syncVars
  <2> QED
    BY <2>1, <2>2
<1>5. SlotTypeOK'
  BY <1>2, <1>3, <1>4 DEF SlotTypeOK
<1> QED
  BY <1>0, <1>1, <1>2, <1>4, <1>5, TypeStep DEF ToPC, FillPC

(* The monitor's checks, repairs and rejoins.                              *)
LEMMA MonitorTypes ==
  ASSUME TypeOK, CapInv, CapInv', NEW w \in Tunnels,
         \/ (StartCheck(w) \/ Repair(w) \/ Rejoin(w)) /\ UNCHANGED <<fileVars, loaded, selVars, fails, slotVars>>
         \/ CheckFails(w) \/ CheckSucceeds(w)
  PROVE  TypeOK'
<1>1. w \in Procs /\ Moving(w) /\ to' = to /\ pc'[w] \in FreePC \cup RepairPC \cup RejoinPC
  BY MonitorStep
<1>2. TargetTypeOK'
  <2>1. CASE StartCheck(w) \/ CheckFails(w) \/ CheckSucceeds(w)
    <3>1. PICK next \in {"repair", "replace"} : StartCheck(w) \/ ProbeFails(w, next) \/ ProbeSucceeds(w)
      BY <2>1 DEF CheckFails, CheckSucceeds
    <3> QED
      BY <3>1, CheckTypes DEF TypeOK
  <2> QED
    BY <2>1, RepairTypes, RejoinTypes DEF TypeOK
<1>3. SlotTypeOK'
  <2>1. CASE UNCHANGED <<selVars, fails, slotVars>>
    BY <2>1 DEF TypeOK, SlotTypeOK, selVars, slotVars
  <2>2. CASE CheckFails(w)
    <3>1. /\ UNCHANGED <<from, to, at, acts, unreplaced>>
          /\ \E n \in Nat : n <= ReplaceAfter /\ fails' = [fails EXCEPT ![w] = n]
      <4>1. ReplaceAfter \in Nat /\ fails[w] \in 0..ReplaceAfter
        BY CandidateAssumption DEF TypeOK, SlotTypeOK
      <4>2. PICK n : /\ fails' = [fails EXCEPT ![w] = n]
                     /\ n = IF port[w] = 0 THEN 0 ELSE IF fails[w] < ReplaceAfter THEN fails[w] + 1 ELSE fails[w]
        BY <2>2 DEF CheckFails
      <4>3. n \in Nat /\ n <= ReplaceAfter
        BY <4>1, <4>2
      <4> QED
        BY <2>2, <4>2, <4>3 DEF CheckFails, slotVars, selVars
    <3> QED
      BY <3>1 DEF TypeOK, SlotTypeOK
  <2>3. CASE CheckSucceeds(w)
    <3>1. UNCHANGED <<from, to, at, acts>> /\ unreplaced' \subseteq unreplaced /\ fails' = [fails EXCEPT ![w] = 0]
      BY <2>3 DEF CheckSucceeds, slotVars
    <3> QED
      BY <3>1, CandidateAssumption DEF TypeOK, SlotTypeOK
  <2> QED
    BY <2>1, <2>2, <2>3
<1>4. pc'[w] \notin ToPC
  BY <1>1 DEF ToPC, FillPC, FreePC, RepairPC, RejoinPC
<1> QED
  BY <1>1, <1>2, <1>3, <1>4, TypeStep DEF TargetTypeOK

(* ReplaceFailed: the tunnel that takes the slot is one of the candidates. *)
LEMMA ReplaceTypes ==
  ASSUME TypeOK, CapInv, CapInv', PortInv, FilesOK, NEW w \in Tunnels,
         \/ ReplaceSkip(w) \/ ReplaceBegin(w) \/ ReplaceList(w) \/ ReplaceChoose(w) \/ ReplaceEnd(w)
  PROVE  TypeOK'
<1> USE DEF At, Goto
<1>0. w \in Procs /\ Moving(w) /\ pc \in [Procs -> Labels]
  BY ProcFacts, ReplaceQuietStep DEF CapInv, PcTypeOK
<1>1. XrayTypeOK' /\ SyncTypeOK'
  <2>1. UNCHANGED xrayVars => XrayTypeOK'
    BY DEF TypeOK, TargetTypeOK, XrayTypeOK, xrayVars
  <2>2. XrayTypeOK'
    BY <2>1, RpcTypes DEF ReplaceSkip, ReplaceBegin, ReplaceList, ReplaceChoose, ReplaceEnd, Calls, TypeOK,
       TargetTypeOK
  <2>3. UNCHANGED syncVars
    BY DEF ReplaceSkip, ReplaceBegin, ReplaceList, ReplaceChoose, ReplaceEnd
  <2> QED
    BY <2>2, <2>3 DEF TypeOK, TargetTypeOK, SyncTypeOK, syncVars
<1>2. TickTypeOK'
  <2>1. slots' \in {slots, slots - 1} /\ UNCHANGED <<refs, aim, downs>>
    BY DEF ReplaceSkip, ReplaceBegin, ReplaceList, ReplaceChoose, ReplaceEnd, tickVars
  <2> QED
    BY <2>1 DEF TypeOK, TargetTypeOK, TickTypeOK
<1>3. CASE ReplaceSkip(w) \/ ReplaceBegin(w) \/ ReplaceList(w)
  <2>1. UNCHANGED <<selVars, fails, slotVars>>
    BY <1>3 DEF ReplaceSkip, ReplaceBegin, ReplaceList
  <2>2. MemTypeOK'
    BY <1>3 DEF ReplaceSkip, ReplaceBegin, ReplaceList, TypeOK, TargetTypeOK, MemTypeOK, memVars, SetMon
  <2>3. SlotTypeOK'
    BY <2>1 DEF TypeOK, SlotTypeOK, selVars, slotVars
  <2>4. pc'[w] \notin ToPC
    BY <1>0, <1>3 DEF ReplaceSkip, ReplaceBegin, ReplaceList, Unlock, ToPC, FillPC
  <2> QED
    BY <1>0, <1>1, <1>2, <2>1, <2>2, <2>3, <2>4, TypeStep DEF slotVars
<1>4. CASE ReplaceChoose(w)
  <2> DEFINE free == Allowed(Ranked(cands), Known, KeysOf(cands, Known \ {w}), quarantine')
  <2>1. MemTypeOK' /\ UNCHANGED <<fails, acts>>
    BY <1>4 DEF ReplaceChoose, TypeOK, TargetTypeOK, MemTypeOK, memVars
  <2>2. \/ unreplaced' = unreplaced \cup {w} /\ UNCHANGED <<from, to, at>> /\ pc'[w] = "repair"
        \/ /\ free # {} /\ to' = Best(free, Ranked(cands)).tag
           /\ from' = w /\ at' = port[w] /\ unreplaced' = unreplaced /\ pc'[w] = "slot-rm-rule"
    BY <1>0, <1>4 DEF ReplaceChoose, Unlock
  <2>3. free # {} => Best(free, Ranked(cands)).tag \in Tunnels
    BY ChoiceGood DEF FilesOK
  <2>4. SlotTypeOK' /\ pc'[w] \notin ToPC /\ Mutating(w)
    <3> HIDE DEF free
    <3>1. pc'[w] \notin ToPC /\ Mutating(w)
      BY <1>4, <2>2 DEF ReplaceChoose, Mutating, FreePC, ToPC, FillPC
    <3>2. /\ from' \in Tunnels \cup {0} /\ to' \in Tunnels \cup {0} /\ at' \in Ports \cup {0}
          /\ unreplaced' \subseteq Tunnels
      BY <2>2, <2>3 DEF TypeOK, SlotTypeOK, TargetTypeOK, MemTypeOK
    <3> QED
      BY <2>1, <3>1, <3>2 DEF TypeOK, SlotTypeOK
  <2> QED
    BY <1>0, <1>1, <1>2, <2>1, <2>4, TypeStep
<1>5. CASE ReplaceEnd(w)
  <2>1. at \in Ports \cup {0} /\ 0 \in Ports \cup {0}
    BY DEF TypeOK, SlotTypeOK
  <2>2. MemTypeOK' /\ fails' \in [Tunnels -> 0..ReplaceAfter]
    BY <1>5, <2>1, ReplacedTypes DEF ReplaceEnd
  <2>3. /\ unreplaced' \subseteq unreplaced /\ acts' = acts /\ from' = 0 /\ to' = 0 /\ at' = 0
        /\ pc'[w] = "idle" /\ Mutating(w)
    BY <1>0, <1>5 DEF ReplaceEnd, Unlock, Mutating, FreePC
  <2>4. SlotTypeOK'
    BY <2>2, <2>3 DEF TypeOK, SlotTypeOK
  <2> QED
    BY <1>0, <1>1, <1>2, <2>2, <2>3, <2>4, TypeStep DEF ToPC, FillPC
<1> QED
  BY <1>3, <1>4, <1>5

(* Every step of the specification keeps the types.                        *)
LEMMA TypesKept ==
  ASSUME TypeOK, CapInv, PortInv, FilesOK, SlotInv, [Next]_vars
  PROVE  TypeOK'
<1>0. CapInv'
  BY CapInvKept
<1>1. CASE SyncStep
  <2>1. CASE ApplyPlans /\ UNCHANGED <<fileVars, loaded, selVars, fails, slotVars>>
    <3>1. TargetTypeOK' /\ SlotTypeOK'
      BY <2>1, ApplyTypes DEF TypeOK, SlotTypeOK, selVars, slotVars
    <3>2. Sync \in Procs /\ Moving(Sync) /\ to' = to
      BY <2>1, ApplyMoves, ProcFacts DEF CapInv, slotVars
    <3>3. pc'[Sync] \notin ToPC
      BY <2>1, <3>2 DEF CapInv, PcTypeOK, ApplyPlans, OutList, OutRemove, OutAdd, UndoRemove, UndoRestore, InList,
         InRemove, InAdd, RuleList, RuleRemove, RuleAdd, ListKind, Through, CheckCap, At, Goto, Then, ToPC, FillPC
    <3> QED
      BY <1>0, <3>1, <3>2, <3>3, TypeStep DEF TargetTypeOK
  <2> QED
    BY <1>0, <1>1, <2>1, SyncBeginTypes, FullTypes, DecideTypes, SlotEndTypes, SlotTypes, FillTypes, ProcFacts
       DEF SyncStep
<1>2. ASSUME NEW w \in Tunnels, WorkerStep(w)
      PROVE  TypeOK'
  BY <1>0, <1>2, MonitorTypes, ReplaceTypes, SlotTypes, ProcFacts DEF WorkerStep
<1>3. CASE Restart
  <2>1. CASE /\ RestartXray
             /\ UNCHANGED <<memVars, lock, pc, grant, syncVars, tickVars, fileVars, loaded, selVars, fails, slotVars>>
    <3>1. XrayTypeOK'
      BY <2>1, XrayAssumption DEF RestartXray, Fault, TypeOK, TargetTypeOK, XrayTypeOK, NoPorts
    <3>2. MemTypeOK' /\ CtlTypeOK' /\ SyncTypeOK' /\ TickTypeOK'
      BY <2>1 DEF TypeOK, TargetTypeOK, MemTypeOK, CtlTypeOK, SyncTypeOK, TickTypeOK, memVars, syncVars, tickVars
    <3>3. SlotTypeOK' /\ ToSet'
      BY <2>1 DEF TypeOK, SlotTypeOK, ToSet, selVars, slotVars
    <3> QED
      BY <3>1, <3>2, <3>3 DEF TypeOK, TargetTypeOK
  <2>2. CASE /\ RestartScd
             /\ unreplaced' = {} /\ fails' = [t \in Tunnels |-> 0]
             /\ acts' = NoActs /\ from' = 0 /\ to' = 0 /\ at' = 0
    <3>1. XrayTypeOK'
      BY <2>2, XrayAssumption DEF RestartScd, Fault, TypeOK, TargetTypeOK, XrayTypeOK
    <3>2. MemTypeOK' /\ SyncTypeOK'
      BY <2>2, InitialType DEF RestartScd, NoPorts, MemTypeOK, SyncTypeOK
    <3>3. CtlTypeOK'
      BY <2>2 DEF RestartScd, CtlTypeOK, Labels, FreePC
    <3>4. TickTypeOK'
      BY <2>2 DEF RestartScd, NoPorts, TypeOK, TargetTypeOK, TickTypeOK
    <3>5. ToSet'
      BY <2>2 DEF RestartScd, ToSet, ToPC, FillPC
    <3>6. unreplaced' = {} /\ fails' = [t \in Tunnels |-> 0] /\ acts' = NoActs /\ from' = 0 /\ to' = 0 /\ at' = 0
      BY <2>2
    <3>7. SlotTypeOK'
      BY <3>6, CandidateAssumption DEF SlotTypeOK, NoActs, Acted
    <3> QED
      BY <3>1, <3>2, <3>3, <3>4, <3>5, <3>7 DEF TypeOK, TargetTypeOK
  <2> QED
    BY <1>3, <2>1, <2>2 DEF Restart
<1>4. CASE Tick
  <2>1. TargetTypeOK' /\ UNCHANGED <<pc, selVars, fails, slotVars>>
    BY <1>4, TickTypes DEF Tick, TickStart, TypeOK
  <2> QED
    BY <2>1 DEF TypeOK, SlotTypeOK, ToSet, selVars, slotVars
<1>5. CASE Edit \/ Expire \/ UNCHANGED vars
  <2>1. UNCHANGED <<targetVars, unreplaced, fails, slotVars>>
    BY <1>5 DEF Edit, Expire, vars, selVars
  <2>2. TargetTypeOK'
    BY <2>1 DEF TypeOK, TargetTypeOK, XrayTypeOK, MemTypeOK, CtlTypeOK, SyncTypeOK, TickTypeOK, targetVars, xrayVars,
       memVars, syncVars, tickVars
  <2> QED
    BY <2>1, <2>2 DEF TypeOK, SlotTypeOK, ToSet, targetVars, slotVars
<1> QED
  BY <1>1, <1>2, <1>3, <1>4, <1>5 DEF Next

-----------------------------------------------------------------------------
(* What a step of one process leaves of what the others know.              *)

(* Choices stay good while memory stays as it is and quarantines only end. *)
LEMMA SameChoice ==
  ASSUME UNCHANGED <<port, acts, from, to>>, quarantine' \subseteq quarantine
  PROVE  /\ Known' = Known
         /\ loaded' = loaded /\ ActsHold => ActsHold'
         /\ cands' = cands /\ WorkerHolds => WorkerHolds'
         /\ loaded' = loaded /\ FillHolds => FillHolds'
<1>1. Known' = Known /\ Due' = Due /\ \A t : Final(t)' = Final(t)
  BY DEF Known, Due, Final
<1>2. \A t : Eligibly(t) => Eligibly(t)'
  BY <1>1 DEF Eligibly
<1>3. loaded' = loaded /\ ActsHold => ActsHold'
  BY <1>1, <1>2 DEF ActsHold
<1>4. cands' = cands /\ WorkerHolds => WorkerHolds'
  BY <1>1, <1>2 DEF WorkerHolds, KeysDiffer
<1>5. loaded' = loaded /\ FillHolds => FillHolds'
  BY <1>1, <1>2 DEF FillHolds
<1> QED
  BY <1>1, <1>3, <1>4, <1>5

(* What another process knows survives a step of p: either p holds the     *)
(* target lock and the other one knows nothing, or p changes nothing.      *)
LEMMA OthersKeys ==
  ASSUME CapInv, SlotInv, NEW p \in Procs, Moving(p), NEW q \in Procs, q # p,
         \/ Mutating(p)
         \/ UNCHANGED <<outs, port, cur, acts, from, to, cands>> /\ quarantine' \subseteq quarantine,
         p # Sync => loaded' = loaded
  PROVE  SlotChoice(q)' /\ SlotOuts(q)' /\ pc'[q] = pc[q] /\ (Mutating(p) => pc'[q] \in FreePC)
<1>1. pc'[q] = pc[q]
  BY DEF Moving, Moves, CapInv, PcTypeOK
<1>2. Mutating(p) => pc'[q] \in FreePC
  BY <1>1 DEF CapInv, LockHeld, Mutating
<1>3. CASE Mutating(p)
  BY <1>1, <1>2, <1>3 DEF SlotChoice, SlotOuts, FreePC, RepairPC, RejoinPC, ReplacePC, FillPC
<1>4. CASE UNCHANGED <<outs, port, cur, acts, from, to, cands>> /\ quarantine' \subseteq quarantine
  <2>1. /\ Known' = Known
        /\ q = Sync /\ ActsHold => ActsHold'
        /\ WorkerHolds => WorkerHolds'
        /\ q = Sync /\ FillHolds => FillHolds'
    BY <1>4, SameChoice
  <2>2. SlotChoice(q) /\ SlotOuts(q)
    BY DEF SlotInv
  <2>3. \A S : Covers(S)' <=> Covers(S)
    BY <1>4 DEF Covers
  <2>4. Settled(cands)' <=> Settled(cands)
    BY <1>4, <2>1, <2>3 DEF Settled, KeysDiffer
  <2>5. SlotChoice(q)'
    BY <1>1, <1>4, <2>1, <2>2, <2>4 DEF SlotChoice, KeysDiffer
  <2>6. SlotOuts(q)'
    BY <1>1, <1>4, <2>1, <2>2 DEF SlotOuts, Covers
  <2> QED
    BY <1>1, <1>2, <2>5, <2>6
<1> QED
  BY <1>1, <1>2, <1>3, <1>4

(* A process that moves keeps SlotInv when it knows what its next step     *)
(* needs and, where it leaves an operation, memory is in order or the      *)
(* hashes are reset.  (A sync that enters a full apply is treated below.)  *)
LEMMA KeysMove ==
  ASSUME CapInv, SlotInv, NEW p \in Procs, Moving(p),
         SlotChoice(p)', SlotOuts(p)', WarnedFit', OneVariant',
         p = Sync => pc'[Sync] \notin ApplyPC,
         \/ Mutating(p)
         \/ UNCHANGED <<outs, port, cur, acts, from, to, cands>> /\ quarantine' \subseteq quarantine,
         p # Sync => UNCHANGED <<loaded, plan, todo, added, failed>>,
         \/ hashes' = NoHash
         \/ pc'[p] \in SlotPC \cup ApplyPC
         \/ Settled(cands)'
         \/ pc[p] \notin SlotPC \cup ApplyPC /\ hashes' = hashes /\ (Settled(cands) => Settled(cands)'),
         pc'[p] \in ReplacePC \/ from' = 0 \/ (pc[p] \notin ReplacePC /\ from' = from)
  PROVE  SlotInv'
<1>1. \A q \in Procs : q # p => pc'[q] = pc[q] /\ (Mutating(p) => pc'[q] \in FreePC)
  BY OthersKeys
<1>2. \A q \in Procs : SlotChoice(q)' /\ SlotOuts(q)'
  BY OthersKeys
<1>3. PlanHolds' /\ PlanOuts'
  <2>1. CASE pc'[Sync] \notin ApplyPC
    BY <2>1 DEF PlanHolds, PlanOuts, ApplyPC
  <2>2. CASE pc'[Sync] \in ApplyPC
    <3>1. p # Sync /\ pc'[Sync] = pc[Sync] /\ ~Mutating(p)
      BY <1>1, <2>2, ProcFacts DEF ApplyPC, FreePC
    <3>2. UNCHANGED <<outs, plan, loaded, todo, added, failed>> /\ quarantine' \subseteq quarantine
      BY <3>1
    <3>3. PlanHolds'
      BY <3>1, <3>2 DEF SlotInv, PlanHolds, Planned, KeysDiffer
    <3>4. PlanOuts'
      BY <3>1, <3>2 DEF SlotInv, PlanOuts, Planned, Covers
    <3> QED
      BY <3>3, <3>4
  <2> QED
    BY <2>1, <2>2
<1>4. SavedKeys'
  <2> SUFFICES ASSUME hashes' # NoHash, \A q \in Procs : pc'[q] \notin SlotPC \cup ApplyPC
               PROVE  Settled(cands)'
    BY DEF SavedKeys
  <2>1. CASE pc[p] \notin SlotPC \cup ApplyPC /\ hashes' = hashes /\ (Settled(cands) => Settled(cands)')
    BY <1>1, <2>1 DEF SlotInv, SavedKeys
  <2> QED
    BY <2>1
<1>5. NoneUnderWay'
  BY <1>1 DEF SlotInv, NoneUnderWay
<1> QED
  BY <1>2, <1>3, <1>4, <1>5 DEF SlotInv

(* The warned and the active tunnels: none joins them, or one for one that *)
(* leaves.                                                                 *)
LEMMA WarnedStays ==
  ASSUME TypeOK, WarnedFit, unreplaced' \cup Known' \subseteq unreplaced \cup Known
  PROVE  WarnedFit'
<1>1. IsFiniteSet(unreplaced \cup Known)
  <2>1. IsFiniteSet(Tunnels)
    BY XrayAssumption, FS_Interval DEF Tunnels
  <2>2. unreplaced \cup Known \subseteq Tunnels
    BY DEF Known, TypeOK, SlotTypeOK
  <2> QED
    BY <2>1, <2>2, FS_Subset
<1>2. /\ Cardinality(unreplaced' \cup Known') <= Cardinality(unreplaced \cup Known)
      /\ Cardinality(unreplaced' \cup Known') \in Nat /\ Cardinality(unreplaced \cup Known) \in Nat
  BY <1>1, FS_Subset, FS_CardinalityType
<1> QED
  BY <1>2, CandidateAssumption DEF WarnedFit

(* One tunnel, warned or active, makes room for another.                   *)
LEMMA WarnedSwaps ==
  ASSUME TypeOK, WarnedFit, NEW a \in unreplaced \cup Known, NEW b,
         unreplaced' \cup Known' \subseteq ((unreplaced \cup Known) \ {a}) \cup {b}
  PROVE  WarnedFit'
<1> DEFINE A == unreplaced \cup Known
           B == (A \ {a}) \cup {b}
<1>1. IsFiniteSet(A)
  <2>1. IsFiniteSet(Tunnels)
    BY XrayAssumption, FS_Interval DEF Tunnels
  <2>2. A \subseteq Tunnels
    BY DEF Known, TypeOK, SlotTypeOK
  <2> QED
    BY <2>1, <2>2, FS_Subset
<1>2. IsFiniteSet(A \ {a}) /\ Cardinality(A \ {a}) = Cardinality(A) - 1 /\ Cardinality(A) \in Nat
  <2>1. a \in A
    OBVIOUS
  <2> HIDE DEF A
  <2> QED
    BY <1>1, <2>1, FS_RemoveElement, FS_CardinalityType
<1>3. IsFiniteSet(B) /\ Cardinality(B) <= Cardinality(A) /\ Cardinality(B) \in Nat
  <2> DEFINE C == A \ {a}
  <2>1. IsFiniteSet(C) /\ Cardinality(C) = Cardinality(A) - 1 /\ B = C \cup {b} /\ Cardinality(C) \in Nat
    BY <1>2, FS_CardinalityType
  <2> HIDE DEF A, B, C
  <2>2. IsFiniteSet(C \cup {b}) /\ Cardinality(C \cup {b}) \in {Cardinality(C), Cardinality(C) + 1}
    BY <2>1, FS_AddElement
  <2> QED
    BY <1>2, <2>1, <2>2, FS_CardinalityType
<1>4. Cardinality(unreplaced' \cup Known') <= Cardinality(B) /\ Cardinality(unreplaced' \cup Known') \in Nat
  <2> HIDE DEF B
  <2> QED
    BY <1>3, FS_Subset, FS_CardinalityType DEF B
<1> QED
  BY <1>2, <1>3, <1>4, CandidateAssumption DEF WarnedFit

(* The monitor adds and records outbounds of its own tunnel only, which    *)
(* memory has, and only under the lock.                                    *)
LEMMA MonitorDoes ==
  ASSUME TypeOK, CapInv, NEW w \in Tunnels,
         \/ (StartCheck(w) \/ Repair(w) \/ Rejoin(w)) /\ UNCHANGED <<fileVars, loaded, selVars, fails, slotVars>>
         \/ CheckFails(w) \/ CheckSucceeds(w)
  PROVE  /\ outs' \subseteq outs \cup {<<w, "bare">>, <<w, Initial>>}
         /\ \A t \in Tunnels : cur'[t] \in {cur[t], "bare", Initial}
         /\ pc[w] \in FreePC => UNCHANGED <<outs, cur>>
         /\ pc[w] \in FreePC /\ pc'[w] \in RepairPC \cup RejoinPC => port[w] # 0
         /\ UNCHANGED <<syncVars, loaded, cands, quarantine, acts>> /\ unreplaced' \subseteq unreplaced
<1> USE DEF xrayVars, memVars, slotVars, selVars
<1>0. pc \in [Procs -> Labels] /\ w \in Procs /\ cur \in [Tunnels -> Variants]
  BY ProcFacts DEF CapInv, PcTypeOK, TypeOK, TargetTypeOK, MemTypeOK
<1>1. ASSUME StartCheck(w) \/ CheckFails(w) \/ CheckSucceeds(w)
      PROVE  UNCHANGED <<outs, cur, syncVars>> /\ pc'[w] \in FreePC
  BY <1>0, <1>1 DEF StartCheck, CheckFails, CheckSucceeds, ProbeFails, ProbeSucceeds, ProbeOver, At, Goto, FreePC
<1>2. ASSUME Repair(w)
      PROVE  /\ outs' \subseteq outs \cup {<<w, "bare">>}
             /\ \A t \in Tunnels : cur'[t] \in {cur[t], "bare"}
             /\ pc[w] \in FreePC => UNCHANGED <<outs, cur>>
             /\ pc[w] \in FreePC /\ pc'[w] \in RepairPC \cup RejoinPC => port[w] # 0
             /\ UNCHANGED syncVars
  <2>1. CASE RepairSkip(w) \/ RepairBegin(w)
    BY <1>0, <2>1 DEF RepairSkip, RepairBegin, Read, At, Goto, FreePC, RepairPC, RejoinPC
  <2>2. CASE ~(RepairSkip(w) \/ RepairBegin(w))
    <3>1. pc[w] \notin FreePC
      BY <1>2, <2>2 DEF Repair, RepairList, RemoveRuleStep, RemoveOutboundStep, RestoreRuleStep, RepairAdd,
         RepairAddRule, RepairEnd, At, FreePC
    <3>2. outs' \subseteq outs \cup {<<w, "bare">>}
      BY <1>2, <2>2 DEF Repair, RepairList, RemoveRuleStep, RemoveOutboundStep, RestoreRuleStep, RepairAdd,
         RepairAddRule, RepairEnd, CappedAdd, CheckCap, SendAdd, Read, AddOutbound, RemoveOutbound, AddRule, RemoveRule
    <3>3. (\A t \in Tunnels : cur'[t] \in {cur[t], "bare"}) /\ UNCHANGED syncVars
      BY <1>0, <1>2, <2>2 DEF Repair, RepairList, RemoveRuleStep, RemoveOutboundStep, RestoreRuleStep, RepairAdd,
         RepairAddRule, RepairEnd
    <3> QED
      BY <3>1, <3>2, <3>3
  <2> QED
    BY <2>1, <2>2
<1>3. ASSUME Rejoin(w)
      PROVE  /\ outs' \subseteq outs \cup {<<w, "bare">>, <<w, Initial>>}
             /\ \A t \in Tunnels : cur'[t] \in {cur[t], Initial}
             /\ pc[w] \in FreePC => UNCHANGED <<outs, cur>>
             /\ pc[w] \in FreePC /\ pc'[w] \in RepairPC \cup RejoinPC => port[w] # 0
             /\ UNCHANGED syncVars
  <2>1. CASE RejoinView(w) \/ RejoinBegin(w)
    BY <1>0, <2>1 DEF RejoinView, RejoinBegin, ShouldRejoin, Read, At, Goto, FreePC, RepairPC, RejoinPC
  <2>2. CASE ~(RejoinView(w) \/ RejoinBegin(w))
    <3>1. pc[w] \notin FreePC
      BY <1>3, <2>2 DEF Rejoin, RemoveRuleStep, RemoveOutboundStep, RestoreRuleStep, RejoinAdd,
         RejoinAddRule, RejoinUndoOut, RejoinUndoAdd, RejoinEnd, At, FreePC
    <3>2. outs' \subseteq outs \cup {<<w, "bare">>, <<w, Initial>>}
      BY <1>3, <2>2 DEF Rejoin, RemoveRuleStep, RemoveOutboundStep, RestoreRuleStep, RejoinAdd,
         RejoinAddRule, RejoinUndoOut, RejoinUndoAdd, RejoinEnd, CappedAdd, CheckCap, SendAdd, Read, AddOutbound,
         RemoveOutbound, AddRule, RemoveRule
    <3>3. (\A t \in Tunnels : cur'[t] \in {cur[t], Initial}) /\ UNCHANGED syncVars
      BY <1>0, <1>3, <2>2 DEF Rejoin, RemoveRuleStep, RemoveOutboundStep, RestoreRuleStep, RejoinAdd,
         RejoinAddRule, RejoinUndoOut, RejoinUndoAdd, RejoinEnd
    <3> QED
      BY <3>1, <3>2, <3>3
  <2> QED
    BY <2>1, <2>2
<1>4. UNCHANGED <<loaded, cands, quarantine, acts>> /\ unreplaced' \subseteq unreplaced
  BY DEF CheckFails, CheckSucceeds
<1> QED
  BY <1>1, <1>2, <1>3, <1>4 DEF FreePC, RepairPC, RejoinPC

(* The monitor touches the outbounds of active tunnels only, and forgets   *)
(* warnings.                                                               *)
LEMMA MonitorKeys ==
  ASSUME TypeOK, CapInv, SlotInv, NEW w \in Tunnels,
         \/ (StartCheck(w) \/ Repair(w) \/ Rejoin(w)) /\ UNCHANGED <<fileVars, loaded, selVars, fails, slotVars>>
         \/ CheckFails(w) \/ CheckSucceeds(w)
  PROVE  SlotInv'
<1>1. /\ w \in Procs /\ w # Sync /\ Moving(w)
      /\ UNCHANGED <<port, plan, from, to, failed>> /\ hashes' \in {hashes, NoHash}
      /\ pc[w] \in FreePC \cup RepairPC \cup RejoinPC /\ pc'[w] \in FreePC \cup RepairPC \cup RejoinPC
  BY MonitorStep DEF slotVars
<1>2. /\ outs' \subseteq outs \cup {<<w, "bare">>, <<w, Initial>>}
      /\ \A t \in Tunnels : cur'[t] \in {cur[t], "bare", Initial}
      /\ pc[w] \in FreePC => UNCHANGED <<outs, cur>>
      /\ pc[w] \in FreePC /\ pc'[w] \in RepairPC \cup RejoinPC => port[w] # 0
      /\ UNCHANGED <<syncVars, loaded, cands, quarantine, acts>> /\ unreplaced' \subseteq unreplaced
  BY MonitorDoes
<1>3. Known' = Known
  BY <1>1 DEF Known
<1>4. pc[w] \in RepairPC \cup RejoinPC => w \in Known
  BY <1>1 DEF SlotInv, SlotChoice
<1>5. SlotChoice(w)' /\ SlotOuts(w)'
  <2>1. pc'[w] \in RepairPC \cup RejoinPC => w \in Known'
    BY <1>1, <1>2, <1>3, <1>4 DEF Known
  <2> QED
    BY <1>1, <2>1 DEF SlotChoice, SlotOuts, FreePC, RepairPC, RejoinPC, ReplacePC, FillPC
<1>6. WarnedFit'
  BY <1>2, <1>3, WarnedStays DEF SlotInv
<1>7. OneVariant'
  BY <1>2 DEF SlotInv, OneVariant, Initial, syncVars
<1>8. Settled(cands) => Settled(cands)'
  BY <1>1, <1>2, <1>3, <1>4 DEF Settled, KeysDiffer, Covers
<1>9. pc[w] \notin SlotPC \cup ApplyPC /\ pc[w] \notin ReplacePC /\ (Mutating(w) \/ pc[w] \in FreePC)
  BY <1>1 DEF FreePC, RepairPC, RejoinPC, SlotPC, ApplyPC, ReplacePC, Mutating
<1> QED
  BY <1>1, <1>2, <1>5, <1>6, <1>7, <1>8, <1>9, KeysMove DEF syncVars

(* The calls of ReplaceTunnel and RemoveTunnel (tunnel.go) remove the      *)
(* outbounds of one tunnel before they add that of the other.              *)
LEMMA SlotCallKeys ==
  ASSUME TypeOK, CapInv, SlotInv, NEW p \in Procs, SlotRemove(p) \/ SlotAddOutbound(p) \/ SlotAdd(p)
  PROVE  SlotInv'
<1> USE DEF At, Goto, Then
<1>0. pc \in [Procs -> Labels] /\ Moving(p) /\ Mutating(p) /\ SlotChoice(p) /\ SlotOuts(p) /\ outs \subseteq Tags
  BY SlotStep DEF CapInv, PcTypeOK, SlotInv, Mutating, SlotRemove, SlotAddOutbound, SlotAdd, FreePC,
     TypeOK, TargetTypeOK, XrayTypeOK
<1>1. UNCHANGED <<port, cur, plan, todo, backups, added, failed, acts, from, to, loaded, cands, quarantine, unreplaced>>
  BY DEF SlotRemove, SlotAddOutbound, SlotAdd, RPCLeaves, memVars, syncVars, selVars, slotVars
<1>2. pc[p] \in ReplacePC /\ pc'[p] \in ReplacePC
  BY <1>0 DEF SlotRemove, SlotAddOutbound, SlotAdd, CappedAdd, CheckCap, SendAdd, ReplacePC
<1>3. Known' = Known /\ (ActsHold => ActsHold') /\ (WorkerHolds => WorkerHolds')
  BY <1>1, SameChoice
<1>4. SlotChoice(p)'
  BY <1>0, <1>1, <1>2, <1>3 DEF SlotChoice, ReplacePC, RepairPC, RejoinPC, FillPC
<1>5. SlotOuts(p)' /\ outs' \subseteq outs \cup {<<to, Initial>>}
  <2>1. CASE SlotRemove(p) /\ pc[p] = "slot-rm-rule"
    <3>1. outs' = outs /\ pc'[p] = "slot-rm-out"
      BY <1>0, <2>1 DEF SlotRemove, RemoveRule
    <3> QED
      BY <1>0, <1>1, <1>3, <2>1, <3>1 DEF SlotOuts, Covers
  <2>2. CASE SlotRemove(p) /\ pc[p] = "slot-rm-out"
    <3>1. PICK ok \in BOOLEAN : /\ RemoveOutbound(<<from, cur[from]>>, ok)
                                /\ pc'[p] = IF ok THEN IF Prefixed THEN "slot-rm-other" ELSE "slot-rm-in"
                                            ELSE "slot-restore"
      BY <1>0, <2>2 DEF SlotRemove
    <3>2. outs' \subseteq outs /\ (ok => outs' = outs \ {<<from, cur[from]>>}) /\ Covers(Known)
      BY <1>0, <2>2, <3>1 DEF RemoveOutbound, SlotOuts
    <3>3. CASE ok /\ ~Prefixed
      <4>0. from \in Tunnels
        BY <1>0, <2>2 DEF SlotChoice, ReplacePC, Known
      <4>1. cur[from] = "bare" /\ <<from, "obs">> \notin outs
        BY <3>3, <4>0 DEF SlotInv, OneVariant
      <4>2. ASSUME NEW a \in outs', a[1] = from
            PROVE  FALSE
        <5>1. a \in Tunnels \X {"obs", "bare"} /\ a \in outs /\ a # <<from, "bare">>
          BY <1>0, <3>2, <3>3, <4>1 DEF Tags, Variants
        <5> QED
          BY <4>1, <4>2, <5>1
      <4> QED
        BY <1>1, <1>3, <3>1, <3>2, <3>3, <4>2 DEF SlotOuts, Covers
    <3>4. CASE ~(ok /\ ~Prefixed)
      BY <1>1, <1>3, <3>1, <3>2, <3>4 DEF SlotOuts, Covers
    <3> QED
      BY <3>2, <3>3, <3>4
  <2>3. CASE SlotRemove(p) /\ pc[p] = "slot-rm-other"
    <3>1. PICK ok \in BOOLEAN : /\ RemoveOutbound(<<from, Other(cur[from])>>, ok)
                                /\ pc'[p] = IF ok THEN "slot-rm-in" ELSE "slot-restore"
      BY <1>0, <2>3 DEF SlotRemove
    <3>2. /\ outs' \subseteq outs /\ (ok => outs' = outs \ {<<from, Other(cur[from])>>})
          /\ Covers(Known) /\ <<from, cur[from]>> \notin outs
      BY <1>0, <2>3, <3>1 DEF RemoveOutbound, SlotOuts
    <3>3. ok => \A a \in outs' : a[1] # from
      <4>1. from \in Tunnels /\ cur[from] \in Variants
        BY <1>0, <2>3 DEF SlotChoice, ReplacePC, Known, TypeOK, TargetTypeOK, MemTypeOK
      <4> QED
        BY <1>0, <3>2, <4>1 DEF Tags, Variants, Other
    <3> QED
      BY <1>1, <1>3, <3>1, <3>2, <3>3 DEF SlotOuts, Covers
  <2>4. CASE SlotRemove(p) /\ pc[p] \in {"slot-restore", "slot-rm-in"}
    <3>1. outs' = outs /\ \/ pc'[p] = "slot-failed"
                          \/ pc[p] = "slot-rm-in" /\ pc'[p] \in {"slot-done", "slot-add"}
      BY <1>0, <2>4 DEF SlotRemove, AddRule, RemoveInbound
    <3> QED
      BY <1>0, <1>1, <1>3, <2>4, <3>1 DEF SlotOuts, Covers
  <2>5. CASE SlotAddOutbound(p)
    <3>1. /\ pc[p] = "slot-add" /\ outs' \subseteq outs \cup {<<to, Initial>>}
          /\ \/ pc'[p] = "slot-add" /\ outs' = outs
             \/ pc'[p] \in {"slot-add-in", "slot-failed"}
      BY <1>0, <2>5 DEF SlotAddOutbound, CappedAdd, CheckCap, SendAdd, Read, AddOutbound
    <3> QED
      BY <1>0, <1>1, <1>3, <2>5, <3>1 DEF SlotOuts, Covers
  <2>6. CASE SlotAdd(p)
    <3>1. /\ pc[p] \in {"slot-add-in", "slot-add-rule"} /\ outs' = outs
          /\ pc'[p] \in {"slot-add-rule", "slot-done", "slot-failed"}
      BY <1>0, <2>6 DEF SlotAdd, AddInbound, AddRule
    <3> QED
      BY <1>0, <1>1, <1>3, <3>1 DEF SlotOuts, Covers
  <2> QED
    BY <2>1, <2>2, <2>3, <2>4, <2>5, <2>6 DEF SlotRemove
<1>6. WarnedFit' /\ OneVariant'
  <2>1. WarnedFit'
    BY <1>1, <1>3, WarnedStays DEF SlotInv
  <2>2. OneVariant'
    BY <1>1, <1>5 DEF SlotInv, OneVariant, Initial
  <2> QED
    BY <2>1, <2>2
<1>7. pc'[p] \in SlotPC /\ pc'[p] \notin ApplyPC
  BY <1>2 DEF ReplacePC, SlotPC, ApplyPC
<1> QED
  BY <1>0, <1>1, <1>2, <1>4, <1>5, <1>6, <1>7, KeysMove

(* The calls of AddTunnel and of its rollback.                             *)
LEMMA FillCallKeys ==
  ASSUME TypeOK, CapInv, SlotInv, FillAddOutbound \/ FillAdd
  PROVE  SlotInv'
<1> USE DEF At, Goto, Then
<1>0. /\ pc \in [Procs -> Labels] /\ Sync \in Procs /\ Moving(Sync) /\ Mutating(Sync)
      /\ SlotChoice(Sync) /\ SlotOuts(Sync)
  BY ProcFacts, FillStep DEF CapInv, PcTypeOK, SlotInv, Mutating, FillAddOutbound, FillAdd, FreePC
<1>1. UNCHANGED <<port, cur, plan, todo, backups, added, failed, acts, from, to, loaded, cands, quarantine, unreplaced>>
  BY DEF FillAddOutbound, FillAdd, RPCLeaves, memVars, syncVars, selVars, slotVars
<1>2. Known' = Known /\ (FillHolds => FillHolds')
  BY <1>1, SameChoice
<1>3. /\ pc[Sync] \notin ReplacePC /\ pc'[Sync] \notin ReplacePC
      /\ pc'[Sync] \in FillPC \cup {"fill-undo-rule", "fill-undo-in", "fill-undo-out", "fill-failed"}
      /\ pc'[Sync] \in FillPC => pc[Sync] \in FillPC
  BY <1>0 DEF FillAddOutbound, FillAdd, CappedAdd, CheckCap, SendAdd, ReplacePC, FillPC
<1>4. SlotChoice(Sync)'
  BY <1>0, <1>1, <1>2, <1>3 DEF SlotChoice, KeysDiffer, RepairPC, RejoinPC, FillPC
<1>5. SlotOuts(Sync)' /\ outs' \subseteq outs \cup {<<to, Initial>>}
  <2>1. CASE FillAddOutbound
    <3>1. /\ pc[Sync] = "fill-add" /\ outs' \subseteq outs \cup {<<to, Initial>>}
          /\ \/ pc'[Sync] = "fill-add" /\ outs' = outs
             \/ pc'[Sync] \in {"fill-add-in", "fill-undo-out"}
      BY <1>0, <2>1 DEF FillAddOutbound, CappedAdd, CheckCap, SendAdd, Read, AddOutbound
    <3> QED
      BY <1>0, <1>1, <1>2, <3>1 DEF SlotOuts, Covers
  <2>2. CASE FillAdd
    <3>1. /\ outs' \subseteq outs
          /\ \/ pc[Sync] \in {"fill-add-in", "fill-add-rule"} /\ pc'[Sync] \in {"fill-add-rule", "fill-done"}
             \/ pc'[Sync] \in {"fill-undo-rule", "fill-undo-in", "fill-undo-out", "fill-failed"}
      BY <1>0, <2>2 DEF FillAdd, AddInbound, AddRule, RemoveRule, RemoveInbound, RemoveOutbound
    <3> QED
      BY <1>0, <1>1, <1>2, <3>1 DEF SlotOuts, Covers
  <2> QED
    BY <2>1, <2>2
<1>6. WarnedFit' /\ OneVariant'
  <2>1. WarnedFit'
    BY <1>1, <1>2, WarnedStays DEF SlotInv
  <2>2. OneVariant'
    BY <1>1, <1>5 DEF SlotInv, OneVariant, Initial
  <2> QED
    BY <2>1, <2>2
<1>7. pc'[Sync] \in SlotPC /\ pc'[Sync] \notin ApplyPC
  BY <1>3 DEF FillPC, SlotPC, ApplyPC
<1> QED
  BY <1>0, <1>1, <1>3, <1>4, <1>5, <1>6, <1>7, KeysMove

(* While the lock is free, saved hashes mean that memory is in order.      *)
LEMMA FreeSettled ==
  ASSUME CapInv, SlotInv, lock = Nobody, hashes # NoHash
  PROVE  Settled(cands)
<1>1. \A p \in Procs : pc[p] \in FreePC
  BY ProcFacts DEF CapInv, LockHeld, Mutating
<1>2. \A p \in Procs : pc[p] \notin SlotPC \cup ApplyPC
  BY <1>1 DEF FreePC, SlotPC, ApplyPC
<1> QED
  BY <1>2 DEF SlotInv, SavedKeys

(* A sync up to its decision.                                              *)
LEMMA SyncBeginKeys ==
  ASSUME TypeOK, CapInv, SlotInv, SyncStart \/ SyncBegin \/ SyncList
  PROVE  SlotInv'
<1> USE DEF At, Goto, Then, LockTarget, memVars, syncVars, xrayVars, slotVars, selVars
<1>0. Sync \in Procs /\ Moving(Sync) /\ pc \in [Procs -> Labels] /\ SlotChoice(Sync)
  BY ProcFacts, SyncQuietStep DEF CapInv, PcTypeOK, SlotInv
<1>1. UNCHANGED <<outs, port, cur, hashes, plan, todo, backups, added, failed, acts, from, to, cands, quarantine,
                  unreplaced>>
  BY DEF SyncStart, SyncBegin, SyncList, Read
<1>2. /\ pc[Sync] \in FreePC \cup {"sync-list"} /\ pc'[Sync] \in {"apply", "full", "sync-list", "idle", "decide"}
      /\ pc[Sync] = "sync-list" => pc'[Sync] \in {"full", "decide"}
  BY <1>0 DEF SyncStart, SyncBegin, SyncList, FreePC
<1>3. Known' = Known /\ Settled(cands)' = Settled(cands)
  BY <1>1 DEF Known, Settled, KeysDiffer, Covers
<1>4. pc'[Sync] \in {"sync-list", "decide"} => Settled(cands)
  <2>1. CASE SyncStart
    BY <1>0, <2>1 DEF SyncStart
  <2>2. CASE SyncBegin
    <3>1. pc'[Sync] \in {"sync-list", "decide"} => lock = Nobody /\ hashes # NoHash
      BY <1>0, <2>2 DEF SyncBegin
    <3> QED
      BY <3>1, FreeSettled
  <2>3. CASE SyncList
    BY <1>0, <2>3 DEF SyncList, SlotChoice
  <2> QED
    BY <2>1, <2>2, <2>3
<1>5. SlotChoice(Sync)' /\ SlotOuts(Sync)'
  BY <1>2, <1>3, <1>4 DEF SlotChoice, SlotOuts, RepairPC, RejoinPC, ReplacePC, FillPC
<1>6. WarnedFit' /\ OneVariant'
  BY <1>1, <1>3 DEF SlotInv, WarnedFit, OneVariant
<1>7. /\ pc[Sync] \notin ReplacePC /\ pc'[Sync] \notin ApplyPC
      /\ pc[Sync] \notin SlotPC \cup ApplyPC \/ pc'[Sync] \in SlotPC
  BY <1>2 DEF FreePC, ReplacePC, ApplyPC, SlotPC
<1> QED
  BY <1>0, <1>1, <1>3, <1>5, <1>6, <1>7, KeysMove

(* decide (wireguard.go): the decisions are good when they are made.       *)
LEMMA DecideKeys ==
  ASSUME TypeOK, CapInv, PortInv, FilesOK, SlotInv, DecideSlots
  PROVE  SlotInv'
<1> USE DEF At, Goto, memVars, syncVars, xrayVars
<1>0. Sync \in Procs /\ Moving(Sync) /\ pc \in [Procs -> Labels] /\ SlotChoice(Sync) /\ Mutating(Sync)
  BY ProcFacts, SyncQuietStep DEF CapInv, PcTypeOK, SlotInv, DecideSlots, Mutating, FreePC
<1>1. /\ UNCHANGED <<outs, port, cur, plan, todo, backups, added, failed, from, to, loaded, cands, quarantine, unreplaced>>
      /\ pc[Sync] = "decide" /\ pc'[Sync] = "next-act"
  BY <1>0 DEF DecideSlots
<1>2. Settled(cands) /\ Known' = Known
  BY <1>0, <1>1 DEF SlotChoice, Known
<1>3. from = 0
  <2>1. \A p \in Procs : pc[p] \notin ReplacePC
    BY <1>0, <1>1 DEF CapInv, LockHeld, Mutating, ReplacePC, FreePC
  <2> QED
    BY <2>1 DEF SlotInv, NoneUnderWay
<1>4. ActsHold'
  <2> DEFINE acted == Decide(SlotOf, N, Switchable, Ranked(loaded), quarantine, better, Config).acts
  <2>1. acts' = [t \in Tunnels |-> IF t \in Known THEN acted[t] ELSE Keep]
    BY DEF DecideSlots
  <2>2. GoodActs(acted) /\ \A t \in Known : acted[t] = Keep => t \in TagsOf(loaded)
    BY <1>1, DecideFinds, DecideGood
  <2>3. Known \subseteq Tunnels /\ TagsOf(loaded) \subseteq Tunnels /\ 0 \notin Tunnels /\ -1 \notin Tunnels
    BY FileFacts, ProcFacts DEF Known, FilesOK, Sync, Nobody, Procs
  <2> HIDE DEF acted
  <2>4. \A t \in Known : acted[t] \in {Keep, Drop} \cup TagsOf(loaded)
    BY <2>2 DEF GoodActs
  <2>5. \A t \in Known : /\ acts'[t] = acted[t]
                         /\ Final(t)' = IF acted[t] = Drop THEN 0 ELSE Fin(acted, t)
    BY <1>1, <1>3, <2>1, <2>3, <2>4 DEF Final, Fin, Successor, Keep, Drop
  <2>6. \A t \in Known : Final(t)' # 0 => t \in Live(acted) /\ Final(t)' = Fin(acted, t)
    BY <2>2, <2>3, <2>4, <2>5 DEF Live, Fin, Keep, Drop
  <2>7. Due' \subseteq Known \ {0}
    BY <2>1, <2>3 DEF Due
  <2>8. ASSUME NEW t \in Known, Final(t)' # 0
        PROVE  Final(t)' \in TagsOf(loaded) /\ (t \in Due' => Eligibly(Final(t))')
    <3>1. Final(t)' \in TagsOf(loaded)
      BY <2>6, <2>8 DEF Live
    <3>2. ASSUME t \in Due'
          PROVE  Eligibly(Final(t))'
      <4>1. acted[t] # Keep /\ acted[t] # Drop /\ Final(t)' = acted[t]
        BY <2>5, <2>8, <3>2 DEF Due, Fin
      <4>2. acted[t] \in TagsOf(loaded) /\ acted[t] \notin Known /\ Pair(CandidateOf(acted[t])) \notin quarantine
        BY <2>2, <2>4, <4>1 DEF GoodActs
      <4> QED
        BY <1>1, <1>2, <2>3, <4>1, <4>2 DEF Eligibly
    <3> QED
      BY <3>1, <3>2
  <2>9. \A t, u \in Known : Final(t)' # 0 /\ Final(u)' # 0 /\ KeyOf(Final(t)') = KeyOf(Final(u)') => t = u
    BY <2>2, <2>6 DEF GoodActs
  <2> QED
    BY <1>1, <1>2, <1>3, <2>3, <2>7, <2>8, <2>9 DEF ActsHold
<1>5. SlotChoice(Sync)' /\ SlotOuts(Sync)'
  BY <1>1, <1>2, <1>3, <1>4 DEF SlotChoice, SlotOuts, Settled, Covers, RepairPC, RejoinPC, ReplacePC, FillPC
<1>6. WarnedFit' /\ OneVariant'
  BY <1>1, <1>2 DEF SlotInv, WarnedFit, OneVariant
<1>7. pc'[Sync] \in SlotPC /\ pc'[Sync] \notin ApplyPC
  BY <1>1 DEF SlotPC, ApplyPC
<1> QED
  BY <1>0, <1>1, <1>3, <1>5, <1>6, <1>7, KeysMove

(* The next action of decide takes over the slot, or all are done.         *)
LEMMA NextActKeys ==
  ASSUME TypeOK, CapInv, PortInv, SlotInv, NextAct
  PROVE  SlotInv'
<1> USE DEF At, Goto, memVars, syncVars, xrayVars, selVars
<1>0. /\ Sync \in Procs /\ Moving(Sync) /\ pc \in [Procs -> Labels] /\ Mutating(Sync)
      /\ SlotChoice(Sync) /\ SlotOuts(Sync) /\ pc[Sync] = "next-act"
  BY ProcFacts, SyncQuietStep DEF CapInv, PcTypeOK, SlotInv, NextAct, Mutating, FreePC
<1>1. UNCHANGED <<outs, port, cur, plan, todo, backups, added, failed, loaded, cands, quarantine, unreplaced>>
  BY DEF NextAct
<1>2. from = 0 /\ ActsHold /\ Covers(Known) /\ Known' = Known /\ Known \subseteq Tunnels /\ 0 \notin Tunnels
  BY <1>0, <1>1, ProcFacts DEF SlotChoice, SlotOuts, Known, Sync
<1>3. WarnedFit' /\ OneVariant'
  BY <1>1, <1>2 DEF SlotInv, WarnedFit, OneVariant
<1>4. CASE Due = {} /\ pc'[Sync] = "fill" /\ UNCHANGED slotVars
  <2>1. \A t \in Known : Final(t) = t /\ t # 0
    BY <1>2, <1>4 DEF Final, Due
  <2>2. KeysDiffer(Known) /\ Known \subseteq TagsOf(loaded)
    BY <1>2, <2>1 DEF ActsHold, KeysDiffer
  <2>3. SlotChoice(Sync)' /\ SlotOuts(Sync)'
    BY <1>1, <1>2, <1>4, <2>2 DEF SlotChoice, SlotOuts, KeysDiffer, Covers, RepairPC, RejoinPC, ReplacePC, FillPC
  <2>4. from' = 0 /\ pc'[Sync] \in SlotPC /\ pc'[Sync] \notin ApplyPC
    BY <1>2, <1>4 DEF slotVars, SlotPC, ApplyPC
  <2> QED
    BY <1>0, <1>3, <2>3, <2>4, KeysMove
<1>5. ASSUME NEW t \in Due, from' = t, to' = Successor(acts[t]), acts' = [acts EXCEPT ![t] = Keep],
             pc'[Sync] = "slot-rm-rule"
      PROVE  SlotInv'
  <2>1. t \in Known /\ acts \in Acted /\ acts[t] # Keep
    BY <1>2, <1>5 DEF ActsHold, Due, TypeOK, SlotTypeOK
  <2>2. Due' = Due \ {t}
    BY <1>5, <2>1 DEF Due, Acted
  <2>3. \A u \in Known : Final(u)' = Final(u)
    BY <1>2, <1>5, <2>1 DEF Final, Acted
  <2>4. ActsHold'
    <3>1. \A u \in Known : Eligibly(Final(u))' <=> Eligibly(Final(u))
      BY <1>1, <1>2, <2>3 DEF Eligibly
    <3>2. Due' \subseteq Known' \ {from'}
      BY <1>2, <1>5, <2>2 DEF ActsHold
    <3>3. ASSUME NEW u \in Known, Final(u)' # 0
          PROVE  Final(u)' \in TagsOf(loaded) /\ (u \in Due' \cup {from'} => Eligibly(Final(u))')
      BY <1>2, <1>5, <2>2, <2>3, <3>1, <3>3 DEF ActsHold
    <3>4. \A u, v \in Known : Final(u)' # 0 /\ Final(v)' # 0 /\ KeyOf(Final(u)') = KeyOf(Final(v)') => u = v
      BY <1>2, <2>3 DEF ActsHold
    <3> QED
      BY <1>1, <1>2, <3>2, <3>3, <3>4 DEF ActsHold
  <2>5. SlotChoice(Sync)' /\ SlotOuts(Sync)'
    BY <1>1, <1>2, <1>5, <2>1, <2>4 DEF SlotChoice, SlotOuts, Covers, RepairPC, RejoinPC, ReplacePC, FillPC
  <2>6. pc'[Sync] \in ReplacePC /\ pc'[Sync] \in SlotPC /\ pc'[Sync] \notin ApplyPC
    BY <1>5 DEF ReplacePC, SlotPC, ApplyPC
  <2> QED
    BY <1>0, <1>3, <2>5, <2>6, KeysMove
<1> QED
  BY <1>0, <1>4, <1>5 DEF NextAct

(* fill: the candidate for an empty slot is good when it is chosen; at the *)
(* end the tunnels of memory are candidates of the file it stores.         *)
LEMMA FillNextKeys ==
  ASSUME TypeOK, CapInv, FilesOK, SlotInv, FillNext
  PROVE  SlotInv'
<1> USE DEF At, Goto, memVars, xrayVars
<1>0. /\ Sync \in Procs /\ Moving(Sync) /\ pc \in [Procs -> Labels] /\ Mutating(Sync)
      /\ SlotChoice(Sync) /\ SlotOuts(Sync) /\ pc[Sync] = "fill" /\ pc[Sync] \notin ReplacePC
  BY ProcFacts, SyncQuietStep DEF CapInv, PcTypeOK, SlotInv, FillNext, Mutating, FreePC, ReplacePC
<1>1. UNCHANGED <<outs, port, cur, quarantine, unreplaced>>
  BY DEF FillNext
<1>2. KeysDiffer(Known) /\ Known \subseteq TagsOf(loaded) /\ Covers(Known) /\ Known' = Known
  BY <1>0, <1>1 DEF SlotChoice, SlotOuts, Known
<1>3. WarnedFit'
  BY <1>1, <1>2 DEF SlotInv, WarnedFit
<1>4. CASE SyncEnd(loaded)
  <2>1. pc'[Sync] = "idle" /\ cands' = loaded /\ todo' = {} /\ backups' = {} /\ from' = 0
    BY <1>0, <1>4 DEF SyncEnd, Unlock
  <2>2. Settled(cands)'
    BY <1>1, <1>2, <2>1 DEF Settled, KeysDiffer, Covers
  <2>3. SlotChoice(Sync)' /\ SlotOuts(Sync)' /\ pc'[Sync] \notin ApplyPC
    BY <2>1 DEF SlotChoice, SlotOuts, RepairPC, RejoinPC, ReplacePC, FillPC, ApplyPC
  <2>4. OneVariant'
    BY <1>1, <2>1 DEF SlotInv, OneVariant
  <2> QED
    BY <1>0, <1>3, <2>1, <2>2, <2>3, <2>4, KeysMove
<1>5. CASE ~SyncEnd(loaded)
  <2> DEFINE keys == KeysOf(loaded, Known)
             free == Allowed(Ranked(loaded), Known, keys, quarantine)
  <2>1. /\ Cardinality(Known) < MaxActive /\ free # {} /\ to' = Best(free, Ranked(loaded)).tag
        /\ pc'[Sync] = "fill-add" /\ UNCHANGED <<plan, todo, backups, added, failed, loaded, cands, acts, from>>
    BY <1>0, <1>5 DEF FillNext, syncVars
  <2>2. /\ to' \in TagsOf(loaded) /\ to' \in Tunnels \ Known /\ KeyOf(to') \notin keys
        /\ Pair(CandidateOf(to')) \notin quarantine
    BY <2>1, ChoiceGood DEF FilesOK
  <2>3. \A t \in Known : KeyOf(t) \in keys
    BY <1>2, FileFacts DEF TagsOf, KeysOf, FilesOK
  <2> HIDE DEF keys, free
  <2>4. \A t \in Known : KeyOf(t) # KeyOf(to')
    BY <2>2, <2>3
  <2>5. FillHolds'
    BY <1>1, <1>2, <2>1, <2>2, <2>4 DEF FillHolds, Eligibly
  <2>6. SlotChoice(Sync)' /\ SlotOuts(Sync)'
    BY <1>1, <1>2, <2>1, <2>5 DEF SlotChoice, SlotOuts, KeysDiffer, Covers, RepairPC, RejoinPC, ReplacePC, FillPC
  <2>7. OneVariant' /\ pc'[Sync] \in SlotPC /\ pc'[Sync] \notin ApplyPC
    BY <1>1, <2>1 DEF SlotInv, OneVariant, SlotPC, ApplyPC
  <2> QED
    BY <1>0, <1>3, <2>1, <2>6, <2>7, KeysMove
<1> QED
  BY <1>4, <1>5

(* A filled slot: the warnings make room for the new tunnel.               *)
LEMMA FillEndKeys ==
  ASSUME TypeOK, CapInv, PortInv, SlotInv, FillEnd
  PROVE  SlotInv'
<1> USE DEF At, Goto, xrayVars
<1>0. /\ Sync \in Procs /\ Moving(Sync) /\ pc \in [Procs -> Labels] /\ Mutating(Sync)
      /\ SlotChoice(Sync) /\ SlotOuts(Sync) /\ SlotPorts(Sync) /\ pc[Sync] \notin ReplacePC
  BY ProcFacts, SyncQuietStep DEF CapInv, PcTypeOK, SlotInv, PortInv, FillEnd, Mutating, FreePC, ReplacePC
<1>1. UNCHANGED <<outs, quarantine>>
  BY DEF FillEnd
<1>2. CASE /\ At(Sync, "fill-done") /\ ReplaceSourceTunnel(0, to, at, FALSE) /\ Unwarn(to) /\ Goto(Sync, "fill")
           /\ from' = 0 /\ to' = 0 /\ UNCHANGED <<syncVars, loaded, cands, acts>>
  <2>1. /\ FillHolds /\ KeysDiffer(Known) /\ Known \subseteq TagsOf(loaded) /\ Covers(Known \cup {to})
        /\ \A t \in Tunnels : port[t] # at
    BY <1>0, <1>2 DEF SlotChoice, SlotOuts, SlotPorts, FillPC
  <2>2. to \in Tunnels \ Known /\ to \in TagsOf(loaded) /\ \A t \in Known : KeyOf(t) # KeyOf(to)
    BY <2>1 DEF FillHolds, Eligibly
  <2>3. at # 0 /\ Known' = Known \cup {to}
    <3>1. port[to] = 0 /\ at # 0
      BY <2>1, <2>2 DEF Known
    <3> QED
      BY <1>2, <2>2, <3>1, ProcFacts DEF ReplaceSourceTunnel, Known, Sync
  <2>4. KeysDiffer(Known)' /\ Known' \subseteq TagsOf(loaded)' /\ Covers(Known)'
    BY <1>1, <1>2, <2>1, <2>2, <2>3 DEF KeysDiffer, Covers
  <2>5. pc'[Sync] = "fill"
    BY <1>0, <1>2
  <2>6. SlotChoice(Sync)' /\ SlotOuts(Sync)' /\ pc'[Sync] \in SlotPC /\ pc'[Sync] \notin ApplyPC
    BY <2>4, <2>5 DEF SlotChoice, SlotOuts, RepairPC, RejoinPC, ReplacePC, FillPC, SlotPC, ApplyPC
  <2>7. WarnedFit'
    <3>1. CASE to \in unreplaced
      BY <1>2, <2>3, <3>1, WarnedStays DEF Unwarn, SlotInv
    <3>2. CASE to \notin unreplaced /\ unreplaced \ Known = {} /\ UNCHANGED unreplaced
      <4>1. unreplaced' \cup Known' = Known \cup {to} /\ to \notin Known
        BY <2>2, <2>3, <3>2
      <4>2. Cardinality(Known \cup {to}) = Cardinality(Known) + 1
        BY <4>1, KnownFinite, FS_AddElement
      <4> QED
        <5>1. Cardinality(Known) < MaxActive /\ Cardinality(Known) \in Nat /\ MaxActive \in Nat
          BY <2>1, KnownFinite, FS_CardinalityType, CandidateAssumption DEF FillHolds
        <5>2. Cardinality(unreplaced' \cup Known') = Cardinality(Known) + 1
          BY <4>1, <4>2
        <5> QED
          BY <5>1, <5>2 DEF WarnedFit
    <3>3. ASSUME NEW t \in unreplaced \ Known, unreplaced' = unreplaced \ {t}
          PROVE  WarnedFit'
      <4>1. t \in unreplaced \cup Known /\ unreplaced' \cup Known' \subseteq ((unreplaced \cup Known) \ {t}) \cup {to}
        BY <2>3, <3>3
      <4> QED
        BY <4>1, WarnedSwaps DEF SlotInv
    <3> QED
      BY <1>2, <3>1, <3>2, <3>3 DEF Unwarn
  <2>8. OneVariant'
    BY <1>1, <1>2 DEF SlotInv, OneVariant, ReplaceSourceTunnel, Restarted, Initial, syncVars
  <2> QED
    BY <1>0, <1>2, <2>6, <2>7, <2>8, KeysMove
<1>3. CASE /\ At(Sync, "fill-failed") /\ hashes' = NoHash /\ SyncEnd(loaded)
           /\ UNCHANGED <<port, cur, mon, repairErr, unreplaced, fails>>
  <2>1. pc'[Sync] = "idle" /\ todo' = {} /\ backups' = {} /\ from' = 0
    BY <1>0, <1>3 DEF SyncEnd, Unlock
  <2>2. SlotChoice(Sync)' /\ SlotOuts(Sync)' /\ pc'[Sync] \notin ApplyPC
    BY <2>1 DEF SlotChoice, SlotOuts, RepairPC, RejoinPC, ReplacePC, FillPC, ApplyPC
  <2>3. WarnedFit' /\ OneVariant'
    BY <1>1, <1>3, <2>1 DEF SlotInv, WarnedFit, Known, OneVariant
  <2> QED
    BY <1>0, <1>3, <2>1, <2>2, <2>3, KeysMove
<1> QED
  BY <1>2, <1>3 DEF FillEnd

-----------------------------------------------------------------------------
(* ReplaceSourceTunnel (memory.go): tunnel old leaves memory, tunnel new   *)
(* joins it.                                                               *)
LEMMA SlotMemory ==
  ASSUME SlotInv, NEW old, NEW new, NEW p, NEW reset, ReplaceSourceTunnel(old, new, p, reset),
         p # 0 \/ new \notin Tunnels, outs' = outs, todo' \subseteq todo, backups' \subseteq backups
  PROVE  Known' = (Known \ {old}) \cup (Tunnels \cap {new}) /\ OneVariant'
<1>1. Known' = (Known \ {old}) \cup (Tunnels \cap {new})
  BY DEF ReplaceSourceTunnel, Known
<1>2. \A t \in Tunnels : cur'[t] \in {cur[t], Initial}
  BY DEF ReplaceSourceTunnel, Restarted
<1>3. OneVariant'
  BY <1>2 DEF SlotInv, OneVariant, Initial
<1> QED
  BY <1>1, <1>3

(* A slot that is done: the tunnels of memory keep keys of their own.      *)
LEMMA SlotEndKeys ==
  ASSUME TypeOK, CapInv, PortInv, SlotInv, SlotEndSync
  PROVE  SlotInv'
<1> USE DEF At, Goto, xrayVars
<1>0. /\ Sync \in Procs /\ Moving(Sync) /\ pc \in [Procs -> Labels] /\ Mutating(Sync)
      /\ SlotChoice(Sync) /\ SlotOuts(Sync) /\ SlotPorts(Sync) /\ pc[Sync] \in ReplacePC
  BY ProcFacts, SyncQuietStep DEF CapInv, PcTypeOK, SlotInv, PortInv, SlotEndSync, Mutating, FreePC, ReplacePC
<1>1. /\ UNCHANGED <<outs, quarantine>> /\ 0 \notin Tunnels
      /\ from \in Known /\ ActsHold /\ at = port[from] /\ at # 0
  BY <1>0, ProcFacts DEF SlotEndSync, SlotChoice, SlotPorts, Sync, Known
<1>2. CASE /\ pc[Sync] = "slot-done" /\ ReplaceSourceTunnel(from, to, at, FALSE) /\ pc'[Sync] = "next-act"
           /\ unreplaced' = IF to = 0 THEN unreplaced \cup {from} ELSE unreplaced \ {from}
           /\ from' = 0 /\ to' = 0 /\ UNCHANGED <<syncVars, loaded, cands, acts>>
  <2>1. /\ Covers((Known \ {from}) \cup {to}) /\ outs \subseteq Tags
        /\ to # 0 => to \in TagsOf(loaded) /\ Eligibly(to)
    BY <1>0, <1>1, <1>2 DEF SlotOuts, ActsHold, Final, TypeOK, TargetTypeOK, XrayTypeOK
  <2>2. Known' = (Known \ {from}) \cup (Tunnels \cap {to}) /\ OneVariant'
    BY <1>1, <1>2, SlotMemory DEF syncVars
  <2>3. Covers(Known)'
    BY <1>1, <2>1, <2>2 DEF Covers, Tags
  <2>4. ActsHold'
    <3>1. Due' = Due /\ Due \subseteq Known \ {from} /\ (to # 0 => to \in Tunnels \ Known)
      BY <1>1, <1>2, <2>1 DEF Due, ActsHold, Eligibly
    <3>2. Due' \subseteq Known' \ {from'}
      BY <1>1, <1>2, <2>2, <3>1 DEF Due
    <3>3. \A t \in Tunnels : t # from /\ t # to => Final(t)' = Final(t)
      BY <1>1, <1>2 DEF Final
    <3>4. Final(from) = to /\ (\A t \in Tunnels : t = to => Final(t)' = to)
      BY <1>1, <1>2, <3>1 DEF Final, Due
    <3>5. \A t \in Known' : \E u \in Known : /\ Final(t)' = Final(u)
                                            /\ \/ t = u /\ t # from
                                               \/ u = from /\ t = to /\ to # 0
      <4> SUFFICES ASSUME NEW t \in Known'
                   PROVE  \E u \in Known : /\ Final(t)' = Final(u)
                                           /\ \/ t = u /\ t # from
                                              \/ u = from /\ t = to /\ to # 0
        OBVIOUS
      <4>1. t \in Tunnels
        BY DEF Known
      <4>2. CASE t = to
        BY <1>1, <3>4, <4>1, <4>2
      <4>3. CASE t # to
        BY <1>1, <2>2, <3>3, <4>1, <4>3
      <4> QED
        BY <4>2, <4>3
    <3>6. ASSUME NEW t \in Known', Final(t)' # 0
          PROVE  Final(t)' \in TagsOf(loaded) /\ (t \in Due' \cup {from'} => Eligibly(Final(t))')
      <4>1. PICK u \in Known : Final(t)' = Final(u) /\ ((t = u /\ t # from) \/ (u = from /\ t = to /\ to # 0))
        BY <3>5
      <4>2. Final(u) # 0 /\ Final(u) \in TagsOf(loaded)
        BY <1>1, <3>6, <4>1 DEF ActsHold
      <4>3. ASSUME t \in Due' \cup {from'}
            PROVE  Eligibly(Final(t))'
        <5>1. t \in Due /\ t = u /\ t # from
          BY <1>1, <1>2, <3>1, <4>1, <4>3 DEF Known
        <5>2. Eligibly(Final(u))
          BY <1>1, <4>2, <5>1 DEF ActsHold
        <5>3. Final(u) # to
          BY <4>2, <5>1, <3>4, <1>1 DEF ActsHold
        <5> QED
          BY <1>1, <2>2, <4>1, <5>2, <5>3 DEF Eligibly
      <4> QED
        BY <4>1, <4>2, <4>3
    <3>7. ASSUME NEW s \in Known', NEW t \in Known',
                 Final(s)' # 0, Final(t)' # 0, KeyOf(Final(s)') = KeyOf(Final(t)')
          PROVE  s = t
      <4>1. PICK u \in Known : Final(s)' = Final(u) /\ ((s = u /\ s # from) \/ (u = from /\ s = to /\ to # 0))
        BY <3>5
      <4>2. PICK v \in Known : Final(t)' = Final(v) /\ ((t = v /\ t # from) \/ (v = from /\ t = to /\ to # 0))
        BY <3>5
      <4>3. u = v
        BY <1>1, <3>7, <4>1, <4>2 DEF ActsHold
      <4> QED
        BY <4>1, <4>2, <4>3
    <3> QED
      BY <1>2, <3>2, <3>6, <3>7 DEF ActsHold
  <2>5. SlotChoice(Sync)' /\ SlotOuts(Sync)' /\ pc'[Sync] \in SlotPC /\ pc'[Sync] \notin ApplyPC
    BY <1>2, <2>3, <2>4 DEF SlotChoice, SlotOuts, RepairPC, RejoinPC, ReplacePC, FillPC, SlotPC, ApplyPC
  <2>6. WarnedFit'
    <3>1. CASE to = 0
      BY <1>1, <1>2, <2>2, <3>1, WarnedStays DEF SlotInv
    <3>2. CASE to # 0
      <4>1. from \in unreplaced \cup Known /\ unreplaced' \cup Known' \subseteq ((unreplaced \cup Known) \ {from}) \cup {to}
        BY <1>1, <1>2, <2>2, <3>2
      <4> QED
        BY <4>1, WarnedSwaps DEF SlotInv
    <3> QED
      BY <3>1, <3>2
  <2> QED
    BY <1>0, <1>2, <2>2, <2>5, <2>6, KeysMove
<1>3. CASE /\ pc[Sync] = "slot-failed" /\ ReplaceSourceTunnel(from, 0, 0, TRUE)
           /\ unreplaced' = unreplaced \ {from} /\ SyncEnd(loaded)
  <2>1. pc'[Sync] = "idle" /\ todo' = {} /\ backups' = {} /\ from' = 0 /\ hashes' = NoHash
    BY <1>0, <1>3 DEF SyncEnd, Unlock, ReplaceSourceTunnel
  <2>2. Known' = (Known \ {from}) \cup (Tunnels \cap {0}) /\ OneVariant'
    BY <1>1, <1>3, <2>1, SlotMemory
  <2>3. WarnedFit'
    BY <1>1, <1>3, <2>2, WarnedStays DEF SlotInv
  <2>4. SlotChoice(Sync)' /\ SlotOuts(Sync)' /\ pc'[Sync] \notin ApplyPC
    BY <2>1 DEF SlotChoice, SlotOuts, RepairPC, RejoinPC, ReplacePC, FillPC, ApplyPC
  <2> QED
    BY <1>0, <2>1, <2>2, <2>3, <2>4, KeysMove
<1> QED
  BY <1>0, <1>2, <1>3 DEF SlotEndSync

(* ReplaceFailed (wireguard.go) chooses among the candidates of the last   *)
(* sync, and its choice stays good until it is recorded.                   *)
LEMMA ReplaceKeys ==
  ASSUME TypeOK, CapInv, PortInv, FilesOK, SlotInv, NEW w \in Tunnels,
         \/ ReplaceSkip(w) \/ ReplaceBegin(w) \/ ReplaceList(w) \/ ReplaceChoose(w) \/ ReplaceEnd(w)
  PROVE  SlotInv'
<1> USE DEF At, Goto, LockTarget, Unlock, xrayVars
<1>0. /\ w \in Procs /\ w # Sync /\ Moving(w) /\ pc \in [Procs -> Labels]
      /\ SlotChoice(w) /\ SlotOuts(w) /\ SlotPorts(w) /\ 0 \notin Tunnels
  BY ProcFacts, ReplaceQuietStep DEF CapInv, PcTypeOK, SlotInv, PortInv, Sync
<1>1. UNCHANGED <<outs, plan, todo, backups, added, failed, acts, loaded, cands>>
  BY DEF ReplaceSkip, ReplaceBegin, ReplaceList, ReplaceChoose, ReplaceEnd, Read, syncVars, selVars, slotVars
<1>2. CASE ReplaceSkip(w) \/ ReplaceBegin(w) \/ ReplaceList(w)
  <2>1. UNCHANGED <<port, cur, from, to, quarantine, unreplaced>> /\ Known' = Known
    BY <1>2 DEF ReplaceSkip, ReplaceBegin, ReplaceList, memVars, selVars, slotVars, Known
  <2>2. /\ pc[w] \in {"replace", "replace-list"} /\ pc'[w] \in {"idle", "repair", "replace-list", "replace-choose"}
        /\ pc'[w] = "replace-list" => port[w] # 0 /\ lock = Nobody /\ hashes # NoHash
        /\ pc'[w] = "replace-choose" => pc[w] = "replace-list"
        /\ pc[w] = "replace" => hashes' = hashes
    BY <1>0, <1>2 DEF ReplaceSkip, ReplaceBegin, ReplaceList, memVars
  <2>3. Settled(cands)' <=> Settled(cands)
    BY <1>1, <2>1 DEF Settled, KeysDiffer, Covers
  <2>4. /\ pc'[w] \in {"replace-list", "replace-choose"} => w \in Known /\ Settled(cands)
        /\ pc[w] = "replace-list" => Settled(cands)
    BY <1>0, <2>2, FreeSettled DEF SlotChoice, Known
  <2>5. SlotChoice(w)' /\ SlotOuts(w)'
    BY <1>0, <2>1, <2>2, <2>3, <2>4 DEF SlotChoice, SlotOuts, RepairPC, RejoinPC, ReplacePC, FillPC
  <2>6. WarnedFit' /\ OneVariant'
    BY <1>1, <2>1 DEF SlotInv, WarnedFit, OneVariant
  <2>7. /\ pc[w] \notin ReplacePC /\ (pc[w] = "replace" => pc[w] \notin SlotPC \cup ApplyPC)
    BY <2>2 DEF ReplacePC, SlotPC, ApplyPC
  <2> QED
    BY <1>0, <1>1, <2>1, <2>2, <2>3, <2>4, <2>5, <2>6, <2>7, KeysMove
<1>3. CASE ReplaceChoose(w)
  <2> DEFINE keys == KeysOf(cands, Known \ {w})
             free == Allowed(Ranked(cands), Known, keys, quarantine')
  <2>1. /\ UNCHANGED <<port, cur, hashes>> /\ Known' = Known /\ pc[w] = "replace-choose" /\ Mutating(w)
        /\ \/ UNCHANGED <<from, to>> /\ unreplaced' = unreplaced \cup {w} /\ pc'[w] = "repair"
           \/ /\ free # {} /\ from' = w /\ to' = Best(free, Ranked(cands)).tag
              /\ unreplaced' = unreplaced /\ pc'[w] = "slot-rm-rule"
    BY <1>0, <1>3 DEF ReplaceChoose, memVars, Known, Mutating, FreePC
  <2>2. w \in Known /\ Settled(cands)
    BY <1>0, <2>1 DEF SlotChoice
  <2>3. Settled(cands)'
    BY <1>1, <2>1, <2>2 DEF Settled, KeysDiffer, Covers
  <2>4. free # {} => LET t == Best(free, Ranked(cands)).tag IN
                       /\ t \in TagsOf(cands) /\ t \in Tunnels \ Known /\ KeyOf(t) \notin keys
                       /\ Pair(CandidateOf(t)) \notin quarantine'
    BY ChoiceGood DEF FilesOK
  <2>5. \A t \in Known \ {w} : KeyOf(t) \in keys
    BY <2>2, FileFacts DEF Settled, TagsOf, KeysOf, FilesOK
  <2> HIDE DEF keys, free
  <2>6. pc'[w] = "slot-rm-rule" => from' = w /\ WorkerHolds'
    <3> SUFFICES ASSUME pc'[w] = "slot-rm-rule"
                 PROVE  from' = w /\ WorkerHolds'
      OBVIOUS
    <3>1. /\ from' = w /\ to' \in TagsOf(cands) /\ to' \in Tunnels \ Known /\ KeyOf(to') \notin keys
          /\ Pair(CandidateOf(to')) \notin quarantine'
      BY <2>1, <2>4
    <3>2. \A t \in Known \ {w} : KeyOf(t) # KeyOf(to')
      BY <2>5, <3>1
    <3> QED
      BY <1>1, <2>1, <2>2, <3>1, <3>2 DEF WorkerHolds, Eligibly, Settled, KeysDiffer
  <2>7. SlotChoice(w)' /\ SlotOuts(w)'
    BY <1>0, <1>1, <2>1, <2>2, <2>6 DEF SlotChoice, SlotOuts, Settled, Covers, RepairPC, RejoinPC, ReplacePC, FillPC
  <2>8. WarnedFit'
    BY <2>1, <2>2, WarnedStays DEF SlotInv
  <2>9. OneVariant'
    BY <1>1, <2>1 DEF SlotInv, OneVariant
  <2>10. pc[w] \notin ReplacePC /\ (pc'[w] \in ReplacePC \/ from' = from)
    BY <2>1 DEF ReplacePC
  <2> QED
    BY <1>0, <1>1, <2>1, <2>3, <2>7, <2>8, <2>9, <2>10, KeysMove
<1>4. CASE ReplaceEnd(w)
  <2>1. /\ pc[w] \in ReplacePC /\ Mutating(w) /\ pc'[w] = "idle" /\ from' = 0 /\ unreplaced' = unreplaced \ {from}
        /\ UNCHANGED quarantine
    BY <1>0, <1>4 DEF ReplaceEnd, ReplacePC, Mutating, FreePC
  <2>2. from \in Known /\ WorkerHolds /\ at = port[from] /\ at # 0
    BY <1>0, <2>1 DEF SlotChoice, SlotPorts, Known
  <2>3. to \in Tunnels \ Known /\ from \in unreplaced \cup Known
    BY <2>2 DEF WorkerHolds, Eligibly
  <2>4. SlotChoice(w)' /\ SlotOuts(w)'
    BY <2>1 DEF SlotChoice, SlotOuts, RepairPC, RejoinPC, ReplacePC, FillPC
  <2>5. CASE pc[w] = "slot-done" /\ ReplaceSourceTunnel(from, to, at, FALSE)
    <3>1. Known' = (Known \ {from}) \cup (Tunnels \cap {to}) /\ OneVariant'
      BY <1>1, <2>2, <2>5, SlotMemory
    <3>2. Covers((Known \ {from}) \cup {to})
      BY <1>0, <2>5 DEF SlotOuts
    <3>3. Settled(cands)'
      BY <1>1, <2>2, <2>3, <3>1, <3>2 DEF Settled, WorkerHolds, KeysDiffer, Covers
    <3>4. WarnedFit'
      <4>1. unreplaced' \cup Known' \subseteq ((unreplaced \cup Known) \ {from}) \cup {to}
        BY <2>1, <3>1
      <4> QED
        BY <2>3, <4>1, WarnedSwaps DEF SlotInv
    <3> QED
      BY <1>0, <1>1, <2>1, <2>4, <3>1, <3>3, <3>4, KeysMove
  <2>6. CASE pc[w] = "slot-failed" /\ ReplaceSourceTunnel(from, 0, 0, TRUE)
    <3>1. Known' = (Known \ {from}) \cup (Tunnels \cap {0}) /\ OneVariant'
      BY <1>0, <1>1, <2>6, SlotMemory
    <3>2. hashes' = NoHash
      BY <2>6 DEF ReplaceSourceTunnel
    <3>3. WarnedFit'
      BY <1>0, <2>1, <3>1, WarnedStays DEF SlotInv
    <3> QED
      BY <1>0, <1>1, <2>1, <2>4, <3>1, <3>2, <3>3, KeysMove
  <2> QED
    BY <1>4, <2>5, <2>6 DEF ReplaceEnd
<1> QED
  BY <1>2, <1>3, <1>4

-----------------------------------------------------------------------------
(* The full apply.                                                         *)

(* full (wireguard.go): the plan of a full apply has candidates of the     *)
(* file outside quarantine, of different keys.                             *)
LEMMA FullBeginKeys ==
  ASSUME TypeOK, CapInv, FilesOK, SlotInv, FullBegin
  PROVE  SlotInv'
<1> USE DEF At, Goto
<1> DEFINE ranked == Ranked(Eligible)
           picked == Pick(ranked, MaxActive)
<1>0. /\ Sync \in Procs /\ Moving(Sync) /\ pc \in [Procs -> Labels] /\ Mutating(Sync)
      /\ pc[Sync] = "full" /\ pc'[Sync] = "out-list"
  BY ProcFacts, SyncQuietStep DEF CapInv, PcTypeOK, FullBegin, Mutating, FreePC
<1>1. /\ UNCHANGED <<outs, port, cur, todo, backups, added, failed, acts, from, to, loaded, cands, quarantine, unreplaced>>
      /\ plan' = [t \in Tunnels |-> IF t \in TagsOf(picked) THEN Seat(ByTag(t, ranked), ranked) ELSE 0]
  BY DEF FullBegin, xrayVars, memVars, selVars, slotVars
<1>2. /\ \A t \in TagsOf(picked) : ByTag(t, ranked) \in picked /\ Seat(ByTag(t, ranked), ranked) # 0
      /\ \A c, d \in picked : c.key = d.key => c = d
      /\ \A c \in picked : c \in loaded /\ Pair(c) \notin quarantine
      /\ IsFiniteSet(picked) /\ Cardinality(picked) <= MaxActive
  BY FullPicks
<1> HIDE DEF ranked, picked
<1>3. \A c \in picked : /\ KeyOf(c.tag) = c.key /\ Pair(CandidateOf(c.tag)) = Pair(c)
                        /\ c.tag \in TagsOf(loaded) /\ c.tag \in Tunnels
  BY <1>2, FileFacts DEF FilesOK
<1>4. Planned' = TagsOf(picked)
  BY <1>1, <1>2, <1>3 DEF Planned, TagsOf
<1>5. KeysDiffer(Planned)' /\ Planned' \subseteq TagsOf(loaded)'
  BY <1>1, <1>2, <1>3, <1>4 DEF KeysDiffer, TagsOf
<1>6. Cardinality(Planned') <= MaxActive
  <2>1. IsFiniteSet(TagsOf(picked)) /\ Cardinality(TagsOf(picked)) <= Cardinality(picked)
    <3> DEFINE tag == [c \in picked |-> c.tag]
    <3>1. tag \in Surjection(picked, TagsOf(picked))
      BY DEF Surjection, TagsOf
    <3> HIDE DEF tag
    <3> QED
      BY <1>2, <3>1, FS_Surjection
  <2>2. Cardinality(TagsOf(picked)) \in Nat /\ Cardinality(picked) \in Nat /\ MaxActive \in Nat
    BY <1>2, <2>1, FS_CardinalityType, CandidateAssumption
  <2> QED
    BY <1>2, <1>4, <2>1, <2>2
<1>7. \A t \in Planned' : Pair(CandidateOf(t))' \notin quarantine'
  BY <1>1, <1>2, <1>3, <1>4 DEF TagsOf
<1>8. PlanHolds'
  BY <1>5, <1>6, <1>7 DEF PlanHolds
<1>9. PlanOuts' /\ SavedKeys'
  BY <1>0 DEF PlanOuts, SavedKeys, ApplyPC
<1>10. /\ \A q \in Procs \ {Sync} : SlotChoice(q)' /\ SlotOuts(q)' /\ pc'[q] = pc[q] /\ pc'[q] \in FreePC
       /\ SlotChoice(Sync)' /\ SlotOuts(Sync)'
  BY <1>0, OthersKeys DEF SlotChoice, SlotOuts, RepairPC, RejoinPC, ReplacePC, FillPC
<1>11. WarnedFit' /\ OneVariant'
  BY <1>1 DEF SlotInv, WarnedFit, OneVariant, Known
<1>12. NoneUnderWay'
  BY <1>0, <1>1, <1>10 DEF SlotInv, NoneUnderWay, ReplacePC
<1> QED
  BY <1>8, <1>9, <1>10, <1>11, <1>12 DEF SlotInv

(* The full apply is over: memory has the tunnels of the plan, or none.    *)
LEMMA FullEndKeys ==
  ASSUME TypeOK, CapInv, SlotInv, FullEnd
  PROVE  SlotInv'
<1> USE DEF At, Goto
<1>0. /\ Sync \in Procs /\ Moving(Sync) /\ pc \in [Procs -> Labels] /\ Mutating(Sync)
      /\ pc[Sync] = "commit"
  BY ProcFacts, SyncQuietStep DEF CapInv, PcTypeOK, FullEnd, Mutating, FreePC
<1>1. /\ pc'[Sync] = "idle" /\ UNCHANGED <<outs, quarantine>> /\ cands' = loaded /\ from' = 0
      /\ todo' = {} /\ backups' = {}
  BY <1>0 DEF FullEnd, SyncEnd, Unlock, xrayVars
<1>2. SlotChoice(Sync)' /\ SlotOuts(Sync)' /\ pc'[Sync] \notin ApplyPC
  BY <1>1 DEF SlotChoice, SlotOuts, RepairPC, RejoinPC, ReplacePC, FillPC, ApplyPC
<1>3. OneVariant'
  BY <1>1 DEF SlotInv, OneVariant, FullEnd, Restarted, Initial
<1>4. CASE failed
  <2>1. hashes' = NoHash /\ unreplaced' = unreplaced /\ Known' = {}
    BY <1>4 DEF FullEnd, NoPorts, Known
  <2>2. WarnedFit'
    BY <2>1, WarnedStays DEF SlotInv
  <2> QED
    BY <1>0, <1>1, <1>2, <1>3, <2>1, <2>2, KeysMove
<1>5. CASE ~failed
  <2>1. PICK S \in SUBSET (unreplaced \ Planned) :
          /\ port' = plan /\ Cardinality(S) <= MaxActive - Cardinality(Planned)
          /\ unreplaced' = (unreplaced \cap Planned) \cup S
    BY <1>5 DEF FullEnd, Planned
  <2>2. Known' = Planned /\ PlanHolds /\ PlanOuts
    BY <2>1 DEF Known, Planned, SlotInv
  <2>3. Settled(cands)'
    BY <1>0, <1>1, <1>5, <2>2 DEF PlanHolds, PlanOuts, ApplyPC, Settled, KeysDiffer, Covers
  <2>4. WarnedFit'
    <3>1. IsFiniteSet(Planned) /\ IsFiniteSet(S)
      <4>1. IsFiniteSet(Tunnels)
        BY XrayAssumption, FS_Interval DEF Tunnels
      <4>2. Planned \subseteq Tunnels /\ S \subseteq Tunnels
        BY DEF Planned, TypeOK, SlotTypeOK
      <4> QED
        BY <4>1, <4>2, FS_Subset
    <3>2. unreplaced' \cup Known' = Planned \cup S /\ Planned \cap S = {}
      BY <2>1, <2>2
    <3>3. Cardinality(Planned \cup S) = Cardinality(Planned) + Cardinality(S) - Cardinality(Planned \cap S)
      BY <3>1, FS_Union
    <3>4. Cardinality(Planned \cap S) = 0
      BY <3>2, FS_EmptySet
    <3>5. Cardinality(Planned) \in Nat /\ Cardinality(S) \in Nat /\ MaxActive \in Nat
      BY <3>1, FS_CardinalityType, CandidateAssumption
    <3>6. Cardinality(Planned \cup S) <= MaxActive
      BY <2>1, <3>3, <3>4, <3>5
    <3> QED
      BY <3>2, <3>6 DEF WarnedFit
  <2> QED
    BY <1>0, <1>1, <1>2, <1>3, <2>3, <2>4, KeysMove
<1> QED
  BY <1>4, <1>5

(* apply.Outbounds removes everything before it adds the tunnels of the    *)
(* plan, and only a failed apply ends with other outbounds.                *)
LEMMA ApplyOuts ==
  ASSUME TypeOK, CapInv, SlotInv, ApplyPlans
  PROVE  /\ PlanOuts' /\ pc[Sync] \in ApplyPC /\ pc'[Sync] \in ApplyPC /\ UNCHANGED <<port, cur, plan>>
         /\ outs' \cup todo' \cup backups' \subseteq outs \cup todo \cup backups \cup {<<t, Initial>> : t \in Tunnels}
<1> USE DEF At, Goto, Then, Through, memVars, syncVars, xrayVars
<1>0. /\ Sync \in Procs /\ pc \in [Procs -> Labels] /\ PlanOuts
  BY ProcFacts DEF CapInv, PcTypeOK, SlotInv
<1> DEFINE Listed == {<<t, Initial>> : t \in Tunnels}
           Same == UNCHANGED <<port, cur, plan>>
           InKinds == {"in-list", "in-remove", "in-add", "rule-list", "rule-remove", "rule-add", "commit"}
<1>1. CASE OutList
  <2>1. /\ outs' = outs /\ todo' = outs /\ backups' = {} /\ added' = {} /\ Same /\ pc[Sync] = "out-list"
        /\ pc'[Sync] = "out-remove" \/ (pc'[Sync] = "in-list" /\ failed')
    BY <1>0, <1>1 DEF OutList, ListKind, Read, NoteFailure
  <2> QED
    BY <2>1 DEF PlanOuts, ApplyPC
<1>2. CASE OutRemove
  <2>1. CASE todo = {} /\ Through("out-remove", "out-add")
    <3>1. /\ UNCHANGED <<outs, todo, backups, added>> /\ Same /\ pc[Sync] = "out-remove" /\ pc'[Sync] = "out-add"
      BY <1>0, <2>1
    <3>2. outs = {} /\ added = {}
      BY <1>0, <2>1, <3>1 DEF PlanOuts
    <3> QED
      BY <3>1, <3>2 DEF PlanOuts, ApplyPC, Covers
  <2>2. CASE ~(todo = {} /\ Through("out-remove", "out-add"))
    <3>1. PICK tag \in todo, ok \in BOOLEAN :
            /\ RemoveOutbound(tag, ok) /\ todo' = todo \ {tag} /\ added' = added /\ Same /\ pc[Sync] = "out-remove"
            /\ pc'[Sync] = IF ok THEN "out-remove" ELSE "undo-remove"
            /\ backups' = IF ok THEN backups \cup {tag} ELSE backups
      BY <1>0, <1>2, <2>2 DEF OutRemove
    <3>2. outs' \subseteq outs /\ (ok => outs' = outs \ {tag}) /\ outs \subseteq todo /\ added = {}
      BY <1>0, <3>1 DEF RemoveOutbound, PlanOuts
    <3>3. PlanOuts'
      BY <3>1, <3>2 DEF PlanOuts, ApplyPC
    <3> QED
      BY <3>1, <3>2, <3>3 DEF ApplyPC
  <2> QED
    BY <2>1, <2>2
<1>3. CASE OutAdd
  <2>0. pc[Sync] = "out-add" /\ added \subseteq Planned /\ Covers(added)
    BY <1>0, <1>3 DEF OutAdd, PlanOuts
  <2>1. CASE Unplaced = {} /\ Through("out-add", "in-list")
    <3>1. UNCHANGED <<outs, todo, backups, added>> /\ Same /\ pc'[Sync] = "in-list"
      BY <1>0, <2>1
    <3>2. Planned \subseteq added
      BY <2>1 DEF Unplaced, Planned
    <3> QED
      BY <2>0, <3>1, <3>2 DEF PlanOuts, ApplyPC, Covers, Planned
  <2>2. CASE CheckCap(Sync, "undo-remove", FALSE) /\ UNCHANGED <<added, todo, backups>> /\ Same
    <3>1. outs' = outs /\ pc'[Sync] \in {"out-add", "undo-remove"}
      BY <1>0, <2>0, <2>2 DEF CheckCap, Read
    <3> QED
      BY <2>0, <2>2, <3>1 DEF PlanOuts, ApplyPC, Covers, Planned
  <2>3. ASSUME NEW t \in Tunnels, NEW ok \in BOOLEAN, IsNext(t), SendAdd(Sync, <<t, Initial>>, ok),
               pc'[Sync] = IF ok THEN "out-add" ELSE "undo-remove",
               added' = IF ok THEN added \cup {t} ELSE added, UNCHANGED <<todo, backups>>, Same
        PROVE  PlanOuts' /\ pc'[Sync] \in ApplyPC /\ outs' \subseteq outs \cup Listed
    <3>1. t \in Planned /\ outs' \subseteq outs \cup {<<t, Initial>>}
      BY <2>3 DEF IsNext, Unplaced, Planned, SendAdd, AddOutbound
    <3>2. <<t, Initial>>[1] = t /\ Planned' = Planned
      BY <2>3 DEF Planned
    <3>3. ok => added' \subseteq Planned' /\ Covers(added)'
      BY <2>0, <2>3, <3>1, <3>2 DEF Covers
    <3>4. PlanOuts'
      BY <2>3, <3>3 DEF PlanOuts, ApplyPC
    <3> QED
      BY <2>3, <3>1, <3>4 DEF ApplyPC
  <2>4. \/ Unplaced = {} /\ Through("out-add", "in-list")
        \/ CheckCap(Sync, "undo-remove", FALSE) /\ UNCHANGED <<added, todo, backups>> /\ Same
        \/ /\ UNCHANGED <<todo, backups>> /\ Same
           /\ \E t \in Tunnels, ok \in BOOLEAN :
                /\ IsNext(t) /\ SendAdd(Sync, <<t, Initial>>, ok)
                /\ pc'[Sync] = IF ok THEN "out-add" ELSE "undo-remove"
                /\ added' = IF ok THEN added \cup {t} ELSE added
    BY <1>0, <1>3 DEF OutAdd
  <2> QED
    BY <2>0, <2>1, <2>2, <2>3, <2>4 DEF ApplyPC
<1>4. CASE UndoRemove \/ UndoRestore
  <2>1. /\ Same /\ todo' = todo /\ backups' \subseteq backups
        /\ pc[Sync] \in {"undo-remove", "undo-restore"}
    BY <1>4 DEF UndoRemove, UndoRestore, CheckCap, SendAdd
  <2>2. outs' \subseteq outs \cup backups
    BY <1>4 DEF UndoRemove, UndoRestore, CheckCap, SendAdd, Read, AddOutbound, RemoveOutbound
  <2>3. pc'[Sync] \in {"undo-remove", "undo-restore"} \/ (pc'[Sync] = "in-list" /\ failed')
    BY <1>0, <1>4, <2>1 DEF UndoRemove, UndoRestore, CheckCap
  <2> QED
    BY <2>1, <2>2, <2>3 DEF PlanOuts, ApplyPC
<1>5. CASE InList \/ InRemove \/ InAdd \/ RuleList \/ RuleRemove \/ RuleAdd
  <2>1. /\ outs' = outs /\ todo' = todo /\ backups' \subseteq backups /\ Same
        /\ pc[Sync] \in InKinds /\ pc'[Sync] \in InKinds
    <3>1. CASE InList \/ InRemove \/ InAdd
      BY <1>0, <3>1 DEF InList, InRemove, InAdd, ListKind, Read, AddInbound, RemoveInbound
    <3>2. CASE RuleList \/ RuleRemove \/ RuleAdd
      BY <1>0, <3>2 DEF RuleList, RuleRemove, RuleAdd, ListKind, Read, AddRule, RemoveRule
    <3> QED
      BY <1>5, <3>1, <3>2
  <2>2. failed => failed'
    <3>1. CASE InList \/ RuleList
      BY <3>1 DEF InList, RuleList, ListKind, NoteFailure
    <3>2. CASE InRemove \/ InAdd
      BY <3>2 DEF InRemove, InAdd, NoteFailure
    <3>3. CASE RuleRemove \/ RuleAdd
      BY <3>3 DEF RuleRemove, RuleAdd, NoteFailure
    <3> QED
      BY <1>5, <3>1, <3>2, <3>3
  <2>3. ~failed' => Covers(Planned)
    BY <1>0, <2>1, <2>2 DEF PlanOuts, ApplyPC
  <2>4. Covers(Planned)' <=> Covers(Planned)
    BY <2>1 DEF Covers, Planned
  <2>5. PlanOuts'
    BY <2>1, <2>3, <2>4 DEF PlanOuts
  <2> QED
    BY <2>1, <2>5 DEF ApplyPC
<1> QED
  BY <1>1, <1>2, <1>3, <1>4, <1>5 DEF ApplyPlans

(* The calls of a full apply keep the invariant.                           *)
LEMMA ApplyKeys ==
  ASSUME TypeOK, CapInv, SlotInv, ApplyPlans, UNCHANGED <<fileVars, loaded, selVars, fails, slotVars>>
  PROVE  SlotInv'
<1>0. Sync \in Procs /\ Moving(Sync) /\ UNCHANGED <<acts, from, to, loaded, cands, quarantine, unreplaced>>
  BY ApplyMoves, ProcFacts DEF CapInv, selVars, slotVars
<1>1. /\ PlanOuts' /\ pc[Sync] \in ApplyPC /\ pc'[Sync] \in ApplyPC /\ UNCHANGED <<port, cur, plan>>
      /\ outs' \cup todo' \cup backups' \subseteq outs \cup todo \cup backups \cup {<<t, Initial>> : t \in Tunnels}
  BY ApplyOuts
<1>2. Mutating(Sync)
  BY <1>1 DEF Mutating, ApplyPC, FreePC
<1>3. SlotChoice(Sync)' /\ SlotOuts(Sync)'
  BY <1>1 DEF SlotChoice, SlotOuts, ApplyPC, RepairPC, RejoinPC, ReplacePC, FillPC
<1>4. \A q \in Procs : SlotChoice(q)' /\ SlotOuts(q)' /\ (q # Sync => pc'[q] = pc[q])
  BY <1>0, <1>2, <1>3, OthersKeys
<1>5. PlanHolds' /\ SavedKeys' /\ NoneUnderWay'
  <2>1. PlanHolds'
    BY <1>0, <1>1 DEF SlotInv, PlanHolds, Planned, KeysDiffer
  <2>2. SavedKeys'
    BY <1>0, <1>1 DEF SavedKeys
  <2>3. NoneUnderWay'
    BY <1>0, <1>1, <1>4 DEF SlotInv, NoneUnderWay, ApplyPC, ReplacePC
  <2> QED
    BY <2>1, <2>2, <2>3
<1>6. WarnedFit' /\ OneVariant'
  <2>1. WarnedFit'
    BY <1>0, <1>1 DEF SlotInv, WarnedFit, Known
  <2>2. ~Prefixed => \A t \in Tunnels : <<t, "obs">> \notin outs' \cup todo' \cup backups'
    BY <1>1 DEF SlotInv, OneVariant, Initial
  <2> QED
    BY <1>1, <2>1, <2>2 DEF SlotInv, OneVariant
<1> QED
  BY <1>1, <1>4, <1>5, <1>6 DEF SlotInv

-----------------------------------------------------------------------------
(* The invariant of a candidate source, and what it says.                  *)

(* A restart of Xray leaves no outbound; one of scd forgets everything.    *)
LEMMA RestartKeys ==
  ASSUME CapInv, SlotInv, Restart
  PROVE  SlotInv'
<1>1. CASE /\ RestartXray
           /\ UNCHANGED <<memVars, lock, pc, grant, syncVars, tickVars, fileVars, loaded, selVars, fails, slotVars>>
  <2>1. /\ outs' = {} /\ Known' = Known
        /\ UNCHANGED <<pc, port, cur, hashes, plan, todo, backups, added, failed, loaded, cands, quarantine, unreplaced,
                       acts, from, to>>
    BY <1>1 DEF RestartXray, memVars, syncVars, selVars, slotVars, Known
  <2>2. /\ ActsHold => ActsHold'
        /\ WorkerHolds => WorkerHolds'
        /\ FillHolds => FillHolds'
    BY <2>1, SameChoice
  <2>3. (\A S : Covers(S)') /\ (Settled(cands) => Settled(cands)')
    BY <2>1 DEF Covers, Settled, KeysDiffer
  <2>4. \A p \in Procs : SlotChoice(p)' /\ SlotOuts(p)'
    <3> SUFFICES ASSUME NEW p \in Procs PROVE SlotChoice(p)' /\ SlotOuts(p)'
      OBVIOUS
    <3>1. SlotChoice(p)'
      BY <2>1, <2>2, <2>3 DEF SlotInv, SlotChoice, KeysDiffer
    <3>2. SlotOuts(p)'
      BY <2>1 DEF SlotOuts, Covers
    <3> QED
      BY <3>1, <3>2
  <2>5. PlanHolds' /\ PlanOuts'
    BY <2>1 DEF SlotInv, PlanHolds, PlanOuts, Planned, KeysDiffer, Covers
  <2>6. SavedKeys' /\ NoneUnderWay' /\ WarnedFit' /\ OneVariant'
    BY <2>1, <2>3 DEF SlotInv, SavedKeys, NoneUnderWay, WarnedFit, OneVariant
  <2> QED
    BY <2>4, <2>5, <2>6 DEF SlotInv
<1>2. CASE RestartScd /\ unreplaced' = {} /\ from' = 0
  <2>1. /\ Known' = {} /\ hashes' = NoHash /\ outs' = outs /\ todo' = {} /\ backups' = {}
        /\ \A t \in Tunnels : cur'[t] = Initial
        /\ \A p \in Procs : pc'[p] = "idle"
    BY <1>2 DEF RestartScd, Known, NoPorts
  <2>2. \A p \in Procs : SlotChoice(p)' /\ SlotOuts(p)'
    BY <2>1 DEF SlotChoice, SlotOuts, RepairPC, RejoinPC, ReplacePC, FillPC
  <2>3. PlanHolds' /\ PlanOuts' /\ SavedKeys' /\ NoneUnderWay'
    BY <1>2, <2>1, ProcFacts DEF PlanHolds, PlanOuts, SavedKeys, NoneUnderWay, ApplyPC
  <2>4. WarnedFit' /\ OneVariant'
    <3>1. WarnedFit'
      BY <1>2, <2>1, FS_EmptySet, CandidateAssumption DEF WarnedFit
    <3>2. OneVariant'
      BY <2>1 DEF SlotInv, OneVariant, Initial
    <3> QED
      BY <3>1, <3>2
  <2> QED
    BY <2>2, <2>3, <2>4 DEF SlotInv
<1> QED
  BY <1>1, <1>2 DEF Restart

(* Every step of the specification keeps SlotInv.                          *)
LEMMA SlotInvKept ==
  ASSUME TypeOK, CapInv, PortInv, FilesOK, SlotInv, [Next]_vars
  PROVE  SlotInv'
<1>1. CASE SyncStep
  BY <1>1, SyncBeginKeys, FullBeginKeys, FullEndKeys, ApplyKeys, DecideKeys, NextActKeys, FillNextKeys,
     SlotCallKeys, SlotEndKeys, FillCallKeys, FillEndKeys, ProcFacts DEF SyncStep
<1>2. ASSUME NEW w \in Tunnels, WorkerStep(w)
      PROVE  SlotInv'
  BY <1>2, MonitorKeys, ReplaceKeys, SlotCallKeys, ProcFacts DEF WorkerStep
<1>3. CASE Tick \/ Edit \/ Expire \/ UNCHANGED vars
  <2>1. /\ UNCHANGED <<outs, pc, port, cur, hashes, plan, todo, backups, added, failed, loaded, cands, unreplaced,
                       acts, from, to>>
        /\ quarantine' \subseteq quarantine
    BY <1>3 DEF Tick, TickStart, Edit, Expire, vars, targetVars, xrayVars, memVars, syncVars, selVars, slotVars
  <2>2. /\ Known' = Known
        /\ ActsHold => ActsHold'
        /\ WorkerHolds => WorkerHolds'
        /\ FillHolds => FillHolds'
    BY <2>1, SameChoice
  <2>3. /\ \A S : Covers(S)' <=> Covers(S)
        /\ Settled(cands)' <=> Settled(cands)
    BY <2>1, <2>2 DEF Covers, Settled, KeysDiffer
  <2>4. \A p \in Procs : SlotChoice(p)' /\ SlotOuts(p)'
    <3> SUFFICES ASSUME NEW p \in Procs PROVE SlotChoice(p)' /\ SlotOuts(p)'
      OBVIOUS
    <3>1. SlotChoice(p)'
      BY <2>1, <2>2, <2>3 DEF SlotInv, SlotChoice, KeysDiffer
    <3>2. SlotOuts(p)'
      BY <2>1, <2>2 DEF SlotInv, SlotOuts, Covers
    <3> QED
      BY <3>1, <3>2
  <2>5. PlanHolds' /\ PlanOuts'
    BY <2>1 DEF SlotInv, PlanHolds, PlanOuts, Planned, KeysDiffer, Covers
  <2>6. SavedKeys' /\ NoneUnderWay' /\ WarnedFit' /\ OneVariant'
    BY <2>1, <2>2, <2>3 DEF SlotInv, SavedKeys, NoneUnderWay, WarnedFit, OneVariant
  <2> QED
    BY <2>4, <2>5, <2>6 DEF SlotInv
<1> QED
  BY <1>1, <1>2, <1>3, RestartKeys DEF Next

(* The invariant: types, locks, ports, files and slots.                    *)
CandidateInv == TypeOK /\ CapInv /\ PortInv /\ FilesOK /\ SlotInv

(* At the start scd has no tunnel and Xray nothing of the source.          *)
LEMMA CandidateInvInit == Init => CandidateInv
<1> SUFFICES ASSUME Init PROVE CandidateInv
  OBVIOUS
<1>1. CapInv /\ PortInv /\ FilesOK
  BY PortInit
<1>2. NoPorts \in [Tunnels -> Ports \cup {0}]
  BY DEF NoPorts
<1>3. XrayTypeOK /\ CtlTypeOK
  BY <1>2, XrayAssumption DEF Init, TargetInit, XrayInit, XrayTypeOK, CtlTypeOK, Labels, FreePC
<1>4. MemTypeOK /\ SyncTypeOK
  BY <1>2, InitialType DEF Init, TargetInit, MemTypeOK, SyncTypeOK
<1>5. TickTypeOK
  BY <1>2, TargetAssumption DEF Init, TargetInit, TickTypeOK
<1>6. /\ outs = {} /\ Known = {} /\ hashes = NoHash /\ todo = {} /\ backups = {} /\ unreplaced = {} /\ from = 0
      /\ \A t \in Tunnels : cur[t] = Initial
      /\ \A p \in Procs : pc[p] = "idle"
  BY DEF Init, TargetInit, XrayInit, CandidateInit, Known, NoPorts
<1>7. SlotTypeOK
  BY CandidateAssumption DEF Init, CandidateInit, SlotTypeOK, NoActs, Acted
<1>8. ToSet
  BY <1>6 DEF ToSet, ToPC, FillPC
<1>9. \A p \in Procs : SlotChoice(p) /\ SlotOuts(p)
  BY <1>6 DEF SlotChoice, SlotOuts, RepairPC, RejoinPC, ReplacePC, FillPC
<1>10. PlanHolds /\ PlanOuts /\ SavedKeys /\ NoneUnderWay
  BY <1>6, ProcFacts DEF PlanHolds, PlanOuts, SavedKeys, NoneUnderWay, ApplyPC
<1>11. WarnedFit /\ OneVariant
  BY <1>6, FS_EmptySet, CandidateAssumption DEF WarnedFit, OneVariant, Initial
<1> QED
  BY <1>1, <1>3, <1>4, <1>5, <1>7, <1>8, <1>9, <1>10, <1>11 DEF CandidateInv, TypeOK, TargetTypeOK, SlotInv

(* The inductive invariant of a candidate source, for any number of        *)
(* tunnels and slots, any files and any failed or lost calls and restarts. *)
THEOREM CandidateInvHolds == Spec => []CandidateInv
<1>1. CandidateInv /\ [Next]_vars => CandidateInv'
  BY TypesKept, CapInvKept, PortInvKept, FilesKept, SlotInvKept DEF CandidateInv
<1> QED
  BY <1>1, CandidateInvInit, PTL DEF Spec

(* Every reachable state of a candidate source has its type: in particular *)
(* the ports of memory and of the slot under way lie in the port range,    *)
(* and a slot operation that adds a tunnel has one to add.                 *)
THEOREM CandidateTypes == Spec => []TypeOK
<1>1. CandidateInv => TypeOK
  BY DEF CandidateInv
<1> QED
  BY <1>1, CandidateInvHolds, PTL

(* A key is on one tunnel at a time (Pick, Decide, Replacement in          *)
(* selection.go and decide.go): no two tunnels in Xray have one key while  *)
(* the target lock is free and no full apply is due.                       *)
THEOREM KeysNeverShared == Spec => []KeysApart
<1>1. CandidateInv => KeysApart
  <2> SUFFICES ASSUME CandidateInv, lock = Nobody, hashes # NoHash
               PROVE  \A a, b \in outs : KeyOf(a[1]) = KeyOf(b[1]) => a[1] = b[1]
    BY DEF KeysApart
  <2>1. Settled(cands)
    BY FreeSettled DEF CandidateInv
  <2> QED
    BY <2>1 DEF Settled, Covers, KeysDiffer
<1> QED
  BY <1>1, CandidateInvHolds, PTL

(* The no_replacement warnings of tunnels that are gone fit the empty      *)
(* slots (decide, fill, pruneNoReplacement).                               *)
THEOREM WarningsNeverTooMany == Spec => []WarningsFitSlots
<1>1. CandidateInv => WarningsFitSlots
  <2> SUFFICES ASSUME CandidateInv PROVE WarningsFitSlots
    OBVIOUS
  <2>1. TypeOK /\ WarnedFit
    BY DEF CandidateInv, SlotInv
  <2>2. IsFiniteSet(Known) /\ IsFiniteSet(unreplaced \ Known)
    <3>1. IsFiniteSet(Tunnels)
      BY XrayAssumption, FS_Interval DEF Tunnels
    <3>2. Known \subseteq Tunnels /\ unreplaced \ Known \subseteq Tunnels
      BY <2>1 DEF Known, TypeOK, SlotTypeOK
    <3> QED
      BY <3>1, <3>2, FS_Subset
  <2>3. (unreplaced \ Known) \cup Known = unreplaced \cup Known /\ (unreplaced \ Known) \cap Known = {}
    OBVIOUS
  <2>4. Cardinality((unreplaced \ Known) \cup Known)
          = Cardinality(unreplaced \ Known) + Cardinality(Known) - Cardinality((unreplaced \ Known) \cap Known)
    BY <2>2, FS_Union
  <2>5. Cardinality((unreplaced \ Known) \cap Known) = 0
    BY <2>3, FS_EmptySet
  <2>6. Cardinality(unreplaced \ Known) \in Nat /\ Cardinality(Known) \in Nat /\ MaxActive \in Nat
    BY <2>2, FS_CardinalityType, CandidateAssumption
  <2>7. Cardinality((unreplaced \ Known) \cup Known) <= MaxActive
    BY <2>1, <2>3 DEF WarnedFit
  <2>8. Cardinality(unreplaced \ Known) <= MaxActive - Cardinality(Known)
    BY <2>4, <2>5, <2>6, <2>7
  <2> QED
    BY <2>8 DEF WarningsFitSlots
<1> QED
  BY <1>1, CandidateInvHolds, PTL

(* A tunnel joins memory where a full apply, a replacement or fill ends,   *)
(* and its pair has stayed out of quarantine since it was chosen.          *)
LEMMA JoinedOutsideQuarantine ==
  ASSUME CandidateInv, [Next]_vars, NEW t \in Tunnels, port[t] = 0, port'[t] # 0
  PROVE  Pair(CandidateOf(t)) \notin quarantine
<1> USE DEF At
<1>0. /\ TypeOK /\ CapInv /\ SlotInv /\ t \notin Known /\ 0 \notin Tunnels
  BY ProcFacts DEF CandidateInv, Known, Sync
<1>1. \A old, new, p, reset : ReplaceSourceTunnel(old, new, p, reset) => t = new
  BY DEF ReplaceSourceTunnel
<1>2. CASE SlotEndSync
  <2>1. pc[Sync] \in ReplacePC /\ (t = to \/ t = 0)
    BY <1>1, <1>2 DEF SlotEndSync, ReplacePC
  <2>2. from \in Known /\ ActsHold
    BY <2>1, ProcFacts DEF SlotInv, SlotChoice, CandidateInv
  <2> QED
    BY <1>0, <2>1, <2>2 DEF ActsHold, Final, Eligibly
<1>3. CASE FillEnd
  <2>1. At(Sync, "fill-done") /\ t = to
    BY <1>1, <1>3 DEF FillEnd
  <2> QED
    BY <1>0, <2>1, ProcFacts DEF SlotInv, SlotChoice, FillPC, FillHolds, Eligibly
<1>4. ASSUME NEW w \in Tunnels, ReplaceEnd(w)
      PROVE  Pair(CandidateOf(t)) \notin quarantine
  <2>1. pc[w] \in ReplacePC /\ t = to /\ w \in Procs /\ w # Sync
    BY <1>0, <1>1, <1>4, ProcFacts DEF ReplaceEnd, ReplacePC
  <2> QED
    BY <1>0, <2>1 DEF SlotInv, SlotChoice, WorkerHolds, Eligibly
<1>5. CASE FullEnd
  <2>1. At(Sync, "commit") /\ t \in Planned
    BY <1>5 DEF FullEnd, NoPorts, Planned
  <2> QED
    BY <1>0, <2>1 DEF SlotInv, PlanHolds, ApplyPC
<1>6. port' = port \/ port' = NoPorts \/ FullEnd \/ SlotEndSync \/ FillEnd \/ \E w \in Tunnels : ReplaceEnd(w)
  <2>1. CASE SyncStep
    <3>1. CASE ApplyPlans
      BY <1>0, <3>1, ApplyOuts
    <3> QED
      BY <2>1, <3>1 DEF SyncStep, SyncStart, SyncBegin, SyncList, FullBegin, DecideSlots, NextAct, FillNext,
         SlotRemove, SlotAddOutbound, SlotAdd, FillAddOutbound, FillAdd, RPCLeaves, memVars
  <2>2. ASSUME NEW w \in Tunnels, WorkerStep(w)
        PROVE  port' = port \/ ReplaceEnd(w)
    <3>1. CASE ReplaceSkip(w) \/ ReplaceBegin(w) \/ ReplaceList(w) \/ ReplaceChoose(w)
      BY <3>1 DEF ReplaceSkip, ReplaceBegin, ReplaceList, ReplaceChoose, memVars
    <3>2. CASE SlotRemove(w) \/ SlotAddOutbound(w) \/ SlotAdd(w)
      BY <3>2 DEF SlotRemove, SlotAddOutbound, SlotAdd, RPCLeaves, memVars
    <3> QED
      BY <1>0, <2>2, <3>1, <3>2, MonitorStep DEF WorkerStep
  <2>3. CASE Tick \/ Restart \/ Edit \/ Expire \/ UNCHANGED vars
    BY <2>3 DEF Tick, TickStart, Restart, RestartScd, Edit, Expire, vars, targetVars, memVars
  <2> QED
    BY <2>1, <2>2, <2>3 DEF Next
<1> QED
  BY <1>2, <1>3, <1>4, <1>5, <1>6 DEF NoPorts

(* A candidate in quarantine never becomes active (full, Decide, fill,     *)
(* ReplaceFailed), although several calls, checks and restarts of Xray lie *)
(* between its choice and the commit.                                      *)
THEOREM QuarantineKept == Spec => QuarantineHolds
<1>1. CandidateInv /\ [Next]_vars =>
        [\A t \in Tunnels : port[t] = 0 /\ port'[t] # 0 => Pair(CandidateOf(t)) \notin quarantine]_vars
  BY JoinedOutsideQuarantine
<1> QED
  BY <1>1, CandidateInvHolds, PTL DEF Spec, QuarantineHolds

-----------------------------------------------------------------------------
(* Memory and Xray while no call fails.  A process that changes a slot     *)
(* knows how far the tunnels of the slot are from what memory says; every  *)
(* other tunnel is as memory says.                                         *)

(* Where a change of a slot only gets after a failed call.                 *)
FailPC == {"slot-restore", "slot-failed", "fill-undo-rule", "fill-undo-in", "fill-undo-out", "fill-failed"}

(* Every tunnel outside S is in Xray as memory has it.                     *)
RecordedBut(S) == \A t \in Tunnels \ S : AsRecorded(t)

(* What Xray has in the middle of a replacement or a filled slot of p: the *)
(* tunnels that go (from) and come (to) as far as the calls before pc[p]   *)
(* took them, every other one as recorded.                                 *)
SlotHas(p) ==
  /\ pc[p] \notin FailPC
  /\ pc[p] \in {"sync-list", "decide", "next-act", "fill", "fill-add", "replace-list", "replace-choose", "slot-rm-rule"}
       => RecordedBut({})
  /\ pc[p] \in {"slot-rm-out", "slot-rm-other", "slot-rm-in", "slot-add"} => RecordedBut({from})
  /\ pc[p] \in {"slot-add-in", "slot-add-rule", "slot-done"} => RecordedBut({from, to})
  /\ pc[p] \in {"fill-add-in", "fill-add-rule", "fill-done"} => RecordedBut({to})
  /\ pc[p] = "slot-rm-out" => Has(from, {cur[from]}, port[from], "none")
  /\ pc[p] \in {"slot-rm-other", "slot-rm-in"} => Has(from, {}, port[from], "none")
  /\ pc[p] \in {"slot-add", "slot-add-in", "slot-add-rule", "slot-done"} => Has(from, {}, 0, "none")
  /\ pc[p] \in {"slot-add-in", "fill-add-in"} => Has(to, {Initial}, 0, "none")
  /\ pc[p] \in {"slot-add-rule", "fill-add-rule"} => Has(to, {Initial}, at, "none")
  /\ pc[p] \in {"slot-done", "fill-done"} /\ to # 0 => Has(to, {Initial}, at, Initial)

(* Between two calls of a sync, a full apply, a repair, a rejoin or a slot *)
(* operation Xray differs from memory by the calls under way and no more.  *)
Matching ==
  /\ ~failed /\ SyncHas /\ ApplyHas
  /\ FreeMatches
  /\ \A w \in Tunnels : WorkerHas(w)
  /\ \A p \in Procs : SlotHas(p)

(* Only a failed call or a restart (faults) may change that.               *)
MatchInv == faults = 0 => Matching

(* What another process has survives a step of p.                          *)
LEMMA OthersSlot ==
  ASSUME CapInv, NEW p \in Procs, Moving(p), NEW q \in Procs, q # p, SlotHas(q),
         Mutating(p) \/ UNCHANGED <<outs, ins, rules, port, cur, from, to, at>>
  PROVE  SlotHas(q)'
<1>1. pc'[q] = pc[q]
  BY DEF Moving, Moves, CapInv, PcTypeOK
<1>2. CASE Mutating(p)
  <2>1. pc'[q] \in FreePC
    BY <1>1, <1>2 DEF CapInv, LockHeld, Mutating
  <2> QED
    BY <2>1 DEF SlotHas, FreePC, FailPC
<1>3. CASE UNCHANGED <<outs, ins, rules, port, cur, from, to, at>>
  <2>1. \A S : RecordedBut(S)' <=> RecordedBut(S)
    BY <1>3 DEF RecordedBut, AsRecorded, Placed, Has
  <2>2. \A t, V, i, r : Has(t, V, i, r)' <=> Has(t, V, i, r)
    BY <1>3 DEF Has
  <2> QED
    BY <1>1, <1>3, <2>1, <2>2 DEF SlotHas
<1> QED
  BY <1>2, <1>3

(* A process that moves keeps Matching when it has what its next step      *)
(* needs and hands over a target that is as recorded.                      *)
LEMMA MatchMove ==
  ASSUME CapInv, Matching, NEW p \in Procs, Moving(p),
         Mutating(p) \/ UNCHANGED <<outs, ins, rules, port, cur, from, to, at>>,
         SlotHas(p)', p # Sync => WorkerHas(p)', FreeMatches',
         ~failed', p = Sync => pc'[Sync] \notin ApplyPC \/ (SyncHas' /\ ApplyHas'),
         p # Sync => UNCHANGED <<plan, todo, left, added, failed>>
  PROVE  Matching'
<1>1. \A q \in Procs : SlotHas(q)'
  BY OthersSlot DEF Matching
<1>2. \A w \in Tunnels : WorkerHas(w)'
  BY OthersHave, ProcFacts DEF Matching, CapInv
<1>3. SyncHas' /\ ApplyHas'
  <2>1. CASE p = Sync
    BY <2>1 DEF SyncHas, ApplyHas, ApplyPC, InPC, RulePC
  <2>2. CASE p # Sync
    <3>1. ApplyKnown' /\ pc'[Sync] = pc[Sync]
      BY <2>2, ApplyStays DEF Matching, ApplyKnown, CapInv
    <3> QED
      BY <3>1 DEF Matching, SyncHas, ApplyKnown
  <2> QED
    BY <2>1, <2>2
<1> QED
  BY <1>1, <1>2, <1>3 DEF Matching

(* The target is as recorded before and after.                             *)
LEMMA FreeStays ==
  ASSUME UNCHANGED <<outs, ins, rules, port, cur>>
  PROVE  RecordedBut({})' <=> RecordedBut({})
  BY DEF RecordedBut, AsRecorded, Placed, Has

(* CheckCap, cap.go: with fewer tunnels than slots in Xray, each on one    *)
(* outbound, there is a place.                                             *)
LEMMA Room ==
  ASSUME CapInv, NEW S, IsFiniteSet(S), Cardinality(S) < MaxActive, Covers(S),
         \A a, b \in outs : a[1] = b[1] => a = b
  PROVE  CapFree
<1> DEFINE f == [a \in outs |-> a[1]]
<1>1. f \in Injection(outs, S)
  BY DEF Injection, Covers, IsInjective
<1>2. Cardinality(outs) <= Cardinality(S)
  <2> HIDE DEF f
  <2> QED
    BY <1>1, FS_Injection
<1>3. Cardinality(outs) \in Nat /\ Cardinality(S) \in Nat
  BY FS_CardinalityType DEF CapInv
<1> QED
  BY <1>2, <1>3, CandidateAssumption DEF CapFree

(* Never more active tunnels than slots, and one less when one leaves.     *)
LEMMA ActiveFit ==
  ASSUME TypeOK, WarnedFit
  PROVE  /\ IsFiniteSet(Known) /\ Cardinality(Known) <= MaxActive
         /\ \A t \in Known : IsFiniteSet(Known \ {t}) /\ Cardinality(Known \ {t}) < MaxActive
<1>1. IsFiniteSet(unreplaced \cup Known)
  <2>1. IsFiniteSet(Tunnels)
    BY XrayAssumption, FS_Interval DEF Tunnels
  <2>2. unreplaced \cup Known \subseteq Tunnels
    BY DEF Known, TypeOK, SlotTypeOK
  <2> QED
    BY <2>1, <2>2, FS_Subset
<1>2. /\ IsFiniteSet(Known) /\ Cardinality(Known) <= Cardinality(unreplaced \cup Known)
      /\ Cardinality(unreplaced \cup Known) \in Nat /\ Cardinality(Known) \in Nat
  BY <1>1, FS_Subset, FS_CardinalityType
<1>3. Cardinality(Known) <= MaxActive
  BY <1>2, CandidateAssumption DEF WarnedFit
<1>4. ASSUME NEW t \in Known
      PROVE  IsFiniteSet(Known \ {t}) /\ Cardinality(Known \ {t}) < MaxActive
  <2>1. IsFiniteSet(Known \ {t}) /\ Cardinality(Known \ {t}) = Cardinality(Known) - 1
    BY <1>2, <1>4, FS_RemoveElement
  <2> QED
    BY <1>2, <1>3, <2>1, CandidateAssumption
<1> QED
  BY <1>2, <1>3, <1>4

(* Every tunnel is as recorded or has no outbound: one outbound each.      *)
LEMMA OneOutbound ==
  ASSUME TypeOK, NEW S, \A t \in Tunnels : t \in S \/ AsRecorded(t), \A t \in S, v \in Variants : <<t, v>> \notin outs
  PROVE  Covers(Known \ S) /\ \A a, b \in outs : a[1] = b[1] => a = b
<1>1. outs \subseteq Tunnels \X Variants
  BY DEF TypeOK, TargetTypeOK, XrayTypeOK, Tags
<1>2. ASSUME NEW a \in outs
      PROVE  a[1] \in Known \ S /\ a = <<a[1], cur[a[1]]>>
  <2>1. a[1] \in Tunnels /\ a[2] \in Variants /\ a = <<a[1], a[2]>>
    BY <1>1, <1>2
  <2>2. a[1] \notin S /\ AsRecorded(a[1])
    BY <1>2, <2>1
  <2>3. port[a[1]] # 0
    BY <1>2, <2>1, <2>2 DEF AsRecorded, Placed, Has
  <2>4. a[2] = cur[a[1]]
    BY <1>2, <2>1, <2>2, <2>3 DEF AsRecorded, Placed, Has
  <2> QED
    BY <2>1, <2>2, <2>3, <2>4 DEF Known
<1> QED
  BY <1>2 DEF Covers

(* A check, a repair or a rejoin (tunnels.go, repair.go) of which no call  *)
(* fails leaves its tunnel as memory says.                                 *)
LEMMA MonitorMatches ==
  ASSUME TypeOK, CapInv, SlotInv, MatchInv, faults' = 0, NEW w \in Tunnels,
         \/ (StartCheck(w) \/ Repair(w) \/ Rejoin(w)) /\ UNCHANGED <<fileVars, loaded, selVars, fails, slotVars>>
         \/ CheckFails(w) \/ CheckSucceeds(w)
  PROVE  Matching'
<1>0. /\ w \in Procs /\ w # Sync /\ Moving(w)
      /\ UNCHANGED <<ins, port, from, to, at>>
      /\ pc'[w] \in FreePC \cup RepairPC \cup RejoinPC
  BY MonitorStep DEF slotVars
<1>1. UNCHANGED syncVars /\ (pc[w] \in FreePC => UNCHANGED <<outs, cur>>)
  BY MonitorDoes
<1>2. pc[w] \in FreePC => UNCHANGED rules
  BY DEF StartCheck, CheckFails, CheckSucceeds, ProbeFails, ProbeSucceeds, Repair, RepairSkip, RepairBegin,
     RepairList, RemoveRuleStep, RemoveOutboundStep, RestoreRuleStep, RepairAdd, RepairAddRule, RepairEnd,
     Rejoin, RejoinView, RejoinBegin, RejoinAdd, RejoinAddRule, RejoinUndoOut, RejoinUndoAdd, RejoinEnd,
     Read, FreePC, At, xrayVars
<1>3. faults = 0 /\ pc[w] \in {"repair-add", "rejoin-add"} => CapFree
  <2> SUFFICES ASSUME faults = 0, pc[w] \in {"repair-add", "rejoin-add"}
               PROVE  CapFree
    OBVIOUS
  <2>1. port[w] # 0 /\ (\A t \in Tunnels \ {w} : AsRecorded(t)) /\ Placed(w, {}, "none")
    BY DEF MatchInv, Matching, WorkerHas, RepairPC, RejoinPC
  <2>2. Covers(Known \ {w}) /\ \A a, b \in outs : a[1] = b[1] => a = b
    BY <2>1, OneOutbound DEF Placed, Has
  <2>3. IsFiniteSet(Known \ {w}) /\ Cardinality(Known \ {w}) < MaxActive
    BY <2>1, ActiveFit DEF SlotInv, Known
  <2> QED
    BY <2>2, <2>3, Room
<1>4. faults = 0 /\ WorkerHas(w)' /\ FreeMatches'
  <2>1. TargetTypeOK /\ LockHeld /\ (faults = 0 => FreeMatches /\ WorkerHas(w))
    BY DEF TypeOK, CapInv, MatchInv, Matching
  <2>2. CASE \/ StartCheck(w) \/ CheckFails(w) \/ CheckSucceeds(w)
    <3>1. \E next \in {"repair", "replace"} : StartCheck(w) \/ ProbeFails(w, next) \/ ProbeSucceeds(w)
      BY <2>2 DEF CheckFails, CheckSucceeds
    <3> QED
      BY <2>1, <3>1, CheckMatches
  <2>3. CASE Repair(w)
    BY <1>3, <2>1, <2>3, RepairMatches
  <2>4. CASE Rejoin(w)
    BY <1>3, <2>1, <2>4, RejoinMatches
  <2> QED
    BY <2>2, <2>3, <2>4
<1>5. SlotHas(w)'
  BY <1>0 DEF SlotHas, FreePC, RepairPC, RejoinPC, FailPC
<1>6. Matching /\ ~failed' /\ UNCHANGED <<plan, todo, left, added, failed>>
  BY <1>1, <1>4 DEF MatchInv, Matching, syncVars
<1> QED
  BY <1>0, <1>1, <1>2, <1>4, <1>5, <1>6, MatchMove DEF Mutating

(* The tunnel that takes a slot is not active yet.                         *)
LEMMA NewcomerFree ==
  ASSUME SlotInv, NEW p \in Procs, pc[p] \in ReplacePC \cup FillPC, p \in Tunnels => pc[p] \notin FillPC, to # 0
  PROVE  to \in Tunnels /\ port[to] = 0
<1>1. SlotChoice(p)
  BY DEF SlotInv
<1>2. CASE pc[p] \in ReplacePC /\ p = Sync
  BY <1>1, <1>2 DEF SlotChoice, ActsHold, Final, Eligibly, Known
<1>3. CASE pc[p] \in ReplacePC /\ p # Sync
  BY <1>1, <1>3 DEF SlotChoice, WorkerHolds, Eligibly, Known
<1>4. CASE pc[p] \in FillPC
  BY <1>1, <1>4 DEF SlotChoice, FillHolds, Eligibly, Known, Procs
<1> QED
  BY <1>2, <1>3, <1>4

(* The calls of RemoveTunnel and ReplaceTunnel (tunnel.go), none of which  *)
(* fails: what they remove is there, and what they add is not.             *)
LEMMA SlotCallMatches ==
  ASSUME TypeOK, CapInv, PortInv, SlotInv, MatchInv, faults' = 0, NEW p \in Procs,
         SlotRemove(p) \/ SlotAddOutbound(p) \/ SlotAdd(p)
  PROVE  Matching'
<1> USE DEF At, Goto, Then
<1>0. /\ pc \in [Procs -> Labels] /\ Moving(p) /\ Mutating(p) /\ pc[p] \in ReplacePC /\ lock' = lock
      /\ ins \in [Tunnels -> Ports \cup {0}] /\ rules \in [Tunnels -> Variants \cup {"none"}]
      /\ ~Fault /\ (Answered => faults = 0) /\ Initial \in Variants
  BY SlotStep, NoFault, InitialType
     DEF CapInv, PcTypeOK, Mutating, SlotRemove, SlotAddOutbound, SlotAdd, FreePC, ReplacePC,
     TypeOK, TargetTypeOK, XrayTypeOK, RPCLeaves
<1>1. UNCHANGED <<port, cur, syncVars, from, to, at>>
  BY DEF SlotRemove, SlotAddOutbound, SlotAdd, RPCLeaves, memVars, slotVars
<1>2. /\ from \in Tunnels /\ port[from] # 0 /\ cur[from] \in Variants /\ from \in Known
      /\ to # 0 => to \in Tunnels /\ port[to] = 0
      /\ pc[p] \in ToPC => to # 0
  <2>1. from \in Known
    BY <1>0 DEF SlotInv, SlotChoice
  <2>2. to # 0 => to \in Tunnels /\ port[to] = 0
    BY <1>0, NewcomerFree DEF ReplacePC, FillPC
  <2> QED
    BY <2>1, <2>2 DEF Known, TypeOK, TargetTypeOK, MemTypeOK, ToSet
<1>a. \A t \in Tunnels : /\ ins'[t] = ins[t] /\ rules'[t] = rules[t]
                         /\ \A v \in Variants : <<t, v>> \in outs' <=> <<t, v>> \in outs
                         => (AsRecorded(t)' <=> AsRecorded(t))
  BY <1>1, RecordStays
<1>3. faults = 0 /\ SlotHas(p)'
  <2>1. CASE SlotRemove(p) /\ pc[p] = "slot-rm-rule"
    <3>1. /\ Answered /\ UNCHANGED <<outs, ins>> /\ pc'[p] = "slot-rm-out"
          /\ rules' = [rules EXCEPT ![from] = "none"]
      BY <1>0, <2>1 DEF SlotRemove, RemoveRule, Refused, Lost
    <3>2. faults = 0 /\ RecordedBut({})
      BY <1>0, <2>1, <3>1 DEF MatchInv, Matching, SlotHas
    <3>3. RecordedBut({from})'
      BY <1>0, <1>1, <1>a, <3>1, <3>2 DEF RecordedBut
    <3>4. Has(from, {cur[from]}, port[from], "none")'
      BY <1>0, <1>1, <1>2, <3>1, <3>2 DEF RecordedBut, AsRecorded, Placed, Has
    <3> QED
      BY <3>1, <3>2, <3>3, <3>4 DEF SlotHas, FailPC
  <2>2. CASE SlotRemove(p) /\ pc[p] = "slot-rm-out"
    <3>1. /\ Answered /\ UNCHANGED <<rules, ins>> /\ pc'[p] \in {"slot-rm-other", "slot-rm-in"}
          /\ outs' = outs \ {<<from, cur[from]>>}
      BY <1>0, <2>2 DEF SlotRemove, RemoveOutbound, Refused, Lost
    <3>2. faults = 0 /\ RecordedBut({from}) /\ Has(from, {cur[from]}, port[from], "none")
      BY <1>0, <2>2, <3>1 DEF MatchInv, Matching, SlotHas
    <3>3. RecordedBut({from})'
      BY <1>0, <1>1, <1>a, <3>1, <3>2 DEF RecordedBut
    <3>4. Has(from, {}, port[from], "none")'
      BY <1>0, <1>1, <1>2, <3>1, <3>2 DEF Has
    <3> QED
      BY <3>1, <3>2, <3>3, <3>4 DEF SlotHas, FailPC
  <2>3. CASE SlotRemove(p) /\ pc[p] = "slot-rm-other"
    <3>1. /\ Answered /\ UNCHANGED <<rules, ins>> /\ pc'[p] = "slot-rm-in"
          /\ outs' = outs \ {<<from, Other(cur[from])>>}
      BY <1>0, <2>3 DEF SlotRemove, RemoveOutbound, Refused, Lost
    <3>2. faults = 0 /\ RecordedBut({from}) /\ Has(from, {}, port[from], "none")
      BY <1>0, <2>3, <3>1 DEF MatchInv, Matching, SlotHas
    <3>3. RecordedBut({from})'
      BY <1>0, <1>1, <1>a, <3>1, <3>2 DEF RecordedBut
    <3>4. Has(from, {}, port[from], "none")'
      BY <1>0, <1>1, <1>2, <3>1, <3>2 DEF Has
    <3> QED
      BY <3>1, <3>2, <3>3, <3>4 DEF SlotHas, FailPC
  <2>4. CASE SlotRemove(p) /\ pc[p] = "slot-restore"
    <3>1. Answered
      BY <1>0, <2>4 DEF SlotRemove, AddRule, Refused, Lost, Answered
    <3> QED
      BY <1>0, <2>4, <3>1 DEF MatchInv, Matching, SlotHas, FailPC
  <2>5. CASE SlotRemove(p) /\ pc[p] = "slot-rm-in"
    <3>0. PICK ok \in BOOLEAN :
                 /\ RemoveInbound(from, ok)
                 /\ Then(p, ok, IF to = 0 THEN "slot-done" ELSE "slot-add", "slot-failed")
      BY <1>0, <2>5 DEF SlotRemove
    <3>1. Answered /\ UNCHANGED <<outs, rules>>
      BY <1>0, <3>0 DEF RemoveInbound, Refused, Lost
    <3>2. faults = 0 /\ RecordedBut({from}) /\ Has(from, {}, port[from], "none")
      BY <1>0, <2>5, <3>1 DEF MatchInv, Matching, SlotHas
    <3>3. ins' = [ins EXCEPT ![from] = 0] /\ pc'[p] = IF to = 0 THEN "slot-done" ELSE "slot-add"
      BY <1>0, <1>2, <3>0, <3>2 DEF RemoveInbound, Refused, Lost, Has
    <3>4. RecordedBut({from})'
      BY <1>0, <1>1, <1>a, <3>1, <3>2, <3>3 DEF RecordedBut
    <3>5. Has(from, {}, 0, "none")'
      BY <1>0, <1>1, <1>2, <3>1, <3>2, <3>3 DEF Has
    <3>6. RecordedBut({from, to})'
      BY <3>4 DEF RecordedBut
    <3> QED
      BY <1>1, <3>2, <3>3, <3>4, <3>5, <3>6 DEF SlotHas, FailPC
  <2>6. CASE SlotAddOutbound(p)
    <3>0. pc[p] = "slot-add" /\ UNCHANGED <<ins, rules>> /\ to # 0
      BY <1>0, <1>2, <2>6 DEF SlotAddOutbound, CappedAdd, CheckCap, SendAdd, Read, AddOutbound, ToPC
    <3>a. faults = 0 => RecordedBut({from}) /\ Has(from, {}, 0, "none")
      BY <3>0 DEF MatchInv, Matching, SlotHas
    <3>1. CASE CheckCap(p, "slot-failed", FALSE)
      <4>1. Answered /\ outs' = outs /\ faults = 0
        BY <1>0, <3>1 DEF CheckCap, Read, Refused
      <4>2. CapFree
        <5>1. Covers(Known \ {from}) /\ \A a, b \in outs : a[1] = b[1] => a = b
          BY <1>2, <3>a, <4>1, OneOutbound DEF RecordedBut, Has
        <5> QED
          BY <1>2, <5>1, ActiveFit, Room DEF SlotInv
      <4>3. pc' = pc
        BY <1>0, <3>1, <4>1, <4>2 DEF CheckCap, Read, Refused
      <4>4. RecordedBut({from})' /\ Has(from, {}, 0, "none")'
        BY <1>0, <1>1, <1>a, <3>0, <3>a, <4>1 DEF RecordedBut, Has
      <4> QED
        BY <3>0, <4>1, <4>3, <4>4 DEF SlotHas, FailPC
    <3>2. ASSUME NEW ok \in BOOLEAN, SendAdd(p, <<to, Initial>>, ok), Then(p, ok, "slot-add-in", "slot-failed")
          PROVE  faults = 0 /\ SlotHas(p)'
      <4>1. Answered /\ faults = 0
        BY <1>0, <3>2 DEF SendAdd, AddOutbound, Refused, Lost
      <4>2. to # from /\ Has(to, {}, 0, "none")
        BY <1>2, <3>0, <3>a, <4>1 DEF RecordedBut, AsRecorded, Placed
      <4>3. outs' = outs \cup {<<to, Initial>>} /\ pc'[p] = "slot-add-in"
        BY <1>0, <3>2, <4>2 DEF SendAdd, AddOutbound, Refused, Lost, Has
      <4>4. RecordedBut({from, to})'
        BY <1>0, <1>1, <1>a, <3>0, <3>a, <4>1, <4>3 DEF RecordedBut
      <4>5. Has(from, {}, 0, "none")'
        BY <1>1, <3>0, <3>a, <4>1, <4>2, <4>3 DEF Has
      <4>6. Has(to, {Initial}, 0, "none")'
        BY <1>1, <3>0, <4>2, <4>3 DEF Has, Initial
      <4> QED
        BY <4>1, <4>3, <4>4, <4>5, <4>6 DEF SlotHas, FailPC
    <3> QED
      BY <2>6, <3>1, <3>2 DEF SlotAddOutbound, CappedAdd
  <2>7. CASE SlotAdd(p) /\ pc[p] = "slot-add-in"
    <3>0. PICK ok \in BOOLEAN : AddInbound(to, at, ok) /\ Then(p, ok, "slot-add-rule", "slot-failed")
      BY <1>0, <2>7 DEF SlotAdd
    <3>1. Answered /\ UNCHANGED <<outs, rules>> /\ to \in Tunnels /\ to # from
      BY <1>0, <1>2, <2>7, <3>0 DEF AddInbound, Refused, Lost, ToPC
    <3>2. faults = 0 /\ RecordedBut({from, to}) /\ Has(from, {}, 0, "none") /\ Has(to, {Initial}, 0, "none")
      BY <1>0, <2>7, <3>1 DEF MatchInv, Matching, SlotHas
    <3>3. ins' = [ins EXCEPT ![to] = at] /\ pc'[p] = "slot-add-rule"
      BY <1>0, <3>0, <3>2 DEF AddInbound, Refused, Lost, Has
    <3>4. RecordedBut({from, to})'
      BY <1>0, <1>1, <1>a, <3>1, <3>2, <3>3 DEF RecordedBut
    <3>5. Has(from, {}, 0, "none")'
      BY <1>0, <1>1, <3>1, <3>2, <3>3 DEF Has
    <3>6. Has(to, {Initial}, at, "none")'
      BY <1>0, <1>1, <3>1, <3>2, <3>3 DEF Has
    <3> QED
      BY <3>2, <3>3, <3>4, <3>5, <3>6 DEF SlotHas, FailPC
  <2>8. CASE SlotAdd(p) /\ pc[p] = "slot-add-rule"
    <3>0. PICK ok \in BOOLEAN : AddRule(to, Initial, ok) /\ Then(p, ok, "slot-done", "slot-failed")
      BY <1>0, <2>8 DEF SlotAdd
    <3>1. Answered /\ UNCHANGED <<outs, ins>> /\ to \in Tunnels /\ to # from
      BY <1>0, <1>2, <2>8, <3>0 DEF AddRule, Refused, Lost, ToPC
    <3>2. faults = 0 /\ RecordedBut({from, to}) /\ Has(from, {}, 0, "none") /\ Has(to, {Initial}, at, "none")
      BY <1>0, <2>8, <3>1 DEF MatchInv, Matching, SlotHas
    <3>3. rules' = [rules EXCEPT ![to] = Initial] /\ pc'[p] = "slot-done"
      BY <1>0, <3>0, <3>2 DEF AddRule, Refused, Lost, Has
    <3>4. RecordedBut({from, to})'
      BY <1>0, <1>1, <1>a, <3>1, <3>2, <3>3 DEF RecordedBut
    <3>5. Has(from, {}, 0, "none")'
      BY <1>0, <1>1, <3>1, <3>2, <3>3 DEF Has
    <3>6. Has(to, {Initial}, at, Initial)'
      BY <1>0, <1>1, <3>1, <3>2, <3>3 DEF Has
    <3> QED
      BY <3>2, <3>3, <3>4, <3>5, <3>6 DEF SlotHas, FailPC
  <2> QED
    BY <2>1, <2>2, <2>3, <2>4, <2>5, <2>6, <2>7, <2>8 DEF SlotRemove, SlotAdd
<1>4. /\ p # Sync => pc'[p] \notin RepairPC \cup RejoinPC \cup BadPC
      /\ p = Sync => pc'[Sync] \notin ApplyPC
  BY <1>0 DEF SlotRemove, SlotAddOutbound, SlotAdd, CappedAdd, CheckCap, SendAdd, ReplacePC, RepairPC, RejoinPC,
     BadPC, ApplyPC
<1>5. p # Sync => WorkerHas(p)'
  BY <1>4 DEF WorkerHas, RepairPC, RejoinPC
<1>6. FreeMatches'
  BY <1>0, ProcFacts DEF FreeMatches, CapInv, LockHeld
<1>7. Matching /\ ~failed'
  BY <1>1, <1>3 DEF MatchInv, Matching, syncVars
<1> QED
  BY <1>0, <1>1, <1>3, <1>4, <1>5, <1>6, <1>7, MatchMove DEF syncVars

(* ReplaceSourceTunnel after the calls of a slot: memory has the tunnel    *)
(* that Xray has.                                                          *)
LEMMA ReplacedMatches ==
  ASSUME TypeOK, NEW old \in Tunnels \cup {0}, NEW p,
         ReplaceSourceTunnel(old, to, p, FALSE), UNCHANGED <<outs, ins, rules>>,
         \A t \in Tunnels \ {old, to} : AsRecorded(t),
         old \in Tunnels => Has(old, {}, 0, "none"), old # to \/ old = 0,
         to # 0 => to \in Tunnels /\ p # 0 /\ Has(to, {Initial}, p, Initial)
  PROVE  RecordedBut({})'
<1>1. /\ port' = [t \in Tunnels |-> IF t = to THEN p ELSE IF t = old THEN 0 ELSE port[t]]
      /\ cur' = [t \in Tunnels |-> IF t \in {old, to} THEN Initial ELSE cur[t]]
  BY DEF ReplaceSourceTunnel, Restarted
<1>2. 0 \notin Tunnels
  BY ProcFacts DEF Sync
<1>3. ASSUME NEW t \in Tunnels
      PROVE  AsRecorded(t)'
  <2>1. CASE t \notin {old, to}
    BY <1>1, <2>1, RecordStays
  <2>2. CASE t = to
    <3>1. port'[t] = p /\ p # 0 /\ cur'[t] = Initial /\ Has(t, {Initial}, p, Initial)'
      BY <1>1, <1>2, <2>2 DEF Has
    <3> QED
      BY <3>1 DEF AsRecorded, Placed
  <2>3. CASE t = old /\ t # to
    <3>1. port'[t] = 0 /\ Has(t, {}, 0, "none")'
      BY <1>1, <2>3 DEF Has
    <3> QED
      BY <3>1 DEF AsRecorded, Placed
  <2> QED
    BY <2>1, <2>2, <2>3
<1> QED
  BY <1>3 DEF RecordedBut

(* The end of a replacement or of a removal, by the sync or by a worker.   *)
LEMMA SlotEndMatches ==
  ASSUME TypeOK, CapInv, PortInv, SlotInv, MatchInv, faults' = 0, NEW p \in Procs, Moving(p), Mutating(p),
         UNCHANGED xrayVars, pc'[p] \in FreePC \cup {"next-act"},
         p # Sync => UNCHANGED syncVars, ~failed \/ failed' = failed,
         failed' \in {failed, FALSE},
         \/ At(p, "slot-done") /\ ReplaceSourceTunnel(from, to, at, FALSE)
         \/ At(p, "slot-failed") /\ ReplaceSourceTunnel(from, 0, 0, TRUE)
  PROVE  Matching'
<1>0. faults = 0 /\ Matching /\ SlotHas(p)
  BY DEF MatchInv, Matching, xrayVars
<1>1. pc[p] = "slot-done" /\ ReplaceSourceTunnel(from, to, at, FALSE)
  BY <1>0 DEF SlotHas, FailPC, At
<1>2. from \in Tunnels /\ port[from] # 0 /\ at = port[from] /\ (to # 0 => to \in Tunnels /\ port[to] = 0)
  <2>1. from \in Known /\ at = port[from]
    BY <1>1 DEF SlotInv, SlotChoice, ReplacePC, PortInv, SlotPorts
  <2>2. to # 0 => to \in Tunnels /\ port[to] = 0
    BY <1>1, NewcomerFree DEF ReplacePC, FillPC
  <2> QED
    BY <2>1, <2>2 DEF Known
<1>3. RecordedBut({})'
  <2>1. /\ \A t \in Tunnels \ {from, to} : AsRecorded(t)
        /\ Has(from, {}, 0, "none")
        /\ to # 0 => Has(to, {Initial}, at, Initial)
    BY <1>0, <1>1 DEF SlotHas, RecordedBut
  <2> QED
    BY <1>1, <1>2, <2>1, ReplacedMatches DEF xrayVars
<1>4. SlotHas(p)'
  BY <1>3 DEF SlotHas, FreePC, FailPC
<1>5. p # Sync => WorkerHas(p)'
  BY DEF WorkerHas, FreePC, RepairPC, RejoinPC, BadPC
<1>6. FreeMatches'
  BY <1>3 DEF FreeMatches, RecordedBut
<1>7. ~failed'
  BY <1>0 DEF Matching
<1>8. p = Sync => pc'[Sync] \notin ApplyPC
  BY DEF FreePC, ApplyPC
<1> QED
  BY <1>0, <1>4, <1>5, <1>6, <1>7, <1>8, MatchMove DEF syncVars

(* The calls of AddTunnel and the end of a fill (fill).                    *)
LEMMA FillMatches ==
  ASSUME TypeOK, CapInv, PortInv, SlotInv, MatchInv, faults' = 0,
         FillAddOutbound \/ FillAdd \/ FillEnd
  PROVE  Matching'
<1> USE DEF At, Goto, Then
<1>0. /\ pc \in [Procs -> Labels] /\ Sync \in Procs /\ Moving(Sync) /\ Mutating(Sync)
      /\ ins \in [Tunnels -> Ports \cup {0}] /\ rules \in [Tunnels -> Variants \cup {"none"}]
      /\ ~Fault /\ (Answered => faults = 0) /\ Initial \in Variants
  BY FillStep, SyncQuietStep, NoFault, InitialType, ProcFacts DEF CapInv, PcTypeOK, Mutating, FillAddOutbound, FillAdd,
     FillEnd, FreePC, TypeOK, TargetTypeOK, XrayTypeOK
<1>a. \A t \in Tunnels : /\ UNCHANGED <<port, cur>>
                         /\ ins'[t] = ins[t] /\ rules'[t] = rules[t]
                         /\ \A v \in Variants : <<t, v>> \in outs' <=> <<t, v>> \in outs
                         => (AsRecorded(t)' <=> AsRecorded(t))
  BY RecordStays
<1>1. faults = 0 => pc[Sync] \in FillPC /\ Matching /\ SlotHas(Sync)
  BY <1>0 DEF MatchInv, Matching, SlotHas, FailPC, FillPC, FillAddOutbound, FillAdd, FillEnd
<1>2. pc[Sync] \in FillPC => to \in Tunnels /\ port[to] = 0 /\ at # 0 /\ Cardinality(Known) < MaxActive
  <2> SUFFICES ASSUME pc[Sync] \in FillPC
               PROVE  to \in Tunnels /\ port[to] = 0 /\ at # 0 /\ Cardinality(Known) < MaxActive
    OBVIOUS
  <2>1. to # 0
    BY <1>0 DEF TypeOK, ToSet, ToPC
  <2>2. to \in Tunnels /\ port[to] = 0
    BY <1>0, <2>1, ProcFacts, NewcomerFree
  <2>3. at # 0
    BY <1>0, <2>2 DEF PortInv, SlotPorts
  <2>4. Cardinality(Known) < MaxActive
    BY <1>0 DEF SlotInv, SlotChoice, FillHolds
  <2> QED
    BY <2>2, <2>3, <2>4
<1>3. faults = 0 /\ SlotHas(Sync)' /\ FreeMatches' /\ failed' = failed
  <2>1. CASE FillAddOutbound
    <3>0. pc[Sync] = "fill-add" /\ UNCHANGED <<ins, rules, port, cur, to, at, lock, failed>>
      BY <2>1 DEF FillAddOutbound, CappedAdd, CheckCap, SendAdd, Read, AddOutbound, syncVars, slotVars
    <3>1. CASE CheckCap(Sync, "fill-undo-out", FALSE)
      <4>1. Answered /\ outs' = outs /\ faults = 0
        BY <1>0, <3>1 DEF CheckCap, Read, Refused
      <4>2. RecordedBut({})
        BY <1>1, <3>0, <4>1 DEF SlotHas
      <4>3. CapFree
        <5> DEFINE S == {}
        <5>0. /\ \A t \in Tunnels : t \in S \/ AsRecorded(t)
              /\ \A t \in S, v \in Variants : <<t, v>> \notin outs
          BY <4>2 DEF RecordedBut
        <5>1. Covers(Known \ S) /\ \A a, b \in outs : a[1] = b[1] => a = b
          <6> HIDE DEF S
          <6> QED
            BY <5>0, OneOutbound
        <5>2. Covers(Known)
          BY <5>1
        <5> QED
          BY <1>2, <3>0, <5>1, <5>2, ActiveFit, Room DEF SlotInv, FillPC
      <4>4. pc' = pc
        BY <1>0, <3>1, <4>1, <4>3 DEF CheckCap, Read, Refused
      <4>5. RecordedBut({})'
        BY <3>0, <4>1, <4>2, FreeStays
      <4> QED
        BY <1>0, <3>0, <4>1, <4>4, <4>5 DEF SlotHas, FailPC, FreeMatches, RecordedBut
    <3>2. ASSUME NEW ok \in BOOLEAN, SendAdd(Sync, <<to, Initial>>, ok), Then(Sync, ok, "fill-add-in", "fill-undo-out")
          PROVE  faults = 0 /\ SlotHas(Sync)' /\ FreeMatches' /\ failed' = failed
      <4>1. Answered /\ faults = 0
        BY <1>0, <3>2 DEF SendAdd, AddOutbound, Refused, Lost
      <4>2. RecordedBut({}) /\ Has(to, {}, 0, "none")
        BY <1>1, <1>2, <3>0, <4>1 DEF SlotHas, RecordedBut, AsRecorded, Placed, FillPC
      <4>3. outs' = outs \cup {<<to, Initial>>} /\ pc'[Sync] = "fill-add-in"
        BY <1>0, <3>2, <4>2 DEF SendAdd, AddOutbound, Refused, Lost, Has
      <4>4. RecordedBut({to})'
        BY <1>a, <3>0, <4>2, <4>3 DEF RecordedBut
      <4>5. Has(to, {Initial}, 0, "none")'
        BY <3>0, <4>2, <4>3 DEF Has, Initial
      <4>6. lock' # Nobody
        BY <1>0, <3>0, ProcFacts DEF CapInv, LockHeld
      <4> QED
        BY <3>0, <4>1, <4>3, <4>4, <4>5, <4>6 DEF SlotHas, FailPC, FreeMatches
    <3> QED
      BY <2>1, <3>1, <3>2 DEF FillAddOutbound, CappedAdd
  <2>2. CASE FillAdd /\ pc[Sync] = "fill-add-in"
    <3>0. PICK ok \in BOOLEAN : AddInbound(to, at, ok) /\ Then(Sync, ok, "fill-add-rule", "fill-undo-out")
      BY <2>2 DEF FillAdd
    <3>1. Answered /\ UNCHANGED <<outs, rules, port, cur, to, at, lock, failed>>
      BY <1>0, <2>2, <3>0 DEF AddInbound, Refused, Lost, FillAdd, RPCLeaves, memVars, syncVars, slotVars
    <3>2. faults = 0 /\ RecordedBut({to}) /\ Has(to, {Initial}, 0, "none")
      BY <1>0, <1>1, <2>2, <3>1 DEF SlotHas
    <3>3. ins' = [ins EXCEPT ![to] = at] /\ pc'[Sync] = "fill-add-rule"
      BY <1>0, <3>0, <3>2 DEF AddInbound, Refused, Lost, Has
    <3>4. RecordedBut({to})'
      BY <1>0, <1>a, <3>1, <3>2, <3>3 DEF RecordedBut
    <3>5. Has(to, {Initial}, at, "none")'
      BY <1>0, <1>2, <2>2, <3>1, <3>2, <3>3 DEF Has, FillPC
    <3>6. lock' # Nobody
      BY <1>0, <3>1, ProcFacts DEF CapInv, LockHeld
    <3> QED
      BY <3>1, <3>2, <3>3, <3>4, <3>5, <3>6 DEF SlotHas, FailPC, FreeMatches
  <2>3. CASE FillAdd /\ pc[Sync] = "fill-add-rule"
    <3>0. PICK ok \in BOOLEAN : AddRule(to, Initial, ok) /\ Then(Sync, ok, "fill-done", "fill-undo-rule")
      BY <2>3 DEF FillAdd
    <3>1. Answered /\ UNCHANGED <<outs, ins, port, cur, to, at, lock, failed>>
      BY <1>0, <2>3, <3>0 DEF AddRule, Refused, Lost, FillAdd, RPCLeaves, memVars, syncVars, slotVars
    <3>2. faults = 0 /\ RecordedBut({to}) /\ Has(to, {Initial}, at, "none")
      BY <1>0, <1>1, <2>3, <3>1 DEF SlotHas
    <3>3. rules' = [rules EXCEPT ![to] = Initial] /\ pc'[Sync] = "fill-done"
      BY <1>0, <3>0, <3>2 DEF AddRule, Refused, Lost, Has
    <3>4. RecordedBut({to})'
      BY <1>0, <1>a, <3>1, <3>2, <3>3 DEF RecordedBut
    <3>5. Has(to, {Initial}, at, Initial)'
      BY <1>0, <1>2, <2>3, <3>1, <3>2, <3>3 DEF Has, FillPC
    <3>6. lock' # Nobody
      BY <1>0, <3>1, ProcFacts DEF CapInv, LockHeld
    <3> QED
      BY <3>1, <3>2, <3>3, <3>4, <3>5, <3>6 DEF SlotHas, FailPC, FreeMatches
  <2>4. CASE FillAdd /\ pc[Sync] \in FailPC
    <3>1. Answered
      BY <1>0, <2>4 DEF FillAdd, RemoveRule, RemoveInbound, RemoveOutbound, Refused, Lost, Answered, FailPC
    <3> QED
      BY <1>0, <1>1, <2>4, <3>1 DEF FillPC, FailPC
  <2>5. CASE FillEnd
    <3>1. faults = 0 /\ UNCHANGED <<outs, ins, rules>>
      BY <2>5 DEF FillEnd, xrayVars
    <3>2. pc[Sync] = "fill-done" /\ ReplaceSourceTunnel(0, to, at, FALSE) /\ pc'[Sync] = "fill" /\ failed' = failed
      BY <1>0, <1>1, <2>5, <3>1 DEF FillEnd, FillPC, syncVars
    <3>3. to \in Tunnels /\ at # 0 /\ to # 0 /\ RecordedBut({to}) /\ Has(to, {Initial}, at, Initial)
      BY <1>1, <1>2, <3>1, <3>2, ProcFacts DEF SlotHas, FillPC, Sync
    <3>4. 0 \notin Tunnels
      BY ProcFacts DEF Sync
    <3>5. RecordedBut({})'
      BY <3>1, <3>2, <3>3, <3>4, ReplacedMatches DEF RecordedBut
    <3> QED
      BY <3>1, <3>2, <3>5 DEF SlotHas, FailPC, FreeMatches, RecordedBut
  <2> QED
    BY <2>1, <2>2, <2>3, <2>4, <2>5 DEF FillAdd, FailPC
<1>4. pc'[Sync] \notin ApplyPC
  BY <1>0 DEF FillAddOutbound, FillAdd, FillEnd, CappedAdd, CheckCap, SendAdd, SyncEnd, Unlock, ApplyPC
<1> QED
  BY <1>0, <1>1, <1>3, <1>4, MatchMove DEF Matching

(* The steps of a sync between its calls that change a slot: what it found *)
(* when it took the lock is still so.                                      *)
LEMMA SyncQuietMatches ==
  ASSUME TypeOK, CapInv, PortInv, SlotInv, MatchInv, faults' = 0,
         SyncStart \/ SyncBegin \/ SyncList \/ DecideSlots \/ NextAct \/ FillNext \/ FullBegin
  PROVE  Matching'
<1> USE DEF At, Goto, Then, Unlock
<1>0. /\ pc \in [Procs -> Labels] /\ Sync \in Procs /\ Moving(Sync)
      /\ ~Fault /\ (Answered => faults = 0)
  BY SyncQuietStep, NoFault, ProcFacts DEF CapInv, PcTypeOK, TypeOK
<1>1. UNCHANGED <<outs, ins, rules, port, cur>> /\ Answered
  BY <1>0 DEF SyncStart, SyncBegin, SyncList, DecideSlots, NextAct, FillNext, FullBegin, Read, Refused,
     xrayVars, memVars, Answered
<1>2. faults = 0 /\ Matching /\ SlotHas(Sync) /\ (RecordedBut({})' <=> RecordedBut({}))
  BY <1>0, <1>1, FreeStays DEF MatchInv, Matching
<1>3. pc[Sync] \in FreePC => UNCHANGED <<from, to, at>>
  BY <1>0 DEF SyncStart, SyncBegin, SyncList, DecideSlots, NextAct, FillNext, FullBegin, FreePC, slotVars
<1>4. ~failed'
  <2>1. failed' = failed \/ failed' = FALSE
    BY DEF SyncStart, SyncBegin, SyncList, DecideSlots, NextAct, FillNext, FullBegin, SyncEnd, syncVars
  <2> QED
    BY <1>2, <2>1 DEF Matching
<1>5. SlotHas(Sync)' /\ FreeMatches'
  <2>1. CASE SyncStart
    <3>1. pc'[Sync] = "apply" /\ lock' = lock
      BY <1>0, <2>1 DEF SyncStart
    <3> QED
      BY <1>1, <1>2, <3>1, FreeStays DEF SlotHas, FailPC, Matching, FreeMatches, RecordedBut
  <2>2. CASE SyncBegin
    <3>1. /\ pc'[Sync] \in {"full", "sync-list"} /\ lock = Nobody /\ lock' # Nobody
      BY <1>0, <2>2, ProcFacts DEF SyncBegin, Read, Refused, LockTarget
    <3>2. RecordedBut({})'
      BY <1>2, <3>1 DEF Matching, FreeMatches, RecordedBut
    <3> QED
      BY <3>1, <3>2 DEF SlotHas, FailPC, FreeMatches
  <2>3. CASE SyncList \/ DecideSlots \/ NextAct \/ FillNext
    <3>1. pc[Sync] \in {"sync-list", "decide", "next-act", "fill"}
      BY <2>3 DEF SyncList, DecideSlots, NextAct, FillNext
    <3>2. pc'[Sync] \in {"full", "decide", "next-act", "fill", "slot-rm-rule", "fill-add", "idle"}
      BY <1>0, <2>3 DEF SyncList, DecideSlots, NextAct, FillNext, SyncEnd, Read, Refused
    <3>3. RecordedBut({})'
      BY <1>2, <3>1 DEF SlotHas
    <3> QED
      BY <3>2, <3>3 DEF SlotHas, FailPC, FreeMatches, RecordedBut
  <2>4. CASE FullBegin
    <3>1. pc[Sync] = "full" /\ pc'[Sync] = "out-list" /\ lock' = lock
      BY <1>0, <2>4 DEF FullBegin
    <3>2. lock # Nobody
      BY <1>0, <3>1, ProcFacts DEF CapInv, LockHeld, Mutating, FreePC
    <3> QED
      BY <3>1, <3>2 DEF SlotHas, FailPC, FreeMatches
  <2> QED
    BY <2>1, <2>2, <2>3, <2>4
<1>6. pc'[Sync] \in ApplyPC => SyncHas' /\ ApplyHas'
  <2>1. pc'[Sync] \in ApplyPC => pc'[Sync] = "out-list"
    BY <1>0 DEF SyncStart, SyncBegin, SyncList, DecideSlots, NextAct, FillNext, FullBegin, SyncEnd, ApplyPC
  <2> QED
    BY <1>4, <2>1 DEF SyncHas, ApplyHas, InPC, RulePC
<1> QED
  BY <1>0, <1>1, <1>2, <1>3, <1>4, <1>5, <1>6, MatchMove DEF Mutating

(* A full apply and its end: memory becomes the plan that Xray has.        *)
LEMMA FullMatches ==
  ASSUME TypeOK, CapInv, PortInv, SlotInv, MatchInv, faults' = 0,
         \/ ApplyPlans /\ UNCHANGED <<fileVars, loaded, selVars, fails, slotVars>>
         \/ FullEnd
  PROVE  Matching'
<1> USE DEF At, Goto
<1>0. /\ pc \in [Procs -> Labels] /\ Sync \in Procs /\ plan \in [Tunnels -> Ports \cup {0}] /\ outs \subseteq Tags
  BY ProcFacts DEF TypeOK, TargetTypeOK, CtlTypeOK, SyncTypeOK, XrayTypeOK
<1>1. CASE ApplyPlans /\ UNCHANGED <<fileVars, loaded, selVars, fails, slotVars>>
  <2>1. faults = 0 /\ pc[Sync] = "out-add" /\ Unplaced # {} => CapFree
    <3> SUFFICES ASSUME faults = 0, pc[Sync] = "out-add", Unplaced # {}
                 PROVE  CapFree
      OBVIOUS
    <3>1. outs = added \X {Initial} /\ added \subseteq Planned
      BY DEF MatchInv, Matching, ApplyHas
    <3>2. PICK u \in Planned : u \notin added
      BY DEF Unplaced, Planned
    <3>3. IsFiniteSet(Planned) /\ Cardinality(Planned) <= MaxActive
      <4>1. Cardinality(Planned) <= MaxActive
        BY DEF SlotInv, PlanHolds, ApplyPC
      <4>2. IsFiniteSet(Tunnels) /\ Planned \subseteq Tunnels
        BY XrayAssumption, FS_Interval DEF Tunnels, Planned
      <4> QED
        BY <4>1, <4>2, FS_Subset
    <3>4. IsFiniteSet(Planned \ {u}) /\ Cardinality(Planned \ {u}) < MaxActive
      <4>1. IsFiniteSet(Planned \ {u}) /\ Cardinality(Planned \ {u}) = Cardinality(Planned) - 1
        BY <3>2, <3>3, FS_RemoveElement
      <4>2. Cardinality(Planned) \in Nat
        BY <3>3, FS_CardinalityType
      <4> QED
        BY <3>3, <4>1, <4>2, CandidateAssumption
    <3>5. Covers(Planned \ {u}) /\ \A a, b \in outs : a[1] = b[1] => a = b
      BY <3>1, <3>2 DEF Covers
    <3> QED
      BY <3>4, <3>5, Room
  <2>2. faults = 0 => SyncHas /\ ApplyHas
    BY DEF MatchInv, Matching
  <2>3. faults = 0 /\ SyncHas' /\ Mutating(Sync) /\ lock' = Sync
    BY <1>1, <2>1, <2>2, ApplyMatches DEF TypeOK, CapInv
  <2>4. pc[Sync] \in ApplyPC /\ pc'[Sync] \in ApplyPC
    BY <1>1, ApplyOuts
  <2>5. ~failed' /\ ApplyHas'
    BY <1>1, <2>2, <2>3, <2>4, ApplyKnowsOn DEF SyncHas, ApplyKnown, TypeOK
  <2>6. SlotHas(Sync)'
    BY <2>4 DEF SlotHas, ApplyPC, FailPC
  <2>7. FreeMatches'
    BY <2>3, ProcFacts DEF FreeMatches
  <2>8. Moving(Sync) /\ Matching
    BY <1>1, <2>3, ApplyMoves DEF CapInv, MatchInv
  <2> QED
    BY <1>0, <2>3, <2>5, <2>6, <2>7, <2>8, MatchMove
<1>2. CASE FullEnd
  <2>1. pc[Sync] = "commit" /\ pc'[Sync] = "idle" /\ faults = 0 /\ UNCHANGED <<outs, ins, rules>> /\ ~failed'
    BY <1>0, <1>2 DEF FullEnd, SyncEnd, Unlock, xrayVars
  <2>2. Matching /\ ~failed
    BY <2>1 DEF MatchInv, Matching
  <2>3. port' = plan /\ \A t \in Tunnels : cur'[t] = Initial
    BY <1>2, <2>2 DEF FullEnd, Restarted
  <2>4. outs = Planned \X {Initial} /\ ins = plan /\ rules = RouteOn(Planned)
    BY <2>1, <2>2 DEF Matching, ApplyHas, InPC, RulePC
  <2>5. ASSUME NEW t \in Tunnels
        PROVE  AsRecorded(t)'
    BY <2>1, <2>3, <2>4 DEF AsRecorded, Placed, Has, Planned, RouteOn
  <2>6. SlotHas(Sync)' /\ FreeMatches' /\ pc'[Sync] \notin ApplyPC /\ Mutating(Sync)
    BY <2>1, <2>5 DEF SlotHas, FailPC, FreeMatches, ApplyPC, Mutating, FreePC
  <2>7. Moving(Sync)
    BY <1>2, SyncQuietStep
  <2> QED
    BY <1>0, <2>1, <2>2, <2>6, <2>7, MatchMove
<1> QED
  BY <1>1, <1>2

(* The replacement by the monitor (ReplaceFailed) around its calls: a      *)
(* tunnel that memory has is never without its inbound.                    *)
LEMMA ReplaceMatches ==
  ASSUME TypeOK, CapInv, PortInv, SlotInv, MatchInv, faults' = 0, NEW w \in Tunnels,
         \/ ReplaceSkip(w) \/ ReplaceBegin(w) \/ ReplaceList(w) \/ ReplaceChoose(w) \/ ReplaceEnd(w)
  PROVE  Matching'
<1> USE DEF At, Goto, Unlock
<1>0. /\ w \in Procs /\ w # Sync /\ Moving(w) /\ pc \in [Procs -> Labels]
      /\ ~Fault /\ (Answered => faults = 0)
  BY ProcFacts, ReplaceQuietStep, NoFault DEF CapInv, PcTypeOK, TypeOK
<1>1. UNCHANGED syncVars
  BY DEF ReplaceSkip, ReplaceBegin, ReplaceList, ReplaceChoose, ReplaceEnd
<1>2. CASE ReplaceSkip(w) \/ ReplaceBegin(w) \/ ReplaceList(w) \/ ReplaceChoose(w)
  <2>1. UNCHANGED <<outs, ins, rules, port, cur>> /\ Answered
    BY <1>0, <1>2 DEF ReplaceSkip, ReplaceBegin, ReplaceList, ReplaceChoose, Read, Refused, xrayVars, memVars, Answered
  <2>2. faults = 0 /\ Matching /\ SlotHas(w) /\ (RecordedBut({})' <=> RecordedBut({}))
    BY <1>0, <2>1, FreeStays DEF MatchInv, Matching
  <2>3. pc[w] \in FreePC => UNCHANGED <<from, to, at>>
    BY <1>2 DEF ReplaceSkip, ReplaceBegin, ReplaceList, ReplaceChoose, FreePC, slotVars
  <2>4. SlotHas(w)' /\ FreeMatches'
    <3>1. CASE ReplaceSkip(w)
      <4>1. pc'[w] = "repair" /\ lock' = lock
        BY <1>0, <3>1 DEF ReplaceSkip
      <4> QED
        BY <2>2, <4>1 DEF SlotHas, FailPC, Matching, FreeMatches, RecordedBut
    <3>2. CASE ReplaceBegin(w)
      <4>1. pc'[w] = "replace-list" /\ lock = Nobody /\ lock' # Nobody
        BY <1>0, <3>2, ProcFacts DEF ReplaceBegin, Read, Refused, LockTarget
      <4>2. RecordedBut({})'
        BY <2>2, <4>1 DEF Matching, FreeMatches, RecordedBut
      <4> QED
        BY <4>1, <4>2 DEF SlotHas, FailPC, FreeMatches
    <3>3. CASE ReplaceList(w)
      <4>1. pc[w] = "replace-list" /\ RecordedBut({})'
        BY <2>2, <3>3 DEF ReplaceList, SlotHas
      <4>2. pc'[w] \in {"repair", "replace-choose", "idle"}
        BY <1>0, <3>3 DEF ReplaceList
      <4> QED
        BY <4>1, <4>2 DEF SlotHas, FailPC, FreeMatches, RecordedBut
    <3>4. CASE ReplaceChoose(w)
      <4>1. pc[w] = "replace-choose" /\ RecordedBut({})'
        BY <2>2, <3>4 DEF ReplaceChoose, SlotHas
      <4>2. pc'[w] \in {"repair", "slot-rm-rule"}
        BY <1>0, <3>4 DEF ReplaceChoose
      <4> QED
        BY <4>1, <4>2 DEF SlotHas, FailPC, FreeMatches, RecordedBut
    <3> QED
      BY <1>2, <3>1, <3>2, <3>3, <3>4
  <2>5. pc'[w] \notin RepairPC \cup RejoinPC \cup BadPC
    BY <1>0, <1>2 DEF ReplaceSkip, ReplaceBegin, ReplaceList, ReplaceChoose, RepairPC, RejoinPC, BadPC
  <2>6. WorkerHas(w)'
    BY <2>5 DEF WorkerHas, RepairPC, RejoinPC
  <2> QED
    BY <1>0, <1>1, <2>1, <2>2, <2>3, <2>4, <2>6, MatchMove DEF Mutating, Matching, syncVars
<1>3. CASE ReplaceEnd(w)
  <2>1. /\ UNCHANGED xrayVars /\ pc'[w] = "idle" /\ Mutating(w)
        /\ \/ At(w, "slot-done") /\ ReplaceSourceTunnel(from, to, at, FALSE)
           \/ At(w, "slot-failed") /\ ReplaceSourceTunnel(from, 0, 0, TRUE)
    BY <1>0, <1>3 DEF ReplaceEnd, Mutating, FreePC
  <2> QED
    BY <1>0, <1>1, <2>1, SlotEndMatches DEF syncVars, FreePC
<1> QED
  BY <1>2, <1>3

(* Every step keeps MatchInv.                                              *)
LEMMA MatchInvKept ==
  ASSUME CandidateInv, MatchInv, [Next]_vars
  PROVE  MatchInv'
<1> SUFFICES ASSUME faults' = 0
             PROVE  Matching'
  BY DEF MatchInv
<1>0. TypeOK /\ CapInv /\ PortInv /\ SlotInv
  BY DEF CandidateInv
<1>1. CASE SyncStep
  <2>1. CASE SlotEndSync
    <3>1. /\ Sync \in Procs /\ Moving(Sync) /\ Mutating(Sync) /\ UNCHANGED xrayVars
          /\ pc'[Sync] \in FreePC \cup {"next-act"}
      BY <1>0, <2>1, SyncQuietStep, ProcFacts
         DEF SlotEndSync, CapInv, PcTypeOK, Mutating, FreePC, At, Goto, SyncEnd, Unlock
    <3>2. failed' \in {failed, FALSE}
      BY <2>1 DEF SlotEndSync, SyncEnd, syncVars
    <3>3. ~failed
      BY <3>1, <1>0 DEF MatchInv, Matching, xrayVars
    <3>4. \/ At(Sync, "slot-done") /\ ReplaceSourceTunnel(from, to, at, FALSE)
          \/ At(Sync, "slot-failed") /\ ReplaceSourceTunnel(from, 0, 0, TRUE)
      BY <2>1 DEF SlotEndSync
    <3> QED
      BY <1>0, <3>1, <3>2, <3>3, <3>4, SlotEndMatches
  <2>2. CASE SlotRemove(Sync) \/ SlotAddOutbound(Sync) \/ SlotAdd(Sync)
    BY <1>0, <2>2, SlotCallMatches, ProcFacts
  <2> QED
    BY <1>0, <1>1, <2>1, <2>2, SyncQuietMatches, FullMatches, FillMatches DEF SyncStep
<1>2. CASE \E w \in Tunnels : WorkerStep(w)
  <2>1. PICK w \in Tunnels : WorkerStep(w)
    BY <1>2
  <2>2. CASE SlotRemove(w) \/ SlotAddOutbound(w) \/ SlotAdd(w)
    BY <1>0, <2>2, SlotCallMatches, ProcFacts
  <2> QED
    BY <1>0, <2>1, <2>2, MonitorMatches, ReplaceMatches DEF WorkerStep
<1>3. CASE Restart
  BY <1>0, <1>3, NoFault DEF TypeOK, Restart, RestartXray, RestartScd
<1>4. CASE Tick \/ Edit \/ Expire \/ UNCHANGED vars
  <2>1. UNCHANGED <<outs, ins, rules, faults, port, cur, lock, pc, syncVars, from, to, at>>
    BY <1>4 DEF Tick, TickStart, Edit, Expire, vars, targetVars, xrayVars, memVars, syncVars, slotVars
  <2>2. Matching
    BY <2>1 DEF MatchInv
  <2>3. /\ \A t \in Tunnels : AsRecorded(t)' <=> AsRecorded(t)
        /\ \A t, V, i, r : Has(t, V, i, r)' <=> Has(t, V, i, r)
        /\ \A t, V, r : Placed(t, V, r)' <=> Placed(t, V, r)
        /\ \A S : RecordedBut(S)' <=> RecordedBut(S)
    BY <2>1 DEF RecordedBut, AsRecorded, Placed, Has
  <2>4. \A p \in Procs : SlotHas(p)'
    BY <2>1, <2>2, <2>3 DEF Matching, SlotHas
  <2>5. \A w \in Tunnels : WorkerHas(w)'
    BY <2>1, <2>2, <2>3 DEF Matching, WorkerHas
  <2>6. ~failed' /\ SyncHas' /\ ApplyHas' /\ FreeMatches'
    BY <2>1, <2>2, <2>3 DEF Matching, SyncHas, ApplyHas, FreeMatches, Planned, PlanOn, RouteOn, syncVars
  <2> QED
    BY <2>4, <2>5, <2>6 DEF Matching
<1> QED
  BY <1>1, <1>2, <1>3, <1>4 DEF Next

(* Memory and Xray are both empty when scd starts.                         *)
LEMMA MatchInvInit == Init => MatchInv
<1> SUFFICES ASSUME Init
             PROVE  Matching
  BY DEF MatchInv
<1>1. (\A p \in Procs : pc[p] = "idle") /\ ~failed
  BY DEF Init, TargetInit
<1>2. /\ SyncHas /\ ApplyHas /\ \A w \in Tunnels : WorkerHas(w)
      /\ \A p \in Procs : SlotHas(p)
  BY <1>1, ProcFacts DEF SyncHas, ApplyHas, WorkerHas, SlotHas, ApplyPC, RepairPC, RejoinPC, BadPC, FailPC, InPC, RulePC
<1>3. FreeMatches
  BY DEF Init, TargetInit, XrayInit, NoPorts, FreeMatches, AsRecorded, Placed, Has
<1> QED
  BY <1>1, <1>2, <1>3 DEF Matching

(* wireguard.go, tunnel.go, repair.go: as long as no call fails, Xray      *)
(* holds exactly the tunnels of memory whenever the target lock is free,   *)
(* however many full applies, replacements by the sync and by workers,     *)
(* fills, repairs and rejoins interleave.                                  *)
THEOREM CandidatesAlwaysMatch == Spec => []CandidatesMatchXray
<1>1. Init => MatchInv
  BY MatchInvInit
<1>2. CandidateInv /\ MatchInv /\ [Next]_vars => MatchInv'
  BY MatchInvKept
<1>3. CandidateInv /\ MatchInv => CandidatesMatchXray
  BY RecordedHolds DEF CandidateInv, TypeOK, MatchInv, Matching, FreeMatches, CandidatesMatchXray
<1> QED
  BY <1>1, <1>2, <1>3, CandidateInvHolds, PTL DEF Spec
=============================================================================
