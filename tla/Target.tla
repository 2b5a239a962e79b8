------------------------------- MODULE Target -------------------------------
(***************************************************************************)
(* One source on one Xray target: the in-memory state of the target        *)
(* (internal/scd/state), the per-target mutation lock, the tunnel monitor  *)
(* (TunnelTick, checkTunnel, Repair, Rejoin in internal/scd/monitor) and   *)
(* the full apply of a source (Outbounds, Inbounds, Routing in             *)
(* internal/scd/apply).  Every RPC is a step of its own, because Xray may  *)
(* restart, probes run, and the other processes read memory between any    *)
(* two of them.                                                            *)
(*                                                                         *)
(* Processes: Sync (TryStartSync admits one sync at a time) and one        *)
(* monitor worker per tunnel id (a tick checks an id at most once, and the *)
(* ticks of a loop do not overlap).  pc[p] names the next step of p.       *)
(***************************************************************************)
EXTENDS Xray

CONSTANTS
  Prefixed,      \* is observatorySubjectSelectorPrefix set?
  MaxActive,     \* maxActive of a candidate source, 0 for a VLESS source
  MaxParallel,   \* monitor.maxParallel
  MaxDowns       \* bound on probes that fail although the tunnel is routed

ASSUME TargetAssumption ==
  /\ Prefixed \in BOOLEAN
  /\ MaxActive \in Nat
  /\ MaxParallel \in Nat \ {0}
  /\ MaxDowns \in Nat

Sync == 0
Nobody == -1
Procs == Tunnels \cup {Sync}
NoHash == [t \in {} |-> 0]   \* no state, or hashes reset: the next sync applies in full

(* OutboundTagInitial as a variant; the unprefixed tag is "bare".          *)
Initial == IF Prefixed THEN "obs" ELSE "bare"

VARIABLES
  port,       \* port[t]: Mapping.Port of tunnel t in memory, 0 when it has none
  cur,        \* cur[t]: variant of Mapping.OutboundTagCurrent
  mon,        \* mon[t]: Monitor.State
  repairErr,  \* tunnels whose Monitor.LastRepairError is set
  hashes,     \* the ports of the tunnels the saved hashes stand for, or NoHash
  lock,       \* holder of the target lock, or Nobody
  pc,         \* next step of every process
  grant,      \* processes whose CheckCap passed and whose add is next
  plan,       \* Sync: plan[t] is the port to apply tunnel t on, 0 for none
  todo,       \* Sync: listed outbounds still to remove
  left,       \* Sync: listed inbounds or rules still to remove
  backups,    \* Sync: removed outbounds
  added,      \* Sync: tunnels of the plan added by the current kind
  failed,     \* Sync: a kind failed
  refs,       \* tick: refs[t] is the copied port of a tunnel still to check
  aim,        \* aim[w]: the port worker w probes
  slots,      \* tick: goroutines that may run a check
  downs       \* probes failed by their server so far

Known == {t \in Tunnels : port[t] # 0}

memVars  == <<port, cur, mon, repairErr, hashes>>
syncVars == <<plan, todo, left, backups, added, failed>>
tickVars == <<refs, aim, slots, downs>>
targetVars == <<xrayVars, memVars, lock, pc, grant, syncVars, tickVars>>

RepairPC == {"repair-list", "repair-rm-rule", "repair-rm-out", "repair-restore",
             "repair-add", "repair-add-rule", "repair-done", "repair-failed",
             "repair-rule-failed"}
RejoinPC == {"rejoin-rm-rule", "rejoin-rm-out", "rejoin-restore", "rejoin-add",
             "rejoin-add-rule", "rejoin-undo-out", "rejoin-undo-add",
             "rejoin-undo-rule", "rejoin-done", "rejoin-failed", "rejoin-stuck"}
ApplyPC == {"out-list", "out-remove", "out-add", "undo-remove", "undo-restore",
            "in-list", "in-remove", "in-add",
            "rule-list", "rule-remove", "rule-add", "commit"}
SlotPC == {"full", "sync-list", "decide", "next-act", "replace-list", "replace-choose",
           "slot-rm-rule", "slot-rm-out", "slot-rm-other", "slot-restore", "slot-rm-in",
           "slot-add", "slot-add-in", "slot-add-rule", "slot-done", "slot-failed",
           "fill", "fill-add", "fill-add-in", "fill-add-rule", "fill-undo-rule",
           "fill-undo-in", "fill-undo-out", "fill-done", "fill-failed"}

(* Where a process does not hold the target lock.                          *)
FreePC == {"idle", "probe", "repair", "rejoin-view", "rejoin", "replace", "drift", "apply"}
Mutating(p) == pc[p] \notin FreePC

Labels == FreePC \cup RepairPC \cup RejoinPC \cup ApplyPC \cup SlotPC

MemTypeOK ==
  /\ port \in [Tunnels -> Ports \cup {0}]
  /\ cur \in [Tunnels -> Variants]
  /\ mon \in [Tunnels -> {"idle", "healthy", "degraded", "repairing"}]
  /\ repairErr \subseteq Tunnels
  /\ hashes \in [Tunnels -> Ports \cup {0}] \cup {NoHash}

CtlTypeOK ==
  /\ lock \in Procs \cup {Nobody}
  /\ pc \in [Procs -> Labels]
  /\ grant \subseteq Procs

SyncTypeOK ==
  /\ plan \in [Tunnels -> Ports \cup {0}]
  /\ todo \subseteq Tags
  /\ left \subseteq Tunnels
  /\ backups \subseteq Tags
  /\ added \subseteq Tunnels
  /\ failed \in BOOLEAN

TickTypeOK ==
  /\ refs \in [Tunnels -> Ports \cup {0}]
  /\ aim \in [Tunnels -> Ports \cup {0}]
  /\ slots \in Int
  /\ downs \in 0..MaxDowns

TargetTypeOK == XrayTypeOK /\ MemTypeOK /\ CtlTypeOK /\ SyncTypeOK /\ TickTypeOK

(* New: no target yet, nothing applied, no loop has run.                   *)
TargetInit ==
  /\ XrayInit
  /\ port = NoPorts
  /\ cur = [t \in Tunnels |-> Initial]
  /\ mon = [t \in Tunnels |-> "idle"]
  /\ repairErr = {}
  /\ hashes = NoHash
  /\ lock = Nobody
  /\ pc = [p \in Procs |-> "idle"]
  /\ grant = {}
  /\ plan = NoPorts /\ todo = {} /\ left = {} /\ backups = {} /\ added = {} /\ failed = FALSE
  /\ refs = NoPorts /\ aim = NoPorts /\ slots = 0 /\ downs = 0

(* scd stops at any point and starts again: all of its state is lost, and  *)
(* Xray keeps what it has.                                                 *)
RestartScd ==
  /\ "scd" \in Restarts
  /\ Fault
  /\ port' = NoPorts
  /\ cur' = [t \in Tunnels |-> Initial]
  /\ mon' = [t \in Tunnels |-> "idle"]
  /\ repairErr' = {}
  /\ hashes' = NoHash
  /\ lock' = Nobody
  /\ pc' = [p \in Procs |-> "idle"]
  /\ grant' = {}
  /\ plan' = NoPorts /\ todo' = {} /\ left' = {} /\ backups' = {} /\ added' = {} /\ failed' = FALSE
  /\ refs' = NoPorts /\ aim' = NoPorts /\ slots' = 0
  /\ UNCHANGED <<outs, ins, rules, downs>>

-----------------------------------------------------------------------------
(* Control.                                                                *)

At(p, l) == pc[p] = l
Goto(p, l) == pc' = [pc EXCEPT ![p] = l]

(* Mutant: the holder of the lock is not waited for.                       *)
LockAlways(p) == lock' = p

LockTarget(p) == lock = Nobody /\ lock' = p
Unlock(p, l) == lock' = Nobody /\ Goto(p, l)

(* An RPC of p whose outcome selects the next step.                        *)
Then(p, ok, onOk, onErr) == Goto(p, IF ok THEN onOk ELSE onErr)

CapFree == Cardinality(outs) < MaxActive

(* CheckCap, before an AddOutbound of a source with maxActive: the add     *)
(* goes ahead only when the list shows a free place.  A refusal resets the *)
(* hashes when resets holds (capRefused); the hashes of a capped source    *)
(* are only read under the target lock.                                    *)
CheckCap(p, onErr, resets) ==
  /\ MaxActive > 0
  /\ p \notin grant
  /\ \E ok \in BOOLEAN :
       /\ Read("List", ok)
       /\ \/ /\ ok /\ CapFree
             /\ grant' = grant \cup {p}
             /\ UNCHANGED <<pc, hashes>>
          \/ /\ ~(ok /\ CapFree)
             /\ Goto(p, onErr)
             /\ hashes' = IF ok /\ resets THEN NoHash ELSE hashes
             /\ UNCHANGED grant

(* The AddOutbound itself.                                                 *)
SendAdd(p, tag, ok) ==
  /\ MaxActive = 0 \/ p \in grant
  /\ AddOutbound(tag, ok)
  /\ grant' = grant \ {p}
  /\ UNCHANGED hashes

(* capped.AddOutbound of the monitor.                                      *)
CappedAdd(p, tag, onOk, onErr, resets) ==
  \/ CheckCap(p, onErr, resets)
  \/ \E ok \in BOOLEAN : SendAdd(p, tag, ok) /\ Then(p, ok, onOk, onErr)

-----------------------------------------------------------------------------
(* TunnelTick and its workers (checkTunnel, runLimited).                   *)

Busy == {w \in Tunnels : ~At(w, "idle")}
Waiting == {t \in Tunnels : refs[t] # 0}
TickOver == Busy = {} /\ (Waiting = {} \/ slots = 0)

(* TunnelTick copies the tunnels; runLimited starts the goroutines.        *)
TickStart ==
  /\ TickOver
  /\ Known # {}
  /\ refs' = port
  /\ slots' = IF MaxParallel < Cardinality(Known) THEN MaxParallel ELSE Cardinality(Known)
  /\ UNCHANGED <<xrayVars, memVars, lock, pc, grant, syncVars, aim, downs>>

(* A goroutine takes the next index: the tunnels are in port order.        *)
StartCheck(w) ==
  /\ w \in Waiting
  /\ \A t \in Waiting : refs[w] <= refs[t]
  /\ At(w, "idle")
  /\ Cardinality(Busy) < slots
  /\ refs' = [refs EXCEPT ![w] = 0]
  /\ aim' = [aim EXCEPT ![w] = refs[w]]
  /\ Goto(w, "probe")
  /\ UNCHANGED <<xrayVars, memVars, lock, grant, syncVars, slots, downs>>

(* A probe goes to the port copied at the start of the tick: when the      *)
(* topology changed since, it reaches whatever tunnel has that port now.   *)
Reached(w) == \E t \in Tunnels : ins[t] = aim[w] /\ Routed(t)
ProbeOver(w, next) == aim' = [aim EXCEPT ![w] = 0] /\ Goto(w, next)

(* Mutant: a result does not touch a tunnel that is under repair.          *)
SetMonUnlessRepairing(w, s) ==
  mon' = [mon EXCEPT ![w] = IF port[w] # 0 /\ @ # "repairing" THEN s ELSE @]

(* updateTunnel: a tunnel that is gone is ignored.                         *)
SetMon(w, s) == mon' = [mon EXCEPT ![w] = IF port[w] # 0 THEN s ELSE @]

(* checkTunnel after the final failed attempt; next is the repair or the   *)
(* replacement.                                                            *)
ProbeFails(w, next) ==
  /\ At(w, "probe")
  /\ IF Reached(w) THEN downs < MaxDowns /\ downs' = downs + 1 ELSE UNCHANGED downs
  /\ SetMon(w, "degraded")
  /\ ProbeOver(w, next)
  /\ UNCHANGED <<xrayVars, port, cur, repairErr, hashes, lock, grant, syncVars, refs, slots>>

(* checkTunnel after a good probe; rejoin follows.                         *)
ProbeSucceeds(w) ==
  /\ At(w, "probe")
  /\ Reached(w)
  /\ SetMon(w, "healthy")
  /\ repairErr' = IF port[w] # 0 THEN repairErr \ {w} ELSE repairErr
  /\ ProbeOver(w, "rejoin-view")
  /\ UNCHANGED <<xrayVars, port, cur, hashes, lock, grant, syncVars, refs, slots, downs>>

(* The tunnel has a prefix and runs on its unprefixed outbound.            *)
ShouldRejoin(w) == port[w] # 0 /\ cur[w] # Initial /\ Initial # "bare"

-----------------------------------------------------------------------------
(* removeTunnel, the common first part of repair and rejoin.               *)

RemoveRuleStep(w, here, next) ==
  /\ At(w, here)
  /\ \E ok \in BOOLEAN : RemoveRule(w, ok)     \* best effort
  /\ Goto(w, next)
  /\ UNCHANGED <<memVars, lock, grant, syncVars, tickVars>>

(* Mutant: the new outbound is added although the old one was not removed. *)
RemoveOutboundAnyway(w, here, next, restore) ==
  /\ At(w, here)
  /\ \E ok \in BOOLEAN : RemoveOutbound(<<w, cur[w]>>, ok)
  /\ Goto(w, next)
  /\ UNCHANGED <<memVars, lock, grant, syncVars, tickVars>>

RemoveOutboundStep(w, here, next, restore) ==
  /\ At(w, here)
  /\ \E ok \in BOOLEAN : RemoveOutbound(<<w, cur[w]>>, ok) /\ Then(w, ok, next, restore)
  /\ UNCHANGED <<memVars, lock, grant, syncVars, tickVars>>

RestoreRuleStep(w, here, next) ==
  /\ At(w, here)
  /\ \E ok \in BOOLEAN : AddRule(w, cur[w], ok) \* best effort
  /\ Goto(w, next)
  /\ UNCHANGED <<memVars, lock, grant, syncVars, tickVars>>

-----------------------------------------------------------------------------
(* Repair: move the tunnel to its unprefixed outbound.                     *)

(* Under the lock: a gone or already withdrawn tunnel is left alone.       *)
RepairSkip(w) ==
  /\ At(w, "repair")
  /\ lock = Nobody
  /\ port[w] = 0 \/ ShouldRejoin(w)
  /\ Goto(w, "idle")
  /\ UNCHANGED <<xrayVars, memVars, lock, grant, syncVars, tickVars>>

RepairBegin(w) ==
  /\ At(w, "repair")
  /\ port[w] # 0 /\ ~ShouldRejoin(w)
  /\ mon' = [mon EXCEPT ![w] = "repairing"]
  /\ \/ /\ Read("Dial", TRUE)
        /\ LockTarget(w)
        /\ Goto(w, "repair-list")
        /\ UNCHANGED slots
     \/ \* no client: the worker ends with an error, and so does its goroutine
        /\ Read("Dial", FALSE)
        /\ lock = Nobody /\ UNCHANGED lock
        /\ Goto(w, "idle")
        /\ slots' = slots - 1
  /\ UNCHANGED <<port, cur, repairErr, hashes, grant, syncVars, refs, aim, downs>>

(* hasInbound.  Without its inbound (Xray restarted) nothing is repaired   *)
(* and the source is applied in full by the next sync (stateLost).         *)
RepairList(w) ==
  /\ At(w, "repair-list")
  /\ \/ /\ Read("List", FALSE)
        /\ Goto(w, "repair-failed")
        /\ UNCHANGED <<lock, memVars>>
     \/ /\ Read("List", TRUE)
        /\ ins[w] # 0
        /\ Goto(w, "repair-rm-rule")
        /\ UNCHANGED <<lock, memVars>>
     \/ /\ Read("List", TRUE)
        /\ ins[w] = 0
        /\ hashes' = NoHash
        /\ SetMon(w, "degraded")
        /\ Unlock(w, "idle")
        /\ UNCHANGED <<port, cur, repairErr>>
  /\ UNCHANGED <<grant, syncVars, tickVars>>

RepairAdd(w) ==
  /\ At(w, "repair-add")
  /\ CappedAdd(w, <<w, "bare">>, "repair-add-rule", "repair-failed", TRUE)
  /\ UNCHANGED <<port, cur, mon, repairErr, lock, syncVars, tickVars>>

RepairAddRule(w) ==
  /\ At(w, "repair-add-rule")
  /\ \E ok \in BOOLEAN : AddRule(w, "bare", ok) /\ Then(w, ok, "repair-done", "repair-rule-failed")
  /\ UNCHANGED <<memVars, lock, grant, syncVars, tickVars>>

(* The result of a repair is recorded and the lock released.  Once the     *)
(* unprefixed outbound was added, the mapping is the repaired one even if  *)
(* its rule failed.                                                        *)
RepairEnd(w) ==
  /\ \/ /\ At(w, "repair-done")
        /\ cur' = [cur EXCEPT ![w] = IF port[w] # 0 THEN "bare" ELSE @]
        /\ repairErr' = repairErr \ {w}
     \/ /\ At(w, "repair-rule-failed")
        /\ cur' = [cur EXCEPT ![w] = IF port[w] # 0 THEN "bare" ELSE @]
        /\ repairErr' = repairErr \cup ({w} \cap Known)
     \/ /\ At(w, "repair-failed")
        /\ repairErr' = repairErr \cup ({w} \cap Known)
        /\ UNCHANGED cur
  /\ SetMon(w, "degraded")
  /\ Unlock(w, "idle")
  /\ UNCHANGED <<xrayVars, port, hashes, grant, syncVars, tickVars>>

Repair(w) ==
  \/ RepairSkip(w)
  \/ RepairBegin(w)
  \/ RepairList(w)
  \/ RemoveRuleStep(w, "repair-rm-rule", "repair-rm-out")
  \/ RemoveOutboundStep(w, "repair-rm-out", "repair-add", "repair-restore")
  \/ RestoreRuleStep(w, "repair-restore", "repair-failed")
  \/ RepairAdd(w)
  \/ RepairAddRule(w)
  \/ RepairEnd(w)

-----------------------------------------------------------------------------
(* Rejoin: move a repaired tunnel back to its prefixed outbound.           *)

(* The check before the lock: no client for a tunnel in the balancer.      *)
RejoinView(w) ==
  /\ At(w, "rejoin-view")
  /\ Goto(w, IF ShouldRejoin(w) THEN "rejoin" ELSE "idle")
  /\ UNCHANGED <<xrayVars, memVars, lock, grant, syncVars, tickVars>>

(* ... and again under it; a sync may have replaced the topology meanwhile. *)
RejoinBegin(w) ==
  /\ At(w, "rejoin")
  /\ \/ /\ ~ShouldRejoin(w)
        /\ lock = Nobody
        /\ Goto(w, "idle")
        /\ UNCHANGED <<xrayVars, lock>>
     \/ /\ ShouldRejoin(w)
        /\ \/ Read("Dial", TRUE) /\ LockTarget(w) /\ Goto(w, "rejoin-rm-rule")
           \/ Read("Dial", FALSE) /\ lock = Nobody /\ Goto(w, "idle") /\ UNCHANGED lock
  /\ UNCHANGED <<memVars, grant, syncVars, tickVars>>

RejoinAdd(w) ==
  /\ At(w, "rejoin-add")
  /\ CappedAdd(w, <<w, Initial>>, "rejoin-add-rule", "rejoin-undo-out", TRUE)
  /\ UNCHANGED <<port, cur, mon, repairErr, lock, syncVars, tickVars>>

RejoinAddRule(w) ==
  /\ At(w, "rejoin-add-rule")
  /\ \E ok \in BOOLEAN : AddRule(w, Initial, ok) /\ Then(w, ok, "rejoin-done", "rejoin-undo-out")
  /\ UNCHANGED <<memVars, lock, grant, syncVars, tickVars>>

(* The rollback adds the unprefixed outbound only once the prefixed one is *)
(* known to be gone.                                                       *)
RejoinUndoOut(w) ==
  /\ At(w, "rejoin-undo-out")
  /\ \E ok \in BOOLEAN :
       RemoveOutbound(<<w, Initial>>, ok) /\ Then(w, ok, "rejoin-undo-add", "rejoin-stuck")
  /\ UNCHANGED <<memVars, lock, grant, syncVars, tickVars>>

RejoinUndoAdd(w) ==
  /\ At(w, "rejoin-undo-add")
  /\ CappedAdd(w, <<w, "bare">>, "rejoin-undo-rule", "rejoin-undo-rule", FALSE)
  /\ UNCHANGED <<port, cur, mon, repairErr, lock, syncVars, tickVars>>

(* The result of a rejoin: done, rolled back, or stuck on the prefixed     *)
(* outbound, which is then the recorded one.                               *)
RejoinEnd(w) ==
  /\ \/ /\ At(w, "rejoin-done") \/ At(w, "rejoin-stuck")
        /\ cur' = [cur EXCEPT ![w] = IF port[w] # 0 THEN Initial ELSE @]
     \/ At(w, "rejoin-failed") /\ UNCHANGED cur
  /\ Unlock(w, "idle")
  /\ UNCHANGED <<xrayVars, port, mon, repairErr, hashes, grant, syncVars, tickVars>>

Rejoin(w) ==
  \/ RejoinView(w)
  \/ RejoinBegin(w)
  \/ RemoveRuleStep(w, "rejoin-rm-rule", "rejoin-rm-out")
  \/ RemoveOutboundStep(w, "rejoin-rm-out", "rejoin-add", "rejoin-restore")
  \/ RestoreRuleStep(w, "rejoin-restore", "rejoin-failed")
  \/ RejoinAdd(w)
  \/ RejoinAddRule(w)
  \/ RejoinUndoOut(w)
  \/ RejoinUndoAdd(w)
  \/ RestoreRuleStep(w, "rejoin-undo-rule", "rejoin-failed")
  \/ RejoinEnd(w)
=============================================================================
