--------------------------- MODULE CandidateSource ---------------------------
(***************************************************************************)
(* A wireguard or masque source of one target: the sync (syncWireGuard),   *)
(* which under the target lock applies the source in full or replaces,     *)
(* removes and adds single tunnels, and the monitor's replacement of a     *)
(* tunnel that keeps failing (ReplaceFailed), together with the repair and *)
(* rejoin of module Target.  The source has at most MaxActive outbounds.   *)
(*                                                                         *)
(* Replacements of the sync and of a worker run the same calls             *)
(* (apply.ReplaceTunnel, RemoveTunnel); both hold the target lock, so from,*)
(* to and at belong to the process that holds it.                          *)
(***************************************************************************)
EXTENDS FullApply, Selection

CONSTANTS
  Files,          \* the candidate sets the source file may hold
  Config,         \* selection: strategy, margin, confirm
  ReplaceAfter,   \* replaceAfterFailures
  MaxEdits        \* bound on edits of the file

CandidateType ==
  [tag : Tunnels, key : Int, endpoint : Int, transport : Int, score : Int, load : Int, label : Int, priority : Int]

(* A tag is a hash of the public fields of its tunnel (topology), so it    *)
(* stands for one pair in every version of the file.                       *)
ASSUME CandidateAssumption ==
  /\ MaxActive \in Nat \ {0}
  /\ ReplaceAfter \in Nat \ {0}
  /\ MaxEdits \in Nat
  /\ \A f \in Files : IsFiniteSet(f) /\ f \subseteq CandidateType
  /\ \A f \in Files : \A c, d \in f : c.tag = d.tag => c = d
  /\ \A c, d \in UNION Files : c.tag = d.tag => Pair(c) = Pair(d)

VARIABLES
  file,        \* the candidates of the source file as it would load now
  edits,       \* edits so far
  loaded,      \* Sync: the candidates it loaded
  cands,       \* Source.Candidates: those of the last sync
  quarantine,  \* pairs in quarantine now
  better,      \* Selection.Better
  fails,       \* Monitor.FailuresInRow, up to ReplaceAfter
  unreplaced,  \* Source.NoReplacement
  acts,        \* Sync: acts[t] is the action left to do for the slot of t
  from,        \* slot operation: the tunnel to remove, 0 for none
  to,          \* slot operation: the tunnel to add, 0 for none
  at           \* slot operation: the port of the slot

fileVars == <<file, edits>>
selVars == <<cands, quarantine, better, unreplaced>>
slotVars == <<acts, from, to, at>>
vars == <<targetVars, fileVars, loaded, selVars, fails, slotVars>>

NoActs == [t \in Tunnels |-> Keep]

CandidateInit ==
  /\ file \in Files
  /\ edits = 0
  /\ loaded = {} /\ cands = {} /\ quarantine = {} /\ better = NoSeries /\ unreplaced = {}
  /\ fails = [t \in Tunnels |-> 0]
  /\ acts = NoActs /\ from = 0 /\ to = 0 /\ at = 0

Init == TargetInit /\ CandidateInit

-----------------------------------------------------------------------------
(* Memory.                                                                 *)

(* Actions bind a ranking with \E over a set of one: TLC then computes it  *)
(* once, also where it asks whether an action is enabled.                  *)
Ranked(c) == Rank(c, Config.strategy)
TagsOf(c) == {x.tag : x \in c}

(* The monitor and mapping of the tunnels S start over.                    *)
Restarted(S) ==
  /\ cur' = [t \in Tunnels |-> IF t \in S THEN Initial ELSE cur[t]]
  /\ mon' = [t \in Tunnels |-> IF t \in S THEN "idle" ELSE mon[t]]
  /\ fails' = [t \in Tunnels |-> IF t \in S THEN 0 ELSE fails[t]]
  /\ repairErr' = repairErr \ S

(* ReplaceSourceTunnel: drop tunnel old (0: none) and put new (0: none) on *)
(* port p; hashes that are not reset follow the topology.                  *)
ReplaceSourceTunnel(old, new, p, reset) ==
  /\ port' = [t \in Tunnels |-> IF t = new THEN p ELSE IF t = old THEN 0 ELSE port[t]]
  /\ Restarted({old, new})
  /\ hashes' = IF reset \/ hashes = NoHash THEN NoHash ELSE port'

(* The sync ends and stores the candidates c, those it loaded.             *)
SyncEnd(c) ==
  /\ Unlock(Sync, "idle")
  /\ cands' = c
  /\ loaded' = {}
  /\ plan' = NoPorts /\ todo' = {} /\ left' = {} /\ backups' = {} /\ added' = {} /\ failed' = FALSE
  /\ acts' = NoActs /\ from' = 0 /\ to' = 0 /\ at' = 0

-----------------------------------------------------------------------------
(* The sync of a candidate source.                                         *)

SyncStart ==
  /\ At(Sync, "idle")
  /\ loaded' = file
  /\ Goto(Sync, "apply")
  /\ UNCHANGED <<xrayVars, memVars, lock, grant, syncVars, tickVars, fileVars, selVars, fails, slotVars>>

SyncBegin ==
  /\ At(Sync, "apply")
  /\ \/ /\ Read("Dial", TRUE)
        /\ LockTarget(Sync)
        /\ Goto(Sync, IF hashes = NoHash THEN "full" ELSE "sync-list")
        /\ UNCHANGED loaded
     \/ /\ Read("Dial", FALSE)
        /\ lock = Nobody /\ UNCHANGED lock
        /\ Goto(Sync, "idle")
        /\ loaded' = {}
  /\ UNCHANGED <<memVars, grant, syncVars, tickVars, fileVars, selVars, fails, slotVars>>

(* Drift: resources of the topology are missing; a list error is none.     *)
SyncList ==
  /\ At(Sync, "sync-list")
  /\ \E ok \in BOOLEAN : Read("List", ok) /\ Then(Sync, ok /\ Missing(port), "full", "decide")
  /\ UNCHANGED <<memVars, lock, grant, syncVars, tickVars, fileVars, loaded, selVars, fails, slotVars>>

(* full: the best candidates outside quarantine; a masque key keeps the    *)
(* transport of its active tunnel.                                         *)
Eligible ==
  LET open == {c \in loaded : Pair(c) \notin quarantine}
      kept == {c \in open : c.transport # 0 /\ c.tag \in Known}
  IN  {c \in open : \A k \in kept : c.key = k.key => c.transport = k.transport}

FullBegin ==
  /\ At(Sync, "full")
  /\ \E ranked \in {Ranked(Eligible)} : \E picked \in {Pick(ranked, MaxActive)} :
       plan' = [t \in Tunnels |-> IF t \in TagsOf(picked) THEN Seat(ByTag(t, ranked), ranked) ELSE 0]
  /\ Goto(Sync, "out-list")
  /\ UNCHANGED <<xrayVars, memVars, lock, grant, todo, left, backups, added, failed, tickVars,
                 fileVars, loaded, selVars, fails, slotVars>>

(* The end of a full apply.  After a failure Xray no longer matches the    *)
(* topology: DropSourceTunnels forgets it with its hashes.  (A first apply *)
(* that fails leaves no state; its candidates are never read, because only *)
(* a source with hashes has replacements.)                                 *)
FullEnd ==
  /\ At(Sync, "commit")
  /\ LET next == IF failed THEN NoPorts ELSE plan
         active == {t \in Tunnels : next[t] # 0}
         others == unreplaced \ active
     IN  /\ port' = next
         /\ hashes' = IF failed THEN NoHash ELSE plan
         /\ IF failed THEN UNCHANGED unreplaced
            ELSE \E S \in SUBSET others :           \* pruneNoReplacement
                   /\ \/ S = others
                      \/ Cardinality(S) = MaxActive - Cardinality(active)
                   /\ Cardinality(S) <= MaxActive - Cardinality(active)
                   /\ unreplaced' = (unreplaced \cap active) \cup S
  /\ Restarted(Tunnels)
  /\ SyncEnd(loaded)
  /\ UNCHANGED <<xrayVars, grant, tickVars, fileVars, quarantine, better>>

-----------------------------------------------------------------------------
(* decide and fill: changes of single slots by the sync.                   *)

(* The slot of an active tunnel is its port.                               *)
SlotOf == [t \in Known |-> port[t]]

(* The monitor has not failed the tunnel and it is in the balancer.        *)
Switchable == {t \in Known : mon[t] \notin {"degraded", "repairing"} /\ cur[t] = Initial}

DecideSlots ==
  /\ At(Sync, "decide")
  /\ \E ranked \in {Ranked(loaded)} :
     \E d \in {Decide(SlotOf, N, Switchable, ranked, quarantine, better, Config)} :
       /\ acts' = [t \in Tunnels |-> IF t \in Known THEN d.acts[t] ELSE Keep]
       /\ better' = d.series
  /\ Goto(Sync, "next-act")
  /\ UNCHANGED <<xrayVars, memVars, lock, grant, syncVars, tickVars, fileVars, loaded,
                 cands, quarantine, unreplaced, fails, from, to, at>>

(* The tunnel an action puts into the slot, 0 for a removal.               *)
Successor(act) == IF act = Drop THEN 0 ELSE act

Due == {t \in Tunnels : acts[t] # Keep}

(* The actions are carried out in slot order.                              *)
NextAct ==
  /\ At(Sync, "next-act")
  /\ \/ /\ Due = {}
        /\ Goto(Sync, "fill")
        /\ UNCHANGED slotVars
     \/ /\ \E t \in Due :
             /\ \A u \in Due : port[t] <= port[u]
             /\ from' = t /\ to' = Successor(acts[t]) /\ at' = port[t]
             /\ acts' = [acts EXCEPT ![t] = Keep]
        /\ Goto(Sync, "slot-rm-rule")
  /\ UNCHANGED <<xrayVars, memVars, lock, grant, syncVars, tickVars, fileVars, loaded, selVars, fails>>

(* Mutant: the port after the last slot.                                   *)
PortAfterLast == Cardinality(Known) + 1

(* The lowest port that no slot has; one of the first so many is free.     *)
FreePort == Min((1..Cardinality(Known) + 1) \ {port[t] : t \in Known})

(* The lowest free port and the best candidate for an empty slot.          *)
FillNext ==
  /\ At(Sync, "fill")
  /\ \E ranked \in {Ranked(loaded)} :
     \E free \in {Allowed(ranked, Known, KeysOf(loaded, Known), quarantine)} :
       LET vacant == Cardinality(Known) < MaxActive /\ free # {}
       IN  \/ /\ vacant
              /\ to' = Best(free, ranked).tag
              /\ at' = FreePort
              /\ Goto(Sync, "fill-add")
              /\ UNCHANGED <<lock, syncVars, loaded, cands, acts, from>>
           \/ ~vacant /\ SyncEnd(loaded)
  /\ UNCHANGED <<xrayVars, memVars, grant, tickVars, fileVars, quarantine, better, unreplaced, fails>>

-----------------------------------------------------------------------------
(* apply.RemoveTunnel and apply.ReplaceTunnel, by the sync or by a worker. *)

(* outboundTags: the current tag first, then the other one, if there is    *)
(* another.                                                                *)
Other(v) == IF v = "obs" THEN "bare" ELSE "obs"

RPCLeaves == <<memVars, lock, syncVars, tickVars, fileVars, loaded, selVars, fails, slotVars>>

SlotRemove(p) ==
  /\ \/ /\ At(p, "slot-rm-rule")                         \* best effort
        /\ \E ok \in BOOLEAN : RemoveRule(from, ok)
        /\ Goto(p, "slot-rm-out")
     \/ /\ At(p, "slot-rm-out")
        /\ \E ok \in BOOLEAN : /\ RemoveOutbound(<<from, cur[from]>>, ok)
                               /\ Then(p, ok, IF Prefixed THEN "slot-rm-other" ELSE "slot-rm-in", "slot-restore")
     \/ /\ At(p, "slot-rm-other")
        /\ \E ok \in BOOLEAN : /\ RemoveOutbound(<<from, Other(cur[from])>>, ok)
                               /\ Then(p, ok, "slot-rm-in", "slot-restore")
     \/ /\ At(p, "slot-restore")                         \* best effort
        /\ \E ok \in BOOLEAN : AddRule(from, cur[from], ok)
        /\ Goto(p, "slot-failed")
     \/ /\ At(p, "slot-rm-in")
        /\ \E ok \in BOOLEAN : /\ RemoveInbound(from, ok)
                               /\ Then(p, ok, IF to = 0 THEN "slot-done" ELSE "slot-add", "slot-failed")
  /\ UNCHANGED <<RPCLeaves, grant>>

SlotAddOutbound(p) ==
  /\ At(p, "slot-add")
  /\ CappedAdd(p, <<to, Initial>>, "slot-add-in", "slot-failed", FALSE)
  /\ UNCHANGED <<port, cur, mon, repairErr, lock, syncVars, tickVars, fileVars, loaded, selVars, fails, slotVars>>

SlotAdd(p) ==
  /\ \/ /\ At(p, "slot-add-in")
        /\ \E ok \in BOOLEAN : AddInbound(to, at, ok) /\ Then(p, ok, "slot-add-rule", "slot-failed")
     \/ /\ At(p, "slot-add-rule")
        /\ \E ok \in BOOLEAN : AddRule(to, Initial, ok) /\ Then(p, ok, "slot-done", "slot-failed")
  /\ UNCHANGED <<RPCLeaves, grant>>

(* The result is recorded: a failure leaves the slot empty and resets the  *)
(* hashes.                                                                 *)
SlotEndSync ==
  /\ \/ /\ At(Sync, "slot-done")
        /\ ReplaceSourceTunnel(from, to, at, FALSE)
        /\ unreplaced' = IF to = 0 THEN unreplaced \cup {from} ELSE unreplaced \ {from}
        /\ Goto(Sync, "next-act")
        /\ from' = 0 /\ to' = 0 /\ at' = 0
        /\ UNCHANGED <<lock, syncVars, loaded, cands, acts>>
     \/ /\ At(Sync, "slot-failed")
        /\ ReplaceSourceTunnel(from, 0, 0, TRUE)
        /\ unreplaced' = unreplaced \ {from}
        /\ SyncEnd(loaded)
  /\ UNCHANGED <<xrayVars, grant, tickVars, fileVars, quarantine, better>>

-----------------------------------------------------------------------------
(* apply.AddTunnel, which rolls back in reverse.                           *)

FillAddOutbound ==
  /\ At(Sync, "fill-add")
  /\ CappedAdd(Sync, <<to, Initial>>, "fill-add-in", "fill-undo-out", FALSE)
  /\ UNCHANGED <<port, cur, mon, repairErr, lock, syncVars, tickVars, fileVars, loaded, selVars, fails, slotVars>>

FillAdd ==
  /\ \/ /\ At(Sync, "fill-add-in")
        /\ \E ok \in BOOLEAN : AddInbound(to, at, ok) /\ Then(Sync, ok, "fill-add-rule", "fill-undo-out")
     \/ /\ At(Sync, "fill-add-rule")
        /\ \E ok \in BOOLEAN : AddRule(to, Initial, ok) /\ Then(Sync, ok, "fill-done", "fill-undo-rule")
     \/ /\ At(Sync, "fill-undo-rule")
        /\ \E ok \in BOOLEAN : RemoveRule(to, ok)
        /\ Goto(Sync, "fill-undo-in")
     \/ /\ At(Sync, "fill-undo-in")
        /\ \E ok \in BOOLEAN : RemoveInbound(to, ok)
        /\ Goto(Sync, "fill-undo-out")
     \/ /\ At(Sync, "fill-undo-out")
        /\ \E ok \in BOOLEAN : RemoveOutbound(<<to, Initial>>, ok)
        /\ Goto(Sync, "fill-failed")
  /\ UNCHANGED <<RPCLeaves, grant>>

(* Mutant: only the filled tag leaves NoReplacement.                       *)
UnwarnSelf(new) == unreplaced' = unreplaced \ {new}

(* A filled slot is no longer one without replacement: the tag itself      *)
(* leaves NoReplacement if it was there, else any tag that is not active.  *)
Unwarn(new) ==
  LET others == unreplaced \ Known IN
  \/ new \in unreplaced /\ unreplaced' = unreplaced \ {new}
  \/ new \notin unreplaced /\ others = {} /\ UNCHANGED unreplaced
  \/ new \notin unreplaced /\ \E t \in others : unreplaced' = unreplaced \ {t}

FillEnd ==
  /\ \/ /\ At(Sync, "fill-done")
        /\ ReplaceSourceTunnel(0, to, at, FALSE)
        /\ Unwarn(to)
        /\ Goto(Sync, "fill")
        /\ from' = 0 /\ to' = 0 /\ at' = 0
        /\ UNCHANGED <<lock, syncVars, loaded, cands, acts>>
     \/ /\ At(Sync, "fill-failed")
        /\ hashes' = NoHash
        /\ SyncEnd(loaded)
        /\ UNCHANGED <<port, cur, mon, repairErr, unreplaced, fails>>
  /\ UNCHANGED <<xrayVars, grant, tickVars, fileVars, quarantine, better>>

SyncStep ==
  \/ SyncStart \/ SyncBegin \/ SyncList \/ FullBegin \/ FullEnd
  \/ ApplyPlans /\ UNCHANGED <<fileVars, loaded, selVars, fails, slotVars>>
  \/ DecideSlots \/ NextAct \/ FillNext
  \/ SlotRemove(Sync) \/ SlotAddOutbound(Sync) \/ SlotAdd(Sync) \/ SlotEndSync
  \/ FillAddOutbound \/ FillAdd \/ FillEnd

-----------------------------------------------------------------------------
(* The monitor: checkTunnel of a candidate source and ReplaceFailed.       *)

CheckFails(w) ==
  LET inRow == IF port[w] = 0 THEN 0 ELSE IF fails[w] < ReplaceAfter THEN fails[w] + 1 ELSE fails[w] IN
  /\ ProbeFails(w, IF inRow >= ReplaceAfter THEN "replace" ELSE "repair")
  /\ fails' = [fails EXCEPT ![w] = inRow]
  /\ UNCHANGED <<fileVars, loaded, selVars, slotVars>>

CheckSucceeds(w) ==
  /\ ProbeSucceeds(w)
  /\ fails' = [fails EXCEPT ![w] = 0]
  /\ unreplaced' = unreplaced \ {w}
  /\ UNCHANGED <<fileVars, loaded, cands, quarantine, better, slotVars>>

(* A gone tunnel, or a source that waits for a full apply: only repaired.  *)
ReplaceSkip(w) ==
  /\ At(w, "replace")
  /\ lock = Nobody
  /\ port[w] = 0 \/ hashes = NoHash
  /\ Goto(w, "repair")
  /\ UNCHANGED <<xrayVars, memVars, lock, grant, syncVars, tickVars, fileVars, loaded, selVars, fails, slotVars>>

ReplaceBegin(w) ==
  /\ At(w, "replace")
  /\ port[w] # 0 /\ hashes # NoHash
  /\ \/ /\ Read("Dial", TRUE)
        /\ LockTarget(w)
        /\ Goto(w, "replace-list")
        /\ UNCHANGED slots
     \/ /\ Read("Dial", FALSE)
        /\ lock = Nobody /\ UNCHANGED lock
        /\ Goto(w, "idle")
        /\ slots' = slots - 1
  /\ UNCHANGED <<memVars, grant, syncVars, refs, aim, downs, fileVars, loaded, selVars, fails, slotVars>>

(* Repair's check of the inbound; its error is left to the repair.         *)
ReplaceList(w) ==
  /\ At(w, "replace-list")
  /\ \/ Read("List", FALSE) /\ Unlock(w, "repair") /\ UNCHANGED memVars
     \/ Read("List", TRUE) /\ ins[w] # 0 /\ Goto(w, "replace-choose") /\ UNCHANGED <<lock, memVars>>
     \/ /\ Read("List", TRUE)
        /\ ins[w] = 0
        /\ hashes' = NoHash
        /\ SetMon(w, "degraded")
        /\ Unlock(w, "idle")
        /\ UNCHANGED <<port, cur, repairErr>>
  /\ UNCHANGED <<grant, syncVars, tickVars, fileVars, loaded, selVars, fails, slotVars>>

(* The failed pair goes into quarantine; the best candidate of the last    *)
(* sync takes the slot, or the tunnel is left to the repair.               *)
ReplaceChoose(w) ==
  /\ At(w, "replace-choose")
  /\ quarantine' = quarantine \cup {Pair(c) : c \in {d \in cands : d.tag = w}}
  /\ LET ranked == Ranked(cands)
         free == Allowed(ranked, Known, KeysOf(cands, Known \ {w}), quarantine')
     IN  \/ /\ free = {}
            /\ unreplaced' = unreplaced \cup {w}
            /\ Unlock(w, "repair")
            /\ UNCHANGED <<from, to, at>>
         \/ /\ free # {}
            /\ from' = w
            /\ to' = Best(free, ranked).tag
            /\ at' = port[w]
            /\ Goto(w, "slot-rm-rule")
            /\ UNCHANGED <<unreplaced, lock>>
  /\ UNCHANGED <<xrayVars, memVars, grant, syncVars, tickVars, fileVars, loaded, cands, better, fails, acts>>

ReplaceEnd(w) ==
  /\ \/ At(w, "slot-done") /\ ReplaceSourceTunnel(from, to, at, FALSE)
     \/ At(w, "slot-failed") /\ ReplaceSourceTunnel(from, 0, 0, TRUE)
  /\ unreplaced' = unreplaced \ {from}
  /\ Unlock(w, "idle")
  /\ from' = 0 /\ to' = 0 /\ at' = 0
  /\ UNCHANGED <<xrayVars, grant, syncVars, tickVars, fileVars, loaded, cands, quarantine, better, acts>>

WorkerStep(w) ==
  \/ /\ StartCheck(w) \/ Repair(w) \/ Rejoin(w)
     /\ UNCHANGED <<fileVars, loaded, selVars, fails, slotVars>>
  \/ CheckFails(w) \/ CheckSucceeds(w)
  \/ ReplaceSkip(w) \/ ReplaceBegin(w) \/ ReplaceList(w) \/ ReplaceChoose(w)
  \/ SlotRemove(w) \/ SlotAddOutbound(w) \/ SlotAdd(w) \/ ReplaceEnd(w)

-----------------------------------------------------------------------------
(* The environment: restarts, edits of the file and time.                  *)

Restart ==
  \/ /\ RestartXray
     /\ UNCHANGED <<memVars, lock, pc, grant, syncVars, tickVars, fileVars, loaded, selVars, fails, slotVars>>
  \/ /\ RestartScd
     /\ loaded' = {} /\ cands' = {} /\ quarantine' = {} /\ better' = NoSeries /\ unreplaced' = {}
     /\ fails' = [t \in Tunnels |-> 0]
     /\ acts' = NoActs /\ from' = 0 /\ to' = 0 /\ at' = 0
     /\ UNCHANGED fileVars

Edit ==
  /\ edits < MaxEdits
  /\ edits' = edits + 1
  /\ file' \in Files \ {file}
  /\ UNCHANGED <<targetVars, loaded, selVars, fails, slotVars>>

(* The quarantine of a pair ends.                                          *)
Expire ==
  /\ \E q \in quarantine : quarantine' = quarantine \ {q}
  /\ UNCHANGED <<targetVars, fileVars, loaded, cands, better, unreplaced, fails, slotVars>>

Tick == TickStart /\ UNCHANGED <<fileVars, loaded, selVars, fails, slotVars>>

Next ==
  \/ SyncStep
  \/ Tick
  \/ \E w \in Tunnels : WorkerStep(w)
  \/ Restart
  \/ Edit
  \/ Expire

Spec == Init /\ [][Next]_vars

(* Every loop keeps running, every RPC answers or times out, the Go mutex  *)
(* hands the lock to every waiter in the end, and every quarantine ends.   *)
Fairness ==
  /\ WF_vars(SyncStep)
  /\ SF_vars(SyncBegin)
  /\ WF_vars(Tick)
  /\ WF_vars(Expire)
  /\ \A w \in Tunnels :
       /\ WF_vars(WorkerStep(w))
       /\ SF_vars(/\ RepairSkip(w) \/ RepairBegin(w) \/ RejoinBegin(w)
                  /\ UNCHANGED <<fileVars, loaded, selVars, fails, slotVars>>)
       /\ SF_vars(ReplaceSkip(w) \/ ReplaceBegin(w))

LiveSpec == Spec /\ Fairness

-----------------------------------------------------------------------------
(* Properties.                                                             *)

(* README.md:329-337: "Xray never holds more than maxActive outbounds of   *)
(* the source, at any RPC", whatever calls failed or were lost, whoever    *)
(* restarted: CheckCap reads Xray before every add, under the target lock. *)
Cap == Cardinality(outs) <= MaxActive

(* Without a failed call, Xray holds exactly the tunnels of memory on      *)
(* their recorded outbounds and ports whenever the target lock is free:    *)
(* syncs, replacements, repairs and rejoins never leave the two apart.     *)
CandidatesMatchXray == faults = 0 /\ lock = Nobody => Holds(port, cur)

CandidateOf(t) == CHOOSE c \in UNION Files : c.tag = t
KeyOf(t) == CandidateOf(t).key

(* A key is on one tunnel at a time (a provider may limit the connections  *)
(* of a key; Pick, Replacement, Decide): whenever the target lock is free  *)
(* and the source does not wait for a full apply, no two tunnels in Xray   *)
(* have one key, whatever calls failed or were lost before.                *)
KeysApart ==
  lock = Nobody /\ hashes # NoHash => \A a, b \in outs : KeyOf(a[1]) = KeyOf(b[1]) => a[1] = b[1]

(* A candidate whose pair is in quarantine never becomes active: not by a  *)
(* full apply, a replacement or a vacant slot, although several calls lie  *)
(* between the choice and its commit (full, Decide, fill, ReplaceFailed).  *)
QuarantineHolds ==
  [][\A t \in Tunnels : port[t] = 0 /\ port'[t] # 0 => Pair(CandidateOf(t)) \notin quarantine]_vars

(* The no_replacement warnings of tunnels that are not active never        *)
(* outnumber the empty slots (decide, fill, pruneNoReplacement).           *)
WarningsFitSlots ==
  Cardinality(unreplaced \ Known) <= MaxActive - Cardinality(Known)

(* Once calls and probes stop failing and the file stops changing, the     *)
(* source ends up, and stays, with as many tunnels as slots and keys       *)
(* allow, and every one is reachable: after restarts, failed replacements, *)
(* failed full applies and quarantines.  As for Heals of VlessSource, two  *)
(* failed calls are excepted, after which a slot may stay broken           *)
(* (Refusable and Losable of the run leave them out): a refused RemoveRule *)
(* and an AddRule whose answer is lost.                                    *)
SlotsHeal ==
  <>[](/\ \A t \in Known : Routed(t)
       /\ Cardinality(Known) = Min({MaxActive, Cardinality({c.key : c \in file})}))
=============================================================================
