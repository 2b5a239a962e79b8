----------------------------- MODULE VlessSource -----------------------------
(***************************************************************************)
(* A VLESS source of one target: the sync (Syncer.syncPlans), which        *)
(* compares hashes and looks for drift before it applies, together with    *)
(* the tunnel monitor of module Target and an environment that edits the   *)
(* subscription, breaks tunnels and restarts Xray.                         *)
(*                                                                         *)
(* The hashes of the three kinds are stored together and only after a full *)
(* success, so they are one value: the set of tunnels they were computed   *)
(* from.                                                                   *)
(***************************************************************************)
EXTENDS FullApply

CONSTANT MaxEdits      \* bound on edits of the subscription

ASSUME VlessAssumption == MaxEdits \in Nat /\ MaxActive = 0

VARIABLES
  file,     \* tunnels of the subscription as it would load now
  edits,    \* edits so far
  intact    \* Xray has not restarted since the running apply listed outbounds

vars == <<targetVars, file, edits, intact>>

(* The state of the target and of the environment has its type.            *)
TypeOK ==
  /\ TargetTypeOK
  /\ file \subseteq Tunnels
  /\ edits \in 0..MaxEdits
  /\ intact \in BOOLEAN

Init ==
  /\ TargetInit
  /\ file \in SUBSET Tunnels \ {{}}
  /\ edits = 0
  /\ intact = TRUE

-----------------------------------------------------------------------------
(* The sync.                                                               *)

(* BuildSource, byTag: the tunnels get the ports of the range in tag order. *)
PortsOf(S) == [t \in Tunnels |-> IF t \in S THEN Cardinality(S \cap 1..t) ELSE 0]

(* The subscription is loaded and its plan compared with the saved hashes, *)
(* without the lock.  A subscription that does not load reaches no sync.   *)
SyncStart ==
  /\ At(Sync, "idle")
  /\ plan' = PortsOf(file)
  /\ Goto(Sync, IF hashes = plan' THEN "drift" ELSE "apply")
  /\ UNCHANGED <<xrayVars, memVars, lock, grant, todo, left, backups, added, failed, tickVars>>

(* Mutant: the lists are read without the target lock.                     *)
DriftCheckUnlocked ==
  /\ At(Sync, "drift")
  /\ Read("List", TRUE) /\ Goto(Sync, IF Missing(plan) THEN "apply" ELSE "idle")
  /\ UNCHANGED <<memVars, lock, grant, syncVars, tickVars>>

(* missingInXray reads under the target lock; a list error means no drift. *)
DriftCheck ==
  /\ At(Sync, "drift")
  /\ lock = Nobody
  /\ \/ \E call \in {"Dial", "List"} : Read(call, FALSE) /\ Goto(Sync, "idle")
     \/ Read("List", TRUE) /\ Goto(Sync, IF Missing(plan) THEN "apply" ELSE "idle")
  /\ UNCHANGED <<memVars, lock, grant, syncVars, tickVars>>

(* Lock the target and create the client; without one every kind fails.    *)
ApplyBegin ==
  /\ At(Sync, "apply")
  /\ \/ Read("Dial", TRUE) /\ LockTarget(Sync) /\ Goto(Sync, "out-list")
     \/ Read("Dial", FALSE) /\ lock = Nobody /\ Goto(Sync, "idle") /\ UNCHANGED lock
  /\ failed' = FALSE
  /\ UNCHANGED <<memVars, grant, plan, todo, left, backups, added, tickVars>>

(* ReplaceSourceTopology, only after a full success: idle monitors, every  *)
(* tunnel on its initial outbound, new hashes.  A failed apply keeps the   *)
(* old topology and the old hashes.                                        *)
Commit ==
  /\ At(Sync, "commit")
  /\ IF failed
     THEN UNCHANGED memVars
     ELSE /\ port' = plan
          /\ cur' = [t \in Tunnels |-> Initial]
          /\ mon' = [t \in Tunnels |-> "idle"]
          /\ repairErr' = {}
          /\ hashes' = plan
  /\ Unlock(Sync, "idle")
  /\ todo' = {} /\ left' = {} /\ backups' = {} /\ added' = {} /\ failed' = FALSE
  /\ UNCHANGED <<xrayVars, grant, plan, tickVars>>

SyncStep == SyncStart \/ DriftCheck \/ ApplyBegin \/ ApplyPlans \/ Commit

-----------------------------------------------------------------------------
(* The environment.                                                        *)

Restart ==
  /\ \/ /\ RestartXray
        /\ UNCHANGED <<memVars, lock, pc, grant, syncVars, tickVars>>
     \/ RestartScd
  /\ intact' = FALSE
  /\ UNCHANGED <<file, edits>>

Edit ==
  /\ edits < MaxEdits
  /\ edits' = edits + 1
  /\ file' \in (SUBSET Tunnels) \ {{}, file}
  /\ UNCHANGED <<targetVars, intact>>

-----------------------------------------------------------------------------
WorkerStep(w) ==
  \/ StartCheck(w)
  \/ ProbeFails(w, "repair")
  \/ ProbeSucceeds(w)
  \/ Repair(w)
  \/ Rejoin(w)

Next ==
  \/ /\ SyncStep
     /\ intact' = (intact \/ At(Sync, "out-list"))
     /\ UNCHANGED <<file, edits>>
  \/ /\ TickStart \/ \E w \in Tunnels : WorkerStep(w)
     /\ UNCHANGED <<file, edits, intact>>
  \/ Restart
  \/ Edit

Spec == Init /\ [][Next]_vars

(* Every loop keeps running, every RPC answers or times out, and the Go    *)
(* mutex hands the lock to every waiter in the end.                        *)
Fairness ==
  /\ WF_vars(SyncStep /\ intact' = (intact \/ At(Sync, "out-list")) /\ UNCHANGED <<file, edits>>)
  /\ SF_vars((DriftCheck \/ ApplyBegin) /\ UNCHANGED <<file, edits, intact>>)
  /\ WF_vars(TickStart /\ UNCHANGED <<file, edits, intact>>)
  /\ \A w \in Tunnels :
       /\ WF_vars(WorkerStep(w) /\ UNCHANGED <<file, edits, intact>>)
       /\ SF_vars((RepairSkip(w) \/ RepairBegin(w) \/ RejoinBegin(w)) /\ UNCHANGED <<file, edits, intact>>)

LiveSpec == Spec /\ Fairness

-----------------------------------------------------------------------------
(* Properties.                                                             *)

Doubled(t) == <<t, "obs">> \in outs /\ <<t, "bare">> \in outs

(* Whenever the target lock is free and no call has failed, Xray holds     *)
(* exactly the tunnels of memory, each on its recorded outbound: repair,   *)
(* rejoin and sync (repair.go, syncer.go) never leave the two apart,       *)
(* however their steps interleave.                                         *)
MemoryMatchesXray == faults = 0 /\ lock = Nobody => Holds(port, cur)

(* missingInXray reads "under the target lock so that a tunnel repair is   *)
(* never seen half done": without a failed call an unchanged subscription  *)
(* is never applied again.                                                 *)
NoFalseDrift == faults = 0 => ~(At(Sync, "apply") /\ hashes = plan /\ lock = Nobody)

(* removeTunnel: "the tunnel never runs on two outbounds at once".  No     *)
(* step of a repair or a rejoin, whatever calls failed before, puts a      *)
(* second copy of a tunnel into Xray; only the rollback of a failed full   *)
(* apply (restoreBackups) can.                                             *)
OnlyRollbackDoubles ==
  [][\A t \in Tunnels : Doubled(t)' /\ ~Doubled(t) => At(Sync, "undo-restore")]_vars

(* syncPlans stores hashes only after every kind succeeded: at that moment *)
(* Xray holds exactly the plan, every tunnel in the balancer, unless Xray  *)
(* restarted during the apply.  Lost answers do not break it.              *)
CommitIsExact ==
  [][hashes' # hashes /\ hashes' # NoHash /\ intact
       => Holds(hashes', [t \in Tunnels |-> Initial])]_vars

(* Repair leaves a tunnel "repairing" only when it got no client: after    *)
(* any other end of a repair, and after a sync, the state is final again.  *)
RepairingIsOwned ==
  "Dial" \notin Refusable => \A t \in Tunnels : mon[t] = "repairing" => lock = t

(* Once calls and probes stop failing and the subscription stops changing, *)
(* every tunnel of the subscription ends up, and stays, reachable and in   *)
(* the balancer: after Xray restarts (xray_state_lost, xray_state_drift),  *)
(* failed repairs, failed rejoins and failed applies.  Two failed calls    *)
(* are excepted, after which the code does not heal (Refusable and Losable *)
(* of the run leave them out): a refused RemoveRule, which is best effort  *)
(* (repairCalls, rejoinCalls), and an AddRule whose answer is lost.  Each  *)
(* can leave a rule that points to a removed outbound; drift looks at its  *)
(* tag only, and a repair takes the tunnel for withdrawn.                  *)
Heals ==
  <>[](\A t \in file : Routed(t) /\ rules[t] = Initial)
=============================================================================
