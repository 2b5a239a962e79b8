--------------------------- MODULE DependencyWait ---------------------------
(***************************************************************************)
(* The dependency waits of the tunnel monitor (internal/scd/monitor/wait.go *)
(* and internal/scd/state/wait.go) for one candidate source with two       *)
(* dependencies: "own", a balancer of its own Xray, asked at every tick,   *)
(* and "cross", a balancer of another subscription, read from what the     *)
(* selection tick of that subscription recorded (module Balancer).         *)
(*                                                                         *)
(* Processes: the tunnel tick with one worker per tunnel (TunnelTick,      *)
(* checkTunnel, ReplaceFailed), the sync of the source, and the selection  *)
(* tick of the other subscription.  One call of the Xray API is one step;  *)
(* a Memory.Update belongs to the step of the call it follows.  The calls  *)
(* that put a candidate into a slot, and which candidate it is, are the    *)
(* subject of module CandidateSource: here they are one step and any       *)
(* candidate.  A tunnel goes by its tag, as in the code, and a tag stands  *)
(* for a candidate; slots are only counted.  The unit of time is one       *)
(* activation of the selection schedule.                                   *)
(***************************************************************************)
EXTENDS Balancer

CONSTANTS
  Cands,           \* candidates that a file of the source may list
  MaxActive,       \* its slots
  ReplaceAfter,    \* selection.replaceAfterFailures
  Cooldown,        \* selection.deadPairCooldownMinutes
  Grace,           \* Grace[d]: recoverGraceSeconds of dependency d
  OwnAnswers,      \* raw answers of the own balancer
  CrossAnswers,    \* raw answers of the other balancer
  Owned,           \* tags of the sources of the other balancer
  MaxChanges       \* bound on changed answers and late polls

Deps == {"own", "cross"}
NoGrace == -1
Tick == -1
Sync == -2
Nobody == 0

ASSUME WaitAssumption ==
  /\ Cands \subseteq Nat \ {0} /\ MaxActive \in Nat
  /\ ReplaceAfter \in Nat \ {0} /\ Cooldown \in Nat \ {0}
  /\ Grace \in [Deps -> Nat]
  /\ MaxChanges \in Nat

ASSUME AnswerAssumption ==
  OwnAnswers \subseteq [code : STRING, override : STRING, known : BOOLEAN, tags : Seq(STRING)]

VARIABLES
  own, cross,    \* what the two balancers answer now
  changes,       \* changed answers and late polls so far
  down,          \* XrayDown of the target
  checkFailed,   \* CheckFailed of the source
  wait,          \* Waits[source]: entry, since, age, health and pause of each dependency
  active,        \* the candidates that have a tunnel
  fails,         \* FailuresInRow of their tunnels
  reset,         \* the hashes are reset: the next sync applies in full
  quarantine,    \* quarantine[c]: time left, 0 for none
  sel, downB,    \* selection state of the other balancer, XrayDown of its target
  lock,          \* holder of the target lock
  tick,          \* step of the tick
  worker, heard, \* step of each worker, the answer of its call
  sync, copy,    \* step of the sync, its copy of the quarantine
  scheduled      \* the selection tick of the last activation has not ended

memory == <<down, checkFailed, wait, active, fails, reset, quarantine>>
control == <<lock, tick, worker, heard, sync, copy>>
vars == <<own, cross, changes, memory, sel, downB, control, scheduled>>

NoAnswer == [code |-> "none"]
NoWait == [entry |-> FALSE, since |-> FALSE, age |-> 0,
           dep |-> [d \in Deps |-> ""], grace |-> [d \in Deps |-> NoGrace]]
NoQuarantine == [c \in Cands |-> 0]
NoFails == [c \in Cands |-> 0]
MaxGrace == Max({Grace[d] : d \in Deps})
AgeCap == Max({Cooldown - MaxGrace, 0})   \* a longer wait releases nothing more

(* Sets of candidates that can have the slots if those of kept have them   *)
(* already: none of the others is in the quarantine q.                     *)
ActiveSets(kept, q) ==
  {A \in SUBSET Cands : Cardinality(A) <= MaxActive /\ \A c \in A \ kept : q[c] = 0}

(* The source has been applied once.                                       *)
Init ==
  /\ own \in OwnAnswers /\ cross \in CrossAnswers /\ changes = 0
  /\ down = FALSE /\ checkFailed = FALSE /\ wait = NoWait
  /\ active \in ActiveSets({}, NoQuarantine)
  /\ fails = NoFails /\ reset = FALSE
  /\ quarantine = NoQuarantine
  /\ sel = NoSelection /\ downB = FALSE
  /\ lock = Nobody
  /\ tick = "work"
  /\ worker = [c \in Cands |-> "done"] /\ heard = [c \in Cands |-> NoAnswer]
  /\ sync = "idle" /\ copy = NoQuarantine
  /\ scheduled = TRUE

-----------------------------------------------------------------------------
(* Memory.                                                                 *)

(* SourceWaiting.                                                          *)
SourceWaiting == checkFailed \/ (wait.entry /\ (wait.since \/ down))

Bad(health) == {d \in Deps : health[d] # "healthy"}

(* Mutant: every healthy check starts the pause again.                     *)
PauseAnew(health, d) ==
  CASE health[d] # "healthy" -> NoGrace
    [] health[d] = "healthy" /\ wait.since -> Grace[d]
    [] OTHER -> wait.grace[d]

(* The pause of a dependency after a check: none while it is not healthy,  *)
(* started when it becomes healthy during a wait.                          *)
Pause(health, d) ==
  CASE health[d] # "healthy" -> NoGrace
    [] health[d] = "healthy" /\ wait.dep[d] # "healthy" /\ wait.since -> Grace[d]
    [] OTHER -> wait.grace[d]

Starts(health) == ~down' /\ Bad(health) # {} /\ ~wait.since
Ends(health) ==
  ~down' /\ Bad(health) = {} /\ wait.since /\ \A d \in Deps : Pause(health, d) <= 0

(* Mutant: the counts of the tunnels are kept.                             *)
ApplyWaitsKeepsFails(health) ==
  /\ wait' = CASE down' -> [wait EXCEPT !.entry = TRUE]
               [] Ends(health) -> [NoWait EXCEPT !.entry = TRUE, !.dep = health]
               [] OTHER -> [entry |-> TRUE,
                            since |-> wait.since \/ Bad(health) # {},
                            age |-> IF wait.since THEN wait.age ELSE 0,
                            dep |-> health,
                            grace |-> [d \in Deps |-> Pause(health, d)]]
  /\ fails' = fails

(* applyWaits, its update: nothing while the Xray API is down; else the    *)
(* source starts to wait, or waits on, or stops and its counts start       *)
(* again.  NoteXray has run before it: down' is what it left.              *)
ApplyWaits(health) ==
  /\ wait' = CASE down' -> [wait EXCEPT !.entry = TRUE]
               [] Ends(health) -> [NoWait EXCEPT !.entry = TRUE, !.dep = health]
               [] OTHER -> [entry |-> TRUE,
                            since |-> wait.since \/ Bad(health) # {},
                            age |-> IF wait.since THEN wait.age ELSE 0,
                            dep |-> health,
                            grace |-> [d \in Deps |-> Pause(health, d)]]
  /\ fails' = IF Ends(health) THEN NoFails ELSE fails

(* crossHealth on top of the answer of the own balancer.                   *)
CheckedHealth(raw) == [own |-> Health(raw), cross |-> SelectionHealth(sel, downB)]

-----------------------------------------------------------------------------
(* The release of the quarantines that a failing dependency caused.        *)

(* The argument locked: ReplaceFailed holds the target lock.               *)
Locked(p) == p # Tick

(* Mutant: the release does not take the lock.                             *)
MayReleaseAlways(p) == TRUE

MayRelease(p) == Locked(p) \/ lock = Nobody

(* ReleaseSince: the quarantines that started MaxGrace before the wait     *)
(* began, or later.                                                        *)
ReleaseSince ==
  quarantine' = [c \in Cands |-> IF Cooldown - quarantine[c] <= MaxGrace + wait.age
                                 THEN 0 ELSE quarantine[c]]

-----------------------------------------------------------------------------
(* The tick.                                                               *)

(* No tick runs, or all its workers are done.                              *)
Idle == tick = "work" /\ \A c \in Cands : worker[c] = "done"

(* TunnelTick starts: the tunnels of the source are copied, one worker for *)
(* each.                                                                   *)
TickStart ==
  /\ Idle
  /\ tick' = "apply"
  /\ worker' = [c \in Cands |-> IF c \in active THEN "todo" ELSE "done"]
  /\ UNCHANGED <<own, cross, changes, memory, sel, downB, lock, heard, sync, copy, scheduled>>

(* dependencyHealth: its call and what it records.                         *)
DependencyHealth ==
  /\ tick = "apply"
  /\ down' = NoteXray(Verdict(own), down)
  /\ ApplyWaits(CheckedHealth(own))
  /\ tick' = IF Starts(CheckedHealth(own)) THEN "release" ELSE "work"
  /\ UNCHANGED <<own, cross, changes, checkFailed, active, reset, quarantine, sel, downB,
                 lock, worker, heard, sync, copy, scheduled>>

ReleaseByTick ==
  /\ tick = "release"
  /\ MayRelease(Tick)
  /\ ReleaseSince
  /\ tick' = "work"
  /\ UNCHANGED <<own, cross, changes, down, checkFailed, wait, active, fails, reset, sel, downB,
                 lock, worker, heard, sync, copy, scheduled>>

Due(c) == ~SourceWaiting /\ fails'[c] >= ReplaceAfter

(* checkTunnel: the probe and what follows from it.  The result of a       *)
(* tunnel that a sync has dropped since is ignored.  Repair and rejoin are *)
(* in module Target.                                                       *)
CheckTunnel(c) ==
  /\ tick = "work" /\ worker[c] = "todo"
  /\ \/ /\ fails' = [fails EXCEPT ![c] = 0]
        /\ worker' = [worker EXCEPT ![c] = "done"]
     \/ /\ fails' = [fails EXCEPT ![c] = IF c \in active /\ @ < ReplaceAfter THEN @ + 1 ELSE @]
        /\ worker' = [worker EXCEPT ![c] = IF Due(c) THEN "lock" ELSE "done"]
  /\ UNCHANGED <<own, cross, changes, down, checkFailed, wait, active, reset, quarantine, sel, downB,
                 lock, tick, heard, sync, copy, scheduled>>

Leave(c) == worker' = [worker EXCEPT ![c] = "done"] /\ lock' = Nobody

(* ReplaceFailed: the lock, the wait that another worker started, and what *)
(* a sync did meanwhile: dropped the tunnel, or failed.                    *)
LockReplace(c) ==
  /\ worker[c] = "lock" /\ lock = Nobody
  /\ IF SourceWaiting \/ reset \/ c \notin active THEN Leave(c)
     ELSE worker' = [worker EXCEPT ![c] = "inbound"] /\ lock' = c
  /\ UNCHANGED <<own, cross, changes, memory, sel, downB, tick, heard, sync, copy, scheduled>>

(* hasInbound: a failed call leaves the tunnel to the repair, and a        *)
(* missing inbound means that Xray lost its state (stateLost).             *)
HasInbound(c) ==
  /\ worker[c] = "inbound"
  /\ \/ Outcome(own) \in {"unavailable", "error"} /\ Leave(c) /\ UNCHANGED reset
     \/ /\ Outcome(own) \notin {"unavailable", "error"}
        /\ \/ worker' = [worker EXCEPT ![c] = "ask"] /\ UNCHANGED <<lock, reset>>
           \/ Leave(c) /\ reset' = TRUE
  /\ UNCHANGED <<own, cross, changes, down, checkFailed, wait, active, fails, quarantine, sel, downB,
                 tick, heard, sync, copy, scheduled>>

(* freshWait: its call, a step of its own because the health of the other  *)
(* balancer may change before the answer is used.                          *)
AskAgain(c) ==
  /\ worker[c] = "ask"
  /\ worker' = [worker EXCEPT ![c] = "decide"]
  /\ heard' = [heard EXCEPT ![c] = own]
  /\ UNCHANGED <<own, cross, changes, memory, sel, downB, lock, tick, sync, copy, scheduled>>

(* Replacement: a candidate that is not active and not in quarantine.      *)
Free(q) == {n \in Cands \ active : q[n] = 0}

(* The pair of the tunnel goes into quarantine.  A free candidate takes    *)
(* its slot, if the last sync listed one; when a call of it fails, the     *)
(* slot is left empty.  The API has just answered, so it is up, unless it  *)
(* was that call that found it down.                                       *)
Replace(c) ==
  LET q == [quarantine EXCEPT ![c] = Cooldown] IN
  /\ quarantine' = q
  /\ \/ UNCHANGED <<active, fails, reset>> /\ down' = FALSE
     \/ \E n \in Free(q) :
          /\ fails' = [fails EXCEPT ![c] = 0]
          /\ \/ active' = (active \ {c}) \cup {n} /\ UNCHANGED reset /\ down' = FALSE
             \/ active' = active \ {c} /\ reset' = TRUE /\ down' \in BOOLEAN

(* freshWait after its call: the source starts to wait, or the tunnel is   *)
(* replaced.                                                               *)
FreshWait(c) ==
  /\ worker[c] = "decide"
  /\ heard' = [heard EXCEPT ![c] = NoAnswer]
  /\ LET health == CheckedHealth(heard[c]) IN
     IF Bad(health) # {}
     THEN /\ down' = NoteXray(Verdict(heard[c]), down)
          /\ ApplyWaits(health)
          /\ IF Starts(health)
             THEN worker' = [worker EXCEPT ![c] = "release"] /\ UNCHANGED lock
             ELSE Leave(c)
          /\ UNCHANGED <<active, reset, quarantine>>
     ELSE Replace(c) /\ Leave(c) /\ UNCHANGED wait
  /\ UNCHANGED <<own, cross, changes, checkFailed, sel, downB, tick, sync, copy, scheduled>>

ReleaseByWorker(c) ==
  /\ worker[c] = "release"
  /\ MayRelease(c)
  /\ ReleaseSince
  /\ Leave(c)
  /\ UNCHANGED <<own, cross, changes, down, checkFailed, wait, active, fails, reset, sel, downB,
                 tick, heard, sync, copy, scheduled>>

-----------------------------------------------------------------------------
(* The sync of the source.  It asks checkSource before it takes the lock,  *)
(* and neither SourceWaiting nor the health of a dependency afterwards: it *)
(* replaces, fills and removes tunnels during a wait as at any other time. *)

(* checkSource: its dependency balancer must exist, and the other one must *)
(* not have been reported missing.  An error of the call is no verdict.    *)
CheckSource ==
  /\ sync = "idle"
  /\ down' = NoteXray(Verdict(own), down)
  /\ LET failed == Outcome(own) \in {"notFound", "disabled"} \/ CrossNotFound(sel)
         broken == Outcome(own) \in {"unavailable", "error"}
     IN  /\ checkFailed' = IF broken THEN checkFailed ELSE failed
         /\ sync' = IF broken \/ failed THEN "idle" ELSE "lock"
  /\ UNCHANGED <<own, cross, changes, wait, active, fails, reset, quarantine, sel, downB,
                 lock, tick, worker, heard, copy, scheduled>>

(* Under the lock the sync copies the selection state ...                  *)
SyncLock ==
  /\ sync = "lock" /\ lock = Nobody
  /\ lock' = Sync
  /\ sync' = "apply"
  /\ copy' = quarantine
  /\ UNCHANGED <<own, cross, changes, memory, sel, downB, tick, worker, heard, scheduled>>

(* decide and fill: candidates that are gone, changed or worse than        *)
(* another one leave (and may come back in a slot that is empty, with a    *)
(* new monitor), and empty slots are filled.  After a failed operation the *)
(* slot is empty and the hashes are reset.                                 *)
ChangeSlots ==
  /\ ~reset
  /\ active' \in ActiveSets(active, copy)
  /\ \E kept \in SUBSET (active \cap active') :
       fails' = [c \in Cands |-> IF c \in kept THEN fails[c] ELSE 0]
  /\ \/ reset' = FALSE
     \/ reset' = TRUE /\ Cardinality(active') < MaxActive

(* full: a new set of tunnels with new monitors, or none after a failure.  *)
ApplyInFull ==
  /\ fails' = NoFails
  /\ \/ active' \in ActiveSets({}, copy) /\ reset' = FALSE
     \/ active' = {} /\ reset' = TRUE

(* ... and writes it back after its calls.  A sync without a client        *)
(* changes nothing.                                                        *)
SyncWrite ==
  /\ sync = "apply"
  /\ ChangeSlots \/ ApplyInFull \/ UNCHANGED <<active, fails, reset>>
  /\ quarantine' = copy
  /\ lock' = Nobody
  /\ sync' = "idle"
  /\ copy' = NoQuarantine
  /\ UNCHANGED <<own, cross, changes, down, checkFailed, wait, sel, downB, tick, worker, heard, scheduled>>

-----------------------------------------------------------------------------
(* The selection tick of the other subscription, and time.                 *)

(* The selection tick.  Its call and its record are one step: nothing else *)
(* asks the other balancer, so the answer may as well change after both.   *)
Poll ==
  /\ scheduled
  /\ sel' = Record(sel, cross, Owned)
  /\ downB' = NoteXray(Outcome(cross), downB)
  /\ scheduled' = FALSE
  /\ UNCHANGED <<own, cross, changes, memory, control>>

Less(left) == IF left > 0 THEN left - 1 ELSE left

(* One activation of the selection schedule passes.  A selection tick that *)
(* has not ended yet loses the activation.  The monitor's own calls are    *)
(* short: time passes between ticks and while a lock is waited for.        *)
Advance ==
  /\ Idle \/ tick = "release" \/ \E c \in Cands : worker[c] = "lock"
  /\ IF ~scheduled THEN UNCHANGED changes ELSE changes < MaxChanges /\ changes' = changes + 1
  /\ scheduled' = TRUE
  /\ sel' = Aged(sel)
  /\ wait' = [wait EXCEPT !.age = IF wait.since THEN Min({@ + 1, AgeCap}) ELSE 0,
                          !.grace = [d \in Deps |-> Less(@[d])]]
  /\ quarantine' = [c \in Cands |-> Less(quarantine[c])]
  /\ copy' = [c \in Cands |-> Less(copy[c])]
  /\ UNCHANGED <<own, cross, down, checkFailed, active, fails, reset, downB, lock, tick, worker, heard, sync>>

OwnChanges ==
  /\ changes < MaxChanges /\ changes' = changes + 1
  /\ own' \in OwnAnswers \ {own}
  /\ UNCHANGED <<cross, memory, sel, downB, control, scheduled>>

CrossChanges ==
  /\ changes < MaxChanges /\ changes' = changes + 1
  /\ cross' \in CrossAnswers \ {cross}
  /\ UNCHANGED <<own, memory, sel, downB, control, scheduled>>

-----------------------------------------------------------------------------
TickStep == TickStart \/ DependencyHealth
WorkerStep(c) == CheckTunnel(c) \/ HasInbound(c) \/ AskAgain(c) \/ FreshWait(c) \/ ReleaseByWorker(c)
MonitorStep == TickStep \/ \E c \in Cands : WorkerStep(c)
MonitorLocks == ReleaseByTick \/ \E c \in Cands : LockReplace(c)

Next ==
  \/ MonitorStep \/ MonitorLocks
  \/ CheckSource \/ SyncLock \/ SyncWrite
  \/ Poll \/ Advance \/ OwnChanges \/ CrossChanges

(* The loops run on and every call ends (a timeout at the latest); Go's    *)
(* mutexes serve everyone who waits.                                       *)
Fairness ==
  /\ WF_vars(MonitorStep) /\ SF_vars(MonitorLocks)
  /\ WF_vars(SyncWrite)
  /\ WF_vars(Poll) /\ SF_vars(Advance)

Spec == Init /\ [][Next]_vars /\ Fairness

-----------------------------------------------------------------------------
(* Properties.                                                             *)

(* Candidates whose worker passed the checks of checkTunnel and may        *)
(* replace them.                                                           *)
Replacing == {c \in Cands : worker[c] \in {"lock", "inbound", "ask", "decide"}}

Quarantined == {c \in Cands : quarantine[c] > 0}

GateSpec == INSTANCE Gate
  WITH Limit <- ReplaceAfter, closed <- wait.since, due <- Replacing, held <- Quarantined

(* The waits keep the promise of module Gate: applyWaits, checkTunnel and  *)
(* ReplaceFailed together never give a candidate up during a wait, nor for *)
(* failed checks counted before a wait ended; and the sync, which changes  *)
(* tunnels during a wait too, puts none into quarantine.                   *)
KeepsGate == GateSpec!Spec

(* A working balancer, by what Xray says and not by what the code decodes. *)
Working(raw) ==
  /\ raw.code = "OK"
  /\ raw.override # NoTag \/ (raw.known /\ \E i \in DOMAIN raw.tags : raw.tags[i] # NoTag)

(* Once a wait has begun and its release is done, no quarantine is left    *)
(* that started within the pause before it, whatever a sync wrote back     *)
(* (applyWaits, releaseQuarantine, the sync's write of the selection).     *)
DeadPairsReleased ==
  wait.since /\ tick # "release" /\ (\A c \in Cands : worker[c] # "release")
  => \A c \in Cands : quarantine[c] = 0 \/ Cooldown - quarantine[c] > MaxGrace + wait.age

(* The monitor quarantines or replaces a candidate only when the own       *)
(* balancer, asked again under the lock, had an outbound, and the other    *)
(* one had one within the last three activations (freshWait,               *)
(* SelectionHealth, Stale).  The changes of the sync are not meant: it     *)
(* asks no balancer whether it has an outbound.                            *)
ReplacedWhileHealthy ==
  [][\A c \in Cands :
       quarantine'[c] > quarantine[c] \/ (lock = c /\ active' # active)
       => /\ Working(heard[c])
          /\ sel.state = "ok" /\ sel.age < StaleAfter /\ ~downB]_vars

(* When both balancers work for good, a wait ends: no lock is waited for   *)
(* by its holder, and every pause and every stale answer runs out.         *)
WaitsEnd == <>[](Working(own) /\ Working(cross)) => []<>(~wait.since)
=============================================================================
