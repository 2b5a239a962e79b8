------------------------------- MODULE Daemon -------------------------------
(***************************************************************************)
(* scd as a long-lived process: the cron loops (internal/common/cronloop), *)
(* the balancer check with its remote push (internal/scd/monitor), the     *)
(* collection of remote instances (internal/scd/status), the status server *)
(* (internal/common/httpserve) and the shutdown (internal/scd/daemon,      *)
(* internal/common/sigctx).                                                *)
(*                                                                         *)
(* Every instant is a slot of every schedule.  A loop's slot is kept       *)
(* relative to now: 1 is to come, 0 is due, -1 is past; older ones are     *)
(* past too.  What the ticks of the other loops do is the subject of the   *)
(* other modules: here such a tick runs and returns.                       *)
(***************************************************************************)
EXTENDS Integers, Sequences, FiniteSetsExt, SequencesExt

CONSTANTS
  Works,       \* sync, tunnel monitor and selection loops
  Sync,        \* the sync loop, one of them
  Balancers,   \* balancer monitor loops with a remote ping
  Remotes,     \* loops that collect a remote instance
  Once,        \* the loops whose schedule has no further slot
  Server,      \* statusServer.enabled
  MaxFailures  \* bound on failures of probes, pushes, fetches and the server

Loops == Works \cup Balancers \cup Remotes

ASSUME DaemonAssumption ==
  /\ Works \cap Balancers = {} /\ Works \cap Remotes = {} /\ Balancers \cap Remotes = {}
  /\ Sync \in Works /\ Once \subseteq Loops /\ Server \in BOOLEAN /\ MaxFailures \in Nat

Goroutines == 1..2   \* bound on the ticks of one loop at once
Past == -1

VARIABLES
  main,       \* Run: waits for "loops", "pushes" or the "server", or "exit"
  cancelled,  \* loopCtx is done
  srv,        \* the server: "up", "failed", "shut" or "off"
  loop,       \* loop[l]: "next", "wait", "idle", "drain" or "done"
  slot,       \* slot[l]: scheduledAt
  running,    \* running[l]: the flag that a tick is active
  tick,       \* tick[l][g]: the step of tick g, "none" without one
  fired,      \* history: the slots of a loop that fired in this instant, up to 2
  failures,
  synced,     \* SyncSeen
  mon,        \* mon[b]: the error of the recorded balancer check, "idle" before one
  ping,       \* ping[b]: the recorded push, with the report that its result is of
  pushes,     \* pushes[b]: the reports of the pushes in flight
  remote,     \* remote[r]: the error of the last collection, "idle" before one
  logged      \* history: a tick failure was logged that the shutdown caused

process == <<main, cancelled, srv>>
loops == <<loop, slot, running, tick, fired>>
memory == <<synced, mon, ping, pushes, remote, logged>>
vars == <<process, loops, failures, memory>>

Init ==
  /\ main = "loops" /\ cancelled = FALSE
  /\ srv = (IF Server THEN "up" ELSE "off")
  /\ loop = [l \in Loops |-> "next"] /\ slot = [l \in Loops |-> 0]
  /\ running = [l \in Loops |-> TRUE]        \* start, before the first slot
  /\ tick = [l \in Loops |-> [g \in Goroutines |-> IF g = 1 THEN "run" ELSE "none"]]
  /\ fired = [l \in Loops |-> 0]
  /\ failures = 0 /\ synced = FALSE
  /\ mon = [b \in Balancers |-> "idle"]
  /\ ping = [b \in Balancers |-> [state |-> "idle", report |-> "none", of |-> "none"]]
  /\ pushes = [b \in Balancers |-> <<>>]
  /\ remote = [r \in Remotes |-> "idle"]
  /\ logged = FALSE

Failure == failures < MaxFailures /\ failures' = failures + 1

-----------------------------------------------------------------------------
(* cronloop.Run.                                                           *)

Active(l) == {g \in Goroutines : tick[l][g] # "none"}

Start(l) ==
  /\ running' = [running EXCEPT ![l] = TRUE]
  /\ tick' = [tick EXCEPT ![l][Min(Goroutines \ Active(l))] = "run"]
  /\ fired' = [fired EXCEPT ![l] = IF @ = 2 THEN 2 ELSE @ + 1]

(* The slot after s: one that is past already is reported as an overrun,   *)
(* and the loop goes on from now.                                          *)
NextSlot(s) == IF s + 1 > 0 THEN s + 1 ELSE 1

Schedule(l) ==
  /\ loop[l] = "next"
  /\ IF l \in Once THEN loop' = [loop EXCEPT ![l] = "idle"] /\ slot' = [slot EXCEPT ![l] = Past]
     ELSE loop' = [loop EXCEPT ![l] = "wait"] /\ slot' = [slot EXCEPT ![l] = NextSlot(@)]
  /\ UNCHANGED <<process, running, tick, fired, failures, memory>>

(* Mutant: a tick that overruns its slot is not waited for.                *)
FireAnyway(l) ==
  /\ loop[l] = "wait" /\ slot[l] <= 0 /\ ~cancelled
  /\ loop' = [loop EXCEPT ![l] = "next"]
  /\ Active(l) # Goroutines /\ Start(l)
  /\ UNCHANGED <<process, slot, failures, memory>>

(* The timer: a slot that comes while the last tick runs is skipped.       *)
Fire(l) ==
  /\ loop[l] = "wait" /\ slot[l] <= 0 /\ ~cancelled
  /\ loop' = [loop EXCEPT ![l] = "next"]
  /\ IF running[l] THEN UNCHANGED <<running, tick, fired>> ELSE Start(l)
  /\ UNCHANGED <<process, slot, failures, memory>>

(* Cancelled in the select or right after the timer: the loop returns and  *)
(* waits for its tick.                                                     *)
Drain(l) ==
  /\ loop[l] \in {"wait", "idle"} /\ cancelled
  /\ loop' = [loop EXCEPT ![l] = "drain"] /\ slot' = [slot EXCEPT ![l] = Past]
  /\ UNCHANGED <<process, running, tick, fired, failures, memory>>

Return(l) ==
  /\ loop[l] = "drain" /\ Active(l) = {}
  /\ loop' = [loop EXCEPT ![l] = "done"]
  /\ UNCHANGED <<process, slot, running, tick, fired, failures, memory>>

(* quietOnCancel: the tick only reports its own cancellation.              *)
Quiet(causes) == cancelled /\ causes = {"cut"}

(* The tick returns with an error of these causes, {} for none.            *)
Ended(l, g, causes) ==
  /\ tick' = [tick EXCEPT ![l][g] = "none"]
  /\ running' = [running EXCEPT ![l] = FALSE]
  /\ logged' = (logged \/ (causes = {"cut"} /\ ~Quiet(causes)))
  /\ UNCHANGED <<loop, slot, fired>>

(* What ends a call: its answer, a failure, or the cancellation.           *)
Outcome(o) ==
  \/ o = "none" /\ UNCHANGED failures
  \/ o = "bad" /\ Failure
  \/ o = "cut" /\ cancelled /\ UNCHANGED failures

(* A sync reaches the target, before it applies a source.                  *)
MarkSynced(g) ==
  /\ tick[Sync][g] = "run" /\ ~synced
  /\ synced' = TRUE
  /\ UNCHANGED <<process, loops, failures, mon, ping, pushes, remote, logged>>

(* A tick of another loop returns.                                         *)
Work(l, g) ==
  /\ tick[l][g] = "run"
  /\ \E o \in {"none", "bad", "cut"} : Outcome(o) /\ Ended(l, g, {o} \ {"none"})
  /\ UNCHANGED <<process, synced, mon, ping, pushes, remote>>

-----------------------------------------------------------------------------
(* BalancerTick and its remote push.                                       *)

Checked(b, g, o) ==
  /\ mon' = [mon EXCEPT ![b] = o]
  /\ tick' = [tick EXCEPT ![b][g] = IF o = "none" THEN "up" ELSE "down"]
  /\ UNCHANGED <<loop, slot, running, fired, logged>>

(* The check: nothing before a sync, and nothing when cancelled, even if   *)
(* the probe was answered.                                                 *)
Check(b, g) ==
  /\ tick[b][g] = "run"
  /\ \E o \in {"none", "bad", "cut"} :
       /\ Outcome(o)
       /\ IF ~synced THEN o = "none" /\ Ended(b, g, {}) /\ UNCHANGED mon
          ELSE IF cancelled THEN Ended(b, g, {"cut"}) /\ UNCHANGED mon
          ELSE Checked(b, g, o)
  /\ UNCHANGED <<process, synced, ping, pushes, remote>>

(* Mutant: a push starts while another one is pending.                     *)
MayPushAlways(b) == Len(pushes[b]) < 2

MayPush(b) == ping[b].state # "pending"

(* scheduleRemotePing: a check-and-set under the state lock.               *)
SchedulePing(b, g) ==
  /\ tick[b][g] \in {"up", "down"}
  /\ IF MayPush(b)
     THEN /\ ping' = [ping EXCEPT ![b] = [state |-> "pending", report |-> tick[b][g], of |-> "none"]]
          /\ pushes' = [pushes EXCEPT ![b] = Append(@, tick[b][g])]
     ELSE UNCHANGED <<ping, pushes>>
  /\ Ended(b, g, {})
  /\ UNCHANGED <<process, failures, synced, mon, remote>>

(* pushRemotePing, detached from the cancellation: it ends by its answer   *)
(* or its own timeout.                                                     *)
Push(b, k) ==
  /\ \E s \in {"ok", "failed"} :
       /\ IF s = "ok" THEN UNCHANGED failures ELSE Failure
       /\ ping' = [ping EXCEPT ![b].state = s, ![b].of = pushes[b][k]]
  /\ pushes' = [pushes EXCEPT ![b] = RemoveAt(@, k)]
  /\ UNCHANGED <<process, loops, synced, mon, remote, logged>>

-----------------------------------------------------------------------------
(* Aggregator.Collect.                                                     *)

(* A tick that has its answer.                                             *)
Got == [none |-> "got-none", bad |-> "got-bad", cut |-> "got-cut"]

(* fetchRemote: a failure of the remote, or one that the shutdown caused.  *)
Fetch(r, g) ==
  /\ tick[r][g] = "run"
  /\ \E o \in {"none", "bad", "cut"} :
       Outcome(o) /\ tick' = [tick EXCEPT ![r][g] = Got[o]]
  /\ UNCHANGED <<process, loop, slot, running, fired, memory>>

(* Mutant: every failure is recorded.                                      *)
DroppedNever(o) == FALSE

(* A failure after the cancellation is neither recorded nor logged.        *)
Dropped(o) == o # "none" /\ cancelled

(* A snapshot replaces the last one and clears lastError, which is all     *)
(* that a failure sets.                                                    *)
Collect(r, g) ==
  /\ \E o \in {"none", "bad", "cut"} :
       /\ tick[r][g] = Got[o]
       /\ remote' = IF Dropped(o) THEN remote ELSE [remote EXCEPT ![r] = o]
  /\ Ended(r, g, {})
  /\ UNCHANGED <<process, failures, synced, mon, ping, pushes>>

-----------------------------------------------------------------------------
(* The process.                                                            *)

(* The first stop signal.  It also removes the handler, so that a second   *)
(* one kills the process, which is the end of every behaviour here.        *)
Signal ==
  /\ ~cancelled /\ cancelled' = TRUE
  /\ UNCHANGED <<main, srv, loops, failures, memory>>

(* Mutant: the loops go on without the server.                             *)
ServeFailsAlone ==
  /\ srv = "up" /\ main # "server" /\ Failure
  /\ srv' = "failed"
  /\ UNCHANGED <<main, cancelled, loops, memory>>

(* Serve returns an error: the loops are stopped.                          *)
ServeFails ==
  /\ srv = "up" /\ main # "server" /\ Failure
  /\ srv' = "failed" /\ cancelled' = TRUE
  /\ UNCHANGED <<main, loops, memory>>

LoopsDone ==
  /\ main = "loops" /\ \A l \in Loops : loop[l] = "done"
  /\ main' = "pushes"
  /\ UNCHANGED <<cancelled, srv, loops, failures, memory>>

(* background.Wait, then stopServer.                                       *)
PushesDone ==
  /\ main = "pushes" /\ \A b \in Balancers : pushes[b] = <<>>
  /\ main' = "server"
  /\ UNCHANGED <<cancelled, srv, loops, failures, memory>>

(* Shutdown ends with the requests in flight or at ShutdownTimeout.        *)
ServerDone ==
  /\ main = "server"
  /\ srv' = (IF srv = "up" THEN "shut" ELSE srv)
  /\ main' = "exit"
  /\ UNCHANGED <<cancelled, loops, failures, memory>>

(* Time passes, up to whatever a goroutine is about to do.                 *)
Advance ==
  /\ main = "loops"
  /\ slot' = [l \in Loops |-> IF slot[l] = Past THEN Past ELSE slot[l] - 1]
  /\ fired' = [l \in Loops |-> 0]
  /\ UNCHANGED <<process, loop, running, tick, failures, memory>>

LoopStep(l) == Schedule(l) \/ Fire(l) \/ Drain(l) \/ Return(l)
TickStep(l, g) ==
  \/ l \in Works /\ Work(l, g)
  \/ l \in Balancers /\ (Check(l, g) \/ SchedulePing(l, g))
  \/ l \in Remotes /\ (Fetch(l, g) \/ Collect(l, g))
PushStep(b) == \E k \in DOMAIN pushes[b] : Push(b, k)
MainStep == LoopsDone \/ PushesDone \/ ServerDone

Next ==
  \/ \E l \in Loops : LoopStep(l) \/ \E g \in Goroutines : TickStep(l, g)
  \/ \E g \in Goroutines : MarkSynced(g)
  \/ \E b \in Balancers : PushStep(b)
  \/ Signal \/ ServeFails \/ MainStep \/ Advance

(* The scheduler runs every goroutine, every probe, push and fetch has a   *)
(* timeout, and time passes.                                               *)
Spec ==
  /\ Init /\ [][Next]_vars
  /\ \A l \in Loops : WF_vars(LoopStep(l)) /\ \A g \in Goroutines : WF_vars(TickStep(l, g))
  /\ \A b \in Balancers : WF_vars(PushStep(b))
  /\ WF_vars(MainStep) /\ WF_vars(Advance)

-----------------------------------------------------------------------------
(* Properties.                                                             *)

(* A loop never has two ticks at once, whatever overruns, because ticks    *)
(* rely on being alone; and cronloop.go:59-61: missed slots do not fire in *)
(* a burst, so that at most one tick of a loop starts in an instant.       *)
OneTickPerSlot == \A l \in Loops : Cardinality(Active(l)) <= 1 /\ fired[l] <= 1

(* The recorded result of a push belongs to the report recorded with it:   *)
(* a late answer never passes for the result of another push.              *)
PingOfOnePush ==
  \A b \in Balancers : ping[b].state \in {"ok", "failed"} => ping[b].of = ping[b].report

(* A shutdown is nobody's failure: no check, collected instance or log     *)
(* holds an error that the cancellation caused.                            *)
ShutdownIsNoFailure ==
  /\ \A b \in Balancers : mon[b] # "cut"
  /\ \A r \in Remotes : remote[r] # "cut"
  /\ ~logged

(* A signal or a failed server ends the process, whatever runs then.       *)
Stops == (cancelled \/ srv = "failed") ~> main = "exit"
=============================================================================
