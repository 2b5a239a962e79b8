---------------------------- MODULE DaemonProofs ----------------------------
(***************************************************************************)
(* The two daemons.                                                        *)
(*                                                                         *)
(* The loops of scd (Daemon), for any number of loops of each kind, any    *)
(* schedules, and any number of failures and overruns.                     *)
(*                                                                         *)
(* sfc (Sfc, below): a refreshed server whose cache files work serves      *)
(* exactly what a restart without the upstream would serve, and while the  *)
(* process runs no output loses its payload or goes back behind a working  *)
(* cache.  Both rest on two facts about the middle of a refresh.  Versions *)
(* only grow on their way from the upstream through the refresher and the  *)
(* cache file to the payload (OrderInv), and the subscriptions and outputs *)
(* that the refresh has passed are served from their cache file, the ones  *)
(* it has not reached yet are so if the last refresh left them so          *)
(* (ServedInv).                                                            *)
(*                                                                         *)
(* The fairness of the specifications is not used.                         *)
(***************************************************************************)
EXTENDS Daemon, Sfc, FiniteSetTheorems, TLAPS

Steps == {"none", "run", "up", "down", "got-none", "got-bad", "got-cut"}

-----------------------------------------------------------------------------
(* One tick at a time.                                                     *)

LoopTypes ==
  /\ loop \in [Loops -> {"next", "wait", "idle", "drain", "done"}]
  /\ slot \in [Loops -> Int]
  /\ running \in [Loops -> BOOLEAN]
  /\ tick \in [Loops -> [Goroutines -> Steps]]
  /\ fired \in [Loops -> 0..2]

(* The flag of a loop is set while a tick of it runs, and there is one.    *)
TickAlone ==
  \A l \in Loops :
    /\ \A g \in Goroutines : tick[l][g] # "none" => running[l]
    /\ \A g, h \in Goroutines : tick[l][g] # "none" /\ tick[l][h] # "none" => g = h

(* A loop that has fired in this instant waits for a later one.            *)
NoBurst ==
  \A l \in Loops :
    /\ fired[l] <= 1
    /\ fired[l] = 1 /\ loop[l] = "wait" => slot[l] >= 1

LoopInv == LoopTypes /\ TickAlone /\ NoBurst

(* Every loop starts with its first tick.                                  *)
LEMMA LoopInit == Init => LoopInv
  BY DEF Init, LoopInv, LoopTypes, TickAlone, NoBurst, Steps, Goroutines

(* The first free goroutine of a loop without a tick.                      *)
LEMMA FirstGoroutine == Min(Goroutines) \in Goroutines
<1>1. \E x \in 1..2 : \A y \in 1..2 : x =< y
  OBVIOUS
<1> QED
  BY <1>1 DEF Min, Goroutines

(* A tick that goes on or ends.                                            *)
LEMMA TickMoves ==
  ASSUME LoopInv, NEW l \in Loops, NEW g \in Goroutines, NEW x \in Steps,
         tick[l][g] # "none",
         tick' = [tick EXCEPT ![l][g] = x],
         \/ running' = running
         \/ x = "none" /\ running' = [running EXCEPT ![l] = FALSE],
         UNCHANGED <<loop, slot, fired>>
  PROVE  LoopInv'
<1> USE DEF LoopInv
<1>1. /\ tick' \in [Loops -> [Goroutines -> Steps]]
      /\ tick'[l][g] = x
      /\ \A h \in Goroutines \ {g} : tick'[l][h] = tick[l][h] /\ tick[l][h] = "none"
      /\ \A k \in Loops \ {l} : tick'[k] = tick[k] /\ running'[k] = running[k]
  BY DEF LoopTypes, TickAlone
<1>2. running' \in [Loops -> BOOLEAN]
  BY DEF LoopTypes
<1>3. LoopTypes' /\ NoBurst'
  BY <1>1, <1>2 DEF LoopTypes, NoBurst
<1>4. x # "none" => running'[l]
  BY DEF TickAlone
<1>5. TickAlone'
  BY <1>1, <1>4 DEF TickAlone
<1> QED
  BY <1>3, <1>5

(* Every step of a loop, a tick, a push and the process keeps it.          *)
LEMMA LoopStepKeeps == LoopInv /\ [Next]_vars => LoopInv'
<1> SUFFICES ASSUME LoopInv, [Next]_vars PROVE LoopInv'
  OBVIOUS
<1>1. ASSUME UNCHANGED loops PROVE LoopInv'
  BY <1>1 DEF loops, LoopInv, LoopTypes, TickAlone, NoBurst
<1>2. ASSUME NEW l \in Loops, Schedule(l) PROVE LoopInv'
  <2>1. TickAlone'
    BY <1>2 DEF Schedule, LoopInv, TickAlone
  <2>2. CASE l \in Once
    <3>1. /\ loop' = [loop EXCEPT ![l] = "idle"] /\ slot' = [slot EXCEPT ![l] = -1]
          /\ UNCHANGED <<running, tick, fired>>
      BY <1>2, <2>2 DEF Schedule, Past
    <3> QED
      BY <2>1, <3>1 DEF LoopInv, LoopTypes, NoBurst
  <2>3. CASE l \notin Once
    <3>1. /\ loop' = [loop EXCEPT ![l] = "wait"]
          /\ slot' = [slot EXCEPT ![l] = NextSlot(slot[l])]
          /\ UNCHANGED <<running, tick, fired>>
      BY <1>2, <2>3 DEF Schedule
    <3>2. NextSlot(slot[l]) \in Int /\ NextSlot(slot[l]) >= 1
      BY DEF NextSlot, LoopInv, LoopTypes
    <3> QED
      BY <2>1, <3>1, <3>2 DEF LoopInv, LoopTypes, NoBurst
  <2> QED
    BY <2>2, <2>3
<1>3. ASSUME NEW l \in Loops, Fire(l) PROVE LoopInv'
  <2>1. CASE running[l]
    BY <1>3, <2>1 DEF Fire, LoopInv, LoopTypes, TickAlone, NoBurst
  <2>2. CASE ~running[l]
    <3>1. Active(l) = {} /\ fired[l] = 0
      BY <1>3, <2>2 DEF Fire, Active, LoopInv, LoopTypes, TickAlone, NoBurst
    <3>2. PICK g \in Goroutines :
            /\ tick' = [tick EXCEPT ![l][g] = "run"]
            /\ running' = [running EXCEPT ![l] = TRUE]
            /\ fired' = [fired EXCEPT ![l] = 1]
            /\ loop' = [loop EXCEPT ![l] = "next"] /\ slot' = slot
      BY <1>3, <2>2, <3>1, FirstGoroutine DEF Fire, Start
    <3>3. /\ LoopTypes'
          /\ tick'[l][g] = "run" /\ running'[l]
          /\ \A h \in Goroutines \ {g} : tick'[l][h] = "none"
          /\ \A k \in Loops \ {l} : tick'[k] = tick[k] /\ running'[k] = running[k]
      BY <3>1, <3>2 DEF LoopInv, LoopTypes, Active, Steps
    <3>4. TickAlone'
      BY <3>3 DEF LoopInv, TickAlone
    <3>5. NoBurst'
      BY <3>2 DEF LoopInv, LoopTypes, NoBurst
    <3> QED
      BY <3>3, <3>4, <3>5 DEF LoopInv
  <2> QED
    BY <2>1, <2>2
<1>4. ASSUME NEW l \in Loops, Drain(l) \/ Return(l) PROVE LoopInv'
  <2>1. TickAlone'
    BY <1>4 DEF Drain, Return, LoopInv, TickAlone
  <2>2. CASE Drain(l)
    <3>1. /\ loop' = [loop EXCEPT ![l] = "drain"] /\ slot' = [slot EXCEPT ![l] = -1]
          /\ UNCHANGED <<running, tick, fired>>
      BY <2>2 DEF Drain, Past
    <3> QED
      BY <2>1, <3>1 DEF LoopInv, LoopTypes, NoBurst
  <2>3. CASE Return(l)
    <3>1. /\ loop' = [loop EXCEPT ![l] = "done"]
          /\ UNCHANGED <<slot, running, tick, fired>>
      BY <2>3 DEF Return
    <3> QED
      BY <2>1, <3>1 DEF LoopInv, LoopTypes, NoBurst
  <2> QED
    BY <1>4, <2>2, <2>3
<1>5. ASSUME NEW l \in Loops, NEW g \in Goroutines, NEW causes, tick[l][g] # "none", Ended(l, g, causes)
      PROVE  LoopInv'
  BY <1>5, TickMoves DEF Ended, Steps
<1>6. ASSUME NEW l \in Loops, NEW g \in Goroutines, TickStep(l, g) PROVE LoopInv'
  <2>1. CASE l \in Works /\ Work(l, g)
    BY <1>5, <2>1 DEF Work
  <2>2. CASE Check(l, g)
    <3>1. tick[l][g] # "none"
      BY <2>2 DEF Check
    <3>2. CASE \E causes \in {{}, {"cut"}} : Ended(l, g, causes)
      BY <1>5, <3>1, <3>2
    <3>3. CASE \E o \in {"none", "bad", "cut"} : Checked(l, g, o)
      <4>1. PICK x \in {"up", "down"} :
              /\ tick' = [tick EXCEPT ![l][g] = x]
              /\ UNCHANGED <<loop, slot, running, fired>>
        BY <3>3 DEF Checked
      <4> QED
        BY <3>1, <4>1, TickMoves DEF Steps
    <3> QED
      BY <2>2, <3>2, <3>3 DEF Check
  <2>3. CASE SchedulePing(l, g)
    BY <1>5, <2>3 DEF SchedulePing
  <2>4. CASE Fetch(l, g)
    <3>1. PICK o \in {"none", "bad", "cut"} : tick' = [tick EXCEPT ![l][g] = Got[o]]
      BY <2>4 DEF Fetch
    <3>2. Got[o] \in Steps
      BY DEF Got, Steps
    <3> QED
      BY <2>4, <3>1, <3>2, TickMoves DEF Fetch
  <2>5. CASE Collect(l, g)
    <3>1. tick[l][g] # "none"
      BY <2>5 DEF Collect, Got
    <3> QED
      BY <1>5, <2>5, <3>1 DEF Collect
  <2> QED
    BY <1>6, <2>1, <2>2, <2>3, <2>4, <2>5 DEF TickStep
<1>7. CASE Advance
  BY <1>7 DEF Advance, Past, LoopInv, LoopTypes, TickAlone, NoBurst
<1>8. CASE \/ \E g \in Goroutines : MarkSynced(g)
           \/ \E b \in Balancers : PushStep(b)
           \/ Signal \/ ServeFails \/ MainStep \/ UNCHANGED vars
  BY <1>1, <1>8 DEF MarkSynced, PushStep, Push, Signal, ServeFails, MainStep, LoopsDone, PushesDone,
                    ServerDone, vars
<1> QED
  BY <1>2, <1>3, <1>4, <1>6, <1>7, <1>8 DEF Next, LoopStep

(* cronloop.Run never runs two ticks of a loop at once, nor fires missed   *)
(* slots in a burst, whatever overruns and however many loops there are.   *)
THEOREM TicksAreAlone == Spec => []OneTickPerSlot
<1>1. LoopInv => OneTickPerSlot
  <2> SUFFICES ASSUME LoopInv, NEW l \in Loops PROVE Cardinality(Active(l)) <= 1 /\ fired[l] <= 1
    BY DEF OneTickPerSlot
  <2>1. CASE Active(l) = {}
    BY <2>1, FS_EmptySet DEF LoopInv, NoBurst
  <2>2. CASE Active(l) # {}
    <3>1. PICK g : Active(l) = {g}
      BY <2>2 DEF Active, LoopInv, TickAlone
    <3>2. Cardinality(Active(l)) = 1
      BY <3>1, FS_Singleton
    <3> QED
      BY <3>2 DEF LoopInv, NoBurst
  <2> QED
    BY <2>1, <2>2
<1> QED
  BY <1>1, LoopInit, LoopStepKeeps, PTL DEF Spec

-----------------------------------------------------------------------------
(* The result of a push.                                                   *)

PingTypes ==
  /\ ping \in [Balancers -> [state : {"idle", "pending", "ok", "failed"},
                             report : {"none", "up", "down"}, of : {"none", "up", "down"}]]
  /\ pushes \in [Balancers -> {<<>>, <<"up">>, <<"down">>}]

(* At most one push of a balancer is in flight, the one that is pending.   *)
OnePush ==
  \A b \in Balancers :
    /\ ping[b].state = "pending" => ping[b].report # "none" /\ pushes[b] = <<ping[b].report>>
    /\ ping[b].state # "pending" => pushes[b] = <<>>

PingInv == PingTypes /\ OnePush /\ PingOfOnePush

(* No push at the start.                                                   *)
LEMMA PingInit == Init => PingInv
  BY DEF Init, PingInv, PingTypes, OnePush, PingOfOnePush

(* A push that ends was the only one.                                      *)
LEMMA LastPush ==
  ASSUME NEW r, NEW k \in DOMAIN <<r>>
  PROVE  <<r>>[k] = r /\ RemoveAt(<<r>>, k) = <<>>
<1>1. k = 1 /\ Len(<<r>>) = 1
  OBVIOUS
<1>2. SubSeq(<<r>>, 1, 0) = <<>> /\ SubSeq(<<r>>, 2, 1) = <<>>
  OBVIOUS
<1> QED
  BY <1>1, <1>2 DEF RemoveAt

(* A push starts only when none is pending, and its end is recorded with   *)
(* the report that it carried.                                             *)
LEMMA PingStepKeeps == PingInv /\ [Next]_vars => PingInv'
<1> SUFFICES ASSUME PingInv, [Next]_vars PROVE PingInv'
  OBVIOUS
<1>1. ASSUME UNCHANGED <<ping, pushes>> PROVE PingInv'
  BY <1>1 DEF PingInv, PingTypes, OnePush, PingOfOnePush
<1>2. ASSUME NEW b \in Balancers, NEW g \in Goroutines, SchedulePing(b, g) PROVE PingInv'
  <2>1. CASE ~MayPush(b)
    BY <1>1, <1>2, <2>1 DEF SchedulePing
  <2>2. CASE MayPush(b)
    <3>1. PICK r \in {"up", "down"} :
            /\ ping' = [ping EXCEPT ![b] = [state |-> "pending", report |-> r, of |-> "none"]]
            /\ pushes' = [pushes EXCEPT ![b] = Append(pushes[b], r)]
      BY <1>2, <2>2 DEF SchedulePing
    <3>2. pushes[b] = <<>>
      BY <2>2 DEF MayPush, PingInv, OnePush
    <3>3. Append(<<>>, r) = <<r>>
      OBVIOUS
    <3>4. PingTypes'
      <4>1. <<r>> \in {<<>>, <<"up">>, <<"down">>}
        OBVIOUS
      <4> QED
        BY <3>1, <3>2, <3>3, <4>1 DEF PingInv, PingTypes
    <3>5. OnePush' /\ PingOfOnePush'
      BY <3>1, <3>2, <3>3 DEF PingInv, PingTypes, OnePush, PingOfOnePush
    <3> QED
      BY <3>4, <3>5 DEF PingInv
  <2> QED
    BY <2>1, <2>2
<1>3. ASSUME NEW b \in Balancers, PushStep(b) PROVE PingInv'
  <2>1. PICK k \in DOMAIN pushes[b] : Push(b, k)
    BY <1>3 DEF PushStep
  <2>2. ping[b].state = "pending" /\ pushes[b] = <<ping[b].report>>
    <3>1. DOMAIN <<>> = {}
      OBVIOUS
    <3>2. pushes[b] # <<>>
      BY <2>1, <3>1
    <3> QED
      BY <3>2 DEF PingInv, OnePush
  <2>3. pushes[b][k] = ping[b].report /\ RemoveAt(pushes[b], k) = <<>>
    <3>1. k \in DOMAIN <<ping[b].report>>
      BY <2>1, <2>2
    <3>2. <<ping[b].report>>[k] = ping[b].report /\ RemoveAt(<<ping[b].report>>, k) = <<>>
      BY <3>1, LastPush
    <3> QED
      BY <2>2, <3>2
  <2>4. PICK s \in {"ok", "failed"} :
          /\ ping' = [ping EXCEPT ![b].state = s, ![b].of = ping[b].report]
          /\ pushes' = [pushes EXCEPT ![b] = <<>>]
    BY <2>1, <2>3 DEF Push
  <2>5. PingTypes'
    BY <2>4 DEF PingInv, PingTypes
  <2>6. OnePush' /\ PingOfOnePush'
    BY <2>4 DEF PingInv, PingTypes, OnePush, PingOfOnePush
  <2> QED
    BY <2>5, <2>6 DEF PingInv
<1>4. ASSUME NEW l \in Loops, NEW g \in Goroutines, TickStep(l, g) PROVE PingInv'
  <2>1. CASE l \in Balancers /\ SchedulePing(l, g)
    BY <1>2, <2>1
  <2>2. CASE Work(l, g) \/ Check(l, g) \/ Fetch(l, g) \/ Collect(l, g)
    BY <1>1, <2>2 DEF Work, Check, Fetch, Collect, memory
  <2> QED
    BY <1>4, <2>1, <2>2 DEF TickStep
<1>5. ASSUME NEW l \in Loops, LoopStep(l) PROVE PingInv'
  BY <1>1, <1>5 DEF LoopStep, Schedule, Fire, Drain, Return, memory
<1>6. CASE \/ \E g \in Goroutines : MarkSynced(g)
           \/ Signal \/ ServeFails \/ MainStep \/ Advance \/ UNCHANGED vars
  BY <1>1, <1>6 DEF MarkSynced, Signal, ServeFails, MainStep, LoopsDone, PushesDone, ServerDone,
                    Advance, vars, memory
<1> QED
  BY <1>3, <1>4, <1>5, <1>6 DEF Next

(* scheduleRemotePing's check-and-set: the result that is recorded is one  *)
(* of the report that is recorded with it, however late a push ends.       *)
THEOREM PingsAreOfOnePush == Spec => []PingOfOnePush
<1>1. PingInv => PingOfOnePush
  BY DEF PingInv
<1> QED
  BY <1>1, PingInit, PingStepKeeps, PTL DEF Spec

-----------------------------------------------------------------------------
(* A shutdown and the recorded errors.                                     *)

ErrorTypes ==
  /\ mon \in [Balancers -> {"idle", "none", "bad", "cut"}]
  /\ remote \in [Remotes -> {"idle", "none", "bad", "cut"}]

(* A fetch that the cancellation ended is collected after it.              *)
CutAfterCancel ==
  \A r \in Remotes, g \in Goroutines : tick[r][g] = "got-cut" => cancelled

ErrorInv == LoopTypes /\ ErrorTypes /\ CutAfterCancel /\ ShutdownIsNoFailure

(* Nothing is recorded at the start.                                       *)
LEMMA ErrorInit == Init => ErrorInv
<1>1. Init => LoopTypes
  BY LoopInit DEF LoopInv
<1>2. Init => ErrorTypes /\ CutAfterCancel /\ ShutdownIsNoFailure
  BY DEF Init, ErrorTypes, CutAfterCancel, ShutdownIsNoFailure, Loops, Goroutines
<1> QED
  BY <1>1, <1>2 DEF ErrorInv

(* A tick that changes nothing but its own step.                           *)
LEMMA CutMoves ==
  ASSUME LoopTypes, CutAfterCancel, NEW l \in Loops, NEW g \in Goroutines, NEW x,
         tick' = [tick EXCEPT ![l][g] = x], x = "got-cut" => cancelled, cancelled' = cancelled
  PROVE  CutAfterCancel'
<1> SUFFICES ASSUME NEW r \in Remotes, NEW h \in Goroutines, tick'[r][h] = "got-cut"
             PROVE  cancelled
  BY DEF CutAfterCancel
<1>1. tick'[r][h] = IF r = l /\ h = g THEN x ELSE tick[r][h]
  BY DEF LoopTypes, Loops
<1> QED
  BY <1>1 DEF CutAfterCancel

(* The ticks check the cancellation before they record or report.          *)
LEMMA ErrorStepKeeps == LoopInv /\ LoopInv' /\ ErrorInv /\ [Next]_vars => ErrorInv'
<1> SUFFICES ASSUME LoopInv, LoopInv', ErrorInv, [Next]_vars
             PROVE  ErrorTypes' /\ CutAfterCancel' /\ ShutdownIsNoFailure'
  BY DEF LoopInv, ErrorInv
<1> USE DEF ErrorInv
<1>1. ASSUME UNCHANGED <<mon, remote, logged>>
      PROVE  ErrorTypes' /\ ShutdownIsNoFailure'
  BY <1>1 DEF ErrorTypes, ShutdownIsNoFailure
<1>2. ASSUME UNCHANGED <<tick, mon, remote, logged>>, cancelled => cancelled'
      PROVE  ErrorTypes' /\ CutAfterCancel' /\ ShutdownIsNoFailure'
  BY <1>1, <1>2 DEF CutAfterCancel
<1>3. ASSUME NEW l \in Loops, NEW g \in Goroutines, NEW causes, Ended(l, g, causes),
             causes = {"cut"} => cancelled, cancelled' = cancelled
      PROVE  CutAfterCancel' /\ ~logged'
  <2>1. CutAfterCancel'
    BY <1>3, CutMoves DEF Ended
  <2>2. ~logged'
    BY <1>3 DEF Ended, Quiet, ShutdownIsNoFailure
  <2> QED
    BY <2>1, <2>2
<1>4. ASSUME NEW l \in Loops, NEW g \in Goroutines, Work(l, g)
      PROVE  ErrorTypes' /\ CutAfterCancel' /\ ShutdownIsNoFailure'
  <2>1. PICK o \in {"none", "bad", "cut"} : Outcome(o) /\ Ended(l, g, {o} \ {"none"})
    BY <1>4 DEF Work
  <2>2. {o} \ {"none"} = {"cut"} => o = "cut"
    OBVIOUS
  <2>3. o = "cut" => cancelled
    BY <2>1 DEF Outcome
  <2>4. CutAfterCancel' /\ ~logged'
    BY <1>3, <1>4, <2>1, <2>2, <2>3 DEF Work, process
  <2> QED
    BY <1>4, <2>4 DEF Work, ErrorTypes, ShutdownIsNoFailure
<1>5. ASSUME NEW b \in Balancers, NEW g \in Goroutines, Check(b, g)
      PROVE  ErrorTypes' /\ CutAfterCancel' /\ ShutdownIsNoFailure'
  <2>1. b \in Loops /\ cancelled' = cancelled /\ remote' = remote
    BY <1>5 DEF Loops, Check, process
  <2>2. CASE ~synced \/ cancelled
    <3>1. mon' = mon /\ \E causes \in {{}, {"cut"}} : Ended(b, g, causes) /\ (causes = {"cut"} => cancelled)
      BY <1>5, <2>2 DEF Check
    <3>2. CutAfterCancel' /\ ~logged'
      BY <1>3, <2>1, <3>1
    <3> QED
      BY <2>1, <3>1, <3>2 DEF ErrorTypes, ShutdownIsNoFailure
  <2>3. CASE synced /\ ~cancelled
    <3>1. PICK o \in {"none", "bad", "cut"} : Outcome(o) /\ Checked(b, g, o)
      BY <1>5, <2>3 DEF Check
    <3>2. o # "cut"
      BY <2>3, <3>1 DEF Outcome
    <3>3. mon' = [mon EXCEPT ![b] = o] /\ logged' = logged
      BY <3>1 DEF Checked
    <3>4. PICK x \in {"up", "down"} : tick' = [tick EXCEPT ![b][g] = x]
      BY <3>1 DEF Checked
    <3>5. CutAfterCancel'
      BY <2>1, <3>4, CutMoves
    <3> QED
      BY <2>1, <3>2, <3>3, <3>5 DEF ErrorTypes, ShutdownIsNoFailure
  <2> QED
    BY <2>2, <2>3
<1>6. ASSUME NEW b \in Balancers, NEW g \in Goroutines, SchedulePing(b, g)
      PROVE  ErrorTypes' /\ CutAfterCancel' /\ ShutdownIsNoFailure'
  <2>1. CutAfterCancel' /\ ~logged'
    BY <1>3, <1>6 DEF SchedulePing, Loops, process
  <2> QED
    BY <1>6, <2>1 DEF SchedulePing, ErrorTypes, ShutdownIsNoFailure
<1>7. ASSUME NEW r \in Remotes, NEW g \in Goroutines, Fetch(r, g)
      PROVE  ErrorTypes' /\ CutAfterCancel' /\ ShutdownIsNoFailure'
  <2>1. PICK o \in {"none", "bad", "cut"} : Outcome(o) /\ tick' = [tick EXCEPT ![r][g] = Got[o]]
    BY <1>7 DEF Fetch
  <2>2. Got[o] = "got-cut" => cancelled
    BY <2>1 DEF Got, Outcome
  <2>3. CutAfterCancel'
    BY <1>7, <2>1, <2>2, CutMoves DEF Fetch, Loops, process
  <2> QED
    BY <1>1, <1>7, <2>3 DEF Fetch, memory
<1>8. ASSUME NEW r \in Remotes, NEW g \in Goroutines, Collect(r, g)
      PROVE  ErrorTypes' /\ CutAfterCancel' /\ ShutdownIsNoFailure'
  <2>1. PICK o \in {"none", "bad", "cut"} :
          /\ tick[r][g] = Got[o]
          /\ remote' = IF Dropped(o) THEN remote ELSE [remote EXCEPT ![r] = o]
    BY <1>8 DEF Collect
  <2>2. o = "cut" => Dropped(o)
    BY <2>1 DEF Got, Dropped, CutAfterCancel
  <2>3. CutAfterCancel' /\ ~logged'
    BY <1>3, <1>8 DEF Collect, Loops, process
  <2>4. mon' = mon
    BY <1>8 DEF Collect
  <2>5. CASE Dropped(o)
    BY <2>1, <2>3, <2>4, <2>5 DEF ErrorTypes, ShutdownIsNoFailure
  <2>6. CASE ~Dropped(o)
    <3>1. remote' = [remote EXCEPT ![r] = o] /\ o # "cut"
      BY <2>1, <2>2, <2>6
    <3> QED
      BY <2>3, <2>4, <3>1 DEF ErrorTypes, ShutdownIsNoFailure
  <2> QED
    BY <2>5, <2>6
<1>9. ASSUME NEW l \in Loops, NEW g \in Goroutines, TickStep(l, g)
      PROVE  ErrorTypes' /\ CutAfterCancel' /\ ShutdownIsNoFailure'
  BY <1>4, <1>5, <1>6, <1>7, <1>8, <1>9 DEF TickStep
<1>10. ASSUME NEW l \in Loops, LoopStep(l)
       PROVE  ErrorTypes' /\ CutAfterCancel' /\ ShutdownIsNoFailure'
  <2>1. UNCHANGED <<process, memory>>
    BY <1>10 DEF LoopStep, Schedule, Fire, Drain, Return
  <2>2. CASE UNCHANGED tick
    BY <1>2, <2>1, <2>2 DEF process, memory
  <2>3. CASE Fire(l) /\ ~running[l]
    <3>1. PICK g \in Goroutines : tick' = [tick EXCEPT ![l][g] = "run"]
      <4>1. Active(l) = {}
        BY <2>3 DEF Active, LoopInv, TickAlone
      <4> QED
        BY <2>3, <4>1, FirstGoroutine DEF Fire, Start
    <3>2. cancelled' = cancelled
      BY <2>1 DEF process
    <3>3. CutAfterCancel'
      <4>1. "run" = "got-cut" => cancelled
        OBVIOUS
      <4>2. LoopTypes /\ CutAfterCancel /\ l \in Loops
        BY <1>10
      <4> QED
        BY <3>1, <3>2, <4>1, <4>2, CutMoves
    <3> QED
      BY <1>1, <2>1, <3>3 DEF memory
  <2> QED
    BY <1>10, <2>2, <2>3 DEF LoopStep, Schedule, Fire, Drain, Return
<1>11. CASE \/ \E g \in Goroutines : MarkSynced(g)
            \/ \E b \in Balancers : PushStep(b)
            \/ Signal \/ ServeFails \/ MainStep \/ Advance \/ UNCHANGED vars
  <2>1. UNCHANGED <<tick, mon, remote, logged>>
    BY <1>11 DEF MarkSynced, PushStep, Push, Signal, ServeFails, MainStep, LoopsDone, PushesDone,
                 ServerDone, Advance, vars, loops, memory
  <2>2. cancelled => cancelled'
    BY <1>11 DEF MarkSynced, PushStep, Push, Signal, ServeFails, MainStep, LoopsDone, PushesDone,
                 ServerDone, Advance, vars, process
  <2> QED
    BY <1>2, <2>1, <2>2
<1> QED
  BY <1>9, <1>10, <1>11 DEF Next

(* Neither a check nor a collected instance nor the log ever shows an      *)
(* error that the cancellation of the loops caused.                        *)
THEOREM ShutdownsAreNoFailure == Spec => []ShutdownIsNoFailure
<1>1. ErrorInv => ShutdownIsNoFailure
  BY DEF ErrorInv
<1> QED
  BY <1>1, LoopInit, LoopStepKeeps, ErrorInit, ErrorStepKeeps, PTL DEF Spec
-----------------------------------------------------------------------------
(* sfc, for any number of subscriptions, outputs, upstream changes and     *)
(* faults.                                                                 *)

Sources == [ver : Nat, match : SUBSET Outs]

PCs == {"idle", "load", "write", "read", "build", "fail"}

TypeInv ==
  /\ up \in [1..Subs -> Sources] /\ edits \in Nat
  /\ lossy \in BOOLEAN /\ listening \in BOOLEAN
  /\ cache \in [1..Subs -> Sources]
  /\ payload \in [Outputs -> Nat]
  /\ pc \in PCs /\ sub \in 1..Subs /\ out \in Outs /\ in \in Sources

(* A file holds a source that was loaded, and none the upstream never had. *)
FileInv ==
  \A s \in 1..Subs :
    /\ up[s].ver <= edits + 1
    /\ cache[s].ver <= up[s].ver
    /\ 1 <= up[s].ver
    /\ cache[s] = NoFile \/ 1 <= cache[s].ver

(* What the refresher holds in its hands.                                  *)
HandInv ==
  /\ pc \notin {"build", "fail"} => out = 1
  /\ pc = "idle" => sub = 1
  /\ pc \in {"write", "build"} => 1 <= in.ver
  /\ pc = "write" => cache[sub].ver <= in.ver /\ in.ver <= up[sub].ver
  /\ pc = "build" /\ ~lossy => in = cache[sub]
  /\ pc = "fail" /\ ~lossy => cache[sub] = NoFile

(* No payload is newer than its cache file.                                *)
OrderInv ==
  ~lossy => \A s \in 1..Subs, k \in Outs : payload[<<s, k>>] <= cache[s].ver

Served(s, k) == k \in cache[s].match => payload[<<s, k>>] = cache[s].ver

(* The refresh has passed the output, or has not begun to build it and the *)
(* last one did.                                                           *)
Settled(s, k) ==
  \/ s < sub
  \/ s = sub /\ pc = "build" /\ k < out
  \/ s = sub /\ pc # "build" /\ listening
  \/ s > sub /\ listening

ServedInv ==
  ~lossy => \A s \in 1..Subs, k \in Outs : Settled(s, k) => Served(s, k)

SfcInv == TypeInv /\ FileInv /\ HandInv /\ OrderInv /\ ServedInv

-----------------------------------------------------------------------------
(* Constants.                                                              *)

(* What the constants of sfc are.                                          *)
LEMMA SfcConstants ==
  /\ Subs \in Nat /\ Subs >= 1 /\ 1 \in 1..Subs
  /\ OutsEach \in Nat /\ OutsEach >= 1 /\ 1 \in Outs
  /\ \A k \in Outs : k \in Nat /\ 1 <= k /\ k <= OutsEach
  /\ NoFile \in Sources /\ NoFile.ver = 0 /\ NoFile.match = {}
  /\ \A x \in Sources : x.ver \in Nat
BY SfcAssumption DEF Outs, Sources, NoFile

(* The next output, the next subscription or the end of the refresh.       *)
LEMMA NextOutCases ==
  ASSUME TypeInv, NextOut
  PROVE  \/ /\ out < OutsEach /\ out' = out + 1 /\ out' \in Outs
            /\ pc' = pc /\ sub' = sub /\ in' = in /\ listening' = listening
         \/ /\ out = OutsEach /\ out' = 1 /\ in' = NoFile /\ sub = Subs
            /\ pc' = "idle" /\ listening' = TRUE /\ sub' = 1
         \/ /\ out = OutsEach /\ out' = 1 /\ in' = NoFile /\ sub < Subs
            /\ pc' = "load" /\ sub' = sub + 1 /\ sub' \in 1..Subs /\ listening' = listening
BY SfcConstants DEF TypeInv, NextOut, LastSub, Outs

(* The invariant holds at the start.                                       *)
LEMMA InitInv == SfcInit => SfcInv
<1> SUFFICES ASSUME SfcInit PROVE SfcInv
  OBVIOUS
<1> USE SfcConstants DEF SfcInit
<1>1. TypeInv
  <2>1. \A s \in 1..Subs : up[s] \in Sources
    BY DEF Source, Sources
  <2>2. up \in [1..Subs -> Sources]
    BY <2>1 DEF Source
  <2> QED BY <2>2 DEF TypeInv, PCs, None
<1>2. FileInv
  BY DEF FileInv, Source
<1>3. HandInv
  BY DEF HandInv
<1>4. \A s \in 1..Subs, k \in Outs : payload[<<s, k>>] = 0 /\ cache[s] = NoFile
  BY DEF Outputs, None
<1>5. OrderInv
  <2>1. \A s \in 1..Subs : cache[s].ver = 0
    BY <1>4
  <2>2. ASSUME NEW s \in 1..Subs, NEW k \in Outs PROVE payload[<<s, k>>] <= cache[s].ver
    <3> HIDE DEF SfcInit
    <3>1. payload[<<s, k>>] = 0 /\ cache[s].ver = 0
      BY <1>4, <2>1
    <3> QED BY <3>1
  <2> QED BY <2>2 DEF OrderInv
<1>6. ServedInv
  BY <1>4 DEF ServedInv, Served
<1> QED BY <1>1, <1>2, <1>3, <1>5, <1>6 DEF SfcInv

-----------------------------------------------------------------------------
(* The steps of a refresh.                                                 *)

(* A refresh starts (Run).                                                 *)
LEMMA RunStartInv == ASSUME SfcInv, RunStart PROVE SfcInv'
<1> USE SfcConstants DEF SfcInv, RunStart
<1>1. TypeInv'
  BY DEF TypeInv, PCs
<1>2. FileInv'
  BY DEF FileInv
<1>3. HandInv'
  BY DEF HandInv
<1>4. OrderInv'
  BY DEF OrderInv
<1>5. ASSUME NEW s \in 1..Subs, NEW k \in Outs, Settled(s, k)' PROVE Settled(s, k)
  BY <1>5 DEF Settled, HandInv
<1>6. \A s \in 1..Subs, k \in Outs : Served(s, k)' <=> Served(s, k)
  BY DEF Served
<1>7. ServedInv'
  BY <1>5, <1>6 DEF ServedInv
<1> QED BY <1>1, <1>2, <1>3, <1>4, <1>7

(* A load (refreshSubscription).                                           *)
LEMMA LoadInv == ASSUME SfcInv, Load PROVE SfcInv'
<1> USE SfcConstants DEF SfcInv, Load
<1>1. TypeInv'
  BY DEF TypeInv, PCs, Loaded
<1>2. FileInv'
  BY DEF FileInv
<1>3. HandInv'
  BY DEF HandInv, FileInv, TypeInv, Loaded
<1>4. OrderInv'
  BY DEF OrderInv
<1>5. ASSUME NEW s \in 1..Subs, NEW k \in Outs, Settled(s, k)' PROVE Settled(s, k)
  BY <1>5 DEF Settled
<1>6. \A s \in 1..Subs, k \in Outs : Served(s, k)' <=> Served(s, k)
  BY DEF Served
<1>7. ServedInv'
  BY <1>5, <1>6 DEF ServedInv
<1> QED BY <1>1, <1>2, <1>3, <1>4, <1>7

(* The write of a cache file, or its failure (cache.Write).                *)
LEMMA WriteInv == ASSUME SfcInv, Write PROVE SfcInv'
<1> USE SfcConstants DEF SfcInv, Write, runVars
<1>1. TypeInv'
  BY DEF TypeInv, PCs, Kept
<1>2. FileInv'
  BY DEF FileInv, HandInv, TypeInv, Kept
<1>3. HandInv'
  BY DEF HandInv, TypeInv, Kept
<1>4. CASE cache' = Kept(in) /\ UNCHANGED <<faults, lossy>>
  <2>1. /\ cache'[sub] = in
        /\ \A s \in 1..Subs : s # sub => cache'[s] = cache[s]
    BY <1>4 DEF TypeInv, Kept
  <2>2. \A s \in 1..Subs : cache[s].ver <= cache'[s].ver
    BY <2>1 DEF TypeInv, HandInv
  <2>3. OrderInv'
    <3> SUFFICES ASSUME ~lossy, NEW s \in 1..Subs, NEW k \in Outs
                 PROVE  payload[<<s, k>>] <= cache'[s].ver
      BY <1>4 DEF OrderInv
    <3>1. payload[<<s, k>>] \in Nat /\ cache[s].ver \in Nat /\ cache'[s].ver \in Nat
      BY <1>1 DEF TypeInv, Outputs
    <3> QED BY <2>2, <3>1 DEF OrderInv
  <2>4. ServedInv'
    <3> SUFFICES ASSUME ~lossy, NEW s \in 1..Subs, NEW k \in Outs, Settled(s, k)'
                 PROVE  Served(s, k)'
      BY <1>4 DEF ServedInv
    <3>1. s # sub
      BY DEF Settled, HandInv
    <3>2. Settled(s, k)
      BY <3>1 DEF Settled
    <3> QED BY <2>1, <3>1, <3>2 DEF Served, ServedInv
  <2> QED BY <1>1, <1>2, <1>3, <2>3, <2>4
<1>5. CASE lossy' = TRUE
  BY <1>1, <1>2, <1>3, <1>5 DEF OrderInv, ServedInv
<1> QED BY <1>4, <1>5

(* The cache in place of a failed load (cache.Read).                       *)
LEMMA ReadInv == ASSUME SfcInv, Read PROVE SfcInv'
<1> USE SfcConstants DEF SfcInv, Read
<1>1. TypeInv'
  BY DEF TypeInv, PCs
<1>2. FileInv'
  BY DEF FileInv
<1>3. HandInv'
  BY DEF HandInv, FileInv, TypeInv
<1>4. OrderInv'
  BY DEF OrderInv
<1>5. ASSUME ~lossy', NEW s \in 1..Subs, NEW k \in Outs, Settled(s, k)' PROVE Settled(s, k)
  BY <1>5 DEF Settled, HandInv
<1>6. \A s \in 1..Subs, k \in Outs : Served(s, k)' <=> Served(s, k)
  BY DEF Served
<1>7. ~lossy' => ~lossy
  BY DEF TypeInv
<1>8. ServedInv'
  BY <1>5, <1>6, <1>7 DEF ServedInv
<1> QED BY <1>1, <1>2, <1>3, <1>4, <1>8

(* The payload of the output in turn becomes the source in hand, which is  *)
(* the cache file if the files work.                                       *)
LEMMA BuildInv == ASSUME SfcInv, Build PROVE SfcInv'
<1> USE SfcConstants DEF SfcInv, Build
<1>1. <<sub, out>> \in Outputs
  BY DEF TypeInv, Outputs
<1>2. /\ \A s \in 1..Subs, k \in Outs :
            ~(s = sub /\ k = out) => payload'[<<s, k>>] = payload[<<s, k>>]
      /\ payload'[<<sub, out>>] = IF out \in in.match THEN in.ver ELSE payload[<<sub, out>>]
      /\ payload' \in [Outputs -> Nat]
  BY <1>1 DEF TypeInv, Succeeded, Failed, Outputs
<1>3. NextOut
  OBVIOUS
<1>4. TypeInv'
  BY <1>2, <1>3, NextOutCases DEF TypeInv, PCs
<1>5. FileInv'
  BY DEF FileInv
<1>6. HandInv'
  BY <1>3, NextOutCases DEF HandInv
<1>7. OrderInv'
  <2> SUFFICES ASSUME ~lossy, NEW s \in 1..Subs, NEW k \in Outs
               PROVE  payload'[<<s, k>>] <= cache[s].ver
    BY DEF OrderInv
  <2>1. in = cache[sub] /\ cache[sub].ver \in Nat
    BY DEF HandInv, TypeInv
  <2>2. payload[<<s, k>>] <= cache[s].ver
    BY DEF OrderInv
  <2> QED BY <1>2, <2>1, <2>2
<1>8. ServedInv'
  <2> SUFFICES ASSUME ~lossy, NEW s \in 1..Subs, NEW k \in Outs, Settled(s, k)'
               PROVE  Served(s, k)'
    BY DEF ServedInv
  <2>1. in = cache[sub]
    BY DEF HandInv
  <2>2. CASE s = sub /\ k = out
    BY <1>2, <2>1, <2>2 DEF Served
  <2>3. CASE ~(s = sub /\ k = out)
    <3>1. Settled(s, k)
      <4>1. s \in Nat /\ sub \in Nat /\ k \in Nat /\ out \in Nat /\ s <= Subs /\ k <= OutsEach
        BY DEF TypeInv
      <4>2. CASE out' = out + 1 /\ pc' = pc /\ sub' = sub /\ listening' = listening
        BY <2>3, <4>1, <4>2 DEF Settled
      <4>3. CASE out = OutsEach
        <5>1. s = sub => k < out
          BY <2>3, <4>1, <4>3
        <5>2. ASSUME s > sub PROVE listening
          <6>1. pc' = "load" /\ sub' = sub + 1 /\ listening' = listening
            <7> HIDE DEF Build
            <7>1. sub # Subs /\ ~(out < OutsEach)
              BY <4>1, <4>3, <5>2
            <7> QED BY <1>3, <7>1, NextOutCases
          <6> QED BY <4>1, <5>2, <6>1 DEF Settled
        <5> QED BY <4>1, <5>1, <5>2 DEF Settled
      <4> QED BY <1>3, <4>2, <4>3, NextOutCases
    <3>2. Served(s, k)
      BY <3>1 DEF ServedInv
    <3> QED BY <1>2, <2>3, <3>2 DEF Served
  <2> QED BY <2>2, <2>3
<1> QED BY <1>4, <1>5, <1>6, <1>7, <1>8

(* An output without a source (fail).                                      *)
LEMMA FailInv == ASSUME SfcInv, Fail PROVE SfcInv'
<1> USE SfcConstants DEF SfcInv, Fail, Failed
<1>1. NextOut
  OBVIOUS
<1>2. TypeInv'
  BY <1>1, NextOutCases DEF TypeInv, PCs
<1>3. FileInv'
  BY DEF FileInv
<1>4. HandInv'
  BY <1>1, NextOutCases DEF HandInv
<1>5. OrderInv'
  BY DEF OrderInv
<1>6. ServedInv'
  <2> SUFFICES ASSUME ~lossy, NEW s \in 1..Subs, NEW k \in Outs, Settled(s, k)'
               PROVE  Served(s, k)'
    BY DEF ServedInv
  <2>1. CASE s = sub
    BY <2>1 DEF HandInv, Served
  <2>2. CASE s # sub
    <3>1. Settled(s, k)
      <4>1. s \in Nat /\ sub \in Nat /\ s <= Subs
        BY DEF TypeInv
      <4>2. ASSUME s > sub PROVE listening
        <5>1. pc' # "build" /\ sub' \in {sub, sub + 1} /\ listening' = listening
          <6>1. sub # Subs /\ pc = "fail"
            BY <4>1, <4>2
          <6> HIDE DEF Fail
          <6> QED BY <1>1, <6>1, NextOutCases
        <5> QED BY <4>1, <4>2, <5>1 DEF Settled
      <4> QED BY <2>2, <4>1, <4>2 DEF Settled
    <3> QED BY <3>1 DEF ServedInv, Served
  <2> QED BY <2>1, <2>2
<1> QED BY <1>2, <1>3, <1>4, <1>5, <1>6

-----------------------------------------------------------------------------
(* The environment.                                                        *)

(* The upstream changes.                                                   *)
LEMMA EditInv == ASSUME SfcInv, Edit PROVE SfcInv'
<1> USE SfcConstants DEF SfcInv, Edit, runVars
<1> PICK s \in 1..Subs, new \in Source(edits + 2) : up' = [up EXCEPT ![s] = new]
  OBVIOUS
<1>1. new \in Sources /\ new.ver = edits + 2
  BY DEF TypeInv, Source, Sources
<1>2. TypeInv'
  BY <1>1 DEF TypeInv
<1>3. \A t \in 1..Subs : up'[t] = IF t = s THEN new ELSE up[t]
  BY DEF TypeInv
<1>4. \A t \in 1..Subs : up[t].ver \in Nat /\ up[t].ver <= up'[t].ver /\ cache[t].ver \in Nat
  BY <1>1, <1>3 DEF TypeInv, FileInv
<1>5. FileInv'
  BY <1>1, <1>3, <1>4 DEF TypeInv, FileInv
<1>6. HandInv'
  <2>1. pc = "write" => in.ver <= up'[sub].ver
    BY <1>1, <1>2, <1>4 DEF HandInv, TypeInv
  <2> QED BY <2>1 DEF HandInv
<1>7. OrderInv' /\ ServedInv'
  BY DEF OrderInv, ServedInv, Settled, Served
<1> QED BY <1>2, <1>5, <1>6, <1>7

(* A crash, and what a new process starts with.                            *)
LEMMA CrashInv == ASSUME SfcInv, Crash PROVE SfcInv'
<1> USE SfcConstants DEF SfcInv, Crash
<1>1. TypeInv'
  BY DEF TypeInv, PCs, None
<1>2. FileInv' /\ HandInv'
  BY DEF FileInv, HandInv
<1>3. OrderInv'
  <2>1. \A s \in 1..Subs, k \in Outs : payload'[<<s, k>>] = 0 /\ cache'[s].ver \in Nat
    BY DEF Outputs, None, TypeInv
  <2>2. ASSUME NEW s \in 1..Subs, NEW k \in Outs PROVE payload'[<<s, k>>] <= cache'[s].ver
    <3> HIDE DEF Crash
    <3>1. payload'[<<s, k>>] = 0 /\ cache'[s].ver \in Nat
      BY <2>1
    <3> QED BY <3>1
  <2> QED BY <2>2 DEF OrderInv
<1>4. ServedInv'
  BY DEF ServedInv, Settled
<1> QED BY <1>1, <1>2, <1>3, <1>4

(* Every step keeps the invariant.                                         *)
LEMMA SfcInvKept == SfcInv /\ [SfcNext]_sfcVars => SfcInv'
<1> SUFFICES ASSUME SfcInv, [SfcNext]_sfcVars PROVE SfcInv'
  OBVIOUS
<1>1. CASE UNCHANGED sfcVars
  BY <1>1 DEF sfcVars, SfcInv, TypeInv, FileInv, HandInv, OrderInv, ServedInv, Settled, Served
<1> QED
  BY <1>1, RunStartInv, LoadInv, WriteInv, ReadInv, BuildInv, FailInv, EditInv, CrashInv
  DEF SfcNext, Refresh

-----------------------------------------------------------------------------
(* In every reachable state of a listening server between two refreshes    *)
(* whose cache files worked, each output that matches its cached source    *)
(* serves that source (refresh.go, state.go).                              *)
THEOREM CacheAlwaysServed == SfcSpec => []CacheIsServed
<1>1. SfcInv => CacheIsServed
  <2> SUFFICES ASSUME SfcInv, pc = "idle", listening, ~lossy, NEW o \in Outputs
               PROVE  o[2] \in cache[o[1]].match => payload[o] = cache[o[1]].ver
    BY DEF CacheIsServed
  <2>1. PICK s \in 1..Subs, k \in Outs : o = <<s, k>>
    BY DEF Outputs
  <2>2. Settled(s, k)
    BY SfcConstants DEF Settled, SfcInv, HandInv
  <2> QED BY <2>1, <2>2 DEF SfcInv, ServedInv, Served
<1> QED BY <1>1, InitInv, SfcInvKept, PTL DEF SfcSpec

(* No step but a crash makes an output unavailable or replaces its payload *)
(* by an older one, unless a cache file failed before (fail, put).         *)
THEOREM ServingKept == SfcSpec => KeepsServing
<1> DEFINE Keeps ==
      ~Crash => \A o \in Outputs : payload'[o] >= payload[o] \/ (lossy /\ payload'[o] # None)
<1>1. SfcInv /\ [SfcNext]_sfcVars => [Keeps]_sfcVars
  <2> SUFFICES ASSUME SfcInv, SfcNext, ~Crash, NEW o \in Outputs
               PROVE  payload'[o] >= payload[o] \/ (lossy /\ payload'[o] # None)
    OBVIOUS
  <2>1. payload[o] \in Nat
    BY DEF SfcInv, TypeInv
  <2>2. CASE Build
    <3>1. payload'[o] = payload[o] \/ (o = <<sub, out>> /\ payload'[o] = in.ver)
      BY <2>2 DEF Build, Succeeded, Failed, SfcInv, TypeInv
    <3>2. in.ver \in Nat /\ in.ver # None
      BY <2>2, SfcConstants DEF Build, SfcInv, TypeInv, HandInv, None
    <3>3. ~lossy => payload[<<sub, out>>] <= in.ver
      BY <2>2 DEF Build, SfcInv, TypeInv, HandInv, OrderInv
    <3> QED BY <2>1, <3>1, <3>2, <3>3
  <2>3. CASE ~Build
    <3>1. UNCHANGED payload
      BY <2>3 DEF SfcNext, Refresh, RunStart, Load, Write, Read, Fail, Failed, Edit
    <3> QED BY <2>1, <3>1
  <2> QED BY <2>2, <2>3
<1> QED BY <1>1, InitInv, SfcInvKept, PTL DEF SfcSpec, KeepsServing
=============================================================================
