----------------------------- MODULE WaitProofs -----------------------------
(***************************************************************************)
(* The dependency waits for any number of slots and candidates, any pause, *)
(* any cooldown and any answers of the balancers: they implement module    *)
(* Gate, they release the quarantines of a failing dependency, and the     *)
(* monitor gives up a candidate only while both dependencies are healthy.  *)
(***************************************************************************)
EXTENDS DependencyWait, WellFoundedInduction, TLAPS

-----------------------------------------------------------------------------
(* Least and greatest elements.                                            *)

(* A set of naturals that is not empty has a least element, which Min is.  *)
LEMMA LeastNat ==
  ASSUME NEW S \in SUBSET Nat, S # {}
  PROVE  Min(S) \in S /\ \A y \in S : Min(S) <= y
<1> DEFINE R == {ss \in Nat \X Nat : ss[1] < ss[2]}
<1>1. R = OpToRel(<, Nat)
  BY Zenon DEF OpToRel
<1>2. IsWellFoundedOn(R, Nat)
  BY <1>1, NatLessThanWellFounded, Zenon
<1> HIDE DEF R
<1>3. PICK x \in S : \A y \in S : ~(<<y, x>> \in R)
  BY <1>2, WFMin
<1>4. \A a, b \in Nat : a < b => <<a, b>> \in R
  BY DEF R
<1>5. ASSUME NEW y \in S PROVE x =< y
  <2>1. x \in Nat /\ y \in Nat
    OBVIOUS
  <2>2. ~(y < x)
    BY <2>1, <1>3, <1>4
  <2> QED
    BY <2>1, <2>2
<1> QED
  BY <1>5 DEF Min

(* The lesser and the greater of two numbers.                              *)
LEMMA OfTwo ==
  ASSUME NEW a \in Int, NEW b \in Int
  PROVE  /\ Max({a, b}) \in {a, b} /\ Max({a, b}) >= a /\ Max({a, b}) >= b
         /\ Min({a, b}) \in {a, b} /\ Min({a, b}) <= a /\ Min({a, b}) <= b
<1>1. \E x \in {a, b} : \A y \in {a, b} : x >= y
  BY SMT
<1>2. \E x \in {a, b} : \A y \in {a, b} : x =< y
  BY SMT
<1>3. Max({a, b}) \in {a, b} /\ \A y \in {a, b} : Max({a, b}) >= y
  BY <1>1 DEF Max
<1>4. Min({a, b}) \in {a, b} /\ \A y \in {a, b} : Min({a, b}) =< y
  BY <1>2 DEF Min
<1> QED
  BY <1>3, <1>4

-----------------------------------------------------------------------------
(* The invariant.                                                          *)

WaitTypes ==
  /\ DOMAIN wait = {"entry", "since", "age", "dep", "grace"}
  /\ wait.entry \in BOOLEAN /\ wait.since \in BOOLEAN
  /\ active \subseteq Cands
  /\ fails \in [Cands -> 0..ReplaceAfter]
  /\ worker \in [Cands -> {"done", "todo", "lock", "inbound", "ask", "decide", "release"}]

(* Workers run only while the tick works.                                  *)
TickOwnsWorkers == \A c \in Cands : worker[c] \notin {"done", "todo"} => tick = "work"

(* Whoever is between taking and releasing the target lock has it.         *)
HoldsLock ==
  /\ \A c \in Cands : worker[c] \in {"inbound", "ask", "decide", "release"} => lock = c
  /\ sync = "apply" => lock = Sync

(* A worker that got past the checks under the lock is not disturbed: only *)
(* the holder of the lock or the tick, before its workers, starts a wait,  *)
(* and only the holder of the lock drops a tunnel.                         *)
OpenWhileReplacing ==
  /\ wait.since => wait.entry
  /\ \A c \in Cands : worker[c] \in {"inbound", "ask", "decide"} => ~wait.since /\ c \in active

(* Failed checks are counted for tunnels only.                             *)
DroppedUncounted == \A c \in Cands \ active : fails[c] = 0

WaitInv == WaitTypes /\ TickOwnsWorkers /\ HoldsLock /\ OpenWhileReplacing /\ DroppedUncounted

(* The initial state of the waits.                                         *)
LEMMA WaitInit == Init => WaitInv
<1> SUFFICES ASSUME Init PROVE WaitInv
  OBVIOUS
<1>1. DOMAIN wait = {"entry", "since", "age", "dep", "grace"} /\ ~wait.entry /\ ~wait.since
  BY DEF Init, NoWait
<1>2. wait.entry \in BOOLEAN /\ wait.since \in BOOLEAN
  BY DEF Init, NoWait
<1>3. fails = [c \in Cands |-> 0] /\ fails \in [Cands -> 0..ReplaceAfter] /\ active \subseteq Cands
  BY WaitAssumption DEF Init, NoFails, ActiveSets
<1>4. worker = [c \in Cands |-> "done"] /\ sync = "idle"
  BY DEF Init
<1>5. WaitTypes
  BY <1>1, <1>2, <1>3, <1>4 DEF WaitTypes
<1> QED
  BY <1>1, <1>3, <1>4, <1>5 DEF WaitInv, TickOwnsWorkers, HoldsLock, OpenWhileReplacing, DroppedUncounted

(* What a check of the dependencies does to the wait.                      *)
LEMMA WaitUpdate ==
  ASSUME WaitTypes, NEW health, ApplyWaits(health)
  PROVE  /\ DOMAIN wait' = {"entry", "since", "age", "dep", "grace"}
         /\ wait'.entry /\ wait'.entry \in BOOLEAN /\ wait'.since \in BOOLEAN
         /\ fails' \in [Cands -> 0..ReplaceAfter]
         /\ fails' \in {fails, NoFails}
         /\ ~Ends(health) => fails' = fails
         /\ wait.since /\ ~wait'.since => fails' = NoFails
         /\ Starts(health) => wait'.since
         /\ ~wait.since /\ wait'.since => Starts(health)
         /\ wait'.age \in {wait.age, 0}
         /\ wait.since /\ wait'.since => wait'.age = wait.age
<1>1. CASE down'
  BY <1>1, WaitAssumption DEF ApplyWaits, WaitTypes, Starts, Ends
<1>2. CASE ~down' /\ Ends(health)
  <2>1. /\ wait' = [NoWait EXCEPT !.entry = TRUE, !.dep = health]
        /\ fails' = NoFails
    BY <1>2 DEF ApplyWaits
  <2>2. /\ DOMAIN wait' = {"entry", "since", "age", "dep", "grace"}
        /\ wait'.entry = TRUE /\ wait'.since = FALSE /\ wait'.age = 0
    BY <2>1 DEF NoWait
  <2>3. fails' \in [Cands -> 0..ReplaceAfter]
    BY <2>1, WaitAssumption DEF NoFails
  <2>4. ~Starts(health)
    BY <1>2 DEF Starts, Ends
  <2> QED
    BY <1>2, <2>1, <2>2, <2>3, <2>4, Zenon
<1>3. CASE ~down' /\ ~Ends(health)
  <2>1. /\ wait' = [entry |-> TRUE,
                    since |-> wait.since \/ Bad(health) # {},
                    age |-> IF wait.since THEN wait.age ELSE 0,
                    dep |-> health,
                    grace |-> [d \in Deps |-> Pause(health, d)]]
        /\ fails' = fails
    BY <1>3 DEF ApplyWaits
  <2>2. DOMAIN wait' = {"entry", "since", "age", "dep", "grace"} /\ wait'.entry = TRUE
    BY <2>1
  <2>3. wait'.since = (wait.since \/ Bad(health) # {})
    BY <2>1, Zenon
  <2>4. wait'.since \in BOOLEAN /\ wait'.entry \in BOOLEAN /\ wait'.entry
    BY <2>2, <2>3, Zenon
  <2>5. /\ Starts(health) => wait'.since
        /\ ~wait.since /\ wait'.since => Starts(health)
        /\ ~(wait.since /\ ~wait'.since)
    BY <1>3, <2>3, Zenon DEF Starts
  <2>6. wait'.age = IF wait.since THEN wait.age ELSE 0
    BY <2>1
  <2> QED
    BY <2>1, <2>2, <2>4, <2>5, <2>6, Zenon DEF WaitTypes
<1> QED
  BY <1>1, <1>2, <1>3

(* Every step keeps the invariant.                                         *)
LEMMA WaitStep == WaitInv /\ [Next]_vars => WaitInv'
<1> SUFFICES ASSUME WaitInv, [Next]_vars PROVE WaitInv'
  OBVIOUS
<1> USE DEF WaitInv
<1>1. ASSUME NEW c \in Cands, Leave(c), UNCHANGED <<wait, active, fails, tick, sync>>,
             lock = c \/ lock = Nobody
      PROVE  WaitInv'
  BY <1>1, WaitAssumption
  DEF Leave, WaitTypes, TickOwnsWorkers, HoldsLock, OpenWhileReplacing, DroppedUncounted, Sync, Nobody
<1>2. ASSUME UNCHANGED <<wait, active, fails, worker, tick, sync, lock>> PROVE WaitInv'
  BY <1>2 DEF WaitTypes, TickOwnsWorkers, HoldsLock, OpenWhileReplacing, DroppedUncounted
<1>3. CASE TickStart
  <2>1. worker' \in [Cands -> {"done", "todo"}] /\ UNCHANGED <<wait, active, fails, sync, lock>>
    BY <1>3 DEF TickStart, memory
  <2> QED
    BY <2>1 DEF WaitTypes, TickOwnsWorkers, HoldsLock, OpenWhileReplacing, DroppedUncounted
<1>4. CASE DependencyHealth
  <2>1. ApplyWaits(CheckedHealth(own))
    BY <1>4 DEF DependencyHealth
  <2>2. \A c \in Cands : worker[c] \in {"done", "todo"}
    BY <1>4 DEF DependencyHealth, TickOwnsWorkers, WaitTypes
  <2>3. UNCHANGED <<active, worker, lock, sync>>
    BY <1>4 DEF DependencyHealth
  <2>4. /\ DOMAIN wait' = {"entry", "since", "age", "dep", "grace"}
        /\ wait'.entry /\ wait'.entry \in BOOLEAN /\ wait'.since \in BOOLEAN
        /\ fails' \in [Cands -> 0..ReplaceAfter] /\ fails' \in {fails, NoFails}
    BY <2>1, WaitUpdate, Zenon
  <2>5. WaitTypes' /\ TickOwnsWorkers' /\ DroppedUncounted'
    BY <2>2, <2>3, <2>4 DEF WaitTypes, TickOwnsWorkers, DroppedUncounted, NoFails
  <2> QED
    BY <2>2, <2>3, <2>4, <2>5 DEF HoldsLock, OpenWhileReplacing
<1>5. CASE ReleaseByTick
  BY <1>5 DEF ReleaseByTick, WaitTypes, TickOwnsWorkers, HoldsLock, OpenWhileReplacing, DroppedUncounted
<1>6. ASSUME NEW c \in Cands, CheckTunnel(c) PROVE WaitInv'
  <2>1. UNCHANGED <<wait, active, tick, sync, lock>> /\ tick = "work" /\ worker[c] = "todo"
    BY <1>6 DEF CheckTunnel
  <2>2. /\ worker' \in {[worker EXCEPT ![c] = "done"], [worker EXCEPT ![c] = "lock"]}
        /\ fails' \in [Cands -> 0..ReplaceAfter]
        /\ \A d \in Cands \ active : fails'[d] = 0
    BY <1>6, WaitAssumption DEF CheckTunnel, WaitTypes, DroppedUncounted
  <2> QED
    BY <2>1, <2>2 DEF WaitTypes, TickOwnsWorkers, HoldsLock, OpenWhileReplacing, DroppedUncounted
<1>7. ASSUME NEW c \in Cands, LockReplace(c) PROVE WaitInv'
  <2>1. CASE SourceWaiting \/ reset \/ c \notin active
    BY <1>1, <1>7, <2>1 DEF LockReplace, memory
  <2>2. CASE ~(SourceWaiting \/ reset \/ c \notin active)
    <3>1. ~wait.since /\ c \in active
      BY <2>2 DEF SourceWaiting, OpenWhileReplacing
    <3> QED
      BY <1>7, <2>2, <3>1, WaitAssumption
      DEF LockReplace, memory, WaitTypes, TickOwnsWorkers, HoldsLock, OpenWhileReplacing, DroppedUncounted,
          Nobody, Sync
  <2> QED
    BY <2>1, <2>2
<1>8. ASSUME NEW c \in Cands, HasInbound(c) PROVE WaitInv'
  <2>1. CASE Leave(c)
    BY <1>1, <1>8, <2>1 DEF HasInbound, HoldsLock
  <2>2. CASE ~Leave(c)
    BY <1>8, <2>2 DEF HasInbound, WaitTypes, TickOwnsWorkers, HoldsLock, OpenWhileReplacing, DroppedUncounted
  <2> QED
    BY <2>1, <2>2
<1>9. ASSUME NEW c \in Cands, AskAgain(c) PROVE WaitInv'
  BY <1>9 DEF AskAgain, memory, WaitTypes, TickOwnsWorkers, HoldsLock, OpenWhileReplacing, DroppedUncounted
<1>10. ASSUME NEW c \in Cands, FreshWait(c) PROVE WaitInv'
  <2> DEFINE health == CheckedHealth(heard[c])
  <2>1. lock = c /\ tick = "work" /\ ~wait.since /\ c \in active /\ UNCHANGED <<tick, sync>>
    BY <1>10 DEF FreshWait, HoldsLock, TickOwnsWorkers, OpenWhileReplacing
  <2>2. \/ worker' = [worker EXCEPT ![c] = "release"] /\ lock' = lock
        \/ worker' = [worker EXCEPT ![c] = "done"] /\ lock' = Nobody
    BY <1>10 DEF FreshWait, Leave
  <2>3. \A d \in Cands : worker[d] \in {"inbound", "ask", "decide", "release"} => d = c
    BY <2>1, WaitAssumption DEF HoldsLock
  <2>4. \A d \in Cands : worker'[d] \notin {"inbound", "ask", "decide"}
    BY <2>2, <2>3 DEF WaitTypes
  <2>5. HoldsLock' /\ TickOwnsWorkers'
    BY <2>1, <2>2, <2>3, WaitAssumption DEF WaitTypes, HoldsLock, TickOwnsWorkers, Sync
  <2>6. CASE Bad(health) # {}
    <3>1. ApplyWaits(health) /\ UNCHANGED active
      BY <1>10, <2>6 DEF FreshWait
    <3>2. /\ DOMAIN wait' = {"entry", "since", "age", "dep", "grace"}
          /\ wait'.entry /\ wait'.entry \in BOOLEAN /\ wait'.since \in BOOLEAN
          /\ fails' \in [Cands -> 0..ReplaceAfter] /\ fails' \in {fails, NoFails}
      BY <3>1, WaitUpdate, Zenon
    <3>3. WaitTypes' /\ DroppedUncounted'
      BY <2>2, <3>1, <3>2 DEF WaitTypes, DroppedUncounted, NoFails
    <3> QED
      BY <2>4, <2>5, <3>2, <3>3 DEF OpenWhileReplacing
  <2>7. CASE Bad(health) = {}
    <3>1. Replace(c) /\ UNCHANGED wait
      BY <1>10, <2>7 DEF FreshWait
    <3>2. /\ active' \subseteq Cands /\ fails' \in [Cands -> 0..ReplaceAfter]
          /\ DroppedUncounted'
      <4>1. CASE UNCHANGED <<active, fails>>
        BY <4>1 DEF WaitTypes, DroppedUncounted
      <4>2. CASE ~UNCHANGED <<active, fails>>
        <5>1. PICK n \in Cands \ active :
                /\ active' \in {(active \ {c}) \cup {n}, active \ {c}}
                /\ fails' = [fails EXCEPT ![c] = 0]
          BY <3>1, <4>2 DEF Replace, Free
        <5> QED
          BY <5>1, WaitAssumption DEF WaitTypes, DroppedUncounted
      <4> QED
        BY <4>1, <4>2
    <3> QED
      BY <2>2, <2>4, <2>5, <3>1, <3>2 DEF WaitTypes, OpenWhileReplacing
  <2> QED
    BY <2>6, <2>7
<1>11. ASSUME NEW c \in Cands, ReleaseByWorker(c) PROVE WaitInv'
  BY <1>1, <1>11 DEF ReleaseByWorker, HoldsLock
<1>12. CASE CheckSource
  BY <1>12 DEF CheckSource, WaitTypes, TickOwnsWorkers, HoldsLock, OpenWhileReplacing, DroppedUncounted
<1>13. CASE SyncLock
  BY <1>13, WaitAssumption
  DEF SyncLock, memory, WaitTypes, TickOwnsWorkers, HoldsLock, OpenWhileReplacing, DroppedUncounted, Nobody, Sync
<1>14. CASE SyncWrite
  <2>1. lock = Sync /\ lock' = Nobody /\ sync' = "idle" /\ UNCHANGED <<wait, worker, tick>>
    BY <1>14 DEF SyncWrite, HoldsLock
  <2>2. \A c \in Cands : worker[c] \notin {"inbound", "ask", "decide", "release"}
    BY <2>1, WaitAssumption DEF HoldsLock, Sync
  <2>3. /\ active' \subseteq Cands /\ fails' \in [Cands -> 0..ReplaceAfter]
        /\ \A c \in Cands \ active' : fails'[c] = 0
    <3>1. CASE ChangeSlots
      BY <3>1, WaitAssumption DEF ChangeSlots, ActiveSets, WaitTypes
    <3>2. CASE ApplyInFull
      BY <3>2, WaitAssumption DEF ApplyInFull, ActiveSets, NoFails
    <3>3. CASE UNCHANGED <<active, fails, reset>>
      BY <3>3 DEF WaitTypes, DroppedUncounted
    <3> QED
      BY <1>14, <3>1, <3>2, <3>3 DEF SyncWrite
  <2> QED
    BY <2>1, <2>2, <2>3 DEF WaitTypes, TickOwnsWorkers, HoldsLock, OpenWhileReplacing, DroppedUncounted
<1>15. CASE Poll \/ OwnChanges \/ CrossChanges \/ UNCHANGED vars
  BY <1>2, <1>15 DEF Poll, OwnChanges, CrossChanges, vars, memory, control
<1>16. CASE Advance
  <2>1. /\ DOMAIN wait' = DOMAIN wait
        /\ wait'.entry = wait.entry /\ wait'.since = wait.since
    BY <1>16 DEF Advance, WaitTypes
  <2> QED
    BY <1>16, <2>1
    DEF Advance, WaitTypes, TickOwnsWorkers, HoldsLock, OpenWhileReplacing, DroppedUncounted
<1> QED
  BY <1>3, <1>4, <1>5, <1>6, <1>7, <1>8, <1>9, <1>10, <1>11, <1>12, <1>13, <1>14, <1>15, <1>16
  DEF Next, MonitorStep, MonitorLocks, TickStep, WorkerStep

-----------------------------------------------------------------------------
(* The release.                                                            *)

(* The greatest pause is a number.                                         *)
LEMMA MaxGraceInt == MaxGrace \in Int
<1>1. {Grace[d] : d \in Deps} = {Grace["own"], Grace["cross"]}
  BY DEF Deps
<1>2. Grace["own"] \in Int /\ Grace["cross"] \in Int
  BY WaitAssumption DEF Deps
<1> QED
  BY <1>1, <1>2, OfTwo DEF MaxGrace

(* While the sync holds the lock, its copy of the quarantine is current.   *)
CopyIsCurrent == sync = "apply" => copy = quarantine

QuarantineTypes ==
  /\ quarantine \in [Cands -> Nat] /\ copy \in [Cands -> Nat]
  /\ wait.age \in Int

QuarantineInv == QuarantineTypes /\ CopyIsCurrent /\ DeadPairsReleased

(* Nothing is in quarantine at the start.                                  *)
LEMMA QuarantineInit == Init => QuarantineInv
<1> SUFFICES ASSUME Init PROVE QuarantineInv
  OBVIOUS
<1>1. ~wait.since /\ wait.age = 0 /\ sync = "idle"
  BY DEF Init, NoWait
<1>2. quarantine \in [Cands -> Nat] /\ copy \in [Cands -> Nat]
  BY DEF Init, NoQuarantine
<1> QED
  BY <1>1, <1>2 DEF QuarantineInv, QuarantineTypes, CopyIsCurrent, DeadPairsReleased

(* After a release no pair is left that the failing dependency may have    *)
(* put into quarantine.                                                    *)
LEMMA ReleaseReleases ==
  ASSUME QuarantineTypes, ReleaseSince
  PROVE  /\ quarantine' \in [Cands -> Nat]
         /\ \A c \in Cands : quarantine'[c] = 0 \/ Cooldown - quarantine'[c] > MaxGrace + wait.age
  BY MaxGraceInt, WaitAssumption DEF QuarantineTypes, ReleaseSince

(* Every step keeps the invariant.                                         *)
LEMMA QuarantineStep == WaitInv /\ QuarantineInv /\ [Next]_vars => QuarantineInv'
<1> SUFFICES ASSUME WaitInv, QuarantineInv, [Next]_vars PROVE QuarantineInv'
  OBVIOUS
<1> USE DEF WaitInv, QuarantineInv
<1> DEFINE Pending == tick = "release" \/ \E c \in Cands : worker[c] = "release"
<1>1. ASSUME UNCHANGED <<quarantine, copy, wait>>, sync' = sync, Pending => Pending'
      PROVE  QuarantineInv'
  BY <1>1 DEF QuarantineTypes, CopyIsCurrent, DeadPairsReleased
<1>2. ASSUME ReleaseSince, UNCHANGED <<wait, copy, sync>>, sync # "apply"
      PROVE  QuarantineInv'
  BY <1>2, ReleaseReleases DEF QuarantineTypes, CopyIsCurrent, DeadPairsReleased
<1>3. CASE Poll \/ OwnChanges \/ CrossChanges \/ UNCHANGED vars
  <2>1. UNCHANGED <<quarantine, copy, wait, sync, worker>> /\ (tick = "release" => tick' = "release")
    BY <1>3 DEF Poll, OwnChanges, CrossChanges, vars, memory, control
  <2> QED
    BY <1>1, <2>1
<1>11. CASE TickStart
  <2>1. UNCHANGED <<quarantine, copy, wait, sync>> /\ ~Pending
    BY <1>11 DEF TickStart, Idle, memory
  <2> QED
    BY <1>1, <2>1
<1>4. CASE DependencyHealth
  <2> DEFINE health == CheckedHealth(own)
  <2>1. ApplyWaits(health) /\ UNCHANGED <<quarantine, copy, sync>>
    BY <1>4 DEF DependencyHealth
  <2>2. /\ wait'.age \in {wait.age, 0}
        /\ wait.since /\ wait'.since => wait'.age = wait.age
        /\ ~wait.since /\ wait'.since => Starts(health)
    BY <2>1, WaitUpdate, Zenon
  <2>3. ~Pending /\ (Starts(health) => tick' = "release")
    BY <1>4 DEF DependencyHealth, TickOwnsWorkers
  <2> QED
    BY <2>1, <2>2, <2>3 DEF QuarantineTypes, CopyIsCurrent, DeadPairsReleased
<1>5. CASE ReleaseByTick
  <2>1. sync # "apply"
    BY <1>5 DEF ReleaseByTick, MayRelease, Locked, HoldsLock, Tick, Sync, Nobody
  <2> QED
    BY <1>2, <1>5, <2>1 DEF ReleaseByTick
<1>6. ASSUME NEW c \in Cands, CheckTunnel(c) \/ LockReplace(c) \/ HasInbound(c) \/ AskAgain(c)
      PROVE  QuarantineInv'
  <2>1. /\ UNCHANGED <<quarantine, copy, wait, sync, tick>> /\ worker[c] # "release"
        /\ \A r \in Cands \ {c} : worker'[r] = worker[r]
    BY <1>6 DEF CheckTunnel, LockReplace, HasInbound, AskAgain, Leave, memory, WaitTypes
  <2> QED
    BY <1>1, <2>1
<1>7. ASSUME NEW c \in Cands, FreshWait(c) PROVE QuarantineInv'
  <2> DEFINE health == CheckedHealth(heard[c])
  <2>1. ~wait.since /\ sync # "apply" /\ UNCHANGED <<copy, sync>>
    BY <1>7, WaitAssumption DEF FreshWait, OpenWhileReplacing, HoldsLock, Sync
  <2>2. CASE Bad(health) # {}
    <3>1. ApplyWaits(health) /\ UNCHANGED quarantine
      BY <1>7, <2>2 DEF FreshWait
    <3>2. wait'.age \in {wait.age, 0} /\ (~wait.since /\ wait'.since => Starts(health))
      BY <3>1, WaitUpdate, Zenon
    <3>3. Starts(health) => worker'[c] = "release"
      BY <1>7, <2>2 DEF FreshWait, WaitTypes
    <3> QED
      BY <2>1, <3>1, <3>2, <3>3 DEF QuarantineTypes, CopyIsCurrent, DeadPairsReleased
  <2>3. CASE Bad(health) = {}
    <3>1. Replace(c) /\ UNCHANGED wait
      BY <1>7, <2>3 DEF FreshWait
    <3>2. quarantine' \in [Cands -> Nat]
      BY <3>1, WaitAssumption DEF Replace, QuarantineTypes
    <3> QED
      BY <2>1, <3>1, <3>2 DEF QuarantineTypes, CopyIsCurrent, DeadPairsReleased
  <2> QED
    BY <2>2, <2>3
<1>8. ASSUME NEW c \in Cands, ReleaseByWorker(c) PROVE QuarantineInv'
  <2>1. sync # "apply"
    BY <1>8, WaitAssumption DEF ReleaseByWorker, HoldsLock, Sync
  <2> QED
    BY <1>2, <1>8, <2>1 DEF ReleaseByWorker
<1>9. CASE CheckSource \/ SyncLock \/ SyncWrite
  <2>1. /\ UNCHANGED <<wait, tick, worker>> /\ quarantine' = quarantine
        /\ copy' \in [Cands -> Nat] /\ CopyIsCurrent'
    BY <1>9 DEF CheckSource, SyncLock, SyncWrite, memory, CopyIsCurrent, QuarantineTypes, NoQuarantine
  <2> QED
    BY <2>1 DEF QuarantineTypes, DeadPairsReleased
<1>10. CASE Advance
  <2>1. /\ wait'.since = wait.since
        /\ wait'.age = IF wait.since THEN Min({wait.age + 1, AgeCap}) ELSE 0
    BY <1>10 DEF Advance, WaitTypes
  <2>2. AgeCap \in Int
    <3> DEFINE a == Cooldown - MaxGrace
    <3>1. a \in Int /\ 0 \in Int
      BY MaxGraceInt, WaitAssumption
    <3> HIDE DEF a
    <3>2. Max({a, 0}) \in {a, 0}
      BY <3>1, OfTwo
    <3> QED
      BY <3>1, <3>2 DEF AgeCap, a
  <2>3. wait'.age \in Int /\ (wait.since => wait'.age <= wait.age + 1)
    <3> DEFINE a == wait.age + 1
    <3>1. a \in Int
      BY DEF QuarantineTypes
    <3>2. wait'.age = IF wait.since THEN Min({a, AgeCap}) ELSE 0
      BY <2>1
    <3> HIDE DEF a
    <3>3. Min({a, AgeCap}) \in Int /\ Min({a, AgeCap}) <= a
      BY <2>2, <3>1, OfTwo
    <3> QED
      BY <3>2, <3>3 DEF a
  <2>4. /\ quarantine' = [c \in Cands |-> IF quarantine[c] > 0 THEN quarantine[c] - 1 ELSE quarantine[c]]
        /\ copy' = [c \in Cands |-> IF copy[c] > 0 THEN copy[c] - 1 ELSE copy[c]]
        /\ UNCHANGED <<tick, worker, sync>>
    BY <1>10 DEF Advance, Less
  <2>5. QuarantineTypes' /\ CopyIsCurrent'
    BY <2>3, <2>4 DEF QuarantineTypes, CopyIsCurrent
  <2>6. DeadPairsReleased'
    <3> SUFFICES ASSUME wait'.since, ~Pending',  NEW c \in Cands
                 PROVE  quarantine'[c] = 0 \/ Cooldown - quarantine'[c] > MaxGrace + wait'.age
      BY DEF DeadPairsReleased
    <3>1. wait.since /\ (quarantine[c] = 0 \/ Cooldown - quarantine[c] > MaxGrace + wait.age)
      BY <2>1, <2>4 DEF DeadPairsReleased
    <3>2. quarantine[c] \in Nat /\ quarantine'[c] = IF quarantine[c] > 0 THEN quarantine[c] - 1 ELSE quarantine[c]
      BY <2>4 DEF QuarantineTypes
    <3>3. wait.age \in Int /\ wait'.age \in Int /\ wait'.age <= wait.age + 1
      BY <2>3, <3>1 DEF QuarantineTypes
    <3> HIDE DEF QuarantineInv, WaitInv
    <3> QED
      BY <3>1, <3>2, <3>3, MaxGraceInt, WaitAssumption
  <2> QED
    BY <2>5, <2>6
<1> QED
  BY <1>3, <1>4, <1>5, <1>6, <1>7, <1>8, <1>9, <1>10, <1>11
  DEF Next, MonitorStep, MonitorLocks, TickStep, WorkerStep

(* Once a wait has begun and its release is done, no quarantine is left    *)
(* that a failing dependency may have caused, whatever a sync writes back  *)
(* (releaseQuarantine, the sync's write of the selection state).           *)
THEOREM DeadPairsAreReleased == Spec => []DeadPairsReleased
<1>1. Init => WaitInv /\ QuarantineInv
  BY WaitInit, QuarantineInit
<1>2. WaitInv /\ QuarantineInv /\ [Next]_vars => (WaitInv /\ QuarantineInv)'
  BY WaitStep, QuarantineStep
<1>3. WaitInv /\ QuarantineInv => DeadPairsReleased
  BY DEF QuarantineInv
<1> QED
  BY <1>1, <1>2, <1>3, PTL DEF Spec

-----------------------------------------------------------------------------
(* The refinement.                                                         *)

(* The initial state maps to one of Gate.                                  *)
LEMMA GateInit == Init => GateSpec!Init
<1> SUFFICES ASSUME Init PROVE GateSpec!Init
  OBVIOUS
<1>1. wait.since = FALSE
  BY DEF Init, NoWait
<1>2. Replacing = {} /\ Quarantined = {}
  BY DEF Init, Replacing, Quarantined, NoQuarantine
<1>3. fails = NoFails /\ active \in SUBSET Cands
  BY DEF Init, ActiveSets
<1> QED
  BY <1>1, <1>2, <1>3 DEF GateSpec!Init, GateSpec!None, NoFails

(* A worker that leaves the replacement spares its candidate.              *)
LEMMA LeaveSpares ==
  ASSUME WaitTypes, NEW c \in Cands, worker' = [worker EXCEPT ![c] = "done"]
  PROVE  Replacing' = Replacing \ {c}
  BY DEF WaitTypes, Replacing

(* Every step maps to a step of Gate or to none.                           *)
LEMMA GateStep == WaitInv /\ QuarantineInv /\ [Next]_vars => [GateSpec!Next]_(GateSpec!vars)
<1> SUFFICES ASSUME WaitInv, QuarantineInv, [Next]_vars PROVE GateSpec!Next \/ UNCHANGED GateSpec!vars
  OBVIOUS
<1> USE DEF WaitInv
<1>1. ASSUME UNCHANGED <<wait, active, fails, Replacing, Quarantined>> PROVE UNCHANGED GateSpec!vars
  BY <1>1 DEF GateSpec!vars
<1>2. ASSUME NEW c \in Cands, worker' = [worker EXCEPT ![c] = "done"],
             UNCHANGED <<wait, active, fails, quarantine>>
      PROVE  GateSpec!Next
  <2>1. GateSpec!Spare(c)
    BY <1>2, LeaveSpares DEF GateSpec!Spare, Quarantined
  <2> QED
    BY <2>1 DEF GateSpec!Next
<1>3. ASSUME wait'.since = wait.since, UNCHANGED <<active, fails, Replacing>>,
             \A c \in Cands : quarantine'[c] > 0 => quarantine[c] > 0
      PROVE  GateSpec!Next
  <2>1. Quarantined' \subseteq Quarantined
    BY <1>3 DEF Quarantined
  <2>2. GateSpec!Release
    BY <1>3, <2>1 DEF GateSpec!Release
  <2> QED
    BY <2>2 DEF GateSpec!Next
<1>4. CASE CheckSource \/ SyncLock \/ Poll \/ OwnChanges \/ CrossChanges \/ UNCHANGED vars
  <2>1. UNCHANGED <<wait, active, fails, worker, quarantine>>
    BY <1>4 DEF CheckSource, SyncLock, Poll, OwnChanges, CrossChanges, vars, memory, control
  <2> QED
    BY <2>1, <1>1 DEF Replacing, Quarantined
<1>5. CASE TickStart
  <2>1. UNCHANGED <<wait, active, fails, quarantine>>
    BY <1>5 DEF TickStart, memory
  <2>2. Replacing = {} /\ Replacing' = {}
    BY <1>5 DEF TickStart, Idle, Replacing
  <2> QED
    BY <2>1, <2>2, <1>1 DEF Quarantined
<1>6. CASE DependencyHealth
  <2> DEFINE health == CheckedHealth(own)
  <2>1. ApplyWaits(health) /\ UNCHANGED <<active, quarantine, worker>>
    BY <1>6 DEF DependencyHealth
  <2>2. Replacing = {} /\ Replacing' = {} /\ UNCHANGED Quarantined
    BY <1>6, <2>1 DEF DependencyHealth, TickOwnsWorkers, Replacing, Quarantined
  <2>3. /\ wait.since \in BOOLEAN /\ wait'.since \in BOOLEAN
        /\ ~Ends(health) => fails' = fails
        /\ wait.since /\ ~wait'.since => fails' = NoFails
    BY <2>1, WaitUpdate, Zenon DEF WaitTypes
  <2>4. CASE wait.since /\ ~wait'.since
    <3>1. GateSpec!Open
      BY <2>1, <2>2, <2>3, <2>4 DEF GateSpec!Open, GateSpec!None, NoFails
    <3> QED
      BY <3>1 DEF GateSpec!Next
  <2>5. CASE wait.since = wait'.since
    <3>1. fails' = fails
      BY <2>1, <2>3, <2>5 DEF ApplyWaits, Ends, NoWait
    <3> QED
      BY <2>1, <2>2, <2>5, <3>1 DEF GateSpec!vars
  <2>6. CASE ~wait.since /\ wait'.since
    <3>1. fails' = fails
      BY <2>3, <2>6 DEF Ends
    <3>2. GateSpec!Close
      BY <2>1, <2>2, <2>3, <2>6, <3>1 DEF GateSpec!Close
    <3> QED
      BY <3>2 DEF GateSpec!Next
  <2> QED
    BY <2>3, <2>4, <2>5, <2>6
<1>7. CASE ReleaseByTick
  <2>1. UNCHANGED <<wait, active, fails, worker>> /\ ReleaseSince
    BY <1>7 DEF ReleaseByTick
  <2>2. \A c \in Cands : quarantine'[c] > 0 => quarantine[c] > 0
    BY <2>1 DEF ReleaseSince
  <2> QED
    BY <1>3, <2>1, <2>2 DEF Replacing
<1>8. ASSUME NEW c \in Cands, CheckTunnel(c) PROVE GateSpec!Next
  <2>1. c \notin Replacing /\ UNCHANGED <<wait, active, quarantine, Quarantined>>
    BY <1>8 DEF CheckTunnel, Replacing, Quarantined
  <2>2. CASE fails' = [fails EXCEPT ![c] = 0] /\ worker' = [worker EXCEPT ![c] = "done"]
    <3>1. UNCHANGED Replacing
      BY <2>1, <2>2, LeaveSpares
    <3>2. GateSpec!Pass(c)
      BY <2>1, <2>2, <3>1 DEF GateSpec!Pass
    <3> QED
      BY <3>2 DEF GateSpec!Next
  <2>3. CASE /\ fails' = [fails EXCEPT ![c] = IF c \in active /\ @ < ReplaceAfter THEN @ + 1 ELSE @]
             /\ worker' = [worker EXCEPT ![c] = IF Due(c) THEN "lock" ELSE "done"]
    <3>1. CASE c \in active
      <4>1. Replacing' = IF Due(c) THEN Replacing \cup {c} ELSE Replacing
        BY <2>1, <2>3 DEF WaitTypes, Replacing
      <4>2. Due(c) => ~wait.since /\ fails'[c] = ReplaceAfter
        BY <2>3, WaitAssumption DEF Due, SourceWaiting, OpenWhileReplacing, WaitTypes
      <4>3. fails' = [fails EXCEPT ![c] = IF @ < ReplaceAfter THEN @ + 1 ELSE @]
        BY <2>3, <3>1
      <4>4. GateSpec!Fail(c)
        BY <2>1, <3>1, <4>1, <4>2, <4>3 DEF GateSpec!Fail
      <4> QED
        BY <4>4 DEF GateSpec!Next
    <3>2. CASE c \notin active
      <4>1. fails' = fails /\ fails[c] = 0
        BY <2>3, <3>2 DEF WaitTypes, DroppedUncounted
      <4>2. ~Due(c)
        BY <4>1, WaitAssumption DEF Due
      <4>3. worker' = [worker EXCEPT ![c] = "done"]
        BY <2>3, <4>2
      <4> QED
        BY <1>2, <2>1, <4>1, <4>3
    <3> QED
      BY <3>1, <3>2
  <2> QED
    BY <1>8, <2>2, <2>3 DEF CheckTunnel
<1>9. ASSUME NEW c \in Cands, LockReplace(c) \/ HasInbound(c) \/ AskAgain(c)
      PROVE  GateSpec!Next \/ UNCHANGED GateSpec!vars
  <2>1. UNCHANGED <<wait, active, fails, quarantine>>
    BY <1>9 DEF LockReplace, HasInbound, AskAgain, memory
  <2>2. CASE Leave(c)
    BY <1>2, <2>1, <2>2 DEF Leave
  <2>3. CASE ~Leave(c)
    <3>1. UNCHANGED Replacing
      BY <1>9, <2>3 DEF LockReplace, HasInbound, AskAgain, Replacing, WaitTypes
    <3> QED
      BY <1>1, <2>1, <3>1 DEF Quarantined
  <2> QED
    BY <2>2, <2>3
<1>10. ASSUME NEW c \in Cands, FreshWait(c) PROVE GateSpec!Next
  <2> DEFINE health == CheckedHealth(heard[c])
  <2>1. c \in Replacing /\ ~wait.since /\ c \in active
    BY <1>10 DEF FreshWait, Replacing, OpenWhileReplacing
  <2>2. CASE Bad(health) # {}
    <3>1. ApplyWaits(health) /\ UNCHANGED <<active, quarantine, Quarantined>>
      BY <1>10, <2>2 DEF FreshWait, Quarantined
    <3>2. fails' = fails /\ wait'.since \in BOOLEAN
      <4>1. ~Ends(health)
        BY <2>2 DEF Ends
      <4> QED
        BY <3>1, <4>1, WaitUpdate, Zenon
    <3>3. Replacing' = Replacing \ {c}
      BY <1>10, <2>2 DEF FreshWait, Leave, WaitTypes, Replacing
    <3>4. CASE wait'.since
      <4>1. GateSpec!Close
        BY <2>1, <3>1, <3>2, <3>3, <3>4 DEF GateSpec!Close
      <4> QED
        BY <4>1 DEF GateSpec!Next
    <3>5. CASE ~wait'.since
      <4>1. GateSpec!Spare(c)
        BY <2>1, <3>1, <3>2, <3>3, <3>5 DEF GateSpec!Spare, WaitTypes
      <4> QED
        BY <4>1 DEF GateSpec!Next
    <3> QED
      BY <3>4, <3>5
  <2>3. CASE Bad(health) = {}
    <3>1. Replace(c) /\ worker' = [worker EXCEPT ![c] = "done"] /\ UNCHANGED wait
      BY <1>10, <2>3 DEF FreshWait, Leave
    <3>2. Replacing' = Replacing \ {c}
      BY <3>1, LeaveSpares
    <3> DEFINE q == [quarantine EXCEPT ![c] = Cooldown]
    <3>3. quarantine' = q /\ q \in [Cands -> Nat]
      BY <3>1, WaitAssumption DEF Replace, QuarantineInv, QuarantineTypes
    <3>4. Quarantined' = Quarantined \cup {c}
      BY <3>3, WaitAssumption DEF Quarantined, QuarantineInv, QuarantineTypes
    <3>5. CASE UNCHANGED <<active, fails>>
      <4>1. GateSpec!GiveUp(c)
        BY <2>1, <3>1, <3>2, <3>4, <3>5 DEF GateSpec!GiveUp
      <4> QED
        BY <4>1 DEF GateSpec!Next
    <3>6. CASE ~UNCHANGED <<active, fails>>
      <4>1. PICK n \in Free(q) : /\ fails' = [fails EXCEPT ![c] = 0]
                                 /\ active' \in {(active \ {c}) \cup {n}, active \ {c}}
        BY <3>1, <3>6 DEF Replace
      <4>2. n \in Cands \ (active \cup Quarantined')
        BY <3>3, <4>1 DEF Free, Quarantined
      <4>3. \E N \in {{n}, {}} : active' = (active \ {c}) \cup N
        <5>1. (active \ {c}) \cup {} = active \ {c}
          OBVIOUS
        <5> QED
          BY <4>1, <5>1
      <4>4. \E N \in SUBSET (Cands \ (active \cup Quarantined')) :
              (\A k, m \in N : k = m) /\ active' = (active \ {c}) \cup N
        BY <4>2, <4>3
      <4>5. GateSpec!GiveUp(c)
        BY <2>1, <3>1, <3>2, <3>4, <4>1, <4>4 DEF GateSpec!GiveUp
      <4> QED
        BY <4>5 DEF GateSpec!Next
    <3> QED
      BY <3>5, <3>6
  <2> QED
    BY <2>2, <2>3
<1>11. ASSUME NEW c \in Cands, ReleaseByWorker(c) PROVE GateSpec!Next
  <2>1. UNCHANGED <<wait, active, fails>> /\ ReleaseSince /\ Leave(c) /\ c \notin Replacing
    BY <1>11 DEF ReleaseByWorker, Replacing
  <2>2. \A d \in Cands : quarantine'[d] > 0 => quarantine[d] > 0
    BY <2>1 DEF ReleaseSince
  <2>3. UNCHANGED Replacing
    BY <2>1, LeaveSpares DEF Leave
  <2> QED
    BY <1>3, <2>1, <2>2, <2>3
<1>12. CASE SyncWrite
  <2>1. UNCHANGED <<wait, Replacing, Quarantined>> /\ copy = quarantine
    BY <1>12 DEF SyncWrite, Replacing, Quarantined, QuarantineInv, CopyIsCurrent
  <2>2. CASE ChangeSlots
    <3>1. active' \subseteq Cands /\ (active' \ active) \cap Quarantined = {}
      BY <2>1, <2>2 DEF ChangeSlots, ActiveSets, Quarantined
    <3>2. GateSpec!Sync
      BY <2>1, <2>2, <3>1 DEF ChangeSlots, GateSpec!Sync
    <3> QED
      BY <3>2 DEF GateSpec!Next
  <2>3. CASE ApplyInFull
    <3>1. active' \subseteq Cands /\ (active' \ active) \cap Quarantined = {}
      BY <2>1, <2>3 DEF ApplyInFull, ActiveSets, Quarantined
    <3>2. GateSpec!Sync
      BY <2>1, <2>3, <3>1 DEF ApplyInFull, GateSpec!Sync, GateSpec!None, NoFails
    <3> QED
      BY <3>2 DEF GateSpec!Next
  <2>4. CASE UNCHANGED <<active, fails, reset>>
    BY <1>1, <2>1, <2>4
  <2> QED
    BY <1>12, <2>2, <2>3, <2>4 DEF SyncWrite
<1>13. CASE Advance
  <2>1. wait'.since = wait.since /\ UNCHANGED <<active, fails, worker>>
    BY <1>13 DEF Advance, WaitTypes
  <2>2. \A c \in Cands : quarantine'[c] > 0 => quarantine[c] > 0
    BY <1>13 DEF Advance, Less
  <2> QED
    BY <1>3, <2>1, <2>2 DEF Replacing
<1> QED
  BY <1>4, <1>5, <1>6, <1>7, <1>8, <1>9, <1>10, <1>11, <1>12, <1>13
  DEF Next, MonitorStep, MonitorLocks, TickStep, WorkerStep

(* The waits implement Gate, with any number of tunnels and workers: no    *)
(* step of applyWaits, checkTunnel or ReplaceFailed gives a candidate up   *)
(* during a wait, nor for failures counted before its end, although a sync *)
(* may replace, remove and add tunnels between any two of these steps.     *)
THEOREM WaitsImplementGate == Spec => KeepsGate
<1>1. Init => WaitInv /\ QuarantineInv /\ GateSpec!Init
  BY WaitInit, QuarantineInit, GateInit
<1>2. WaitInv /\ QuarantineInv /\ [Next]_vars => (WaitInv /\ QuarantineInv)'
  BY WaitStep, QuarantineStep
<1>3. WaitInv /\ QuarantineInv /\ [Next]_vars => [GateSpec!Next]_(GateSpec!vars)
  BY GateStep
<1> QED
  BY <1>1, <1>2, <1>3, PTL DEF Spec, KeepsGate, GateSpec!Spec

-----------------------------------------------------------------------------
(* The health a replacement goes by.                                       *)

(* A balancer that names no outbound has no targets (PrincipleTargets).    *)
LEMMA NoTargets ==
  ASSUME NEW raw, raw.tags \in Seq(STRING), \A i \in DOMAIN raw.tags : raw.tags[i] = NoTag
  PROVE  Targets(raw) = <<>>
<1> DEFINE n == Len(raw.tags)
           Def(f) == f = [i \in 0..n |->
                            IF i = 0 THEN <<>>
                            ELSE IF raw.tags[i] = NoTag THEN f[i - 1] ELSE Append(f[i - 1], raw.tags[i])]
           named == CHOOSE f : Def(f)
           empty == [i \in 0..n |-> <<>>]
<1>1. n \in Nat
  OBVIOUS
<1>2. \A i \in 1..n : raw.tags[i] = NoTag
  <2>1. DOMAIN raw.tags = 1..n
    OBVIOUS
  <2> QED
    BY <2>1
<1>3. Def(named)
  <2>1. \A i \in 0..n : i # 0 => i \in 1..n /\ i - 1 \in 0..n
    BY <1>1
  <2>2. Def(empty)
    BY <1>2, <2>1
  <2>3. \E f : Def(f)
    BY <2>2
  <2> HIDE DEF Def
  <2> QED
    BY <2>3
<1> HIDE DEF named
<1> DEFINE S == {i \in 0..n : named[i] # <<>>}
<1>4. S = {}
  <2> SUFFICES ASSUME S # {} PROVE FALSE
    OBVIOUS
  <2>1. S \in SUBSET Nat
    BY <1>1
  <2>2. PICK i \in S : \A j \in S : i <= j
    BY <2>1, LeastNat
  <2>3. i \in 0..n /\ named[i] # <<>>
    OBVIOUS
  <2>4. i # 0
    BY <1>1, <1>3, <2>3
  <2>5. i \in 1..n /\ i - 1 \in 0..n
    BY <1>1, <2>3, <2>4
  <2>6. named[i] = named[i - 1]
    BY <1>2, <1>3, <2>3, <2>4, <2>5
  <2>7. i - 1 \in S
    BY <2>3, <2>5, <2>6
  <2> QED
    BY <2>2, <2>5, <2>7
<1>5. named[n] = <<>>
  <2>1. n \in 0..n
    BY <1>1
  <2> QED
    BY <1>4, <2>1
<1> QED
  BY <1>5 DEF Targets, named

(* A healthy answer is one of a working balancer.                          *)
LEMMA HealthyWorks ==
  ASSUME NEW raw \in OwnAnswers \cup {NoAnswer}, Health(raw) = "healthy"
  PROVE  Working(raw)
<1>1. Outcome(raw) = "ok"
  BY DEF Health
<1>2. raw.code = "OK"
  BY <1>1 DEF Outcome
<1>3. raw.tags \in Seq(STRING)
  BY <1>2, AnswerAssumption DEF NoAnswer
<1>4. Selects(raw.override, Targets(raw))
  <2>1. Selects(Info(raw).override, Info(raw).targets)
    BY <1>1 DEF Health
  <2> QED
    BY <2>1 DEF Info
<1>5. CASE raw.override # NoTag
  BY <1>2, <1>5 DEF Working
<1>6. CASE Targets(raw) # <<>>
  <2>1. \E i \in DOMAIN raw.tags : raw.tags[i] # NoTag
    BY <1>3, <1>6, NoTargets
  <2>2. raw.known
    BY <1>6 DEF Targets
  <2> QED
    BY <1>2, <2>1, <2>2 DEF Working
<1> QED
  BY <1>4, <1>5, <1>6 DEF Selects

(* What was heard of the own balancer is an answer of it, and the age of   *)
(* the last selection of the other one is a number.                        *)
HeardInv ==
  /\ own \in OwnAnswers
  /\ heard \in [Cands -> OwnAnswers \cup {NoAnswer}]
  /\ "age" \in DOMAIN sel /\ sel.age \in Int

(* At the start no worker has heard of its balancer.                       *)
LEMMA HeardInit == Init => HeardInv
<1> SUFFICES ASSUME Init PROVE HeardInv
  OBVIOUS
<1>1. own \in OwnAnswers /\ heard = [c \in Cands |-> NoAnswer] /\ sel = NoSelection
  BY DEF Init
<1>2. "age" \in DOMAIN NoSelection /\ NoSelection.age = Never
  BY Zenon DEF NoSelection
<1> QED
  BY <1>1, <1>2 DEF HeardInv, Never

(* Every step keeps HeardInv.                                              *)
LEMMA HeardStep == HeardInv /\ [Next]_vars => HeardInv'
<1> SUFFICES ASSUME HeardInv, [Next]_vars PROVE HeardInv'
  OBVIOUS
<1> USE DEF HeardInv
<1>1. CASE Poll
  <2>1. sel' = Record(sel, cross, Owned) /\ UNCHANGED <<own, heard>>
    BY <1>1 DEF Poll, control
  <2>2. "age" \in DOMAIN sel' /\ sel'.age \in {0, Never}
    BY <2>1 DEF Record
  <2> QED
    BY <2>1, <2>2 DEF Never
<1>2. CASE Advance
  <2>1. Older(sel.age) \in Int
    <3>1. sel.age + 1 \in Int /\ StaleAfter \in Int
      BY DEF StaleAfter
    <3>2. Min({sel.age + 1, StaleAfter}) \in Int
      BY <3>1, OfTwo
    <3> QED
      BY <3>2 DEF Older, Never
  <2> QED
    BY <1>2, <2>1 DEF Advance, Aged
<1>3. CASE \E c \in Cands : AskAgain(c) \/ FreshWait(c)
  BY <1>3 DEF AskAgain, FreshWait
<1>4. CASE OwnChanges
  BY <1>4 DEF OwnChanges, control
<1> QED
  BY <1>1, <1>2, <1>3, <1>4
  DEF Next, MonitorStep, MonitorLocks, TickStep, WorkerStep, TickStart, DependencyHealth, CheckTunnel,
      HasInbound, ReleaseByWorker, ReleaseByTick, LockReplace, CheckSource, SyncLock, SyncWrite, CrossChanges,
      vars, memory, control

(* A quarantine that begins, or a change of the tunnels by the holder of   *)
(* the lock that is a worker, is the last step of a replacement, after     *)
(* both dependencies were found healthy.                                   *)
LEMMA ReplacedHealthy ==
  ASSUME WaitInv, QuarantineInv, HeardInv, [Next]_vars, NEW c \in Cands,
         quarantine'[c] > quarantine[c] \/ (lock = c /\ active' # active)
  PROVE  Working(heard[c]) /\ sel.state = "ok" /\ sel.age < StaleAfter /\ ~downB
<1> USE DEF WaitInv, QuarantineInv
<1>1. quarantine \in [Cands -> Nat] /\ quarantine[c] \in Nat
  BY DEF QuarantineTypes
<1>2. ASSUME UNCHANGED <<quarantine, active>> PROVE FALSE
  BY <1>1, <1>2
<1>3. ASSUME ReleaseSince, UNCHANGED active PROVE FALSE
  BY <1>1, <1>3 DEF ReleaseSince
<1>4. ~SyncWrite
  <2> SUFFICES ASSUME SyncWrite PROVE FALSE
    OBVIOUS
  <2>1. UNCHANGED quarantine /\ lock = Sync
    BY DEF SyncWrite, CopyIsCurrent, HoldsLock
  <2> QED
    BY <1>1, <2>1, WaitAssumption DEF Sync
<1>5. ~Advance
  BY <1>1 DEF Advance, Less
<1>6. ~ReleaseByTick /\ \A d \in Cands : ~ReleaseByWorker(d)
  BY <1>3 DEF ReleaseByTick, ReleaseByWorker
<1>7. /\ ~TickStart /\ ~DependencyHealth /\ ~CheckSource /\ ~SyncLock
      /\ ~Poll /\ ~OwnChanges /\ ~CrossChanges /\ ~UNCHANGED vars
      /\ \A d \in Cands : ~CheckTunnel(d) /\ ~LockReplace(d) /\ ~HasInbound(d) /\ ~AskAgain(d)
  BY <1>2 DEF TickStart, DependencyHealth, CheckSource, SyncLock, Poll, OwnChanges, CrossChanges,
              CheckTunnel, LockReplace, HasInbound, AskAgain, vars, memory, control
<1>8. PICK d \in Cands : FreshWait(d)
  BY <1>4, <1>5, <1>6, <1>7 DEF Next, MonitorStep, MonitorLocks, TickStep, WorkerStep
<1>9. Bad(CheckedHealth(heard[d])) = {} /\ Replace(d)
  BY <1>2, <1>8 DEF FreshWait
<1>10. c = d
  <2>1. lock = d
    BY <1>8 DEF FreshWait, HoldsLock
  <2>2. c # d => quarantine'[c] = quarantine[c]
    BY <1>1, <1>9 DEF Replace
  <2> QED
    BY <1>1, <2>1, <2>2
<1>11. Health(heard[c]) = "healthy" /\ SelectionHealth(sel, downB) = "healthy"
  BY <1>9, <1>10 DEF Bad, Deps, CheckedHealth
<1>12. Working(heard[c])
  BY <1>11, HealthyWorks DEF HeardInv
<1>13. sel.state = "ok" /\ ~downB /\ ~Stale(sel.age)
  BY <1>11 DEF SelectionHealth
<1> QED
  BY <1>12, <1>13 DEF HeardInv, Stale, StaleAfter

(* The monitor quarantines or replaces a candidate only when the own       *)
(* balancer had an outbound when it was asked under the lock, and the      *)
(* other one had one within the last three activations (freshWait,         *)
(* SelectionHealth, Stale), for any answers.                               *)
THEOREM OnlyReplacedWhileHealthy == Spec => ReplacedWhileHealthy
<1>1. Init => WaitInv /\ QuarantineInv /\ HeardInv
  BY WaitInit, QuarantineInit, HeardInit
<1>2. WaitInv /\ QuarantineInv /\ HeardInv /\ [Next]_vars => (WaitInv /\ QuarantineInv /\ HeardInv)'
  BY WaitStep, QuarantineStep, HeardStep
<1>3. WaitInv /\ QuarantineInv /\ HeardInv /\ [Next]_vars =>
        [\A c \in Cands :
           quarantine'[c] > quarantine[c] \/ (lock = c /\ active' # active)
           => /\ Working(heard[c])
              /\ sel.state = "ok" /\ sel.age < StaleAfter /\ ~downB]_vars
  BY ReplacedHealthy
<1> QED
  BY <1>1, <1>2, <1>3, PTL DEF Spec, ReplacedWhileHealthy
=============================================================================
