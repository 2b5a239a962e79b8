----------------------------- MODULE WarpProofs -----------------------------
(***************************************************************************)
(* Theorems about the WARP provider, for every number of slots, any        *)
(* interval, any number of faults and crashes: the pace of its             *)
(* registrations, the consistency of its lines, and when its candidate     *)
(* file may become empty.                                                  *)
(***************************************************************************)
EXTENDS Warp, TLAPS

Ages == {Never} \cup 0..Interval
Records == [dev : Devices \cup {0}, key : Int, prof : Int, lost : Nat, at : Ages]

(* The record, its copy in the tick and the state of the API have their    *)
(* types.                                                                  *)
TypeInv ==
  /\ keys \in [Devices -> Int]
  /\ losses \in [Devices -> Nat]
  /\ tried \in [Slots -> Ages]
  /\ disk \in [Slots -> Records] /\ rec \in [Slots -> Records]
  /\ cur \in Slots
  /\ lines = [s \in Slots |-> lines[s]] /\ out = [s \in Slots |-> out[s]]

(* The profile of a record is one for its key, or makes no line.           *)
OfItsKey(r) == r.prof \in {Unusable, r.key}
OneKey(l) == l # NoLine => l[2] = l[3]

AnswerInv ==
  \A s \in Slots : OfItsKey(disk[s]) /\ OfItsKey(rec[s]) /\ OneKey(lines[s]) /\ OneKey(out[s])

(* A recorded attempt is never older than the last request of the slot.    *)
Covers(r, s) == tried[s] # Never => r.at # Never /\ r.at <= tried[s]

PaceInv ==
  /\ \A s \in Slots : Covers(disk[s], s) /\ (pc # "idle" => Covers(rec[s], s))
  /\ pc = "attempt-save" => me.at = 0 /\ tried[cur] \in {Never, Interval}
  /\ pc = "post" => me.at = 0 /\ disk[cur].at = 0

(* The slots the tick has not changed yet are as on disk.                  *)
Untouched == pc # "idle" => \A s \in Slots : s > cur \/ (s = cur /\ pc = "slot") => rec[s] = disk[s]

(* A line is made of a record that was saved.                              *)
SavedLines ==
  /\ pc \in {"device", "registered", "line"} => rec[cur] = disk[cur]
  /\ pc = "idle" => rec = NoRecord /\ lines = NoLines
  /\ \A s \in Slots : lines[s] # NoLine => rec[s] = disk[s] /\ lines[s][1] = rec[s].dev /\ rec[s].dev # 0
  /\ \A s \in Slots : s > cur \/ (s = cur /\ pc # "publish") => lines[s] = NoLine

(* The devices slot s has had in its record or in the file.                *)
Owns(s, d) == d # 0 /\ (rec[s].dev = d \/ disk[s].dev = d \/ (out[s] # NoLine /\ out[s][1] = d))

(* A device belongs to one slot.                                           *)
Owned ==
  /\ \A s \in Slots : \A d \in Devices : Owns(s, d) => keys[d] \in Nat
  /\ \A s, t \in Slots : \A d \in Devices : Owns(s, d) /\ Owns(t, d) => s = t

(* A published device is recorded for its slot, or was answered as lost.   *)
Kept(s) ==
  out[s] # NoLine =>
    /\ out[s][1] \in Devices
    /\ disk[s].dev = out[s][1] \/ losses[out[s][1]] > 0
    /\ pc # "idle" => rec[s].dev = out[s][1] \/ losses[out[s][1]] > 0

(* Only a slot without a device registers one, and only a device gets a    *)
(* new key.                                                                *)
Occupied ==
  /\ pc \in {"attempt-save", "post"} => me.dev = 0
  /\ pc \in {"key-save", "line"} => me.dev # 0

FileInv == Untouched /\ SavedLines /\ Occupied /\ Owned /\ \A s \in Slots : Kept(s)

-----------------------------------------------------------------------------
(* Types.                                                                  *)

(* The constants: slots count from 1, no device is 0, ages are integers.   *)
LEMMA WarpFacts ==
  /\ N \in Nat /\ 1 \in Slots /\ N \in Slots /\ Slots \subseteq Nat
  /\ 0 \notin Devices
  /\ Interval \in Nat /\ Interval > 0 /\ LostAfter \in Nat /\ LostAfter > 0
  /\ Ages \subseteq Int /\ Never \in Ages /\ 0 \in Ages /\ Interval \in Ages
  /\ Never \in Int /\ ~(Never >= 0)
  BY WarpAssumption DEF Slots, Devices, Ages, Never

(* A slot without a device is a record.                                    *)
LEMMA NoDeviceType == NoDevice \in Records /\ NoRecord \in [Slots -> Records] /\ OfItsKey(NoDevice)
  BY WarpFacts DEF NoDevice, Records, NoRecord, Unusable, OfItsKey

(* The tick goes on with the next slot, or publishes.                      *)
LEMMA SlotDoneType ==
  ASSUME TypeInv, NEW l, SlotDone(l)
  PROVE  /\ cur' \in Slots /\ lines' = [s \in Slots |-> lines'[s]]
         /\ \A s \in Slots : lines'[s] = IF s = cur THEN l ELSE lines[s]
         /\ \/ cur' = cur /\ pc' = "publish"
            \/ cur' = cur + 1 /\ pc' = "slot"
<1>1. lines' = [lines EXCEPT ![cur] = l] /\ cur \in Slots /\ lines = [s \in Slots |-> lines[s]]
  BY DEF SlotDone, TypeInv
<1>2. cur # N => cur + 1 \in Slots
  BY <1>1, WarpFacts DEF Slots
<1> QED
  BY <1>1, <1>2 DEF SlotDone

(* The outcomes of a save of the slot (Record.Save, slot).                 *)
LEMMA SaveType ==
  ASSUME TypeInv, NEW next, SaveThen(next)
  PROVE  /\ disk' \in {disk, rec} /\ UNCHANGED <<apiVars, out, rec, rotate>>
         /\ \/ disk' = rec /\ pc' = next /\ UNCHANGED <<cur, lines>>
            \/ SlotDone(NoLine)
  BY DEF SaveThen, Save, AfterWrite

(* What the answers do to a record (check, register, rotate).              *)
LEMMA AnswerTypes ==
  ASSUME NEW r \in Records, NEW k \in Int, NEW p \in {k, Unusable}, NEW dd \in Devices, OfItsKey(r)
  PROVE  /\ Refresh(r, k, p) \in Records /\ OfItsKey(Refresh(r, k, p))
         /\ Lost(r) \in Records /\ OfItsKey(Lost(r))
         /\ [r EXCEPT !.at = 0] \in Records /\ OfItsKey([r EXCEPT !.at = 0])
         /\ [r EXCEPT !.key = k, !.prof = p] \in Records /\ OfItsKey([r EXCEPT !.key = k, !.prof = p])
         /\ [dev |-> dd, key |-> k, prof |-> p, lost |-> 0, at |-> r.at] \in Records
<1>0. 0 \in Nat /\ Unusable \in Int /\ p \in Int /\ 0 \in Ages /\ 0 \in Int
  BY WarpFacts DEF Unusable
<1>1. Refresh(r, k, p) \in Records /\ OfItsKey(Refresh(r, k, p))
  BY <1>0 DEF Records, Refresh, OfItsKey
<1>2. Lost(r) \in Records /\ OfItsKey(Lost(r))
  <2>1. r.lost + 1 \in Nat
    BY DEF Records
  <2>2. [r EXCEPT !.lost = @ + 1] \in Records /\ OfItsKey([r EXCEPT !.lost = @ + 1])
    BY <2>1 DEF Records, OfItsKey
  <2>3. [NoDevice EXCEPT !.at = r.at] \in Records /\ OfItsKey([NoDevice EXCEPT !.at = r.at])
    BY NoDeviceType DEF Records, OfItsKey
  <2> QED
    BY <2>2, <2>3 DEF Lost
<1>3. [r EXCEPT !.at = 0] \in Records /\ OfItsKey([r EXCEPT !.at = 0])
  BY <1>0 DEF Records, OfItsKey
<1>4. [r EXCEPT !.key = k, !.prof = p] \in Records /\ OfItsKey([r EXCEPT !.key = k, !.prof = p])
  BY <1>0 DEF Records, OfItsKey
<1>5. [dev |-> dd, key |-> k, prof |-> p, lost |-> 0, at |-> r.at] \in Records
  BY <1>0 DEF Records
<1> QED
  BY <1>1, <1>2, <1>3, <1>4, <1>5

-----------------------------------------------------------------------------
(* What the calls change.                                                  *)

(* The tick replaces the record of its slot, in memory.                    *)
Sets(r) == r \in Records /\ OfItsKey(r) /\ rec' = [rec EXCEPT ![cur] = r]

(* GET /reg/{id} (check, checkDevice): a device that is kept keeps its     *)
(* attempt, and it leaves the slot only with a loss answer.                *)
LEMMA CheckFacts ==
  ASSUME TypeInv, AnswerInv, Check
  PROVE  /\ pc = "slot" /\ pc' = "check-save" /\ me.dev \in Devices
         /\ UNCHANGED <<keys, tried, disk, out, cur, lines>>
         /\ \E r : /\ Sets(r) /\ r.at = me.at
                   /\ \/ r.dev = me.dev /\ losses' = [losses EXCEPT ![me.dev] = 0]
                      \/ r.dev = me.dev /\ losses' = losses
                      \/ /\ r.dev \in {me.dev, 0}
                         /\ losses' = [losses EXCEPT ![me.dev] = IF @ < LostAfter THEN @ + 1 ELSE @]
<1>0. me \in Records /\ OfItsKey(me) /\ me.dev \in Devices /\ keys[me.dev] \in Int
  <2>1. me \in Records /\ OfItsKey(me)
    BY DEF TypeInv, AnswerInv, me
  <2>2. me.dev \in Devices
    BY <2>1 DEF Check, Records
  <2> QED
    BY <2>1, <2>2 DEF TypeInv
<1>1. /\ pc = "slot" /\ pc' = "check-save"
      /\ UNCHANGED <<keys, tried, disk, out, cur, lines>>
  BY DEF Check
<1>2. ASSUME NEW k \in Int, NEW p \in {k, Unusable}, SetMe(Refresh(me, k, p)),
             losses' = [losses EXCEPT ![me.dev] = 0]
      PROVE  \E r : Sets(r) /\ r.at = me.at /\ r.dev = me.dev /\ losses' = [losses EXCEPT ![me.dev] = 0]
  <2>1. Sets(Refresh(me, k, p))
    BY <1>0, <1>2, AnswerTypes DEF Sets, SetMe
  <2>2. Refresh(me, k, p).at = me.at /\ Refresh(me, k, p).dev = me.dev
    BY <1>0 DEF Refresh, Records
  <2> QED
    BY <1>2, <2>1, <2>2
<1>3. ASSUME SetMe(Lost(me))
      PROVE  \E r : Sets(r) /\ r.at = me.at /\ r.dev \in {me.dev, 0}
  <2>1. Sets(Lost(me))
    BY <1>0, <1>3, AnswerTypes DEF Sets, SetMe
  <2>2. Lost(me).at = me.at /\ Lost(me).dev \in {me.dev, 0}
    BY <1>0 DEF Lost, NoDevice, Records
  <2> QED
    BY <2>1, <2>2
<1>4. ASSUME SetMe(Failed(me))
      PROVE  Sets(me)
  BY <1>0, <1>4 DEF Failed, Sets, SetMe
<1>5. \/ /\ \E k \in {keys[me.dev], keys[me.dev] - 1} \cap Nat :
              SetMe(Refresh(me, k, k)) \/ SetMe(Refresh(me, k, Unusable))
         /\ losses' = [losses EXCEPT ![me.dev] = 0]
      \/ /\ SetMe(Lost(me))
         /\ losses' = [losses EXCEPT ![me.dev] = IF @ < LostAfter THEN @ + 1 ELSE @]
      \/ SetMe(Failed(me)) /\ losses' = losses
  BY DEF Check
<1> QED
  BY <1>0, <1>1, <1>2, <1>3, <1>4, <1>5

(* A call of the API may register a device it did not know (POST /reg).    *)
Registers(d) == d \in Devices /\ keys[d] = Absent /\ keys' = [keys EXCEPT ![d] = 0]

(* POST /reg (register): the slot has the new device, or what it had.      *)
LEMMA RegisterFacts ==
  ASSUME TypeInv, AnswerInv, Register
  PROVE  /\ pc = "post" /\ tried' = [tried EXCEPT ![cur] = 0]
         /\ UNCHANGED <<losses, disk, out>>
         /\ \/ /\ pc' = "post-save" /\ UNCHANGED <<cur, lines>>
               /\ \E r : Sets(r) /\ r.at = me.at /\ Registers(r.dev)
            \/ /\ UNCHANGED rec /\ (keys' = keys \/ \E d : Registers(d))
               /\ SlotDone(NoLine) \/ UNCHANGED <<pc, cur, lines>>
<1>0. me \in Records /\ OfItsKey(me)
  BY DEF TypeInv, AnswerInv, me
<1>1. pc = "post" /\ tried' = [tried EXCEPT ![cur] = 0] /\ UNCHANGED <<losses, disk, out>>
  BY DEF Register
<1>2. ASSUME NEW d \in Devices, FirstFree(d), Executed(d)
      PROVE  Registers(d)
  BY <1>2 DEF FirstFree, Executed, Registers
<1>3. ASSUME NEW d \in Devices, NEW p \in {0, Unusable}, FirstFree(d), Executed(d),
             SetMe([dev |-> d, key |-> 0, prof |-> p, lost |-> 0, at |-> me.at])
      PROVE  \E r : Sets(r) /\ r.at = me.at /\ Registers(r.dev)
  <2> DEFINE r == [dev |-> d, key |-> 0, prof |-> p, lost |-> 0, at |-> me.at]
  <2>1. r \in Records /\ r.at = me.at /\ r.dev = d
    BY <1>0, WarpFacts DEF Records, Unusable
  <2>2. OfItsKey(r)
    BY DEF OfItsKey
  <2>3. Sets(r)
    BY <1>3, <2>1, <2>2 DEF Sets, SetMe
  <2> QED
    BY <1>2, <1>3, <2>1, <2>3
<1>4. MayExecute => keys' = keys \/ \E d : Registers(d)
  BY <1>2 DEF MayExecute
<1>5. CASE /\ pc' = "post-save" /\ UNCHANGED <<cur, lines>>
           /\ \E d \in Devices, p \in {0, Unusable} :
                /\ FirstFree(d) /\ Executed(d)
                /\ SetMe([dev |-> d, key |-> 0, prof |-> p, lost |-> 0, at |-> me.at])
  BY <1>1, <1>3, <1>5
<1>6. CASE MayExecute /\ UNCHANGED rec /\ (SlotDone(NoLine) \/ UNCHANGED <<pc, cur, lines>>)
  BY <1>1, <1>4, <1>6
<1> QED
  BY <1>5, <1>6 DEF Register, Retried

(* PATCH /reg/{id} (rotate, enroll): the device and its attempt stay.      *)
LEMMA RotateFacts ==
  ASSUME TypeInv, AnswerInv, RotateKey
  PROVE  /\ pc \in {"device", "registered"} /\ me.dev \in Devices
         /\ UNCHANGED <<losses, tried, disk, out, cur, lines>>
         /\ keys' = keys \/ keys' = [keys EXCEPT ![me.dev] = @ + 1]
         /\ \/ pc' = "line" /\ UNCHANGED rec
            \/ pc' = "key-save" /\ \E r : Sets(r) /\ r.at = me.at /\ r.dev = me.dev
<1>0. me \in Records /\ OfItsKey(me) /\ me.dev \in Devices
  <2>1. me \in Records /\ OfItsKey(me)
    BY DEF TypeInv, AnswerInv, me
  <2> QED
    BY <2>1 DEF RotateKey, KeyStep, Records
<1>1. /\ pc \in {"device", "registered"}
      /\ UNCHANGED <<losses, tried, disk, out, cur, lines>>
      /\ keys' = keys \/ keys' = [keys EXCEPT ![me.dev] = @ + 1]
  BY DEF RotateKey, KeyStep
<1>2. \/ pc' = "line" /\ UNCHANGED rec
      \/ /\ pc' = "key-save" /\ keys' = [keys EXCEPT ![me.dev] = @ + 1]
         /\ \E p \in {keys'[me.dev], Unusable} : SetMe([me EXCEPT !.key = keys'[me.dev], !.prof = p])
  BY DEF RotateKey
<1>3. ASSUME keys' = [keys EXCEPT ![me.dev] = @ + 1], NEW p \in {keys'[me.dev], Unusable},
             SetMe([me EXCEPT !.key = keys'[me.dev], !.prof = p])
      PROVE  \E r : Sets(r) /\ r.at = me.at /\ r.dev = me.dev
  <2> DEFINE k == keys'[me.dev]
             r == [me EXCEPT !.key = k, !.prof = p]
  <2>1. k \in Int
    BY <1>0, <1>3 DEF TypeInv
  <2>2. r \in Records /\ OfItsKey(r)
    BY <1>0, <1>3, <2>1, AnswerTypes
  <2>3. r.at = me.at /\ r.dev = me.dev
    BY <1>0 DEF Records
  <2> QED
    BY <1>3, <2>2, <2>3 DEF Sets, SetMe
<1> QED
  BY <1>0, <1>1, <1>2, <1>3

-----------------------------------------------------------------------------
(* Every line belongs to one answer.                                       *)

(* RegisterBegin: the slot notes its attempt.                              *)
LEMMA AttemptFacts ==
  ASSUME TypeInv, AnswerInv, RegisterBegin
  PROVE  /\ pc \in {"slot", "device"} /\ pc' = "attempt-save" /\ me.dev = 0
         /\ me.at = Never \/ me.at >= Interval
         /\ UNCHANGED <<keys, losses, tried, disk, out, cur, lines>>
         /\ \E r : Sets(r) /\ r.at = 0 /\ r.dev = 0
<1>0. me \in Records /\ OfItsKey(me)
  BY DEF TypeInv, AnswerInv, me
<1>1. [me EXCEPT !.at = 0] \in Records /\ OfItsKey([me EXCEPT !.at = 0])
  BY <1>0, WarpFacts DEF Records, OfItsKey
<1>2. me.dev = 0
  BY DEF RegisterBegin, Unregistered
<1>3. Sets([me EXCEPT !.at = 0]) /\ [me EXCEPT !.at = 0].at = 0 /\ [me EXCEPT !.at = 0].dev = 0
  BY <1>0, <1>1, <1>2 DEF RegisterBegin, NoteAttempt, Sets, SetMe, Records
<1> QED
  BY <1>2, <1>3 DEF RegisterBegin, Unregistered, NoteAttempt, apiVars

(* The time between two ticks.                                             *)
LEMMA OlderType ==
  ASSUME NEW a \in Ages
  PROVE  /\ Older(a) \in Ages /\ (Older(a) = Never <=> a = Never)
         /\ \A b \in Ages : a # Never /\ a <= b => Older(a) <= Older(b)
  BY WarpAssumption DEF Ages, Older, Never

(* A record that is replaced by a good one leaves the others as they are.  *)
LEMMA SetsKeeps ==
  ASSUME TypeInv, AnswerInv, NEW r, Sets(r)
  PROVE  /\ rec' \in [Slots -> Records] /\ \A s \in Slots : OfItsKey(rec'[s])
         /\ \A s \in Slots : rec'[s] = IF s = cur THEN r ELSE rec[s]
  BY DEF TypeInv, AnswerInv, Sets

(* Every step of the provider keeps the types, and every record and line   *)
(* to one key.                                                             *)
LEMMA AnswerStep ==
  ASSUME TypeInv, AnswerInv, [Next]_vars
  PROVE  TypeInv' /\ AnswerInv'
<1> USE DEF apiVars, tickVars
<1>a. OneKey(NoLine) /\ NoLines = [s \in Slots |-> NoLines[s]] /\ \A s \in Slots : OneKey(NoLines[s])
  BY DEF OneKey, NoLines
<1>b. \A s \in Slots : OfItsKey(NoRecord[s])
  BY NoDeviceType DEF NoRecord
<1>c. ASSUME UNCHANGED <<keys, losses, tried>>, disk' \in {disk, rec}, rec' \in {rec, disk, NoRecord},
             cur' \in Slots, lines' \in {lines, NoLines}, out' \in {out, lines}
      PROVE  TypeInv' /\ AnswerInv'
  <2>1. TypeInv'
    BY <1>a, <1>c, NoDeviceType DEF TypeInv
  <2>2. \A s \in Slots : OfItsKey(disk'[s]) /\ OfItsKey(rec'[s])
    BY <1>b, <1>c DEF AnswerInv
  <2>3. \A s \in Slots : OneKey(lines'[s]) /\ OneKey(out'[s])
    BY <1>a, <1>c DEF AnswerInv
  <2> QED
    BY <2>1, <2>2, <2>3 DEF AnswerInv, OfItsKey, OneKey
<1>d. ASSUME NEW l, OneKey(l), SlotDone(l), UNCHANGED <<keys, losses, rec, out>>,
             tried' \in [Slots -> Ages], disk' \in {disk, rec}
      PROVE  TypeInv' /\ AnswerInv'
  <2>1. cur' \in Slots /\ lines' = [s \in Slots |-> lines'[s]] /\ \A s \in Slots : lines'[s] \in {l, lines[s]}
    BY <1>d, SlotDoneType
  <2>2. TypeInv'
    BY <1>d, <2>1 DEF TypeInv
  <2>3. \A s \in Slots : OneKey(lines'[s]) /\ OneKey(out'[s]) /\ OfItsKey(disk'[s]) /\ OfItsKey(rec'[s])
    BY <1>d, <2>1 DEF AnswerInv
  <2> QED
    BY <2>2, <2>3 DEF AnswerInv, OfItsKey, OneKey
<1>e. ASSUME NEW r, Sets(r), UNCHANGED <<disk, out, cur, lines>>, keys' \in [Devices -> Int],
             losses' \in [Devices -> Nat], tried' \in [Slots -> Ages]
      PROVE  TypeInv' /\ AnswerInv'
  <2>1. rec' \in [Slots -> Records] /\ \A s \in Slots : OfItsKey(rec'[s])
    BY <1>e, SetsKeeps
  <2>2. TypeInv'
    BY <1>e, <2>1 DEF TypeInv
  <2> QED
    BY <1>e, <2>1, <2>2 DEF AnswerInv, OfItsKey, OneKey
<1>1. CASE TickStart
  <2>1. /\ UNCHANGED <<keys, losses, tried, disk, lines, out>> /\ rec' \in {rec, disk} /\ cur' \in {1, cur}
    BY <1>1 DEF TickStart, Load
  <2> QED
    BY <1>c, <2>1, WarpFacts DEF TypeInv
<1>2. CASE Check
  <2>1. PICK r : /\ Sets(r)
                 /\ \/ losses' = [losses EXCEPT ![me.dev] = 0]
                    \/ losses' = losses
                    \/ losses' = [losses EXCEPT ![me.dev] = IF @ < LostAfter THEN @ + 1 ELSE @]
    BY <1>2, CheckFacts
  <2>2. losses' \in [Devices -> Nat]
    BY <2>1 DEF TypeInv
  <2>3. UNCHANGED <<keys, tried, disk, out, cur, lines>>
    BY <1>2, CheckFacts
  <2> QED
    BY <1>e, <2>1, <2>2, <2>3 DEF TypeInv
<1>3. ASSUME NEW next, SaveThen(next)
      PROVE  TypeInv' /\ AnswerInv'
  <2>1. /\ disk' \in {disk, rec} /\ UNCHANGED <<keys, losses, tried, out, rec>>
        /\ UNCHANGED <<cur, lines>> \/ SlotDone(NoLine)
    BY <1>3, SaveType
  <2> QED
    BY <1>a, <1>c, <1>d, <2>1 DEF TypeInv
<1>4. CASE RegisterLater
  <2>1. SlotDone(NoLine) /\ UNCHANGED <<keys, losses, tried, rec, out, disk>>
    BY <1>4 DEF RegisterLater
  <2> QED
    BY <1>a, <1>d, <2>1 DEF TypeInv
<1>5. CASE RegisterBegin
  <2>1. (\E r : Sets(r)) /\ UNCHANGED <<keys, losses, tried, disk, out, cur, lines>>
    BY <1>5, AttemptFacts
  <2> QED
    BY <1>e, <2>1 DEF TypeInv
<1>6. CASE Register
  <2>1. /\ tried' = [tried EXCEPT ![cur] = 0] /\ UNCHANGED <<losses, disk, out>>
        /\ keys' = keys \/ \E d : Registers(d)
        /\ \/ (\E r : Sets(r)) /\ UNCHANGED <<cur, lines>>
           \/ UNCHANGED rec /\ (SlotDone(NoLine) \/ UNCHANGED <<cur, lines>>)
    BY <1>6, RegisterFacts
  <2>2. keys' \in [Devices -> Int] /\ tried' \in [Slots -> Ages]
    BY <2>1, WarpFacts DEF Registers, TypeInv
  <2>3. CASE (\E r : Sets(r)) /\ UNCHANGED <<cur, lines>>
    BY <1>e, <2>1, <2>2, <2>3 DEF TypeInv
  <2>4. CASE UNCHANGED rec /\ (SlotDone(NoLine) \/ UNCHANGED <<cur, lines>>)
    <3>1. cur' \in Slots /\ lines' = [s \in Slots |-> lines'[s]] /\ \A s \in Slots : lines'[s] \in {NoLine, lines[s]}
      BY <2>4, SlotDoneType DEF TypeInv
    <3>2. TypeInv'
      BY <2>1, <2>2, <2>4, <3>1 DEF TypeInv
    <3>3. \A s \in Slots : OneKey(lines'[s]) /\ OneKey(out'[s]) /\ OfItsKey(disk'[s]) /\ OfItsKey(rec'[s])
      BY <1>a, <2>1, <2>4, <3>1 DEF AnswerInv
    <3> QED
      BY <3>2, <3>3 DEF AnswerInv, OfItsKey, OneKey
  <2> QED
    BY <2>1, <2>3, <2>4
<1>7. CASE RotateKey
  <2>1. /\ UNCHANGED <<losses, tried, disk, out, cur, lines>> /\ (UNCHANGED rec \/ \E r : Sets(r))
        /\ keys' = keys \/ keys' = [keys EXCEPT ![me.dev] = @ + 1]
    BY <1>7, RotateFacts
  <2>2. keys' \in [Devices -> Int]
    BY <1>7, <2>1, RotateFacts DEF TypeInv
  <2>3. CASE UNCHANGED rec
    BY <2>1, <2>2, <2>3 DEF TypeInv, AnswerInv, OfItsKey, OneKey
  <2> QED
    BY <1>e, <2>1, <2>2, <2>3 DEF TypeInv
<1>8. CASE MakeLine
  <2>1. SlotDone(Lines(me)) /\ UNCHANGED <<keys, losses, tried, rec, out, disk>>
    BY <1>8 DEF MakeLine
  <2>2. OneKey(Lines(me))
    BY DEF TypeInv, AnswerInv, me, OneKey, Lines, LineOf, OfItsKey
  <2> QED
    BY <1>d, <2>1, <2>2 DEF TypeInv
<1>9. CASE Publish
  <2>1. /\ UNCHANGED <<keys, losses, tried, disk>> /\ rec' = NoRecord /\ cur' = 1 /\ lines' = NoLines
        /\ out' \in {out, lines}
    BY <1>9 DEF Publish, PublishLines, AfterWrite
  <2> QED
    BY <1>c, <2>1, WarpFacts
<1>10. CASE Crash
  <2>1. /\ UNCHANGED <<keys, losses, tried, disk, out>> /\ rec' = NoRecord /\ cur' = 1 /\ lines' = NoLines
    BY <1>10 DEF Crash
  <2> QED
    BY <1>c, <2>1, WarpFacts
<1>11. CASE Advance
  <2>1. /\ disk' = [s \in Slots |-> [disk[s] EXCEPT !.at = Older(@)]]
        /\ tried' = [s \in Slots |-> Older(tried[s])] /\ UNCHANGED <<keys, losses, out, cur, rec, lines>>
    BY <1>11 DEF Advance
  <2>2. ASSUME NEW s \in Slots
        PROVE  disk'[s] \in Records /\ OfItsKey(disk'[s]) /\ tried'[s] \in Ages
    <3>1. disk[s] \in Records /\ disk[s].at \in Ages /\ tried[s] \in Ages /\ OfItsKey(disk[s])
      BY DEF TypeInv, Records, AnswerInv
    <3>2. Older(disk[s].at) \in Ages /\ Older(tried[s]) \in Ages
      BY <3>1, OlderType
    <3> QED
      BY <2>1, <3>1, <3>2 DEF Records, OfItsKey
  <2>3. TypeInv'
    BY <2>1, <2>2 DEF TypeInv
  <2> QED
    BY <2>1, <2>2, <2>3 DEF AnswerInv, OfItsKey, OneKey
<1>12. CASE Remove \/ UNCHANGED vars
  <2>1. UNCHANGED <<keys, losses, tried, disk, out, rec, cur, lines>>
    BY <1>12 DEF Remove, vars
  <2> QED
    BY <1>c, <2>1 DEF TypeInv
<1> QED
  BY <1>1, <1>2, <1>3, <1>4, <1>5, <1>6, <1>7, <1>8, <1>9, <1>10, <1>11, <1>12
     DEF Next, TickStep, Tick, Time, CheckSave, AttemptSave, RegisterSave, KeySave

(* The types and the records hold when the provider starts.                *)
LEMMA AnswerInit == Init => TypeInv /\ AnswerInv
<1> SUFFICES ASSUME Init PROVE TypeInv /\ AnswerInv
  OBVIOUS
<1>1. TypeInv
  BY NoDeviceType, WarpFacts DEF Init, TypeInv, Absent, NoLines
<1> QED
  BY <1>1, NoDeviceType DEF Init, AnswerInv, NoRecord, NoLines, OneKey

(* README.md:1467-1470: the API values of a published line belong to its   *)
(* key, whatever key the answers of checks, registrations and key changes  *)
(* show, and whatever crashes and failed saves lie between them.           *)
THEOREM LinesOfOneAnswer == Spec => []LineOfOneAnswer
<1>1. TypeInv /\ AnswerInv /\ [Next]_vars => (TypeInv /\ AnswerInv)'
  BY AnswerStep
<1>2. AnswerInv => LineOfOneAnswer
  BY DEF AnswerInv, OneKey, LineOfOneAnswer
<1> QED
  BY <1>1, <1>2, AnswerInit, PTL DEF Spec

-----------------------------------------------------------------------------
(* The pace of the registrations.                                          *)

(* Every step keeps the recorded attempts at least as young as the last    *)
(* request of their slot.                                                  *)
LEMMA PaceStep ==
  ASSUME TypeInv, AnswerInv, PaceInv, [Next]_vars
  PROVE  PaceInv'
<1> USE DEF apiVars, tickVars
<1>a. ASSUME UNCHANGED tried, \A s \in Slots : disk'[s].at = disk[s].at \/ (pc # "idle" /\ disk'[s].at = rec[s].at),
             pc' \notin {"attempt-save", "post"},
             pc' # "idle" => \A s \in Slots : rec'[s].at = disk[s].at \/ (pc # "idle" /\ rec'[s].at = rec[s].at)
      PROVE  PaceInv'
  BY <1>a DEF PaceInv, Covers
<1>b. ASSUME UNCHANGED <<tried, rec>>, disk' \in {disk, rec}, pc # "idle", pc' \notin {"attempt-save", "post"}
      PROVE  PaceInv'
  BY <1>a, <1>b
<1>c. ASSUME NEW r, Sets(r), r.at = me.at, UNCHANGED <<tried, disk>>, pc # "idle", pc' \notin {"attempt-save", "post"}
      PROVE  PaceInv'
  <2>1. \A s \in Slots : rec'[s].at = rec[s].at
    BY <1>c, SetsKeeps DEF me
  <2> QED
    BY <1>a, <1>c, <2>1
<1>1. CASE TickStart
  <2>1. /\ UNCHANGED <<tried, disk>> /\ pc' \in {"slot", "idle"}
        /\ pc' = "slot" => rec' = disk
    BY <1>1 DEF TickStart, Load
  <2> QED
    BY <1>a, <2>1
<1>2. CASE Check
  <2>1. /\ pc = "slot" /\ pc' = "check-save" /\ UNCHANGED <<tried, disk>>
        /\ \E r : Sets(r) /\ r.at = me.at
    BY <1>2, CheckFacts
  <2> QED
    BY <1>c, <2>1
<1>3. CASE CheckSave \/ RegisterSave \/ KeySave
  <2>1. PICK next \in {"device", "registered", "line"} : SaveThen(next) /\ pc # "idle"
    BY <1>3 DEF CheckSave, RegisterSave, KeySave
  <2>2. disk' \in {disk, rec} /\ UNCHANGED <<tried, rec>> /\ (pc' = next \/ SlotDone(NoLine))
    BY <2>1, SaveType
  <2>3. pc' \notin {"attempt-save", "post"}
    BY <2>2, SlotDoneType
  <2> QED
    BY <1>b, <2>1, <2>2, <2>3
<1>4. CASE RegisterLater \/ MakeLine
  <2>1. /\ UNCHANGED <<tried, rec, disk>> /\ pc # "idle" /\ \E l : SlotDone(l)
    BY <1>4 DEF RegisterLater, MakeLine, Unregistered, KeyStep
  <2>2. pc' \notin {"attempt-save", "post"}
    BY <2>1, SlotDoneType
  <2> QED
    BY <1>b, <2>1, <2>2
<1>5. CASE RegisterBegin
  <2>1. /\ pc # "idle" /\ pc' = "attempt-save" /\ UNCHANGED <<tried, disk, cur>>
        /\ me.at = Never \/ me.at >= Interval
    BY <1>5, AttemptFacts
  <2>2. PICK r : Sets(r) /\ r.at = 0
    BY <1>5, AttemptFacts
  <2>3. \A s \in Slots : rec'[s] = IF s = cur THEN r ELSE rec[s]
    BY <2>2, SetsKeeps
  <2>4. cur \in Slots /\ tried[cur] \in Ages /\ rec[cur].at \in Ages
    BY DEF TypeInv, Records
  <2>5. tried[cur] # Never => tried[cur] >= 0
    BY <2>4 DEF Ages, Never
  <2>6. Covers(rec[cur], cur)
    BY <2>1, <2>4 DEF PaceInv
  <2>7. tried[cur] \in {Never, Interval}
    BY <2>1, <2>4, <2>6, WarpFacts DEF Covers, me, Ages, Never
  <2>8. \A s \in Slots : Covers(disk[s], s)' /\ Covers(rec[s], s)'
    BY <2>1, <2>2, <2>3, <2>5, WarpFacts DEF PaceInv, Covers
  <2>9. (me.at = 0)'
    BY <2>1, <2>2, <2>3, <2>4 DEF me
  <2> QED
    BY <2>1, <2>7, <2>8, <2>9 DEF PaceInv
<1>6. CASE AttemptSave
  <2>1. SaveThen("post") /\ pc = "attempt-save"
    BY <1>6 DEF AttemptSave
  <2>2. UNCHANGED <<tried, rec>> /\ disk' \in {disk, rec}
    BY <2>1, SaveType
  <2>3. CASE disk' = rec /\ pc' = "post" /\ UNCHANGED cur
    BY <2>1, <2>2, <2>3 DEF PaceInv, Covers, me
  <2>4. CASE SlotDone(NoLine)
    <3>1. pc' \notin {"attempt-save", "post"}
      BY <2>4, SlotDoneType
    <3> QED
      BY <1>b, <2>1, <2>2, <3>1
  <2> QED
    BY <2>1, <2>3, <2>4, SaveType
<1>7. CASE Register
  <2>1. pc = "post" /\ tried' = [tried EXCEPT ![cur] = 0] /\ UNCHANGED disk /\ cur \in Slots
    BY <1>7, RegisterFacts DEF TypeInv
  <2>2. tried \in [Slots -> Ages] /\ 0 # Never
    BY WarpFacts DEF TypeInv, Never
  <2>3. me.at = 0 /\ disk[cur].at = 0
    BY <2>1 DEF PaceInv
  <2>4. \A s \in Slots : Covers(disk[s], s) /\ Covers(rec[s], s)
    BY <2>1 DEF PaceInv
  <2>5. \A s \in Slots : rec'[s].at = rec[s].at
    <3>1. UNCHANGED rec \/ \E r : Sets(r) /\ r.at = me.at
      BY <1>7, RegisterFacts
    <3> QED
      BY <3>1, SetsKeeps DEF me
  <2>6. \A s \in Slots : Covers(disk[s], s)' /\ Covers(rec[s], s)'
    BY <2>1, <2>2, <2>3, <2>4, <2>5 DEF Covers, me
  <2>7. pc' = "post-save" \/ SlotDone(NoLine) \/ (pc' = "post" /\ UNCHANGED <<cur, rec>>)
    BY <1>7, <2>1, RegisterFacts
  <2>8. pc' # "attempt-save" /\ (pc' = "post" => UNCHANGED <<cur, rec>>)
    BY <2>7, SlotDoneType
  <2> QED
    BY <2>1, <2>3, <2>6, <2>8 DEF PaceInv, me
<1>8. CASE RotateKey
  <2>1. /\ pc # "idle" /\ pc' \notin {"attempt-save", "post"} /\ UNCHANGED <<tried, disk>>
        /\ UNCHANGED rec \/ \E r : Sets(r) /\ r.at = me.at
    BY <1>8, RotateFacts
  <2> QED
    BY <1>b, <1>c, <2>1
<1>9. CASE Publish \/ Crash
  BY <1>a, <1>9 DEF Publish, Crash
<1>10. CASE Advance
  <2>1. /\ disk' = [s \in Slots |-> [disk[s] EXCEPT !.at = Older(@)]]
        /\ tried' = [s \in Slots |-> Older(tried[s])] /\ pc' = "idle"
    BY <1>10 DEF Advance
  <2>2. ASSUME NEW s \in Slots
        PROVE  Covers(disk[s], s)'
    <3>1. disk[s] \in Records /\ disk[s].at \in Ages /\ tried[s] \in Ages
      BY DEF TypeInv, Records
    <3>2. disk'[s].at = Older(disk[s].at) /\ tried'[s] = Older(tried[s])
      BY <2>1, <3>1 DEF Records
    <3>3. Covers(disk[s], s)
      BY DEF PaceInv
    <3> QED
      BY <3>1, <3>2, <3>3, OlderType DEF Covers
  <2> QED
    BY <2>1, <2>2 DEF PaceInv
<1>11. CASE Remove \/ UNCHANGED vars
  <2>1. UNCHANGED <<tried, disk, rec, pc, cur>>
    BY <1>11 DEF Remove, vars
  <2> QED
    BY <2>1 DEF PaceInv, Covers, me
<1> QED
  BY <1>1, <1>2, <1>3, <1>4, <1>5, <1>6, <1>7, <1>8, <1>9, <1>10, <1>11 DEF Next, TickStep, Tick, Time

(* README.md:1455-1459, RegisterAttemptAt: a slot never sends POST /reg    *)
(* earlier than the interval after its last one, failed ones included,     *)
(* whatever crashes, saves fail or answers are lost.                       *)
THEOREM RegistrationsPaced == Spec => RegisterPaced
<1>1. Init => PaceInv
  BY DEF Init, PaceInv, Covers
<1>2. TypeInv /\ AnswerInv /\ PaceInv /\ [Next]_vars => (TypeInv /\ AnswerInv /\ PaceInv)'
  BY AnswerStep, PaceStep
<1>3. TypeInv /\ AnswerInv /\ PaceInv /\ [Next]_vars
      => [pc # "post" /\ pc' = "post" => tried[cur] \in {Never, Interval}]_vars
  <2> SUFFICES ASSUME TypeInv, AnswerInv, PaceInv, Next, pc # "post", pc' = "post"
               PROVE  tried[cur] \in {Never, Interval}
    OBVIOUS
  <2>1. pc = "attempt-save"
    <3> USE DEF apiVars, tickVars
    <3>1. ASSUME NEW l PROVE ~SlotDone(l)
      BY SlotDoneType
    <3>2. ~(TickStart \/ Publish \/ Crash \/ Remove \/ Advance)
      BY DEF TickStart, Publish, Crash, Remove, Advance
    <3>3. ~(Check \/ RegisterBegin \/ Register \/ RotateKey)
      BY CheckFacts, AttemptFacts, RegisterFacts, RotateFacts
    <3>4. ~(RegisterLater \/ MakeLine)
      BY <3>1 DEF RegisterLater, MakeLine
    <3>5. ~(CheckSave \/ RegisterSave \/ KeySave)
      BY <3>1, SaveType DEF CheckSave, RegisterSave, KeySave
    <3>6. AttemptSave
      BY <3>2, <3>3, <3>4, <3>5 DEF Next, TickStep, Tick, Time
    <3> QED
      BY <3>6 DEF AttemptSave
  <2> QED
    BY <2>1 DEF PaceInv
<1> QED
  BY <1>1, <1>2, <1>3, AnswerInit, PTL DEF Spec, RegisterPaced

-----------------------------------------------------------------------------
(* When the candidate file may become empty.                               *)

(* A save writes what the tick has, or leaves what was there.              *)
LEMMA SaveKeepsFile ==
  ASSUME TypeInv, FileInv, NEW next \in {"device", "registered", "line", "post"}, SaveThen(next),
         pc # "idle", pc # "publish", next = "post" => pc = "attempt-save",
         next = "line" => pc = "key-save"
  PROVE  FileInv'
<1>1. disk' \in {disk, rec} /\ UNCHANGED <<keys, losses, out, rec>> /\ cur \in Slots
  BY SaveType DEF apiVars, TypeInv
<1>2. \/ disk' = rec /\ pc' = next /\ UNCHANGED <<cur, lines>>
      \/ /\ pc' \in {"publish", "slot"} /\ cur' \in Slots
         /\ \A s \in Slots : lines'[s] = IF s = cur THEN NoLine ELSE lines[s]
         /\ (cur' = cur /\ pc' = "publish") \/ (cur' = cur + 1 /\ pc' = "slot")
  BY SaveType, SlotDoneType
<1>3. \A s \in Slots : s > cur' \/ (s = cur' /\ pc' = "slot") => s > cur
  BY <1>1, <1>2, WarpFacts
<1>4. Untouched'
  BY <1>1, <1>2, <1>3 DEF FileInv, Untouched
<1>5. SavedLines'
  <2>1. \A s \in Slots : lines'[s] # NoLine => rec'[s] = disk'[s] /\ lines'[s][1] = rec'[s].dev /\ rec'[s].dev # 0
    BY <1>1, <1>2 DEF FileInv, SavedLines
  <2>2. \A s \in Slots : s > cur' \/ (s = cur' /\ pc' # "publish") => lines'[s] = NoLine
    BY <1>1, <1>2, WarpFacts DEF FileInv, SavedLines
  <2> QED
    BY <1>1, <1>2, <2>1, <2>2 DEF SavedLines
<1>6. Occupied'
  BY <1>1, <1>2 DEF FileInv, Occupied, me
<1>7. Owned'
  <2>1. \A s \in Slots : \A d \in Devices : Owns(s, d)' => Owns(s, d)
    BY <1>1 DEF Owns
  <2> QED
    BY <1>1, <2>1 DEF FileInv, Owned
<1>8. \A s \in Slots : Kept(s)'
  BY <1>1 DEF FileInv, Kept
<1> QED
  BY <1>4, <1>5, <1>6, <1>7, <1>8 DEF FileInv

(* A line is published for the device of a saved record.                   *)
LEMMA DoneKeepsFile ==
  ASSUME TypeInv, FileInv, NEW l, SlotDone(l), UNCHANGED <<losses, disk, out, rec>>,
         \A d \in Devices : keys[d] \in Nat => keys'[d] \in Nat, pc # "idle", pc # "publish",
         l # NoLine => rec[cur] = disk[cur] /\ l[1] = rec[cur].dev /\ rec[cur].dev # 0
  PROVE  FileInv'
<1>1. /\ cur \in Slots /\ pc' \in {"publish", "slot"} /\ cur' \in Slots
      /\ \A s \in Slots : lines'[s] = IF s = cur THEN l ELSE lines[s]
      /\ (cur' = cur /\ pc' = "publish") \/ (cur' = cur + 1 /\ pc' = "slot")
  BY SlotDoneType DEF TypeInv
<1>2. Untouched'
  BY <1>1, WarpFacts DEF FileInv, Untouched
<1>3. SavedLines'
  <2>1. \A s \in Slots : lines'[s] # NoLine => rec'[s] = disk'[s] /\ lines'[s][1] = rec'[s].dev /\ rec'[s].dev # 0
    BY <1>1 DEF FileInv, SavedLines
  <2>2. \A s \in Slots : s > cur' \/ (s = cur' /\ pc' # "publish") => lines'[s] = NoLine
    BY <1>1, WarpFacts DEF FileInv, SavedLines
  <2> QED
    BY <1>1, <2>1, <2>2 DEF SavedLines
<1>4. Owned'
  <2>1. \A s \in Slots : \A d \in Devices : Owns(s, d)' => Owns(s, d)
    BY DEF Owns
  <2> QED
    BY <2>1 DEF FileInv, Owned
<1>5. \A s \in Slots : Kept(s)'
  BY DEF FileInv, Kept
<1> QED
  BY <1>1, <1>2, <1>3, <1>4, <1>5 DEF FileInv, Occupied

(* A new record of the slot, before its save.                              *)
LEMMA SetsKeepsFile ==
  ASSUME TypeInv, AnswerInv, FileInv, NEW r, Sets(r), UNCHANGED <<disk, out, cur, lines>>,
         pc \notin {"idle", "publish"}, pc' \in {"check-save", "attempt-save", "post-save", "key-save"},
         pc' = "attempt-save" => r.dev = 0, pc' = "key-save" => r.dev # 0,
         \A d \in Devices : keys[d] \in Nat => keys'[d] \in Nat,
         r.dev \in {rec[cur].dev, 0} \/ Registers(r.dev),
         \A s \in Slots : Kept(s)'
  PROVE  FileInv'
<1>0. cur \in Slots /\ \A s \in Slots : rec'[s] = IF s = cur THEN r ELSE rec[s]
  BY SetsKeeps DEF TypeInv
<1>1. Untouched'
  BY <1>0, WarpFacts DEF FileInv, Untouched
<1>2. SavedLines'
  BY <1>0 DEF FileInv, SavedLines
<1>3. Occupied'
  BY <1>0 DEF Occupied, me
<1>4. Owned'
  <2>1. CASE r.dev \in {rec[cur].dev, 0}
    <3>1. \A s \in Slots : \A d \in Devices : Owns(s, d)' => Owns(s, d)
      BY <1>0, <2>1 DEF Owns
    <3> QED
      BY <3>1 DEF FileInv, Owned
  <2>2. CASE Registers(r.dev)
    <3>1. keys[r.dev] \notin Nat /\ keys'[r.dev] \in Nat
      BY <2>2 DEF Registers, Absent, TypeInv
    <3>2. \A s \in Slots : ~Owns(s, r.dev)
      BY <2>2, <3>1 DEF FileInv, Owned, Registers
    <3>3. \A s \in Slots : \A d \in Devices : Owns(s, d)' => Owns(s, d) \/ (s = cur /\ d = r.dev)
      BY <1>0 DEF Owns
    <3> QED
      BY <3>1, <3>2, <3>3 DEF FileInv, Owned
  <2> QED
    BY <2>1, <2>2
<1> QED
  BY <1>1, <1>2, <1>3, <1>4 DEF FileInv

(* GET /reg/{id}: losses are forgotten only for a device the slot keeps.   *)
LEMMA CheckKeepsFile ==
  ASSUME TypeInv, AnswerInv, FileInv, Check
  PROVE  FileInv'
<1>1. /\ pc = "slot" /\ pc' = "check-save" /\ me.dev \in Devices
      /\ UNCHANGED <<keys, tried, disk, out, cur, lines>>
  BY CheckFacts
<1>2. PICK r : /\ Sets(r)
               /\ \/ r.dev = me.dev /\ losses' = [losses EXCEPT ![me.dev] = 0]
                  \/ r.dev = me.dev /\ losses' = losses
                  \/ /\ r.dev \in {me.dev, 0}
                     /\ losses' = [losses EXCEPT ![me.dev] = IF @ < LostAfter THEN @ + 1 ELSE @]
  BY CheckFacts
<1>3. cur \in Slots /\ \A s \in Slots : rec'[s] = IF s = cur THEN r ELSE rec[s]
  BY <1>2, SetsKeeps DEF TypeInv
<1>4. rec[cur] = disk[cur]
  BY <1>1, <1>3 DEF FileInv, Untouched
<1>5. ASSUME NEW s \in Slots
      PROVE  Kept(s)'
  <2>1. SUFFICES ASSUME out[s] # NoLine
                 PROVE  /\ out[s][1] \in Devices
                        /\ disk[s].dev = out[s][1] \/ losses'[out[s][1]] > 0
                        /\ rec'[s].dev = out[s][1] \/ losses'[out[s][1]] > 0
    BY <1>1 DEF Kept
  <2> DEFINE d == out[s][1]
  <2>2. /\ d \in Devices /\ losses[d] \in Nat
        /\ disk[s].dev = d \/ losses[d] > 0
        /\ rec[s].dev = d \/ losses[d] > 0
    BY <1>1, <2>1 DEF FileInv, Kept, TypeInv
  <2>3. CASE d # me.dev
    <3>1. losses'[d] = losses[d]
      BY <1>1, <1>2, <2>2, <2>3 DEF TypeInv
    <3>2. s = cur => losses[d] > 0
      BY <2>2, <2>3 DEF me
    <3> QED
      BY <1>3, <2>2, <3>1, <3>2
  <2>4. CASE d = me.dev
    <3>1. s = cur
      <4>1. Owns(s, d) /\ Owns(cur, d)
        BY <1>3, <2>1, <2>2, <2>4, WarpFacts DEF Owns, me
      <4> QED
        BY <1>3, <2>2, <4>1 DEF FileInv, Owned
    <3>2. disk[s].dev = d
      BY <1>4, <2>4, <3>1 DEF me
    <3>3. r.dev = d \/ losses'[d] > 0
      BY <1>2, <2>2, <2>4, WarpFacts DEF TypeInv
    <3> QED
      BY <1>3, <2>2, <3>1, <3>2, <3>3
  <2> QED
    BY <2>3, <2>4
<1>6. r.dev \in {rec[cur].dev, 0}
  BY <1>2 DEF me
<1> QED
  BY <1>1, <1>2, <1>5, <1>6, SetsKeepsFile

(* Every step of the provider keeps the published devices on record.       *)
LEMMA FileStep ==
  ASSUME TypeInv, AnswerInv, FileInv, [Next]_vars
  PROVE  FileInv'
<1> USE DEF apiVars, tickVars
<1>a. ASSUME pc' = "idle", rec' = NoRecord, lines' = NoLines, UNCHANGED <<keys, losses, disk>>,
             out' = out \/ (pc # "idle" /\ out' = lines)
      PROVE  FileInv'
  <2>1. Untouched' /\ Occupied'
    BY <1>a DEF Untouched, Occupied
  <2>2. SavedLines'
    BY <1>a DEF SavedLines, NoLines
  <2>3. \A s \in Slots : NoRecord[s].dev = 0
    BY DEF NoRecord, NoDevice
  <2>4. \A s \in Slots : lines[s] # NoLine => lines[s][1] = disk[s].dev /\ disk[s].dev # 0 /\ disk[s].dev \in Devices
    BY DEF FileInv, SavedLines, TypeInv, Records
  <2>5. Owned'
    <3>1. \A s \in Slots : \A d \in Devices : Owns(s, d)' => Owns(s, d)
      BY <1>a, <2>3, <2>4 DEF Owns
    <3> QED
      BY <1>a, <3>1 DEF FileInv, Owned
  <2>6. \A s \in Slots : Kept(s)'
    BY <1>a, <2>4 DEF FileInv, Kept
  <2> QED
    BY <2>1, <2>2, <2>5, <2>6 DEF FileInv
<1>1. CASE TickStart
  <2>1. CASE UNCHANGED <<keys, losses, disk, out, pc, rec, lines, cur>>
    BY <2>1 DEF FileInv, Untouched, SavedLines, Occupied, Owned, Owns, Kept, me
  <2>2. CASE pc = "idle" /\ pc' = "slot" /\ rec' = disk /\ cur' = 1 /\ UNCHANGED <<keys, losses, disk, out, lines>>
    <3>1. lines = NoLines
      BY <2>2 DEF FileInv, SavedLines
    <3>2. Untouched' /\ Occupied'
      BY <2>2 DEF Untouched, Occupied
    <3>3. SavedLines'
      BY <2>2, <3>1 DEF SavedLines, NoLines
    <3>4. Owned'
      <4>1. \A s \in Slots : \A d \in Devices : Owns(s, d)' => Owns(s, d)
        BY <2>2 DEF Owns
      <4> QED
        BY <2>2, <4>1 DEF FileInv, Owned
    <3>5. \A s \in Slots : Kept(s)'
      BY <2>2 DEF FileInv, Kept
    <3> QED
      BY <3>2, <3>3, <3>4, <3>5 DEF FileInv
  <2> QED
    BY <1>1, <2>1, <2>2 DEF TickStart, Load
<1>2. CASE Check
  BY <1>2, CheckKeepsFile
<1>3. CASE CheckSave \/ AttemptSave \/ RegisterSave \/ KeySave
  BY <1>3, SaveKeepsFile DEF CheckSave, AttemptSave, RegisterSave, KeySave
<1>4. CASE RegisterLater
  <2>1. SlotDone(NoLine) /\ UNCHANGED <<keys, losses, disk, out, rec>> /\ pc # "idle" /\ pc # "publish"
    BY <1>4 DEF RegisterLater, Unregistered
  <2> QED
    BY <2>1, DoneKeepsFile
<1>5. CASE MakeLine
  <2>1. /\ SlotDone(Lines(me)) /\ UNCHANGED <<keys, losses, disk, out, rec>>
        /\ pc \in {"line", "device", "registered"}
    BY <1>5 DEF MakeLine, KeyStep
  <2>2. rec[cur] = disk[cur]
    BY <2>1 DEF FileInv, SavedLines
  <2>3. Lines(me) # NoLine => Lines(me)[1] = rec[cur].dev
    BY DEF Lines, LineOf, me
  <2>4. rec[cur].dev # 0
    BY <1>5 DEF MakeLine, KeyStep, FileInv, Occupied, me
  <2> QED
    BY <2>1, <2>2, <2>3, <2>4, DoneKeepsFile
<1>6. CASE RegisterBegin
  <2>1. PICK r : Sets(r) /\ r.dev = 0
    BY <1>6, AttemptFacts
  <2>2. /\ pc \in {"slot", "device"} /\ pc' = "attempt-save" /\ me.dev = 0
        /\ UNCHANGED <<keys, losses, disk, out, cur, lines>>
    BY <1>6, AttemptFacts
  <2>3. \A s \in Slots : rec'[s].dev = rec[s].dev
    BY <2>1, <2>2, SetsKeeps DEF me
  <2>4. \A s \in Slots : Kept(s)'
    BY <2>2, <2>3 DEF FileInv, Kept
  <2> QED
    BY <2>1, <2>2, <2>4, SetsKeepsFile
<1>7. CASE Register
  <2>1. pc = "post" /\ UNCHANGED <<losses, disk, out>> /\ me.dev = 0
    BY <1>7, RegisterFacts DEF FileInv, Occupied
  <2>2. ASSUME NEW d, Registers(d)
        PROVE  \A x \in Devices : keys[x] \in Nat => keys'[x] \in Nat
    BY <2>2 DEF Registers, TypeInv
  <2>3. ASSUME NEW r, Sets(r), Registers(r.dev), pc' = "post-save", UNCHANGED <<cur, lines>>
        PROVE  FileInv'
    <3>1. \A s \in Slots : rec'[s] = IF s = cur THEN r ELSE rec[s]
      BY <2>3, SetsKeeps
    <3>2. ASSUME NEW s \in Slots, out[s] # NoLine
          PROVE  /\ out[s][1] \in Devices
                 /\ disk[s].dev = out[s][1] \/ losses[out[s][1]] > 0
                 /\ rec'[s].dev = out[s][1] \/ losses[out[s][1]] > 0
      <4>1. /\ out[s][1] \in Devices
            /\ disk[s].dev = out[s][1] \/ losses[out[s][1]] > 0
            /\ rec[s].dev = out[s][1] \/ losses[out[s][1]] > 0
        BY <2>1, <3>2 DEF FileInv, Kept
      <4>2. s = cur => losses[out[s][1]] > 0
        BY <2>1, <4>1, WarpFacts DEF me
      <4> QED
        BY <3>1, <4>1, <4>2
    <3>3. \A s \in Slots : Kept(s)'
      BY <2>1, <3>2 DEF Kept
    <3>4. \A x \in Devices : keys[x] \in Nat => keys'[x] \in Nat
      BY <2>2, <2>3
    <3> QED
      BY <2>1, <2>3, <3>3, <3>4, SetsKeepsFile
  <2>4. ASSUME UNCHANGED rec, keys' = keys \/ \E d : Registers(d), SlotDone(NoLine) \/ UNCHANGED <<pc, cur, lines>>
        PROVE  FileInv'
    <3>1. \A x \in Devices : keys[x] \in Nat => keys'[x] \in Nat
      BY <2>2, <2>4
    <3>2. CASE SlotDone(NoLine)
      BY <2>1, <2>4, <3>1, <3>2, DoneKeepsFile
    <3>3. CASE UNCHANGED <<pc, cur, lines>>
      <4>1. \A s \in Slots : \A d \in Devices : Owns(s, d)' => Owns(s, d)
        BY <2>1, <2>4 DEF Owns
      <4>2. Owned'
        BY <3>1, <4>1 DEF FileInv, Owned
      <4> QED
        BY <2>1, <2>4, <3>3, <4>2 DEF FileInv, Untouched, SavedLines, Occupied, Kept, me
    <3> QED
      BY <2>4, <3>2, <3>3
  <2> QED
    BY <1>7, <2>3, <2>4, RegisterFacts
<1>8. CASE RotateKey
  <2>1. /\ pc \in {"device", "registered"} /\ me.dev \in Devices
        /\ UNCHANGED <<losses, disk, out, cur, lines>>
        /\ keys' = keys \/ keys' = [keys EXCEPT ![me.dev] = @ + 1]
    BY <1>8, RotateFacts
  <2>0. me.dev # 0
    BY <2>1, WarpFacts
  <2>2. \A x \in Devices : keys[x] \in Nat => keys'[x] \in Nat
    BY <2>1 DEF TypeInv
  <2>3. CASE pc' = "line" /\ UNCHANGED rec
    <3>1. \A s \in Slots : \A d \in Devices : Owns(s, d)' => Owns(s, d)
      BY <2>1, <2>3 DEF Owns
    <3>2. Owned'
      BY <2>2, <3>1 DEF FileInv, Owned
    <3> QED
      BY <2>0, <2>1, <2>3, <3>2 DEF FileInv, Untouched, SavedLines, Occupied, Kept, me
  <2>4. ASSUME NEW r, Sets(r), r.dev = me.dev, pc' = "key-save"
        PROVE  FileInv'
    <3>1. \A s \in Slots : rec'[s].dev = rec[s].dev
      BY <2>1, <2>4, SetsKeeps DEF me
    <3>2. \A s \in Slots : Kept(s)'
      BY <2>1, <2>4, <3>1 DEF FileInv, Kept
    <3>3. r.dev \in {rec[cur].dev, 0} /\ r.dev # 0
      BY <2>0, <2>4 DEF me
    <3> QED
      BY <2>1, <2>2, <2>4, <3>2, <3>3, SetsKeepsFile
  <2> QED
    BY <1>8, <2>3, <2>4, RotateFacts
<1>9. CASE Publish
  <2>1. out' = out \/ out' = lines
    BY <1>9 DEF Publish, PublishLines, AfterWrite
  <2> QED
    BY <1>a, <1>9, <2>1 DEF Publish
<1>10. CASE Crash
  BY <1>a, <1>10 DEF Crash
<1>11. CASE Advance
  <2>1. /\ disk' = [s \in Slots |-> [disk[s] EXCEPT !.at = Older(@)]] /\ pc = "idle"
        /\ UNCHANGED <<keys, losses, out, pc, rec, cur, lines>>
    BY <1>11 DEF Advance
  <2>2. \A s \in Slots : disk'[s].dev = disk[s].dev
    BY <2>1 DEF TypeInv, Records
  <2>3. lines = NoLines
    BY <2>1 DEF FileInv, SavedLines
  <2>4. Untouched' /\ Occupied'
    BY <2>1 DEF Untouched, Occupied
  <2>5. SavedLines'
    BY <2>1, <2>3 DEF FileInv, SavedLines, NoLines
  <2>6. \A s \in Slots : \A d \in Devices : Owns(s, d)' => Owns(s, d)
    BY <2>1, <2>2 DEF Owns
  <2>7. Owned' /\ \A s \in Slots : Kept(s)'
    BY <2>1, <2>2, <2>6 DEF FileInv, Owned, Kept
  <2> QED
    BY <2>4, <2>5, <2>7 DEF FileInv
<1>12. CASE Remove \/ UNCHANGED vars
  <2>1. UNCHANGED <<keys, losses, disk, out, pc, rec, lines, cur>>
    BY <1>12 DEF Remove, vars
  <2> QED
    BY <2>1 DEF FileInv, Untouched, SavedLines, Occupied, Owned, Owns, Kept, me
<1> QED
  BY <1>1, <1>2, <1>3, <1>4, <1>5, <1>6, <1>7, <1>8, <1>9, <1>10, <1>11, <1>12 DEF Next, TickStep, Tick, Time

(* README.md:1476: the candidate file becomes empty only when every        *)
(* published device was answered as lost, never through failed checks,     *)
(* failed saves, answers that make no line or crashes.                     *)
THEOREM FileEmptiedByLoss == Spec => EmptiedOnlyByLoss
<1>1. Init => FileInv
  BY DEF Init, FileInv, Untouched, SavedLines, Occupied, Owned, Owns, Kept, NoLines, NoRecord, NoDevice
<1>2. TypeInv /\ AnswerInv /\ FileInv /\ [Next]_vars => (TypeInv /\ AnswerInv /\ FileInv)'
  BY AnswerStep, FileStep
<1>3. TypeInv /\ AnswerInv /\ FileInv /\ [Next]_vars
      => [out # NoLines /\ out' = NoLines => \A s \in Slots : out[s] # NoLine => losses[out[s][1]] > 0]_vars
  <2> SUFFICES ASSUME TypeInv, AnswerInv, FileInv, Next, out # NoLines, out' = NoLines,
                      NEW s \in Slots, out[s] # NoLine
               PROVE  losses[out[s][1]] > 0
    OBVIOUS
  <2> USE DEF apiVars, tickVars
  <2>1. Publish
    <3>1. out' # out
      OBVIOUS
    <3>2. ~(Check \/ RegisterBegin \/ Register \/ RotateKey)
      BY <3>1, CheckFacts, AttemptFacts, RegisterFacts, RotateFacts
    <3>3. ~(CheckSave \/ AttemptSave \/ RegisterSave \/ KeySave)
      BY <3>1, SaveType DEF CheckSave, AttemptSave, RegisterSave, KeySave
    <3>4. ~(TickStart \/ RegisterLater \/ MakeLine \/ Crash \/ Remove \/ Advance)
      BY <3>1 DEF TickStart, RegisterLater, MakeLine, Crash, Remove, Advance
    <3> QED
      BY <3>2, <3>3, <3>4 DEF Next, TickStep, Tick, Time
  <2>2. pc = "publish" /\ ~TickFails /\ out' = lines
    BY <2>1 DEF Publish, PublishLines, AfterWrite
  <2>3. rec[s].dev = 0
    BY <2>2 DEF TickFails
  <2> QED
    BY <2>2, <2>3, WarpFacts DEF FileInv, Kept
<1> QED
  BY <1>1, <1>2, <1>3, AnswerInit, PTL DEF Spec, EmptiedOnlyByLoss
=============================================================================
