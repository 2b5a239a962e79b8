-------------------------------- MODULE Warp --------------------------------
(***************************************************************************)
(* The WARP provider of wgp (internal/wgp/provider/warp) with the daemon's *)
(* tick around it: N device slots that are checked (GET /reg/{id}),        *)
(* registered (POST /reg) and given new keys (PATCH /reg/{id}) one after   *)
(* the other, the state record that every change is saved to at once, and  *)
(* the candidate file that is published at the end of the tick.            *)
(*                                                                         *)
(* One step is one API call, one save or one publication, so that a crash  *)
(* or a failure can fall between any two of them.  The keys of a device    *)
(* are numbered: 0 is the X25519 key of its registration, every PATCH sets *)
(* the next one.  With tunnel masque key 0 means "no MASQUE key yet".      *)
(* Time is the age of the last POST /reg; a tick takes no time.            *)
(***************************************************************************)
EXTENDS Integers

CONSTANTS
  N,              \* output candidates: the number of device slots
  LostAfter,      \* deviceLostAfterChecks
  Interval,       \* reRegisterMinIntervalMinutes, in steps of Advance
  Masque,         \* tunnel masque, else wireguard
  RotateOnStart,  \* keys.rotateOnStart
  Faults,         \* what may go wrong: "get", "stale", "lost", "bad", "post",
                  \* "resend", "patch", "save", "load", "publish", "crash", "remove"
  MaxFaults       \* bound on their number

ASSUME WarpAssumption ==
  /\ N \in Nat \ {0}
  /\ LostAfter \in Nat \ {0}
  /\ Interval \in Nat \ {0}
  /\ Masque \in BOOLEAN /\ RotateOnStart \in BOOLEAN
  /\ MaxFaults \in Nat

Slots == 1..N
Devices == 1..(N + MaxFaults)   \* every one beyond N costs a fault

Never == -1        \* RegisterAttemptAt of a slot never registered
Absent == -1       \* the key of a device that was not registered
Unusable == -1     \* a profile that cannot make a line

NoDevice == [dev |-> 0, key |-> 0, prof |-> Unusable, lost |-> 0, at |-> Never]
NoLine == <<>>
NoRecord == [s \in Slots |-> NoDevice]
NoLines == [s \in Slots |-> NoLine]

VARIABLES
  keys,      \* API: the current key of every registered device
  alive,     \* API: the devices it still knows and has enabled
  losses,    \* API (history): loss answers in a row per device
  tried,     \* history: age of the last POST /reg per slot, up to Interval
  faults,    \* how many things went wrong so far
  disk,      \* the state record
  out,       \* the candidate file: a line <<device, key, profile>> per slot
  status,    \* the provider's state in the daemon, "none" before a tick
  rotate,    \* slots still to rotate in this process
  pc,        \* where the tick is
  cur,       \* the slot the tick works on
  rec,       \* the tick's copy of the record
  lines,     \* Result.Lines so far
  checked,   \* the device of cur answered the check, or was just registered
  err,       \* some slot reported an error
  unsaved    \* history: a key change of this process was not saved

apiVars == <<keys, alive, losses, tried>>
tickVars == <<cur, rec, lines, checked, err>>
vars == <<apiVars, faults, disk, out, status, rotate, pc, tickVars, unsaved>>

Init ==
  /\ keys = [d \in Devices |-> Absent]
  /\ alive = {}
  /\ losses = [d \in Devices |-> 0]
  /\ tried = [s \in Slots |-> Never]
  /\ faults = 0
  /\ disk = NoRecord
  /\ out = NoLines
  /\ status = "none"
  /\ rotate = IF RotateOnStart THEN Slots ELSE {}
  /\ pc = "idle" /\ cur = 1 /\ rec = NoRecord /\ lines = NoLines /\ checked = FALSE /\ err = FALSE
  /\ unsaved = FALSE

(* Something of kind f goes wrong.                                         *)
Fault(f) == f \in Faults /\ faults < MaxFaults /\ faults' = faults + 1
Fine == UNCHANGED faults

-----------------------------------------------------------------------------
(* Helpers of the tick.                                                    *)

me == rec[cur]
SetMe(d) == rec' = [rec EXCEPT ![cur] = d]

(* The slot is done, with line l (NoLine for none); the next one, or the   *)
(* end of the tick.                                                        *)
SlotDone(l) ==
  /\ lines' = [lines EXCEPT ![cur] = l]
  /\ checked' = FALSE
  /\ IF cur = N THEN pc' = "publish" /\ UNCHANGED cur ELSE pc' = "slot" /\ cur' = cur + 1

(* Record.Load: a record that cannot be read or opened is never recreated. *)
Load(ok) ==
  IF ok THEN Fine /\ rec' = disk ELSE Fault("load") /\ UNCHANGED rec

(* WriteAtomic: the new content replaces the old one; when only the sync   *)
(* of the directory fails, a failed write has replaced it too.             *)
AfterWrite(ok, old, new) == IF ok THEN {new} ELSE {old, new}

(* Record.Save.                                                            *)
Save(ok) ==
  /\ IF ok THEN Fine ELSE Fault("save")
  /\ disk' \in AfterWrite(ok, disk, rec)

(* The saves of slot: a slot whose save fails has no line.                 *)
SaveThen(next) ==
  /\ \/ Save(TRUE) /\ pc' = next /\ UNCHANGED <<cur, lines, checked, err>>
     \/ Save(FALSE) /\ SlotDone(NoLine) /\ err' = TRUE
  /\ UNCHANGED <<apiVars, out, status, rotate, rec>>

-----------------------------------------------------------------------------
(* The tick.                                                               *)

TickStart ==
  /\ pc = "idle"
  /\ \/ Load(TRUE) /\ pc' = "slot" /\ cur' = 1 /\ UNCHANGED status
     \/ Load(FALSE) /\ status' = "error" /\ UNCHANGED <<pc, cur>>
  /\ UNCHANGED <<apiVars, disk, out, rotate, lines, checked, err>>

(* Mutant: the profile is refreshed whatever key the answer is for.        *)
RefreshAnyKey(d, k, p) == [d EXCEPT !.lost = 0, !.prof = p]

(* A healthy answer that shows key k with profile p.                       *)
Refresh(d, k, p) == [d EXCEPT !.lost = 0, !.prof = IF k = d.key THEN p ELSE @]

(* A loss answer: the device is dropped after LostAfter of them in a row.  *)
Lost(d) ==
  IF d.lost + 1 >= LostAfter THEN [NoDevice EXCEPT !.at = d.at] ELSE [d EXCEPT !.lost = @ + 1]

(* Mutant: a failed check is counted as a loss.                            *)
FailedIsLoss(d) == Lost(d)

(* 5xx, 429, timeouts: neither counted nor reset.                          *)
Failed(d) == d

(* GET /reg/{id}.  Right after a key change the API may show the old key.  *)
Check ==
  /\ pc = "slot" /\ me.dev # 0
  /\ \/ /\ me.dev \in alive
        /\ \E k \in {keys[me.dev], keys[me.dev] - 1} \cap Nat :
             \/ SetMe(Refresh(me, k, k)) /\ IF k = keys[me.dev] THEN Fine ELSE Fault("stale")
             \/ SetMe(Refresh(me, k, Unusable)) /\ Fault("bad")
        /\ checked' = TRUE
        /\ losses' = [losses EXCEPT ![me.dev] = 0]
        /\ UNCHANGED err
     \/ /\ IF me.dev \in alive THEN Fault("lost") ELSE Fine
        /\ SetMe(Lost(me))
        /\ losses' = [losses EXCEPT ![me.dev] = IF @ < LostAfter THEN @ + 1 ELSE @]
        /\ err' = TRUE
        /\ UNCHANGED checked
     \/ /\ Fault("get")
        /\ SetMe(Failed(me))
        /\ err' = TRUE
        /\ UNCHANGED <<checked, losses>>
  /\ pc' = "check-save"
  /\ UNCHANGED <<keys, alive, tried, disk, out, status, rotate, cur, lines>>

CheckSave == pc = "check-save" /\ SaveThen("device")

(* A slot without a device: not earlier than Interval after the last       *)
(* attempt.                                                                *)
Unregistered == (pc = "slot" \/ pc = "device") /\ me.dev = 0

RegisterLater ==
  /\ Unregistered
  /\ me.at # Never /\ me.at < Interval
  /\ SlotDone(NoLine)
  /\ err' = TRUE
  /\ UNCHANGED <<apiVars, faults, disk, out, status, rotate, rec>>

(* Mutant: the attempt is not saved before the request.                    *)
NoteAttemptUnsaved ==
  /\ SetMe([me EXCEPT !.at = 0])
  /\ pc' = "post"

(* The attempt counts even when it fails: it is saved before the request.  *)
NoteAttempt ==
  /\ SetMe([me EXCEPT !.at = 0])
  /\ pc' = "attempt-save"

RegisterBegin ==
  /\ Unregistered
  /\ me.at = Never \/ me.at >= Interval
  /\ NoteAttempt
  /\ UNCHANGED <<apiVars, faults, disk, out, status, rotate, cur, lines, checked, err>>

AttemptSave == pc = "attempt-save" /\ SaveThen("post")

(* POST /reg: a new device with key 0, or a failed call; the API may have  *)
(* executed a call that failed.                                            *)
FirstFree(d) == keys[d] = Absent /\ \A x \in 1..(d - 1) : keys[x] # Absent

Executed(d) == keys' = [keys EXCEPT ![d] = 0] /\ alive' = alive \cup {d}

MayExecute == UNCHANGED <<keys, alive>> \/ \E d \in Devices : FirstFree(d) /\ Executed(d)

(* transport.Do: an answer 408, 429, 502 or 503 sends the same call again; *)
(* the API may have executed the first one.                                *)
Retried == Fault("resend") /\ MayExecute

Register ==
  /\ pc = "post"
  /\ tried' = [tried EXCEPT ![cur] = 0]
  /\ \/ \E d \in Devices, p \in {0, Unusable} :
          /\ FirstFree(d) /\ Executed(d)
          /\ IF p = Unusable THEN Fault("bad") ELSE Fine
          /\ SetMe([dev |-> d, key |-> 0, prof |-> p, lost |-> 0, at |-> me.at])
          /\ rotate' = rotate \ {cur}
          /\ pc' = "post-save"
          /\ UNCHANGED <<cur, lines, checked, err>>
     \/ /\ Fault("post")
        /\ MayExecute
        /\ SlotDone(NoLine) /\ err' = TRUE
        /\ UNCHANGED <<rec, rotate>>
     \/ Retried /\ UNCHANGED <<rec, rotate, pc, cur, lines, checked, err>>
  /\ UNCHANGED <<losses, disk, out, status>>

RegisterSave ==
  /\ pc = "post-save"
  /\ SaveThen("registered")

(* Mutant: a MASQUE device without its key waits for a rotation.           *)
RotatedOnly == cur \in rotate

(* A checked or new device gets a new key: once per process with           *)
(* rotateOnStart, and a MASQUE device until it has its first one.          *)
NeedsKey == cur \in rotate \/ (Masque /\ me.key = 0)

KeyStep == (pc = "device" \/ pc = "registered") /\ me.dev # 0
IsChecked == checked \/ pc = "registered"

(* PATCH /reg/{id}; as above, a failed call may have been executed.        *)
RotateKey ==
  /\ KeyStep /\ IsChecked /\ NeedsKey
  /\ \/ /\ me.dev \in alive
        /\ keys' = [keys EXCEPT ![me.dev] = @ + 1]
        /\ \/ \E p \in {keys'[me.dev], Unusable} :
                /\ IF p = Unusable THEN Fault("bad") ELSE Fine
                /\ SetMe([me EXCEPT !.key = keys'[me.dev], !.prof = p])
                /\ rotate' = rotate \ {cur}
                /\ pc' = "key-save"
                /\ UNCHANGED err
           \/ Fault("patch") /\ pc' = "line" /\ err' = TRUE /\ UNCHANGED <<rec, rotate>>
     \/ /\ IF me.dev \in alive THEN Fault("patch") ELSE Fine
        /\ pc' = "line" /\ err' = TRUE
        /\ UNCHANGED <<keys, rec, rotate>>
  /\ UNCHANGED <<alive, losses, tried, disk, out, status, cur, lines, checked>>

KeySave == pc = "key-save" /\ SaveThen("line")

(* line and masqueLines: the key and the API values of the profile, NoLine *)
(* for a profile that makes none.                                          *)
LineOf(d) == IF d.prof = Unusable THEN NoLine ELSE <<d.dev, d.key, d.prof>>

(* lines: a MASQUE device without its key has none either.                 *)
Lines(d) == IF Masque /\ d.key = 0 THEN NoLine ELSE LineOf(d)

(* A device that cannot make a line is an error of the slot.               *)
MakeLine ==
  /\ pc = "line" \/ (KeyStep /\ ~(IsChecked /\ NeedsKey))
  /\ SlotDone(Lines(me))
  /\ err' = (err \/ Lines(me) = NoLine)
  /\ UNCHANGED <<apiVars, faults, disk, out, status, rotate, rec>>

(* output.Publish and PublishEmpty: the lines, possibly none, replace the  *)
(* file.                                                                   *)
PublishLines(ok) ==
  /\ IF ok THEN Fine ELSE Fault("publish")
  /\ out' \in AfterWrite(ok, out, lines)

(* The end of Tick: no line although a device exists is a failed tick.     *)
TickFails == lines = NoLines /\ \E s \in Slots : rec[s].dev # 0

(* daemon.tick: a failed tick keeps the file.                              *)
Publish ==
  /\ pc = "publish"
  /\ \/ TickFails /\ Fine /\ status' = "error" /\ UNCHANGED out
     \/ ~TickFails /\ PublishLines(TRUE) /\ status' = IF err THEN "error" ELSE "ok"
     \/ ~TickFails /\ PublishLines(FALSE) /\ status' = "error"
  /\ pc' = "idle" /\ cur' = 1 /\ rec' = NoRecord /\ lines' = NoLines /\ checked' = FALSE /\ err' = FALSE
  /\ UNCHANGED <<apiVars, disk, rotate>>

-----------------------------------------------------------------------------
(* The environment: a restart at any point, a device the API drops, time.  *)

Crash ==
  /\ Fault("crash")
  /\ rotate' = IF RotateOnStart THEN Slots ELSE {}
  /\ status' = "none"
  /\ pc' = "idle" /\ cur' = 1 /\ rec' = NoRecord /\ lines' = NoLines /\ checked' = FALSE /\ err' = FALSE
  /\ UNCHANGED <<apiVars, disk, out>>

Remove ==
  /\ Fault("remove")
  /\ \E d \in alive : alive' = alive \ {d}
  /\ UNCHANGED <<keys, losses, tried, disk, out, status, rotate, pc, tickVars>>

Older(age) == IF age \in 0..(Interval - 1) THEN age + 1 ELSE age

Advance ==
  /\ pc = "idle"
  /\ \E s \in Slots : Older(disk[s].at) # disk[s].at \/ Older(tried[s]) # tried[s]
  /\ disk' = [s \in Slots |-> [disk[s] EXCEPT !.at = Older(@)]]
  /\ tried' = [s \in Slots |-> Older(tried[s])]
  /\ UNCHANGED <<keys, alive, losses, faults, out, status, rotate, pc, tickVars>>

Tick ==
  \/ TickStart \/ Check \/ CheckSave
  \/ RegisterLater \/ RegisterBegin \/ AttemptSave \/ Register \/ RegisterSave
  \/ RotateKey \/ KeySave \/ MakeLine \/ Publish

TickStep == Tick /\ unsaved' = (unsaved \/ (KeySave /\ pc' # "line"))

Time == Advance /\ UNCHANGED unsaved

Next ==
  \/ TickStep \/ Time
  \/ Crash /\ unsaved' = FALSE
  \/ Remove /\ UNCHANGED unsaved

Spec == Init /\ [][Next]_vars

(* The schedule keeps ticking, every call and save ends, and time passes   *)
(* between the ticks.                                                      *)
LiveSpec == Spec /\ WF_vars(TickStep) /\ SF_vars(Time)

-----------------------------------------------------------------------------
(* Properties.                                                             *)

(* README.md:1455-1459: a slot never sends POST /reg earlier than Interval *)
(* after its last one, failed ones included: not after a crash, a failed   *)
(* save, a lost answer or a restart (RegisterAttemptAt is saved first).    *)
RegisterPaced ==
  [][pc # "post" /\ pc' = "post" => tried[cur] \in {Never, Interval}]_vars

(* README.md:1467-1470: reserved and the other API values of a line belong *)
(* to its key, although an answer of the API may show another key than the *)
(* recorded one (an old one, or one whose PATCH was not answered).         *)
LineOfOneAnswer == \A s \in Slots : out[s] # NoLine => out[s][2] = out[s][3]

(* README.md:1476: the file empties only when every published device was   *)
(* answered as lost: failed checks, failed saves, answers that make no     *)
(* line and crashes keep it.                                               *)
EmptiedOnlyByLoss ==
  [][out # NoLines /\ out' = NoLines
       => \A s \in Slots : out[s] # NoLine => losses[out[s][1]] > 0]_vars

(* Once nothing goes wrong any more every slot ends up, and stays, with a  *)
(* published line of a device the API knows under the key it has now, and  *)
(* the provider reports ok: after lost answers of any call, failed saves,  *)
(* crashes and dropped devices.  The exception is a key change whose save  *)
(* failed, until the next restart: slot has dropped the slot from w.rotate *)
(* by then, so the key is not changed again and the record keeps the one   *)
(* it replaced.                                                            *)
DevicesHeal ==
  <>[](unsaved \/ /\ status = "ok"
                  /\ \A s \in Slots : /\ out[s] # NoLine
                                      /\ out[s][1] \in alive
                                      /\ out[s][2] = keys[out[s][1]])

=============================================================================
