------------------------------- MODULE Proton -------------------------------
(***************************************************************************)
(* The keys of the Proton provider of wgp (internal/wgp/provider/proton,   *)
(* Tick): N candidate slots, each with a key and a persistent certificate  *)
(* of the current key generation.  A start with rotateOnStart begins a new *)
(* generation; every slot gets a new key, the old certificates are revoked *)
(* RevokeAfter later.  Every change is saved at once, and the candidate    *)
(* file is published at the end of the tick.  A login or logout is another *)
(* process, which runs while the daemon is stopped (store.Lock).           *)
(*                                                                         *)
(* One step is one API call, one save or one publication.  A serial number *)
(* is the position of a certificate in certs; a key is named by the serial *)
(* of its first certificate.  Time passes between the ticks only.  Which   *)
(* server a slot gets is the subject of ProtonServers; here a slot has one *)
(* or has none.                                                            *)
(***************************************************************************)
EXTENDS Integers, Sequences

CONSTANTS
  N,              \* output candidates: the number of slots
  RevokeAfter,    \* keys.revokeOldAfterMinutes, in steps of Advance
  RotateOnStart,  \* keys.rotateOnStart
  MaxAges,        \* bound on how often a certificate comes of age
  Faults,         \* what may go wrong: "account", "login", "issue", "list",
                  \* "revoke", "server", "save", "load", "publish", "crash",
                  \* "logout" (a logout began), "close" (its last call)
  MaxFaults       \* bound on their number

ASSUME ProtonAssumption ==
  /\ N \in Nat \ {0}
  /\ RevokeAfter \in Nat \ {0}
  /\ RotateOnStart \in BOOLEAN
  /\ MaxAges \in Nat /\ MaxFaults \in Nat

Slots == 1..N
Never == -1      \* RotatedAt when no old certificate waits
Held == -1       \* a certificate that a slot of the record holds
None == 0        \* no key, no serial, no line

NoSlot == [key |-> None, gen |-> 0, serial |-> None, phase |-> "fresh", server |-> FALSE]
NoKeys == [gen |-> 1, rotated |-> Never, slots |-> [s \in Slots |-> NoSlot]]
NoLines == [s \in Slots |-> None]

VARIABLES
  certs,    \* API: every certificate issued, <<[key, gen]>> by serial
  live,     \* API: the serials that were not revoked
  rested,   \* history: how long no slot of the record holds a serial
  ages,     \* how often a certificate came of age
  faults,   \* how many things went wrong so far
  disk,     \* the keys member of the state record
  out,      \* the candidate file: the key in the line of each slot
  status,   \* the provider's state in the daemon, "none" before a tick
  rotate,   \* Proton.rotate: the rotation of this process is to come
  session,  \* the session: "valid", "closed" (the API rejects it), or "none"
  pc, cur,  \* where the tick is, and the slot it works on
  ks,       \* the tick's copy of the keys
  queue,    \* serials still to revoke
  err       \* some slot, or the revocation, reported an error

apiVars == <<certs, live>>
fileVars == <<disk, out, rested>>
tickVars == <<cur, ks, queue, err>>
vars == <<apiVars, fileVars, ages, faults, status, rotate, session, pc, tickVars>>

Idle == pc' = "idle" /\ cur' = 1 /\ ks' = NoKeys /\ queue' = {} /\ err' = FALSE

Init ==
  /\ certs = <<>> /\ live = {} /\ rested = <<>>
  /\ ages = 0 /\ faults = 0
  /\ disk = NoKeys /\ out = NoLines
  /\ status = "none" /\ rotate = RotateOnStart /\ session = "none"
  /\ pc = "idle" /\ cur = 1 /\ ks = NoKeys /\ queue = {} /\ err = FALSE

(* Something of kind f goes wrong.                                         *)
Fault(f) == f \in Faults /\ faults < MaxFaults /\ faults' = faults + 1
Fine == UNCHANGED faults

-----------------------------------------------------------------------------
(* Helpers of the tick.                                                    *)

(* A failed tick: the file stays, the state of the provider tells.         *)
Fail(state) ==
  /\ status' = state
  /\ Idle
  /\ UNCHANGED out

(* A call that finds the session rejected ends the tick.                   *)
NeedsLogin ==
  /\ Fault("login")
  /\ session' = "closed"
  /\ Fail("needs_login")
  /\ UNCHANGED <<apiVars, disk, rested, ages, rotate>>

Serials(k) == {k.slots[s].serial : s \in Slots} \ {None}

(* The record on disk becomes k.                                           *)
Write(k) ==
  /\ disk' = k
  /\ rested' = [c \in DOMAIN rested |->
       IF c \in Serials(k) THEN Held ELSE IF rested[c] = Held THEN 0 ELSE rested[c]]

(* save: a failed one may have replaced the record (the directory sync     *)
(* only); it fails the tick.                                               *)
SaveThen(next) ==
  /\ \/ Fine /\ Write(ks) /\ pc' = next /\ UNCHANGED <<out, status, tickVars>>
     \/ Fault("save") /\ (Write(ks) \/ UNCHANGED <<disk, rested>>) /\ Fail("error")
  /\ UNCHANGED <<apiVars, ages, session>>

-----------------------------------------------------------------------------
(* The tick.                                                               *)

(* The record, the account and the server list.                            *)
TickStart ==
  /\ pc = "idle"
  /\ \/ session = "valid" /\ Fine /\ ks' = disk /\ pc' = "gen" /\ UNCHANGED <<out, status, cur, queue, err>>
     \/ session = "valid" /\ (Fault("load") \/ Fault("account")) /\ Fail("error")
     \/ session # "valid" /\ Fine /\ Fail("needs_login")
  /\ UNCHANGED <<apiVars, disk, rested, ages, rotate, session>>

TickNeedsLogin == pc = "idle" /\ session = "valid" /\ NeedsLogin

HasKeys(k) == \E s \in Slots : k.slots[s].key # None

(* A new generation, once per process, when there are keys to rotate; the  *)
(* rotation counts as begun only after the save.                           *)
NewGeneration ==
  /\ pc = "gen"
  /\ \/ rotate /\ HasKeys(ks) /\ ks' = [ks EXCEPT !.gen = @ + 1] /\ pc' = "gen-save" /\ UNCHANGED rotate
     \/ ~(rotate /\ HasKeys(ks)) /\ rotate' = FALSE /\ pc' = "certify" /\ UNCHANGED ks
  /\ UNCHANGED <<apiVars, fileVars, ages, faults, status, session, cur, queue, err>>

GenerationSave ==
  /\ pc = "gen-save"
  /\ SaveThen("certify")
  /\ rotate' = (rotate /\ pc' = "idle")

me == ks.slots[cur]

(* Mutant: a slot with a key of an older generation is not rotated.        *)
IsKeyless == me.key = None

IsNew == me.key = None \/ me.gen # ks.gen

NextSlot == IF cur = N THEN pc' = "assign" /\ cur' = 1 ELSE pc' = "certify" /\ cur' = cur + 1

CertifyNothing ==
  /\ pc = "certify" /\ ~IsNew /\ me.phase = "fresh"
  /\ NextSlot
  /\ UNCHANGED <<apiVars, fileVars, ages, faults, status, rotate, session, ks, queue, err>>

(* Mutant: only the first slot of a rotation starts the time.              *)
RotatedFirst(k) == IF me.key = None \/ k.rotated # Never THEN k.rotated ELSE 0

(* RotatedAt after a new key for the slot: the time of the last rotation.  *)
Rotated(k) == IF me.key = None THEN k.rotated ELSE 0

Serial == Len(certs) + 1
Key == IF IsNew THEN Serial ELSE me.key

(* The API issued the certificate; nobody holds it before it is saved.     *)
Issued ==
  /\ certs' = Append(certs, [key |-> Key, gen |-> ks.gen])
  /\ live' = live \cup {Serial}
  /\ rested' = Append(rested, RevokeAfter)

(* certify and issue: a new key for a slot without one of the current      *)
(* generation, else a renewal of the same key.  A failed request, which    *)
(* the API may have executed, keeps the slot as it was.                    *)
Certify ==
  /\ pc = "certify" /\ (IsNew \/ me.phase # "fresh")
  /\ \/ /\ Fine /\ Issued
        /\ ks' = [ks EXCEPT
             !.slots[cur] = [@ EXCEPT !.key = Key, !.gen = ks.gen, !.serial = Serial, !.phase = "fresh"],
             !.rotated = IF IsNew THEN Rotated(ks) ELSE @]
        /\ pc' = "cert-save"
        /\ UNCHANGED <<cur, err>>
     \/ /\ Fault("issue") /\ (Issued \/ UNCHANGED <<certs, live, rested>>)
        /\ NextSlot /\ err' = TRUE
        /\ UNCHANGED ks
  /\ UNCHANGED <<disk, out, ages, status, rotate, session, queue>>

CertifyNeedsLogin == pc = "certify" /\ (IsNew \/ me.phase # "fresh") /\ NeedsLogin

CertSave ==
  /\ pc = "cert-save"
  /\ \/ Fine /\ Write(ks) /\ NextSlot /\ UNCHANGED <<out, status, ks, queue, err>>
     \/ Fault("save") /\ (Write(ks) \/ UNCHANGED <<disk, rested>>) /\ Fail("error")
  /\ UNCHANGED <<apiVars, ages, rotate, session>>

(* assign: a slot without a free server has none and is an error.          *)
Assign ==
  /\ pc = "assign"
  /\ \E sv \in [Slots -> BOOLEAN] :
       LET new == [ks EXCEPT !.slots = [s \in Slots |-> [@[s] EXCEPT !.server = sv[s]]]] IN
       /\ IF \A s \in Slots : sv[s] THEN Fine ELSE Fault("server")
       /\ ks' = new
       /\ pc' = "assign-save" \/ (new = ks /\ pc' = "revoke")
  /\ UNCHANGED <<apiVars, fileVars, ages, status, rotate, session, cur, queue, err>>

AssignSave == pc = "assign-save" /\ SaveThen("revoke") /\ UNCHANGED rotate

RevokeDue == ks.rotated # Never /\ ks.rotated >= RevokeAfter

(* The certificates of older generations that no slot holds.               *)
Matches(c) == certs[c].gen # ks.gen /\ c \notin Serials(ks)

RevokeNothing ==
  /\ pc = "revoke" /\ ~RevokeDue
  /\ pc' = "publish"
  /\ UNCHANGED <<apiVars, fileVars, ages, faults, status, rotate, session, tickVars>>

RevokeList ==
  /\ pc = "revoke" /\ RevokeDue
  /\ \/ Fine /\ queue' = {c \in live : Matches(c)} /\ pc' = "revoking" /\ UNCHANGED err
     \/ Fault("list") /\ err' = TRUE /\ pc' = "publish" /\ UNCHANGED queue
  /\ UNCHANGED <<apiVars, fileVars, ages, status, rotate, session, cur, ks>>

(* Mutant: a failed revocation ends the wait as well.                      *)
RevokeFailedDone == pc' = "revoked"

(* The first failure ends the revocation; RotatedAt stays.                 *)
RevokeFailed == pc' = "publish"

(* The next certificate of the list; a failed call may have been executed. *)
RevokeOne ==
  /\ pc = "revoking" /\ queue # {}
  /\ LET c == CHOOSE c \in queue : \A d \in queue : c <= d IN
     /\ queue' = queue \ {c}
     /\ \/ Fine /\ live' = live \ {c} /\ UNCHANGED <<pc, err>>
        \/ Fault("revoke") /\ live' \in {live, live \ {c}} /\ err' = TRUE /\ RevokeFailed
  /\ UNCHANGED <<certs, fileVars, ages, status, rotate, session, cur, ks>>

RevokeNeedsLogin ==
  /\ (pc = "revoke" /\ RevokeDue) \/ (pc = "revoking" /\ queue # {})
  /\ NeedsLogin

RevokeListDone ==
  /\ pc = "revoking" /\ queue = {}
  /\ pc' = "revoked"
  /\ UNCHANGED <<apiVars, fileVars, ages, faults, status, rotate, session, tickVars>>

AllRotated(k) == \A s \in Slots : k.slots[s].key # None => k.slots[s].gen = k.gen

(* No slot is left behind: nothing waits any more.                         *)
RevokeDone ==
  /\ pc = "revoked"
  /\ IF AllRotated(ks) THEN ks' = [ks EXCEPT !.rotated = Never] /\ pc' = "revoke-save"
     ELSE pc' = "publish" /\ UNCHANGED ks
  /\ UNCHANGED <<apiVars, fileVars, ages, faults, status, rotate, session, cur, queue, err>>

RevokeSave == pc = "revoke-save" /\ SaveThen("publish") /\ UNCHANGED rotate

HasLine(s) == ks.slots[s].key # None /\ ks.slots[s].phase # "expired" /\ ks.slots[s].server
Lines == [s \in Slots |-> IF HasLine(s) THEN ks.slots[s].key ELSE None]

(* Mutant: a slot without a server is no error.                            *)
SlotAlwaysOK(s) == TRUE

(* A slot without a server is an error, one without a valid certificate    *)
(* reported its error when the request failed.                             *)
SlotOK(s) == ks.slots[s].server \/ ks.slots[s].key = None \/ ks.slots[s].phase = "expired"

(* One line per slot with a certificate and a server; no line at all fails *)
(* the tick and keeps the file.                                            *)
Publish ==
  /\ pc = "publish"
  /\ \/ Lines = NoLines /\ Fine /\ Fail("error")
     \/ /\ Lines # NoLines /\ Fine
        /\ out' = Lines
        /\ status' = IF ~err /\ \A s \in Slots : SlotOK(s) THEN "ok" ELSE "error"
        /\ Idle
     \/ /\ Lines # NoLines /\ Fault("publish")
        /\ out' \in {out, Lines}
        /\ status' = "error"
        /\ Idle
  /\ UNCHANGED <<apiVars, disk, rested, ages, rotate, session>>

-----------------------------------------------------------------------------
(* The environment: a restart or a shutdown at any point, certificates     *)
(* that come of age, time.                                                 *)

NewProcess == status' = "none" /\ rotate' = RotateOnStart

Crash ==
  /\ Fault("crash")
  /\ NewProcess /\ Idle
  /\ UNCHANGED <<apiVars, fileVars, ages, session>>

(* Login: a new session is saved after the last check of the answers.      *)
Login ==
  /\ pc = "idle" /\ session # "valid"
  /\ session' = "valid"
  /\ NewProcess
  /\ UNCHANGED <<apiVars, fileVars, ages, faults, pc, tickVars>>

-----------------------------------------------------------------------------
(* Logout, instead of the daemon, which starts again after it.             *)

(* Nothing to do without a session; a closed one is refused.               *)
LogoutStart ==
  /\ pc = "idle" /\ session = "valid"
  /\ Fault("logout")
  /\ NewProcess
  /\ pc' = "logout"
  /\ UNCHANGED <<apiVars, fileVars, ages, session, tickVars>>

(* A failed step ends the logout and leaves the rest as it is.             *)
LogoutFails(f) ==
  /\ Fault(f)
  /\ session' = IF f = "login" THEN "closed" ELSE session
  /\ Idle
  /\ UNCHANGED <<disk, rested>>

(* revokeIssued: every certificate of the output, held or not.             *)
LogoutList ==
  /\ pc = "logout"
  /\ \/ /\ Fine /\ queue' = live /\ pc' = "logout-revoking"
        /\ UNCHANGED <<disk, rested, session, cur, ks, err>>
     \/ LogoutFails("list") \/ LogoutFails("login")
  /\ UNCHANGED <<apiVars, out, ages, status, rotate>>

LogoutRevoke ==
  /\ pc = "logout-revoking" /\ queue # {}
  /\ LET c == CHOOSE c \in queue : \A d \in queue : c <= d IN
     \/ /\ Fine /\ live' = live \ {c} /\ queue' = queue \ {c}
        /\ UNCHANGED <<disk, rested, session, pc, cur, ks, err>>
     \/ live' \in {live, live \ {c}} /\ LogoutFails("revoke")
     \/ UNCHANGED live /\ LogoutFails("login")
  /\ UNCHANGED <<certs, out, ages, status, rotate>>

(* Then the keys leave the record ...                                      *)
LogoutKeys ==
  /\ pc = "logout-revoking" /\ queue = {}
  /\ \/ Fine /\ Write(NoKeys) /\ pc' = "logout-session" /\ UNCHANGED <<session, tickVars>>
     \/ Fault("save") /\ Write(NoKeys) /\ Idle /\ UNCHANGED session
     \/ LogoutFails("save")
  /\ UNCHANGED <<apiVars, out, ages, status, rotate>>

(* ... and after DELETE /auth, which may be executed without an answer,    *)
(* the session does.                                                       *)
LogoutSession ==
  /\ pc = "logout-session"
  /\ Idle
  /\ \/ Fine /\ session' = "none"
     \/ Fault("close") /\ session' \in {"valid", "closed"}
     \/ Fault("save") /\ session' \in {"closed", "none"}
  /\ UNCHANGED <<apiVars, fileVars, ages, status, rotate>>

-----------------------------------------------------------------------------
Age ==
  /\ pc = "idle" /\ ages < MaxAges
  /\ \E s \in Slots :
       /\ disk.slots[s].key # None /\ disk.slots[s].phase # "expired"
       /\ disk' = [disk EXCEPT !.slots[s].phase = IF @ = "fresh" THEN "due" ELSE "expired"]
  /\ ages' = ages + 1
  /\ UNCHANGED <<apiVars, rested, out, faults, status, rotate, session, pc, tickVars>>

Older(age) == IF age \in 0..(RevokeAfter - 1) THEN age + 1 ELSE age

Advance ==
  /\ pc = "idle"
  /\ Older(disk.rotated) # disk.rotated \/ \E c \in DOMAIN rested : Older(rested[c]) # rested[c]
  /\ disk' = [disk EXCEPT !.rotated = Older(@)]
  /\ rested' = [c \in DOMAIN rested |-> Older(rested[c])]
  /\ UNCHANGED <<apiVars, out, ages, faults, status, rotate, session, pc, tickVars>>

Tick ==
  \/ TickStart \/ TickNeedsLogin \/ NewGeneration \/ GenerationSave
  \/ CertifyNothing \/ Certify \/ CertifyNeedsLogin \/ CertSave
  \/ Assign \/ AssignSave
  \/ RevokeNothing \/ RevokeList \/ RevokeOne \/ RevokeNeedsLogin
  \/ RevokeListDone \/ RevokeDone \/ RevokeSave
  \/ Publish

Logout == LogoutStart \/ LogoutList \/ LogoutRevoke \/ LogoutKeys \/ LogoutSession

Next == Tick \/ Crash \/ Login \/ Logout \/ Age \/ Advance

Spec == Init /\ [][Next]_vars

(* The schedule keeps ticking, every call and save ends, and time passes   *)
(* between the ticks.                                                      *)
LiveSpec == Spec /\ WF_vars(Tick) /\ WF_vars(Logout) /\ SF_vars(Advance)

-----------------------------------------------------------------------------
(* Properties.                                                             *)

(* README.md:1376-1378: a certificate of a key that left the record is     *)
(* revoked no earlier than RevokeAfter after the last slot stopped using   *)
(* it, and none that the record holds is: also when the slots rotate in    *)
(* different ticks, when some cannot rotate, and after crashes and failed  *)
(* saves.  A certificate that a renewal replaced may go at once: the       *)
(* record holds a newer one of its key.  Only a logout revokes the rest.   *)
RevokeWaits ==
  [][~LogoutRevoke => \A c \in live \ live' :
       /\ c \notin Serials(disk)
       /\ rested[c] >= RevokeAfter \/ \E s \in Slots : disk.slots[s].key = certs[c].key]_vars

(* A provider that reports ok has published, for every slot, the key of    *)
(* the record, and a certificate of it is still valid (Tick, daemon.tick). *)
(* A provider that reports an error has no such promise: when no slot has  *)
(* a free server after a rotation the file stays as it is, and the         *)
(* certificates of its keys are revoked all the same.                      *)
OKIsCurrent ==
  pc = "idle" /\ status = "ok" =>
    \A s \in Slots : /\ out[s] # None /\ out[s] = disk.slots[s].key
                     /\ \E c \in live : certs[c].key = out[s]

(* README.md:1376-1378: after the last failure or restart no certificate   *)
(* of an older generation stays valid, not even one whose answer was lost, *)
(* unless the session is gone (a person has to log in).                    *)
OldRevoked == <>[](session # "valid" \/ \A c \in live : certs[c].gen = disk.gen)

(* After the last failure every slot ends up with a published key that has *)
(* a valid certificate of the current generation, unless the session is    *)
(* gone: also after a logout that revoked certificates and failed before   *)
(* it dropped their keys (revokeIssued), because the next start rotates.   *)
CandidatesHeal ==
  <>[](session # "valid" \/ \A s \in Slots :
         /\ out[s] # None
         /\ disk.slots[s].phase # "expired"
         /\ out[s] = disk.slots[s].key
         /\ \E c \in live : certs[c] = [key |-> out[s], gen |-> disk.gen])
=============================================================================
