---------------------------- MODULE ProtonProofs ----------------------------
(***************************************************************************)
(* The Proton provider for any number of slots, ticks, failures, restarts, *)
(* logins and logouts: its keys (Proton) and, below, the calls on its      *)
(* session (ProtonSession) and the servers of its slots (ProtonServers).   *)
(*                                                                         *)
(* The keys.  KeyInv relates the API, the record on disk and the copy of   *)
(* the tick: each slot holds a certificate of its own key, a certificate   *)
(* that no slot holds any more waits at least since RotatedAt unless the   *)
(* record still has its key (Waits), and the copy differs from the record  *)
(* only by the change that is about to be saved (CopyInv).  OKInv adds     *)
(* what a tick that reports ok has done: it certified every slot it passed,*)
(* and the certificates of the current generation are valid, or the next   *)
(* tick rotates.                                                           *)
(*                                                                         *)
(* The servers.  A tick goes over the slots twice; FillInv and SwitchInv   *)
(* say what the first i turns of it have made of the record, by induction  *)
(* over i (Turns, LoopsFit).                                               *)
(***************************************************************************)
EXTENDS Proton, ProtonSession, ProtonServers, SequenceTheorems, WellFoundedInduction, TLAPS

(* A certificate, a slot and a record; the serials issued so far.          *)
Cert == [key : Nat \ {0}, gen : Nat \ {0}]
SlotRec == [key : Nat, gen : Nat, serial : Nat, phase : {"fresh", "due", "expired"}, server : BOOLEAN]
KeysRec == [gen : Nat \ {0}, rotated : Never..RevokeAfter, slots : [Slots -> SlotRec]]
Issues == 1..Len(certs)

(* The labels of a logout, of the start of a tick and of the rest of it.   *)
LogoutPCs == {"logout", "logout-revoking", "logout-session"}
EarlyPCs == {"gen", "gen-save"}
LaterPCs == {"assign", "assign-save", "revoke", "revoking", "revoked", "revoke-save", "publish"}
TickPCs == {"certify", "cert-save"} \cup LaterPCs

(* The API, the record and its history.                                    *)
FileTypes ==
  /\ certs \in Seq(Cert) /\ live \subseteq Issues
  /\ rested \in [Issues -> Held..RevokeAfter]
  /\ disk \in KeysRec

TickTypes ==
  /\ out \in [Slots -> Nat] /\ status \in {"none", "ok", "error", "needs_login"}
  /\ rotate \in BOOLEAN
  /\ pc \in {"idle"} \cup EarlyPCs \cup TickPCs \cup LogoutPCs
  /\ cur \in Slots /\ ks \in KeysRec /\ queue \subseteq Issues /\ err \in BOOLEAN

(* A slot has a key and the serial of a certificate of it, or neither.     *)
WellFormed(k) ==
  \A s \in Slots :
    /\ k.slots[s].gen <= k.gen
    /\ k.slots[s].key = None <=> k.slots[s].serial = None
    /\ k.slots[s].serial # None =>
         k.slots[s].serial \in Issues /\ certs[k.slots[s].serial].key = k.slots[s].key

(* rested tells which certificates the record holds.                       *)
HeldExactly == \A c \in Issues : rested[c] = Held <=> c \in Serials(disk)

(* A valid certificate that no slot holds has waited long enough, waits at *)
(* least since RotatedAt, or was replaced by a renewal.                    *)
Waits(c) ==
  \/ rested[c] >= RevokeAfter
  \/ disk.rotated # Never /\ rested[c] >= disk.rotated
  \/ \E s \in Slots : disk.slots[s].key = certs[c].key

(* The record, and what it promises of the valid certificates.             *)
FileInv ==
  /\ FileTypes /\ WellFormed(disk) /\ HeldExactly
  /\ \A c \in live \ Serials(disk) : Waits(c)

(* How the copy of the tick differs from the record before a save.         *)
NewServers ==
  /\ ks.gen = disk.gen /\ ks.rotated = disk.rotated
  /\ \A s \in Slots :
       /\ ks.slots[s].key = disk.slots[s].key /\ ks.slots[s].gen = disk.slots[s].gen
       /\ ks.slots[s].serial = disk.slots[s].serial

(* ... by a certificate: a new key leaves RotatedAt = now behind.          *)
NewCert ==
  LET old == disk.slots[cur]
      new == ks.slots[cur] IN
  /\ ks.gen = disk.gen /\ \A s \in Slots \ {cur} : ks.slots[s] = disk.slots[s]
  /\ new.serial = Len(certs) /\ Len(certs) \in live \ Serials(disk)
  /\ new.key = certs[Len(certs)].key /\ new.gen = ks.gen /\ new.phase = "fresh"
  /\ \/ ks.rotated = disk.rotated /\ (old.key = None \/ old.key = new.key)
     \/ ks.rotated = 0

(* The copy is the record, but for the change to be saved.                 *)
CopyInv ==
  /\ pc \in ({"gen", "certify"} \cup LaterPCs) \ {"assign-save", "revoke-save"} => ks = disk
  /\ pc = "gen-save" => ks = [disk EXCEPT !.gen = disk.gen + 1]
  /\ pc = "cert-save" => NewCert
  /\ pc = "assign-save" => NewServers
  /\ pc \in {"revoking", "revoked", "revoke-save"} => disk.rotated >= RevokeAfter
  /\ pc = "revoke-save" => ks = [disk EXCEPT !.rotated = Never]

(* A tick never lists what a slot holds, a logout lists everything.        *)
QueueInv ==
  /\ pc = "revoking" => queue \cap Serials(disk) = {}
  /\ pc = "logout-revoking" => queue = live

(* Without an error every slot that the tick has passed is certified.      *)
Certified(s) == ks.slots[s].key # None /\ ks.slots[s].gen = ks.gen /\ ks.slots[s].phase = "fresh"
Passed(s) ==
  \/ pc \in LaterPCs
  \/ pc \in {"certify", "cert-save"} /\ s < cur
  \/ pc = "cert-save" /\ s = cur
CertifiedInv ==
  /\ pc \in {"idle"} \cup EarlyPCs => cur = 1
  /\ ~err => \A s \in Slots : Passed(s) => Certified(s)

(* The rotation of the process is over before its first certificate, and   *)
(* still to come in a logout.                                              *)
RotateInv ==
  /\ rotate => RotateOnStart
  /\ pc = "gen-save" => rotate
  /\ pc \in TickPCs => ~rotate
  /\ pc \in LogoutPCs => rotate /\ status = "none"

CurrentValid(k) ==
  \A s \in Slots : k.slots[s].key # None /\ k.slots[s].gen = k.gen => k.slots[s].serial \in live

(* The certificates of the current generation in the record are valid, or  *)
(* the next tick rotates.                                                  *)
ValidInv == rotate \/ CurrentValid(disk)

(* The two inductive invariants.                                           *)
KeyInv == FileInv /\ TickTypes /\ CopyInv /\ QueueInv
OKInv == CertifiedInv /\ RotateInv /\ ValidInv /\ OKIsCurrent

-----------------------------------------------------------------------------
(* Constants and sequences.                                                *)

(* What the constants are.                                                 *)
LEMMA ProtonConstants ==
  /\ RevokeAfter \in Nat /\ RevokeAfter >= 1 /\ N \in Nat /\ N >= 1 /\ 1 \in Slots
  /\ Held = -1 /\ Never = -1 /\ None = 0
  /\ NoKeys \in KeysRec /\ NoKeys.rotated = Never
  /\ \A s \in Slots : NoKeys.slots[s].key = 0 /\ NoKeys.slots[s].serial = 0 /\ NoKeys.slots[s].gen = 0
  /\ NoKeys.gen = 1
  /\ Serials(NoKeys) = {}
<1>1. /\ RevokeAfter \in Nat /\ RevokeAfter >= 1 /\ N \in Nat /\ N >= 1 /\ 1 \in Slots
      /\ Held = -1 /\ Never = -1 /\ None = 0
  BY ProtonAssumption DEF Slots, Held, Never, None
<1>2. NoSlot \in SlotRec
  BY <1>1 DEF NoSlot, SlotRec
<1>3. NoKeys \in KeysRec
  BY <1>1, <1>2 DEF NoKeys, KeysRec
<1>4. \A s \in Slots : NoKeys.slots[s].key = 0 /\ NoKeys.slots[s].serial = 0 /\ NoKeys.slots[s].gen = 0
  BY <1>1 DEF NoKeys, NoSlot
<1>5. Serials(NoKeys) = {}
  BY <1>1, <1>4 DEF Serials
<1> QED BY <1>1, <1>3, <1>4, <1>5 DEF NoKeys

(* One more certificate.                                                   *)
LEMMA AppendRested ==
  ASSUME NEW n \in Nat, NEW f \in [1..n -> -1..RevokeAfter]
  PROVE  /\ Append(f, RevokeAfter) \in [1..(n + 1) -> -1..RevokeAfter]
         /\ Append(f, RevokeAfter)[n + 1] = RevokeAfter
         /\ \A c \in 1..n : Append(f, RevokeAfter)[c] = f[c]
<1> DEFINE S == -1..RevokeAfter
<1>1. RevokeAfter \in S /\ f \in [1..n -> S]
  BY ProtonConstants
<1> HIDE DEF S
<1>2. f \in Seq(S)
  BY <1>1, SeqDef
<1>3. Len(f) = n
  BY <1>1, <1>2
<1>4. Append(f, RevokeAfter) \in Seq(S) /\ Len(Append(f, RevokeAfter)) = n + 1
  BY <1>1, <1>2, <1>3
<1>5. Append(f, RevokeAfter) \in [1..(n + 1) -> S]
  BY <1>4, LenProperties
<1>6. /\ Append(f, RevokeAfter)[n + 1] = RevokeAfter
      /\ \A c \in 1..n : Append(f, RevokeAfter)[c] = f[c]
  BY <1>1, <1>2, <1>3
<1> QED BY <1>5, <1>6 DEF S

(* The fields of a record and of a slot.                                   *)
LEMMA RecordFields ==
  ASSUME NEW k \in KeysRec, NEW s \in Slots
  PROVE  /\ k.gen \in Nat /\ k.gen >= 1 /\ k.rotated \in -1..RevokeAfter /\ k.slots \in [Slots -> SlotRec]
         /\ k.slots[s].key \in Nat /\ k.slots[s].gen \in Nat /\ k.slots[s].serial \in Nat
BY DEF KeysRec, SlotRec, Never

(* The serials that a record holds.                                        *)
LEMMA SerialsIn ==
  ASSUME NEW k, NEW c
  PROVE  c \in Serials(k) <=> c # 0 /\ \E s \in Slots : k.slots[s].serial = c
BY DEF Serials, None

-----------------------------------------------------------------------------
(* The record: saves, certificates, time.                                  *)

(* Writing k keeps what the record promises of the certificates.           *)
Fits(k) ==
  /\ k \in KeysRec /\ WellFormed(k)
  /\ \A c \in live \ Serials(k) :
       \/ \E s \in Slots : k.slots[s].key = certs[c].key
       \/ c \in Serials(disk) /\ k.rotated = 0
       \/ /\ c \notin Serials(disk)
          /\ rested[c] >= RevokeAfter \/ (k.rotated # Never /\ rested[c] >= k.rotated)

(* A record that fits may be written.                                      *)
LEMMA WriteKeeps ==
  ASSUME FileInv, NEW k, Fits(k), Write(k), UNCHANGED apiVars
  PROVE  FileInv'
<1> USE ProtonConstants DEF apiVars
<1>1. Issues' = Issues /\ DOMAIN rested = Issues
  BY DEF Issues, FileInv, FileTypes
<1>2. \A c \in Issues : rested[c] \in -1..RevokeAfter
  BY DEF FileInv, FileTypes
<1>3. \A c \in Issues :
        rested'[c] = IF c \in Serials(k) THEN -1 ELSE IF rested[c] = -1 THEN 0 ELSE rested[c]
  BY <1>1 DEF Write
<1>4. rested' \in [Issues -> -1..RevokeAfter]
  BY <1>1, <1>2 DEF Write
<1>5. FileTypes'
  BY <1>1, <1>4 DEF FileTypes, FileInv, Fits, Write
<1>6. WellFormed(disk)'
  BY <1>1 DEF Fits, Write, WellFormed
<1>7. Serials(disk)' = Serials(k)
  BY DEF Write, Serials
<1>8. HeldExactly'
  BY <1>1, <1>2, <1>3, <1>7 DEF HeldExactly
<1>9. ASSUME NEW c \in live', c \notin Serials(disk)' PROVE Waits(c)'
  <2>1. c \in live /\ c \notin Serials(k) /\ c \in Issues
    BY <1>7, <1>9 DEF FileInv, FileTypes
  <2>2. rested'[c] = IF rested[c] = -1 THEN 0 ELSE rested[c]
    BY <1>3, <2>1
  <2>3. rested[c] = -1 <=> c \in Serials(disk)
    BY <2>1 DEF FileInv, HeldExactly
  <2>4. \/ \E s \in Slots : k.slots[s].key = certs[c].key
        \/ k.rotated = 0 /\ rested'[c] = 0
        \/ rested'[c] >= RevokeAfter \/ (k.rotated # -1 /\ rested'[c] >= k.rotated)
    BY <2>1, <2>2, <2>3 DEF Fits
  <2>5. disk' = k /\ certs' = certs
    BY DEF Write
  <2> QED BY <2>4, <2>5 DEF Waits
<1> QED BY <1>5, <1>6, <1>8, <1>9 DEF FileInv

(* Steps that change nothing of the API and the record.                    *)
LEMMA FileSame ==
  ASSUME FileInv, UNCHANGED <<certs, live, rested, disk>>
  PROVE  FileInv'
BY DEF FileInv, FileTypes, Issues, WellFormed, HeldExactly, Waits, Serials

(* A revocation only takes valid certificates away.                        *)
LEMMA RevokeKeeps ==
  ASSUME FileInv, live' \subseteq live, UNCHANGED <<certs, rested, disk>>
  PROVE  FileInv'
BY DEF FileInv, FileTypes, Issues, WellFormed, HeldExactly, Waits, Serials

(* A new certificate, which nobody holds yet.                              *)
LEMMA IssueKeeps ==
  ASSUME FileInv, Issued, Key \in Nat \ {0}, ks.gen \in Nat \ {0}, UNCHANGED disk
  PROVE  /\ FileInv'
         /\ Len(certs') = Serial /\ Serial \in live' /\ Serial \notin Serials(disk)
         /\ certs'[Serial] = [key |-> Key, gen |-> ks.gen]
         /\ Issues \subseteq Issues' /\ live \subseteq live'
         /\ \A c \in Issues : certs'[c] = certs[c]
<1> USE ProtonConstants
<1> DEFINE n == Len(certs)
           new == [key |-> Key, gen |-> ks.gen]
<1>1. new \in Cert
  BY DEF Cert
<1>2. /\ n \in Nat /\ certs \in Seq(Cert) /\ Issues = 1..n
  BY DEF FileInv, FileTypes, Issues
<1>3. /\ certs' = Append(certs, new) /\ live' = live \cup {n + 1}
      /\ rested' = Append(rested, RevokeAfter) /\ Serial = n + 1
  BY DEF Issued, Serial
<1>4. /\ certs' \in Seq(Cert) /\ Len(certs') = n + 1 /\ certs'[n + 1] = new
      /\ \A c \in 1..n : certs'[c] = certs[c]
  BY <1>1, <1>2, <1>3
<1>5. /\ rested' \in [1..(n + 1) -> -1..RevokeAfter] /\ rested'[n + 1] = RevokeAfter
      /\ \A c \in 1..n : rested'[c] = rested[c]
  <2>1. rested \in [1..n -> -1..RevokeAfter] /\ RevokeAfter \in -1..RevokeAfter
    BY <1>2 DEF FileInv, FileTypes
  <2> HIDE DEF n
  <2>2. /\ Append(rested, RevokeAfter) \in [1..(n + 1) -> -1..RevokeAfter]
        /\ Append(rested, RevokeAfter)[n + 1] = RevokeAfter
        /\ \A c \in 1..n : Append(rested, RevokeAfter)[c] = rested[c]
    BY <1>2, <2>1, AppendRested
  <2> QED BY <1>3, <2>2
<1>6. Issues' = 1..(n + 1)
  BY <1>4 DEF Issues
<1> HIDE DEF n
<1>7. \A c \in Issues' : c \in Issues \/ c = n + 1
  BY <1>2, <1>6
<1>8. Issues \subseteq Issues' /\ n + 1 \in Issues' /\ n + 1 \notin Issues
  BY <1>2, <1>6
<1>9. Serials(disk)' = Serials(disk)
  BY DEF Serials
<1>10. \A c \in Serials(disk) : c \in Issues
  BY SerialsIn DEF FileInv, WellFormed
<1>11. FileTypes'
  <2>1. live' \subseteq Issues'
    BY <1>3, <1>8 DEF FileInv, FileTypes
  <2> QED BY <1>4, <1>5, <1>6, <2>1 DEF FileInv, FileTypes
<1>12. WellFormed(disk)'
  BY <1>2, <1>4, <1>8 DEF FileInv, WellFormed
<1>13. HeldExactly'
  BY <1>2, <1>5, <1>7, <1>8, <1>9, <1>10 DEF FileInv, HeldExactly
<1>14. ASSUME NEW c \in live', c \notin Serials(disk)' PROVE Waits(c)'
  <2>1. CASE c = n + 1
    BY <1>5, <2>1 DEF Waits
  <2>2. CASE c # n + 1
    <3>1. c \in live /\ c \in 1..n /\ Waits(c)
      BY <1>2, <1>3, <1>9, <1>14, <2>2 DEF FileInv, FileTypes
    <3> QED BY <1>4, <1>5, <3>1 DEF Waits
  <2> QED BY <2>1, <2>2
<1> QED BY <1>2, <1>3, <1>4, <1>8, <1>10, <1>11, <1>12, <1>13, <1>14 DEF FileInv

(* Time: what waits gets older, RotatedAt no faster.                       *)
LEMMA AdvanceKeeps == ASSUME FileInv, Advance PROVE FileInv'
<1> USE ProtonConstants DEF Advance, apiVars
<1>1. Issues' = Issues /\ DOMAIN rested = Issues
  BY DEF Issues, FileInv, FileTypes
<1>2. \A a \in -1..RevokeAfter :
        /\ Older(a) \in -1..RevokeAfter /\ (Older(a) = -1 <=> a = -1) /\ a <= Older(a)
        /\ \A b \in -1..RevokeAfter : a >= b => Older(a) >= Older(b)
  BY DEF Older
<1>3. \A c \in Issues : rested[c] \in -1..RevokeAfter /\ rested'[c] = Older(rested[c])
  BY <1>1 DEF FileInv, FileTypes
<1>4. /\ disk' \in KeysRec /\ disk'.gen = disk.gen /\ disk'.slots = disk.slots
      /\ disk.rotated \in -1..RevokeAfter /\ disk'.rotated = Older(disk.rotated)
  BY <1>2 DEF FileInv, FileTypes, KeysRec
<1>5. Serials(disk)' = Serials(disk)
  BY <1>4 DEF Serials
<1>6. FileTypes'
  BY <1>1, <1>2, <1>3, <1>4 DEF FileInv, FileTypes
<1>7. WellFormed(disk)'
  BY <1>1, <1>4 DEF FileInv, WellFormed
<1>8. HeldExactly'
  BY <1>1, <1>2, <1>3, <1>5 DEF FileInv, HeldExactly
<1>9. ASSUME NEW c \in live', c \notin Serials(disk)' PROVE Waits(c)'
  <2>1. c \in Issues /\ Waits(c)
    BY <1>5, <1>9 DEF FileInv, FileTypes
  <2>2. rested[c] \in -1..RevokeAfter /\ rested'[c] = Older(rested[c])
    BY <1>3, <2>1
  <2>3. rested[c] >= RevokeAfter => rested'[c] >= RevokeAfter
    BY <1>2, <2>2
  <2>4. disk.rotated # Never /\ rested[c] >= disk.rotated =>
          disk'.rotated # Never /\ rested'[c] >= disk'.rotated
    BY <1>2, <1>4, <2>2
  <2> HIDE DEF Advance
  <2>5. certs' = certs
    BY DEF Advance
  <2> QED BY <1>4, <2>1, <2>3, <2>4, <2>5 DEF Waits
<1> QED BY <1>6, <1>7, <1>8, <1>9 DEF FileInv

(* A certificate that comes of age keeps its slot, key and serial.         *)
LEMMA AgeKeeps ==
  ASSUME FileInv, Age
  PROVE  /\ FileInv'
         /\ disk'.gen = disk.gen
         /\ \A t \in Slots : /\ disk'.slots[t].key = disk.slots[t].key
                              /\ disk'.slots[t].gen = disk.slots[t].gen
                              /\ disk'.slots[t].serial = disk.slots[t].serial
<1> USE DEF apiVars
<1> PICK s \in Slots :
      disk' = [disk EXCEPT !.slots[s].phase = IF @ = "fresh" THEN "due" ELSE "expired"]
  BY DEF Age
<1>1. UNCHANGED <<certs, live, rested>>
  BY DEF Age
<1>2. disk \in KeysRec
  BY DEF FileInv, FileTypes
<1>3. disk' \in KeysRec /\ disk'.gen = disk.gen /\ disk'.rotated = disk.rotated
  BY <1>2 DEF KeysRec, SlotRec
<1>4. \A t \in Slots : /\ disk'.slots[t].key = disk.slots[t].key
                       /\ disk'.slots[t].gen = disk.slots[t].gen
                       /\ disk'.slots[t].serial = disk.slots[t].serial
  BY <1>2 DEF KeysRec, SlotRec
<1>5. Serials(disk)' = Serials(disk)
  BY <1>4 DEF Serials
<1>6. FileTypes'
  BY <1>1, <1>3 DEF FileInv, FileTypes, Issues
<1>7. WellFormed(disk)'
  BY <1>1, <1>3, <1>4 DEF FileInv, WellFormed, Issues
<1>8. HeldExactly'
  BY <1>1, <1>5 DEF FileInv, HeldExactly, Issues
<1>9. \A c \in live : Waits(c) => Waits(c)'
  BY <1>1, <1>3, <1>4 DEF Waits
<1> QED BY <1>1, <1>3, <1>4, <1>5, <1>6, <1>7, <1>8, <1>9 DEF FileInv

-----------------------------------------------------------------------------
(* What the tick has in hand at a save may be written.                     *)

(* What is on disk fits.                                                   *)
LEMMA RecordFits == ASSUME FileInv PROVE Fits(disk)
BY DEF FileInv, FileTypes, Fits, Waits

(* So does a record with a new generation (newGeneration).                 *)
LEMMA GenFits ==
  ASSUME FileInv, ks \in KeysRec, ks = [disk EXCEPT !.gen = disk.gen + 1]
  PROVE  Fits(ks)
<1>1. ks.gen = disk.gen + 1 /\ ks.rotated = disk.rotated /\ ks.slots = disk.slots
  BY DEF FileInv, FileTypes, KeysRec
<1>2. WellFormed(ks)
  BY <1>1, RecordFields DEF FileInv, FileTypes, WellFormed
<1>3. Serials(ks) = Serials(disk)
  BY <1>1 DEF Serials
<1> QED BY <1>1, <1>2, <1>3 DEF Fits, FileInv, Waits

(* So does one with other servers (assign).                                *)
LEMMA ServersFit == ASSUME FileInv, ks \in KeysRec, NewServers PROVE Fits(ks)
<1>1. WellFormed(ks)
  BY DEF FileInv, WellFormed, NewServers
<1>2. Serials(ks) = Serials(disk)
  BY DEF Serials, NewServers
<1> QED BY <1>1, <1>2 DEF Fits, FileInv, Waits, NewServers

(* So does one whose rotation is revoked (revokeOld).                      *)
LEMMA DoneFits ==
  ASSUME FileInv, ks \in KeysRec, ks = [disk EXCEPT !.rotated = Never], disk.rotated >= RevokeAfter
  PROVE  Fits(ks)
<1>1. ks.gen = disk.gen /\ ks.slots = disk.slots
  BY DEF FileInv, FileTypes, KeysRec
<1>2. WellFormed(ks)
  BY <1>1 DEF FileInv, WellFormed
<1>3. Serials(ks) = Serials(disk)
  BY <1>1 DEF Serials
<1>4. ASSUME NEW c \in live, c \notin Serials(disk)
      PROVE  rested[c] >= RevokeAfter \/ \E s \in Slots : disk.slots[s].key = certs[c].key
  <2>1. Waits(c) /\ rested[c] \in -1..RevokeAfter /\ disk.rotated \in -1..RevokeAfter
    BY <1>4, ProtonConstants DEF FileInv, FileTypes, KeysRec
  <2> QED BY <2>1, ProtonConstants DEF Waits
<1> QED BY <1>1, <1>2, <1>3, <1>4 DEF Fits

(* The slot that rotated leaves its old key with RotatedAt = now, the one  *)
(* that renewed keeps its key, and the one without a key leaves nothing.   *)
LEMMA CertFits == ASSUME FileInv, ks \in KeysRec, cur \in Slots, NewCert PROVE Fits(ks)
<1> USE ProtonConstants
<1>1. \A s \in Slots \ {cur} : ks.slots[s] = disk.slots[s]
  BY DEF NewCert
<1>2. /\ ks.slots[cur].serial = Len(certs) /\ Len(certs) \in live /\ live \subseteq Issues
      /\ ks.slots[cur].key = certs[Len(certs)].key
      /\ ks.slots[cur].gen = ks.gen /\ ks.gen = disk.gen
  BY DEF NewCert, FileInv, FileTypes
<1>3. \A c \in Issues : c \in Nat /\ c # 0 /\ certs[c].key \in Nat \ {0}
  <2>1. \A c \in Issues : c \in Nat /\ c # 0 /\ certs[c] \in Cert
    BY ElementOfSeq DEF Issues, FileInv, FileTypes
  <2> QED BY <2>1 DEF Cert
<1>4. WellFormed(ks)
  <2> SUFFICES ASSUME NEW s \in Slots
               PROVE  /\ ks.slots[s].gen <= ks.gen
                      /\ ks.slots[s].key = None <=> ks.slots[s].serial = None
                      /\ ks.slots[s].serial # None =>
                           /\ ks.slots[s].serial \in Issues
                           /\ certs[ks.slots[s].serial].key = ks.slots[s].key
    BY DEF WellFormed
  <2>1. CASE s = cur
    BY <1>2, <1>3, <2>1, RecordFields
  <2>2. CASE s # cur
    BY <1>1, <1>2, <2>2 DEF FileInv, WellFormed
  <2> QED BY <2>1, <2>2
<1>5. ASSUME NEW c \in live, c \notin Serials(ks)
      PROVE  \/ \E s \in Slots : ks.slots[s].key = certs[c].key
             \/ c \in Serials(disk) /\ ks.rotated = 0
             \/ /\ c \notin Serials(disk)
                /\ rested[c] >= RevokeAfter \/ (ks.rotated # Never /\ rested[c] >= ks.rotated)
  <2>1. c \in Issues /\ c \in Nat /\ certs[c].key # 0 /\ rested[c] \in -1..RevokeAfter
    BY <1>3 DEF FileInv, FileTypes
  <2>2. CASE c \in Serials(disk)
    <3>1. PICK s \in Slots : disk.slots[s].serial = c
      BY <2>2, SerialsIn
    <3>2. disk.slots[s].key = certs[c].key
      BY <1>3, <2>1, <3>1 DEF FileInv, WellFormed
    <3>3. s = cur
      BY <1>1, <1>3, <1>5, <2>1, <3>1, SerialsIn
    <3> QED BY <2>1, <2>2, <3>2, <3>3 DEF NewCert
  <2>3. CASE c \notin Serials(disk)
    <3>1. Waits(c) /\ rested[c] # -1
      BY <2>1, <2>3 DEF FileInv, HeldExactly
    <3>2. CASE ks.rotated = 0
      BY <2>1, <2>3, <3>1, <3>2
    <3>3. CASE ks.rotated = disk.rotated /\ (disk.slots[cur].key = None \/ disk.slots[cur].key = ks.slots[cur].key)
      <4>1. ASSUME NEW s \in Slots, disk.slots[s].key = certs[c].key
            PROVE  ks.slots[s].key = certs[c].key
        BY <1>1, <2>1, <3>3, <4>1
      <4> QED BY <2>3, <3>1, <3>3, <4>1 DEF Waits
    <3> QED BY <3>2, <3>3 DEF NewCert
  <2> QED BY <2>2, <2>3
<1> QED BY <1>4, <1>5 DEF Fits

-----------------------------------------------------------------------------
(* Every step keeps KeyInv.                                                *)

States == {"none", "ok", "error", "needs_login"}

(* The end of a tick, of a logout and of a process.                        *)
LEMMA ToIdle ==
  ASSUME FileInv', Idle, out' \in [Slots -> Nat], status' \in States, rotate' \in BOOLEAN
  PROVE  KeyInv'
BY ProtonConstants
   DEF Idle, KeyInv, TickTypes, CopyInv, QueueInv, States, EarlyPCs, TickPCs, LaterPCs, LogoutPCs

(* The record is written or stays, and the tick fails.                     *)
LEMMA SaveFails ==
  ASSUME KeyInv, Fits(ks), UNCHANGED apiVars, Write(ks) \/ UNCHANGED <<disk, rested>>, Fail("error"),
         rotate' \in BOOLEAN
  PROVE  KeyInv'
<1>1. FileInv'
  BY WriteKeeps, FileSame DEF KeyInv, apiVars
<1> QED BY <1>1, ToIdle DEF KeyInv, TickTypes, Fail, States

(* A call that needs a new login ends the tick.                            *)
LEMMA LoginFails ==
  ASSUME KeyInv, NeedsLogin
  PROVE  KeyInv'
<1>1. FileInv'
  BY FileSame DEF KeyInv, NeedsLogin, apiVars
<1> QED BY <1>1, ToIdle DEF KeyInv, TickTypes, NeedsLogin, Fail, States

(* KeyInv through the start of a tick (Tick).                              *)
LEMMA TickStartKeeps == ASSUME KeyInv, TickStart PROVE KeyInv'
<1>1. FileInv' /\ UNCHANGED rotate
  BY FileSame DEF KeyInv, TickStart, apiVars
<1>2. CASE ks' = disk /\ pc' = "gen" /\ UNCHANGED <<out, status, cur, queue, err>>
  BY <1>1, <1>2
  DEF KeyInv, TickStart, TickTypes, CopyInv, QueueInv, FileInv, FileTypes, Issues, apiVars,
      EarlyPCs, TickPCs, LaterPCs, LogoutPCs
<1>3. CASE Fail("error") \/ Fail("needs_login")
  BY <1>1, <1>3, ToIdle DEF Fail, KeyInv, TickTypes, States
<1> QED BY <1>2, <1>3 DEF TickStart

(* KeyInv through a new generation and its save.                           *)
LEMMA GenerationKeeps == ASSUME KeyInv, NewGeneration \/ GenerationSave PROVE KeyInv'
<1>1. CASE NewGeneration
  <2>1. FileInv'
    BY <1>1, FileSame DEF KeyInv, NewGeneration, apiVars, fileVars
  <2>2. ks = disk /\ UNCHANGED <<certs, disk, out, status, cur, queue, err>>
    BY <1>1 DEF KeyInv, NewGeneration, CopyInv, apiVars, fileVars
  <2>3. ks.gen \in Nat /\ [ks EXCEPT !.gen = @ + 1] \in KeysRec
    BY DEF KeyInv, TickTypes, KeysRec
  <2>4. CASE ks' = [ks EXCEPT !.gen = @ + 1] /\ pc' = "gen-save" /\ UNCHANGED rotate
    BY <2>1, <2>2, <2>3, <2>4
    DEF KeyInv, TickTypes, CopyInv, QueueInv, Issues, EarlyPCs, TickPCs, LaterPCs, LogoutPCs
  <2>5. CASE rotate' = FALSE /\ pc' = "certify" /\ UNCHANGED ks
    BY <2>1, <2>2, <2>5
    DEF KeyInv, TickTypes, CopyInv, QueueInv, Issues, EarlyPCs, TickPCs, LaterPCs, LogoutPCs
  <2> QED BY <1>1, <2>4, <2>5 DEF NewGeneration
<1>2. CASE GenerationSave
  <2>1. Fits(ks) /\ UNCHANGED apiVars /\ rotate' \in BOOLEAN
    BY <1>2, GenFits DEF GenerationSave, SaveThen, KeyInv, CopyInv, TickTypes
  <2>2. CASE Write(ks) /\ pc' = "certify" /\ UNCHANGED <<out, status, tickVars>>
    <3>1. FileInv'
      BY <2>1, <2>2, WriteKeeps DEF KeyInv
    <3>2. disk' = ks
      BY <2>2 DEF Write
    <3> QED BY <2>1, <2>2, <3>1, <3>2
        DEF KeyInv, TickTypes, CopyInv, QueueInv, Issues, EarlyPCs, TickPCs, LaterPCs, LogoutPCs,
            tickVars, apiVars
  <2>3. CASE (Write(ks) \/ UNCHANGED <<disk, rested>>) /\ Fail("error")
    BY <2>1, <2>3, SaveFails
  <2> QED BY <1>2, <2>2, <2>3 DEF GenerationSave, SaveThen
<1> QED BY <1>1, <1>2

(* The next slot, or the servers.                                          *)
LEMMA NextSlotCases ==
  ASSUME cur \in Slots, NextSlot
  PROVE  \/ cur = N /\ pc' = "assign" /\ cur' = 1 /\ cur' \in Slots
         \/ cur < N /\ pc' = "certify" /\ cur' = cur + 1 /\ cur' \in Slots
BY ProtonConstants DEF NextSlot, Slots

(* The slot in turn after its request.                                     *)
NewCopy ==
  [ks EXCEPT
    !.slots[cur] = [@ EXCEPT !.key = Key, !.gen = ks.gen, !.serial = Serial, !.phase = "fresh"],
    !.rotated = IF IsNew THEN Rotated(ks) ELSE @]

(* The copy after a certificate of the slot.                               *)
LEMMA NewSlot ==
  ASSUME ks \in KeysRec, cur \in Slots
  PROVE  /\ NewCopy.gen = ks.gen
         /\ NewCopy.rotated = IF IsNew THEN Rotated(ks) ELSE ks.rotated
         /\ \A s \in Slots \ {cur} : NewCopy.slots[s] = ks.slots[s]
         /\ NewCopy.slots[cur].key = Key /\ NewCopy.slots[cur].serial = Serial
         /\ NewCopy.slots[cur].gen = ks.gen /\ NewCopy.slots[cur].phase = "fresh"
BY DEF NewCopy, KeysRec, SlotRec

(* KeyInv through a certificate (certify).                                 *)
LEMMA CertifyKeeps == ASSUME KeyInv, Certify \/ CertifyNothing PROVE KeyInv'
<1> USE DEF KeyInv
<1>1. ks = disk /\ cur \in Slots
  BY DEF CopyInv, TickTypes, Certify, CertifyNothing
<1>2. CASE NextSlot /\ FileInv' /\ Issues \subseteq Issues' /\ err' \in BOOLEAN
           /\ UNCHANGED <<disk, out, status, rotate, queue, ks>>
  BY <1>1, <1>2, NextSlotCases
  DEF TickTypes, CopyInv, QueueInv, EarlyPCs, TickPCs, LaterPCs, LogoutPCs
<1>3. CASE CertifyNothing
  <2>1. FileInv' /\ Issues' = Issues
    BY <1>3, FileSame DEF CertifyNothing, apiVars, fileVars, Issues
  <2> QED BY <1>2, <1>3, <2>1 DEF CertifyNothing, apiVars, fileVars, TickTypes
<1>4. CASE Certify
  <2>1. Key \in Nat \ {0} /\ ks.gen \in Nat \ {0}
    <3>1. Serial \in Nat \ {0}
      BY DEF Serial, FileInv, FileTypes
    <3>2. me.key \in Nat /\ (me.key = None => IsNew)
      BY <1>1, RecordFields DEF me, IsNew, TickTypes
    <3> QED BY <3>1, <3>2, ProtonConstants DEF Key, TickTypes, KeysRec
  <2>2. CASE /\ Issued
             /\ ks' = NewCopy
             /\ pc' = "cert-save"
             /\ UNCHANGED <<cur, err>>
    <3>1. UNCHANGED <<disk, out, status, rotate, queue, cur, err>>
      BY <1>4, <2>2 DEF Certify
    <3>2. /\ FileInv' /\ Len(certs') = Serial /\ Serial \in live' /\ Serial \notin Serials(disk)
          /\ certs'[Serial].key = Key /\ Issues \subseteq Issues'
      BY <2>1, <2>2, <3>1, IssueKeeps
    <3>3. Serial \in Nat /\ Key \in Nat /\ ks.gen \in Nat \ {0}
      BY <2>1 DEF Serial, FileInv, FileTypes
    <3>4. Rotated(ks) \in -1..RevokeAfter /\ ks \in KeysRec /\ ks.rotated \in -1..RevokeAfter
      BY ProtonConstants, RecordFields DEF Rotated, TickTypes
    <3>5. /\ ks'.gen = ks.gen
          /\ ks'.rotated = IF IsNew THEN Rotated(ks) ELSE ks.rotated
          /\ \A s \in Slots \ {cur} : ks'.slots[s] = ks.slots[s]
          /\ ks'.slots[cur].key = Key /\ ks'.slots[cur].serial = Serial
          /\ ks'.slots[cur].gen = ks.gen /\ ks'.slots[cur].phase = "fresh"
      BY <1>1, <2>2, <3>4, NewSlot
    <3>6. ks' \in KeysRec
      <4> DEFINE sl == [ks.slots[cur] EXCEPT !.key = Key, !.gen = ks.gen, !.serial = Serial, !.phase = "fresh"]
                 at == IF IsNew THEN Rotated(ks) ELSE ks.rotated
      <4>1. ks.slots[cur] \in SlotRec
        BY <1>1, <3>4, RecordFields
      <4>2. sl \in SlotRec
        BY <3>3, <4>1 DEF SlotRec
      <4>3. at \in Never..RevokeAfter
        BY <3>4, ProtonConstants
      <4>4. ks' = [ks EXCEPT !.slots[cur] = sl, !.rotated = at]
        BY <1>1, <2>2, <3>4 DEF KeysRec, NewCopy
      <4> HIDE DEF sl, at
      <4> QED BY <1>1, <3>4, <4>2, <4>3, <4>4 DEF KeysRec
    <3>7. TickTypes'
      BY <2>2, <3>1, <3>2, <3>6 DEF TickTypes, EarlyPCs, TickPCs
    <3>8. \/ ks'.rotated = disk.rotated /\ (disk.slots[cur].key = None \/ disk.slots[cur].key = Key)
          \/ ks'.rotated = 0
      BY <1>1, <3>5 DEF Rotated, IsNew, Key, me
    <3>9. NewCert'
      BY <1>1, <3>1, <3>2, <3>5, <3>8 DEF NewCert, Serials
    <3> QED BY <2>2, <3>2, <3>7, <3>9 DEF CopyInv, QueueInv, LaterPCs
  <2>3. CASE /\ (Issued \/ UNCHANGED <<certs, live, rested>>)
             /\ NextSlot /\ err' = TRUE /\ UNCHANGED ks
    <3>1. UNCHANGED <<disk, out, status, rotate, queue>>
      BY <1>4 DEF Certify
    <3>2. FileInv' /\ Issues \subseteq Issues'
      BY <2>1, <2>3, <3>1, IssueKeeps, FileSame DEF Issues
    <3> QED BY <1>2, <2>3, <3>1, <3>2
  <2> QED BY <1>4, <2>2, <2>3 DEF Certify, NewCopy
<1> QED BY <1>3, <1>4

(* KeyInv through the save of a certificate.                               *)
LEMMA CertSaveKeeps == ASSUME KeyInv, CertSave PROVE KeyInv'
<1>1. Fits(ks) /\ UNCHANGED apiVars /\ UNCHANGED rotate
  BY CertFits DEF CertSave, KeyInv, CopyInv, TickTypes
<1>2. CASE Write(ks) /\ NextSlot /\ UNCHANGED <<out, status, ks, queue, err>>
  <2>1. FileInv' /\ disk' = ks /\ Issues' = Issues
    BY <1>1, <1>2, WriteKeeps DEF KeyInv, Write, Issues, apiVars
  <2>2. cur \in Slots
    BY DEF KeyInv, TickTypes
  <2> QED BY <1>1, <1>2, <2>1, <2>2, NextSlotCases
      DEF KeyInv, TickTypes, CopyInv, QueueInv, EarlyPCs, TickPCs, LaterPCs, LogoutPCs
<1>3. CASE (Write(ks) \/ UNCHANGED <<disk, rested>>) /\ Fail("error")
  BY <1>1, <1>3, SaveFails DEF KeyInv, TickTypes
<1> QED BY <1>2, <1>3 DEF CertSave

(* KeyInv through the assignment of servers and its save.                  *)
LEMMA AssignKeeps == ASSUME KeyInv, Assign \/ AssignSave PROVE KeyInv'
<1>1. CASE Assign
  <2>1. FileInv'
    BY <1>1, FileSame DEF KeyInv, Assign, apiVars, fileVars
  <2>2. ks = disk /\ ks \in KeysRec /\ UNCHANGED <<certs, disk, out, status, rotate, cur, queue, err>>
    BY <1>1 DEF KeyInv, Assign, CopyInv, TickTypes, LaterPCs, apiVars, fileVars
  <2>3. PICK sv \in [Slots -> BOOLEAN] :
          /\ ks' = [ks EXCEPT !.slots = [s \in Slots |-> [@[s] EXCEPT !.server = sv[s]]]]
          /\ pc' = "assign-save" \/ (ks' = ks /\ pc' = "revoke")
    BY <1>1 DEF Assign
  <2>4. [s \in Slots |-> [ks.slots[s] EXCEPT !.server = sv[s]]] \in [Slots -> SlotRec]
    BY <2>2 DEF KeysRec, SlotRec
  <2>5. ks' = [ks EXCEPT !.slots = [s \in Slots |-> [ks.slots[s] EXCEPT !.server = sv[s]]]]
    BY <2>2, <2>3 DEF KeysRec
  <2>6. ks' \in KeysRec
    BY <2>2, <2>4, <2>5 DEF KeysRec
  <2>7. NewServers'
    BY <2>2, <2>5 DEF NewServers, KeysRec, SlotRec
  <2> QED BY <2>1, <2>2, <2>3, <2>6, <2>7
      DEF KeyInv, TickTypes, CopyInv, QueueInv, Issues, EarlyPCs, TickPCs, LaterPCs, LogoutPCs
<1>2. CASE AssignSave
  <2>1. Fits(ks) /\ UNCHANGED apiVars /\ UNCHANGED rotate
    BY <1>2, ServersFit DEF AssignSave, SaveThen, KeyInv, CopyInv, TickTypes
  <2>2. CASE Write(ks) /\ pc' = "revoke" /\ UNCHANGED <<out, status, tickVars>>
    <3>1. FileInv' /\ disk' = ks
      BY <2>1, <2>2, WriteKeeps DEF KeyInv, Write
    <3> QED BY <2>1, <2>2, <3>1
        DEF KeyInv, TickTypes, CopyInv, QueueInv, Issues, EarlyPCs, TickPCs, LaterPCs, LogoutPCs,
            tickVars, apiVars
  <2>3. CASE (Write(ks) \/ UNCHANGED <<disk, rested>>) /\ Fail("error")
    BY <2>1, <2>3, SaveFails DEF KeyInv, TickTypes
  <2> QED BY <1>2, <2>2, <2>3 DEF AssignSave, SaveThen
<1> QED BY <1>1, <1>2

(* A set of naturals that is not empty has a least element.                *)
LEMMA LeastNat ==
  ASSUME NEW Q, Q \subseteq Nat, Q # {}
  PROVE  \E c \in Q : \A d \in Q : c <= d
<1> DEFINE R == {ss \in Nat \X Nat : ss[1] < ss[2]}
<1>1. R = OpToRel(<, Nat)
  BY Zenon DEF OpToRel
<1>2. IsWellFoundedOn(R, Nat)
  BY <1>1, NatLessThanWellFounded, Zenon
<1> HIDE DEF R
<1>3. PICK x \in Q : \A y \in Q : ~(<<y, x>> \in R)
  BY <1>2, WFMin
<1>4. ASSUME NEW y \in Q PROVE x <= y
  <2>1. ~(y < x) /\ x \in Nat /\ y \in Nat
    BY <1>3 DEF R
  <2> QED BY <2>1
<1> QED BY <1>4

(* The least of a set of serials is one of them.                           *)
LEMMA LeastSerial ==
  ASSUME NEW Q, Q \subseteq Nat, Q # {}
  PROVE  (CHOOSE c \in Q : \A d \in Q : c <= d) \in Q
  BY LeastNat

(* The next revocation takes a certificate of the list.                    *)
LEMMA NextRevoked ==
  ASSUME KeyInv, queue # {}
  PROVE  (CHOOSE c \in queue : \A d \in queue : c <= d) \in queue
<1>1. queue \subseteq Nat
  BY DEF KeyInv, TickTypes, Issues
<1> QED BY <1>1, LeastSerial

(* KeyInv through the revocation (revokeOld).                              *)
LEMMA RevokeKeepsInv ==
  ASSUME KeyInv, RevokeNothing \/ RevokeList \/ RevokeOne \/ RevokeListDone \/ RevokeDone \/ RevokeSave
  PROVE  KeyInv'
<1> USE DEF KeyInv, apiVars, fileVars, tickVars, EarlyPCs, TickPCs, LaterPCs, LogoutPCs
<1>1. CASE RevokeNothing
  <2>1. FileInv'
    BY <1>1, FileSame DEF RevokeNothing
  <2> QED BY <1>1, <2>1 DEF RevokeNothing, TickTypes, CopyInv, QueueInv, Issues
<1>2. CASE RevokeList
  <2>1. FileInv' /\ ks = disk
    BY <1>2, FileSame DEF RevokeList, CopyInv
  <2>2. disk.rotated >= RevokeAfter /\ UNCHANGED <<certs, disk, out, status, rotate, cur, ks>>
    BY <1>2, <2>1 DEF RevokeList, RevokeDue
  <2>3. CASE queue' = {c \in live : Matches(c)} /\ pc' = "revoking" /\ UNCHANGED err
    <3>1. queue' \subseteq Issues' /\ queue' \cap Serials(disk) = {}
      BY <2>1, <2>2, <2>3 DEF Matches, FileInv, FileTypes, Issues
    <3>2. Serials(disk)' = Serials(disk)
      BY <2>2 DEF Serials
    <3> QED BY <2>1, <2>2, <2>3, <3>1, <3>2 DEF TickTypes, CopyInv, QueueInv
  <2>4. CASE err' = TRUE /\ pc' = "publish" /\ UNCHANGED queue
    BY <2>1, <2>2, <2>4 DEF TickTypes, CopyInv, QueueInv, Issues
  <2> QED BY <1>2, <2>3, <2>4 DEF RevokeList
<1>3. CASE RevokeOne
  <2>1. UNCHANGED <<certs, disk, rested, out, status, rotate, cur, ks>>
    BY <1>3 DEF RevokeOne
  <2>2. live' \subseteq live /\ queue' \subseteq queue /\ err' \in BOOLEAN /\ pc' \in {pc, "publish"} /\ pc = "revoking"
    BY <1>3 DEF RevokeOne, RevokeFailed, TickTypes
  <2>3. FileInv'
    BY <2>1, <2>2, RevokeKeeps
  <2>4. Serials(disk)' = Serials(disk)
    BY <2>1 DEF Serials
  <2> QED BY <2>1, <2>2, <2>3, <2>4 DEF TickTypes, CopyInv, QueueInv, Issues
<1>4. CASE RevokeListDone
  <2>1. FileInv'
    BY <1>4, FileSame DEF RevokeListDone
  <2> QED BY <1>4, <2>1 DEF RevokeListDone, TickTypes, CopyInv, QueueInv, Issues
<1>5. CASE RevokeDone
  <2>1. FileInv' /\ ks = disk /\ disk.rotated >= RevokeAfter
    BY <1>5, FileSame DEF RevokeDone, CopyInv
  <2>2. UNCHANGED <<certs, disk, out, status, rotate, cur, queue, err>>
    BY <1>5 DEF RevokeDone
  <2>3. [ks EXCEPT !.rotated = Never] \in KeysRec
    BY ProtonConstants DEF TickTypes, KeysRec
  <2>4. CASE ks' = [ks EXCEPT !.rotated = Never] /\ pc' = "revoke-save"
    BY <2>1, <2>2, <2>3, <2>4 DEF TickTypes, CopyInv, QueueInv, Issues
  <2>5. CASE pc' = "publish" /\ UNCHANGED ks
    BY <2>1, <2>2, <2>5 DEF TickTypes, CopyInv, QueueInv, Issues
  <2> QED BY <1>5, <2>4, <2>5 DEF RevokeDone
<1>6. CASE RevokeSave
  <2>1. Fits(ks) /\ UNCHANGED apiVars /\ UNCHANGED rotate
    BY <1>6, DoneFits DEF RevokeSave, SaveThen, CopyInv, TickTypes
  <2>2. CASE Write(ks) /\ pc' = "publish" /\ UNCHANGED <<out, status, tickVars>>
    <3>1. FileInv' /\ disk' = ks
      BY <2>1, <2>2, WriteKeeps DEF Write
    <3> QED BY <2>1, <2>2, <3>1 DEF TickTypes, CopyInv, QueueInv, Issues
  <2>3. CASE (Write(ks) \/ UNCHANGED <<disk, rested>>) /\ Fail("error")
    BY <2>1, <2>3, SaveFails DEF TickTypes
  <2> QED BY <1>6, <2>2, <2>3 DEF RevokeSave, SaveThen
<1> QED BY <1>1, <1>2, <1>3, <1>4, <1>5, <1>6

(* KeyInv through the publication.                                         *)
LEMMA PublishKeeps == ASSUME KeyInv, Publish PROVE KeyInv'
<1>1. FileInv' /\ UNCHANGED rotate /\ Idle /\ status' \in States
  BY FileSame DEF KeyInv, Publish, apiVars, Fail, States
<1>2. Lines \in [Slots -> Nat]
  BY RecordFields, ProtonConstants DEF Lines, KeyInv, TickTypes
<1>3. out' \in {out, Lines}
  BY DEF Publish, Fail
<1> QED BY <1>1, <1>2, <1>3, ToIdle DEF KeyInv, TickTypes

(* KeyInv through a logout.                                                *)
LEMMA LogoutKeepsInv == ASSUME KeyInv, Logout PROVE KeyInv'
<1> USE DEF KeyInv, apiVars, fileVars, tickVars, EarlyPCs, TickPCs, LaterPCs, LogoutPCs
<1>1. CASE LogoutStart
  <2>1. FileInv' /\ rotate' \in BOOLEAN
    BY <1>1, FileSame, ProtonAssumption DEF LogoutStart, NewProcess
  <2> QED BY <1>1, <2>1 DEF LogoutStart, NewProcess, TickTypes, CopyInv, QueueInv, Issues
<1>2. CASE LogoutList
  <2>1. UNCHANGED <<certs, live, rested, disk, out, status, rotate>>
    BY <1>2 DEF LogoutList, LogoutFails
  <2>2. FileInv'
    BY <2>1, FileSame
  <2>3. CASE queue' = live /\ pc' = "logout-revoking" /\ UNCHANGED <<cur, ks, err>>
    BY <2>1, <2>2, <2>3 DEF TickTypes, CopyInv, QueueInv, Issues, FileInv, FileTypes
  <2>4. CASE Idle
    BY <2>1, <2>2, <2>4, ToIdle DEF TickTypes, States
  <2> QED BY <1>2, <2>3, <2>4 DEF LogoutList, LogoutFails
<1>3. CASE LogoutRevoke
  <2>1. UNCHANGED <<certs, rested, disk, out, status, rotate>> /\ live' \subseteq live
    BY <1>3 DEF LogoutRevoke, LogoutFails
  <2>2. FileInv'
    BY <2>1, RevokeKeeps
  <2>3. CASE Idle
    BY <2>1, <2>2, <2>3, ToIdle DEF TickTypes, States
  <2>4. CASE ~Idle
    <3>1. PICK c \in queue : live' = live \ {c} /\ queue' = queue \ {c} /\ UNCHANGED <<pc, cur, ks, err>>
      BY <1>3, <2>4, NextRevoked DEF LogoutRevoke, LogoutFails
    <3> QED BY <1>3, <2>1, <2>2, <3>1 DEF LogoutRevoke, TickTypes, CopyInv, QueueInv, Issues
  <2> QED BY <2>3, <2>4
<1>4. CASE LogoutKeys
  <2>1. live = {} /\ UNCHANGED <<certs, live, out, status, rotate>>
    BY <1>4 DEF LogoutKeys, QueueInv
  <2>2. Fits(NoKeys)
    BY <2>1, ProtonConstants DEF Fits, WellFormed
  <2>3. FileInv'
    BY <1>4, <2>1, <2>2, WriteKeeps, FileSame DEF LogoutKeys, LogoutFails
  <2>4. CASE Idle
    BY <2>1, <2>3, <2>4, ToIdle DEF TickTypes, States
  <2>5. CASE pc' = "logout-session" /\ UNCHANGED tickVars
    BY <2>1, <2>3, <2>5 DEF TickTypes, CopyInv, QueueInv, Issues
  <2> QED BY <1>4, <2>4, <2>5 DEF LogoutKeys, LogoutFails
<1>5. CASE LogoutSession
  <2>1. FileInv'
    BY <1>5, FileSame DEF LogoutSession
  <2> QED BY <1>5, <2>1, ToIdle DEF LogoutSession, TickTypes, States
<1> QED BY <1>1, <1>2, <1>3, <1>4, <1>5 DEF Logout

(* KeyInv through crashes, logins and time.                                *)
LEMMA OthersKeep == ASSUME KeyInv, Crash \/ Login \/ Age \/ Advance PROVE KeyInv'
<1> USE DEF KeyInv, apiVars, fileVars, tickVars, EarlyPCs, TickPCs, LaterPCs, LogoutPCs
<1>1. CASE Crash
  <2>1. FileInv'
    BY <1>1, FileSame DEF Crash
  <2> QED BY <1>1, <2>1, ToIdle, ProtonAssumption DEF Crash, NewProcess, TickTypes, States
<1>2. CASE Login
  <2>1. FileInv' /\ rotate' \in BOOLEAN
    BY <1>2, FileSame, ProtonAssumption DEF Login, NewProcess
  <2> QED BY <1>2, <2>1 DEF Login, NewProcess, TickTypes, CopyInv, QueueInv, Issues
<1>3. CASE Age
  <2>1. FileInv'
    BY <1>3, AgeKeeps
  <2> QED BY <1>3, <2>1 DEF Age, TickTypes, CopyInv, QueueInv, Issues
<1>4. CASE Advance
  <2>1. FileInv'
    BY <1>4, AdvanceKeeps
  <2> QED BY <1>4, <2>1 DEF Advance, TickTypes, CopyInv, QueueInv, Issues
<1> QED BY <1>1, <1>2, <1>3, <1>4

(* KeyInv holds at the start.                                              *)
LEMMA KeyInit == Init => KeyInv
<1> SUFFICES ASSUME Init PROVE KeyInv
  OBVIOUS
<1> USE ProtonConstants DEF Init
<1>1. Len(certs) = 0 /\ Issues = {} /\ certs \in Seq(Cert)
  BY EmptySeq DEF Issues
<1>2. rested \in [Issues -> Held..RevokeAfter]
  <2>1. DOMAIN rested = {}
    BY EmptySeq
  <2> QED BY <1>1, <2>1
<1>3. FileInv
  BY <1>1, <1>2 DEF FileInv, FileTypes, WellFormed, HeldExactly
<1>4. TickTypes
  BY <1>1, ProtonAssumption DEF TickTypes, NoLines
<1> QED BY <1>3, <1>4 DEF KeyInv, CopyInv, QueueInv, LaterPCs

(* Every step keeps KeyInv.                                                *)
LEMMA KeyStep == KeyInv /\ [Next]_vars => KeyInv'
<1> SUFFICES ASSUME KeyInv, [Next]_vars PROVE KeyInv'
  OBVIOUS
<1>1. CASE UNCHANGED vars
  <2>1. FileInv'
    BY <1>1, FileSame DEF vars, apiVars, fileVars, KeyInv
  <2>2. UNCHANGED <<certs, live, disk, out, status, rotate, pc, cur, ks, queue, err>>
    BY <1>1 DEF vars, apiVars, fileVars, tickVars
  <2> QED BY <2>1, <2>2
      DEF KeyInv, TickTypes, CopyInv, QueueInv, Issues, NewCert, NewServers, Serials
<1>2. CASE TickNeedsLogin \/ CertifyNeedsLogin \/ RevokeNeedsLogin
  BY <1>2, LoginFails DEF TickNeedsLogin, CertifyNeedsLogin, RevokeNeedsLogin
<1> QED
  BY <1>1, <1>2, TickStartKeeps, GenerationKeeps, CertifyKeeps, CertSaveKeeps, AssignKeeps,
     RevokeKeepsInv, PublishKeeps, LogoutKeepsInv, OthersKeep
  DEF Next, Tick

(* No step but a logout revokes a certificate that the record holds, or    *)
(* one of a key that left the record less than revokeOldAfterMinutes ago   *)
(* (Tick, certify).                                                        *)
THEOREM RevocationWaits == Spec => RevokeWaits
<1> DEFINE Late ==
      ~LogoutRevoke => \A c \in live \ live' :
        /\ c \notin Serials(disk)
        /\ rested[c] >= RevokeAfter \/ \E s \in Slots : disk.slots[s].key = certs[c].key
<1>1. KeyInv /\ [Next]_vars => [Late]_vars
  <2> SUFFICES ASSUME KeyInv, Next, ~LogoutRevoke, NEW c \in live, c \notin live'
               PROVE  /\ c \notin Serials(disk)
                      /\ rested[c] >= RevokeAfter \/ \E s \in Slots : disk.slots[s].key = certs[c].key
    OBVIOUS
  <2>1. RevokeOne
    BY DEF Next, Tick, Logout, TickStart, TickNeedsLogin, NeedsLogin, NewGeneration, GenerationSave,
           SaveThen, CertifyNothing, Certify, Issued, CertifyNeedsLogin, CertSave, Assign, AssignSave,
           RevokeNothing, RevokeList, RevokeNeedsLogin, RevokeListDone, RevokeDone, RevokeSave, Publish,
           LogoutStart, LogoutList, LogoutKeys, LogoutSession, Crash, Login, Age, Advance, apiVars
  <2>2. c \in queue
    <3>1. (CHOOSE d \in queue : \A e \in queue : d <= e) \in queue
      BY <2>1, NextRevoked DEF RevokeOne
    <3> QED BY <2>1, <3>1 DEF RevokeOne
  <2>3. c \notin Serials(disk) /\ disk.rotated >= RevokeAfter
    BY <2>1, <2>2 DEF RevokeOne, KeyInv, QueueInv, CopyInv
  <2>4. Waits(c) /\ rested[c] \in -1..RevokeAfter /\ disk.rotated \in -1..RevokeAfter
    BY <2>3, ProtonConstants DEF KeyInv, FileInv, FileTypes, KeysRec
  <2> QED BY <2>3, <2>4, ProtonConstants DEF Waits
<1> QED BY <1>1, KeyInit, KeyStep, PTL DEF Spec, RevokeWaits

-----------------------------------------------------------------------------
(* Every step keeps OKInv, if a process rotates at its start or no logout  *)
(* begins.                                                                 *)

(* OKInv when a tick or a logout ends without ok.                          *)
LEMMA OKToIdle ==
  ASSUME Idle, status' # "ok", rotate' => RotateOnStart, ValidInv'
  PROVE  OKInv'
BY DEF Idle, OKInv, CertifiedInv, Passed, RotateInv, OKIsCurrent, TickPCs, LaterPCs, LogoutPCs

(* Whether a generation is valid depends on these.                         *)
LEMMA ValidSame == ASSUME ValidInv, UNCHANGED <<live, disk, rotate>> PROVE ValidInv'
BY DEF ValidInv, CurrentValid

(* What a tick is about to save is valid.                                  *)
LEMMA SavedValid ==
  ASSUME KeyInv, OKInv, pc \in {"gen-save", "cert-save", "assign-save", "revoke-save"}
  PROVE  CurrentValid(ks)
<1> USE DEF KeyInv, OKInv
<1>0. disk \in KeysRec /\ cur \in Slots
  BY DEF FileInv, FileTypes, TickTypes
<1>1. CASE pc = "gen-save"
  <2>1. ks.gen = disk.gen + 1 /\ ks.slots = disk.slots
    BY <1>0, <1>1 DEF CopyInv, KeysRec
  <2>2. \A s \in Slots : disk.slots[s].gen # ks.gen
    BY <1>0, <2>1, RecordFields DEF FileInv, WellFormed
  <2> QED BY <2>1, <2>2 DEF CurrentValid
<1>2. CASE pc # "gen-save"
  <2>1. CurrentValid(disk)
    BY <1>2 DEF RotateInv, ValidInv, TickPCs, LaterPCs
  <2>2. CASE pc = "cert-save"
    BY <1>0, <2>1, <2>2 DEF CopyInv, NewCert, CurrentValid
  <2>3. CASE pc = "assign-save"
    BY <1>0, <2>1, <2>3 DEF CopyInv, NewServers, CurrentValid
  <2>4. CASE pc = "revoke-save"
    <3>1. ks.gen = disk.gen /\ ks.slots = disk.slots
      BY <1>0, <2>4 DEF CopyInv, KeysRec
    <3> QED BY <2>1, <3>1 DEF CurrentValid
  <2> QED BY <1>2, <2>2, <2>3, <2>4
<1> QED BY <1>1, <1>2

(* A save that succeeds, and one that fails.                               *)
LEMMA WriteValid ==
  ASSUME KeyInv, OKInv, pc \in {"gen-save", "cert-save", "assign-save", "revoke-save"},
         Write(ks), UNCHANGED live
  PROVE  CurrentValid(disk)'
BY SavedValid DEF CurrentValid, Write

(* OKInv through a failed save.                                            *)
LEMMA SaveFailsOK ==
  ASSUME KeyInv, OKInv, pc \in {"gen-save", "cert-save", "assign-save", "revoke-save"},
         Write(ks) \/ UNCHANGED <<disk, rested>>, UNCHANGED <<live, rotate>>, Fail("error")
  PROVE  OKInv'
<1>1. ValidInv'
  BY WriteValid, ValidSame DEF OKInv, ValidInv
<1>2. Idle /\ status' # "ok" /\ (rotate' => RotateOnStart)
  BY DEF Fail, OKInv, RotateInv
<1> QED BY <1>1, <1>2, OKToIdle

(* OKInv through a call that needs a new login.                            *)
LEMMA LoginFailsOK == ASSUME OKInv, NeedsLogin PROVE OKInv'
<1>1. ValidInv'
  BY ValidSame DEF OKInv, NeedsLogin, apiVars
<1>2. Idle /\ status' # "ok" /\ (rotate' => RotateOnStart)
  BY DEF NeedsLogin, Fail, OKInv, RotateInv
<1> QED BY <1>1, <1>2, OKToIdle

(* OKInv through the start of a tick.                                      *)
LEMMA TickStartOK == ASSUME KeyInv, OKInv, TickStart PROVE OKInv'
<1>1. ValidInv' /\ UNCHANGED rotate /\ pc = "idle"
  BY ValidSame DEF OKInv, TickStart, apiVars
<1>2. CASE ks' = disk /\ pc' = "gen" /\ UNCHANGED <<out, status, cur, queue, err>>
  BY <1>1, <1>2 DEF OKInv, CertifiedInv, Passed, RotateInv, OKIsCurrent, EarlyPCs, TickPCs, LaterPCs, LogoutPCs
<1>3. CASE Fail("error") \/ Fail("needs_login")
  <2>1. Idle /\ status' # "ok" /\ (rotate' => RotateOnStart)
    BY <1>1, <1>3 DEF Fail, OKInv, RotateInv
  <2> QED BY <1>1, <2>1, OKToIdle
<1> QED BY <1>2, <1>3 DEF TickStart

(* OKInv through a new generation.                                         *)
LEMMA GenerationOK == ASSUME KeyInv, OKInv, NewGeneration \/ GenerationSave PROVE OKInv'
<1> USE DEF OKInv, CertifiedInv, Passed, RotateInv, OKIsCurrent, EarlyPCs, TickPCs, LaterPCs, LogoutPCs
<1>1. ASSUME cur' = 1, pc' = "certify" PROVE CertifiedInv'
  BY <1>1, ProtonConstants DEF Slots
<1>2. CASE NewGeneration
  <2>1. UNCHANGED <<live, disk, cur, status>> /\ cur = 1 /\ ks = disk
    BY <1>2 DEF NewGeneration, apiVars, fileVars, KeyInv, CopyInv
  <2>2. CASE rotate /\ pc' = "gen-save" /\ UNCHANGED rotate
    BY <2>1, <2>2, ValidSame
  <2>3. CASE ~(rotate /\ HasKeys(ks)) /\ rotate' = FALSE /\ pc' = "certify"
    <3>1. CurrentValid(disk)
      BY <2>1, <2>3 DEF ValidInv, CurrentValid, HasKeys
    <3>2. ValidInv'
      BY <2>1, <3>1 DEF ValidInv, CurrentValid
    <3> QED BY <1>1, <2>1, <2>3, <3>2
  <2> QED BY <1>2, <2>2, <2>3 DEF NewGeneration
<1>3. CASE GenerationSave
  <2>1. pc = "gen-save" /\ rotate /\ cur = 1 /\ UNCHANGED live /\ rotate \in BOOLEAN
    BY <1>3 DEF GenerationSave, SaveThen, apiVars, KeyInv, TickTypes
  <2>2. CASE Write(ks) /\ pc' = "certify" /\ UNCHANGED tickVars
    <3>1. ValidInv'
      BY <2>1, <2>2, WriteValid DEF ValidInv
    <3>2. rotate' = FALSE /\ cur' = 1
      BY <1>3, <2>1, <2>2 DEF GenerationSave, tickVars
    <3> QED BY <1>1, <2>2, <3>1, <3>2
  <2>3. CASE (Write(ks) \/ UNCHANGED <<disk, rested>>) /\ Fail("error")
    <3>1. pc' = "idle" /\ rotate' = (rotate /\ pc' = "idle")
      BY <1>3, <2>3 DEF GenerationSave, Fail, Idle
    <3>2. rotate' = rotate
      BY <2>1, <3>1
    <3> QED BY <2>1, <2>3, <3>2, SaveFailsOK
  <2> QED BY <1>3, <2>2, <2>3 DEF GenerationSave, SaveThen
<1> QED BY <1>2, <1>3

(* OKInv through a certificate.                                            *)
LEMMA CertifyOK == ASSUME KeyInv, OKInv, Certify \/ CertifyNothing PROVE OKInv'
<1> USE DEF OKInv, RotateInv, OKIsCurrent, EarlyPCs, TickPCs, LaterPCs, LogoutPCs
<1>1. /\ pc = "certify" /\ ~rotate /\ cur \in Slots /\ ks \in KeysRec /\ CurrentValid(disk)
      /\ UNCHANGED <<disk, out, status, rotate>>
  BY DEF Certify, CertifyNothing, fileVars, KeyInv, TickTypes, ValidInv
<1>2. \A s \in Slots : s \in Nat /\ s <= N
  BY ProtonConstants DEF Slots
<1>3. ~err => \A s \in Slots : s < cur => Certified(s)
  BY <1>1 DEF CertifiedInv, Passed
<1>4. live \subseteq live'
  BY DEF Certify, CertifyNothing, Issued, apiVars
<1>5. ValidInv'
  BY <1>1, <1>4 DEF ValidInv, CurrentValid
<1>6. CASE CertifyNothing
  <2>1. Certified(cur) /\ NextSlot /\ UNCHANGED <<ks, err>>
    BY <1>6 DEF CertifyNothing, Certified, IsNew, me
  <2>2. CertifiedInv'
    BY <1>1, <1>2, <1>3, <2>1, NextSlotCases DEF CertifiedInv, Passed, Certified
  <2> QED BY <1>1, <1>5, <2>1, <2>2, NextSlotCases
<1>7. CASE Certify
  <2>1. CASE ks' = NewCopy /\ pc' = "cert-save" /\ UNCHANGED <<cur, err>>
    <3>1. Key # None
      <4>1. Serial # None
        BY ProtonConstants DEF Serial, KeyInv, FileInv, FileTypes
      <4> QED BY <4>1 DEF Key, IsNew
    <3>2. \A s \in Slots : s < cur => s # cur
      BY <1>1, <1>2
    <3>3. CertifiedInv'
      BY <1>1, <1>3, <2>1, <3>1, <3>2, NewSlot DEF CertifiedInv, Passed, Certified
    <3> QED BY <1>1, <1>5, <2>1, <3>3
  <2>2. CASE NextSlot /\ err' = TRUE
    <3>1. CertifiedInv'
      BY <1>1, <2>2, NextSlotCases DEF CertifiedInv
    <3> QED BY <1>1, <1>5, <2>2, <3>1, NextSlotCases
  <2> QED BY <1>7, <2>1, <2>2 DEF Certify, NewCopy
<1> QED BY <1>6, <1>7

(* OKInv through the save of a certificate.                                *)
LEMMA CertSaveOK == ASSUME KeyInv, OKInv, CertSave PROVE OKInv'
<1> USE DEF OKInv, RotateInv, OKIsCurrent, EarlyPCs, TickPCs, LaterPCs, LogoutPCs
<1>1. pc = "cert-save" /\ ~rotate /\ cur \in Slots /\ UNCHANGED <<live, rotate>>
  BY DEF CertSave, apiVars, KeyInv, TickTypes
<1>2. CASE Write(ks) /\ NextSlot /\ UNCHANGED <<out, status, ks, queue, err>>
  <2>1. ValidInv'
    BY <1>1, <1>2, WriteValid DEF ValidInv
  <2>2. \A s \in Slots : s \in Nat /\ s <= N
    BY ProtonConstants DEF Slots
  <2>3. CertifiedInv'
    BY <1>1, <1>2, <2>2, NextSlotCases DEF CertifiedInv, Passed, Certified
  <2> QED BY <1>1, <1>2, <2>1, <2>3, NextSlotCases
<1>3. CASE (Write(ks) \/ UNCHANGED <<disk, rested>>) /\ Fail("error")
  BY <1>1, <1>3, SaveFailsOK
<1> QED BY <1>2, <1>3 DEF CertSave

(* OKInv through the assignment of servers.                                *)
LEMMA AssignOK == ASSUME KeyInv, OKInv, Assign \/ AssignSave PROVE OKInv'
<1> USE DEF OKInv, RotateInv, OKIsCurrent, EarlyPCs, TickPCs, LaterPCs, LogoutPCs
<1>1. CASE Assign
  <2>1. ks \in KeysRec /\ pc = "assign" /\ UNCHANGED <<live, disk, rotate, err, cur>>
    BY <1>1 DEF KeyInv, Assign, TickTypes, apiVars, fileVars
  <2>2. PICK sv \in [Slots -> BOOLEAN] :
          /\ ks' = [ks EXCEPT !.slots = [s \in Slots |-> [@[s] EXCEPT !.server = sv[s]]]]
          /\ pc' \in {"assign-save", "revoke"}
    BY <1>1 DEF Assign
  <2>3. \A s \in Slots : Certified(s) => Certified(s)'
    BY <2>1, <2>2 DEF Certified, KeysRec, SlotRec
  <2>4. CertifiedInv'
    BY <2>1, <2>2, <2>3 DEF CertifiedInv, Passed
  <2>5. ValidInv'
    BY <2>1, ValidSame
  <2> QED BY <2>1, <2>2, <2>4, <2>5
<1>2. CASE AssignSave
  <2>1. pc = "assign-save" /\ ~rotate /\ UNCHANGED <<live, rotate>>
    BY <1>2 DEF AssignSave, SaveThen, apiVars
  <2>2. CASE Write(ks) /\ pc' = "revoke" /\ UNCHANGED <<out, status, tickVars>>
    <3>1. ValidInv'
      BY <2>1, <2>2, WriteValid DEF ValidInv
    <3>2. CertifiedInv'
      BY <2>1, <2>2 DEF CertifiedInv, Passed, Certified, tickVars
    <3> QED BY <2>1, <2>2, <3>1, <3>2
  <2>3. CASE (Write(ks) \/ UNCHANGED <<disk, rested>>) /\ Fail("error")
    BY <2>1, <2>3, SaveFailsOK
  <2> QED BY <1>2, <2>2, <2>3 DEF AssignSave, SaveThen
<1> QED BY <1>1, <1>2

(* OKInv through the revocation.                                           *)
LEMMA RevokeOK ==
  ASSUME KeyInv, OKInv, RevokeNothing \/ RevokeList \/ RevokeOne \/ RevokeListDone \/ RevokeDone \/ RevokeSave
  PROVE  OKInv'
<1> USE DEF OKInv, RotateInv, OKIsCurrent, EarlyPCs, TickPCs, LaterPCs, LogoutPCs
<1>1. pc \in LaterPCs /\ ~rotate /\ UNCHANGED rotate /\ ks \in KeysRec /\ CurrentValid(disk)
  BY DEF RevokeNothing, RevokeList, RevokeOne, RevokeListDone, RevokeDone, RevokeSave, KeyInv, TickTypes, ValidInv
<1>2. ASSUME err' = FALSE => err = FALSE, pc' \in LaterPCs, ks'.gen = ks.gen, ks'.slots = ks.slots
      PROVE  CertifiedInv'
  BY <1>1, <1>2 DEF CertifiedInv, Passed, Certified, KeyInv, TickTypes
<1>3. CASE RevokeNothing \/ RevokeList \/ RevokeListDone
  <2>1. ValidInv' /\ pc' \in LaterPCs /\ UNCHANGED ks /\ err' \in {err, TRUE}
    BY <1>3, ValidSame DEF RevokeNothing, RevokeList, RevokeListDone, apiVars, fileVars, tickVars
  <2>2. CertifiedInv'
    BY <1>2, <2>1
  <2> QED BY <1>1, <2>1, <2>2
<1>4. CASE RevokeOne
  <2>1. pc' \in LaterPCs /\ UNCHANGED <<ks, disk>> /\ err' \in {err, TRUE}
    BY <1>4 DEF RevokeOne, RevokeFailed, fileVars
  <2>2. PICK c \in queue : live' \in {live, live \ {c}}
    BY <1>4, NextRevoked DEF RevokeOne
  <2>3. c \notin Serials(disk)
    BY <1>4, <2>2 DEF RevokeOne, KeyInv, QueueInv
  <2>4. \A s \in Slots : disk.slots[s].key # None => disk.slots[s].serial # c
    BY <2>3, SerialsIn, ProtonConstants DEF KeyInv, FileInv, WellFormed
  <2>5. ValidInv'
    BY <1>1, <2>1, <2>2, <2>4 DEF ValidInv, CurrentValid
  <2>6. CertifiedInv'
    BY <1>2, <2>1
  <2> QED BY <1>1, <2>1, <2>5, <2>6
<1>5. CASE RevokeDone
  <2>1. ValidInv' /\ pc' \in LaterPCs /\ UNCHANGED err
    BY <1>5, ValidSame DEF RevokeDone, apiVars, fileVars
  <2>2. ks'.gen = ks.gen /\ ks'.slots = ks.slots
    BY <1>1, <1>5 DEF RevokeDone, KeysRec
  <2>3. CertifiedInv'
    BY <1>2, <2>1, <2>2
  <2> QED BY <1>1, <2>1, <2>3
<1>6. CASE RevokeSave
  <2>1. pc = "revoke-save" /\ UNCHANGED live
    BY <1>6 DEF RevokeSave, SaveThen, apiVars
  <2>2. CASE Write(ks) /\ pc' = "publish" /\ UNCHANGED <<out, status, tickVars>>
    <3>1. ValidInv'
      BY <2>1, <2>2, WriteValid DEF ValidInv
    <3>2. CertifiedInv'
      BY <1>2, <2>2 DEF tickVars
    <3> QED BY <1>1, <2>2, <3>1, <3>2
  <2>3. CASE (Write(ks) \/ UNCHANGED <<disk, rested>>) /\ Fail("error")
    BY <1>1, <2>1, <2>3, SaveFailsOK
  <2> QED BY <1>6, <2>2, <2>3 DEF RevokeSave, SaveThen
<1> QED BY <1>3, <1>4, <1>5, <1>6

(* A tick that reports ok certified every slot, and the certificates of    *)
(* the current generation in the record are valid.                         *)
LEMMA PublishOK == ASSUME KeyInv, OKInv, Publish PROVE OKInv'
<1> USE DEF OKInv
<1>1. /\ pc = "publish" /\ ks = disk /\ ~rotate /\ CurrentValid(disk) /\ Idle
      /\ UNCHANGED <<certs, live, disk, rotate>>
  BY DEF Publish, KeyInv, CopyInv, RotateInv, ValidInv, TickPCs, LaterPCs, apiVars, Fail
<1>2. ValidInv'
  BY <1>1 DEF ValidInv, CurrentValid
<1>3. CASE status' # "ok"
  BY <1>1, <1>2, <1>3, OKToIdle
<1>4. CASE status' = "ok"
  <2>1. out' = Lines /\ ~err /\ \A s \in Slots : SlotOK(s)
    BY <1>4 DEF Publish, Fail
  <2>2. ASSUME NEW s \in Slots
        PROVE  /\ out'[s] # None /\ out'[s] = disk'.slots[s].key
               /\ \E c \in live' : certs'[c].key = out'[s]
    <3>1. Certified(s)
      BY <1>1, <2>1 DEF CertifiedInv, Passed, LaterPCs
    <3>2. out'[s] = disk.slots[s].key /\ disk.slots[s].key # None
      BY <1>1, <2>1, <3>1 DEF Lines, HasLine, SlotOK, Certified
    <3>3. disk.slots[s].serial \in live /\ disk.slots[s].serial # None
      BY <1>1, <3>1, <3>2 DEF Certified, CurrentValid, KeyInv, FileInv, WellFormed
    <3>4. certs[disk.slots[s].serial].key = disk.slots[s].key
      BY <3>3 DEF KeyInv, FileInv, WellFormed
    <3> QED BY <1>1, <3>2, <3>3, <3>4
  <2>3. OKIsCurrent'
    BY <2>2 DEF OKIsCurrent
  <2> QED BY <1>1, <1>2, <2>3
      DEF Idle, CertifiedInv, Passed, RotateInv, TickPCs, LaterPCs, LogoutPCs
<1> QED BY <1>3, <1>4

(* A process that starts rotates, or the record was valid already.         *)
LEMMA StartValid ==
  ASSUME OKInv, NewProcess, UNCHANGED <<live, disk>>
  PROVE  ValidInv' /\ (rotate' => RotateOnStart) /\ status' # "ok"
BY ProtonAssumption DEF OKInv, NewProcess, ValidInv, RotateInv, CurrentValid

(* The certificates that a logout revokes may be those of the record: the  *)
(* next process has to rotate.                                             *)
LEMMA LogoutOK ==
  ASSUME RotateOnStart \/ "logout" \notin Faults, KeyInv, OKInv, Logout
  PROVE  OKInv'
<1> USE DEF OKInv, LogoutPCs
<1>1. CASE LogoutStart
  <2>1. ValidInv' /\ rotate' /\ status' = "none" /\ pc' = "logout" /\ UNCHANGED <<cur, err, ks>>
    BY <1>1, StartValid DEF LogoutStart, NewProcess, Fault, tickVars, apiVars, fileVars
  <2> QED BY <1>1, <2>1
      DEF LogoutStart, NewProcess, CertifiedInv, Passed, RotateInv, OKIsCurrent, EarlyPCs, TickPCs, LaterPCs
<1>2. CASE ~LogoutStart
  <2>1. pc \in LogoutPCs /\ rotate /\ status = "none" /\ UNCHANGED <<rotate, status>>
    BY <1>2 DEF Logout, LogoutList, LogoutRevoke, LogoutKeys, LogoutSession, RotateInv
  <2>2. ValidInv' /\ (rotate' => RotateOnStart)
    BY <2>1 DEF ValidInv, RotateInv
  <2>3. CASE Idle
    BY <2>1, <2>2, <2>3, OKToIdle
  <2>4. CASE ~Idle
    <3>1. pc' \in LogoutPCs
      BY <1>2, <2>4 DEF Logout, LogoutList, LogoutRevoke, LogoutKeys, LogoutSession, LogoutFails
    <3> QED BY <2>1, <2>2, <3>1
        DEF CertifiedInv, Passed, RotateInv, OKIsCurrent, EarlyPCs, TickPCs, LaterPCs
  <2> QED BY <2>3, <2>4
<1> QED BY <1>1, <1>2

(* OKInv through crashes, logins and time.                                 *)
LEMMA OthersOK == ASSUME KeyInv, OKInv, Crash \/ Login \/ Age \/ Advance PROVE OKInv'
<1> USE DEF OKInv, apiVars, fileVars, tickVars
<1>1. CASE Crash
  BY <1>1, StartValid, OKToIdle DEF Crash
<1>2. CASE Login
  <2>1. ValidInv' /\ (rotate' => RotateOnStart) /\ status' # "ok"
    BY <1>2, StartValid DEF Login
  <2> QED BY <1>2, <2>1
      DEF Login, CertifiedInv, Passed, RotateInv, OKIsCurrent, EarlyPCs, TickPCs, LaterPCs, LogoutPCs
<1>3. ASSUME pc = "idle", disk'.gen = disk.gen,
             \A t \in Slots : /\ disk'.slots[t].key = disk.slots[t].key
                              /\ disk'.slots[t].gen = disk.slots[t].gen
                              /\ disk'.slots[t].serial = disk.slots[t].serial,
             UNCHANGED <<certs, live, out, status, rotate, pc, cur>>
      PROVE  OKInv'
  <2>1. ValidInv'
    BY <1>3 DEF ValidInv, CurrentValid
  <2>2. OKIsCurrent'
    BY <1>3 DEF OKIsCurrent
  <2> QED BY <1>3, <2>1, <2>2
      DEF CertifiedInv, Passed, RotateInv, EarlyPCs, TickPCs, LaterPCs, LogoutPCs
<1>4. CASE Age
  <2>1. UNCHANGED <<certs, live, out, status, rotate, pc, cur>> /\ pc = "idle"
    BY <1>4 DEF Age
  <2> QED BY <1>3, <1>4, <2>1, AgeKeeps DEF KeyInv
<1>5. CASE Advance
  <2>1. UNCHANGED <<certs, live, out, status, rotate, pc, cur>> /\ pc = "idle"
    BY <1>5 DEF Advance
  <2>2. disk'.gen = disk.gen /\ disk'.slots = disk.slots
    BY <1>5 DEF Advance, KeyInv, FileInv, FileTypes, KeysRec
  <2> QED BY <1>3, <2>1, <2>2
<1> QED BY <1>1, <1>2, <1>4, <1>5

(* Every step keeps OKInv.                                                 *)
LEMMA OKStep ==
  ASSUME RotateOnStart \/ "logout" \notin Faults
  PROVE  KeyInv /\ OKInv /\ [Next]_vars => OKInv'
<1> SUFFICES ASSUME KeyInv, OKInv, [Next]_vars PROVE OKInv'
  OBVIOUS
<1>1. CASE UNCHANGED vars
  BY <1>1 DEF vars, apiVars, fileVars, tickVars, OKInv, CertifiedInv, Passed, Certified, RotateInv,
              ValidInv, CurrentValid, OKIsCurrent
<1>2. CASE TickNeedsLogin \/ CertifyNeedsLogin \/ RevokeNeedsLogin
  BY <1>2, LoginFailsOK DEF TickNeedsLogin, CertifyNeedsLogin, RevokeNeedsLogin
<1> QED
  BY <1>1, <1>2, TickStartOK, GenerationOK, CertifyOK, CertSaveOK, AssignOK, RevokeOK, PublishOK,
     LogoutOK, OthersOK
  DEF Next, Tick

(* A provider that reports ok between two ticks has published the key of   *)
(* every slot of the record, with a valid certificate (Tick), after any    *)
(* failures and restarts.  With rotateOnStart this includes logouts that   *)
(* failed halfway; without it such a logout leaves keys in the record      *)
(* whose certificates are gone, and the next tick publishes them.          *)
THEOREM OKMeansCurrent ==
  ASSUME RotateOnStart \/ "logout" \notin Faults
  PROVE  Spec => []OKIsCurrent
<1>1. Init => OKInv
  <2> SUFFICES ASSUME Init PROVE OKInv
    OBVIOUS
  <2> USE ProtonConstants DEF Init
  <2>1. ValidInv
    BY DEF ValidInv, CurrentValid
  <2> QED BY <2>1
      DEF OKInv, CertifiedInv, Passed, RotateInv, OKIsCurrent, EarlyPCs, TickPCs, LaterPCs, LogoutPCs
<1>2. OKInv => OKIsCurrent
  BY DEF OKInv
<1> QED BY <1>1, <1>2, KeyInit, KeyStep, OKStep, PTL DEF Spec

-----------------------------------------------------------------------------
(* The session: concurrent calls.                                          *)

Labels == {"idle", "send", "resend", "lock", "refresh", "save"}

SessionTypes ==
  /\ api \in Nat /\ expired \in BOOLEAN
  /\ expiries \in Nat /\ refreshes \in Nat /\ mishaps \in Nat
  /\ record \in Nat /\ sess \in Nat /\ dead \in BOOLEAN
  /\ step \in [Callers -> Labels] /\ tk \in [Callers -> Nat]

(* The call that refreshes or saves has the mutex.                         *)
MutexHeld == \A c \in Callers : step[c] \in {"refresh", "save"} => mu = c

(* A call that is about to refresh the latest tokens saw them expire.      *)
RefreshIsDue ==
  \A c \in Callers :
    /\ step[c] = "lock" /\ tk[c] = api => expired
    /\ step[c] = "refresh" /\ sess = api => expired

(* No tokens get ahead of the record, nor the record of the API.           *)
TokensOrdered ==
  /\ NoSession < record /\ record <= api /\ sess <= record
  /\ \A c \in Callers : tk[c] <= record
  /\ \A c \in Callers : step[c] # "idle" => sess # NoSession

(* An expiry that no refresh has used up is still there.                   *)
ExpiryCounted == refreshes <= expiries /\ (expired => refreshes < expiries)

(* Without a fault only a refresh under way sets record and API apart.     *)
UntilAFault ==
  mishaps = 0 =>
    /\ ~dead
    /\ sess # NoSession => sess = record
    /\ (\A c \in Callers : step[c] # "save") => record = api

SessionInv ==
  /\ SessionTypes /\ MutexHeld /\ RefreshIsDue
  /\ TokensOrdered /\ ExpiryCounted /\ UntilAFault

-----------------------------------------------------------------------------
(* Every step of a call, of the API and a restart keeps SessionInv.        *)
LEMMA SessionStep ==
  SessionInv /\ [SessionNext]_sessionVars => SessionInv'
<1> SUFFICES ASSUME SessionInv, [SessionNext]_sessionVars PROVE SessionInv'
  OBVIOUS
<1> USE DEF SessionInv, SessionTypes, MutexHeld, RefreshIsDue, TokensOrdered,
            ExpiryCounted, UntilAFault, Labels, NoSession
<1>1. ASSUME NEW c \in Callers, Session(c) PROVE SessionInv'
  BY <1>1 DEF Session, Done, Go, Use, tokenVars
<1>2. ASSUME NEW c \in Callers, Send(c) PROVE SessionInv'
  BY <1>2 DEF Send, Accepted, Done, Go, Use, tokenVars
<1>3. ASSUME NEW c \in Callers, Resend(c) PROVE SessionInv'
  BY <1>3 DEF Resend, Done, Go, Use, tokenVars
<1>4. ASSUME NEW c \in Callers, RefreshBegin(c) PROVE SessionInv'
  BY <1>4, SessionAssumption DEF RefreshBegin, Replaced, Take, Done, Go, Use, tokenVars
<1>5. ASSUME NEW c \in Callers, Refresh(c) PROVE SessionInv'
  <2> step[c] = "refresh" /\ mu = c /\ UNCHANGED <<expiries, record, sess>>
    BY <1>5 DEF Refresh
  <2>1. CASE sess = api /\ Refreshed /\ Go(c, "save") /\ UNCHANGED <<mishaps, dead, tk, mu>>
    <3>1. expired' \in BOOLEAN /\ ~expired'
      BY <2>1, Zenon DEF Refreshed
    <3>2. api' = api + 1 /\ refreshes' = refreshes + 1 /\ expired
      BY <2>1 DEF Refreshed
    <3>3. QED
      BY <2>1, <3>1, <3>2 DEF Go
  <2>2. CASE sess # api /\ dead' = TRUE /\ Done(c) /\ mu' = NoOne /\ UNCHANGED <<mishaps, api, expired, refreshes>>
    <3>1. mishaps # 0
      BY <2>2
    <3>2. QED
      BY <2>2, <3>1 DEF Done, Go, Use
  <2>3. CASE sess = api /\ Mishap("lost") /\ Refreshed /\ Done(c) /\ mu' = NoOne /\ UNCHANGED dead
    <3>1. expired' \in BOOLEAN /\ ~expired'
      BY <2>3, Zenon DEF Refreshed
    <3>2. api' = api + 1 /\ refreshes' = refreshes + 1 /\ expired
      BY <2>3 DEF Refreshed
    <3>3. QED
      BY <2>3, <3>1, <3>2 DEF Mishap, Done, Go, Use
  <2>4. CASE Mishap("busy") /\ UNCHANGED <<api, expired, refreshes>> /\ Done(c) /\ mu' = NoOne /\ UNCHANGED dead
    BY <2>4 DEF Mishap, Done, Go, Use
  <2>5. QED
    BY <1>5, <2>1, <2>2, <2>3, <2>4 DEF Refresh
<1>6. ASSUME NEW c \in Callers, RefreshSave(c) PROVE SessionInv'
  BY <1>6 DEF RefreshSave, SessionSaved, Mishap, Done, Go, Use, tokenVars
<1>7. CASE Expire
  BY <1>7 DEF Expire
<1>8. CASE Restart
  <2>1. dead' \in BOOLEAN /\ ~dead'
    BY <1>8, Zenon DEF Restart
  <2>2. /\ mishaps' = mishaps + 1 /\ sess' = NoSession /\ UNCHANGED <<tokenVars, record>>
        /\ step' = [c \in Callers |-> "idle"] /\ tk' = [c \in Callers |-> NoSession]
    BY <1>8 DEF Restart, Mishap
  <2>3. QED
    BY <2>1, <2>2 DEF tokenVars
<1>9. CASE UNCHANGED sessionVars
  BY <1>9 DEF sessionVars
<1>10. QED
  BY <1>1, <1>2, <1>3, <1>4, <1>5, <1>6, <1>7, <1>8, <1>9 DEF SessionNext, Call

(* SessionInv holds in every reachable state.                              *)
LEMMA SessionInvariant ==
  SessionSpec => []SessionInv
<1>1. ASSUME SessionInit PROVE SessionInv
  <2>1. expired \in BOOLEAN /\ ~expired /\ dead \in BOOLEAN /\ ~dead
    BY <1>1, Zenon DEF SessionInit
  <2>2. /\ api = 1 /\ expiries = 0 /\ refreshes = 0 /\ mishaps = 0 /\ record = 1 /\ sess = 0
        /\ step = [c \in Callers |-> "idle"] /\ tk = [c \in Callers |-> 0]
    BY <1>1 DEF SessionInit, NoSession
  <2>3. QED
    BY <2>1, <2>2 DEF SessionInv, SessionTypes, MutexHeld, RefreshIsDue, TokensOrdered,
                      ExpiryCounted, UntilAFault, Labels, NoSession
<1>2. QED
  BY <1>1, SessionStep, PTL DEF SessionSpec

(* session.go:83-84 "one refresh for all concurrent 401s of the same       *)
(* token" (refresh): never more refreshes than expiries.                   *)
THEOREM RefreshOncePerExpiry ==
  SessionSpec => []OneRefreshPerExpiry
<1>1. SessionInv => OneRefreshPerExpiry
  BY DEF SessionInv, SessionTypes, ExpiryCounted, OneRefreshPerExpiry
<1>2. QED
  BY <1>1, SessionInvariant, PTL

(* session.go:131 "The rotated tokens are saved before they are used"      *)
(* (refresh, saveSession).                                                 *)
THEOREM TokensSavedBeforeUse ==
  SessionSpec => []SavedBeforeUsed
<1>1. SessionInv => SavedBeforeUsed
  BY DEF SessionInv, TokensOrdered, UntilAFault, SavedBeforeUsed
<1>2. QED
  BY <1>1, SessionInvariant, PTL

(* Concurrent calls alone never get the session rejected (refresh): the    *)
(* API rejects it only after a lost answer, a failed save or a restart.    *)
THEOREM NoSelfRejection ==
  SessionSpec => []RejectedOnlyByMishap
<1>1. SessionInv => RejectedOnlyByMishap
  BY DEF SessionInv, SessionTypes, UntilAFault, RejectedOnlyByMishap
<1>2. QED
  BY <1>1, SessionInvariant, PTL

-----------------------------------------------------------------------------
(* The servers of the slots (ProtonServers).                               *)

(* The servers and counts of the slots.                                    *)
SlotServers == [ServerSlots -> Servers \cup {NoServer}]
Picture == [server : SlotServers, better : [ServerSlots -> Nat]]

ServersTypes ==
  /\ DOMAIN list \subseteq Servers /\ list \in [DOMAIN list -> Scores]
  /\ server \in SlotServers
  /\ better \in [ServerSlots -> Nat] /\ beaten \in [ServerSlots -> Nat]

(* The best free server is free, and no free one has a lower score.        *)
LEMMA BestIsFree ==
  ASSUME ServersTypes, NEW sv, Free(sv) # {}
  PROVE  /\ BestFree(sv) \in Free(sv)
         /\ \A x \in Free(sv) : list[BestFree(sv)] <= list[x]
<1> DEFINE F == Free(sv)
           S == {list[x] : x \in F}
<1>1. F \subseteq DOMAIN list /\ F \subseteq Nat /\ \A x \in F : list[x] \in Nat
  BY ServersAssumption DEF Free, ServersTypes
<1> HIDE DEF F
<1>2. PICK m \in S : \A n \in S : m <= n
  BY <1>1, LeastNat DEF F
<1> DEFINE A == {x \in F : list[x] = m}
<1>3. PICK a \in A : \A x \in A : a <= x
  <2>1. A # {} /\ A \subseteq Nat
    BY <1>1, <1>2
  <2> QED BY <2>1, LeastNat
<1>4. \A y \in F : Best(a, y)
  <2> SUFFICES ASSUME NEW y \in F PROVE Best(a, y)
    OBVIOUS
  <2>1. m <= list[y] /\ list[a] = m /\ list[y] \in Nat /\ m \in Nat
    BY <1>1, <1>2, <1>3
  <2>2. list[y] = m => a <= y
    BY <1>3
  <2> QED BY <2>1, <2>2 DEF Best
<1>5. BestFree(sv) \in F /\ \A y \in F : Best(BestFree(sv), y)
  <2>1. \E x \in F : \A y \in F : Best(x, y)
    BY <1>3, <1>4
  <2> QED BY <2>1 DEF BestFree, F
<1>6. \A y \in F : list[BestFree(sv)] <= list[y]
  BY <1>1, <1>5 DEF Best
<1> QED BY <1>5, <1>6 DEF F

-----------------------------------------------------------------------------
(* The first loop.                                                         *)

(* No server is on two slots, and every one qualifies.                     *)
Apart(sv) == \A s, t \in ServerSlots : s # t /\ sv[s] # NoServer => sv[s] # sv[t]
Qualified(sv) == \A s \in ServerSlots : sv[s] # NoServer => sv[s] \in DOMAIN list

(* A slot that may keep its server has kept it, any other one starts over  *)
(* with a server that no free one beats.                                   *)
FillInv(r) ==
  /\ r \in Picture /\ Apart(r.server) /\ Qualified(r.server)
  /\ \A s \in ServerSlots : Keeps(s) => r.server[s] = server[s] /\ r.better[s] = better[s]
  /\ \A s \in ServerSlots : ~Keeps(s) =>
       /\ r.better[s] = 0
       /\ r.server[s] # NoServer => \A x \in Free(r.server) : list[r.server[s]] <= list[x]

(* What the slots keep of their servers, before any is filled.             *)
LEMMA KeptFits == ServersTypes => FillInv(Kept)
<1> SUFFICES ASSUME ServersTypes PROVE FillInv(Kept)
  OBVIOUS
<1>1. Kept \in Picture
  BY DEF Kept, Picture, SlotServers, ServersTypes
<1>2. \A s \in ServerSlots :
        /\ Kept.server[s] = IF Keeps(s) THEN server[s] ELSE NoServer
        /\ Kept.better[s] = IF Keeps(s) THEN better[s] ELSE 0
  BY DEF Kept
<1>3. Apart(Kept.server)
  <2> SUFFICES ASSUME NEW s \in ServerSlots, NEW t \in ServerSlots, s # t, Keeps(s), Keeps(t), server[s] = server[t]
               PROVE  FALSE
    BY <1>2 DEF Apart
  <2>1. s < t \/ t < s
    BY ServersAssumption DEF ServerSlots
  <2>2. CASE s < t
    <3>1. s \in 1..(t - 1)
      BY <2>2, ServersAssumption DEF ServerSlots
    <3> QED BY <3>1 DEF Keeps
  <2>3. CASE t < s
    <3>1. t \in 1..(s - 1)
      BY <2>3, ServersAssumption DEF ServerSlots
    <3> QED BY <3>1 DEF Keeps
  <2> QED BY <2>1, <2>2, <2>3
<1> QED
  BY <1>1, <1>2, <1>3 DEF FillInv, Qualified, Keeps

(* One turn of the loop that fills slots.                                  *)
LEMMA FillFits ==
  ASSUME ServersTypes, NEW r, FillInv(r), NEW s \in ServerSlots
  PROVE  FillInv(Fill(r, s))
<1> DEFINE b == BestFree(r.server)
<1>1. CASE r.server[s] # NoServer \/ Free(r.server) = {}
  BY <1>1 DEF Fill
<1>2. CASE r.server[s] = NoServer /\ Free(r.server) # {}
  <2> DEFINE q == Fill(r, s)
  <2>1. r.server \in SlotServers /\ r.better \in [ServerSlots -> Nat]
    BY DEF FillInv, Picture
  <2>2. q = [r EXCEPT !.server[s] = b]
    BY <1>2 DEF Fill
  <2>3. q.server = [r.server EXCEPT ![s] = b] /\ q.better = r.better
    BY <2>2 DEF FillInv, Picture
  <2>4. b \in Free(r.server) /\ \A x \in Free(r.server) : list[b] <= list[x]
    BY <1>2, BestIsFree
  <2>5. b \in DOMAIN list /\ b \in Servers /\ b # NoServer /\ \A t \in ServerSlots : r.server[t] # b
    BY <2>4, ServersAssumption DEF Free, ServersTypes, NoServer
  <2>6. q \in Picture
    BY <2>2, <2>5 DEF FillInv, Picture, SlotServers
  <2>7. q.server[s] = b /\ \A t \in ServerSlots : t # s => q.server[t] = r.server[t]
    BY <2>1, <2>3 DEF SlotServers
  <2> HIDE DEF q, b
  <2>8. Apart(q.server) /\ Qualified(q.server)
    BY <2>5, <2>7 DEF FillInv, Apart, Qualified
  <2>9. Free(q.server) \subseteq Free(r.server)
    BY <1>2, <2>7, ServersAssumption DEF Free, ServersTypes, NoServer
  <2>10. ~Keeps(s)
    BY <1>2, ServersAssumption DEF FillInv, Keeps, ServersTypes, NoServer
  <2>11. \A t \in ServerSlots : Keeps(t) => q.server[t] = server[t] /\ q.better[t] = better[t]
    BY <2>3, <2>7, <2>10 DEF FillInv
  <2>12. \A t \in ServerSlots : ~Keeps(t) =>
           /\ q.better[t] = 0
           /\ q.server[t] # NoServer => \A x \in Free(q.server) : list[q.server[t]] <= list[x]
    BY <2>3, <2>4, <2>7, <2>9 DEF FillInv
  <2> QED
    BY <2>6, <2>8, <2>11, <2>12 DEF FillInv, q
<1> QED
  BY <1>1, <1>2

-----------------------------------------------------------------------------
(* The second loop.                                                        *)

(* What the loop has made of slot s, when it found the servers sv.         *)
Stays(r, s) == r.server[s] = server[s] /\ r.better[s] = 0
Counts(r, s, sv) ==
  /\ r.server[s] = server[s]
  /\ r.better[s] = better[s] + 1 /\ r.better[s] < Confirm
  /\ \E y \in Free(sv) : Beats(y, server[s])
Switches(r, s) ==
  /\ better[s] + 1 >= Confirm /\ Beats(r.server[s], server[s])
  /\ r.better[s] = 0

(* After the first k slots: a server that became free is not better than   *)
(* some that was free before the loop, so a slot that saw a better server  *)
(* saw one that no slot had.                                               *)
SwitchInv(r, f, k) ==
  /\ r \in Picture /\ Apart(r.server) /\ Qualified(r.server)
  /\ \A s \in ServerSlots : s > k => r.server[s] = f.server[s] /\ r.better[s] = f.better[s]
  /\ \A x \in Free(r.server) : \E y \in Free(f.server) : list[y] <= list[x]
  /\ \A s \in ServerSlots : ~Keeps(s) => r.server[s] = f.server[s] /\ r.better[s] = 0
  /\ \A s \in ServerSlots : s <= k /\ Keeps(s) =>
       Stays(r, s) \/ Counts(r, s, f.server) \/ Switches(r, s)

(* What beats a server beats every server that is no better.               *)
LEMMA BeatsFacts ==
  ASSUME ServersTypes, NEW x \in DOMAIN list, NEW y \in DOMAIN list, NEW c \in DOMAIN list,
         list[y] <= list[x], Beats(x, c)
  PROVE  Beats(y, c) /\ list[y] < list[c]
<1>1. list[x] \in Nat /\ list[y] \in Nat /\ list[c] \in Nat
  BY ServersAssumption DEF ServersTypes
<1>2. list[x] < list[c] /\ list[x] * 100 <= list[c] * (100 - Margin)
  BY DEF Beats
<1> DEFINE p == list[c] * (100 - Margin)
<1>3. p \in Int
  BY <1>1, ServersAssumption
<1> HIDE DEF p
<1>4. list[y] < list[c] /\ list[y] * 100 <= p
  BY <1>1, <1>2, <1>3 DEF p
<1> QED
  BY <1>4 DEF Beats, p

(* One turn of the loop that switches servers.                             *)
LEMMA SwitchFits ==
  ASSUME ServersTypes, NEW f, FillInv(f), NEW s \in ServerSlots, NEW r, SwitchInv(r, f, s - 1)
  PROVE  SwitchInv(Switch(r, s), f, s)
<1> DEFINE b == BestFree(r.server)
           q == Switch(r, s)
<1>1. r.server \in SlotServers /\ r.better \in [ServerSlots -> Nat] /\ s \in Nat
  BY ServersAssumption DEF SwitchInv, Picture, ServerSlots
<1>2. r.server[s] = f.server[s] /\ r.better[s] = f.better[s]
  BY <1>1 DEF SwitchInv
<1>3. \A t \in ServerSlots : t <= s => t = s \/ t <= s - 1
  BY <1>1 DEF ServerSlots
<1>4. \A t \in ServerSlots : t > s => t > s - 1
  BY <1>1 DEF ServerSlots
<1>5. Keeps(s) => /\ f.server[s] = server[s] /\ f.better[s] = better[s]
                  /\ server[s] # NoServer /\ server[s] \in DOMAIN list
  BY ServersAssumption DEF FillInv, Keeps, ServersTypes, NoServer
<1>6. ASSUME q \in Picture, q.server = r.server,
             \A t \in ServerSlots : t # s => q.better[t] = r.better[t],
             Keeps(s) => Stays(q, s) \/ Counts(q, s, f.server),
             ~Keeps(s) => q.better[s] = 0
      PROVE  SwitchInv(q, f, s)
  <2> HIDE DEF q
  <2>1. \A t \in ServerSlots : t > s => q.server[t] = f.server[t] /\ q.better[t] = f.better[t]
    BY <1>1, <1>4, <1>6 DEF SwitchInv, ServerSlots
  <2>2. \A t \in ServerSlots : t <= s /\ Keeps(t) => Stays(q, t) \/ Counts(q, t, f.server) \/ Switches(q, t)
    BY <1>3, <1>6 DEF SwitchInv, Stays, Counts, Switches
  <2>3. \A t \in ServerSlots : ~Keeps(t) => q.server[t] = f.server[t] /\ q.better[t] = 0
    BY <1>6 DEF SwitchInv
  <2> QED
    BY <1>6, <2>1, <2>2, <2>3 DEF SwitchInv
<1>7. CASE r.server[s] = NoServer
  <2>1. q = r /\ ~Keeps(s)
    BY <1>2, <1>5, <1>7 DEF Switch
  <2> QED
    BY <1>6, <2>1 DEF SwitchInv
<1>8. CASE r.server[s] # NoServer /\ (Free(r.server) = {} \/ ~Beats(b, r.server[s]))
  <2>1. q = StartOver(r, s)
    BY <1>8 DEF Switch
  <2>2. q.server = r.server /\ q.better = [r.better EXCEPT ![s] = 0] /\ q \in Picture
    BY <1>1, <2>1 DEF StartOver, SwitchInv, Picture
  <2>3. q.better[s] = 0 /\ \A t \in ServerSlots : t # s => q.better[t] = r.better[t]
    BY <1>1, <2>2
  <2> HIDE DEF q
  <2>4. Keeps(s) => Stays(q, s)
    BY <1>2, <1>5, <2>2, <2>3 DEF Stays
  <2> QED
    BY <1>6, <2>2, <2>3, <2>4 DEF q
<1>9. CASE r.server[s] # NoServer /\ Free(r.server) # {} /\ Beats(b, r.server[s])
  <2>1. b \in Free(r.server) /\ \A x \in Free(r.server) : list[b] <= list[x]
    BY <1>9, BestIsFree
  <2>2. b \in DOMAIN list /\ b \in Servers /\ b # NoServer /\ \A t \in ServerSlots : r.server[t] # b
    BY <2>1, ServersAssumption DEF Free, ServersTypes, NoServer
  <2>3. r.server[s] \in DOMAIN list
    BY <1>9 DEF SwitchInv, Qualified
  <2> HIDE DEF b
  <2>4. PICK y \in Free(f.server) : list[y] <= list[b]
    BY <2>1 DEF SwitchInv
  <2>5. Beats(y, f.server[s]) /\ list[y] < list[f.server[s]] /\ y \in DOMAIN list
    BY <1>2, <1>9, <2>2, <2>3, <2>4, BeatsFacts DEF Free
  <2>6. Keeps(s)
    <3>1. ~Keeps(s) => list[f.server[s]] <= list[y]
      BY <1>2, <1>9, <2>4 DEF FillInv
    <3>2. list[f.server[s]] \in Nat /\ list[y] \in Nat
      BY <1>2, <2>3, <2>5, ServersAssumption DEF ServersTypes
    <3> QED
      BY <2>5, <3>1, <3>2
  <2>7. CASE ~Confirmed(r.better[s] + 1)
    <3>1. q = [r EXCEPT !.better[s] = @ + 1]
      BY <1>9, <2>7 DEF Switch, b
    <3>2. q.server = r.server /\ q.better = [r.better EXCEPT ![s] = @ + 1] /\ q \in Picture
      BY <1>1, <3>1 DEF SwitchInv, Picture
    <3>3. q.better[s] = r.better[s] + 1 /\ \A t \in ServerSlots : t # s => q.better[t] = r.better[t]
      BY <1>1, <3>2
    <3>4. r.better[s] + 1 < Confirm
      BY <1>1, <2>7, ServersAssumption DEF Confirmed
    <3> HIDE DEF q
    <3>5. Counts(q, s, f.server)
      BY <1>2, <1>5, <2>4, <2>5, <2>6, <3>2, <3>3, <3>4 DEF Counts
    <3> QED
      BY <1>6, <2>6, <3>2, <3>3, <3>5 DEF q
  <2>8. CASE Confirmed(r.better[s] + 1)
    <3>1. q = [r EXCEPT !.server[s] = b, !.better[s] = 0]
      BY <1>9, <2>8 DEF Switch, b
    <3>2. /\ q.server = [r.server EXCEPT ![s] = b]
          /\ q.better = [r.better EXCEPT ![s] = 0]
          /\ q \in Picture
      <4>1. r = [server |-> r.server, better |-> r.better]
        BY DEF SwitchInv, Picture
      <4>2. q = [server |-> [r.server EXCEPT ![s] = b], better |-> [r.better EXCEPT ![s] = 0]]
        BY <3>1, <4>1
      <4>3. [r.server EXCEPT ![s] = b] \in SlotServers /\ [r.better EXCEPT ![s] = 0] \in [ServerSlots -> Nat]
        BY <1>1, <2>2 DEF SlotServers
      <4> HIDE DEF q
      <4> QED
        BY <4>2, <4>3 DEF Picture
    <3>3. /\ q.server[s] = b /\ q.better[s] = 0
          /\ \A t \in ServerSlots : t # s => q.server[t] = r.server[t] /\ q.better[t] = r.better[t]
      BY <1>1, <3>2 DEF SlotServers
    <3> HIDE DEF q
    <3>4. Apart(q.server) /\ Qualified(q.server)
      BY <2>2, <3>3 DEF SwitchInv, Apart, Qualified
    <3>5. \A x \in Free(q.server) : x \in Free(r.server) \/ x = r.server[s]
      BY <3>3 DEF Free
    <3>6. \A x \in Free(q.server) : \E z \in Free(f.server) : list[z] <= list[x]
      <4>1. list[y] <= list[r.server[s]]
        BY <1>2, <2>3, <2>5, ServersAssumption DEF ServersTypes
      <4> QED
        BY <2>4, <3>5, <4>1 DEF SwitchInv
    <3>7. Switches(q, s)
      BY <1>1, <1>2, <1>5, <1>9, <2>6, <2>8, <3>3 DEF Switches, Confirmed
    <3>8. \A t \in ServerSlots : t > s => q.server[t] = f.server[t] /\ q.better[t] = f.better[t]
      BY <1>1, <1>4, <3>3 DEF SwitchInv, ServerSlots
    <3>9. \A t \in ServerSlots : t <= s /\ Keeps(t) => Stays(q, t) \/ Counts(q, t, f.server) \/ Switches(q, t)
      BY <1>3, <3>3, <3>7 DEF SwitchInv, Stays, Counts, Switches
    <3>10. \A t \in ServerSlots : ~Keeps(t) => q.server[t] = f.server[t] /\ q.better[t] = 0
      BY <2>6, <3>3 DEF SwitchInv
    <3> QED
      BY <3>2, <3>4, <3>6, <3>8, <3>9, <3>10 DEF SwitchInv, q
  <2> QED
    BY <2>7, <2>8
<1> QED
  BY <1>7, <1>8, <1>9

-----------------------------------------------------------------------------
(* Both loops.                                                             *)

Turns(n, g) ==
  g = [i \in 0..n |-> IF i = 0 THEN Kept ELSE CHOOSE r \in {Turn(p, i) : p \in {g[i - 1]}} : TRUE]

(* The turns of the switching loop as a function.                          *)
LEMMA TurnIs ==
  ASSUME NEW n \in Nat, NEW g
  PROVE  Turns(n, g) <=> g = [i \in 0..n |-> IF i = 0 THEN Kept ELSE Turn(g[i - 1], i)]
<1>1. \A p, i : (CHOOSE r \in {Turn(x, i) : x \in {p}} : TRUE) = Turn(p, i)
  <2> SUFFICES ASSUME NEW p, NEW i PROVE (CHOOSE r \in {Turn(x, i) : x \in {p}} : TRUE) = Turn(p, i)
    OBVIOUS
  <2>1. \E r \in {Turn(x, i) : x \in {p}} : TRUE
    OBVIOUS
  <2>2. (CHOOSE r \in {Turn(x, i) : x \in {p}} : TRUE) \in {Turn(x, i) : x \in {p}}
    BY <2>1
  <2> QED BY <2>2
<1> QED BY <1>1, Zenon DEF Turns

(* The loops have a result after any number of turns.                      *)
LEMMA TurnsExist ==
  ASSUME NEW n \in Nat
  PROVE  \E g : Turns(n, g)
<1> DEFINE P(m) == \E g : Turns(m, g)
           Bad == {m \in Nat : ~P(m)}
<1>1. P(0)
  <2> DEFINE g == [i \in 0..0 |-> Kept]
  <2>1. g = [i \in 0..0 |-> IF i = 0 THEN Kept ELSE Turn(g[i - 1], i)]
    <3>1. \A i \in 0..0 : i = 0
      OBVIOUS
    <3> QED BY <3>1, Zenon
  <2> QED BY <2>1, TurnIs
<1>2. ASSUME NEW m \in Nat, P(m)
      PROVE  P(m + 1)
  <2>1. PICK g : Turns(m, g)
    BY <1>2
  <2> DEFINE h == [i \in 0..m + 1 |-> IF i = m + 1 THEN Turn(g[m], m + 1) ELSE g[i]]
  <2>2. \A i \in 0..m : g[i] = IF i = 0 THEN Kept ELSE Turn(g[i - 1], i)
    <3>1. g = [i \in 0..m |-> IF i = 0 THEN Kept ELSE Turn(g[i - 1], i)]
      BY <2>1, TurnIs
    <3> QED BY <3>1, Zenon
  <2>3. \A i \in 0..m + 1 : h[i] = IF i = 0 THEN Kept ELSE Turn(h[i - 1], i)
    BY <2>2
  <2>4. h = [i \in 0..m + 1 |-> h[i]]
    OBVIOUS
  <2> HIDE DEF h
  <2>5. h = [i \in 0..m + 1 |-> IF i = 0 THEN Kept ELSE Turn(h[i - 1], i)]
    BY <2>3, <2>4, Zenon
  <2>6. m + 1 \in Nat
    OBVIOUS
  <2> QED BY <2>5, <2>6, TurnIs
<1> HIDE DEF P
<1>3. Bad = {}
  <2> SUFFICES ASSUME Bad # {} PROVE FALSE
    OBVIOUS
  <2>1. PICK b \in Bad : \A y \in Bad : b <= y
    <3>1. Bad \subseteq Nat
      OBVIOUS
    <3> QED BY <3>1, LeastNat
  <2>2. b # 0 /\ b - 1 \in Nat /\ ~(b <= b - 1) /\ (b - 1) + 1 = b
    BY <1>1, <2>1
  <2>3. P(b - 1)
    BY <2>1, <2>2
  <2> QED BY <1>2, <2>1, <2>2, <2>3
<1> QED BY <1>3 DEF P

(* What the turns so far have made: the first loop, then the second.       *)
LoopInv(g, i) ==
  /\ i <= Outputs => FillInv(g[i])
  /\ i >= Outputs => SwitchInv(g[i], g[Outputs], i - Outputs)

(* A slot that has its server after the first loop is where the second one *)
(* begins.                                                                 *)
LEMMA SwitchBegins ==
  ASSUME ServersTypes, NEW f, FillInv(f)
  PROVE  SwitchInv(f, f, 0)
<1>1. \A s \in ServerSlots : ~(s <= 0)
  BY ServersAssumption DEF ServerSlots
<1>2. \A x \in Free(f.server) : \E y \in Free(f.server) : list[y] <= list[x]
  <2>1. \A x \in Free(f.server) : list[x] <= list[x]
    BY ServersAssumption DEF Free, ServersTypes
  <2> QED BY <2>1
<1> QED
  BY <1>1, <1>2 DEF SwitchInv, FillInv

(* Both loops, turn by turn.                                               *)
LEMMA LoopsFit ==
  ASSUME ServersTypes
  PROVE  FillInv(Filled) /\ SwitchInv(Assigned, Filled, Outputs)
<1> DEFINE last == 2 * Outputs
           g == CHOOSE g : Turns(last, g)
           Bad == {i \in Nat : i <= last /\ ~LoopInv(g, i)}
<1>0. Outputs \in Nat \ {0} /\ last \in Nat /\ Outputs <= last /\ last - Outputs = Outputs
  BY ServersAssumption
<1>1. \A i \in 0..last : g[i] = IF i = 0 THEN Kept ELSE Turn(g[i - 1], i)
  <2> HIDE DEF last
  <2>1. Turns(last, g)
    BY <1>0, TurnsExist
  <2>2. g = [i \in 0..last |-> IF i = 0 THEN Kept ELSE Turn(g[i - 1], i)]
    BY <1>0, <2>1, TurnIs
  <2> HIDE DEF g
  <2> QED BY <2>2, Zenon
<1>2. Filled = g[Outputs] /\ Assigned = g[last]
  BY DEF Filled, Assigned, After, Turns
<1> HIDE DEF last, g
<1>3. Bad = {}
  <2> SUFFICES ASSUME Bad # {} PROVE FALSE
    OBVIOUS
  <2>1. PICK b \in Bad : \A y \in Bad : b <= y
    <3>1. Bad \subseteq Nat
      OBVIOUS
    <3> QED BY <3>1, LeastNat
  <2>2. b \in Nat /\ b <= last /\ ~LoopInv(g, b)
    BY <2>1
  <2>3. b # 0
    <3>1. g[0] = Kept
      BY <1>0, <1>1
    <3> QED BY <1>0, <2>2, <3>1, KeptFits DEF LoopInv
  <2>4. b - 1 \in Nat /\ b - 1 <= last /\ ~(b <= b - 1) /\ b \in 0..last
    BY <1>0, <2>2, <2>3
  <2>5. LoopInv(g, b - 1)
    BY <2>1, <2>4
  <2>6. g[b] = Turn(g[b - 1], b)
    BY <1>1, <2>3, <2>4
  <2>7. CASE b <= Outputs
    <3>1. b \in ServerSlots /\ b - 1 <= Outputs
      BY <1>0, <2>2, <2>3, <2>7 DEF ServerSlots
    <3>2. FillInv(g[b])
      BY <2>5, <2>6, <2>7, <3>1, FillFits DEF LoopInv, Turn
    <3>3. b >= Outputs => b = Outputs /\ b - Outputs = 0
      BY <1>0, <2>2, <2>7
    <3> QED BY <2>2, <3>2, <3>3, SwitchBegins DEF LoopInv
  <2>8. CASE ~(b <= Outputs)
    <3> DEFINE s == b - Outputs
    <3>1. s \in ServerSlots /\ b - 1 >= Outputs /\ (b - 1) - Outputs = s - 1 /\ b - Outputs = s
      BY <1>0, <2>2, <2>8 DEF ServerSlots, last
    <3>2. FillInv(g[Outputs])
      <4>1. Outputs \in Nat /\ Outputs <= last /\ ~(b <= Outputs)
        BY <1>0, <2>8
      <4>2. LoopInv(g, Outputs)
        BY <2>1, <4>1
      <4> QED BY <1>0, <4>2 DEF LoopInv
    <3>3. SwitchInv(g[b - 1], g[Outputs], s - 1)
      BY <2>5, <3>1 DEF LoopInv
    <3>4. g[b] = Switch(g[b - 1], s)
      BY <2>6, <2>8 DEF Turn
    <3> HIDE DEF s
    <3>5. SwitchInv(g[b], g[Outputs], s)
      BY <3>1, <3>2, <3>3, <3>4, SwitchFits
    <3> QED BY <2>2, <2>8, <3>1, <3>5 DEF LoopInv
  <2> QED BY <2>7, <2>8
<1>4. LoopInv(g, Outputs) /\ LoopInv(g, last)
  BY <1>0, <1>3
<1> QED
  BY <1>0, <1>2, <1>4 DEF LoopInv

-----------------------------------------------------------------------------
(* The ticks.                                                              *)

(* The count of a slot is below Confirm and not above what really          *)
(* happened.                                                               *)
ServersInv ==
  /\ ServersTypes
  /\ \A s \in ServerSlots : better[s] < Confirm /\ better[s] <= beaten[s]

(* ServersInv holds at the start.                                          *)
LEMMA ServersStart == ServersInit => ServersInv
  BY ServersAssumption DEF ServersInit, ServersInv, ServersTypes, SlotServers

(* What a tick makes of the counts, saved or not.                          *)
LEMMA CountsKept ==
  ASSUME ServersInv, better' = Assigned.better, NoteBeaten(Filled.server)
  PROVE  /\ better' \in [ServerSlots -> Nat] /\ beaten' \in [ServerSlots -> Nat]
         /\ \A s \in ServerSlots : better'[s] < Confirm /\ better'[s] <= beaten'[s]
<1> DEFINE r == Assigned
           f == Filled
<1>1. FillInv(f) /\ SwitchInv(r, f, Outputs) /\ ServersTypes
  BY LoopsFit DEF ServersInv
<1> HIDE DEF r, f
<1>2. r.better \in [ServerSlots -> Nat]
  BY <1>1 DEF SwitchInv, Picture
<1>3. beaten' \in [ServerSlots -> Nat]
  BY ServersAssumption DEF NoteBeaten, ServersInv, ServersTypes
<1>4. ASSUME NEW s \in ServerSlots
      PROVE  r.better[s] < Confirm /\ r.better[s] <= beaten'[s]
  <2>1. beaten'[s] \in Nat /\ better[s] \in Nat /\ beaten[s] \in Nat /\ better[s] <= beaten[s] /\ s <= Outputs
    BY <1>3, ServersAssumption DEF ServersInv, ServersTypes, ServerSlots
  <2>2. CASE r.better[s] = 0
    BY <2>1, <2>2, ServersAssumption
  <2>3. CASE Keeps(s) /\ Counts(r, s, f.server)
    <3>1. f.server[s] = server[s] /\ server[s] # NoServer
      BY <1>1, <2>3, ServersAssumption DEF FillInv, Keeps, ServersTypes, NoServer
    <3>2. \E x \in Free(f.server) : Beats(x, server[s])
      BY <2>3 DEF Counts
    <3>3. beaten'[s] = IF beaten[s] < Confirm THEN beaten[s] + 1 ELSE Confirm
      BY <3>1, <3>2 DEF NoteBeaten, f
    <3>4. r.better[s] = better[s] + 1 /\ r.better[s] < Confirm
      BY <2>3 DEF Counts
    <3> QED BY <2>1, <3>3, <3>4, ServersAssumption
  <2> QED
    BY <1>1, <2>1, <2>2, <2>3 DEF SwitchInv, Stays, Switches
<1> QED
  BY <1>2, <1>3, <1>4 DEF r

(* Every step keeps ServersInv.                                            *)
LEMMA ServersStep == ServersInv /\ [ServersNext]_serverVars => ServersInv'
<1> SUFFICES ASSUME ServersInv, [ServersNext]_serverVars PROVE ServersInv'
  OBVIOUS
<1>1. CASE AssignServers
  <2>1. server' = Assigned.server /\ better' = Assigned.better /\ NoteBeaten(Filled.server) /\ UNCHANGED list
    BY <1>1 DEF AssignServers
  <2>2. server' \in SlotServers
    BY <2>1, LoopsFit DEF ServersInv, SwitchInv, Picture
  <2> QED
    BY <2>1, <2>2, CountsKept DEF ServersInv, ServersTypes
<1>2. CASE AssignUnsaved
  <2>1. better' = Assigned.better /\ NoteBeaten(Filled.server) /\ UNCHANGED <<list, server>>
    BY <1>2 DEF AssignUnsaved
  <2> QED
    BY <2>1, CountsKept DEF ServersInv, ServersTypes
<1>3. CASE Change
  <2>1. DOMAIN list' \subseteq Servers /\ list' \in [DOMAIN list' -> Scores]
    BY <1>3 DEF Change, ServersInv, ServersTypes
  <2> QED
    BY <1>3, <2>1 DEF Change, ServersInv, ServersTypes
<1>4. CASE ServersRestart
  BY <1>4, ServersAssumption DEF ServersRestart, ServersInv, ServersTypes
<1>5. CASE UNCHANGED serverVars
  BY <1>5 DEF serverVars, ServersInv, ServersTypes
<1> QED
  BY <1>1, <1>2, <1>3, <1>4, <1>5 DEF ServersNext

(* ServersInv holds in every reachable state.                              *)
LEMMA ServersInvariant == ServersSpec => []ServersInv
  BY ServersStart, ServersStep, PTL DEF ServersSpec

(* A tick leaves no server on two slots, whatever the record held before   *)
(* (assign): also a hand-edited one, and while slots pass their servers on *)
(* to each other within one tick.                                          *)
THEOREM NoServerTwice == ServersSpec => OneSlotPerServer
<1>1. ServersInv =>
        (AssignServers => \A s, t \in ServerSlots : s # t /\ server'[s] # NoServer => server'[s] # server'[t])
  BY LoopsFit DEF AssignServers, ServersInv, SwitchInv, Apart
<1> QED
  BY <1>1, ServersInvariant, PTL DEF ServersSpec, OneSlotPerServer

(* A slot whose server still qualifies moves only to a server that is      *)
(* better by the margin, after Confirm ticks in a row in which it kept its *)
(* server and one that no slot had was better (assign), whatever the other *)
(* slots, failed saves and restarts did in between.                        *)
THEOREM ServersMoveOnlyIfBeaten == ServersSpec => MovesOnlyIfBeaten
<1>1. ASSUME ServersInv, [ServersNext]_serverVars, NEW s \in ServerSlots, Keeps(s), server'[s] # server[s]
      PROVE  beaten[s] + 1 >= Confirm /\ Beats(server'[s], server[s])
  <2>1. AssignServers
    BY <1>1 DEF ServersNext, AssignUnsaved, Change, ServersRestart, serverVars
  <2>2. server' = Assigned.server /\ s <= Outputs
    BY <2>1, ServersAssumption DEF AssignServers, ServerSlots
  <2>3. Switches(Assigned, s)
    BY <1>1, <2>2, LoopsFit DEF ServersInv, SwitchInv, Stays, Counts
  <2> QED
    BY <1>1, <2>2, <2>3, ServersAssumption DEF Switches, ServersInv, ServersTypes
<1>2. ServersInv /\ [ServersNext]_serverVars =>
        [\A s \in ServerSlots : Keeps(s) /\ server'[s] # server[s]
           => beaten[s] + 1 >= Confirm /\ Beats(server'[s], server[s])]_serverVars
  BY <1>1
<1> QED
  BY <1>2, ServersInvariant, PTL DEF ServersSpec, MovesOnlyIfBeaten
=============================================================================
