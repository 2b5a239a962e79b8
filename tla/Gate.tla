-------------------------------- MODULE Gate --------------------------------
(***************************************************************************)
(* What a dependency wait promises of a candidate source: the monitor      *)
(* stands behind a gate.  The gate closes when a dependency is not healthy *)
(* and opens again later.  A candidate is due to be given up, which is to  *)
(* be held back for a while and to lose its slot if there is another one,  *)
(* only after Limit failed checks in a row that were counted since the     *)
(* gate last opened, and it is given up only while the gate is open.       *)
(*                                                                         *)
(* The sync passes by the gate: it may change the active candidates at any *)
(* time.  But it holds none back, it activates none that is held back, and *)
(* what it activates starts without failed checks.                         *)
(***************************************************************************)
EXTENDS Integers

CONSTANTS Cands, Limit

VARIABLES
  closed,   \* the source waits for a dependency
  active,   \* candidates that have a slot
  fails,    \* failed checks in a row, per candidate
  due,      \* candidates that a worker is about to give up
  held      \* candidates that are held back

vars == <<closed, active, fails, due, held>>

None == [c \in Cands |-> 0]

Init == closed = FALSE /\ active \in SUBSET Cands /\ fails = None /\ due = {} /\ held = {}

Close == ~closed /\ closed' = TRUE /\ due' \subseteq due /\ UNCHANGED <<active, fails, held>>

(* Nothing counted before the gate opens is held against a candidate.      *)
Open == closed /\ closed' = FALSE /\ fails' = None /\ due = {} /\ UNCHANGED <<active, due, held>>

Pass(c) == fails' = [fails EXCEPT ![c] = 0] /\ UNCHANGED <<closed, active, due, held>>

Fail(c) ==
  /\ c \in active
  /\ fails' = [fails EXCEPT ![c] = IF @ < Limit THEN @ + 1 ELSE @]
  /\ due' \in {due} \cup IF ~closed /\ fails'[c] = Limit THEN {due \cup {c}} ELSE {}
  /\ UNCHANGED <<closed, active, held>>

(* The candidate is held back; another one may take its slot, or nobody.   *)
GiveUp(c) ==
  /\ ~closed
  /\ c \in due /\ c \in active
  /\ due' = due \ {c}
  /\ held' = held \cup {c}
  /\ \/ UNCHANGED <<active, fails>>
     \/ /\ \E N \in SUBSET (Cands \ (active \cup held')) :
             (\A n, m \in N : n = m) /\ active' = (active \ {c}) \cup N
        /\ fails' = [fails EXCEPT ![c] = 0]
  /\ UNCHANGED closed

Spare(c) == due' = due \ {c} /\ UNCHANGED <<closed, active, fails, held>>

(* A cooldown is over, or the failing dependency is blamed instead.        *)
Release == held' \subseteq held /\ UNCHANGED <<closed, active, fails, due>>

Sync ==
  /\ active' \subseteq Cands /\ (active' \ active) \cap held = {}
  /\ \E kept \in SUBSET (active \cap active') :
       fails' = [c \in Cands |-> IF c \in kept THEN fails[c] ELSE 0]
  /\ UNCHANGED <<closed, due, held>>

Next ==
  \/ Close \/ Open \/ Release \/ Sync
  \/ \E c \in Cands : Pass(c) \/ Fail(c) \/ GiveUp(c) \/ Spare(c)

Spec == Init /\ [][Next]_vars
=============================================================================
