---------------------------- MODULE ProtonServers ----------------------------
(***************************************************************************)
(* Which logical server each candidate slot of the Proton provider uses    *)
(* (internal/wgp/provider/proton, assign): a slot keeps its server as long *)
(* as it qualifies, unless a free one was better by a margin on several    *)
(* ticks in a row.  The server list is the API's: between two ticks any    *)
(* server may leave or join it or change its score.                        *)
(***************************************************************************)
EXTENDS Integers, FiniteSets

CONSTANTS
  Servers,        \* the logical servers, ordered by name (a set of numbers)
  Outputs,        \* output candidates: the number of slots
  Scores,         \* the scores a server may have
  Margin,         \* servers.switchMarginPercent
  Confirm,        \* servers.switchConfirmChecks
  MaxChanges      \* bound on the changes of the server list

ASSUME ServersAssumption ==
  /\ Servers \subseteq Nat \ {0}
  /\ Outputs \in Nat \ {0}
  /\ Scores \subseteq Nat
  /\ Margin \in 0..100
  /\ Confirm \in Nat \ {0}
  /\ MaxChanges \in Nat

ServerSlots == 1..Outputs
NoServer == 0

VARIABLES
  list,      \* API: the score of every server that passes the filters
  changes,   \* how often it changed
  server,    \* the record: the server of each slot
  better,    \* Proton.better: ticks in a row with a better free server
  beaten     \* history: ticks in a row in which a slot kept its server
             \* although one that no slot had was better by the margin

serverVars == <<list, changes, server, better, beaten>>

ServersInit ==
  /\ list \in [Servers -> Scores]
  /\ changes = 0
  /\ server \in [ServerSlots -> Servers \cup {NoServer}]   \* also a hand-edited record
  /\ better = [s \in ServerSlots |-> 0]
  /\ beaten = [s \in ServerSlots |-> 0]

-----------------------------------------------------------------------------
(* assign.                                                                 *)

(* The list, best first: score, then name.  sv are the servers of the      *)
(* slots.                                                                  *)
Best(a, b) == list[a] < list[b] \/ (list[a] = list[b] /\ a <= b)
Free(sv) == {x \in DOMAIN list : \A s \in ServerSlots : sv[s] # x}
BestFree(sv) == CHOOSE x \in Free(sv) : \A y \in Free(sv) : Best(x, y)

(* Mutant: two slots may keep the same server.                             *)
KeepsOwn(s) == server[s] \in DOMAIN list

(* A slot keeps a server that still qualifies and no earlier slot has.     *)
Keeps(s) == server[s] \in DOMAIN list /\ \A t \in 1..(s - 1) : server[t] # server[s]

(* The servers and counts before the first free server is given out: the   *)
(* count of a slot that lost its server starts over.                       *)
Kept ==
  [server |-> [s \in ServerSlots |-> IF Keeps(s) THEN server[s] ELSE NoServer],
   better |-> [s \in ServerSlots |-> IF Keeps(s) THEN better[s] ELSE 0]]

(* Mutant: a slot that lost its server stays empty.                        *)
NotFilled(r, s) == r

(* An empty slot gets the best free server.                                *)
Fill(r, s) ==
  IF r.server[s] # NoServer \/ Free(r.server) = {} THEN r
  ELSE [r EXCEPT !.server[s] = BestFree(r.server)]

(* A score lower by at least the margin.                                   *)
Beats(x, cur) == list[x] < list[cur] /\ list[x] * 100 <= list[cur] * (100 - Margin)

(* Mutant: a tick without a better server does not end the row.            *)
GoOn(r, s) == r

(* The ticks must be in a row.                                             *)
StartOver(r, s) == [r EXCEPT !.better[s] = 0]

Confirmed(n) == n >= Confirm

(* One slot against the best free server; the server it leaves is free for *)
(* the slots after it.                                                     *)
Switch(r, s) ==
  LET best == BestFree(r.server) IN
  IF r.server[s] = NoServer THEN r
  ELSE IF Free(r.server) = {} \/ ~Beats(best, r.server[s]) THEN StartOver(r, s)
  ELSE IF ~Confirmed(r.better[s] + 1) THEN [r EXCEPT !.better[s] = @ + 1]
  ELSE [r EXCEPT !.server[s] = best, !.better[s] = 0]

(* The two loops over the slots: the servers and counts after the first n  *)
(* turns, after the first loop and after the second.  (CHOOSE has TLC      *)
(* evaluate every turn once.)                                              *)
Turn(r, i) == IF i <= Outputs THEN Fill(r, i) ELSE Switch(r, i - Outputs)
After(n) ==
  LET after[i \in 0..2 * Outputs] ==
        IF i = 0 THEN Kept
        ELSE CHOOSE r \in {Turn(p, i) : p \in {after[i - 1]}} : TRUE
  IN  after[n]

Filled == After(Outputs)
Assigned == After(2 * Outputs)

-----------------------------------------------------------------------------
(* A tick, a change of the list, a restart (better is in memory only).     *)

(* The history of a tick that found the servers sv after filling slots.    *)
NoteBeaten(sv) ==
  beaten' = [s \in ServerSlots |->
    IF /\ sv[s] # NoServer /\ sv[s] = server[s]
       /\ \E x \in Free(sv) : Beats(x, server[s])
    THEN IF beaten[s] < Confirm THEN beaten[s] + 1 ELSE Confirm
    ELSE 0]

AssignServers ==
  \E f \in {Filled} : \E a \in {Assigned} :
    /\ server' = a.server
    /\ better' = a.better
    /\ NoteBeaten(f.server)
    /\ UNCHANGED <<list, changes>>

(* A tick whose save failed: the record keeps the servers, the process     *)
(* keeps the counts.                                                       *)
AssignUnsaved ==
  /\ changes < MaxChanges /\ changes' = changes + 1
  /\ \E f \in {Filled} : \E a \in {Assigned} :
       /\ a.server # server
       /\ better' = a.better
       /\ NoteBeaten(f.server)
  /\ UNCHANGED <<list, server>>

Change ==
  /\ changes < MaxChanges /\ changes' = changes + 1
  /\ \E x \in Servers :
       \/ \E v \in Scores : list' = [y \in DOMAIN list \cup {x} |-> IF y = x THEN v ELSE list[y]]
       \/ list' = [y \in DOMAIN list \ {x} |-> list[y]]
  /\ UNCHANGED <<server, better, beaten>>

ServersRestart ==
  /\ changes < MaxChanges /\ changes' = changes + 1
  /\ better' = [s \in ServerSlots |-> 0]
  /\ UNCHANGED <<list, server, beaten>>

ServersNext == AssignServers \/ AssignUnsaved \/ Change \/ ServersRestart

(* The provider keeps ticking.                                             *)
ServersSpec == ServersInit /\ [][ServersNext]_serverVars /\ WF_serverVars(AssignServers)

-----------------------------------------------------------------------------
(* Properties.                                                             *)

(* tick.go:371 "never one server to two slots": after a tick, whatever the *)
(* record held before, also while slots swap their servers in one tick.    *)
OneSlotPerServer ==
  [][AssignServers => \A s, t \in ServerSlots : s # t /\ server'[s] # NoServer => server'[s] # server'[t]]_serverVars

(* README.md:1361-1366: a slot whose server qualifies moves only after a   *)
(* free server was better by the margin on Confirm ticks in a row, this    *)
(* one included, whatever the other slots, restarts and failed saves did   *)
(* in between.                                                             *)
MovesOnlyIfBeaten ==
  [][\A s \in ServerSlots : Keeps(s) /\ server'[s] # server[s]
       => beaten[s] + 1 >= Confirm /\ Beats(server'[s], server[s])]_serverVars

(* Once the list stays as it is the slots stop moving: they use as many    *)
(* servers as there are, and no free one is better by the margin.          *)
Settles ==
  <>[](/\ \A s \in ServerSlots : server[s] = NoServer => Free(server) = {}
       /\ \A s \in ServerSlots : server[s] # NoServer =>
            /\ server[s] \in DOMAIN list
            /\ \A x \in Free(server) : ~Beats(x, server[s]))
=============================================================================
