------------------------------ MODULE Balancer ------------------------------
(***************************************************************************)
(* What scd knows of a balancer of an Xray target: the answer of           *)
(* GetBalancerInfo as the client decodes it (internal/scd/xrayapi), the    *)
(* selection state that the selection tick records                         *)
(* (internal/scd/balancer), and the health other parts read from it        *)
(* (internal/scd/state, internal/scd/monitor).                             *)
(*                                                                         *)
(* A raw answer is a record: code is the status of the call ("OK", or why  *)
(* it failed), override the override target ("" for none), known tells     *)
(* whether principle_target is present, and tags are its tags, where       *)
(* leastPing without a live outbound gives <<"">>.  Times are ages: the    *)
(* number of activations of the selection schedule since the event, Never  *)
(* when it has not happened.                                               *)
(***************************************************************************)
EXTENDS Integers, SequencesExt

Never == -1
StaleAfter == 3     \* activations
NoTag == ""         \* no override; leastPing without a live outbound

(* An age one activation later; every age from StaleAfter on is the same.  *)
Older(age) == IF age = Never THEN Never ELSE Min({age + 1, StaleAfter})

(* Stale: the third activation after the event is over.                    *)
Stale(age) == age = Never \/ age >= StaleAfter

-----------------------------------------------------------------------------
(* The client.                                                             *)

(* readCall, mapError and IsUnavailable: what the caller tells apart.      *)
Outcome(raw) ==
  CASE raw.code = "OK"                                   -> "ok"
    [] raw.code = "unknown service"                      -> "disabled"
    [] raw.code = "cannot find tag"                      -> "notFound"
    [] raw.code \in {"Unavailable", "DeadlineExceeded"}  -> "unavailable"
    [] OTHER                                             -> "error"

(* PrincipleTargets: the principle tags without the empty ones.            *)
Targets(raw) ==
  LET named[i \in 0..Len(raw.tags)] ==
        IF i = 0 THEN <<>>
        ELSE IF raw.tags[i] = NoTag THEN named[i - 1] ELSE Append(named[i - 1], raw.tags[i])
  IN  IF raw.known THEN named[Len(raw.tags)] ELSE <<>>

Info(raw) == [override |-> raw.override, known |-> raw.known, targets |-> Targets(raw)]

Selects(override, targets) == override # NoTag \/ targets # <<>>

(* checkBalancers for one tag.                                             *)
Health(raw) ==
  CASE Outcome(raw) # "ok" -> "unknown"
    [] OTHER -> IF Selects(Info(raw).override, Info(raw).targets) THEN "healthy" ELSE "unhealthy"

(* NoteXray: XrayDown after a call with this outcome.                      *)
NoteXray(outcome, down) ==
  CASE outcome = "ok" -> FALSE
    [] outcome = "unavailable" -> TRUE
    [] OTHER -> down

(* The balancer checks pass the answers "no such balancer" and "service    *)
(* disabled" to NoteXray as successes.                                     *)
Verdict(raw) == IF Outcome(raw) \in {"notFound", "disabled"} THEN "ok" ELSE Outcome(raw)

-----------------------------------------------------------------------------
(* The selection state of a balancer (state.SelectionState).               *)

NoSelection ==
  [state |-> "", mode |-> "", selected |-> NoTag, previous |-> NoTag, override |-> NoTag,
   targets |-> <<>>, notFound |-> FALSE, age |-> Never, foreign |-> {}]

(* ResolveSelection: the mode and the effective selected tag.              *)
Resolve(info) ==
  CASE info.override # NoTag     -> [mode |-> "override", selected |-> info.override]
    [] info.override = NoTag /\ ~info.known -> [mode |-> "unknown", selected |-> NoTag]
    [] OTHER -> CASE Len(info.targets) = 0 -> [mode |-> "none", selected |-> NoTag]
                  [] Len(info.targets) = 1 -> [mode |-> "single", selected |-> info.targets[1]]
                  [] Len(info.targets) > 1 -> [mode |-> "pool", selected |-> NoTag]

(* recordForeign: the selected tags outside the namespaces of the          *)
(* balancer's sources; no selection changes nothing.                       *)
Foreign(s, info, owned) ==
  LET picked == IF info.override # NoTag THEN {info.override} ELSE ToSet(info.targets)
  IN  IF picked = {} THEN s.foreign
      ELSE IF owned = {} THEN {} ELSE picked \ owned

(* record and recordForeign: the selection state after one poll.  owned    *)
(* are the tags of the balancer's sources, {} when it has no source.  age  *)
(* stands for LastSuccessAt after a success and for LastCheckedAt after a  *)
(* missing balancer: the code reads no other combination.                  *)
Record(s, raw, owned) ==
  IF Outcome(raw) # "ok"
  THEN [s EXCEPT !.state = "error", !.notFound = Outcome(raw) = "notFound",
                 !.age = IF Outcome(raw) = "notFound" THEN 0 ELSE Never]
  ELSE LET now == Resolve(Info(raw)) IN
       [state      |-> "ok",
        mode       |-> now.mode,
        selected   |-> now.selected,
        previous   |-> IF s.state # "" /\ now.selected # s.selected THEN s.selected ELSE s.previous,
        override   |-> raw.override,
        targets    |-> Info(raw).targets,
        notFound   |-> FALSE,
        age        |-> 0,
        foreign    |-> Foreign(s, Info(raw), owned)]

(* The same state one activation of the schedule later.                    *)
Aged(s) == [s EXCEPT !.age = Older(@)]

(* Mutant: the age of the last success is not looked at.                   *)
SelectionHealthAnyAge(s, down) ==
  CASE s.state # "ok" \/ down -> "unknown"
    [] OTHER -> IF Selects(s.override, s.targets) THEN "healthy" ELSE "unhealthy"

(* SelectionHealth: the balancer of another subscription as a dependency.  *)
SelectionHealth(s, down) ==
  CASE s.state # "ok" \/ down \/ Stale(s.age) -> "unknown"
    [] OTHER -> IF Selects(s.override, s.targets) THEN "healthy" ELSE "unhealthy"

(* crossChecks: the only selection state that fails a sync's check.        *)
CrossNotFound(s) == s.state = "error" /\ s.notFound /\ ~Stale(s.age)
=============================================================================
