------------------------------ MODULE FullApply ------------------------------
(***************************************************************************)
(* The full apply of a source by the sync (Syncer.applyPlans and           *)
(* apply.Outbounds, Inbounds, Routing), one RPC per step, under the target *)
(* lock.  The kinds go outbound, inbound, routing; a kind that fails does  *)
(* not stop the next one.  Each kind lists, removes every resource in the  *)
(* source's namespace, then adds the plan in port order.  Only the         *)
(* outbounds roll back.  apply.Apply gives each kind its algorithm.        *)
(*                                                                         *)
(* A sync starts an apply at "out-list" with its plan set and              *)
(* failed = FALSE; the apply ends at "commit", which belongs to the        *)
(* caller.  Lists come in random order, so any listed resource may be      *)
(* removed next; backups is a set because the removal order it keeps in    *)
(* the code is arbitrary too.                                              *)
(***************************************************************************)
EXTENDS Target

Unplaced == {t \in Tunnels : plan[t] # 0} \ added   \* not added by the kind yet

IsNext(t) == t \in Unplaced /\ \A u \in Unplaced : plan[t] <= plan[u]
IsLast(t) == t \in added /\ \A u \in added : plan[u] <= plan[t]

(* Mutant: the drift check forgets the routing rules.                      *)
MissingButRules(ports) ==
  \E t \in Tunnels :
    ports[t] # 0 /\ (ins[t] = 0 \/ {<<t, "obs">>, <<t, "bare">>} \cap outs = {})

(* missingIn: a resource of the tunnels on the given ports is missing.  An *)
(* outbound counts as present under either of its tags, a rule whatever it *)
(* points to.                                                              *)
Missing(ports) ==
  \E t \in Tunnels :
    /\ ports[t] # 0
    /\ ins[t] = 0 \/ rules[t] = "none" \/ {<<t, "obs">>, <<t, "bare">>} \cap outs = {}

(* Mutant: the outcome of a later kind overwrites a failure.               *)
LastOutcome(ok) == failed' = ~ok

(* One failed kind fails the apply, whatever the others do.                *)
NoteFailure(ok) == failed' = (failed \/ ~ok)

(* A kind lists its resources; a failed list fails the kind.               *)
ListKind(here, remove, next) ==
  /\ At(Sync, here)
  /\ \E ok \in BOOLEAN :
       /\ Read("List", ok)
       /\ Then(Sync, ok, remove, next)
       /\ NoteFailure(ok)
  /\ added' = {}
  /\ backups' = {}
  /\ UNCHANGED <<memVars, lock, grant, plan, tickVars>>

(* A loop of the kind is through.                                          *)
Through(here, next) ==
  /\ At(Sync, here)
  /\ Goto(Sync, next)
  /\ UNCHANGED <<xrayVars, memVars, lock, grant, syncVars, tickVars>>

-----------------------------------------------------------------------------
(* apply.Outbounds, with its rollback.                                     *)

OutList == ListKind("out-list", "out-remove", "in-list") /\ todo' = outs /\ UNCHANGED left

OutRemove ==
  \/ todo = {} /\ Through("out-remove", "out-add")
  \/ /\ At(Sync, "out-remove")
     /\ \E tag \in todo, ok \in BOOLEAN :
          /\ RemoveOutbound(tag, ok)
          /\ Then(Sync, ok, "out-remove", "undo-remove")
          /\ todo' = todo \ {tag}
          /\ backups' = IF ok THEN backups \cup {tag} ELSE backups
     /\ UNCHANGED <<memVars, lock, grant, plan, left, added, failed, tickVars>>

(* A failed add is not in added: the rollback does not remove its tag.     *)
OutAdd ==
  \/ Unplaced = {} /\ Through("out-add", "in-list")
  \/ /\ At(Sync, "out-add")
     /\ Unplaced # {}
     /\ \/ CheckCap(Sync, "undo-remove", FALSE) /\ UNCHANGED added
        \/ \E t \in Tunnels, ok \in BOOLEAN :
             /\ IsNext(t)
             /\ SendAdd(Sync, <<t, Initial>>, ok)
             /\ Then(Sync, ok, "out-add", "undo-remove")
             /\ added' = IF ok THEN added \cup {t} ELSE added
     /\ UNCHANGED <<port, cur, mon, repairErr, lock, plan, todo, left, backups, failed, tickVars>>

(* The rollback first removes what this apply added, errors ignored ...    *)
UndoRemove ==
  \/ added = {} /\ Through("undo-remove", "undo-restore")
  \/ /\ At(Sync, "undo-remove")
     /\ \E t \in Tunnels, ok \in BOOLEAN :
          IsLast(t) /\ RemoveOutbound(<<t, Initial>>, ok) /\ added' = added \ {t}
     /\ UNCHANGED <<memVars, lock, pc, grant, plan, todo, left, backups, failed, tickVars>>

(* ... then re-adds the backups, errors ignored; with a cap the first      *)
(* refusal stops it (restoreBackups), and the client checks the cap once   *)
(* more before the add.                                                    *)
UndoRestore ==
  /\ At(Sync, "undo-restore")
  /\ \/ /\ backups = {}
        /\ Goto(Sync, "in-list")
        /\ failed' = TRUE
        /\ UNCHANGED <<xrayVars, memVars, grant, backups>>
     \/ /\ backups # {}
        /\ CheckCap(Sync, "in-list", FALSE)
        /\ failed' = (failed \/ pc' # pc)
        /\ UNCHANGED <<port, cur, mon, repairErr, backups>>
     \/ /\ \E tag \in backups, ok \in BOOLEAN :
             SendAdd(Sync, tag, ok) /\ backups' = backups \ {tag}
        /\ UNCHANGED <<port, cur, mon, repairErr, pc, failed>>
     \/ /\ Sync \in grant
        /\ Read("List", FALSE)
        /\ \E tag \in backups : backups' = backups \ {tag}
        /\ grant' = grant \ {Sync}
        /\ UNCHANGED <<memVars, pc, failed>>
  /\ UNCHANGED <<lock, plan, todo, left, added, tickVars>>

-----------------------------------------------------------------------------
(* apply.Inbounds: a failure ends the kind, nothing is rolled back.        *)

InList ==
  /\ ListKind("in-list", "in-remove", "rule-list")
  /\ left' = {t \in Tunnels : ins[t] # 0}
  /\ UNCHANGED todo

InRemove ==
  \/ left = {} /\ Through("in-remove", "in-add")
  \/ /\ At(Sync, "in-remove")
     /\ \E t \in left, ok \in BOOLEAN :
          /\ RemoveInbound(t, ok)
          /\ Then(Sync, ok, "in-remove", "rule-list")
          /\ left' = left \ {t}
          /\ NoteFailure(ok)
     /\ UNCHANGED <<memVars, lock, grant, plan, todo, backups, added, tickVars>>

InAdd ==
  \/ Unplaced = {} /\ Through("in-add", "rule-list")
  \/ /\ At(Sync, "in-add")
     /\ \E t \in Tunnels, ok \in BOOLEAN :
          /\ IsNext(t)
          /\ AddInbound(t, plan[t], ok)
          /\ Then(Sync, ok, "in-add", "rule-list")
          /\ added' = added \cup {t}
          /\ NoteFailure(ok)
     /\ UNCHANGED <<memVars, lock, grant, plan, todo, left, backups, tickVars>>

-----------------------------------------------------------------------------
(* apply.Routing: as for the inbounds; the rules point to the plan's       *)
(* initial outbounds.                                                      *)

RuleList ==
  /\ ListKind("rule-list", "rule-remove", "commit")
  /\ left' = {t \in Tunnels : rules[t] # "none"}
  /\ UNCHANGED todo

RuleRemove ==
  \/ left = {} /\ Through("rule-remove", "rule-add")
  \/ /\ At(Sync, "rule-remove")
     /\ \E t \in left, ok \in BOOLEAN :
          /\ RemoveRule(t, ok)
          /\ Then(Sync, ok, "rule-remove", "commit")
          /\ left' = left \ {t}
          /\ NoteFailure(ok)
     /\ UNCHANGED <<memVars, lock, grant, plan, todo, backups, added, tickVars>>

RuleAdd ==
  \/ Unplaced = {} /\ Through("rule-add", "commit")
  \/ /\ At(Sync, "rule-add")
     /\ \E t \in Tunnels, ok \in BOOLEAN :
          /\ IsNext(t)
          /\ AddRule(t, Initial, ok)
          /\ Then(Sync, ok, "rule-add", "commit")
          /\ added' = added \cup {t}
          /\ NoteFailure(ok)
     /\ UNCHANGED <<memVars, lock, grant, plan, todo, left, backups, tickVars>>

ApplyPlans ==
  \/ OutList \/ OutRemove \/ OutAdd \/ UndoRemove \/ UndoRestore
  \/ InList \/ InRemove \/ InAdd
  \/ RuleList \/ RuleRemove \/ RuleAdd

-----------------------------------------------------------------------------
(* Xray holds exactly the tunnels on the ports p, tunnel t on variant c[t]. *)
Holds(p, c) ==
  /\ outs = {<<t, c[t]>> : t \in {u \in Tunnels : p[u] # 0}}
  /\ ins = p
  /\ rules = [t \in Tunnels |-> IF p[t] # 0 THEN c[t] ELSE "none"]

(* No two inbounds of the source listen on one port, whatever an edit did  *)
(* to the port order and wherever an apply or a replacement failed: ports  *)
(* are chosen from the file (BuildSource) or from memory (fill), never     *)
(* from what Xray still has.                                               *)
PortsDistinct == \A s, t \in Tunnels : s # t /\ ins[s] # 0 => ins[s] # ins[t]
=============================================================================
