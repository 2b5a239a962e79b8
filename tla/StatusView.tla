----------------------------- MODULE StatusView -----------------------------
(***************************************************************************)
(* What the status API of scd says about the state of module SyncRun       *)
(* (internal/scd/status): the source and dependency views of a snapshot,   *)
(* and the runtime-state report, which reads the inputs and lists Xray     *)
(* anew.  They change nothing: they are functions of the state.            *)
(***************************************************************************)
EXTENDS SyncRun

-----------------------------------------------------------------------------
(* The snapshot.                                                           *)

(* dependencyViews: a source dependency without state is not_applied; the  *)
(* health of the others is what module DependencyWait records.             *)
DependencyView(i, d) ==
  IF d.source # <<>> /\ \E m \in Nodes : m[1] = i /\ Src(m).id = d.source /\ hash[m] = Nil
  THEN "not_applied" ELSE "health"

(* sourceViews, for source n.                                              *)
SourceView(n) ==
  [enabled |-> Src(n).enabled,
   error |-> errs[n],
   dependsOn |-> {DependencyView(n[1], d) : d \in {e \in ToSet(Src(n).deps) : OwnDep(e)}}]

(* BuildTunnels: the tunnels of the applied sources of subscription i with *)
(* the outbound each has now; those in R run on the one of a repair.       *)
Applied(i) == UNION {{<<n, t>> : t \in Tunnels(n, hash[n])} : n \in {m \in Active : m[1] = i}}
BuildTunnels(i, R) ==
  {[source |-> e[1], base |-> Bare(e[1], e[2]), initial |-> Tag(e[1], "outbound", e[2]),
    current |-> IF e \in R THEN Bare(e[1], e[2]) ELSE Tag(e[1], "outbound", e[2])] : e \in Applied(i)}

(* MapTag: the tunnel an outbound tag of Xray is shown for: the current    *)
(* outbound before the initial one of a repaired tunnel, before the tag    *)
(* without its prefix; {} for a tag that scd does not manage.              *)
MapTag(tag, obs, tunnels) ==
  LET now == {tn \in tunnels : tn.current = tag}
      then == {tn \in tunnels : tn.initial = tag /\ tn.current # tag}
      base == {tn \in tunnels : obs # <<>> /\ tag = obs \o tn.base}
  IN  IF now # {} THEN now ELSE IF then # {} THEN then ELSE base

(* ViewTunnel: whether tunnel tn is shown as the selected one.             *)
Selected(tn, tag) == tn.current = tag

-----------------------------------------------------------------------------
(* BuildRuntimeState.                                                      *)

(* expectedSourceTunnels and buildExpected: a file is read and built as    *)
(* the sync does; <<source, tunnel>> of every enabled source.              *)
ExpectedTunnels(n) == IF Refused(Src(n), Texts[content[n]]) \/ Invalid(n, content[n]) THEN {}
                      ELSE {<<n, t>> : t \in Tunnels(n, content[n])}
Expected(i) == UNION {ExpectedTunnels(n) : n \in {m \in Nodes : m[1] = i /\ Src(m).enabled}}

(* classifyOutbounds: fixed before expected, the initial tag before the    *)
(* one of a repair.                                                        *)
ClassifyOutbound(i, tag) ==
  IF tag \in Sub(i).fixed["outbound"] THEN "fixed"
  ELSE IF \E e \in Expected(i) : tag = Tag(e[1], "outbound", e[2]) THEN "managed-initial"
  ELSE IF \E e \in Expected(i) : tag = Bare(e[1], e[2]) THEN "managed-fallback" ELSE "unmanaged"

(* classify, for inbounds and rules.                                       *)
Classify(i, k, tag) ==
  IF k = "outbound" THEN ClassifyOutbound(i, tag)
  ELSE IF tag \in Sub(i).fixed[k] THEN "fixed"
  ELSE IF \E e \in Expected(i) : tag = Tag(e[1], k, e[2]) THEN "managed" ELSE "unmanaged"

(* Mutant: an outbound that a repair took out of the balancer is missing.  *)
DiffMissingInitialOnly(i, k) == {e \in Expected(i) : Tag(e[1], k, e[2]) \notin res[i][k]}

(* The differences: what is expected and not there, what is there and not  *)
(* expected.                                                               *)
DiffMissing(i, k) ==
  {e \in Expected(i) : /\ Tag(e[1], k, e[2]) \notin res[i][k]
                       /\ k = "outbound" => Bare(e[1], e[2]) \notin res[i][k]}
DiffUnexpected(i, k) == {tag \in res[i][k] : Classify(i, k, tag) = "unmanaged"}

(* The report of subscription i: an error when its Xray does not answer.   *)
RuntimeState(i) ==
  IF i \notin up THEN [code |-> 502]
  ELSE [code |-> 200, missing |-> [k \in cfg.kinds |-> DiffMissing(i, k)],
        unexpected |-> [k \in cfg.kinds |-> DiffUnexpected(i, k)]]

-----------------------------------------------------------------------------
(* Properties.                                                             *)

(* Between syncs the snapshot tells how the last sync ended (noteError,    *)
(* clearError, sourceViews): a source without an error was loaded and      *)
(* synced, and none of its dependencies is shown as not applied.           *)
StatusTells ==
  pc = "idle" /\ got # NoNodes(FailedLoad) =>
    \A n \in Active :
      /\ (SourceView(n).error = NoError) <=> n \notin noted /\ got[n] # FailedLoad
      /\ SourceView(n).error = NoError => "not_applied" \notin SourceView(n).dependsOn

(* A source whose input is applied has resources missing in the report     *)
(* exactly when the sync finds it drifted.                                 *)
MissingAgrees(i) ==
  \A n \in Active :
    n[1] = i /\ hash[n] = content[n] =>
      ((\E k \in cfg.kinds : \E e \in RuntimeState(i).missing[k] : e[1] = n) <=> Missing(n, hash[n]))

(* What the report calls managed or fixed no orphan removal takes.         *)
OrphansAgree(i) ==
  \A k \in cfg.kinds : \A tag \in res[i][k] \ RuntimeState(i).unexpected[k] : ~Orphan(Sub(i), k, tag)

(* A selected outbound is shown for at most one tunnel, of the source that *)
(* owns it, and every tunnel on it is shown as selected (MapTag).          *)
ShownRight(i, R, tag) ==
  LET tunnels == BuildTunnels(i, R)
      shown == MapTag(tag, Sub(i).obs, tunnels)
  IN  /\ \A tn \in shown : /\ shown = {tn}
                            /\ Owns(Sub(i), Src(tn.source), "outbound", tag)
                            /\ tag \notin Sub(i).fixed["outbound"]
      /\ \A tn \in tunnels : Selected(tn, tag) => tn \in shown

(* The views and the sync judge the same resources the same way, each with *)
(* its own code, and between syncs the tunnels shown as selected are right *)
(* whatever the monitor repaired since the balancer was asked.             *)
ReportAgrees ==
  \A i \in up :
    /\ MissingAgrees(i)
    /\ OrphansAgree(i)
    /\ pc = "idle" => \A R \in SUBSET Applied(i), tag \in res[i]["outbound"] : ShownRight(i, R, tag)
=============================================================================
