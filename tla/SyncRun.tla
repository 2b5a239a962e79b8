------------------------------- MODULE SyncRun -------------------------------
(***************************************************************************)
(* One process of scd syncing all of its sources: Run, perform,            *)
(* syncSubscription, removeOrphans, checkSource, syncSource and            *)
(* stateRestored of internal/scd/syncer, over every configuration of a     *)
(* given set that the rules accept (module ConfigRules).                   *)
(*                                                                         *)
(* A source is a node <<subscription, source>>, numbered in id order.  Its *)
(* input is one of some texts, read as module Inputs says.  The apply of   *)
(* one kind of a source is one step here; module FullApply splits it into  *)
(* its calls.  Port ranges are large enough for every text.  The monitor   *)
(* appears with what it does to the sync's state: it repairs tunnels and   *)
(* reports sources whose resources Xray lost.                              *)
(***************************************************************************)
EXTENDS ConfigRules

CONSTANTS
  Configs,     \* the configurations tried
  Texts,       \* the texts an input may have, a sequence; the first is valid
  MaxFaults    \* bound on failures of any kind, restarts and new texts

ASSUME SyncAssumption ==
  /\ Configs \subseteq Configuration
  /\ Texts \in Seq(Text) /\ Texts # <<>>
  /\ MaxFaults \in Nat

Nil == -1      \* the target has no state of the source
Reset == 0     \* its hashes are reset: the next sync applies in full
NoError == ""  \* of a source, or of a check
Unlisted == {<<"unlisted">>}
FailedLoad == -1

VARIABLES
  cfg,          \* the configuration of this process
  static,       \* the resources of Xray's own configuration, per subscription
  res,          \* res[i][k]: the tags of kind k in the Xray of subscription i
  up,           \* subscriptions whose Xray API answers
  gone,         \* balancers that their Xray does not have
  faults,       \* failures so far
  content,      \* content[n]: the text that the input of source n has
  hash,         \* hash[n]: Nil, Reset or the applied text
  errs,         \* errs[n]: code of SourceErrors
  checkFailed,  \* sources with a failed check
  lost,         \* StateLost: "before" this sync, "during" it, or "none"
  pc, at,       \* step of the sync, its subscription
  got,          \* got[n]: the text that this sync loaded
  pending,      \* sources of the subscription still to sync
  left,         \* kinds still to go through
  bad,          \* the apply of a kind failed
  noted,        \* errNoted
  drifted, applied,
  listed        \* the outbounds left by the orphan removal

env == <<cfg, static, res, up, gone, faults, content>>
memory == <<hash, errs, checkFailed, lost>>
locals == <<at, got, pending, left, bad, noted, drifted, applied, listed>>
vars == <<env, memory, pc, locals>>

Nodes == NodesOf(cfg)
Src(n) == SourceAt(cfg, n)
Sub(i) == cfg.subs[i]
Active == {n \in Nodes : Sub(n[1]).enabled /\ Src(n).enabled}
Loaded(i) == {<<i, j>> : j \in {k \in DOMAIN Sub(i).sources : got[<<i, k>>] # FailedLoad}}
DependsOn(n, m) == /\ m[1] = n[1]
                   /\ \E d \in ToSet(Src(n).deps) : OwnDep(d) /\ d.source # <<>> /\ d.source = Src(m).id
SourceNodes(n) == {m \in Nodes : DependsOn(n, m)}

(* The manifest of every source with every text, and its tunnels.          *)
Manifests ==
  LET sources == UNION {ToSet(s.sources) : s \in UNION {ToSet(c.subs) : c \in Configs}} IN
  [src \in sources |-> [v \in DOMAIN Texts |-> FromSource(src, Texts[v])]]
(* The plans are sorted by tag: the order of the lines is not in the hash. *)
ManifestHash(n, v) == ToSet(Manifests[Src(n)][v].tags)
Tunnels(n, v) == IF v \in DOMAIN Texts THEN ManifestHash(n, v) ELSE {}
Invalid(n, v) == Manifests[Src(n)][v].invalid
AllTunnels == UNION {{Texts[v].lines[k].tag : k \in DOMAIN Texts[v].lines} : v \in DOMAIN Texts}

(* The tags of tunnel t of source n; an outbound is repaired without the   *)
(* observatory prefix.                                                     *)
Tag(n, k, t) ==
  (IF k = "outbound" THEN Sub(n[1]).obs ELSE KindPrefix(k)) \o Src(n).id \o <<t>>
Bare(n, t) == Src(n).id \o <<t>>
Plan(n, k, v) == {Tag(n, k, t) : t \in Tunnels(n, v)}
Has(n, k, t) == Tag(n, k, t) \in res[n[1]][k] \/ (k = "outbound" /\ Bare(n, t) \in res[n[1]][k])
Missing(n, v) == \E k \in cfg.kinds, t \in Tunnels(n, v) : ~Has(n, k, t)

NoNodes(v) == [n \in Nodes |-> v]

Init ==
  /\ cfg \in {c \in Configs : Accepted(c)}
  /\ \E dialers \in BOOLEAN :
       static = [i \in DOMAIN cfg.subs |->
                   [k \in Kinds |-> IF dialers THEN cfg.subs[i].fixed[k] ELSE {}]]
  /\ res = [i \in DOMAIN cfg.subs |->        \* left by an earlier configuration
              [k \in Kinds |-> static[i][k] \cup {KindPrefix(k) \o <<"old", "1">>}]]
  /\ up = DOMAIN cfg.subs /\ gone = {} /\ faults = 0
  /\ content = NoNodes(1)
  /\ hash = NoNodes(Nil) /\ errs = NoNodes(NoError) /\ checkFailed = {} /\ lost = NoNodes("none")
  /\ pc = "idle" /\ at = 0 /\ got = NoNodes(FailedLoad) /\ pending = {} /\ left = <<>> /\ bad = FALSE
  /\ noted = {} /\ drifted = {} /\ applied = {} /\ listed = Unlisted

Fault == faults < MaxFaults /\ faults' = faults + 1

(* noteError: the first failure of a source in this sync.                  *)
NoteErrors(S, code) ==
  /\ errs' = [n \in Nodes |-> IF n \in S \ noted THEN code ELSE errs[n]]
  /\ noted' = noted \cup S

-----------------------------------------------------------------------------
(* A load fails: by its read or fetch, when it is one of F, or because the *)
(* source does not take the text.                                          *)
Fails(n, F) == n \in F \/ Refused(Src(n), Texts[content[n]])

(* failedLoad: recorded before anything is applied.                        *)
NoteFailedLoads(failed) ==
  /\ errs' = [n \in Nodes |-> IF n \in failed THEN "fetch_failed" ELSE errs[n]]
  /\ noted' = failed

(* Run and LoadSources: every enabled source is loaded.                    *)
SyncStart ==
  /\ pc = "idle"
  /\ \E F \in SUBSET Active :
       LET failed == {n \in Active : Fails(n, F)} IN
       /\ IF F = {} THEN UNCHANGED faults ELSE Fault
       /\ got' = [n \in Nodes |-> IF n \in Active \ failed THEN content[n] ELSE FailedLoad]
       /\ NoteFailedLoads(failed)
  /\ lost' = [n \in Nodes |-> IF lost[n] = "none" THEN "none" ELSE "before"]
  /\ drifted' = {} /\ applied' = {} /\ listed' = Unlisted
  /\ pc' = "next" /\ at' = 0
  /\ UNCHANGED <<cfg, static, res, up, gone, content, hash, checkFailed, pending, left, bad>>

(* The order of RemoveOrphans and of an apply.                             *)
OrphanKinds == SelectSeq(<<"routing", "inbound", "outbound">>, LAMBDA k : k \in cfg.kinds)
ApplyKinds == SelectSeq(<<"outbound", "inbound", "routing">>, LAMBDA k : k \in cfg.kinds)

(* perform: the next enabled subscription, or the end of the sync.         *)
NextSubscription ==
  /\ pc = "next"
  /\ LET rest == {i \in DOMAIN cfg.subs : i > at /\ Sub(i).enabled} IN
     IF rest = {} THEN pc' = "idle" /\ UNCHANGED <<at, left>>
     ELSE pc' = "orphans" /\ at' = Min(rest) /\ left' = OrphanKinds
  /\ listed' = Unlisted
  /\ UNCHANGED <<env, memory, got, pending, bad, noted, drifted, applied>>

(* dependencyOrder: Kahn's algorithm, the lowest id first.  The source of  *)
(* S that comes first; of a cycle, which the rules refuse, the lowest.     *)
DependencyOrder(S) ==
  LET free == {n \in S : ~\E m \in S : DependsOn(n, m)}
      from == IF free = {} THEN S ELSE free
  IN  CHOOSE n \in from : \A m \in from \ {n} : Before(n, m)

(* The source that is synced.                                              *)
Current == DependencyOrder(pending)

(* failAll: every loaded source of the subscription fails, and the sync    *)
(* goes on with the next subscription.                                     *)
FailAll(code) == NoteErrors(Loaded(at), code) /\ pc' = "next"

(* RemoveOrphans, one kind; the target lock is held over all of them.  An  *)
(* error fails every loaded source of the subscription.                    *)
RemoveOrphans ==
  /\ pc = "orphans" /\ left # <<>>
  /\ LET k == Head(left)
         orphans == {tag \in res[at][k] : Orphan(Sub(at), k, tag)}
     IN  \/ /\ at \in up
            /\ res' = [res EXCEPT ![at][k] = @ \ orphans]
            /\ left' = Tail(left)
            /\ listed' = IF k = "outbound" THEN res[at][k] \ orphans ELSE listed
            /\ UNCHANGED <<pc, faults, errs, noted>>
         \/ /\ IF at \in up
               THEN Fault /\ \E S \in SUBSET orphans : res' = [res EXCEPT ![at][k] = @ \ S]
               ELSE UNCHANGED <<faults, res>>
            /\ FailAll("orphan_remove_failed")
            /\ left' = <<>>
            /\ UNCHANGED listed
  /\ UNCHANGED <<cfg, static, up, gone, content, hash, checkFailed, lost, at, got, pending, bad,
                 drifted, applied>>

OrphansRemoved ==
  /\ pc = "orphans" /\ left = <<>>
  /\ pending' = Loaded(at)
  /\ pc' = "check"
  /\ UNCHANGED <<env, memory, at, got, left, bad, noted, drifted, applied, listed>>

-----------------------------------------------------------------------------
(* One source.                                                             *)

NextSource(n) == pc' = "check" /\ pending' = pending \ {n}

(* The balancers that must exist: the source's own and those it depends    *)
(* on; those of another subscription are judged by its selection state.    *)
BalancersOf(n) ==
  (IF Src(n).balancer # "" THEN {<<n[1], Src(n).balancer>>} ELSE {})
  \cup {<<IF OwnDep(d) THEN n[1] ELSE CHOOSE i \in IndexOf(cfg, d.sub) : TRUE, d.balancer>> :
          d \in {e \in ToSet(Src(n).deps) : e.balancer # ""}}
Asked(n) == {b \in BalancersOf(n) : b[1] = n[1]}

(* runChecks, in its order.  "apply_failed" is no verdict: the API or the  *)
(* list of outbounds is not available.                                     *)
CheckCode(n) ==
  IF \E m \in SourceNodes(n) : hash[m] = Nil THEN "dependency_not_applied"
  ELSE IF Asked(n) # {} /\ n[1] \notin up THEN "apply_failed"
  ELSE IF BalancersOf(n) \cap gone # {} THEN "balancer_not_found"
  ELSE IF Src(n).dialer = <<>> THEN NoError
  ELSE IF listed = Unlisted THEN "apply_failed"
  ELSE IF Src(n).dialer \notin listed THEN "dialer_proxy_missing" ELSE NoError

CheckSource(n) ==
  /\ pc = "check" /\ n = Current
  /\ LET code == CheckCode(n) IN
     /\ checkFailed' = CASE code = NoError -> checkFailed \ {n}
                         [] code = "apply_failed" -> checkFailed
                         [] OTHER -> checkFailed \cup {n}
     /\ IF code = NoError THEN pc' = "source" /\ UNCHANGED <<pending, errs, noted>>
        ELSE NextSource(n) /\ NoteErrors({n}, code)
  /\ UNCHANGED <<env, hash, lost, at, got, left, bad, drifted, applied, listed>>

(* Mutant: the error of an earlier sync stays.                             *)
FinishKeepsError(n, failed) ==
  /\ NextSource(n)
  /\ IF failed THEN NoteErrors({n}, "apply_failed") /\ UNCHANGED applied
     ELSE applied' = applied \cup {n} /\ UNCHANGED <<errs, noted>>

(* clearError, or noteError with apply_failed, after a source.             *)
Finish(n, failed) ==
  /\ NextSource(n)
  /\ IF failed THEN NoteErrors({n}, "apply_failed") /\ UNCHANGED applied
     ELSE /\ errs' = [errs EXCEPT ![n] = NoError]
          /\ applied' = applied \cup {n}
          /\ UNCHANGED noted

(* syncSource up to the lock: an invalid manifest, unchanged hashes with   *)
(* nothing missing (a failed list counts so), or an apply.                 *)
SyncSource(n) ==
  /\ pc = "source" /\ n = Current
  /\ LET same == hash[n] \in DOMAIN Texts /\ ManifestHash(n, hash[n]) = ManifestHash(n, got[n])
         drift == same /\ n[1] \in up /\ Missing(n, got[n])
     IN  CASE Invalid(n, got[n]) ->
                NoteErrors({n}, "manifest_invalid") /\ NextSource(n)
                /\ UNCHANGED <<lost, left, bad, drifted, applied>>
           [] ~Invalid(n, got[n]) /\ same /\ ~drift ->
                Finish(n, FALSE) /\ UNCHANGED <<lost, left, bad, drifted>>
           [] OTHER ->
                /\ pc' = "apply" /\ left' = ApplyKinds /\ bad' = FALSE
                /\ lost' = [lost EXCEPT ![n] = IF drift /\ @ = "none" THEN "during" ELSE @]
                /\ drifted' = IF drift THEN drifted \cup {n} ELSE drifted
                /\ UNCHANGED <<errs, noted, applied, pending>>
  /\ UNCHANGED <<env, hash, checkFailed, at, got, listed>>

(* applyPlans: every kind is tried; one that fails may have removed what   *)
(* was there.                                                              *)
ApplyKind(n) ==
  /\ pc = "apply" /\ left # <<>> /\ n = Current
  /\ LET k == Head(left)
         own == {tag \in res[n[1]][k] \ Sub(n[1]).fixed[k] : Owns(Sub(n[1]), Src(n), k, tag)}
     IN  \/ /\ n[1] \in up
            /\ res' = [res EXCEPT ![n[1]][k] = (@ \ own) \cup Plan(n, k, got[n])]
            /\ UNCHANGED <<bad, faults>>
         \/ /\ IF n[1] \in up THEN Fault /\ res' \in {res, [res EXCEPT ![n[1]][k] = @ \ own]}
               ELSE UNCHANGED <<res, faults>>
            /\ bad' = TRUE
  /\ left' = Tail(left)
  /\ UNCHANGED <<cfg, static, up, gone, content, memory, pc, at, got, pending, noted, drifted, applied, listed>>

ApplyDone(n) ==
  /\ pc = "apply" /\ left = <<>> /\ n = Current
  /\ hash' = IF bad THEN hash ELSE [hash EXCEPT ![n] = got[n]]
  /\ Finish(n, bad)
  /\ UNCHANGED <<env, checkFailed, lost, at, got, left, bad, drifted, listed>>

(* Mutant: only the marks of this sync's drift check end.                  *)
StateRestoredDriftOnly ==
  /\ pc = "check" /\ pending = {}
  /\ lost' = [n \in Nodes |-> IF n \in applied \cap drifted THEN "none" ELSE lost[n]]
  /\ pc' = "next" /\ applied' = {}
  /\ UNCHANGED <<env, hash, errs, checkFailed, at, got, pending, left, bad, noted, drifted, listed>>

(* stateRestored: a mark from before the sync, or from its drift check.    *)
StateRestored ==
  /\ pc = "check" /\ pending = {}
  /\ lost' = [n \in Nodes |-> IF n \in applied /\ (lost[n] = "before" \/ n \in drifted)
                              THEN "none" ELSE lost[n]]
  /\ pc' = "next" /\ applied' = {}
  /\ UNCHANGED <<env, hash, errs, checkFailed, at, got, pending, left, bad, noted, drifted, listed>>

-----------------------------------------------------------------------------
(* The monitor, between two holders of the target lock.                    *)

Locked(i) == i = at /\ pc \in {"orphans", "apply"}

(* stateLost: the inbound of a known tunnel is gone.                       *)
FindLoss(n) ==
  /\ ~Locked(n[1]) /\ n[1] \in up
  /\ hash[n] # Nil
  /\ \E t \in Tunnels(n, hash[n]) : ~Has(n, "inbound", t)
  /\ hash' = [hash EXCEPT ![n] = Reset]
  /\ lost' = [lost EXCEPT ![n] = IF @ = "none" THEN "during" ELSE @]
  /\ UNCHANGED <<env, errs, checkFailed, pc, locals>>

(* Repair: the outbound of a tunnel leaves the balancer.                   *)
Repair(n, t) ==
  /\ ~Locked(n[1]) /\ n[1] \in up
  /\ Sub(n[1]).obs # <<>>
  /\ t \in Tunnels(n, hash[n]) /\ Tag(n, "outbound", t) \in res[n[1]]["outbound"]
  /\ res' = [res EXCEPT ![n[1]]["outbound"] = (@ \ {Tag(n, "outbound", t)}) \cup {Bare(n, t)}]
  /\ UNCHANGED <<cfg, static, up, gone, faults, content, memory, pc, locals>>

-----------------------------------------------------------------------------
(* What happens around scd.                                                *)

RestartXray(i) ==
  /\ Fault
  /\ res' = [res EXCEPT ![i] = static[i]]
  /\ UNCHANGED <<cfg, static, up, gone, content, memory, pc, locals>>

(* A restart of scd, also in the middle of a sync.                         *)
RestartScd ==
  /\ Fault
  /\ hash' = NoNodes(Nil) /\ errs' = NoNodes(NoError) /\ checkFailed' = {} /\ lost' = NoNodes("none")
  /\ pc' = "idle" /\ at' = 0 /\ got' = NoNodes(FailedLoad) /\ pending' = {} /\ left' = <<>> /\ bad' = FALSE
  /\ noted' = {} /\ drifted' = {} /\ applied' = {} /\ listed' = Unlisted
  /\ UNCHANGED <<cfg, static, res, up, gone, content>>

Usable(n) == ~Refused(Src(n), Texts[content[n]]) /\ ~Invalid(n, content[n])

(* The input of a source changes; what ends a failure costs no fault.      *)
Edit(n) ==
  \E v \in DOMAIN Texts \ {content[n]} :
    /\ IF Usable(n) THEN Fault ELSE UNCHANGED faults
    /\ content' = [content EXCEPT ![n] = v]
    /\ UNCHANGED <<cfg, static, res, up, gone, memory, pc, locals>>

(* The API of an Xray, or one of its balancers, goes or comes back.        *)
Change ==
  /\ \/ \E i \in up : Fault /\ up' = up \ {i} /\ UNCHANGED gone
     \/ \E i \in DOMAIN cfg.subs \ up : up' = up \cup {i} /\ UNCHANGED <<gone, faults>>
     \/ \E b \in UNION {BalancersOf(n) : n \in Active} \ gone :
          Fault /\ gone' = gone \cup {b} /\ UNCHANGED up
     \/ \E b \in gone : gone' = gone \ {b} /\ UNCHANGED <<up, faults>>
  /\ UNCHANGED <<cfg, static, res, content, memory, pc, locals>>

SyncStep ==
  \/ SyncStart \/ NextSubscription \/ RemoveOrphans \/ OrphansRemoved \/ StateRestored
  \/ \E n \in pending : CheckSource(n) \/ SyncSource(n) \/ ApplyKind(n) \/ ApplyDone(n)

Next ==
  \/ SyncStep
  \/ \E n \in Active : FindLoss(n) \/ Edit(n) \/ \E t \in AllTunnels : Repair(n, t)
  \/ \E i \in DOMAIN cfg.subs : RestartXray(i)
  \/ RestartScd \/ Change

(* The sync loop runs on.                                                  *)
Spec == Init /\ [][Next]_vars /\ WF_vars(SyncStep)

-----------------------------------------------------------------------------
(* Properties.                                                             *)

(* The tags that sources of the configuration made, and the fixed ones.    *)
Made(n, k) == {Tag(n, k, t) : t \in AllTunnels} \cup IF k = "outbound" THEN {Bare(n, t) : t \in AllTunnels} ELSE {}

(* The sync only removes what it may: no step of it takes a fixed tag, or  *)
(* a tag of an enabled source other than the one it applies (Owns, the     *)
(* namespace rules, RemoveOrphans).                                        *)
OthersLeftAlone ==
  [][SyncStep =>
       \A i \in DOMAIN cfg.subs, k \in Kinds : \A tag \in res[i][k] \ res'[i][k] :
         /\ tag \notin Sub(i).fixed[k]
         /\ \A n \in Active : n[1] = i /\ tag \in Made(n, k) => pc = "apply" /\ Current = n]_vars

Calm ==
  /\ up = DOMAIN cfg.subs /\ gone = {}
  /\ \A n \in Active : Usable(n) /\ (Src(n).dialer # <<>> => Src(n).dialer \in static[n[1]]["outbound"])

(* When nothing fails any more, the syncs bring every source to Xray, and  *)
(* no error, failed check or mark of lost state is left over.              *)
SyncHeals ==
  <>[]Calm => <>[](\A n \in Active : /\ ~Missing(n, content[n])
                                     /\ errs[n] = NoError /\ n \notin checkFailed /\ lost[n] = "none")
=============================================================================
