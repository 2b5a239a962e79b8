----------------------------- MODULE ConfigRules -----------------------------
(***************************************************************************)
(* The cross-field rules of the scd configuration                          *)
(* (internal/scd/config/rules.go) and the tag namespaces they protect      *)
(* (internal/scd/apply/namespace.go).                                      *)
(*                                                                         *)
(* A name is a sequence of parts: the id "a-b" is <<"a", "b">>, and        *)
(* "<id>-" starts a tag exactly when the id is a proper prefix of the tag. *)
(* A configuration is [subs, kinds]: a sequence of subscriptions and the   *)
(* set of enabled resource kinds.  A subscription has id, enabled,         *)
(* address, socks (target.inboundSocks is given), obs (the observatory     *)
(* prefix, <<>> for none), fixed (per kind, the tags scd must leave        *)
(* alone), balancers (a sequence of [tag, selection]) and sources.  A      *)
(* source has id, type, enabled, the fields of module Inputs, maxActive,   *)
(* ports (<<first, last>>, <<>> for none), balancer, dialer and deps, a    *)
(* sequence of [source, balancer, sub].  The empty name stands for an      *)
(* absent one.  Schedules, addresses and the warnings are left out.        *)
(***************************************************************************)
EXTENDS Inputs

Kinds == {"outbound", "inbound", "routing"}

Name == Seq(STRING)
Dependency == [source : Name, balancer : STRING, sub : STRING]
Source ==
  [id : Name, enabled : BOOLEAN, type : STRING, format : {"auto", "plain", "base64"}, maxBytes : Nat,
   insecure : BOOLEAN, countries : SUBSET STRING, labels : SUBSET STRING, maxActive : Nat,
   ports : {<<>>} \cup (Nat \X Nat), balancer : STRING, dialer : Name, deps : Seq(Dependency)]
Subscription ==
  [id : STRING, enabled : BOOLEAN, address : Nat, socks : BOOLEAN, obs : Name,
   fixed : [Kinds -> SUBSET Name], balancers : Seq([tag : STRING, selection : BOOLEAN]),
   sources : Seq(Source)]
Configuration == [subs : Seq(Subscription), kinds : SUBSET Kinds]

Started(p, name) == IsStrictPrefix(p, name)       \* name starts with "<p>-"
IdsOf(sub) == {sub.sources[j].id : j \in DOMAIN sub.sources}
ByID(sub, id) == sub.sources[Min({j \in DOMAIN sub.sources : sub.sources[j].id = id})]
Enabled(sub) == {sub.sources[j] : j \in {k \in DOMAIN sub.sources : sub.sources[k].enabled}}

-----------------------------------------------------------------------------
(* Namespaces.                                                             *)

KindPrefix(kind) == CASE kind = "inbound" -> <<"in">> [] kind = "routing" -> <<"route">> [] OTHER -> <<>>

(* Owns: an outbound with or without the observatory prefix.               *)
Owns(sub, src, kind, tag) ==
  \/ Started(KindPrefix(kind) \o src.id, tag)
  \/ kind = "outbound" /\ Started(sub.obs \o src.id, tag)

(* RemoveOrphans: what lies in no enabled source's namespace and is not    *)
(* fixed.                                                                  *)
Orphan(sub, kind, tag) ==
  tag \notin sub.fixed[kind] /\ \A src \in Enabled(sub) : ~Owns(sub, src, kind, tag)

-----------------------------------------------------------------------------
(* checkSubscriptions, and the rules of the resource kinds.                *)
SubscriptionsOK(cfg) ==
  /\ \E i \in DOMAIN cfg.subs : cfg.subs[i].enabled
  /\ \A i, j \in DOMAIN cfg.subs : i # j => cfg.subs[i].address # cfg.subs[j].address

ResourcesOK(cfg) ==
  /\ "inbound" \in cfg.kinds => "outbound" \in cfg.kinds
  /\ "routing" \in cfg.kinds => {"outbound", "inbound"} \subseteq cfg.kinds

NeedPorts(cfg) == cfg.kinds \cap {"inbound", "routing"} # {}

(* checkTarget: the balancer tags are unique, inbounds need a listener.    *)
TargetOK(cfg, sub) ==
  /\ NeedPorts(cfg) => sub.socks
  /\ \A i, j \in DOMAIN sub.balancers : i # j => sub.balancers[i].tag # sub.balancers[j].tag

(* Mutant: overlapping ids are accepted.                                   *)
SourcesOKOverlap(sub) ==
  \A i, j \in DOMAIN sub.sources : i < j => sub.sources[i].id # sub.sources[j].id

(* checkSources: ids are unique, no "<id>-" starts another, and the port   *)
(* ranges are disjoint.                                                    *)
SourcesOK(sub) ==
  \A i, j \in DOMAIN sub.sources : i < j =>
    LET a == sub.sources[i]  b == sub.sources[j] IN
    /\ a.id # b.id /\ ~Started(a.id, b.id) /\ ~Started(b.id, a.id)
    /\ a.ports # <<>> /\ b.ports # <<>> => b.ports[1] > a.ports[2] \/ a.ports[1] > b.ports[2]

(* checkTargetSources.                                                     *)
TargetSourcesOK(cfg, sub) ==
  \A j \in DOMAIN sub.sources :
    LET src == sub.sources[j] IN
    /\ IF src.ports = <<>> THEN ~NeedPorts(cfg)
       ELSE /\ src.ports[2] >= src.ports[1]
            /\ src.ports[2] - src.ports[1] + 1 >= src.maxActive
    /\ CandidateType(src) => {"inbound", "routing"} \subseteq cfg.kinds
    /\ sub.obs # <<>> => ~IsPrefix(src.id, sub.obs) /\ ~IsPrefix(sub.obs, src.id)
    /\ src.enabled => \A k \in Kinds : \A tag \in sub.fixed[k] : ~Owns(sub, src, k, tag)

-----------------------------------------------------------------------------
(* findCycles: the cycles that a depth-first search over order meets, as   *)
(* the set of their node sets.  edges[n] is the sequence of n's edges.     *)
FindCycles(order, edges) ==
  LET ids == ToSet(order)
      States == [mark : [ids -> {"unseen", "active", "done"}], path : Seq(ids),
                 cycles : SUBSET SUBSET ids]
      Visit[s \in States, id \in ids] ==
        LET entered == [s EXCEPT !.mark[id] = "active", !.path = Append(@, id)]
            Cycle(t, next) == LET from == CHOOSE i \in DOMAIN t.path : t.path[i] = next IN
                              ToSet(SubSeq(t.path, from, Len(t.path)))
            Follow(t, next) == CASE t.mark[next] = "unseen" -> Visit[t, next]
                                 [] t.mark[next] = "active" ->
                                      [t EXCEPT !.cycles = @ \cup {Cycle(t, next)}]
                                 [] OTHER -> t
            left == FoldLeft(Follow, entered, edges[id])
        IN  [left EXCEPT !.mark[id] = "done", !.path = Front(@)]
      start == [mark |-> [n \in ids |-> "unseen"], path |-> <<>>, cycles |-> {}]
      Try(s, id) == IF s.mark[id] = "unseen" THEN Visit[s, id] ELSE s
  IN  FoldLeft(Try, start, order).cycles

(* The dependsOn edges of sub: the known sources other than itself.        *)
SourceDeps(sub, src) ==
  SelectSeq([k \in DOMAIN src.deps |-> src.deps[k].source],
            LAMBDA id : id # <<>> /\ id \in IdsOf(sub) /\ id # src.id)
Edges(sub) == [id \in IdsOf(sub) |-> SourceDeps(sub, ByID(sub, id))]

(* dependencies: what id reaches, itself excluded.                         *)
Dependencies(id, edges) ==
  LET Reached[seen \in SUBSET DOMAIN edges] ==
        LET more == UNION {ToSet(edges[n]) : n \in seen} \ seen IN
        IF more = {} THEN seen ELSE Reached[seen \cup more]
  IN  Reached[ToSet(edges[id])] \ {id}

(* A dependency within the subscription.                                   *)
OwnDep(d) == d.sub = ""

(* The name of a dependency: repeated ones are refused.                    *)
DepName(d) == <<d.source, d.balancer, d.sub>>

(* checkDependencies and checkCycles.                                      *)
DependenciesOK(sub) ==
  LET edges == Edges(sub)
      order == [j \in DOMAIN sub.sources |-> sub.sources[j].id]
      cycles == FindCycles(order, edges)
      BalancersOf(ids) == {ByID(sub, id).balancer : id \in ids}
      OK(src) ==
        /\ src.dialer # <<>> => src.dialer \in sub.fixed["outbound"]
        /\ \A k, l \in DOMAIN src.deps : k # l => DepName(src.deps[k]) # DepName(src.deps[l])
        /\ \A k \in DOMAIN src.deps :
             LET d == src.deps[k] IN
             \/ ~OwnDep(d)
             \/ d.balancer # "" /\ d.balancer \notin BalancersOf(IdsOf(sub))
             \/ /\ d.balancer = "" /\ d.source \in IdsOf(sub) /\ d.source # src.id
                /\ src.enabled => ByID(sub, d.source).enabled
                /\ ByID(sub, d.source).balancer # ""
        /\ src.balancer # "" /\ src.id \notin UNION cycles
           => src.balancer \notin BalancersOf(Dependencies(src.id, edges))
  IN  cycles = {} /\ \A j \in DOMAIN sub.sources : OK(sub.sources[j])

-----------------------------------------------------------------------------
(* checkCrossDependencies.  A node is <<subscription, source>> by index;   *)
(* a dependency on a balancer leads to every source with that balancer.    *)

IndexOf(cfg, subID) == {i \in DOMAIN cfg.subs : cfg.subs[i].id = subID}

CrossDepOK(cfg, i, src, d) ==
  LET sub == cfg.subs[i] IN
  /\ d.balancer # ""
  /\ d.sub # sub.id
  /\ Cardinality(IndexOf(cfg, d.sub)) = 1
  /\ LET other == cfg.subs[CHOOSE o \in IndexOf(cfg, d.sub) : TRUE] IN
     /\ src.enabled /\ sub.enabled => other.enabled
     /\ \E b \in ToSet(other.balancers) : b.tag = d.balancer /\ b.selection

NodesOf(cfg) == UNION {{<<i, j>> : j \in DOMAIN cfg.subs[i].sources} : i \in DOMAIN cfg.subs}
SourceAt(cfg, n) == cfg.subs[n[1]].sources[n[2]]
Before(m, n) == m[1] < n[1] \/ (m[1] = n[1] /\ m[2] < n[2])

CrossEdges(cfg) ==
  LET Leads(n, d) ==
        IF OwnDep(d)
        THEN {m \in NodesOf(cfg) : m[1] = n[1] /\ m # n /\ d.source # <<>>
                                   /\ SourceAt(cfg, m).id = d.source}
        ELSE {m \in NodesOf(cfg) : cfg.subs[m[1]].id = d.sub /\ m[1] # n[1]
                                   /\ SourceAt(cfg, m).balancer = d.balancer}
      From(n) == UNION {Leads(n, d) : d \in ToSet(SourceAt(cfg, n).deps)}
  IN  [n \in NodesOf(cfg) |-> SetToSortSeq(From(n), Before)]

CrossOK(cfg) ==
  /\ \A n \in NodesOf(cfg) : \A d \in ToSet(SourceAt(cfg, n).deps) :
       ~OwnDep(d) => CrossDepOK(cfg, n[1], SourceAt(cfg, n), d)
  /\ \A c \in FindCycles(SetToSortSeq(NodesOf(cfg), Before), CrossEdges(cfg)) :
       Cardinality({n[1] : n \in c}) = 1

-----------------------------------------------------------------------------
(* checkRules: the configurations scd starts with.                         *)
Accepted(cfg) ==
  /\ SubscriptionsOK(cfg)
  /\ ResourcesOK(cfg)
  /\ \A i \in DOMAIN cfg.subs :
       LET sub == cfg.subs[i] IN
       /\ TargetOK(cfg, sub)
       /\ SourcesOK(sub)
       /\ TargetSourcesOK(cfg, sub)
       /\ DependenciesOK(sub)
  /\ CrossOK(cfg)
=============================================================================
