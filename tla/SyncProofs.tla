------------------------------ MODULE SyncProofs ------------------------------
(***************************************************************************)
(* The proofs about a sync and the report: the steps of a sync leave the   *)
(* resources of the other sources alone (OthersAlwaysLeftAlone), the       *)
(* snapshot tells how the last sync ended (StatusAlwaysTells), and the     *)
(* report and the sync judge the same resources the same way               *)
(* (ReportAlwaysAgrees).  The first and the last rest on the namespace     *)
(* rules of an accepted configuration: PrefixesApart says that no two      *)
(* sources of a subscription can make the same tag.                        *)
(***************************************************************************)
EXTENDS StatusView, SequenceTheorems, WellFoundedInduction, TLAPS

-----------------------------------------------------------------------------
(* Prefixes of names.                                                      *)

(* A sequence starts with what it is put together from.                    *)
LEMMA ConcatPrefix ==
  ASSUME NEW S, NEW s \in Seq(S), NEW t \in Seq(S)
  PROVE  IsPrefix(s, s \o t)
  BY DEF IsPrefix

(* The elements of a prefix.                                               *)
LEMMA PrefixElements ==
  ASSUME NEW S, NEW s \in Seq(S), NEW t \in Seq(S)
  PROVE  IsPrefix(s, t) <=> Len(s) <= Len(t) /\ \A i \in 1..Len(s) : s[i] = t[i]
<1>1. ASSUME Len(s) <= Len(t)
      PROVE  /\ SubSeq(s, 1, Len(s)) = s
             /\ SubSeq(t, 1, Len(s)) \in Seq(S) /\ Len(SubSeq(t, 1, Len(s))) = Len(s)
             /\ \A i \in 1..Len(s) : SubSeq(t, 1, Len(s))[i] = t[i]
  BY <1>1, LenProperties
<1>2. ASSUME Len(s) <= Len(t), \A i \in 1..Len(s) : s[i] = t[i]
      PROVE  s = SubSeq(t, 1, Len(s))
  BY <1>1, <1>2, SeqEqual
<1> QED
  BY <1>1, <1>2 DEF IsPrefix

(* Of two prefixes of a sequence one is a prefix of the other.             *)
LEMMA Comparable ==
  ASSUME NEW S, NEW s \in Seq(S), NEW t \in Seq(S), NEW u \in Seq(S),
         IsPrefix(s, u), IsPrefix(t, u)
  PROVE  IsPrefix(s, t) \/ IsPrefix(t, s)
<1>1. Len(s) \in Nat /\ Len(t) \in Nat
  OBVIOUS
<1>2. /\ \A i \in 1..Len(s) : s[i] = u[i]
      /\ \A i \in 1..Len(t) : t[i] = u[i]
  BY PrefixElements
<1>3. CASE Len(s) <= Len(t)
  BY <1>1, <1>2, <1>3, PrefixElements
<1>4. CASE Len(t) <= Len(s)
  BY <1>1, <1>2, <1>4, PrefixElements
<1> QED
  BY <1>1, <1>3, <1>4

(* A prefix of a prefix.                                                   *)
LEMMA PrefixTransitive ==
  ASSUME NEW S, NEW s \in Seq(S), NEW t \in Seq(S), NEW u \in Seq(S),
         IsPrefix(s, t), IsPrefix(t, u)
  PROVE  IsPrefix(s, u)
<1>1. Len(s) \in Nat /\ Len(t) \in Nat /\ Len(u) \in Nat
  OBVIOUS
<1>2. /\ Len(s) <= Len(t) /\ \A i \in 1..Len(s) : s[i] = t[i]
      /\ Len(t) <= Len(u) /\ \A i \in 1..Len(t) : t[i] = u[i]
  BY PrefixElements
<1> QED
  BY <1>1, <1>2, PrefixElements

(* A common beginning can be left away.                                    *)
LEMMA PrefixCancel ==
  ASSUME NEW S, NEW p \in Seq(S), NEW s \in Seq(S), NEW t \in Seq(S),
         IsPrefix(p \o s, p \o t)
  PROVE  IsPrefix(s, t)
<1>1. /\ Len(p) \in Nat /\ Len(s) \in Nat /\ Len(t) \in Nat
      /\ p \o s \in Seq(S) /\ p \o t \in Seq(S)
      /\ Len(p \o s) = Len(p) + Len(s) /\ Len(p \o t) = Len(p) + Len(t)
  BY ConcatProperties
<1>2. /\ Len(p \o s) <= Len(p \o t)
      /\ \A i \in 1..Len(p \o s) : (p \o s)[i] = (p \o t)[i]
  <2> DEFINE u == p \o s
             v == p \o t
  <2>1. u \in Seq(S) /\ v \in Seq(S) /\ IsPrefix(u, v)
    BY <1>1
  <2> HIDE DEF u, v
  <2>2. Len(u) <= Len(v) /\ \A i \in 1..Len(u) : u[i] = v[i]
    BY <2>1, PrefixElements
  <2> QED
    BY <2>2 DEF u, v
<1>3. ASSUME NEW i \in 1..Len(s)
      PROVE  s[i] = t[i]
  <2>1. Len(p) + i \in 1..Len(p \o s)
    BY <1>1
  <2>2. (p \o s)[Len(p) + i] = s[i] /\ (p \o t)[Len(p) + i] = t[i]
    BY <1>1, <1>2, ConcatProperties
  <2> QED
    BY <1>2, <2>1, <2>2
<1> QED
  BY <1>1, <1>2, <1>3, PrefixElements

(* What a sequence with one more element is put together from.             *)
LEMMA SnocInjective ==
  ASSUME NEW S, NEW s \in Seq(S), NEW t \in Seq(S), NEW x \in S, NEW y \in S,
         s \o <<x>> = t \o <<y>>
  PROVE  s = t /\ x = y
<1>1. /\ Append(s, x) = s \o <<x>> /\ Append(t, y) = t \o <<y>>
  BY AppendIsConcat
<1> QED
  BY <1>1, AppendInjective

(* A name with one more part starts with it.                               *)
LEMMA SnocStarted ==
  ASSUME NEW S, NEW s \in Seq(S), NEW x \in S
  PROVE  Started(s, s \o <<x>>)
<1>1. <<x>> \in Seq(S) /\ Len(s \o <<x>>) = Len(s) + 1 /\ Len(s) \in Nat
  OBVIOUS
<1>2. IsPrefix(s, s \o <<x>>)
  BY <1>1, ConcatPrefix
<1>3. s # s \o <<x>>
  BY <1>1
<1> QED
  BY <1>2, <1>3 DEF Started, IsStrictPrefix

-----------------------------------------------------------------------------
(* Namespaces.                                                             *)

(* What the tags of kind k of a source start with.                         *)
TagStarts(sub, src, k) ==
  {KindPrefix(k) \o src.id} \cup IF k = "outbound" THEN {sub.obs \o src.id} ELSE {}

(* The parts of names.                                                     *)
Parts == STRING \cup {"in", "route"}

(* What the names of a kind start with.                                    *)
LEMMA KindPrefixType ==
  ASSUME NEW k \in Kinds
  PROVE  KindPrefix(k) \in Seq(Parts)
<1>1. ASSUME NEW S, NEW x \in S
      PROVE  <<x>> \in Seq(S)
  OBVIOUS
<1>2. "in" \in Parts /\ "route" \in Parts
  BY DEF Parts
<1>3. <<"in">> \in Seq(Parts) /\ <<"route">> \in Seq(Parts)
  BY <1>1, <1>2, Zenon
<1>4. <<>> \in Seq(Parts)
  OBVIOUS
<1>5. KindPrefix("inbound") = <<"in">>
  BY DEF KindPrefix
<1>6. KindPrefix("routing") = <<"route">>
  BY DEF KindPrefix
<1>7. KindPrefix("outbound") = <<>>
  BY DEF KindPrefix
<1> QED
  BY <1>3, <1>4, <1>5, <1>6, <1>7 DEF Kinds

(* Names are put together from parts.                                      *)
LEMMA NamesOfParts == Name \subseteq Seq(Parts)
<1>1. STRING \subseteq Parts
  BY DEF Parts
<1> QED
  BY <1>1, SeqMonotonic DEF Name

(* So is what the tags of a source start with.                             *)
LEMMA PrefixTypes ==
  ASSUME NEW sub, NEW src, NEW k \in Kinds, sub.obs \in Name, src.id \in Name
  PROVE  /\ TagStarts(sub, src, k) \subseteq Seq(Parts)
         /\ k = "outbound" => TagStarts(sub, src, k) = {src.id, sub.obs \o src.id}
<1>1. KindPrefix(k) \in Seq(Parts) /\ sub.obs \in Seq(Parts) /\ src.id \in Seq(Parts)
  BY KindPrefixType, NamesOfParts
<1>2. KindPrefix("outbound") = <<>>
  BY DEF KindPrefix
<1>3. <<>> \o src.id = src.id
  BY <1>1, ConcatEmptySeq
<1>4. KindPrefix(k) \o src.id \in Seq(Parts) /\ sub.obs \o src.id \in Seq(Parts)
  BY <1>1, ConcatProperties
<1> QED
  BY <1>1, <1>2, <1>3, <1>4 DEF TagStarts

(* A source owns what starts with one of its prefixes.                     *)
LEMMA OwnsByPrefix ==
  ASSUME NEW sub, NEW src, NEW k, NEW tag
  PROVE  Owns(sub, src, k, tag) <=> \E p \in TagStarts(sub, src, k) : Started(p, tag)
  BY DEF Owns, TagStarts

(* The configuration is well-formed, and the rules accept it.              *)
GoodConfig == cfg \in Configuration /\ Accepted(cfg)

(* What the configuration says of a source.                                *)
LEMMA SourceTypes ==
  ASSUME GoodConfig, NEW n \in Nodes
  PROVE  /\ n = <<n[1], n[2]>>
         /\ n[1] \in DOMAIN cfg.subs /\ n[2] \in DOMAIN Sub(n[1]).sources
         /\ n[1] \in Nat /\ n[2] \in Nat
         /\ Src(n) = Sub(n[1]).sources[n[2]]
         /\ Sub(n[1]) \in Subscription /\ Src(n) \in Source
         /\ Sub(n[1]).obs \in Name /\ Src(n).id \in Name
<1>1. cfg.subs \in Seq(Subscription)
  BY DEF GoodConfig, Configuration
<1>2. PICK i \in DOMAIN cfg.subs : \E j \in DOMAIN cfg.subs[i].sources : n = <<i, j>>
  BY DEF Nodes, NodesOf
<1>3. PICK j \in DOMAIN cfg.subs[i].sources : n = <<i, j>>
  BY <1>2
<1>4. cfg.subs[i] \in Subscription /\ i \in Nat
  BY <1>1
<1>5. cfg.subs[i].sources \in Seq(Source) /\ cfg.subs[i].obs \in Name
  BY <1>4 DEF Subscription
<1>6. cfg.subs[i].sources[j] \in Source /\ j \in Nat
  BY <1>5
<1>7. cfg.subs[i].sources[j].id \in Name
  BY <1>6 DEF Source
<1> QED
  BY <1>2, <1>3, <1>4, <1>5, <1>6, <1>7 DEF Src, SourceAt, Sub

(* The prefixes of two sources of a subscription do not start one another, *)
(* nor do the two prefixes of the outbounds of one when they differ        *)
(* (checkSources and checkTargetSources, rules.go).                        *)
LEMMA PrefixesApart ==
  ASSUME GoodConfig, NEW n \in Nodes, NEW m \in Nodes, n[1] = m[1], NEW k \in Kinds,
         NEW p \in TagStarts(Sub(n[1]), Src(n), k), NEW q \in TagStarts(Sub(n[1]), Src(m), k),
         IsPrefix(p, q)
  PROVE  n = m /\ p = q
<1> DEFINE sub == Sub(n[1])
           a == Src(n).id
           b == Src(m).id
<1>1. /\ n = <<n[1], n[2]>> /\ m = <<m[1], m[2]>>
      /\ a \in Seq(Parts) /\ b \in Seq(Parts) /\ sub.obs \in Seq(Parts)
      /\ n[2] \in DOMAIN sub.sources /\ m[2] \in DOMAIN sub.sources
      /\ n[2] \in Nat /\ m[2] \in Nat
      /\ Src(n) = sub.sources[n[2]] /\ Src(m) = sub.sources[m[2]]
      /\ n[1] \in DOMAIN cfg.subs
  BY SourceTypes, NamesOfParts
<1>2. /\ SourcesOK(sub)
      /\ sub.obs # <<>> => /\ ~IsPrefix(a, sub.obs) /\ ~IsPrefix(sub.obs, a)
                           /\ ~IsPrefix(b, sub.obs) /\ ~IsPrefix(sub.obs, b)
  BY <1>1 DEF GoodConfig, Accepted, TargetSourcesOK, Sub
<1>3. IsPrefix(a, b) \/ IsPrefix(b, a) => n = m
  <2>1. SUFFICES ASSUME IsPrefix(a, b) \/ IsPrefix(b, a), n # m
                 PROVE  FALSE
    OBVIOUS
  <2>2. n[2] < m[2] \/ m[2] < n[2]
    BY <1>1, <2>1
  <2> QED
    BY <1>1, <1>2, <2>1, <2>2 DEF SourcesOK, Started, IsStrictPrefix
<1> HIDE DEF a, b, sub
<1>4. CASE k # "outbound"
  <2>1. p = KindPrefix(k) \o a /\ q = KindPrefix(k) \o b
    BY <1>4 DEF TagStarts, a, b
  <2>2. KindPrefix(k) \in Seq(Parts)
    BY KindPrefixType
  <2>3. IsPrefix(a, b)
    BY <1>1, <2>1, <2>2, PrefixCancel
  <2> QED
    BY <1>3, <2>1, <2>3 DEF a, b
<1>5. CASE k = "outbound"
  <2>1. p \in {a, sub.obs \o a} /\ q \in {b, sub.obs \o b}
    <3>1. Sub(n[1]).obs \in Name /\ Src(n).id \in Name /\ Src(m).id \in Name
      BY SourceTypes
    <3>2. /\ TagStarts(Sub(n[1]), Src(n), k) = {Src(n).id, Sub(n[1]).obs \o Src(n).id}
          /\ TagStarts(Sub(n[1]), Src(m), k) = {Src(m).id, Sub(n[1]).obs \o Src(m).id}
      BY <1>5, <3>1, PrefixTypes
    <3> QED
      BY <3>2 DEF a, b, sub
  <2>2. ASSUME sub.obs = <<>>
        PROVE  sub.obs \o a = a /\ sub.obs \o b = b
    BY <1>1, <2>2, ConcatEmptySeq
  <2>3. /\ sub.obs \o a \in Seq(Parts) /\ sub.obs \o b \in Seq(Parts)
        /\ IsPrefix(sub.obs, sub.obs \o a) /\ IsPrefix(sub.obs, sub.obs \o b)
    BY <1>1, ConcatProperties, ConcatPrefix
  <2>4. CASE p = a /\ q = b
    BY <1>3, <2>4 DEF a, b
  <2>5. CASE p = sub.obs \o a /\ q = sub.obs \o b
    <3>1. IsPrefix(a, b)
      BY <1>1, <2>5, PrefixCancel
    <3> QED
      BY <1>3, <2>5, <3>1 DEF a, b
  <2>6. CASE p = a /\ q = sub.obs \o b /\ sub.obs # <<>>
    <3>1. IsPrefix(a, sub.obs) \/ IsPrefix(sub.obs, a)
      BY <1>1, <2>3, <2>6, Comparable
    <3> QED
      BY <1>2, <2>6, <3>1
  <2>7. CASE p = sub.obs \o a /\ q = b /\ sub.obs # <<>>
    <3>1. IsPrefix(sub.obs, b)
      BY <1>1, <2>3, <2>7, PrefixTransitive
    <3> QED
      BY <1>2, <2>7, <3>1
  <2>8. CASE sub.obs = <<>>
    <3>1. p = a /\ q = b
      BY <2>1, <2>2, <2>8
    <3> QED
      BY <2>4, <3>1
  <2> QED
    BY <2>1, <2>4, <2>5, <2>6, <2>7, <2>8
<1> QED
  BY <1>4, <1>5

(* The tags that a source makes: one of its prefixes, and the tunnel.      *)
LEMMA TagForm ==
  ASSUME GoodConfig, NEW n \in Nodes, NEW k \in Kinds, NEW t
  PROVE  /\ \E p \in TagStarts(Sub(n[1]), Src(n), k) : Tag(n, k, t) = p \o <<t>>
         /\ k = "outbound" => \E p \in TagStarts(Sub(n[1]), Src(n), k) : Bare(n, t) = p \o <<t>>
<1>1. Sub(n[1]).obs \in Name /\ Src(n).id \in Name
  BY SourceTypes
<1>2. CASE k = "outbound"
  <2>1. TagStarts(Sub(n[1]), Src(n), k) = {Src(n).id, Sub(n[1]).obs \o Src(n).id}
    BY <1>1, <1>2, PrefixTypes
  <2>2. Tag(n, k, t) = (Sub(n[1]).obs \o Src(n).id) \o <<t>> /\ Bare(n, t) = Src(n).id \o <<t>>
    BY <1>2, Zenon DEF Tag, Bare
  <2> QED
    BY <2>1, <2>2
<1>3. CASE k # "outbound"
  BY <1>3 DEF TagStarts, Tag
<1> QED
  BY <1>2, <1>3

(* A tag that source m makes starts with no prefix of another source.      *)
LEMMA MadeApart ==
  ASSUME GoodConfig, NEW n \in Nodes, NEW m \in Nodes, n[1] = m[1], NEW k \in Kinds, NEW t,
         NEW q \in TagStarts(Sub(m[1]), Src(m), k), Owns(Sub(n[1]), Src(n), k, q \o <<t>>)
  PROVE  n = m
<1> DEFINE S == Parts \cup {t}
<1>1. PICK p \in TagStarts(Sub(n[1]), Src(n), k) : Started(p, q \o <<t>>)
  BY OwnsByPrefix
<1>2. p \in Seq(Parts) /\ q \in Seq(Parts)
  BY SourceTypes, PrefixTypes
<1>3. p \in Seq(S) /\ q \in Seq(S) /\ <<t>> \in Seq(S)
  BY <1>2
<1> HIDE DEF S
<1>4. q \o <<t>> \in Seq(S) /\ IsPrefix(q, q \o <<t>>) /\ IsPrefix(p, q \o <<t>>)
  BY <1>1, <1>3, ConcatPrefix, ConcatProperties DEF Started, IsStrictPrefix
<1>5. IsPrefix(p, q) \/ IsPrefix(q, p)
  BY <1>3, <1>4, Comparable
<1> QED
  BY <1>5, PrefixesApart

(* Whose tag starts with a prefix of a source, it owns.                    *)
LEMMA MadeOwned ==
  ASSUME GoodConfig, NEW n \in Nodes, NEW k \in Kinds, NEW t,
         NEW q \in TagStarts(Sub(n[1]), Src(n), k)
  PROVE  Owns(Sub(n[1]), Src(n), k, q \o <<t>>)
<1> DEFINE S == Parts \cup {t}
<1>1. q \in Seq(Parts)
  BY SourceTypes, PrefixTypes
<1>2. q \in Seq(S) /\ t \in S
  BY <1>1
<1> HIDE DEF S
<1> QED
  BY <1>2, SnocStarted, OwnsByPrefix

(* The tag is one that the outbound of tunnel t of source n may have.      *)
Outbound(n, t, tag) == tag = Tag(n, "outbound", t) \/ tag = Bare(n, t)

(* Such a tag is one of the prefixes of the source, and the tunnel.        *)
LEMMA OutboundForm ==
  ASSUME GoodConfig, NEW o \in Nodes, NEW w, NEW name, Outbound(o, w, name)
  PROVE  \E q \in TagStarts(Sub(o[1]), Src(o), "outbound") : name = q \o <<w>>
<1>1. "outbound" \in Kinds
  BY DEF Kinds
<1> QED
  BY <1>1, TagForm DEF Outbound

(* No two tunnels have an outbound tag in common.                          *)
LEMMA OneTunnel ==
  ASSUME GoodConfig, NEW n \in Nodes, NEW m \in Nodes, n[1] = m[1], NEW t, NEW u, NEW tag,
         Outbound(n, t, tag), Outbound(m, u, tag)
  PROVE  n = m /\ t = u
<1> DEFINE S == Parts \cup {t, u}
<1>1. PICK p \in TagStarts(Sub(n[1]), Src(n), "outbound") : tag = p \o <<t>>
  <2>1. \E p \in TagStarts(Sub(n[1]), Src(n), "outbound") : tag = p \o <<t>>
    BY ONLY GoodConfig, n \in Nodes, Outbound(n, t, tag), OutboundForm, SMTT(30)
  <2> QED
    BY <2>1
<1>2. PICK q \in TagStarts(Sub(m[1]), Src(m), "outbound") : tag = q \o <<u>>
  <2>1. \E q \in TagStarts(Sub(m[1]), Src(m), "outbound") : tag = q \o <<u>>
    BY ONLY GoodConfig, m \in Nodes, Outbound(m, u, tag), OutboundForm
  <2> QED
    BY <2>1
<1>3. p \in Seq(Parts) /\ q \in Seq(Parts) /\ "outbound" \in Kinds
  BY SourceTypes, PrefixTypes DEF Kinds
<1>4. p \in Seq(S) /\ q \in Seq(S) /\ t \in S /\ u \in S
  BY <1>3
<1> HIDE DEF S
<1>5. p = q /\ t = u
  BY <1>1, <1>2, <1>4, SnocInjective
<1>6. IsPrefix(p, q)
  BY <1>3, <1>5, PrefixElements
<1> QED
  BY <1>3, <1>5, <1>6, PrefixesApart

(* No source that is enabled owns a fixed tag (checkTargetSources).        *)
LEMMA FixedNotOwned ==
  ASSUME GoodConfig, NEW n \in Nodes, Src(n).enabled, NEW k \in Kinds,
         NEW tag \in Sub(n[1]).fixed[k]
  PROVE  ~Owns(Sub(n[1]), Src(n), k, tag)
<1>1. /\ n[1] \in DOMAIN cfg.subs /\ n[2] \in DOMAIN Sub(n[1]).sources
      /\ Src(n) = Sub(n[1]).sources[n[2]]
  BY SourceTypes
<1>2. TargetSourcesOK(cfg, Sub(n[1]))
  BY <1>1 DEF GoodConfig, Accepted, Sub
<1> QED
  BY <1>1, <1>2 DEF TargetSourcesOK

(* The outbound of a tunnel is its source's.                               *)
LEMMA OutboundOwned ==
  ASSUME GoodConfig, NEW n \in Nodes, NEW t, NEW tag, Outbound(n, t, tag)
  PROVE  Owns(Sub(n[1]), Src(n), "outbound", tag)
<1>1. PICK p \in TagStarts(Sub(n[1]), Src(n), "outbound") : tag = p \o <<t>>
  BY OutboundForm
<1>2. "outbound" \in Kinds
  BY DEF Kinds
<1> QED
  BY <1>1, <1>2, MadeOwned

(* What an enabled source owns is no orphan.                               *)
LEMMA OwnedNoOrphan ==
  ASSUME GoodConfig, NEW n \in Nodes, Src(n).enabled, NEW k, NEW tag,
         Owns(Sub(n[1]), Src(n), k, tag)
  PROVE  ~Orphan(Sub(n[1]), k, tag)
<1>1. Src(n) \in Enabled(Sub(n[1]))
  BY SourceTypes DEF Enabled
<1> QED
  BY <1>1 DEF Orphan

-----------------------------------------------------------------------------
(* Types.                                                                  *)

(* A set of naturals that is not empty has a least element, which Min is.  *)
LEMMA LeastNat ==
  ASSUME NEW S \in SUBSET Nat, S # {}
  PROVE  Min(S) \in S /\ \A y \in S : Min(S) <= y
<1> DEFINE R == {ss \in Nat \X Nat : ss[1] < ss[2]}
<1>1. R = OpToRel(<, Nat)
  BY Zenon DEF OpToRel
<1>2. IsWellFoundedOn(R, Nat)
  BY <1>1, NatLessThanWellFounded, Zenon
<1> HIDE DEF R
<1>3. PICK x \in S : \A y \in S : ~(<<y, x>> \in R)
  BY <1>2, WFMin
<1>4. \A a, b \in Nat : a < b => <<a, b>> \in R
  BY DEF R
<1>5. ASSUME NEW y \in S PROVE x =< y
  <2>1. x \in Nat /\ y \in Nat
    OBVIOUS
  <2>2. ~(y < x)
    BY <2>1, <1>3, <1>4
  <2> QED
    BY <2>1, <2>2
<1> QED
  BY <1>5, Zenon DEF Min

Steps == {"idle", "next", "orphans", "check", "source", "apply"}

(* The types of the sync, as far as the proofs need them.                  *)
SyncTypes ==
  /\ cfg \in Configs /\ Accepted(cfg)
  /\ DOMAIN static = DOMAIN cfg.subs /\ \A i \in DOMAIN cfg.subs : DOMAIN static[i] = Kinds
  /\ DOMAIN res = DOMAIN cfg.subs /\ \A i \in DOMAIN cfg.subs : DOMAIN res[i] = Kinds
  /\ content \in [Nodes -> DOMAIN Texts]
  /\ hash \in [Nodes -> DOMAIN Texts \cup {Nil, Reset}]
  /\ got \in [Nodes -> DOMAIN Texts \cup {FailedLoad}]
  /\ DOMAIN errs = Nodes
  /\ noted \subseteq Nodes /\ pending \subseteq Nodes
  /\ pc \in Steps
  /\ at \in 0 .. Len(cfg.subs)
  /\ pc \notin {"idle", "next"} => at # 0

(* A sync has a good configuration.                                        *)
LEMMA ConfigGood ==
  ASSUME SyncTypes
  PROVE  GoodConfig
BY SyncAssumption DEF SyncTypes, GoodConfig

(* What is computed from the configuration alone.                          *)
LEMMA ConfigFrame ==
  ASSUME cfg' = cfg
  PROVE  /\ Nodes' = Nodes /\ Active' = Active
         /\ \A i : Sub(i)' = Sub(i)
         /\ \A n : Src(n)' = Src(n) /\ SourceNodes(n)' = SourceNodes(n)
BY DEF Nodes, Active, Sub, Src, SourceNodes, DependsOn

(* The first text is one, and no marker is the index of a text.            *)
LEMMA TextsFacts ==
  /\ 1 \in DOMAIN Texts /\ DOMAIN Texts \subseteq Nat \ {0}
  /\ Nil \notin DOMAIN Texts /\ Reset \notin DOMAIN Texts /\ FailedLoad \notin DOMAIN Texts
  /\ Reset # Nil
BY SyncAssumption DEF Nil, Reset, FailedLoad

(* The sources of a subscription that the sync loaded.                     *)
LEMMA LoadedNodes ==
  ASSUME NEW i \in DOMAIN cfg.subs
  PROVE  Loaded(i) = {n \in Nodes : n[1] = i /\ got[n] # FailedLoad}
<1>1. \A j \in DOMAIN Sub(i).sources : <<i, j>> \in Nodes
  BY DEF Nodes, NodesOf, Sub
<1>2. \A n \in Nodes : n[1] = i => n = <<i, n[2]>> /\ n[2] \in DOMAIN Sub(i).sources
  BY DEF Nodes, NodesOf, Sub
<1>3. ASSUME NEW n \in Loaded(i)
      PROVE  n \in Nodes /\ n[1] = i /\ got[n] # FailedLoad
  <2>1. PICK j \in DOMAIN Sub(i).sources : n = <<i, j>> /\ got[<<i, j>>] # FailedLoad
    BY DEF Loaded
  <2> QED
    BY <1>1, <2>1
<1>4. ASSUME NEW n \in Nodes, n[1] = i, got[n] # FailedLoad
      PROVE  n \in Loaded(i)
  BY <1>2, <1>4 DEF Loaded
<1> QED
  BY <1>3, <1>4

(* The types hold at first.                                                *)
LEMMA TypesInit ==
  ASSUME Init
  PROVE  SyncTypes
<1>1. \A v : NoNodes(v) = [n \in Nodes |-> v]
  BY DEF NoNodes
<1>2. Len(cfg.subs) \in Nat
  BY SyncAssumption DEF Init, Configuration
<1> QED
  BY <1>1, <1>2, TextsFacts DEF Init, SyncTypes, Steps

(* No step changes the configuration: scd reads it once.                   *)
LEMMA ConfigFixed ==
  ASSUME [Next]_vars
  PROVE  cfg' = cfg
<1>1. CASE SyncStep
  BY <1>1 DEF SyncStep, SyncStart, NextSubscription, RemoveOrphans, OrphansRemoved, StateRestored,
              CheckSource, SyncSource, ApplyKind, ApplyDone, env
<1>2. CASE \E n \in Active : FindLoss(n) \/ Edit(n) \/ \E t \in AllTunnels : Repair(n, t)
  BY <1>2 DEF FindLoss, Edit, Repair, env
<1>3. CASE \E i \in DOMAIN cfg.subs : RestartXray(i)
  BY <1>3 DEF RestartXray
<1>4. CASE RestartScd \/ Change
  BY <1>4 DEF RestartScd, Change
<1>5. CASE UNCHANGED vars
  BY <1>5 DEF vars, env
<1> QED
  BY <1>1, <1>2, <1>3, <1>4, <1>5 DEF Next

(* Every step keeps the types.                                             *)
LEMMA TypesKept ==
  ASSUME SyncTypes, [Next]_vars
  PROVE  SyncTypes'
<1> USE DEF SyncTypes
<1>0. cfg' = cfg
  BY ConfigFixed
<1>1. /\ Nodes' = Nodes /\ Accepted(cfg)' /\ Len(cfg.subs) \in Nat
      /\ DOMAIN cfg.subs = 1 .. Len(cfg.subs)
  BY <1>0, ConfigFrame, SyncAssumption DEF Configuration
<1>2. CASE SyncStart
  <2>1. /\ got' \in [Nodes -> DOMAIN Texts \cup {FailedLoad}]
        /\ DOMAIN errs' = Nodes /\ noted' \subseteq Nodes
    BY <1>2 DEF SyncStart, NoteFailedLoads, Active
  <2> QED
    BY <1>0, <1>1, <1>2, <2>1 DEF SyncStart, Steps
<1>3. CASE NextSubscription
  <2> DEFINE rest == {i \in DOMAIN cfg.subs : i > at /\ Sub(i).enabled}
  <2>0. rest \in SUBSET Nat
    BY <1>1
  <2> HIDE DEF rest
  <2>1. rest # {} => Min(rest) \in rest
    BY <2>0, LeastNat
  <2>2. /\ at' \in 0 .. Len(cfg.subs) /\ pc' \in Steps
        /\ pc' \notin {"idle", "next"} => at' # 0
    BY <1>1, <1>3, <2>1 DEF NextSubscription, Steps, rest
  <2> QED
    BY <1>0, <1>1, <1>3, <2>2 DEF NextSubscription, env, memory
<1>4. CASE RemoveOrphans
  <2>1. /\ DOMAIN res' = DOMAIN cfg.subs /\ \A i \in DOMAIN cfg.subs : DOMAIN res'[i] = Kinds
    BY <1>4 DEF RemoveOrphans
  <2>2. DOMAIN errs' = Nodes /\ noted' \subseteq Nodes /\ pc' \in Steps
    <3>1. Loaded(at) \subseteq Nodes
      BY <1>1, <1>4, LoadedNodes DEF RemoveOrphans
    <3> QED
      BY <1>1, <1>4, <3>1 DEF RemoveOrphans, FailAll, NoteErrors, Steps
  <2> QED
    BY <1>0, <1>1, <1>4, <2>1, <2>2 DEF RemoveOrphans
<1>5. CASE OrphansRemoved
  BY <1>0, <1>1, <1>5, LoadedNodes DEF OrphansRemoved, env, memory, Steps
<1>6. CASE StateRestored
  BY <1>0, <1>1, <1>6 DEF StateRestored, env, Steps
<1>7. ASSUME NEW n \in pending, CheckSource(n)
      PROVE  SyncTypes'
  BY <1>0, <1>1, <1>7 DEF CheckSource, NextSource, NoteErrors, env, Steps
<1>8. ASSUME NEW n \in pending, SyncSource(n)
      PROVE  SyncTypes'
  BY <1>0, <1>1, <1>8 DEF SyncSource, NextSource, NoteErrors, Finish, env, Steps
<1>9. ASSUME NEW n \in pending, ApplyKind(n)
      PROVE  SyncTypes'
  BY <1>0, <1>1, <1>9 DEF ApplyKind, memory, Steps
<1>10. ASSUME NEW n \in pending, ApplyDone(n)
       PROVE  SyncTypes'
  <2>1. DOMAIN errs' = Nodes /\ noted' \subseteq Nodes /\ pc' = "check" /\ pending' \subseteq Nodes
    BY <1>10 DEF ApplyDone, Finish, NextSource, NoteErrors
  <2>2. hash' \in [Nodes -> DOMAIN Texts \cup {Nil, Reset}]
    BY <1>10 DEF ApplyDone, Nil, FailedLoad
  <2> QED
    BY <1>0, <1>1, <1>10, <2>1, <2>2 DEF ApplyDone, env, Steps
<1>11. ASSUME NEW n \in Active, FindLoss(n)
       PROVE  SyncTypes'
  BY <1>0, <1>1, <1>11 DEF FindLoss, env, locals
<1>12. ASSUME NEW n \in Active, Edit(n)
       PROVE  SyncTypes'
  <2>1. PICK v \in DOMAIN Texts : content' = [content EXCEPT ![n] = v]
    BY <1>12 DEF Edit
  <2>2. content' \in [Nodes -> DOMAIN Texts]
    BY <2>1
  <2>3. UNCHANGED <<static, res, memory, pc, locals>>
    BY <1>12 DEF Edit
  <2> QED
    BY <1>0, <1>1, <2>2, <2>3 DEF memory, locals
<1>13. ASSUME NEW n \in Active, NEW t \in AllTunnels, Repair(n, t)
       PROVE  SyncTypes'
  BY <1>0, <1>1, <1>13 DEF Repair, memory, locals
<1>14. ASSUME NEW i \in DOMAIN cfg.subs, RestartXray(i)
       PROVE  SyncTypes'
  BY <1>0, <1>1, <1>14 DEF RestartXray, memory, locals
<1>15. CASE RestartScd
  BY <1>0, <1>1, <1>15 DEF RestartScd, NoNodes, Steps
<1>16. CASE Change
  BY <1>0, <1>1, <1>16 DEF Change, memory, locals
<1>17. CASE UNCHANGED vars
  BY <1>0, <1>1, <1>17 DEF vars, env, memory, locals
<1> QED
  BY <1>2, <1>3, <1>4, <1>5, <1>6, <1>7, <1>8, <1>9, <1>10, <1>11, <1>12, <1>13, <1>14, <1>15,
     <1>16, <1>17 DEF Next, SyncStep

-----------------------------------------------------------------------------
(* What a sync removes.                                                    *)

(* What a source makes is one of its prefixes, and the tunnel.             *)
LEMMA MadeForm ==
  ASSUME GoodConfig, NEW n \in Nodes, NEW k \in Kinds, NEW tag \in Made(n, k)
  PROVE  \E p \in TagStarts(Sub(n[1]), Src(n), k), t \in AllTunnels : tag = p \o <<t>>
<1>1. ASSUME NEW t \in AllTunnels, tag = Tag(n, k, t)
      PROVE  \E p \in TagStarts(Sub(n[1]), Src(n), k) : tag = p \o <<t>>
  BY <1>1, TagForm
<1>2. ASSUME k = "outbound", NEW t \in AllTunnels, tag = Bare(n, t)
      PROVE  \E p \in TagStarts(Sub(n[1]), Src(n), k) : tag = p \o <<t>>
  BY <1>2, TagForm
<1> QED
  BY <1>1, <1>2 DEF Made

(* The step takes away nothing fixed, and nothing that another source      *)
(* makes: what OthersLeftAlone says of a step of the sync.                 *)
OthersKept ==
  \A i \in DOMAIN cfg.subs, k \in Kinds : \A tag \in res[i][k] \ res'[i][k] :
    /\ tag \notin Sub(i).fixed[k]
    /\ \A n \in Active : n[1] = i /\ tag \in Made(n, k) => pc = "apply" /\ Current = n

(* RemoveOrphans takes orphans only.                                       *)
LEMMA OrphansOnly ==
  ASSUME SyncTypes, RemoveOrphans
  PROVE  OthersKept
<1>1. SUFFICES ASSUME NEW i \in DOMAIN cfg.subs, NEW k \in Kinds, NEW tag \in res[i][k] \ res'[i][k]
               PROVE  /\ tag \notin Sub(i).fixed[k]
                      /\ \A n \in Active : n[1] = i => tag \notin Made(n, k)
  BY DEF OthersKept
<1>2. i = at /\ Orphan(Sub(at), k, tag)
  BY <1>1 DEF RemoveOrphans, SyncTypes
<1>3. ASSUME NEW n \in Active, n[1] = i, tag \in Made(n, k)
      PROVE  FALSE
  <2>1. n \in Nodes /\ Src(n).enabled /\ GoodConfig
    BY ConfigGood DEF Active
  <2>2. PICK p \in TagStarts(Sub(n[1]), Src(n), k), t \in AllTunnels : tag = p \o <<t>>
    BY <1>3, <2>1, MadeForm
  <2>3. Owns(Sub(n[1]), Src(n), k, tag)
    BY <2>1, <2>2, MadeOwned
  <2> QED
    BY <1>2, <1>3, <2>1, <2>3, OwnedNoOrphan
<1> QED
  BY <1>2, <1>3 DEF Orphan

(* An apply takes what its source owns only.                               *)
LEMMA OwnOnly ==
  ASSUME SyncTypes, NEW m \in pending, ApplyKind(m)
  PROVE  OthersKept
<1>1. SUFFICES ASSUME NEW i \in DOMAIN cfg.subs, NEW k \in Kinds, NEW tag \in res[i][k] \ res'[i][k]
               PROVE  /\ tag \notin Sub(i).fixed[k]
                      /\ \A n \in Active : n[1] = i /\ tag \in Made(n, k) => n = m
  BY DEF OthersKept, ApplyKind
<1>2. i = m[1] /\ tag \notin Sub(i).fixed[k] /\ Owns(Sub(m[1]), Src(m), k, tag)
  <2> DEFINE h == Head(left)
             own == {x \in res[m[1]][h] \ Sub(m[1]).fixed[h] : Owns(Sub(m[1]), Src(m), h, x)}
  <2>1. \/ res' = res
        \/ res' = [res EXCEPT ![m[1]][h] = (@ \ own) \cup Plan(m, h, got[m])]
        \/ res' = [res EXCEPT ![m[1]][h] = @ \ own]
    BY DEF ApplyKind
  <2>2. i \in DOMAIN res /\ k \in DOMAIN res[i]
    BY DEF SyncTypes
  <2>3. i = m[1] /\ k = h /\ tag \in own
    <3> HIDE DEF own, h
    <3> QED
      BY <1>1, <2>1, <2>2
  <2> QED
    BY <2>3
<1>3. ASSUME NEW n \in Active, n[1] = i, tag \in Made(n, k)
      PROVE  n = m
  <2>1. n \in Nodes /\ m \in Nodes /\ GoodConfig
    BY ConfigGood DEF Active, SyncTypes
  <2>2. PICK p \in TagStarts(Sub(n[1]), Src(n), k), t \in AllTunnels : tag = p \o <<t>>
    BY <1>3, <2>1, MadeForm
  <2> QED
    BY <1>2, <1>3, <2>1, <2>2, MadeApart
<1> QED
  BY <1>2, <1>3

(* The sync removes nothing of another source, and nothing fixed           *)
(* (RemoveOrphans, the namespace rules): for every configuration that the  *)
(* rules accept, OthersLeftAlone.                                          *)
THEOREM OthersAlwaysLeftAlone == Spec => OthersLeftAlone
<1>1. Init => SyncTypes
  BY TypesInit
<1>2. SyncTypes /\ [Next]_vars => SyncTypes'
  BY TypesKept
<1>3. ASSUME SyncTypes, SyncStep
      PROVE  OthersKept
  <2>1. CASE SyncStart \/ NextSubscription \/ OrphansRemoved \/ StateRestored
    <3>1. UNCHANGED res
      BY <2>1 DEF SyncStart, NextSubscription, OrphansRemoved, StateRestored, env
    <3> QED
      BY <3>1 DEF OthersKept
  <2>2. CASE \E n \in pending : CheckSource(n) \/ SyncSource(n) \/ ApplyDone(n)
    <3>1. UNCHANGED res
      BY <2>2 DEF CheckSource, SyncSource, ApplyDone, env
    <3> QED
      BY <3>1 DEF OthersKept
  <2> QED
    BY <1>3, <2>1, <2>2, OrphansOnly, OwnOnly DEF SyncStep
<1>4. SyncTypes /\ [Next]_vars => [SyncStep => OthersKept]_vars
  BY <1>3
<1> QED
  BY <1>1, <1>2, <1>4, PTL DEF Spec, OthersLeftAlone, OthersKept

-----------------------------------------------------------------------------
(* How a sync ends for each source.                                        *)

(* This sync has come to an end with n.                                    *)
Handled(n) ==
  \/ pc = "idle"
  \/ n[1] < at
  \/ n[1] = at /\ (pc = "next" \/ (pc \in {"check", "source", "apply"} /\ n \notin pending))

(* No dependency of n is without state.                                    *)
Ready(n) == \A m \in SourceNodes(n) : hash[m] # Nil

(* What a sync has loaded, what it still has to do, which sources have     *)
(* failed, and how it ended with the others.                               *)
LoadInv == \A n \in Nodes : got[n] # FailedLoad => n \in Active /\ ~Refused(Src(n), Texts[got[n]])
PendingInv == pc \in {"check", "source", "apply"} => pending \subseteq Loaded(at)
FailedInv == pc # "idle" \/ got # NoNodes(FailedLoad) =>
               \A n \in Active : got[n] = FailedLoad => n \in noted
NotedInv == \A n \in noted : errs[n] # NoError
ResultInv ==
  \A n \in Active : got[n] # FailedLoad =>
    IF Handled(n) THEN n \in noted \/ (errs[n] = NoError /\ Ready(n)) ELSE n \notin noted
CurrentInv == pc \in {"source", "apply"} => \A n \in pending : n = Current => Ready(n)


(* How a sync ends: the inductive invariant behind StatusTells.            *)
EndInv == /\ SyncTypes /\ LoadInv /\ PendingInv /\ FailedInv /\ NotedInv /\ ResultInv /\ CurrentInv

(* Every code that a sync notes is an error.                               *)
LEMMA CodesAreErrors ==
  /\ "fetch_failed" # NoError /\ "orphan_remove_failed" # NoError /\ "manifest_invalid" # NoError
  /\ "apply_failed" # NoError /\ "dependency_not_applied" # NoError
  /\ "balancer_not_found" # NoError /\ "dialer_proxy_missing" # NoError
BY Zenon DEF NoError

(* The source to sync is a matter of the configuration and what is pending. *)
LEMMA CurrentFrame ==
  ASSUME cfg' = cfg, pending' = pending
  PROVE  Current' = Current
BY DEF Current, DependencyOrder, DependsOn, Src

(* It holds at first, where nothing is loaded.                             *)
LEMMA EndInit ==
  ASSUME Init
  PROVE  EndInv
<1>1. SyncTypes
  BY TypesInit
<1>2. got = NoNodes(FailedLoad) /\ noted = {} /\ pc = "idle"
  BY DEF Init
<1>3. \A n \in Nodes : got[n] = FailedLoad
  BY <1>2 DEF NoNodes
<1> QED
  BY <1>1, <1>2, <1>3 DEF EndInv, LoadInv, PendingInv, FailedInv, NotedInv, ResultInv, CurrentInv, Active

(* A sync starts (Run, LoadSources).                                       *)
LEMMA StartEnds ==
  ASSUME EndInv, SyncTypes', SyncStart
  PROVE  EndInv'
<1>1. /\ cfg' = cfg /\ pc' = "next" /\ at' = 0 /\ UNCHANGED <<content, hash, pending>>
  BY DEF SyncStart
<1>2. /\ Nodes' = Nodes /\ Active' = Active /\ Active \subseteq Nodes
      /\ \A n : Src(n)' = Src(n)
  BY <1>1, ConfigFrame DEF Active
<1>3. PICK failed \in SUBSET Active :
        /\ \A n \in Active : Refused(Src(n), Texts[content[n]]) => n \in failed
        /\ got' = [n \in Nodes |-> IF n \in Active \ failed THEN content[n] ELSE FailedLoad]
        /\ NoteFailedLoads(failed)
  BY DEF SyncStart, Fails
<1>4. noted' = failed /\ \A n \in failed : errs'[n] # NoError
  BY <1>2, <1>3, CodesAreErrors DEF NoteFailedLoads
<1>5. \A n \in Nodes : got'[n] # FailedLoad =>
        n \in Active \ failed /\ got'[n] = content[n]
  BY <1>3
<1>6. \A n \in Active \ failed : got'[n] # FailedLoad
  BY <1>2, <1>3, TextsFacts DEF EndInv, SyncTypes
<1>7. \A n \in Nodes : ~Handled(n)'
  <2>1. \A n \in Nodes : n[1] \in Nat /\ n[1] > 0
    BY ConfigGood, SourceTypes, SyncAssumption DEF EndInv, GoodConfig, Configuration
  <2> QED
    BY <1>1, <2>1 DEF Handled
<1>8. LoadInv' /\ PendingInv' /\ CurrentInv'
  BY <1>1, <1>2, <1>3, <1>5 DEF LoadInv, PendingInv, CurrentInv
<1>9. FailedInv' /\ NotedInv'
  BY <1>2, <1>4, <1>6 DEF FailedInv, NotedInv
<1>10. ResultInv'
  BY <1>2, <1>4, <1>5, <1>7 DEF ResultInv
<1> QED
  BY <1>8, <1>9, <1>10 DEF EndInv

(* No source that has state loses it.                                      *)
NoNewNil == \A n \in Nodes : hash'[n] = Nil => hash[n] = Nil

(* Then the dependencies that have state keep it.                          *)
LEMMA ReadyKept ==
  ASSUME cfg' = cfg, NoNewNil, NEW n, Ready(n)
  PROVE  Ready(n)'
<1>1. SourceNodes(n)' = SourceNodes(n) /\ SourceNodes(n) \subseteq Nodes
  BY ConfigFrame DEF SourceNodes
<1> QED
  BY <1>1 DEF Ready, NoNewNil

(* Steps that leave the state of the sync's sources alone, but for the     *)
(* applied text of a source that has one.                                  *)
LEMMA FrameEnds ==
  ASSUME EndInv, SyncTypes', UNCHANGED <<cfg, errs, pc, at, got, pending, noted>>, NoNewNil
  PROVE  EndInv'
<1>1. /\ Nodes' = Nodes /\ Active' = Active /\ Current' = Current
      /\ \A n : Src(n)' = Src(n)
  BY ConfigFrame, CurrentFrame
<1>2. \A n : Handled(n)' <=> Handled(n)
  BY DEF Handled
<1>3. \A n : Ready(n) => Ready(n)'
  BY ReadyKept
<1>4. LoadInv' /\ PendingInv' /\ FailedInv' /\ NotedInv'
  BY <1>1 DEF EndInv, LoadInv, PendingInv, FailedInv, NotedInv, Loaded, Sub, NoNodes
<1>5. ResultInv'
  BY <1>1, <1>2, <1>3 DEF EndInv, ResultInv
<1>6. CurrentInv'
  BY <1>1, <1>3 DEF EndInv, CurrentInv
<1> QED
  BY <1>4, <1>5, <1>6 DEF EndInv

(* Steps that only move the sync on, within one subscription or to         *)
(* another, and do not end with a source that they did not end with.       *)
LEMMA MoveEnds ==
  ASSUME EndInv, SyncTypes', UNCHANGED <<cfg, errs, got, noted, hash>>,
         pc # "idle", PendingInv', CurrentInv',
         \A n \in Active : got[n] # FailedLoad => (Handled(n)' <=> Handled(n))
  PROVE  EndInv'
<1>1. /\ Nodes' = Nodes /\ Active' = Active
      /\ \A n : Src(n)' = Src(n)
  BY ConfigFrame
<1>2. \A n : Ready(n) => Ready(n)'
  BY ReadyKept DEF NoNewNil
<1>3. LoadInv' /\ FailedInv' /\ NotedInv'
  BY <1>1 DEF EndInv, LoadInv, FailedInv, NotedInv
<1>4. ResultInv'
  BY <1>1, <1>2 DEF EndInv, ResultInv
<1> QED
  BY <1>3, <1>4 DEF EndInv

(* The sync ends with source n (noteError, clearError).                    *)
LEMMA SourceEnds ==
  ASSUME EndInv, SyncTypes', NEW n \in pending, pc \in {"check", "source", "apply"},
         UNCHANGED <<cfg, at, got>>, NextSource(n), NoNewNil,
         \/ \E code : code # NoError /\ NoteErrors({n}, code)
         \/ noted' = noted /\ errs' = [errs EXCEPT ![n] = NoError] /\ Ready(n)
  PROVE  EndInv'
<1>1. /\ Nodes' = Nodes /\ Active' = Active
      /\ \A m : Src(m)' = Src(m)
  BY ConfigFrame
<1>2. \A m : Ready(m) => Ready(m)'
  BY ReadyKept
<1>3. pc' = "check" /\ pending' = pending \ {n}
  BY DEF NextSource
<1>4. n \in Nodes /\ n[1] = at /\ got[n] # FailedLoad /\ n \in Active
  <2>1. at \in DOMAIN cfg.subs
    BY ConfigGood, SyncAssumption DEF EndInv, SyncTypes, GoodConfig, Configuration
  <2> QED
    BY <2>1, LoadedNodes DEF EndInv, PendingInv, LoadInv
<1>5. n \notin noted
  BY <1>4, SourceTypes, ConfigGood DEF EndInv, ResultInv, Handled
<1>6. ASSUME NEW m \in Active
      PROVE  Handled(m)' <=> Handled(m) \/ m = n
  BY <1>3, <1>4 DEF Handled
<1>7. /\ noted \subseteq noted' /\ noted' \subseteq noted \cup {n}
      /\ \A m \in Nodes \ {n} : errs'[m] = errs[m]
      /\ \/ n \in noted' /\ errs'[n] # NoError
         \/ n \notin noted' /\ errs'[n] = NoError /\ Ready(n)
  BY <1>4, <1>5 DEF NoteErrors, EndInv, SyncTypes
<1>8. LoadInv' /\ PendingInv' /\ CurrentInv'
  BY <1>1, <1>3 DEF EndInv, LoadInv, PendingInv, CurrentInv, Loaded, Sub
<1>9. FailedInv' /\ NotedInv'
  BY <1>1, <1>3, <1>4, <1>7 DEF EndInv, FailedInv, NotedInv, SyncTypes
<1>10. ResultInv'
  <2>1. SUFFICES ASSUME NEW m \in Active, got[m] # FailedLoad
                 PROVE  IF Handled(m)' THEN m \in noted' \/ (errs'[m] = NoError /\ Ready(m)')
                        ELSE m \notin noted'
    BY <1>1 DEF ResultInv
  <2>2. CASE m = n
    BY <1>2, <1>6, <1>7, <2>2
  <2>3. CASE m # n
    BY <1>2, <1>6, <1>7, <2>1, <2>3 DEF EndInv, ResultInv, Active
  <2> QED
    BY <2>2, <2>3
<1> QED
  BY <1>8, <1>9, <1>10 DEF EndInv

(* The next subscription, or the end of the sync (perform).                *)
LEMMA NextEnds ==
  ASSUME EndInv, SyncTypes', NextSubscription
  PROVE  EndInv'
<1> DEFINE rest == {i \in DOMAIN cfg.subs : i > at /\ Sub(i).enabled}
<1>1. /\ UNCHANGED <<cfg, errs, got, noted, hash, pending>> /\ pc = "next"
      /\ DOMAIN cfg.subs = 1 .. Len(cfg.subs) /\ Len(cfg.subs) \in Nat /\ at \in Nat
  BY SyncAssumption DEF NextSubscription, env, memory, EndInv, SyncTypes, Configuration
<1>2. \A n \in Active : n[1] \in DOMAIN cfg.subs /\ n[1] \in Nat /\ Sub(n[1]).enabled
  BY ConfigGood, SourceTypes DEF EndInv, Active
<1>3. PendingInv' /\ CurrentInv'
  BY DEF NextSubscription, PendingInv, CurrentInv
<1>4. ASSUME NEW n \in Active
      PROVE  Handled(n)' <=> Handled(n)
  <2>1. CASE rest = {}
    <3>1. n[1] < at \/ n[1] = at
      BY <1>1, <1>2, <2>1
    <3>2. pc' = "idle"
      BY <2>1 DEF NextSubscription
    <3> QED
      BY <1>1, <3>1, <3>2 DEF Handled
  <2>2. CASE rest # {}
    <3>1. rest \in SUBSET Nat
      BY <1>1
    <3>2. Min(rest) \in rest /\ \A y \in rest : Min(rest) <= y
      <4> HIDE DEF rest
      <4> QED
        BY <2>2, <3>1, LeastNat
    <3>3. at' = Min(rest) /\ pc' = "orphans"
      BY <2>2 DEF NextSubscription
    <3>4. n[1] < at' <=> n[1] <= at
      <4>1. at' \in Nat /\ at' > at
        BY <1>1, <3>2, <3>3
      <4>2. n[1] > at => n[1] \in rest
        BY <1>2
      <4>3. n[1] > at => at' <= n[1]
        BY <3>2, <3>3, <4>2
      <4> QED
        BY <1>1, <1>2, <4>1, <4>3
    <3> QED
      BY <1>1, <1>2, <3>3, <3>4 DEF Handled
  <2> QED
    BY <2>1, <2>2
<1> QED
  BY <1>1, <1>3, <1>4, MoveEnds

(* The orphans are removed, or every loaded source fails (removeOrphans).  *)
LEMMA OrphansEnd ==
  ASSUME EndInv, SyncTypes', RemoveOrphans
  PROVE  EndInv'
<1>1. UNCHANGED <<cfg, got, hash, pending, at>> /\ pc = "orphans"
  BY DEF RemoveOrphans
<1>2. CASE UNCHANGED <<pc, errs, noted>>
  BY <1>1, <1>2, FrameEnds DEF NoNewNil
<1>3. CASE FailAll("orphan_remove_failed")
  <2>1. at \in DOMAIN cfg.subs
    BY <1>1, ConfigGood, SyncAssumption DEF EndInv, SyncTypes, GoodConfig, Configuration
  <2>2. Loaded(at) = {n \in Nodes : n[1] = at /\ got[n] # FailedLoad}
    BY <2>1, LoadedNodes
  <2>3. /\ pc' = "next" /\ noted' = noted \cup Loaded(at)
        /\ \A n \in Nodes : errs'[n] = IF n \in Loaded(at) \ noted THEN "orphan_remove_failed" ELSE errs[n]
    BY <1>3 DEF FailAll, NoteErrors
  <2>4. /\ Nodes' = Nodes /\ Active' = Active /\ Active \subseteq Nodes
        /\ \A m : Src(m)' = Src(m)
    BY <1>1, ConfigFrame DEF Active
  <2>5. \A m : Ready(m) => Ready(m)'
    BY <1>1, ReadyKept DEF NoNewNil
  <2>6. LoadInv' /\ PendingInv' /\ CurrentInv'
    BY <1>1, <2>3, <2>4 DEF EndInv, LoadInv, PendingInv, CurrentInv
  <2>7. FailedInv' /\ NotedInv'
    BY <1>1, <2>2, <2>3, <2>4, CodesAreErrors DEF EndInv, FailedInv, NotedInv, SyncTypes
  <2>8. ASSUME NEW n \in Active
        PROVE  Handled(n)' <=> Handled(n) \/ n[1] = at
    BY <1>1, <2>3 DEF Handled
  <2>9. ResultInv'
    <3>1. SUFFICES ASSUME NEW n \in Active, got[n] # FailedLoad
                   PROVE  IF Handled(n)' THEN n \in noted' \/ (errs'[n] = NoError /\ Ready(n)')
                          ELSE n \notin noted'
      BY <1>1, <2>4 DEF ResultInv
    <3>2. CASE n[1] = at
      BY <2>2, <2>3, <2>4, <2>8, <3>1, <3>2
    <3>3. CASE n[1] # at
      BY <2>2, <2>3, <2>4, <2>5, <2>8, <3>1, <3>3 DEF EndInv, ResultInv
    <3> QED
      BY <3>2, <3>3
  <2> QED
    BY <2>6, <2>7, <2>9 DEF EndInv
<1> QED
  BY <1>2, <1>3 DEF RemoveOrphans

(* The sources of the subscription come up (syncSubscription).             *)
LEMMA RemovedEnds ==
  ASSUME EndInv, SyncTypes', OrphansRemoved
  PROVE  EndInv'
<1>1. /\ UNCHANGED <<cfg, errs, got, noted, hash, at>> /\ pc = "orphans"
      /\ pc' = "check" /\ pending' = Loaded(at)
  BY DEF OrphansRemoved, env, memory
<1>2. at \in DOMAIN cfg.subs
  BY <1>1, ConfigGood, SyncAssumption DEF EndInv, SyncTypes, GoodConfig, Configuration
<1>3. Loaded(at) = {n \in Nodes : n[1] = at /\ got[n] # FailedLoad}
  BY <1>2, LoadedNodes
<1>4. PendingInv' /\ CurrentInv'
  BY <1>1 DEF PendingInv, CurrentInv, Loaded, Sub
<1>5. \A n \in Active : got[n] # FailedLoad => (Handled(n)' <=> Handled(n))
  BY <1>1, <1>3 DEF Handled, Active
<1> QED
  BY <1>1, <1>4, <1>5, MoveEnds

(* All sources of the subscription are done (stateRestored).               *)
LEMMA RestoredEnds ==
  ASSUME EndInv, SyncTypes', StateRestored
  PROVE  EndInv'
<1>1. /\ UNCHANGED <<cfg, errs, got, noted, hash, at, pending>> /\ pc = "check"
      /\ pc' = "next" /\ pending = {}
  BY DEF StateRestored, env
<1>2. PendingInv' /\ CurrentInv'
  BY <1>1 DEF PendingInv, CurrentInv
<1>3. \A n \in Active : Handled(n)' <=> Handled(n)
  BY <1>1 DEF Handled
<1> QED
  BY <1>1, <1>2, <1>3, MoveEnds

(* The check of a source (checkSource).                                    *)
LEMMA CheckEnds ==
  ASSUME EndInv, SyncTypes', NEW n \in pending, CheckSource(n)
  PROVE  EndInv'
<1>1. /\ UNCHANGED <<cfg, hash, at, got>> /\ pc = "check" /\ NoNewNil
  BY DEF CheckSource, env, NoNewNil
<1>2. CASE CheckCode(n) # NoError
  <2>1. NextSource(n) /\ NoteErrors({n}, CheckCode(n))
    BY <1>2 DEF CheckSource
  <2> QED
    BY <1>1, <1>2, <2>1, SourceEnds
<1>3. CASE CheckCode(n) = NoError
  <2>1. UNCHANGED <<pending, errs, noted>> /\ pc' = "source" /\ n = Current
    BY <1>3 DEF CheckSource
  <2>2. Ready(n)
    BY <1>3, CodesAreErrors DEF CheckCode, Ready
  <2>3. Current' = Current /\ Ready(n)'
    BY <1>1, <2>1, <2>2, CurrentFrame, ReadyKept
  <2>4. PendingInv' /\ CurrentInv'
    BY <1>1, <2>1, <2>3 DEF EndInv, PendingInv, CurrentInv, Loaded, Sub
  <2>5. \A m \in Active : Handled(m)' <=> Handled(m)
    BY <1>1, <2>1 DEF Handled
  <2> QED
    BY <1>1, <2>1, <2>4, <2>5, MoveEnds
<1> QED
  BY <1>2, <1>3

(* The end of a source with or without an error (clearError).              *)
LEMMA FinishEnds ==
  ASSUME EndInv, SyncTypes', NEW n \in pending, n = Current, pc \in {"source", "apply"},
         NEW failed, Finish(n, failed), UNCHANGED <<cfg, at, got>>, NoNewNil
  PROVE  EndInv'
<1>1. NextSource(n) /\ Ready(n)
  BY DEF Finish, EndInv, CurrentInv
<1>2. \/ NoteErrors({n}, "apply_failed")
      \/ noted' = noted /\ errs' = [errs EXCEPT ![n] = NoError]
  BY DEF Finish
<1> QED
  BY <1>1, <1>2, CodesAreErrors, SourceEnds

(* A source up to its apply (syncSource).                                  *)
LEMMA SyncSourceEnds ==
  ASSUME EndInv, SyncTypes', NEW n \in pending, SyncSource(n)
  PROVE  EndInv'
<1>1. /\ UNCHANGED <<cfg, hash, at, got>> /\ pc = "source" /\ n = Current /\ NoNewNil
  BY DEF SyncSource, env, NoNewNil
<1>2. \/ NoteErrors({n}, "manifest_invalid") /\ NextSource(n)
      \/ Finish(n, FALSE)
      \/ pc' = "apply" /\ UNCHANGED <<errs, noted, pending>>
  BY DEF SyncSource
<1>3. CASE NoteErrors({n}, "manifest_invalid") /\ NextSource(n)
  BY <1>1, <1>3, CodesAreErrors, SourceEnds
<1>4. CASE Finish(n, FALSE)
  BY <1>1, <1>4, FinishEnds
<1>5. CASE pc' = "apply" /\ UNCHANGED <<errs, noted, pending>>
  <2>1. Current' = Current /\ \A m : Ready(m) => Ready(m)'
    BY <1>1, <1>5, CurrentFrame, ReadyKept
  <2>2. PendingInv' /\ CurrentInv'
    BY <1>1, <1>5, <2>1 DEF EndInv, PendingInv, CurrentInv, Loaded, Sub
  <2>3. \A m \in Active : Handled(m)' <=> Handled(m)
    BY <1>1, <1>5 DEF Handled
  <2> QED
    BY <1>1, <1>5, <2>2, <2>3, MoveEnds
<1> QED
  BY <1>2, <1>3, <1>4, <1>5

(* The end of an apply (syncPlans).                                        *)
LEMMA ApplyEnds ==
  ASSUME EndInv, SyncTypes', NEW n \in pending, ApplyDone(n)
  PROVE  EndInv'
<1>1. /\ UNCHANGED <<cfg, at, got>> /\ pc = "apply" /\ n = Current /\ Finish(n, bad)
  BY DEF ApplyDone, env
<1>2. got[n] # FailedLoad
  <2>1. at \in DOMAIN cfg.subs
    BY <1>1, ConfigGood, SyncAssumption DEF EndInv, SyncTypes, GoodConfig, Configuration
  <2> QED
    BY <1>1, <2>1, LoadedNodes DEF EndInv, PendingInv
<1>3. NoNewNil
  BY <1>2 DEF ApplyDone, NoNewNil, EndInv, SyncTypes, FailedLoad, Nil
<1> QED
  BY <1>1, <1>3, FinishEnds

(* A restart of scd.                                                       *)
LEMMA RestartEnds ==
  ASSUME EndInv, SyncTypes', RestartScd
  PROVE  EndInv'
<1>1. /\ cfg' = cfg /\ got' = NoNodes(FailedLoad) /\ noted' = {} /\ pc' = "idle"
  BY DEF RestartScd
<1>2. Nodes' = Nodes /\ Active' = Active /\ Active \subseteq Nodes
  BY <1>1, ConfigFrame DEF Active
<1>3. \A n \in Nodes : got'[n] = FailedLoad
  BY <1>1 DEF NoNodes
<1>4. NoNodes(FailedLoad)' = NoNodes(FailedLoad)
  BY <1>2 DEF NoNodes
<1> QED
  BY <1>1, <1>2, <1>3, <1>4 DEF EndInv, LoadInv, PendingInv, FailedInv, NotedInv, ResultInv, CurrentInv

(* Every step keeps the invariant.                                         *)
LEMMA EndKept ==
  ASSUME EndInv, [Next]_vars
  PROVE  EndInv'
<1>1. SyncTypes'
  BY TypesKept DEF EndInv
<1>2. CASE SyncStart \/ NextSubscription \/ RemoveOrphans \/ OrphansRemoved \/ StateRestored
  BY <1>1, <1>2, StartEnds, NextEnds, OrphansEnd, RemovedEnds, RestoredEnds
<1>3. ASSUME NEW n \in pending, CheckSource(n) \/ SyncSource(n) \/ ApplyDone(n)
      PROVE  EndInv'
  BY <1>1, <1>3, CheckEnds, SyncSourceEnds, ApplyEnds
<1>4. CASE \E n \in pending : ApplyKind(n)
  BY <1>1, <1>4, FrameEnds DEF ApplyKind, memory, NoNewNil
<1>5. ASSUME NEW n \in Active, FindLoss(n)
      PROVE  EndInv'
  <2>1. NoNewNil
    BY <1>5, TextsFacts DEF FindLoss, NoNewNil, EndInv, SyncTypes
  <2> QED
    BY <1>1, <1>5, <2>1, FrameEnds DEF FindLoss, env, locals
<1>6. ASSUME NEW n \in Active, Edit(n) \/ \E t \in AllTunnels : Repair(n, t)
      PROVE  EndInv'
  BY <1>1, <1>6, FrameEnds DEF Edit, Repair, memory, locals, NoNewNil
<1>7. ASSUME NEW i \in DOMAIN cfg.subs, RestartXray(i)
      PROVE  EndInv'
  BY <1>1, <1>7, FrameEnds DEF RestartXray, memory, locals, NoNewNil
<1>8. CASE Change
  BY <1>1, <1>8, FrameEnds DEF Change, memory, locals, NoNewNil
<1>9. CASE UNCHANGED vars
  BY <1>1, <1>9, FrameEnds DEF vars, env, memory, locals, NoNewNil
<1> QED
  BY <1>1, <1>2, <1>3, <1>4, <1>5, <1>6, <1>7, <1>8, <1>9, RestartEnds DEF Next, SyncStep

(* Between syncs the snapshot tells how the last sync ended (noteError,    *)
(* clearError, sourceViews): StatusTells, for every configuration and      *)
(* every run of failures.                                                  *)
THEOREM StatusAlwaysTells == Spec => []StatusTells
<1>1. Init => EndInv
  BY EndInit
<1>2. EndInv /\ [Next]_vars => EndInv'
  BY EndKept
<1>3. EndInv => StatusTells
  <2>1. SUFFICES ASSUME EndInv, pc = "idle", got # NoNodes(FailedLoad), NEW n \in Active
                 PROVE  /\ (errs[n] = NoError) <=> n \notin noted /\ got[n] # FailedLoad
                        /\ errs[n] = NoError => "not_applied" \notin SourceView(n).dependsOn
    BY DEF StatusTells, SourceView
  <2>2. /\ got[n] = FailedLoad => n \in noted
        /\ n \in noted => errs[n] # NoError
        /\ n \notin noted => errs[n] = NoError /\ Ready(n)
    BY <2>1 DEF EndInv, FailedInv, NotedInv, ResultInv, Handled
  <2>3. ASSUME Ready(n), NEW d \in ToSet(Src(n).deps), OwnDep(d)
        PROVE  DependencyView(n[1], d) # "not_applied"
    BY <2>3 DEF DependencyView, Ready, SourceNodes, DependsOn
  <2>4. Ready(n) => "not_applied" \notin SourceView(n).dependsOn
    BY <2>3 DEF SourceView
  <2> QED
    BY <2>2, <2>4
<1> QED
  BY <1>1, <1>2, <1>3, PTL DEF Spec

-----------------------------------------------------------------------------
(* The report and the sync.                                                *)

(* A text that is applied, or about to be, is one its source takes         *)
(* (LoadSources, syncSource).                                              *)
Taken(n, v) == ~Refused(Src(n), Texts[v]) /\ ~Invalid(n, v)
HashInv ==
  /\ \A n \in Nodes : hash[n] \in DOMAIN Texts => Taken(n, hash[n])
  /\ pc = "apply" => \A n \in pending : n = Current => ~Invalid(n, got[n])

TakenInv == EndInv /\ HashInv

(* Which texts a source takes is a matter of the configuration.            *)
LEMMA TakenFrame ==
  ASSUME cfg' = cfg
  PROVE  \A n, v : (Taken(n, v)' <=> Taken(n, v)) /\ (Invalid(n, v)' <=> Invalid(n, v))
BY DEF Taken, Invalid, Manifests, Src

(* At first nothing is applied.                                            *)
LEMMA TakenInit ==
  ASSUME Init
  PROVE  TakenInv
<1>1. \A n \in Nodes : hash[n] = Nil
  BY DEF Init, NoNodes
<1>2. pc # "apply"
  BY DEF Init
<1> QED
  BY <1>1, <1>2, EndInit, TextsFacts DEF TakenInv, HashInv

(* Every step keeps it that only texts are applied that the source takes.  *)
LEMMA TakenKept ==
  ASSUME TakenInv, [Next]_vars
  PROVE  TakenInv'
<1> USE DEF TakenInv
<1>0. EndInv'
  BY EndKept
<1>1. cfg' = cfg
  BY ConfigFixed
<1>2. /\ Nodes' = Nodes
      /\ \A n, v : (Taken(n, v)' <=> Taken(n, v)) /\ (Invalid(n, v)' <=> Invalid(n, v))
  BY <1>1, ConfigFrame, TakenFrame
<1>3. ASSUME UNCHANGED hash, pc' # "apply"
      PROVE  HashInv'
  BY <1>2, <1>3 DEF HashInv
<1>4. ASSUME UNCHANGED hash, UNCHANGED <<pc, pending, got>>
      PROVE  HashInv'
  <2>1. Current' = Current
    BY <1>1, <1>4, CurrentFrame
  <2> QED
    BY <1>2, <1>4, <2>1 DEF HashInv
<1>5. CASE SyncStart \/ NextSubscription \/ RemoveOrphans \/ OrphansRemoved \/ StateRestored
  BY <1>0, <1>3, <1>4, <1>5 DEF SyncStart, NextSubscription, RemoveOrphans, FailAll, OrphansRemoved, StateRestored,
                          env, memory
<1>6. ASSUME NEW n \in pending, CheckSource(n)
      PROVE  HashInv'
  BY <1>3, <1>6 DEF CheckSource, NextSource
<1>7. ASSUME NEW n \in pending, SyncSource(n)
      PROVE  HashInv'
  <2>1. UNCHANGED <<hash, got>> /\ n = Current
    BY <1>7 DEF SyncSource
  <2>2. CASE pc' = "apply" /\ UNCHANGED pending /\ ~Invalid(n, got[n])
    <3>1. Current' = Current
      BY <1>1, <2>2, CurrentFrame
    <3> QED
      BY <1>2, <2>1, <2>2, <3>1 DEF HashInv
  <2>3. CASE pc' = "check"
    BY <1>3, <2>1, <2>3
  <2> QED
    BY <1>7, <2>2, <2>3 DEF SyncSource, NextSource, Finish
<1>8. ASSUME NEW n \in pending, ApplyKind(n)
      PROVE  HashInv'
  BY <1>4, <1>8 DEF ApplyKind, memory
<1>9. ASSUME NEW n \in pending, ApplyDone(n)
      PROVE  HashInv'
  <2>1. pc = "apply" /\ n = Current /\ pc' = "check" /\ UNCHANGED got
    BY <1>9 DEF ApplyDone, Finish, NextSource
  <2>2. n \in Nodes /\ got[n] # FailedLoad
    <3>1. at \in DOMAIN cfg.subs
      BY <2>1, ConfigGood, SyncAssumption DEF EndInv, SyncTypes, GoodConfig, Configuration
    <3> QED
      BY <2>1, <3>1, LoadedNodes DEF EndInv, PendingInv
  <2>3. Taken(n, got[n])
    BY <2>1, <2>2 DEF HashInv, EndInv, LoadInv, Taken
  <2>4. \A m \in Nodes : hash'[m] = hash[m] \/ (m = n /\ hash'[m] = got[n])
    BY <1>9 DEF ApplyDone, EndInv, SyncTypes
  <2> QED
    BY <1>2, <2>1, <2>3, <2>4 DEF HashInv
<1>10. ASSUME NEW n \in Active, FindLoss(n)
       PROVE  HashInv'
  <2>1. /\ UNCHANGED <<pc, pending, got>>
        /\ \A m \in Nodes : hash'[m] = hash[m] \/ hash'[m] = Reset
    BY <1>10 DEF FindLoss, locals, EndInv, SyncTypes
  <2>2. Current' = Current
    BY <1>1, <2>1, CurrentFrame
  <2> QED
    BY <1>2, <2>1, <2>2, TextsFacts DEF HashInv
<1>11. ASSUME NEW n \in Active, Edit(n) \/ \E t \in AllTunnels : Repair(n, t)
       PROVE  HashInv'
  BY <1>4, <1>11 DEF Edit, Repair, memory, locals
<1>12. ASSUME NEW i \in DOMAIN cfg.subs, RestartXray(i)
       PROVE  HashInv'
  BY <1>4, <1>12 DEF RestartXray, memory, locals
<1>13. CASE RestartScd
  <2>1. (\A n \in Nodes : hash'[n] = Nil) /\ pc' # "apply"
    BY <1>13 DEF RestartScd, NoNodes
  <2> QED
    BY <1>0, <1>2, <2>1, TextsFacts DEF HashInv
<1>14. CASE Change
  BY <1>0, <1>4, <1>14 DEF Change, memory, locals
<1>15. CASE UNCHANGED vars
  BY <1>0, <1>4, <1>15 DEF vars, memory, locals
<1> QED
  BY <1>0, <1>5, <1>6, <1>7, <1>8, <1>9, <1>10, <1>11, <1>12, <1>13, <1>14, <1>15 DEF Next, SyncStep

(* A source whose input is applied misses in the report what the sync      *)
(* finds missing.                                                          *)
LEMMA SameMissing ==
  ASSUME TakenInv, NEW n \in Active, hash[n] = content[n]
  PROVE  (\E k \in cfg.kinds : \E e \in DiffMissing(n[1], k) : e[1] = n) <=> Missing(n, hash[n])
<1>1. n \in Nodes /\ Src(n).enabled /\ content[n] \in DOMAIN Texts
  BY DEF Active, TakenInv, EndInv, SyncTypes
<1>2. Taken(n, content[n])
  BY <1>1 DEF TakenInv, HashInv
<1>3. ExpectedTunnels(n) = {<<n, t>> : t \in Tunnels(n, content[n])}
  BY <1>2 DEF ExpectedTunnels, Taken
<1>4. ASSUME NEW m \in Nodes, NEW e \in ExpectedTunnels(m)
      PROVE  e[1] = m /\ e = <<m, e[2]>>
  BY DEF ExpectedTunnels
<1>5. \A e : e \in Expected(n[1]) /\ e[1] = n <=> \E t \in Tunnels(n, content[n]) : e = <<n, t>>
  BY <1>1, <1>3, <1>4 DEF Expected
<1>6. ASSUME NEW k \in cfg.kinds, NEW t
      PROVE  <<n, t>> \in DiffMissing(n[1], k) <=> t \in Tunnels(n, content[n]) /\ ~Has(n, k, t)
  BY <1>5 DEF DiffMissing, Has
<1>7. \A k \in cfg.kinds : \A e \in DiffMissing(n[1], k) : e[1] = n => \E t : e = <<n, t>>
  BY <1>5 DEF DiffMissing
<1>8. ASSUME NEW k \in cfg.kinds, NEW e \in DiffMissing(n[1], k), e[1] = n
      PROVE  Missing(n, hash[n])
  <2>1. PICK t : e = <<n, t>>
    BY <1>7, <1>8
  <2>2. t \in Tunnels(n, hash[n]) /\ ~Has(n, k, t)
    BY <1>6, <1>8, <2>1
  <2> QED
    BY <2>2 DEF Missing
<1>9. ASSUME Missing(n, hash[n])
      PROVE  \E k \in cfg.kinds : \E e \in DiffMissing(n[1], k) : e[1] = n
  <2>1. PICK k \in cfg.kinds, t \in Tunnels(n, hash[n]) : ~Has(n, k, t)
    BY <1>9 DEF Missing
  <2>2. <<n, t>> \in DiffMissing(n[1], k) /\ <<n, t>>[1] = n
    BY <1>6, <2>1
  <2> QED
    BY <2>2
<1> QED
  BY <1>8, <1>9

(* What the report calls managed or fixed is no orphan.                    *)
LEMMA SameOrphans ==
  ASSUME TakenInv, NEW i \in up, NEW k \in cfg.kinds, NEW tag \in res[i][k] \ DiffUnexpected(i, k)
  PROVE  ~Orphan(Sub(i), k, tag)
<1>1. GoodConfig /\ k \in Kinds
  BY ConfigGood DEF TakenInv, EndInv, GoodConfig, Configuration
<1>2. Classify(i, k, tag) # "unmanaged"
  BY DEF DiffUnexpected
<1>3. CASE tag \in Sub(i).fixed[k]
  BY <1>3 DEF Orphan
<1>4. ASSUME NEW e \in Expected(i), tag = Tag(e[1], k, e[2]) \/ (k = "outbound" /\ tag = Bare(e[1], e[2]))
      PROVE  ~Orphan(Sub(i), k, tag)
  <2>1. PICK n \in Nodes : n[1] = i /\ Src(n).enabled /\ e \in ExpectedTunnels(n)
    BY DEF Expected
  <2>2. PICK t : e = <<n, t>>
    BY <2>1 DEF ExpectedTunnels
  <2>5. tag = Tag(n, k, t) \/ (k = "outbound" /\ tag = Bare(n, t))
    BY <1>4, <2>2
  <2>3. \E p \in TagStarts(Sub(n[1]), Src(n), k) : tag = p \o <<t>>
    BY <1>1, <2>5, TagForm
  <2>4. Owns(Sub(n[1]), Src(n), k, tag)
    BY <1>1, <2>3, MadeOwned
  <2> QED
    BY <1>1, <2>1, <2>4, OwnedNoOrphan
<1>5. CASE tag \notin Sub(i).fixed[k]
  <2>1. CASE k = "outbound"
    BY <1>2, <1>4, <1>5, <2>1 DEF Classify, ClassifyOutbound
  <2>2. CASE k # "outbound"
    BY <1>2, <1>4, <1>5, <2>2 DEF Classify
  <2> QED
    BY <2>1, <2>2
<1> QED
  BY <1>3, <1>5

(* An outbound is shown for one tunnel, of the source that owns it         *)
(* (BuildTunnels, MapTag).                                                 *)
LEMMA ShownOnce ==
  ASSUME TakenInv, NEW i, NEW R \in SUBSET Applied(i), NEW tag
  PROVE  ShownRight(i, R, tag)
<1> DEFINE tunnels == BuildTunnels(i, R)
           shown == MapTag(tag, Sub(i).obs, tunnels)
<1>1. GoodConfig /\ "outbound" \in Kinds
  BY ConfigGood DEF TakenInv, EndInv, Kinds
<1> DEFINE Of(tn, e) == tn = [source |-> e[1], base |-> Bare(e[1], e[2]), initial |-> Tag(e[1], "outbound", e[2]),
                              current |-> IF e \in R THEN Bare(e[1], e[2]) ELSE Tag(e[1], "outbound", e[2])]
<1>2. ASSUME NEW e \in Applied(i)
      PROVE  e = <<e[1], e[2]>> /\ e[1] \in Nodes /\ e[1][1] = i /\ Src(e[1]).enabled
  BY DEF Applied, Active
<1>3. \A tn \in tunnels : \E e \in Applied(i) : Of(tn, e)
  BY DEF BuildTunnels
<1>4. ASSUME NEW tn \in shown
      PROVE  tn \in tunnels /\ \E e \in Applied(i) : Of(tn, e)
  BY <1>3 DEF MapTag
<1>6. ASSUME NEW e \in Applied(i), NEW f \in Applied(i),
             Outbound(e[1], e[2], tag), Outbound(f[1], f[2], tag)
      PROVE  e = f
  <2>1. e[1] \in Nodes /\ f[1] \in Nodes /\ e[1][1] = f[1][1]
    BY <1>2
  <2>2. e[1] = f[1] /\ e[2] = f[2]
    BY <1>1, <1>6, <2>1, OneTunnel
  <2> QED
    BY <1>2, <2>2
<1>7. ASSUME NEW tn \in shown, NEW e \in Applied(i), Of(tn, e)
      PROVE  Outbound(e[1], e[2], tag)
  <2>1. \/ tn.current = tag \/ tn.initial = tag \/ tag = Sub(i).obs \o tn.base
    BY DEF MapTag
  <2>2. /\ tn.current \in {Bare(e[1], e[2]), Tag(e[1], "outbound", e[2])}
        /\ tn.initial = Tag(e[1], "outbound", e[2]) /\ tn.base = Bare(e[1], e[2])
    BY <1>7
  <2>3. Sub(i).obs \o Bare(e[1], e[2]) = Tag(e[1], "outbound", e[2])
    <3> DEFINE S == Parts \cup {e[2]}
    <3>1. Sub(i).obs \in Seq(Parts) /\ Src(e[1]).id \in Seq(Parts)
      BY <1>1, <1>2, SourceTypes, NamesOfParts
    <3>2. Sub(i).obs \in Seq(S) /\ Src(e[1]).id \in Seq(S) /\ <<e[2]>> \in Seq(S)
      BY <3>1
    <3> HIDE DEF S
    <3>3. Sub(i).obs \o (Src(e[1]).id \o <<e[2]>>) = (Sub(i).obs \o Src(e[1]).id) \o <<e[2]>>
      <4> DEFINE o == Sub(i).obs
                 d == Src(e[1]).id
                 w == <<e[2]>>
      <4>1. o \in Seq(S) /\ d \in Seq(S) /\ w \in Seq(S)
        BY <3>2
      <4> HIDE DEF o, d, w
      <4>2. o \o (d \o w) = (o \o d) \o w
        BY <4>1, ConcatAssociative
      <4> QED
        BY <4>2 DEF o, d, w
    <3>4. /\ Tag(e[1], "outbound", e[2]) = (Sub(i).obs \o Src(e[1]).id) \o <<e[2]>>
          /\ Bare(e[1], e[2]) = Src(e[1]).id \o <<e[2]>>
      BY <1>2, Zenon DEF Tag, Bare
    <3> QED
      BY <3>3, <3>4
  <2> QED
    BY <2>1, <2>2, <2>3 DEF Outbound
<1>8. ASSUME NEW tn \in shown
      PROVE  /\ shown = {tn}
             /\ Owns(Sub(i), Src(tn.source), "outbound", tag)
             /\ tag \notin Sub(i).fixed["outbound"]
  <2>1. PICK e \in Applied(i) : Of(tn, e)
    BY <1>4
  <2>2. Outbound(e[1], e[2], tag)
    BY <1>7, <2>1
  <2>3. ASSUME NEW un \in shown
        PROVE  un = tn
    <3>1. PICK f \in Applied(i) : Of(un, f)
      BY <1>4
    <3>2. e = f
      BY <1>6, <1>7, <2>2, <3>1
    <3> QED
      BY <2>1, <3>1, <3>2
  <2>4. tn.source = e[1]
    BY <2>1
  <2>5. Owns(Sub(i), Src(e[1]), "outbound", tag)
    <3>1. e[1] \in Nodes /\ e[1][1] = i
      BY <1>2
    <3> QED
      BY <1>1, <2>2, <3>1, OutboundOwned
  <2>6. tag \notin Sub(i).fixed["outbound"]
    BY <1>1, <1>2, <2>5, FixedNotOwned
  <2> QED
    BY <2>3, <2>4, <2>5, <2>6
<1>9. ASSUME NEW tn \in tunnels, Selected(tn, tag)
      PROVE  tn \in shown
  BY <1>9 DEF Selected, MapTag
<1> QED
  BY <1>8, <1>9 DEF ShownRight

(* The report and the sync judge the same resources the same way, and a    *)
(* selected outbound is shown for one tunnel (BuildRuntimeState, MapTag):  *)
(* ReportAgrees, for every configuration that the rules accept.            *)
THEOREM ReportAlwaysAgrees == Spec => []ReportAgrees
<1>1. Init => TakenInv
  BY TakenInit
<1>2. TakenInv /\ [Next]_vars => TakenInv'
  BY TakenKept
<1>3. ASSUME TakenInv
      PROVE  ReportAgrees
  <2>1. ASSUME NEW i \in up
        PROVE  /\ \A k \in cfg.kinds : RuntimeState(i).missing[k] = DiffMissing(i, k)
               /\ \A k \in cfg.kinds : RuntimeState(i).unexpected[k] = DiffUnexpected(i, k)
    BY DEF RuntimeState
  <2>2. ASSUME NEW i \in up
        PROVE  MissingAgrees(i) /\ OrphansAgree(i)
    BY <1>3, <2>1, SameMissing, SameOrphans DEF MissingAgrees, OrphansAgree
  <2>3. ASSUME NEW i \in up, NEW R \in SUBSET Applied(i), NEW tag
        PROVE  ShownRight(i, R, tag)
    BY <1>3, ShownOnce
  <2> QED
    BY <2>2, <2>3 DEF ReportAgrees
<1> QED
  BY <1>1, <1>2, <1>3, PTL DEF Spec
=============================================================================
