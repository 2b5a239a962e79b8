------------------------------ MODULE Selection ------------------------------
(***************************************************************************)
(* The choice of the active candidates of a wireguard or masque source     *)
(* (internal/scd/selection): ranking, the active set of a full apply, the  *)
(* replacement of one slot and the decisions of a sync.                    *)
(*                                                                         *)
(* A candidate is a record with a tag, a key, an endpoint, a transport (0  *)
(* for wireguard), the optional metrics score and load, a label (0 when    *)
(* empty) and the priority of its transport.  Numbers stand for the        *)
(* strings, in the order strings.Compare gives them.                       *)
(***************************************************************************)
EXTENDS Integers, Sequences, FiniteSetsExt

None == -1     \* a metric the file does not give

(* What quarantine is about: one key on one endpoint over one transport.   *)
Pair(c) == <<c.key, c.endpoint, c.transport>>

LexLess(s, t) == \E i \in DOMAIN s : s[i] < t[i] /\ \A j \in 1..i-1 : s[j] = t[j]

-----------------------------------------------------------------------------
(* Rank.  A ranking of a set is the place of each of its members, from 0.  *)

(* A missing metric or label comes after every present one.                *)
OrLast(x, missing) == IF x = missing THEN <<1, 0>> ELSE <<0, x>>

SortKey(c, strategy) ==
  LET score == OrLast(c.score, None)
      load == OrLast(c.load, None)
      label == OrLast(c.label, 0)
  IN  CASE strategy = "score" -> score \o load \o label \o <<c.tag>>
        [] strategy = "load"  -> load \o score \o label \o <<c.tag>>
        [] OTHER              -> label \o <<c.tag>>

Sorted(items, strategy) ==
  [c \in items |-> Cardinality({d \in items : LexLess(SortKey(d, strategy), SortKey(c, strategy))})]

Mates(items, c) == {d \in items : d.transport # 0 /\ d.key = c.key}

(* The candidates of one key with a transport follow each other at the     *)
(* place of the best of them, by priority.                                 *)
GroupKey(c, sorted) ==
  LET lead == IF c.transport = 0 THEN sorted[c] ELSE Min({sorted[d] : d \in Mates(DOMAIN sorted, c)})
  IN  <<lead, c.priority, sorted[c]>>

Rank(items, strategy) ==
  LET sorted == Sorted(items, strategy)
  IN  [c \in items |-> Cardinality({d \in items : LexLess(GroupKey(d, sorted), GroupKey(c, sorted))})]

(* The best of the candidates S.                                           *)
Best(S, ranked) == CHOOSE c \in S : \A d \in S : ranked[c] <= ranked[d]

(* The first candidate of every key.                                       *)
Firsts(S, ranked) == {c \in S : \A d \in S : d.key = c.key => ranked[c] <= ranked[d]}

(* Pick: the first maxActive candidates, one per key; Seat is the place of *)
(* a candidate among them.                                                 *)
Seat(c, ranked) == Cardinality({d \in Firsts(DOMAIN ranked, ranked) : ranked[d] <= ranked[c]})
Pick(ranked, maxActive) == {c \in Firsts(DOMAIN ranked, ranked) : Seat(c, ranked) <= maxActive}

-----------------------------------------------------------------------------
(* Mutants: a key in use, or a pair in quarantine, is chosen.              *)
AllowedAnyKey(ranked, inUse, keys, quarantine) ==
  {c \in DOMAIN ranked : c.tag \notin inUse /\ Pair(c) \notin quarantine}
AllowedAnyPair(ranked, inUse, keys, quarantine) ==
  {c \in DOMAIN ranked : c.tag \notin inUse /\ c.key \notin keys}

(* The candidates that may take a slot; Replacement is the best of them.   *)
Allowed(ranked, inUse, keys, quarantine) ==
  {c \in DOMAIN ranked : c.tag \notin inUse /\ c.key \notin keys /\ Pair(c) \notin quarantine}

(* c's metric is lower than a's by at least margin %: the first metric of  *)
(* the strategy that both have.                                            *)
Beats(c, a, strategy, margin) ==
  LET Both(f) == c[f] # None /\ a[f] # None
      Lower(f) == c[f] < a[f] /\ c[f] * 100 <= a[f] * (100 - margin)
      order == IF strategy = "load" THEN <<"load", "score">> ELSE <<"score", "load">>
  IN  \E i \in {1, 2} : Both(order[i]) /\ Lower(order[i]) /\ \A j \in 1..i-1 : ~Both(order[j])

(* The candidates that compete with the active candidate a: never another  *)
(* transport of its own key, and of every other masque key only the first  *)
(* line.                                                                   *)
Rivals(a, ranked, inUse, keys, quarantine) ==
  LET open == {c \in Allowed(ranked, inUse, keys, quarantine) : c.key = a.key => c.transport = a.transport}
  IN  {c \in open : c.transport = 0 \/ c \in Firsts(open, ranked)}

-----------------------------------------------------------------------------
(* Decide.                                                                 *)

Keep == 0        \* the action for a slot: Keep, Drop (Remove in the code) or the tag to put there
Drop == -1

NoSeries == [k \in {} |-> 0]

Present(ranked) == {c.tag : c \in DOMAIN ranked}
ByTag(t, ranked) == CHOOSE c \in DOMAIN ranked : c.tag = t
KeysOf(c, S) == {x.key : x \in {y \in c : y.tag \in S}}

(* What Decide knows before its first slot; active are the tags in slots.  *)
Start(active, ranked) ==
  [acts   |-> [t \in active |-> Keep],
   inUse  |-> active,
   keys   |-> KeysOf(DOMAIN ranked, active),
   series |-> NoSeries]

(* take: candidate c gets the slot of tunnel t.                            *)
Take(s, t, c) ==
  [acts   |-> [s.acts EXCEPT ![t] = c.tag],
   inUse  |-> s.inUse \cup {c.tag},
   keys   |-> s.keys \cup {c.key},
   series |-> s.series]

(* A candidate that left the file is replaced, else removed.               *)
Gone(s, t, ranked, quarantine) ==
  LET free == Allowed(ranked, s.inUse, s.keys, quarantine) IN
  IF t \in Present(ranked) THEN s
  ELSE IF free # {} THEN Take(s, t, Best(free, ranked))
  ELSE [s EXCEPT !.acts[t] = Drop]

(* A healthy one is switched once a rival was better often enough; better  *)
(* counts the series per <<active tag, candidate tag>>.                    *)
Switch(s, t, ranked, quarantine, better, cfg) ==
  LET a == ByTag(t, ranked)
      others == s.keys \ {a.key}
      rivals == {c \in Rivals(a, ranked, s.inUse, others, quarantine) : Beats(c, a, cfg.strategy, cfg.margin)}
      best == Best(rivals, ranked)
      k == <<t, best.tag>>
      n == 1 + (IF k \in DOMAIN better THEN better[k] ELSE 0)
  IN  IF s.acts[t] # Keep \/ cfg.strategy = "label" \/ rivals = {} THEN s
      ELSE IF n >= cfg.confirm THEN Take([s EXCEPT !.keys = others], t, best)
      ELSE [s EXCEPT !.series = [j \in DOMAIN @ \cup {k} |-> IF j = k THEN n ELSE @[j]]]

(* The i-th turn of the two loops over the slots 1..last; slot maps every  *)
(* active tag to its slot.                                                 *)
Turn(s, i, slot, last, healthy, ranked, quarantine, better, cfg) ==
  LET here == {t \in DOMAIN slot : slot[t] = IF i <= last THEN i ELSE i - last}
      t == CHOOSE u \in here : TRUE
  IN  IF here = {} THEN s
      ELSE IF i <= last THEN Gone(s, t, ranked, quarantine)
      ELSE IF t \in healthy THEN Switch(s, t, ranked, quarantine, better, cfg)
      ELSE s

(* The action for every active tag, and the next better (series).          *)
Decide(slot, last, healthy, ranked, quarantine, better, cfg) ==
  LET after[i \in 0..2 * last] ==
        IF i = 0 THEN Start(DOMAIN slot, ranked)
        ELSE Turn(after[i - 1], i, slot, last, healthy, ranked, quarantine, better, cfg)
  IN  after[2 * last]
=============================================================================
