-------------------------------- MODULE MCSync --------------------------------
(***************************************************************************)
(* Instance of SyncRun: two sources "a" and "c" (or "a-b", which the rules *)
(* refuse) with every choice of dependencies between them, a dialer, a     *)
(* fixed tag inside the namespace of "a", a disabled source, and a second  *)
(* subscription whose balancer "a" may depend on.                          *)
(***************************************************************************)
EXTENDS StatusView

Dep(source) == [source |-> source, balancer |-> "", sub |-> ""]
Fixed(out) == [k \in Kinds |-> IF k = "outbound" THEN out ELSE {}]

Second(id, enabled, deps) ==
  [id |-> id, enabled |-> enabled, maxActive |-> 1, ports |-> <<21, 22>>,
   type |-> "vless", format |-> "auto", maxBytes |-> 9, insecure |-> FALSE, countries |-> {}, labels |-> {},
   balancer |-> "y", dialer |-> <<>>, deps |-> deps]
First(dialer, deps) ==
  [id |-> <<"a">>, enabled |-> TRUE, maxActive |-> 1, ports |-> <<11, 12>>,
   type |-> "vless", format |-> "plain", maxBytes |-> 0, insecure |-> TRUE, countries |-> {"de"}, labels |-> {"L"},
   balancer |-> "x", dialer |-> dialer, deps |-> deps]

Main(id, enabled, da, db, dialer, fixed) ==
  [id |-> "m", enabled |-> TRUE, address |-> 1, socks |-> TRUE, obs |-> <<"obs">>,
   fixed |-> Fixed(fixed), balancers |-> <<>>,
   sources |-> <<First(dialer, da), Second(id, enabled, db)>>]

Other == [id |-> "o", enabled |-> TRUE, address |-> 2, socks |-> TRUE, obs |-> <<>>,
          fixed |-> Fixed({}), balancers |-> <<[tag |-> "z", selection |-> TRUE]>>,
          sources |-> <<>>]
Cross == [source |-> <<>>, balancer |-> "z", sub |-> "o"]

MCConfigs ==
  {[subs |-> <<Main(id, enabled, da, db, dialer, fixed)>> \o other, kinds |-> Kinds] :
     id \in {<<"c">>, <<"a", "b">>}, enabled \in BOOLEAN, other \in {<<>>, <<Other>>},
     da \in {<<>>, <<Dep(<<"c">>)>>, <<Cross>>}, db \in {<<>>, <<Dep(<<"a">>)>>},
     dialer \in {<<>>, <<"d">>}, fixed \in {{<<"d">>}, {<<"d">>, <<"a", "d">>}}}

Link(tag, fault) ==
  [scheme |-> "vless", tag |-> tag, fault |-> fault, country |-> "de", label |-> "L"]
TextOf(size, encoded, lines) == [size |-> size, encoded |-> encoded, lines |-> lines]

(* A tunnel; two with noise, which source "c" reads as one; base64, which  *)
(* only "c" reads; and nothing usable, which "c" finds too large.          *)
MCTexts ==
  <<TextOf(1, FALSE, <<Link("1", "")>>),
    TextOf(4, FALSE, <<Link("1", ""), Link("1", ""), Link("3", "invalid_uri"), Link("2", "insecure")>>),
    TextOf(2, TRUE, <<Link("2", "")>>),
    TextOf(10, FALSE, <<[Link("1", "") EXCEPT !.scheme = "other"]>>)>>
=============================================================================
