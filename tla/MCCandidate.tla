----------------------------- MODULE MCCandidate -----------------------------
(* CandidateSource on small instances.                                     *)
EXTENDS CandidateSource

C(tag, key, transport, score) ==
  [tag |-> tag, key |-> key, endpoint |-> tag, transport |-> transport,
   score |-> score, load |-> None, label |-> 0, priority |-> transport]

(* Candidates 1 and 3 are two endpoints of one wireguard key, 3 the better *)
(* one; the file may lose candidate 1, also while it replaces 3.           *)
SharedKey == {{C(1, 1, 0, 20), C(2, 2, 0, 30), C(3, 1, 0, 10)},
              {C(2, 2, 0, 20), C(3, 1, 0, 30)}}

(* One slot and a spare, which is left alone for a while; or the file is   *)
(* empty (a provider without a live candidate), and the slot is emptied.   *)
Two == {{C(1, 1, 0, 10), C(2, 2, 0, 20)}, {C(2, 2, 0, 20)}, {}}

(* The two candidates of one slot change places.                           *)
Swap == {{C(1, 1, 0, 10), C(2, 2, 0, 20)}, {C(1, 1, 0, 20), C(2, 2, 0, 10)}}

ByScore == [strategy |-> "score", margin |-> 20, confirm |-> 2]
=============================================================================
