-------------------------------- MODULE Xray --------------------------------
(***************************************************************************)
(* The Xray API as scd uses it: the resources of ONE source on ONE target. *)
(*                                                                         *)
(* Xray itself is outside the repository.  The six calls below follow the  *)
(* contract of internal/scd/xrayapi/client.go (a duplicate outbound,       *)
(* inbound or ruleTag is refused; removing an unknown outbound or rule     *)
(* succeeds, removing an unknown inbound fails).  Every call may also fail *)
(* in the two ways the client cannot tell apart: refused (not executed),   *)
(* or lost (executed, but the deadline passed before the answer).  A       *)
(* restart of Xray drops every resource that was added through the API.    *)
(*                                                                         *)
(* A tunnel t is a base tunnel id; its two possible outbound tags are      *)
(* <<t, "obs">> (with the observatory prefix: in the balancer) and         *)
(* <<t, "bare">> (without).  Tunnels are numbered in tag order; ports are  *)
(* numbered from the start of the source's portRange, 0 being no port.     *)
(***************************************************************************)
EXTENDS Integers, FiniteSets

CONSTANTS
  N,           \* number of tunnel ids of the source
  Refusable,   \* calls that may fail without being executed
  Losable,     \* calls that may be executed and still report a failure
  Restarts,    \* the programs that may restart
  MaxFaults    \* bound on failed calls and restarts

Calls == {"Dial", "List", "AddOutbound", "RemoveOutbound",
          "AddInbound", "RemoveInbound", "AddRule", "RemoveRule"}

ASSUME XrayAssumption ==
  /\ N \in Nat \ {0}
  /\ Refusable \subseteq Calls
  /\ Losable \subseteq Calls \ {"Dial", "List"}
  /\ Restarts \subseteq {"xray", "scd"}
  /\ MaxFaults \in Nat

VARIABLES
  outs,    \* outbound tags of the source in Xray
  ins,     \* ins[t]: the port of inbound in-t, 0 when Xray has none
  rules,   \* rules[t]: the outbound variant rule route-t points to, or "none"
  faults   \* failed calls and restarts so far

xrayVars == <<outs, ins, rules, faults>>

Tunnels == 1..N
Variants == {"obs", "bare"}
Tags == Tunnels \X Variants
Ports == 1..N
NoPorts == [t \in Tunnels |-> 0]

XrayTypeOK ==
  /\ outs \subseteq Tags
  /\ ins \in [Tunnels -> Ports \cup {0}]
  /\ rules \in [Tunnels -> Variants \cup {"none"}]
  /\ faults \in 0..MaxFaults

XrayInit ==
  /\ outs = {}
  /\ ins = NoPorts
  /\ rules = [t \in Tunnels |-> "none"]
  /\ faults = 0

(* Traffic that enters the tunnel's inbound reaches its server.            *)
Routed(t) == ins[t] # 0 /\ rules[t] # "none" /\ <<t, rules[t]>> \in outs

-----------------------------------------------------------------------------
(* A call that answers, is refused or whose answer is lost.                *)

Fault == faults < MaxFaults /\ faults' = faults + 1
Answered == UNCHANGED faults
Refused(call) == call \in Refusable /\ Fault
Lost(call) == call \in Losable /\ Fault

(* Creating the client, and the three List calls: no effect on Xray.       *)
Read(call, ok) ==
  /\ IF ok THEN Answered ELSE Refused(call)
  /\ UNCHANGED <<outs, ins, rules>>

AddOutbound(tag, ok) ==
  /\ \/ ok /\ tag \notin outs /\ Answered /\ outs' = outs \cup {tag}
     \/ ~ok /\ tag \in outs /\ Answered /\ outs' = outs
     \/ ~ok /\ Refused("AddOutbound") /\ outs' = outs
     \/ ~ok /\ Lost("AddOutbound") /\ outs' = outs \cup {tag}
  /\ UNCHANGED <<ins, rules>>

RemoveOutbound(tag, ok) ==
  /\ \/ ok /\ Answered /\ outs' = outs \ {tag}
     \/ ~ok /\ Refused("RemoveOutbound") /\ outs' = outs
     \/ ~ok /\ Lost("RemoveOutbound") /\ outs' = outs \ {tag}
  /\ UNCHANGED <<ins, rules>>

AddInbound(t, port, ok) ==
  /\ \/ ok /\ ins[t] = 0 /\ Answered /\ ins' = [ins EXCEPT ![t] = port]
     \/ ~ok /\ ins[t] # 0 /\ Answered /\ ins' = ins
     \/ ~ok /\ Refused("AddInbound") /\ ins' = ins
     \/ /\ ~ok /\ Lost("AddInbound")
        /\ ins' = [ins EXCEPT ![t] = IF @ = 0 THEN port ELSE @]
  /\ UNCHANGED <<outs, rules>>

RemoveInbound(t, ok) ==
  /\ \/ ok /\ ins[t] # 0 /\ Answered /\ ins' = [ins EXCEPT ![t] = 0]
     \/ ~ok /\ ins[t] = 0 /\ Answered /\ ins' = ins
     \/ ~ok /\ Refused("RemoveInbound") /\ ins' = ins
     \/ ~ok /\ Lost("RemoveInbound") /\ ins' = [ins EXCEPT ![t] = 0]
  /\ UNCHANGED <<outs, rules>>

(* A rule with the same ruleTag is refused, whatever it points to.         *)
AddRule(t, v, ok) ==
  /\ \/ ok /\ rules[t] = "none" /\ Answered /\ rules' = [rules EXCEPT ![t] = v]
     \/ ~ok /\ rules[t] # "none" /\ Answered /\ rules' = rules
     \/ ~ok /\ Refused("AddRule") /\ rules' = rules
     \/ /\ ~ok /\ Lost("AddRule")
        /\ rules' = [rules EXCEPT ![t] = IF @ = "none" THEN v ELSE @]
  /\ UNCHANGED <<outs, ins>>

RemoveRule(t, ok) ==
  /\ \/ ok /\ Answered /\ rules' = [rules EXCEPT ![t] = "none"]
     \/ ~ok /\ Refused("RemoveRule") /\ rules' = rules
     \/ ~ok /\ Lost("RemoveRule") /\ rules' = [rules EXCEPT ![t] = "none"]
  /\ UNCHANGED <<outs, ins>>

RestartXray ==
  /\ "xray" \in Restarts
  /\ Fault
  /\ outs' = {}
  /\ ins' = NoPorts
  /\ rules' = [t \in Tunnels |-> "none"]
=============================================================================
