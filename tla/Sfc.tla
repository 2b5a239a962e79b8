--------------------------------- MODULE Sfc ---------------------------------
(***************************************************************************)
(* The subscription cache sfc (internal/sfc): a refresher that loads the   *)
(* subscriptions one after another, keeps each decoded source in a cache   *)
(* file and each filtered output in memory, and a server that serves the   *)
(* outputs from memory once the first refresh has run.                     *)
(*                                                                         *)
(* A decoded source is its version and the outputs whose filter matches    *)
(* some line of it; a payload is the version it was built from.  One step  *)
(* is one load, one file operation or one put: requests are served in      *)
(* between, each by one read of the state of its output.                   *)
(***************************************************************************)
EXTENDS Naturals

CONSTANTS
  Subs,        \* number of enabled subscriptions
  OutsEach,    \* number of enabled outputs of each
  MaxEdits,    \* bound on the changes of the upstream sources
  Faults,      \* what may go wrong: "load", "write", "read", "crash"
  MaxFaults    \* bound on their number

ASSUME SfcAssumption ==
  /\ Subs \in Nat \ {0} /\ OutsEach \in Nat \ {0}
  /\ MaxEdits \in Nat /\ MaxFaults \in Nat

Outs == 1..OutsEach
Outputs == (1..Subs) \X Outs
NoFile == [ver |-> 0, match |-> {}]   \* also: nothing loaded
None == 0                             \* LastGoodBase64 = ""

VARIABLES
  up,         \* the upstream source of each subscription
  edits,      \* how often one changed
  faults,     \* how many things went wrong so far
  lossy,      \* history: a cache file could not be written or read
  cache,      \* the cache file of each subscription
  payload,    \* OutputState.LastGood*: the version that is served
  listening,  \* the server accepts requests
  pc, sub, out, in  \* the refresher: its next step, subscription, output
                    \* and the source it builds the outputs from

sfcVars == <<up, edits, faults, lossy, cache, payload, listening, pc, sub, out, in>>
runVars == <<sub, out, in>>

Source(v) == [ver : {v}, match : SUBSET Outs]

SfcInit ==
  /\ up \in [1..Subs -> Source(1)] /\ edits = 0
  /\ faults = 0 /\ lossy = FALSE
  /\ cache = [s \in 1..Subs |-> NoFile]
  /\ payload = [o \in Outputs |-> None]
  /\ listening = FALSE
  /\ pc = "idle" /\ sub = 1 /\ out = 1 /\ in = NoFile

Fault(f) == f \in Faults /\ faults < MaxFaults /\ faults' = faults + 1

-----------------------------------------------------------------------------
(* Run and refreshSubscription.                                            *)

RunStart ==
  /\ pc = "idle"
  /\ pc' = "load" /\ sub' = 1 /\ out' = 1 /\ in' = NoFile
  /\ UNCHANGED <<up, edits, faults, lossy, cache, payload, listening>>

(* Mutant: the cache is used whenever there is one.                        *)
LoadedCacheFirst == IF cache[sub] = NoFile THEN up[sub] ELSE cache[sub]

Loaded == up[sub]

Load ==
  /\ pc = "load"
  /\ \/ in' = Loaded /\ pc' = "write" /\ UNCHANGED faults
     \/ Fault("load") /\ pc' = "read" /\ UNCHANGED in
  /\ UNCHANGED <<up, edits, lossy, cache, payload, listening, sub, out>>

(* Mutant: only a source that every output matches is cached.              *)
KeptIfGood(s) == IF s.match = Outs THEN [cache EXCEPT ![sub] = s] ELSE cache

(* The cache is written before the source is parsed.                       *)
Kept(s) == [cache EXCEPT ![sub] = s]

(* A failed write leaves the file as it was; the refresh goes on.          *)
Write ==
  /\ pc = "write"
  /\ \/ cache' = Kept(in) /\ UNCHANGED <<faults, lossy>>
     \/ Fault("write") /\ lossy' = TRUE /\ UNCHANGED cache
  /\ pc' = "build"
  /\ UNCHANGED <<up, edits, payload, listening, runVars>>

(* The cache in place of a source that failed to load.                     *)
Read ==
  /\ pc = "read"
  /\ \/ /\ cache[sub] # NoFile /\ in' = cache[sub] /\ pc' = "build"
        /\ UNCHANGED <<faults, lossy>>
     \/ /\ cache[sub] = NoFile /\ pc' = "fail"
        /\ UNCHANGED <<faults, lossy, in>>
     \/ /\ cache[sub] # NoFile /\ Fault("read") /\ lossy' = TRUE /\ pc' = "fail"
        /\ UNCHANGED in
  /\ UNCHANGED <<up, edits, cache, payload, listening, sub, out>>

-----------------------------------------------------------------------------
(* The outputs of the subscription, one put each.                          *)

LastSub == sub = Subs

NextOut ==
  IF out < OutsEach THEN out' = out + 1 /\ UNCHANGED <<pc, sub, in, listening>>
  ELSE /\ out' = 1 /\ in' = NoFile
       /\ IF LastSub THEN pc' = "idle" /\ listening' = TRUE /\ sub' = 1
          ELSE pc' = "load" /\ sub' = sub + 1 /\ UNCHANGED listening

(* Mutant: a failed output starts from a new state.                        *)
FailedAnew == payload' = [payload EXCEPT ![<<sub, out>>] = None]

(* fail: the last good payload is kept.                                    *)
Failed == UNCHANGED payload

Succeeded == payload' = [payload EXCEPT ![<<sub, out>>] = in.ver]

Build ==
  /\ pc = "build"
  /\ IF out \in in.match THEN Succeeded ELSE Failed
  /\ NextOut
  /\ UNCHANGED <<up, edits, faults, lossy, cache>>

Fail ==
  /\ pc = "fail"
  /\ Failed
  /\ NextOut
  /\ UNCHANGED <<up, edits, faults, lossy, cache>>

-----------------------------------------------------------------------------
(* The upstream; a crash or a shutdown, which cancels a run, and the next  *)
(* start, which refreshes before it listens.                               *)

Edit ==
  /\ edits < MaxEdits /\ edits' = edits + 1
  /\ \E s \in 1..Subs, new \in Source(edits + 2) : up' = [up EXCEPT ![s] = new]
  /\ UNCHANGED <<faults, lossy, cache, payload, listening, pc, runVars>>

Crash ==
  /\ Fault("crash")
  /\ payload' = [o \in Outputs |-> None] /\ listening' = FALSE
  /\ pc' = "idle" /\ sub' = 1 /\ out' = 1 /\ in' = NoFile
  /\ UNCHANGED <<up, edits, lossy, cache>>

Refresh == RunStart \/ Load \/ Write \/ Read \/ Build \/ Fail

SfcNext == Refresh \/ Edit \/ Crash

(* The refresh schedule goes on, and a load ends by its timeout.           *)
SfcSpec == SfcInit /\ [][SfcNext]_sfcVars /\ WF_sfcVars(Refresh)

-----------------------------------------------------------------------------
(* Properties.                                                             *)

Versions == 0..(MaxEdits + 1)

(* README.md:1082-1085: between two refreshes of a listening server every  *)
(* output that matches its cached source serves exactly that source, so a  *)
(* restart without the upstream serves what was served before: after any   *)
(* failed loads and restarts, as long as the cache files work.           *)
CacheIsServed ==
  pc = "idle" /\ listening /\ ~lossy =>
    \A o \in Outputs : o[2] \in cache[o[1]].match => payload[o] = cache[o[1]].ver

(* README.md:1084-1085 "that output keeps serving its last good payload":  *)
(* while the process runs no output that was served becomes unavailable,   *)
(* and its payload goes back to an older source only if a cache file could *)
(* not be written before.                                                  *)
KeepsServing ==
  [][~Crash => \A o \in Outputs : payload'[o] >= payload[o] \/ (lossy /\ payload'[o] # None)]_sfcVars

(* Once nothing goes wrong any more every output that its source matches   *)
(* serves that source, whatever the other subscriptions and outputs do.    *)
CatchesUp ==
  <>[](\A o \in Outputs : o[2] \in up[o[1]].match => payload[o] = up[o[1]].ver)
=============================================================================
