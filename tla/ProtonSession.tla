---------------------------- MODULE ProtonSession ----------------------------
(***************************************************************************)
(* The session of the Proton provider (internal/wgp/provider/proton,       *)
(* session.go): several calls at once (the requests after a login), each   *)
(* of which refreshes the session on a 401 and repeats itself.  A refresh  *)
(* replaces both tokens, so the tokens are one number, and only the latest *)
(* refresh token is valid.  The mutex guards the session in memory.        *)
(***************************************************************************)
EXTENDS Integers

CONSTANTS
  Callers,      \* the concurrent calls
  MaxExpiries,  \* bound on how often the access token expires
  Mishaps,      \* what may go wrong: "lost" (the answer of a refresh), "busy"
                \* (5xx, network), "save", "crash"
  MaxMishaps    \* bound on their number

NoOne == "no one"
NoSession == 0   \* no session in memory

ASSUME SessionAssumption ==
  /\ MaxExpiries \in Nat /\ MaxMishaps \in Nat
  /\ NoOne \notin Callers

VARIABLES
  api,       \* API: the number of the valid tokens
  expired,   \* API: the access token of api does not work any more
  expiries,  \* how often that happened
  refreshes, \* history: how often the API refreshed the session
  mishaps,   \* how many things went wrong so far
  record,    \* the session in the state record
  sess,      \* Proton.sess
  dead,      \* Proton.dead
  mu,        \* Proton.mu
  step, tk   \* of each call: the next step, and the tokens it uses

sessionVars == <<api, expired, expiries, refreshes, mishaps, record, sess, dead, mu, step, tk>>

SessionInit ==
  /\ api = 1 /\ expired = FALSE /\ expiries = 0 /\ refreshes = 0 /\ mishaps = 0
  /\ record = 1 /\ sess = NoSession /\ dead = FALSE
  /\ mu = NoOne
  /\ step = [c \in Callers |-> "idle"] /\ tk = [c \in Callers |-> NoSession]

Mishap(f) == f \in Mishaps /\ mishaps < MaxMishaps /\ mishaps' = mishaps + 1
Go(c, label) == step' = [step EXCEPT ![c] = label]
Use(c, t) == tk' = [tk EXCEPT ![c] = t]
Done(c) == Go(c, "idle") /\ Use(c, NoSession)

tokenVars == <<api, expired, expiries, refreshes>>

(* session: the tokens in memory, loaded on first use.  The lock is taken  *)
(* and released in one step: nothing waits inside.                         *)
Session(c) ==
  /\ step[c] = "idle" /\ mu = NoOne
  /\ IF dead THEN Done(c) /\ UNCHANGED sess
     ELSE /\ sess' = IF sess = NoSession THEN record ELSE sess
          /\ Use(c, sess')
          /\ Go(c, "send")
  /\ UNCHANGED <<tokenVars, mishaps, record, dead, mu>>

Accepted(t) == t = api /\ ~expired

(* The call with its tokens; a 401 refreshes once and repeats it.          *)
Send(c) ==
  /\ step[c] = "send"
  /\ IF Accepted(tk[c]) THEN Done(c) ELSE Go(c, "lock") /\ UNCHANGED tk
  /\ UNCHANGED <<tokenVars, mishaps, record, sess, dead, mu>>

Resend(c) ==
  /\ step[c] = "resend"
  /\ Done(c)
  /\ UNCHANGED <<tokenVars, mishaps, record, sess, dead, mu>>

Take(c) == mu = NoOne /\ mu' = c

(* Mutant: a token that another call replaced is refreshed again.          *)
NeverReplaced(c) == FALSE

(* Another call already replaced the tokens of this one.                   *)
Replaced(c) == sess # tk[c]

RefreshBegin(c) ==
  /\ step[c] = "lock"
  /\ \/ dead /\ mu = NoOne /\ Done(c) /\ UNCHANGED mu
     \/ ~dead /\ Replaced(c) /\ mu = NoOne /\ Use(c, sess) /\ Go(c, "resend") /\ UNCHANGED mu
     \/ ~dead /\ ~Replaced(c) /\ Take(c) /\ Go(c, "refresh") /\ UNCHANGED tk
  /\ UNCHANGED <<tokenVars, mishaps, record, sess, dead>>

Refreshed == api' = api + 1 /\ expired' = FALSE /\ refreshes' = refreshes + 1

(* POST /auth/refresh with the refresh token in memory.                    *)
Refresh(c) ==
  /\ step[c] = "refresh"
  /\ \/ sess = api /\ Refreshed /\ Go(c, "save") /\ UNCHANGED <<mishaps, dead, tk, mu>>
     \/ sess # api /\ dead' = TRUE /\ Done(c) /\ mu' = NoOne /\ UNCHANGED <<mishaps, api, expired, refreshes>>
     \/ /\ (sess = api /\ Mishap("lost") /\ Refreshed) \/ (Mishap("busy") /\ UNCHANGED <<api, expired, refreshes>>)
        /\ Done(c) /\ mu' = NoOne
        /\ UNCHANGED dead
  /\ UNCHANGED <<expiries, record, sess>>

(* Mutant: the new tokens are used before they are saved.                  *)
SessionUnsaved == sess' = api /\ UNCHANGED record

SessionSaved == sess' = api /\ record' = api

(* saveSession, then Proton.sess; a failed save may have been written.     *)
RefreshSave(c) ==
  /\ step[c] = "save"
  /\ \/ SessionSaved /\ Use(c, api) /\ Go(c, "resend") /\ UNCHANGED mishaps
     \/ Mishap("save") /\ record' \in {record, api} /\ UNCHANGED sess /\ Done(c)
  /\ mu' = NoOne
  /\ UNCHANGED <<tokenVars, dead>>

Call(c) == Session(c) \/ Send(c) \/ Resend(c) \/ RefreshBegin(c) \/ Refresh(c) \/ RefreshSave(c)

(* The access token expires; a restart between two calls or in one.        *)
Expire ==
  /\ ~expired /\ expiries < MaxExpiries
  /\ expired' = TRUE /\ expiries' = expiries + 1
  /\ UNCHANGED <<api, refreshes, mishaps, record, sess, dead, mu, step, tk>>

Restart ==
  /\ Mishap("crash")
  /\ sess' = NoSession /\ dead' = FALSE /\ mu' = NoOne
  /\ step' = [c \in Callers |-> "idle"] /\ tk' = [c \in Callers |-> NoSession]
  /\ UNCHANGED <<tokenVars, record>>

SessionNext == (\E c \in Callers : Call(c)) \/ Expire \/ Restart

SessionSpec == SessionInit /\ [][SessionNext]_sessionVars

-----------------------------------------------------------------------------
(* Properties.                                                             *)

(* session.go:83-84 "one refresh for all concurrent 401s of the same       *)
(* token": the API renews the tokens at most once per expiry, whatever     *)
(* answers and saves fail, also across restarts.                           *)
OneRefreshPerExpiry == refreshes <= expiries

(* session.go:131 "The rotated tokens are saved before they are used": a   *)
(* restart can go on with every session that a call used, unless its       *)
(* refresh is under way.                                                   *)
SavedBeforeUsed ==
  /\ \A c \in Callers : tk[c] <= record
  /\ mishaps = 0 /\ (\A c \in Callers : step[c] # "save") => record = api

(* Concurrent calls never get the session rejected by refreshing with a    *)
(* token that another one has used up.                                     *)
RejectedOnlyByMishap == dead => mishaps > 0
=============================================================================
