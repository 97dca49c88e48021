----------------------------- MODULE LocalSession -----------------------------
(***************************************************************************)
(* Sessions of a self-hosted install: the local admin's login, the token   *)
(* it issues and the refresh that replaces it                              *)
(* (src/backend-rs/src/api/local_auth.rs, auth/local.rs, and the local arm *)
(* of Authenticator in auth.rs).                                           *)
(*                                                                         *)
(* A token is signed with APP_SECRET_KEY and carries an expiry; nothing is *)
(* stored, so nothing can be revoked: changing the secret is the only way  *)
(* to end a session early.  A token is valid until its expiry plus the     *)
(* clock leeway the JWT library allows.  A refresh checks the old token    *)
(* and issues a new one whatever its age, so a session lasts while it is   *)
(* used.                                                                   *)
(***************************************************************************)
EXTENDS Integers, FiniteSets

CONSTANTS Secrets,       \* values APP_SECRET_KEY may take, "" among them: unset
          TokenTTL, JwtLeeway, MaxLocalTime

NoSecret == ""

ASSUME LocalAssumption ==
  /\ NoSecret \in Secrets /\ TokenTTL \in Nat /\ JwtLeeway \in Nat /\ MaxLocalTime \in Nat

VARIABLES secret,      \* the running configuration's APP_SECRET_KEY
          tokens,      \* tokens browsers hold
          accepted,    \* a token the last request was let in with, or none
          lastPassword,\* when each secret last saw the right password
          lastIssue,   \* when each secret last signed a token
          localTime

localVars == <<secret, tokens, accepted, lastPassword, lastIssue, localTime>>

NeverIssued == -1 - TokenTTL - JwtLeeway

\* verify_token: a secret is set, the signature is by it, and the expiry is
\* not past by more than the leeway.
ValidToken(t) == secret # NoSecret /\ t.key = secret /\ t.exp >= localTime - JwtLeeway

\* issue_token, for the configured organization.
NewToken == [key |-> secret, exp |-> localTime + TokenTTL]

LocalInit ==
  /\ secret \in Secrets
  /\ tokens = {} /\ accepted = {}
  /\ lastPassword = [s \in Secrets |-> NeverIssued]
  /\ lastIssue = [s \in Secrets |-> NeverIssued]
  /\ localTime = 0

\* login: an unconfigured install answers 503, a wrong name or password 401;
\* both leave everything as it is, so only the accepted one is a step.
LoginLocal ==
  /\ secret # NoSecret
  /\ tokens' = tokens \cup {NewToken}
  /\ lastPassword' = [lastPassword EXCEPT ![secret] = localTime]
  /\ lastIssue' = [lastIssue EXCEPT ![secret] = localTime]
  /\ accepted' = {}
  /\ UNCHANGED <<secret, localTime>>

\* refresh: verify, then issue, with no threshold and no revocation.
RefreshLocal(t) ==
  /\ ValidToken(t)
  /\ tokens' = tokens \cup {NewToken}
  /\ lastIssue' = [lastIssue EXCEPT ![secret] = localTime]
  /\ accepted' = {t}
  /\ UNCHANGED <<secret, lastPassword, localTime>>

\* Any authenticated request: the bearer token alone decides.
LocalRequest(t) ==
  /\ accepted' = IF ValidToken(t) THEN {t} ELSE {}
  /\ UNCHANGED <<secret, tokens, lastPassword, lastIssue, localTime>>

\* The operator changes the secret and restarts (external).
ChangeSecret(s) ==
  /\ s # secret
  /\ secret' = s
  /\ accepted' = {}
  /\ UNCHANGED <<tokens, lastPassword, lastIssue, localTime>>

LocalTick ==
  /\ localTime < MaxLocalTime
  /\ localTime' = localTime + 1
  /\ accepted' = {}
  /\ UNCHANGED <<secret, tokens, lastPassword, lastIssue>>

LocalNext ==
  \/ LoginLocal \/ LocalTick
  \/ \E t \in tokens : RefreshLocal(t) \/ LocalRequest(t)
  \/ \E s \in Secrets : ChangeSecret(s)

LocalSpec == LocalInit /\ [][LocalNext]_localVars

-----------------------------------------------------------------------------

\* A session left unused lapses: whoever is let in holds a token signed under
\* the secret in force, within one lifetime (and the leeway) of the last time
\* that secret signed anything, and after a login with the password under it.
SessionsLapse ==
  \A t \in accepted :
    /\ lastPassword[secret] >= 0
    /\ localTime - lastIssue[secret] <= TokenTTL + JwtLeeway
==============================================================================
