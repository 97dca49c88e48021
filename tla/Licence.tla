-------------------------------- MODULE Licence --------------------------------
(***************************************************************************)
(* The self-hosted licence: the periodic check-in and the gate that reads  *)
(* what it stored (src/backend-rs/src/license.rs, spawn_license_checkin in *)
(* loops.rs).                                                              *)
(*                                                                         *)
(* A check-in asks the service once and writes its verdict as separate     *)
(* Setting rows, one statement each, whose failures are ignored.  The gate *)
(* reads them without a transaction: a reachable answer is trusted as it   *)
(* stands; otherwise the grace window counts from the last valid one.  The *)
(* process may stop between any two writes; a fresh one checks in first    *)
(* thing.                                                                  *)
(***************************************************************************)
EXTENDS Integers, Sequences

CONSTANTS GraceHours,     \* GRACE_HOURS
          CheckEvery,     \* the interval between check-ins
          MaxLicenceTime, MaxLostWrites, MaxStops

ASSUME LicenceAssumption ==
  /\ GraceHours \in Nat /\ CheckEvery \in Nat /\ CheckEvery < GraceHours
  /\ MaxLicenceTime \in Nat /\ MaxLostWrites \in Nat /\ MaxStops \in Nat

VARIABLES stored,      \* the Setting rows
          writes,      \* the check-in's writes still to come
          checkin,     \* "sleeping", "asking" or "writing"
          nextCheck,   \* when the loop wakes
          licensed,    \* whether the service holds the licence valid (external)
          licenceTime,
          lastYes,     \* when the service last answered "valid"
          lastAnswer,  \* the last check-in's result: "none", "yes", "no", "unreachable"
          lastReached, \* the last answer that did arrive
          settled,     \* a check-in has ended since the process started
          lostWrites, stops

licenceVars == <<stored, writes, checkin, nextCheck, licensed, licenceTime,
                 lastYes, lastAnswer, lastReached, settled, lostWrites, stops>>

Unset == -1
EmptySettings == [reachable |-> "unset", valid |-> "unset", sync |-> "unset", okAt |-> Unset]

\* is_sentinel_licensed with a key configured, and is_sync_enabled.
IsSentinelLicensed ==
  IF stored.reachable = "true" THEN stored.valid = "true"
  ELSE stored.okAt # Unset /\ licenceTime - stored.okAt <= GraceHours
IsSyncEnabled == IsSentinelLicensed /\ stored.sync = "true"

LicenceInit ==
  /\ stored = EmptySettings
  /\ writes = <<>> /\ checkin = "sleeping" /\ nextCheck = 0
  /\ licensed \in BOOLEAN
  /\ licenceTime = 0
  /\ lastYes = -1 - GraceHours
  /\ lastAnswer = "none" /\ lastReached = "none"
  /\ settled = FALSE
  /\ lostWrites = 0 /\ stops = 0

BeginCheckIn ==
  /\ checkin = "sleeping" /\ licenceTime >= nextCheck
  /\ checkin' = "asking"
  /\ UNCHANGED <<stored, writes, nextCheck, licensed, licenceTime, lastYes,
                 lastAnswer, lastReached, settled, lostWrites, stops>>

BoolStr(b) == IF b THEN "true" ELSE "false"

\* Mutant: every answer that arrives is stamped as a valid one.
Verdict_StampsAlways(valid, sync) ==
  <<[key |-> "reachable", value |-> "true"],
    [key |-> "valid", value |-> BoolStr(valid)],
    [key |-> "sync", value |-> BoolStr(valid /\ sync)],
    [key |-> "okAt", value |-> licenceTime]>>

\* What check_in writes, in its order, for an answer that arrived and for one
\* that did not.  sync is false whenever the licence is not valid.
Verdict(valid, sync) ==
  <<[key |-> "reachable", value |-> "true"],
    [key |-> "valid", value |-> BoolStr(valid)],
    [key |-> "sync", value |-> BoolStr(valid /\ sync)]>>
  \o (IF valid THEN <<[key |-> "okAt", value |-> licenceTime]>> ELSE <<>>)
Unreachable == <<[key |-> "reachable", value |-> "false"]>>

ServiceAnswers(sync) ==
  /\ checkin = "asking"
  /\ checkin' = "writing"
  /\ writes' = Verdict(licensed, sync)
  /\ lastYes' = IF licensed THEN licenceTime ELSE lastYes
  /\ lastAnswer' = IF licensed THEN "yes" ELSE "no"
  /\ lastReached' = lastAnswer'
  /\ UNCHANGED <<stored, nextCheck, licensed, licenceTime, settled, lostWrites, stops>>

\* A network failure, an error status and a malformed body are one branch.
ServiceUnreachable ==
  /\ checkin = "asking"
  /\ checkin' = "writing"
  /\ writes' = Unreachable
  /\ lastAnswer' = "unreachable"
  /\ UNCHANGED <<stored, nextCheck, licensed, licenceTime, lastYes, lastReached,
                 settled, lostWrites, stops>>

\* settings::set(...).ok(): a failed write is skipped and the rest go on.
WriteVerdict(succeeds) ==
  /\ checkin = "writing" /\ writes # <<>>
  /\ succeeds \/ lostWrites < MaxLostWrites
  /\ stored' = IF succeeds THEN [stored EXCEPT ![Head(writes).key] = Head(writes).value]
               ELSE stored
  /\ lostWrites' = IF succeeds THEN lostWrites ELSE lostWrites + 1
  /\ writes' = Tail(writes)
  /\ UNCHANGED <<checkin, nextCheck, licensed, licenceTime, lastYes, lastAnswer,
                 lastReached, settled, stops>>

EndCheckIn ==
  /\ checkin = "writing" /\ writes = <<>>
  /\ checkin' = "sleeping"
  /\ nextCheck' = licenceTime + CheckEvery
  /\ settled' = TRUE
  /\ UNCHANGED <<stored, writes, licensed, licenceTime, lastYes, lastAnswer,
                 lastReached, lostWrites, stops>>

\* The process stops where it is and starts again, some time later.
LicenceRestart(down) ==
  /\ stops < MaxStops /\ licenceTime + down <= MaxLicenceTime
  /\ stops' = stops + 1
  /\ licenceTime' = licenceTime + down
  /\ checkin' = "sleeping" /\ writes' = <<>> /\ nextCheck' = licenceTime'
  /\ settled' = FALSE
  /\ UNCHANGED <<stored, licensed, lastYes, lastAnswer, lastReached, lostWrites>>

\* The customer buys, cancels or is refunded (external).
ChangeLicence ==
  /\ licensed' = ~licensed
  /\ UNCHANGED <<stored, writes, checkin, nextCheck, licenceTime, lastYes,
                 lastAnswer, lastReached, settled, lostWrites, stops>>

\* A check-in is bounded by its request's timeout, well under a tick.
LicenceTick ==
  /\ licenceTime < MaxLicenceTime
  /\ checkin = "sleeping" /\ licenceTime < nextCheck
  /\ licenceTime' = licenceTime + 1
  /\ UNCHANGED <<stored, writes, checkin, nextCheck, licensed, lastYes, lastAnswer,
                 lastReached, settled, lostWrites, stops>>

LicenceNext ==
  \/ BeginCheckIn \/ ServiceUnreachable \/ EndCheckIn \/ ChangeLicence \/ LicenceTick
  \/ \E b \in BOOLEAN : ServiceAnswers(b) \/ WriteVerdict(b)
  \/ \E d \in 0 .. GraceHours + 1 : LicenceRestart(d)

LicenceSpec == LicenceInit /\ [][LicenceNext]_licenceVars

-----------------------------------------------------------------------------

\* Nobody keeps Sentinel on a stale "yes": once a check-in has ended since the
\* process started, the gate is open only within the grace window of the last
\* answer that said "valid" -- whatever order check-ins failed and succeeded
\* in, and wherever the process stopped.
GraceBounded ==
  lostWrites = 0 /\ settled /\ checkin = "sleeping" /\ IsSentinelLicensed
     => licenceTime - lastYes <= GraceHours

\* An answer of "invalid" closes the gate as soon as its check-in has ended,
\* with no grace (state 4), and data sync with it.
InvalidClosesAtOnce ==
  lostWrites = 0 /\ lastAnswer = "no" /\ checkin = "sleeping" /\ settled
     => ~IsSentinelLicensed /\ ~IsSyncEnabled

\* What the module header promises of a fresh "no": it is never outweighed by
\* a stale "yes" once check-ins start failing.
RevokedStaysClosed ==
  lastReached = "no" /\ checkin = "sleeping" /\ settled => ~IsSentinelLicensed
==============================================================================
