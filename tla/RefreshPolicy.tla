--------------------------- MODULE RefreshPolicy ---------------------------
(***************************************************************************)
(* When a sync resource is refreshed: pkg/akeyless/sync/refresh.go.        *)
(*                                                                         *)
(* A time is a number of half seconds since an origin, 0 being Go's zero   *)
(* time.  Half seconds are enough to tell a time from the same time after  *)
(* it was stored: metav1.Time and RFC 3339 keep whole seconds, so Stored   *)
(* drops the odd half second.                                              *)
(***************************************************************************)
EXTENDS Integers, FiniteSets

CONSTANTS PollInterval,        \* the default of the polling policies (5 minutes)
          DefaultSyncInterval  \* the default of the other policies (1 hour)

ASSUME IntervalAssumption ==
    /\ PollInterval \in Nat \ {0}
    /\ DefaultSyncInterval \in Nat \ {0}

ZeroTime == 0

\* The force-sync annotation: absent, not an RFC 3339 time, or a stored time.
NoAnnotation == 0
Unparsable == -1

\* No entry for a key in a map.
None == -1

SyncPolicies ==
    {"CreatedOnce", "Periodic", "OnSpecChange", "OnRemoteChange", "OnWebhook"}

Second == 2

\* A time as metav1.Time and time.RFC3339 write it: whole seconds.
Stored(t) == t - (t % Second)

\* The empty policy is OnRemoteChange.
NormalizedPolicy(cfg) ==
    IF cfg.policy = "" THEN "OnRemoteChange" ELSE cfg.policy

PollsVersions(policy) == policy \in {"OnRemoteChange", "OnWebhook"}

\* cfg.syncInterval is 0 when spec.syncInterval is nil or not positive.
Interval(cfg) ==
    IF cfg.syncInterval > 0 THEN cfg.syncInterval
    ELSE IF cfg.defaultPoll > 0 THEN cfg.defaultPoll
    ELSE IF PollsVersions(NormalizedPolicy(cfg)) THEN PollInterval
    ELSE DefaultSyncInterval

\* A request to sync at once is pending while its time is later than the last
\* refresh; one that cannot be parsed is always pending.
ForceSyncPending(force, refresh) ==
    \/ force = Unparsable
    \/ force > NoAnnotation /\ (refresh = ZeroTime \/ force > refresh)

NeverSynced(cfg) == cfg.synced = 0 \/ cfg.refresh = ZeroTime

\* Mutant: the interval is left to the version check.
ShouldSyncUnlessSynced(cfg, now) ==
    NeverSynced(cfg) \/ cfg.synced # cfg.gen \/ cfg.refresh > now

ShouldSyncPeriodic(cfg, now) ==
    \/ NeverSynced(cfg)
    \/ cfg.synced # cfg.gen
    \/ cfg.refresh > now
    \/ cfg.refresh + Interval(cfg) < now

ShouldSync(cfg, now) ==
    \/ /\ ForceSyncPending(cfg.force, cfg.refresh)
       /\ cfg.policy # "CreatedOnce"
    \/ CASE NormalizedPolicy(cfg) = "CreatedOnce"  -> NeverSynced(cfg)
         [] NormalizedPolicy(cfg) = "OnSpecChange" -> cfg.synced # cfg.gen
         [] OTHER                                  -> ShouldSyncPeriodic(cfg, now)

\* Mutant: a refresh that is overdue gives a negative delay.
RequeueAfterUnguarded(cfg, now) ==
    IF cfg.refresh = ZeroTime
      THEN Interval(cfg) ELSE cfg.refresh + Interval(cfg) - now

RequeueAfter(cfg, now) ==
    LET next == cfg.refresh + Interval(cfg)
    IN  IF cfg.refresh # ZeroTime /\ next - now > 0
          THEN next - now
          ELSE Interval(cfg)

\* current and observed map every key to a version, or to None where the Go
\* map has no entry; reading a missing entry of a Go map gives 0.
Entries(m) == {k \in DOMAIN m : m[k] # None}

Lookup(m, k) == IF m[k] = None THEN 0 ELSE m[k]

RemoteVersionsChanged(current, observed) ==
    \/ Cardinality(Entries(current)) # Cardinality(Entries(observed))
    \/ \E k \in Entries(current) : Lookup(observed, k) # current[k]
=============================================================================
