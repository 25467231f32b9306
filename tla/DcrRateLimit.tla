---------------------------- MODULE DcrRateLimit ----------------------------
(***************************************************************************)
(* The per-address daily budget of dynamic client registration: one row of *)
(* dcr_rate_limit per day, written by every POST /api/register before the  *)
(* body is read (services/dcr-rate-limit.service.ts), and pruned by the    *)
(* cron that starts at midnight (worker.ts).  A request remembers the day  *)
(* it began on and sends two statements: the UPSERT and the SELECT.        *)
(***************************************************************************)
EXTENDS Naturals, FiniteSets

CONSTANTS
    Registrant,     \* requests in flight at the same time
    LimitPerDay,    \* DCR_RATE_LIMIT_PER_DAY
    LastDay,        \* bound of the model: days that pass
    MaxPerDay       \* bound of the model: attempts that begin on one day

ASSUME RegistrantAssumption == IsFiniteSet(Registrant)

ASSUME DayAssumption == LimitPerDay \in Nat /\ LastDay \in Nat /\ MaxPerDay \in Nat

VARIABLES
    today,      \* the date of everybody's clock
    counter,    \* counter[d]: count of the row of day d, 0 when there is none
    attempt,    \* attempt[p]: the statement a request sends next, and its day
    attempts,   \* history: attempts that began on each day
    admitted,   \* history: attempts of each day that were within budget
    turnedAway  \* history: attempts of each day that were answered 429

dcrVars == <<today, counter, attempt, attempts, admitted, turnedAway>>

Day == 0 .. LastDay

DcrTypeOK ==
    /\ today \in Day
    /\ counter \in [Day -> Nat] /\ attempts \in [Day -> 0 .. MaxPerDay]
    /\ admitted \in [Day -> Nat] /\ turnedAway \in [Day -> Nat]
    /\ attempt \in [Registrant -> [pc : {"idle", "upsert", "select"}, day : Day]]

DcrInit ==
    /\ today = 0
    /\ counter = [d \in Day |-> 0] /\ attempts = [d \in Day |-> 0]
    /\ admitted = [d \in Day |-> 0] /\ turnedAway = [d \in Day |-> 0]
    /\ attempt = [p \in Registrant |-> [pc |-> "idle", day |-> 0]]

\* recordAttempt takes the date.
RecordAttempt(p) ==
    /\ attempt[p].pc = "idle" /\ attempts[today] < MaxPerDay
    /\ attempts' = [attempts EXCEPT ![today] = @ + 1]
    /\ attempt' = [attempt EXCEPT ![p] = [pc |-> "upsert", day |-> today]]
    /\ UNCHANGED <<today, counter, admitted, turnedAway>>

\* INSERT ... VALUES (?, ?, 1) ON CONFLICT DO UPDATE SET count = count + 1.
UpsertCounter(p) ==
    /\ attempt[p].pc = "upsert"
    /\ counter' = [counter EXCEPT ![attempt[p].day] = @ + 1]
    /\ attempt' = [attempt EXCEPT ![p].pc = "select"]
    /\ UNCHANGED <<today, attempts, admitted, turnedAway>>

WithinBudget(n) == n <= LimitPerDay

\* The count is read back, 0 when the row has gone meanwhile.
ReadCounter(p) ==
    /\ attempt[p].pc = "select"
    /\ LET d == attempt[p].day
       IN  \/ /\ WithinBudget(counter[d])
              /\ admitted' = [admitted EXCEPT ![d] = @ + 1]
              /\ UNCHANGED turnedAway
           \/ /\ ~ WithinBudget(counter[d])
              /\ turnedAway' = [turnedAway EXCEPT ![d] = @ + 1]
              /\ UNCHANGED admitted
    /\ attempt' = [attempt EXCEPT ![p].pc = "idle"]
    /\ UNCHANGED <<today, counter, attempts>>

\* The request dies; what it has counted stays counted.
RegistrantDies(p) ==
    /\ attempt[p].pc # "idle"
    /\ attempt' = [attempt EXCEPT ![p].pc = "idle"]
    /\ UNCHANGED <<today, counter, attempts, admitted, turnedAway>>

Midnight ==
    /\ today < LastDay
    /\ today' = today + 1
    /\ UNCHANGED <<counter, attempt, attempts, admitted, turnedAway>>

\* Broken variant: the counters of the day that has begun go too.
UpToToday(d) == d <= today

BeforeToday(d) == d < today

\* deleteOlderThan, whenever the cron gets to it.
PruneCounters ==
    /\ \E d \in Day : BeforeToday(d) /\ counter[d] > 0
    /\ counter' = [d \in Day |-> IF BeforeToday(d) THEN 0 ELSE counter[d]]
    /\ UNCHANGED <<today, attempt, attempts, admitted, turnedAway>>

DcrNext ==
    \/ \E p \in Registrant :
          \/ RecordAttempt(p) \/ UpsertCounter(p) \/ ReadCounter(p) \/ RegistrantDies(p)
    \/ Midnight \/ PruneCounters

DcrSpec == DcrInit /\ [][DcrNext]_dcrVars

-----------------------------------------------------------------------------
(* Properties.                                                             *)

\* While a day lasts its budget is exact, however the attempts overlap: no more
\* are admitted, and nobody is refused before it has been attempted.  Once the
\* day is over, only requests that began before midnight and read after the
\* cron can go beyond it, each of them once.
BudgetIsExact ==
    \A d \in Day :
        /\ d = today => admitted[d] <= LimitPerDay
        /\ admitted[d] <= LimitPerDay + Cardinality(Registrant)
        /\ turnedAway[d] > 0 => attempts[d] > LimitPerDay
=============================================================================
