------------------------------- MODULE AmStats -------------------------------
(***************************************************************************)
(* The running statistics of src/include/libam/libam_stats.h, used the way *)
(* src/src/libam_thread_pool.c uses them: a worker updates a statistic of  *)
(* its own, and adds it to the pool's when it stops.  Unsigned arithmetic  *)
(* wraps; the code halves what would overflow, or gives up on the squares. *)
(***************************************************************************)
EXTENDS Integers

CONSTANTS UMax,   \* UINT64_MAX
          SsqMax, \* AMSTAT_MAX_SSQ_VAL: the largest number with a square up to UMax
          Measured  \* the values a worker measures

ASSUME StatsAssumption ==
    /\ UMax \in Nat \ {0} /\ SsqMax \in 0..UMax
    /\ SsqMax * SsqMax <= UMax /\ (SsqMax + 1) * (SsqMax + 1) > UMax
    /\ Measured \subseteq 0..UMax

VARIABLES local, \* the statistic of the worker that runs
          total, \* the statistic of the pool
          seen,  \* history: the values measured since local was initialised
          added  \* history: the values in total, and whether squares were given up

statsVars == <<local, total, seen, added>>

Wrap(n) == n % (UMax + 1)
Larger(a, b) == IF a < b THEN b ELSE a
Smaller(a, b) == IF a > b THEN b ELSE a

\* amstat_init
FreshStat == [max |-> 0, min |-> UMax, sum |-> 0, ssq |-> 0, avg |-> 0, num |-> 0]

StatsInit ==
    /\ local = FreshStat /\ total = FreshStat
    /\ seen = {} /\ added = [values |-> {}, saturated |-> FALSE]

\* Slip: a lost sum of squares is begun again.
UpdForget(stat, val) ==
    LET lost == val > SsqMax
        ssq == IF lost THEN UMax ELSE IF stat.ssq = UMax THEN 0 ELSE stat.ssq
        sum == stat.sum + val
        num == stat.num + 1
    IN  [max |-> Larger(stat.max, val), min |-> Smaller(stat.min, val),
         sum |-> Wrap(sum), ssq |-> Wrap(ssq), num |-> Wrap(num), avg |-> Wrap(sum) \div num]

\* amstat_upd, with the value it is about to divide by kept positive by the
\* halving: (num + 1) / 2 is at least 1 when num was.
Upd(stat, val) ==
    LET lost == stat.ssq = UMax \/ val > SsqMax
        ssq == IF lost THEN UMax ELSE stat.ssq
        square == IF lost THEN 0 ELSE val * val
        halve == \/ stat.num = UMax
                 \/ stat.sum + val > UMax
                 \/ ssq + square > UMax
        part == IF halve THEN 2 ELSE 1
        sum == (stat.sum + val) \div part
        num == (stat.num + 1) \div part
    IN  [max |-> Larger(stat.max, val), min |-> Smaller(stat.min, val),
         sum |-> sum, num |-> num, avg |-> sum \div num,
         ssq |-> IF lost THEN UMax ELSE (ssq + square) \div part]

\* amstat_add: only the sum of squares is looked at for an overflow, and a sum of
\* squares that was just given up is added to all the same.
Add(to, from) ==
    LET lost == to.ssq = UMax \/ from.ssq = UMax
        part == IF ~lost /\ to.ssq + from.ssq > UMax THEN 2 ELSE 1
        num == Wrap(to.num \div part + from.num \div part)
        sum == Wrap(to.sum \div part + from.sum \div part)
    IN  [max |-> Larger(to.max, from.max), min |-> Smaller(to.min, from.min),
         sum |-> sum, num |-> num, avg |-> IF num = 0 THEN 0 ELSE sum \div num,
         ssq |-> IF lost THEN Wrap(UMax + from.ssq)
                 ELSE to.ssq \div part + from.ssq \div part]

-----------------------------------------------------------------------------
Measure == \E val \in Measured :
    /\ local' = Upd(local, val)
    /\ seen' = seen \cup {val}
    /\ UNCHANGED <<total, added>>

\* lam_thread_pool_stats_fold, and lam_thread_pool_stats_init of the next worker.
Fold ==
    /\ total' = Add(total, local)
    /\ added' = [values |-> added.values \cup seen,
                 saturated |-> added.saturated \/ local.ssq = UMax \/ total.ssq = UMax]
    /\ local' = FreshStat
    /\ seen' = {}

StatsNext == Measure \/ Fold

StatsSpec == StatsInit /\ [][StatsNext]_statsVars

-----------------------------------------------------------------------------
(* Properties *)

Extremes(stat, values) ==
    /\ \A v \in values : stat.min <= v /\ v <= stat.max
    /\ values # {} => stat.min \in values /\ stat.max \in values

\* What a worker's statistic says of the values measured, whatever was halved
\* on the way: its extremes are right, the average is no less than the least
\* value and at most twice the greatest (halving rounds the number down, so the
\* average may pass the greatest), and a sum of squares given up stays so.
LocalHonest ==
    /\ Extremes(local, seen)
    /\ seen # {} => local.num > 0 /\ local.min <= local.avg /\ local.avg <= 2 * local.max
    /\ (\E v \in seen : v > SsqMax) => local.ssq = UMax

\* What the pool's says: the extremes are right, and until a sum of squares was
\* given up the sum does not wrap, so that the average is not below the least
\* value, except that halving may leave no number at all, and an average of 0.
TotalHonest ==
    /\ Extremes(total, added.values)
    /\ added.saturated \/ total.num = 0 \/ total.min <= total.avg

StatsHonest == LocalHonest /\ TotalHonest
=============================================================================
