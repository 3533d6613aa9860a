------------------------------- MODULE Timer -------------------------------
(***************************************************************************)
(* The timer wheel of kernel/time/timer.c: the buckets, the base clock,    *)
(* mod_timer(), del_timer(), the tick and the expiry loop __run_timers().  *)
(*                                                                         *)
(* Times are unsigned longs of Width bits and every comparison is the      *)
(* wrapping one of jiffies.h.  base->lock is held with interrupts off, so  *)
(* a section under it is one step; a callback runs with interrupts on and  *)
(* ticks, interrupt handlers and the callback itself may use the timers.   *)
(* mod_timer() looks at timer_pending() before it takes the lock, so a     *)
(* task's call is two steps.  There is one base (no NO_HZ_COMMON, one      *)
(* CPU); MOD_TIMER_REDUCE and MOD_TIMER_PENDING_ONLY have no caller.       *)
(***************************************************************************)
EXTENDS Integers, FiniteSets

CONSTANTS Timers,
          None,            \* NULL
          Width,           \* bits of an unsigned long (32 in this build)
          LVL_CLK_SHIFT,   \* log2 of the clock ratio of two levels (3)
          LVL_BITS,        \* log2 of the buckets of a level (6)
          LVL_DEPTH,       \* levels (8, or 9 when HZ > 100)
          TaskTimers,      \* the timers that tasks arm; interrupts may arm all
          Deltas,          \* the timeouts the callers ask for
          MaxLag,          \* bound: ticks that a due bucket waits for the softirq
          MaxTicks         \* bound: ticks between mod_timer()'s check and its lock

LVL_CLK_DIV == 2^LVL_CLK_SHIFT
LVL_SIZE == 2^LVL_BITS
LVL_GRAN(n) == 2^(n * LVL_CLK_SHIFT)
LVL_START(n) == (LVL_SIZE - 1) * 2^((n - 1) * LVL_CLK_SHIFT)
WHEEL_TIMEOUT_CUTOFF == LVL_START(LVL_DEPTH)
WHEEL_TIMEOUT_MAX == WHEEL_TIMEOUT_CUTOFF - LVL_GRAN(LVL_DEPTH - 1)
NEXT_TIMER_MAX_DELTA == 2^(Width - 2) - 1

\* A level spans more than one granule of the next, and the wheel fits the
\* clock.  The longest timeout of the wheel is below the idle horizon; that,
\* the timeouts asked for, a granule of the last level and the delays bounded
\* below stay within half of the clock's range.  The build (32, 3, 6, 8 or 9)
\* is such a wheel.
ASSUME WheelAssumption ==
  /\ Width \in Nat \ {0, 1} /\ LVL_CLK_SHIFT \in Nat /\ LVL_BITS \in Nat /\ LVL_DEPTH \in Nat \ {0}
  /\ LVL_CLK_SHIFT < LVL_BITS
  /\ TaskTimers \subseteq Timers /\ None \notin Timers
  /\ (LVL_DEPTH - 1) * LVL_CLK_SHIFT + LVL_BITS <= Width
  /\ WHEEL_TIMEOUT_CUTOFF <= NEXT_TIMER_MAX_DELTA
  /\ Deltas \subseteq Nat /\ MaxLag \in Nat /\ MaxTicks \in Nat
  /\ \A d \in Deltas \cup {LVL_GRAN(LVL_DEPTH - 1) + 2} :
       d + MaxLag + MaxTicks < 2^(Width - 1) - NEXT_TIMER_MAX_DELTA

VARIABLES
  jiffies,
  clk,                 \* base->clk
  next_expiry,         \* base->next_expiry
  next_expiry_recalc,
  timers_pending,
  pending_map,         \* the buckets whose bit is set
  expires,             \* timer->expires
  idx,                 \* the bucket index in timer->flags
  entry,               \* the list timer->entry is on: none, a bucket, heads[]
  running_timer,
  pc,                  \* where __run_timers() is
  softirq,             \* TIMER_SOFTIRQ is raised
  call,                \* the task's mod_timer(), past its unlocked check
  mark                 \* history: what the timer's last arming was

timerVars == <<jiffies, clk, next_expiry, next_expiry_recalc, timers_pending, pending_map,
               expires, idx, entry, running_timer, pc, softirq, call, mark>>

Longs == 0 .. 2^Width - 1
Index == 0 .. LVL_DEPTH * LVL_SIZE - 1

TimerTypeOK ==
  /\ jiffies \in Longs /\ clk \in Longs /\ next_expiry \in Longs
  /\ next_expiry_recalc \in BOOLEAN /\ timers_pending \in BOOLEAN
  /\ pending_map \subseteq Index
  /\ expires \in [Timers -> Longs]
  /\ idx \in [Timers -> Index]
  /\ entry \in [Timers -> {"none", "wheel", "heads"}]
  /\ running_timer \in Timers \cup {None}
  /\ pc \in {"idle", "run", "fn"}
  /\ softirq \in BOOLEAN
  /\ call \in [t : Timers, e : Longs, pending : BOOLEAN, ticks : 0 .. MaxTicks] \cup {None}
  /\ mark \in [Timers -> {"off", "exact", "clamped", "stale"}]

----------------------------------------------------------------------------
(* Wrapping time *)

Long(x) == x % 2^Width
Sub(a, b) == Long(a - b)
time_before(a, b) == Sub(a, b) >= 2^(Width - 1)
time_after_eq(a, b) == ~time_before(a, b)

----------------------------------------------------------------------------
(* Buckets *)

timer_pending(t) == entry[t] # "none"
Vector(i) == {t \in Timers : entry[t] = "wheel" /\ idx[t] = i}
Level(i) == i \div LVL_SIZE

\* Mutation: the bucket of the expiry itself, without the rounding up.
calc_index_NoRound(e, lvl) ==
  LET k == e \div LVL_GRAN(lvl)
  IN [idx |-> (lvl * LVL_SIZE) + (k % LVL_SIZE), expiry |-> Long(k * LVL_GRAN(lvl))]

\* Bucket and bucket expiry of e at level lvl: rounded up, so never early.
calc_index(e, lvl) ==
  LET k == (e \div LVL_GRAN(lvl)) + 1
  IN [idx |-> (lvl * LVL_SIZE) + (k % LVL_SIZE), expiry |-> Long(k * LVL_GRAN(lvl))]

\* Mutation: a level takes timeouts one longer than its buckets reach.
calc_wheel_index_OffByOne(e, c) ==
  LET delta == Sub(e, c)
      fits  == {n \in 0 .. LVL_DEPTH - 2 : delta <= LVL_START(n + 1)}
  IN IF fits # {} THEN calc_index(e, CHOOSE n \in fits : \A k \in fits : n <= k)
     ELSE IF delta >= 2^(Width - 1) THEN [idx |-> c % LVL_SIZE, expiry |-> c]
     ELSE calc_index(IF delta >= WHEEL_TIMEOUT_CUTOFF THEN Long(c + WHEEL_TIMEOUT_MAX) ELSE e,
                     LVL_DEPTH - 1)

\* The finest level whose range holds the timeout; the bucket of the clock
\* for a time that has passed; the last level's end for what is too far.
calc_wheel_index(e, c) ==
  LET delta == Sub(e, c)
      fits  == {n \in 0 .. LVL_DEPTH - 2 : delta < LVL_START(n + 1)}
  IN IF fits # {} THEN calc_index(e, CHOOSE n \in fits : \A k \in fits : n <= k)
     ELSE IF delta >= 2^(Width - 1) THEN [idx |-> c % LVL_SIZE, expiry |-> c]
     ELSE calc_index(IF delta >= WHEEL_TIMEOUT_CUTOFF THEN Long(c + WHEEL_TIMEOUT_MAX) ELSE e,
                     LVL_DEPTH - 1)

\* Mutation: the search stops at the end of the level instead of wrapping.
next_pending_bucket_NoWrap(map, offset, c) ==
  {d \in 0 .. LVL_SIZE - 1 : c + d < LVL_SIZE /\ offset + c + d \in map}

\* The distances from position c, around the level at offset, of the
\* pending buckets; find_next_bit() takes the least.
next_pending_bucket(map, offset, c) ==
  {d \in 0 .. LVL_SIZE - 1 : offset + ((c + d) % LVL_SIZE) \in map}

\* __next_timer_interrupt(): the clock of each level, shifted down and
\* rounded up, ...
lvl_clk(c) ==
  LET clk_of[n \in 0 .. LVL_DEPTH - 1] ==
        IF n = 0 THEN c
        ELSE (clk_of[n - 1] \div LVL_CLK_DIV) + (IF clk_of[n - 1] % LVL_CLK_DIV = 0 THEN 0 ELSE 1)
  IN clk_of

\* ... the first pending bucket of each level that has one ...
FirstIn(map, c, n) ==
  LET D == next_pending_bucket(map, n * LVL_SIZE, lvl_clk(c)[n] % LVL_SIZE)
  IN CHOOSE d \in D : \A k \in D : d <= k
HasPending(map, c, n) == next_pending_bucket(map, n * LVL_SIZE, lvl_clk(c)[n] % LVL_SIZE) # {}

\* ... and the level at which the search stops: its first bucket expires
\* before the next one of any coarser level can.
StopsAt(map, c, n) ==
  /\ HasPending(map, c, n)
  /\ FirstIn(map, c, n) <= (LVL_CLK_DIV - (lvl_clk(c)[n] % LVL_CLK_DIV)) % LVL_CLK_DIV

__next_timer_interrupt(map, c) ==
  LET levels == {n \in 0 .. LVL_DEPTH - 1 : \A k \in 0 .. n - 1 : ~StopsAt(map, c, k)}
      times  == {Long((lvl_clk(c)[n] + FirstIn(map, c, n)) * LVL_GRAN(n)) :
                   n \in {n \in levels : HasPending(map, c, n)}}
                \cup {Long(c + NEXT_TIMER_MAX_DELTA)}
  IN CHOOSE x \in times : \A y \in times : Sub(x, c) <= Sub(y, c)

----------------------------------------------------------------------------
(* Arming and disarming, under base->lock *)

\* The clock catches up with jiffies, but never passes a pending bucket.
forward_timer_base ==
  IF Sub(jiffies, clk) \notin 1 .. 2^(Width - 1) - 1 THEN clk
  ELSE IF time_before(jiffies, next_expiry) THEN jiffies
  ELSE IF time_before(next_expiry, clk) THEN clk
  ELSE next_expiry

Singular(t) == entry[t] = "wheel" /\ Vector(idx[t]) = {t}

\* detach_if_pending() empties a bucket only if the timer is alone on the
\* bucket's own list; an expired timer is on heads[].
MapAfterDetach(t) == IF Singular(t) THEN pending_map \ {idx[t]} ELSE pending_map

\* Mutation: next_expiry_recalc is cleared whenever a timer is queued.
enqueue_timer_Clears(t, b, c, map, recalc) ==
  /\ pending_map' = map \cup {b.idx}
  /\ idx' = [idx EXCEPT ![t] = b.idx]
  /\ entry' = [entry EXCEPT ![t] = "wheel"]
  /\ clk' = c
  /\ next_expiry_recalc' = FALSE
  /\ IF time_before(b.expiry, next_expiry)
     THEN next_expiry' = b.expiry /\ timers_pending' = TRUE
     ELSE UNCHANGED <<next_expiry, timers_pending>>

enqueue_timer(t, b, c, map, recalc) ==
  /\ pending_map' = map \cup {b.idx}
  /\ idx' = [idx EXCEPT ![t] = b.idx]
  /\ entry' = [entry EXCEPT ![t] = "wheel"]
  /\ clk' = c
  /\ IF time_before(b.expiry, next_expiry)
     THEN next_expiry' = b.expiry /\ timers_pending' = TRUE /\ next_expiry_recalc' = FALSE
     ELSE UNCHANGED <<next_expiry, timers_pending>> /\ next_expiry_recalc' = recalc

Far(e, c) == Sub(e, c) \in WHEEL_TIMEOUT_CUTOFF .. 2^(Width - 1) - 1

\* The part of __mod_timer() under the lock.  A timer that was pending at
\* the unlocked check and whose new bucket is the one in its flags keeps its
\* place, whatever list it is on by now.
mod_timer_locked(t, e, pending) ==
  LET c == forward_timer_base
      b == calc_wheel_index(e, c)
  IN /\ expires' = [expires EXCEPT ![t] = e]
     /\ IF pending /\ b.idx = idx[t]
        THEN /\ clk' = c
             /\ mark' = [mark EXCEPT ![t] = IF entry[t] # "wheel" THEN "stale"
                                            ELSE IF Far(e, c) THEN "clamped" ELSE "exact"]
             /\ UNCHANGED <<next_expiry, next_expiry_recalc, timers_pending, pending_map, idx, entry>>
        ELSE /\ enqueue_timer(t, b, c, MapAfterDetach(t), next_expiry_recalc \/ Singular(t))
             /\ mark' = [mark EXCEPT ![t] = IF Far(e, c) THEN "clamped" ELSE "exact"]

\* A task calls mod_timer(): the unlocked check.  A pending timer that is
\* asked for the time it has already is left alone.
mod_timer_check(t, e) ==
  /\ pc = "idle" /\ call = None
  /\ ~(timer_pending(t) /\ expires[t] = e)
  /\ call' = [t |-> t, e |-> e, pending |-> timer_pending(t), ticks |-> 0]
  /\ UNCHANGED <<jiffies, clk, next_expiry, next_expiry_recalc, timers_pending, pending_map,
                 expires, idx, entry, running_timer, pc, softirq, mark>>

\* The task takes the lock; a tick and its softirq may have come between.
mod_timer_task ==
  /\ pc = "idle" /\ call # None
  /\ mod_timer_locked(call.t, call.e, call.pending)
  /\ call' = None
  /\ UNCHANGED <<jiffies, running_timer, pc, softirq>>

\* mod_timer() by an interrupt handler, or by the callback that runs: no
\* timer runs between the check and the lock.
mod_timer_irq(t, e) ==
  /\ pc \in {"idle", "fn"}
  /\ ~(timer_pending(t) /\ expires[t] = e)
  /\ mod_timer_locked(t, e, timer_pending(t))
  /\ UNCHANGED <<jiffies, running_timer, pc, softirq, call>>

\* del_timer(); del_timer_sync() is the same function on one CPU.
del_timer(t) ==
  /\ pc \in {"idle", "fn"} /\ timer_pending(t)
  /\ pending_map' = MapAfterDetach(t)
  /\ next_expiry_recalc' = (next_expiry_recalc \/ Singular(t))
  /\ entry' = [entry EXCEPT ![t] = "none"]
  /\ mark' = [mark EXCEPT ![t] = "off"]
  /\ UNCHANGED <<jiffies, clk, next_expiry, timers_pending, expires, idx, running_timer,
                 pc, softirq, call>>

----------------------------------------------------------------------------
(* The tick and the expiry loop *)

\* The tick advances jiffies and run_local_timers() raises the softirq when
\* the next bucket is due.
run_local_timers ==
  /\ pc \in {"idle", "fn"}
  /\ time_before(jiffies, next_expiry) \/ Sub(jiffies, next_expiry) < MaxLag
  /\ \/ call = None /\ UNCHANGED call
     \/ call # None /\ call.ticks < MaxTicks /\ call' = [call EXCEPT !.ticks = @ + 1]
  /\ jiffies' = Long(jiffies + 1)
  /\ softirq' = (softirq \/ time_after_eq(jiffies', next_expiry))
  /\ UNCHANGED <<clk, next_expiry, next_expiry_recalc, timers_pending, pending_map, expires,
                 idx, entry, running_timer, pc, mark>>

\* run_timer_softirq() enters __run_timers().
run_timer_softirq ==
  /\ pc = "idle" /\ softirq
  /\ softirq' = FALSE
  /\ pc' = IF time_before(jiffies, next_expiry) THEN "idle" ELSE "run"
  /\ UNCHANGED <<jiffies, clk, next_expiry, next_expiry_recalc, timers_pending, pending_map,
                 expires, idx, entry, running_timer, call, mark>>

Heads == {t \in Timers : entry[t] = "heads"}
LoopAgain == time_after_eq(jiffies, clk) /\ time_after_eq(jiffies, next_expiry)

\* collect_expired_timers(): the bucket of the clock at level 0, and at each
\* level further up whose lower clock has just wrapped.
Collected(c) ==
  {(n * LVL_SIZE) + ((c \div LVL_GRAN(n)) % LVL_SIZE) :
      n \in {n \in 0 .. LVL_DEPTH - 1 : c % LVL_GRAN(n) = 0}} \cap pending_map

\* One round of the loop: the due buckets move to heads[], the clock moves
\* past them and the next expiry is computed.
collect_expired_timers ==
  /\ pc = "run" /\ Heads = {} /\ LoopAgain
  /\ LET due == Collected(next_expiry)
         c   == Long(next_expiry + 1)
     IN /\ pending_map' = pending_map \ due
        /\ entry' = [t \in Timers |-> IF entry[t] = "wheel" /\ idx[t] \in due THEN "heads" ELSE entry[t]]
        /\ clk' = c
        /\ next_expiry' = __next_timer_interrupt(pending_map \ due, c)
        /\ next_expiry_recalc' = FALSE
        /\ timers_pending' = (next_expiry' # Long(c + NEXT_TIMER_MAX_DELTA))
  /\ UNCHANGED <<jiffies, expires, idx, running_timer, pc, softirq, call, mark>>

\* expire_timers(): the lists of the coarsest level first.
expire_timers(t) ==
  /\ pc = "run" /\ t \in Heads
  /\ \A u \in Heads : Level(idx[u]) <= Level(idx[t])
  /\ running_timer' = t
  /\ entry' = [entry EXCEPT ![t] = "none"]
  /\ mark' = [mark EXCEPT ![t] = "off"]
  /\ pc' = "fn"
  /\ UNCHANGED <<jiffies, clk, next_expiry, next_expiry_recalc, timers_pending, pending_map,
                 expires, idx, softirq, call>>

\* The callback returns.
call_timer_fn ==
  /\ pc = "fn"
  /\ running_timer' = None
  /\ pc' = "run"
  /\ UNCHANGED <<jiffies, clk, next_expiry, next_expiry_recalc, timers_pending, pending_map,
                 expires, idx, entry, softirq, call, mark>>

\* __run_timers() drops the lock for good.
run_done ==
  /\ pc = "run" /\ Heads = {} /\ ~LoopAgain
  /\ pc' = "idle"
  /\ UNCHANGED <<jiffies, clk, next_expiry, next_expiry_recalc, timers_pending, pending_map,
                 expires, idx, entry, running_timer, softirq, call, mark>>

----------------------------------------------------------------------------

\* init_timer_cpu(), with jiffies anywhere: it wraps five minutes after boot.
TimerInit ==
  /\ jiffies \in {0, 2^Width - 1}
  /\ clk = jiffies
  /\ next_expiry = Long(jiffies + NEXT_TIMER_MAX_DELTA)
  /\ next_expiry_recalc = FALSE /\ timers_pending = FALSE
  /\ pending_map = {}
  /\ expires = [t \in Timers |-> 0] /\ idx = [t \in Timers |-> 0]
  /\ entry = [t \in Timers |-> "none"]
  /\ running_timer = None /\ pc = "idle" /\ softirq = FALSE
  /\ call = None
  /\ mark = [t \in Timers |-> "off"]

Run == collect_expired_timers \/ (\E t \in Timers : expire_timers(t)) \/ run_done

TimerNext ==
  \/ \E t \in TaskTimers, d \in Deltas : mod_timer_check(t, Long(jiffies + d))
  \/ \E t \in Timers, d \in Deltas : mod_timer_irq(t, Long(jiffies + d))
  \/ \E t \in Timers : del_timer(t)
  \/ mod_timer_task
  \/ run_local_timers
  \/ run_timer_softirq
  \/ Run
  \/ call_timer_fn

TimerSpec == TimerInit /\ [][TimerNext]_timerVars

----------------------------------------------------------------------------
(* Properties *)

\* Reference: the first time, from the clock on, at which the loop collects
\* bucket i.
BucketExpiry(i) ==
  LET g == LVL_GRAN(Level(i))
      D == {d \in 0 .. LVL_SIZE * g - 1 :
              LET x == Long(clk + d) IN x % g = 0 /\ (x \div g) % LVL_SIZE = i % LVL_SIZE}
  IN Long(clk + CHOOSE d \in D : TRUE)

\* base->next_expiry is never later than the bucket of a queued timer, so the
\* tick raises the softirq in time (run_local_timers()) and neither the expiry
\* loop nor forward_timer_base() moves the clock past a bucket.  It rests on
\* the bitmap: a bit is set exactly while timers are on the bucket's list.
NextExpirySafe ==
  /\ pending_map = {i \in Index : Vector(i) # {}}
  /\ \A i \in pending_map : Sub(next_expiry, clk) <= Sub(BucketExpiry(i), clk)

\* Every timer lies in a bucket that is collected neither before its expiry
\* nor later than one granule of its level after it, or at once if it was
\* overdue: also after mod_timer() left it in the bucket it was in.
BucketRight ==
  \A t \in Timers :
    entry[t] = "wheel" /\ mark[t] = "exact" =>
      LET b == BucketExpiry(idx[t])
      IN /\ time_after_eq(b, expires[t])
         /\ \/ Sub(b, expires[t]) <= LVL_GRAN(Level(idx[t]))
            \/ time_after_eq(jiffies + 1, b)

\* The two warnings never fire: __run_timers() does a round that finds no
\* timer although timers are pending and no deletion invalidated next_expiry;
\* forward_timer_base() finds next_expiry behind the clock.
NoWarning ==
  /\ pc = "run" /\ Heads = {} /\ LoopAgain /\ Collected(next_expiry) = {} =>
       next_expiry_recalc \/ ~timers_pending
  /\ time_after_eq(next_expiry, clk)

\* No callback runs before the time its timer was armed for, unless that was
\* beyond the reach of the wheel, or mod_timer() found the timer among the
\* expired ones ("stale") and its new bucket has the index in its flags.
NeverEarly ==
  [][\A t \in Timers : expire_timers(t) /\ mark[t] = "exact" => time_after_eq(jiffies, expires[t])]_timerVars

=============================================================================
