------------------------------ MODULE MCTimer ------------------------------
(* The timer wheel scaled down; see MCTimer.cfg. *)
EXTENDS Timer

\* Due now, and the longest timeouts of the finest level and of the wheel (and,
\* since the base clock may lag behind jiffies, beyond them).
MCDeltas == {0, LVL_START(1) - 1, WHEEL_TIMEOUT_CUTOFF - 1}

\* What tells two states apart: times relative to jiffies, jiffies up to one
\* turn of the coarsest level, and of a timer that is off, its bucket index
\* only while a task's mod_timer() that saw it pending will compare it.
MCView ==
  <<jiffies % (LVL_SIZE * LVL_GRAN(LVL_DEPTH - 1)), Sub(clk, jiffies), Sub(next_expiry, jiffies),
    next_expiry_recalc, timers_pending, pending_map, entry, running_timer, pc, softirq, mark,
    [t \in Timers |-> IF timer_pending(t) THEN Sub(expires[t], jiffies) ELSE 0],
    [t \in Timers |-> IF timer_pending(t) \/ (call # None /\ call.t = t /\ call.pending)
                      THEN idx[t] ELSE 0],
    IF call = None THEN <<>> ELSE <<call.t, Sub(call.e, jiffies), call.pending, call.ticks>> >>

=============================================================================
