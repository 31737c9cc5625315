-------------------------------- MODULE Timer --------------------------------
(* The timer library over the wrapping millisecond clock: a timer is its     *)
(* start and its interval, now is what clock_time() returns.                 *)
EXTENDS Integers

CONSTANT ClockModulus      \* 2^32, the values of clock_time_t

ASSUME ClockAssumption == ClockModulus \in Nat \ {0}

Clock == 0..(ClockModulus - 1)
struct_timer == [start : Clock, interval : Clock]

timer_set(interval, now) == [start |-> now, interval |-> interval]

(* The next interval begins where the last one ended. *)
timer_reset(t, now) ==
    [t EXCEPT !.start = (t.start + t.interval) % ClockModulus]

timer_restart(t, now) == [t EXCEPT !.start = now]

(* Mutant: the clock is compared with the time the timer expires at. *)
timer_expired_at_deadline(t, now) == now >= (t.start + t.interval) % ClockModulus

(* The difference is computed in clock_time_t, and so is the 1 added to it:  *)
(* at a difference of ClockModulus - 1 the timer has not expired.            *)
timer_expired(t, now) ==
    LET diff == (((now - t.start) % ClockModulus) + 1) % ClockModulus
    IN  t.interval < diff

timer_remaining(t, now) == (t.start + t.interval - now) % ClockModulus
=============================================================================
