-------------------------------- MODULE MCCron --------------------------------
(* TLC instances of Cron, on a calendar of 2 minutes, 2 hours, 3 days, 2 months
   and weeks of 2 days. *)
EXTENDS Cron

Part(kind, lo, hi, by) == [kind |-> kind, lo |-> lo, hi |-> hi, by |-> by]
EveryValue == <<Part("star", 0, 0, 0)>>
At(n) == <<Part("value", n, 0, 0)>>
EveryMinute == [f \in Fields |-> EveryValue]
Define(name, schedule, throws) == [name |-> name, schedule |-> schedule, throws |-> throws]

\* The second day of a month at noon, or any day 0 of the week at noon.
EitherDay == [EveryMinute EXCEPT !.minute = At(0), !.hour = At(1), !.day = At(2), !.weekday = At(0)]
\* Odd days, restricted to day 1 of the week: a stepped field keeps the AND.
SteppedDays == [EveryMinute EXCEPT !.day = <<Part("star/", 0, 0, 2)>>, !.weekday = At(1),
                                   !.minute = <<Part("range", 0, 1, 0)>>]
Hourly == [EveryMinute EXCEPT !.minute = At(1), !.hour = <<Part("value/", 0, 0, 1)>>]
Misplaced == [EveryMinute EXCEPT !.month = At(3)]

MCDefinitions == <<Define("either", EitherDay, FALSE), Define("stepped", SteppedDays, TRUE),
                   Define("hourly", Hourly, FALSE), Define("never", Misplaced, FALSE)>>

=============================================================================
