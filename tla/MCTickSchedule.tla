--------------------------- MODULE MCTickSchedule ---------------------------
(* A unit of time is some seconds; the clock has a few of them.               *)
EXTENDS TickSchedule

Backoff == <<1, 2>>
Windows == {0, 2}
=============================================================================
