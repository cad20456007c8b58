------------------------------- MODULE MCSla -------------------------------
(* Small instances of Sla: a week of three days, the last of them free, and *)
(* two sweeps that overlap.                                                 *)
EXTENDS Sla

CONSTANTS i1, first, timer, review

MCIncidents == {i1}
MCSweeps    == {first, timer}
MCChats     == {review}
MCWeekend   == {2}

\* What the proof about the overdue flag takes from the calendar.
ASSUME InstanceCalendar == CalendarExact
=============================================================================
