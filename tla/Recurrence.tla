------------------------------ MODULE Recurrence ------------------------------
(***************************************************************************)
(* Recurring dates: _next_occurrence and _add_months of fields/registry.py,*)
(* and RecurringDateService.occurrences of services/scheduling.py, which    *)
(* recomputes the next occurrence from the start of the recurrence.         *)
(*                                                                         *)
(* A date is the number of days since 1 January of Epoch, a leap year.      *)
(***************************************************************************)
EXTENDS Registry

CONSTANTS
  Starts,     \* first dates recurrences may have, as year, month, day
  Intervals,  \* intervals they may have
  FirstDay,   \* the dates on which one is written or asked for: from
  LastDay,    \* this one to this one
  Span        \* days in a window, beyond its first

VARIABLES
  stored,  \* the stored value: start, frequency, interval and next
  today    \* the date on the server

recurVars == <<stored, today>>

Frequency == {"YEARLY", "MONTHLY", "WEEKLY", "DAILY"}

-----------------------------------------------------------------------------
(* The calendar, for the hundred years after the epoch. *)
Leap(y) == y % 4 = 0
MonthLength(y, m) ==
  CASE m = 2 -> IF Leap(y) THEN 29 ELSE 28
    [] m \in {4, 6, 9, 11} -> 30
    [] OTHER -> 31
DaysBefore(m) == <<0, 31, 59, 90, 120, 151, 181, 212, 243, 273, 304, 334>>[m]
Ordinal(y, m, d) ==
  365 * y + ((y + 3) \div 4) + DaysBefore(m) + (IF m > 2 /\ Leap(y) THEN 1 ELSE 0) + d - 1
YearOf(day) == CHOOSE y \in 0..(day \div 365) : Ordinal(y, 1, 1) <= day /\ day < Ordinal(y + 1, 1, 1)
MonthOf(day) ==
  LET y == YearOf(day)
  IN CHOOSE m \in 1..12 : Ordinal(y, m, 1) <= day /\ day < Ordinal(y, m, 1) + MonthLength(y, m)

-----------------------------------------------------------------------------
(* _add_months: the day is cut to the length of the month it lands in. *)
AddMonths(start, months) ==
  LET total == start.month - 1 + months
      y == start.year + total \div 12
      m == (total % 12) + 1
  IN Ordinal(y, m, IF start.day <= MonthLength(y, m) THEN start.day ELSE MonthLength(y, m))

DayOf(start) == Ordinal(start.year, start.month, start.day)

(* The n-th occurrence, counted from the start. *)
Occurrence(start, frequency, interval, n) ==
  CASE frequency = "DAILY" -> DayOf(start) + n * interval
    [] frequency = "WEEKLY" -> DayOf(start) + 7 * n * interval
    [] frequency = "MONTHLY" -> AddMonths(start, n * interval)
    [] frequency = "YEARLY" -> AddMonths(start, 12 * n * interval)

(* Where the search for the next occurrence begins: whole steps already     *)
(* taken, rounded up for days and weeks and down for months and years.      *)
FirstStepUp(start, frequency, interval, day) ==  \* mutant: months are rounded up too
  LET up(a, b) == (a + b - 1) \div b
      elapsed == day - DayOf(start)
      months == (YearOf(day) - start.year) * 12 + (MonthOf(day) - start.month)
  IN CASE frequency = "DAILY" -> up(elapsed, interval)
       [] frequency = "WEEKLY" -> up((elapsed * 1000) \div 7, interval * 1000)
       [] frequency = "MONTHLY" -> up(months, interval) + 1
       [] frequency = "YEARLY" -> up(YearOf(day) - start.year, interval)
FirstStep(start, frequency, interval, day) ==
  LET up(a, b) == (a + b - 1) \div b
      elapsed == day - DayOf(start)
      months == (YearOf(day) - start.year) * 12 + (MonthOf(day) - start.month)
  IN CASE frequency = "DAILY" -> up(elapsed, interval)
       [] frequency = "WEEKLY" -> up((elapsed * 1000) \div 7, interval * 1000)
       [] frequency = "MONTHLY" -> months \div interval
       [] frequency = "YEARLY" -> (YearOf(day) - start.year) \div interval

NextOccurrence(start, frequency, interval, day) ==
  IF DayOf(start) >= day THEN DayOf(start)
  ELSE LET first == FirstStep(start, frequency, interval, day)
           step == CHOOSE n \in first..(first + 2) :
                     /\ Occurrence(start, frequency, interval, n) >= day
                     /\ \A k \in first..(n - 1) : Occurrence(start, frequency, interval, k) < day
       IN Occurrence(start, frequency, interval, step)

-----------------------------------------------------------------------------
(* What a request may hold: a bare date, or a rule. *)
Raw ==
  {[kind |-> "date", start |-> start] : start \in Starts}
    \cup {Recurs(start, frequency, interval, 0) :
             start \in Starts, frequency \in Frequency, interval \in Intervals}

Normal(raw) ==
  LET next(start, frequency, interval) == NextOccurrence(start, frequency, interval, today)
  IN NormRecurring(raw, DayOf, next)

RecurInit == today = FirstDay /\ \E raw \in Raw : stored = Normal(raw)

(* The value is written again: next is derived anew. *)
Write ==
  /\ stored' = Normal(stored)
  /\ UNCHANGED today

(* The night passes and nothing refreshes what is stored. *)
Advance ==
  /\ today < LastDay /\ today' = today + 1
  /\ UNCHANGED stored

RecurNext == Write \/ Advance

RecurSpec == RecurInit /\ [][RecurNext]_recurVars

-----------------------------------------------------------------------------
(* What occurrences lists for a window. *)
Listed(from, to) ==
  {day \in {NextOccurrence(stored.start, stored.frequency, stored.interval, from)} :
     from <= day /\ day <= to}

(* Properties. *)

RecurTypeOK ==
  /\ today \in FirstDay..LastDay
  /\ stored.next \in Nat /\ stored.next >= DayOf(stored.start)

(* "Recomputes on read rather than trusting it": whichever window is asked   *)
(* for and whenever the value was written, the listing names the first of    *)
(* the recurrence's dates that fall in the window, and says nothing exactly  *)
(* when none does: no date of a month too short is lost, and none that comes *)
(* round again on an earlier day is skipped.                                 *)
FirstInWindow ==
  LET at(n) == Occurrence(stored.start, stored.frequency, stored.interval, n)
      dates == {at(n) : n \in 0..(LastDay + Span - DayOf(stored.start))}
  IN \A length \in {0, Span} :
       LET inside == {d \in dates : today <= d /\ d <= today + length}
       IN Listed(today, today + length) = {d \in inside : \A e \in inside : d <= e}

-----------------------------------------------------------------------------
(* What makes these inductive: whatever is stored recurs from a start, by an *)
(* interval of the registry's.                                              *)

RecurAssumption ==
  /\ \A start \in Starts :
       /\ start \in [year : Nat, month : 1..12, day : 1..31]
       /\ start.day <= MonthLength(start.year, start.month)
  /\ FirstDay \in Nat /\ LastDay \in Nat /\ FirstDay <= LastDay /\ Span \in Nat
  /\ Intervals \subseteq 1..365

RecurInv ==
  /\ today \in FirstDay..LastDay
  /\ \E start \in Starts, frequency \in Frequency, interval \in 1..365 :
       /\ stored = Recurs(start, frequency, interval, stored.next)
       /\ stored.next \in Nat /\ stored.next >= DayOf(start)
=============================================================================
