---------------------------- MODULE DateAndTime -----------------------------
(***************************************************************************)
(* The time of an item.  dateAndTimeNow writes it as "dd-MM-yyyy HH:MM",   *)
(* with the month where the minutes were meant; CompareList reads it as    *)
(* "dd-MM-yyyy HH:mm".  The module follows the successive versions of one  *)
(* item, as its devices store them, while the clock goes forward (in one   *)
(* time zone: the string does not say which).                              *)
(*                                                                         *)
(* An NSDateFormatter pattern is the sequence of its fields, and a string  *)
(* the sequence of their values.                                           *)
(***************************************************************************)
EXTENDS Naturals, Sequences

CONSTANTS
    Years, Months, Days, Hours, Minutes,  \* what the clock can show
    MaxChanges                            \* bound: changes of the item

ASSUME ClockAssumption ==
    /\ Years \subseteq Nat /\ Months \subseteq 1..12 /\ Days \subseteq 1..31
    /\ Hours \subseteq 0..23 /\ Minutes \subseteq 0..59
    /\ MaxChanges \in Nat

VARIABLES
    now,       \* [NSDate date], to the minute
    versions   \* the changes of the item so far: when, and its itemTime

Moment == [yyyy : Years, MM : Months, dd : Days, HH : Hours, mm : Minutes]

\* NSDate is a number: hours, and minutes, in the order of time.
Hour(t) == ((t.yyyy * 12 + t.MM) * 31 + t.dd) * 24 + t.HH

Instant(t) == Hour(t) * 60 + t.mm

-----------------------------------------------------------------------------
\* Mutant: the hour as hh, of the 12-hour clock.
TwelveHourClock(t) == <<t.dd, t.MM, t.yyyy, t.HH % 12, t.MM>>

dateAndTimeNow(t) == <<t.dd, t.MM, t.yyyy, t.HH, t.MM>>

\* dateFromString: with the pattern of CompareList.
dateFromString(str) ==
    [dd |-> str[1], MM |-> str[2], yyyy |-> str[3], HH |-> str[4], mm |-> str[5]]

-----------------------------------------------------------------------------
Init == now \in Moment /\ versions = << >>

\* Time passes.
Wait ==
    /\ \E t \in Moment : Instant(t) > Instant(now) /\ now' = t
    /\ UNCHANGED versions

\* The item is added, or toggled: it gets the time.
Change ==
    /\ Len(versions) < MaxChanges
    /\ versions' = Append(versions, [at |-> now, itemTime |-> dateAndTimeNow(now)])
    /\ UNCHANGED now

Next == Wait \/ Change

Spec == Init /\ [][Next]_<<now, versions>>

-----------------------------------------------------------------------------
(***************************************************************************)
(* Of two versions of an item the one that was changed later never reads   *)
(* as the earlier one, and it reads as later if and only if the hour had   *)
(* changed: the month in the place of the minutes never turns an order     *)
(* round, at the end of an hour, a day, a month or a year either.          *)
(***************************************************************************)
ChangesStayInOrder ==
    \A i, j \in DOMAIN versions :
        LET a == versions[i]
            b == versions[j]
            readA == Instant(dateFromString(a.itemTime))
            readB == Instant(dateFromString(b.itemTime))
        IN  i < j => /\ readA <= readB
                     /\ readA < readB <=> Hour(a.at) < Hour(b.at)

=============================================================================
