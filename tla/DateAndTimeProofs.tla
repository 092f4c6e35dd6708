------------------------- MODULE DateAndTimeProofs --------------------------
(***************************************************************************)
(* The times of an item keep the order of its changes, for every clock and *)
(* any number of changes.                                                  *)
(***************************************************************************)
EXTENDS DateAndTime, TLAPS

Version == [at : Moment, itemTime : Seq(Nat)]

(***************************************************************************)
(* The inductive invariant: each version has the string of the moment it   *)
(* was made at, and these moments are in order and not later than now.     *)
(***************************************************************************)
Stamped ==
    /\ now \in Moment
    /\ versions \in Seq(Version)
    /\ \A i \in DOMAIN versions :
          /\ versions[i].itemTime = dateAndTimeNow(versions[i].at)
          /\ Instant(versions[i].at) <= Instant(now)
    /\ \A i, j \in DOMAIN versions :
          i < j => Instant(versions[i].at) <= Instant(versions[j].at)

\* Numbers of two digits, to the bases of a calendar.
LEMMA Digits ==
    ASSUME NEW a \in Nat, NEW x \in Nat
    PROVE  a * 12 + x \in Nat /\ a * 31 + x \in Nat /\ a * 24 + x \in Nat /\ a * 60 + x \in Nat
  OBVIOUS

\* The month is the higher digit of a day, the day that of an hour.
LEMMA HigherDigit ==
    ASSUME NEW a \in Nat, NEW b \in Nat, NEW x \in Nat, NEW y \in Nat
    PROVE  /\ x \in 1..31 /\ y \in 1..31 /\ a * 31 + x = b * 31 + y => a = b
           /\ x \in 0..23 /\ y \in 0..23 /\ a * 24 + x = b * 24 + y => a = b
           /\ x \in 1..12 /\ y \in 1..12 /\ a * 12 + x = b * 12 + y => x = y
           /\ x \in 0..59 /\ y \in 0..59 /\ a * 60 + x <= b * 60 + y => a <= b
  OBVIOUS

Month(t) == t.yyyy * 12 + t.MM
Day(t) == Month(t) * 31 + t.dd

\* The fields of a moment are numbers in the ranges of a calendar.
LEMMA Fields ==
    ASSUME NEW t \in Moment
    PROVE  /\ t.yyyy \in Nat /\ t.MM \in Nat /\ t.dd \in Nat /\ t.HH \in Nat /\ t.mm \in Nat
           /\ t.MM \in 1..12 /\ t.dd \in 1..31 /\ t.HH \in 0..23 /\ t.mm \in 0..59
           /\ Month(t) \in Nat /\ Day(t) \in Nat /\ Hour(t) \in Nat /\ Instant(t) \in Nat
           /\ Hour(t) = Day(t) * 24 + t.HH
           /\ dateAndTimeNow(t) \in Seq(Nat)
<1>1. /\ t.yyyy \in Years /\ t.MM \in Months /\ t.dd \in Days /\ t.HH \in Hours /\ t.mm \in Minutes
  BY DEF Moment
<1>2. /\ t.yyyy \in Nat /\ t.MM \in 1..12 /\ t.dd \in 1..31
      /\ t.HH \in 0..23 /\ t.mm \in 0..59
  BY <1>1, ClockAssumption
<1>3. t.MM \in Nat /\ t.dd \in Nat /\ t.HH \in Nat /\ t.mm \in Nat
  BY <1>2
<1>4. Month(t) \in Nat
  BY <1>2, <1>3, Digits DEF Month
<1>5. Day(t) \in Nat
  BY <1>3, <1>4, Digits DEF Day
<1>6. Hour(t) = Day(t) * 24 + t.HH
  BY DEF Hour, Day, Month
<1>7. Hour(t) \in Nat
  BY <1>3, <1>5, <1>6, Digits
<1>8. Instant(t) \in Nat
  BY <1>3, <1>7, Digits DEF Instant
<1>9. dateAndTimeNow(t) \in Seq(Nat)
  BY <1>2, <1>3 DEF dateAndTimeNow
<1> QED
  BY <1>2, <1>3, <1>4, <1>5, <1>6, <1>7, <1>8, <1>9

\* What is read back of a moment: its hour, with the month as minutes.
LEMMA ReadBack ==
    ASSUME NEW t \in Moment
    PROVE  LET read == dateFromString(dateAndTimeNow(t))
           IN  Hour(read) = Hour(t) /\ Instant(read) = Hour(t) * 60 + t.MM
  BY Fields DEF dateFromString, dateAndTimeNow, Hour, Instant

\* The hours of two moments are ordered as their instants are.
LEMMA HoursInOrder ==
    ASSUME NEW s \in Moment, NEW t \in Moment, Instant(s) <= Instant(t)
    PROVE  Hour(s) <= Hour(t)
<1>1. Hour(s) * 60 + s.mm <= Hour(t) * 60 + t.mm
  BY DEF Instant
<1> QED
  BY <1>1, Fields, HigherDigit

\* Two moments of one hour are in the same month.
LEMMA OneHourOneMonth ==
    ASSUME NEW s \in Moment, NEW t \in Moment, Hour(s) = Hour(t)
    PROVE  s.MM = t.MM
<1> DEFINE F(x) == /\ x.yyyy \in Nat /\ x.MM \in Nat /\ x.dd \in Nat /\ x.HH \in Nat
                   /\ x.MM \in 1..12 /\ x.dd \in 1..31 /\ x.HH \in 0..23
                   /\ Month(x) \in Nat /\ Day(x) \in Nat
                   /\ Hour(x) = Day(x) * 24 + x.HH
<1>1. F(s) /\ F(t)
  BY Fields
<1>2. Day(s) * 24 + s.HH = Day(t) * 24 + t.HH
  BY <1>1
<1>3. Day(s) = Day(t)
  BY ONLY <1>1, <1>2, HigherDigit
<1>4. Month(s) * 31 + s.dd = Month(t) * 31 + t.dd
  BY <1>3 DEF Day
<1>5. Month(s) = Month(t)
  BY ONLY <1>1, <1>4, HigherDigit
<1>6. s.yyyy * 12 + s.MM = t.yyyy * 12 + t.MM
  BY <1>5 DEF Month
<1> QED
  BY ONLY <1>1, <1>6, HigherDigit

\* The invariant holds initially, and every step keeps it.
LEMMA StampedInit == Init => Stamped
  BY DEF Init, Stamped

LEMMA StampedNext == Stamped /\ [Next]_<<now, versions>> => Stamped'
<1> SUFFICES ASSUME Stamped, [Next]_<<now, versions>> PROVE Stamped'
  OBVIOUS
<1> USE DEF Stamped
<1>1. CASE Wait
  <2>1. now' \in Moment /\ Instant(now) < Instant(now') /\ versions' = versions
    BY <1>1 DEF Wait
  <2>2. \A i \in DOMAIN versions : Instant(versions[i].at) <= Instant(now')
    <3> TAKE i \in DOMAIN versions
    <3>1. versions[i] \in Version
      OBVIOUS
    <3>2. versions[i].at \in Moment
      BY <3>1 DEF Version
    <3>3. Instant(versions[i].at) <= Instant(now)
      OBVIOUS
    <3>4. Instant(versions[i].at) \in Nat /\ Instant(now) \in Nat /\ Instant(now') \in Nat
      BY <2>1, <3>2, Fields
    <3> QED
      BY <2>1, <3>3, <3>4
  <2> QED
    BY <2>1, <2>2
<1>2. CASE Change
  <2> DEFINE new == [at |-> now, itemTime |-> dateAndTimeNow(now)]
  <2>1. now' = now /\ versions' = Append(versions, new)
    BY <1>2 DEF Change
  <2>2. new \in Version
    BY Fields DEF Version
  <2>3. /\ versions' \in Seq(Version)
        /\ DOMAIN versions = 1..Len(versions)
        /\ DOMAIN versions' = 1..(Len(versions) + 1)
        /\ Len(versions) \in Nat
        /\ \A i \in DOMAIN versions : versions'[i] = versions[i]
        /\ versions'[Len(versions) + 1] = new
    BY <2>1, <2>2
  <2>4. \A i \in DOMAIN versions' :
           /\ versions'[i].itemTime = dateAndTimeNow(versions'[i].at)
           /\ Instant(versions'[i].at) <= Instant(now)
    <3> TAKE i \in DOMAIN versions'
    <3>1. CASE i \in DOMAIN versions
      BY <2>3, <3>1
    <3>2. CASE i = Len(versions) + 1
      <4>1. versions'[i] = new
        BY <2>3, <3>2
      <4>2. Instant(now) \in Nat
        BY Fields
      <4> QED
        BY <4>1, <4>2
    <3> QED
      BY <2>3, <3>1, <3>2
  <2>5. ASSUME NEW i \in DOMAIN versions', NEW j \in DOMAIN versions', i < j
        PROVE  Instant(versions'[i].at) <= Instant(versions'[j].at)
    <3>1. CASE j \in DOMAIN versions
      <4>1. i \in DOMAIN versions
        BY <2>3, <2>5, <3>1
      <4> QED
        BY <2>3, <2>5, <3>1, <4>1
    <3>2. CASE j = Len(versions) + 1
      <4>1. versions'[j].at = now
        BY <2>3, <3>2
      <4>2. Instant(versions'[i].at) <= Instant(now)
        BY <2>4
      <4> QED
        BY <4>1, <4>2
    <3> QED
      BY <2>3, <3>1, <3>2
  <2> QED
    BY <2>1, <2>3, <2>4, <2>5
<1>3. CASE UNCHANGED <<now, versions>>
  BY <1>3
<1> QED
  BY <1>1, <1>2, <1>3 DEF Next

\* The invariant implies the order of the times read back.
LEMMA StampedInOrder == Stamped => ChangesStayInOrder
<1> SUFFICES ASSUME Stamped, NEW i \in DOMAIN versions, NEW j \in DOMAIN versions, i < j
             PROVE  LET readA == Instant(dateFromString(versions[i].itemTime))
                        readB == Instant(dateFromString(versions[j].itemTime))
                    IN  /\ readA <= readB
                        /\ readA < readB <=> Hour(versions[i].at) < Hour(versions[j].at)
  BY DEF ChangesStayInOrder
<1> DEFINE s == versions[i].at
           t == versions[j].at
<1>1. s \in Moment /\ t \in Moment /\ Instant(s) <= Instant(t)
  <2>1. /\ versions[i] \in Version
        /\ versions[j] \in Version
    BY DEF Stamped
  <2>2. s \in Moment /\ t \in Moment
    BY <2>1 DEF Version
  <2>3. Instant(s) <= Instant(t)
    BY DEF Stamped
  <2> QED
    BY <2>2, <2>3
<1>2. /\ Instant(dateFromString(versions[i].itemTime)) = Hour(s) * 60 + s.MM
      /\ Instant(dateFromString(versions[j].itemTime)) = Hour(t) * 60 + t.MM
  BY <1>1, ReadBack DEF Stamped
<1>3. Hour(s) <= Hour(t) /\ (Hour(s) = Hour(t) => s.MM = t.MM)
  BY <1>1, HoursInOrder, OneHourOneMonth
<1>4. /\ Hour(s) \in Nat /\ Hour(t) \in Nat /\ s.MM \in 1..12 /\ t.MM \in 1..12
  BY <1>1, Fields
<1> HIDE DEF s, t
<1> QED
  BY <1>2, <1>3, <1>4 DEF s, t

(***************************************************************************)
(* For every clock and any number of changes, the later of two versions of *)
(* an item never reads as the earlier one, and it reads as later exactly   *)
(* when the hour had changed (dateAndTimeNow with CompareList's parser).   *)
(***************************************************************************)
THEOREM TimesStayInOrder == Spec => []ChangesStayInOrder
<1>1. Spec => []Stamped
  BY StampedInit, StampedNext, PTL DEF Spec
<1> QED
  BY <1>1, StampedInOrder, PTL

=============================================================================
