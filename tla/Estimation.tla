----------------------------- MODULE Estimation -----------------------------
(***************************************************************************)
(* Estimations: "1w2d4h" and hours (src/src/models/ticket.rs). A week has  *)
(* 40 hours and a day 8. A text is the sequence of its parts, a number and *)
(* a unit; a number is counted in tenths, for texts like "0.5h". The unit  *)
(* "" stands for a number at the end without a unit, "?" for any character *)
(* that is no unit, and NaN for a unit without a number, or for digits and *)
(* points that are no number.                                              *)
(***************************************************************************)
EXTENDS Integers, SequencesExt

HoursPer == [w |-> 40, d |-> 8, h |-> 1]

NaN == -1

Invalid == -1

IsText(text) ==
    /\ text \in Seq({text[i] : i \in DOMAIN text})
    /\ \A i \in DOMAIN text : text[i].number \in Nat \cup {NaN}

\* The sum of a sequence of numbers. (A recursive function, where a fold would do for TLC.)
SumOf(s) ==
    LET sum[i \in 0 .. Len(s)] == IF i = 0 THEN 0 ELSE sum[i - 1] + s[i]
    IN sum[Len(s)]

\* The text is rejected whole, whatever its other parts are.
ParseEstimation(text) ==
    IF \/ text = <<>>
       \/ \E i \in DOMAIN text : text[i].unit \notin DOMAIN HoursPer \/ text[i].number = NaN
      THEN Invalid
      ELSE SumOf([i \in DOMAIN text |-> text[i].number * HoursPer[text[i].unit]])

\* f64::round of a number of hours counted in tenths.
Round(tenths) == (tenths + 5) \div 10

Part(number, unit) == IF number > 0 THEN <<[number |-> 10 * number, unit |-> unit]>> ELSE <<>>

\* Weeks, days and the rest, which alone is rounded, after the days have been taken.
FormatEstimation(hours) ==
    LET weeks == hours \div 400
        days == (hours - 400 * weeks) \div 80
        rest == hours - 400 * weeks - 80 * days
        parts == Part(weeks, "w") \o Part(days, "d") \o Part(Round(rest), "h")
    IN IF parts = <<>> THEN <<[number |-> 0, unit |-> "h"]>> ELSE parts
=============================================================================
