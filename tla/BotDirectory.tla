----------------------------- MODULE BotDirectory -----------------------------
(***************************************************************************)
(* What a directory of moving bots promises: a query by position and       *)
(* radius finds every enrolled bot on the field that is within the radius, *)
(* and nobody who is not enrolled or is farther away.  Bots that have left *)
(* the field may be missed.                                                *)
(***************************************************************************)
EXTENDS Integers

CONSTANTS
    Bots,
    Positions,      \* where a bot can be: pairs of integers
    Field,          \* the positions the directory covers
    Queries         \* triples: centre and radius

VARIABLES
    enrolled,       \* the bots of the directory
    position,       \* where every bot is
    answers         \* what each query would return now

directoryVars == <<enrolled, position, answers>>

Within(p, q) ==
    (p[1] - q[1]) * (p[1] - q[1]) + (p[2] - q[2]) * (p[2] - q[2]) <= q[3] * q[3]

Promise(who, where, found) ==
    \A q \in Queries :
        /\ found[q] \subseteq {b \in who : Within(where[b], q)}
        /\ {b \in who : where[b] \in Field /\ Within(where[b], q)} \subseteq found[q]

Init ==
    /\ enrolled = {}
    /\ position \in [Bots -> Positions]
    /\ Promise(enrolled, position, answers)

Enroll(b) == enrolled' = enrolled \cup {b} /\ UNCHANGED position
Remove(b) == enrolled' = enrolled \ {b} /\ UNCHANGED position
Travel(b) ==
    /\ \E p \in Positions : position' = [position EXCEPT ![b] = p]
    /\ UNCHANGED enrolled

Next ==
    /\ \E b \in Bots : Enroll(b) \/ Remove(b) \/ Travel(b)
    /\ Promise(enrolled', position', answers')

Spec == Init /\ [][Next]_directoryVars
===============================================================================
