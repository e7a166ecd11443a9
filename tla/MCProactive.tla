----------------------------- MODULE MCProactive ------------------------------
(* Instances of Proactive for TLC: a day of two or six hours, with up to   *)
(* two categories and a reminder.                                          *)
EXTENDS Proactive

CONSTANTS recap, checkin, r1

Recap == {recap}
Both == {recap, checkin}
One == {r1}

StartOf == [c \in Category |-> IF c = recap THEN 3 ELSE 2]
EndOf == [c \in Category |-> IF c = recap THEN 4 ELSE 3]
(* The window of a day of two hours, whose first is quiet. *)
MorningOf == [c \in Category |-> 1]
NoonOf == [c \in Category |-> 2]

CooldownOf == [c \in Category |-> IF c = recap THEN 6 ELSE 8]
==============================================================================
