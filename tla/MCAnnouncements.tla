--------------------------- MODULE MCAnnouncements ---------------------------
(* Instances of Announcements for TLC. *)
EXTENDS Announcements

CONSTANTS p1, r1, r2
=============================================================================
