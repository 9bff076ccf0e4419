-------------------------- MODULE MCNoticeRequest --------------------------
(* Instances of NoticeRequest for TLC.                                     *)
EXTENDS NoticeRequest

JustAllow == {Allow}
\* A notice of any other kind is a touch notice that is not covered.
SomeKinds == {"touch", "confirm", "malformed"}
===========================================================================
