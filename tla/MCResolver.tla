----------------------------- MODULE MCResolver ------------------------------
(* An instance of Resolver for TLC: an account the readings enumerate, one  *)
(* they do not, a well-known SID and one that cannot be looked up.          *)
EXTENDS Resolver

CONSTANTS staff, foreign, everyone, garbled, ann, bob

FourSIDs == {staff, foreign, everyone, garbled}
Enumerated == {staff, everyone}
Everyone == {everyone}
Garbled == {garbled}
TwoAccounts == {ann, bob}
TwoHomes == [sid \in FourSIDs |-> IF sid = foreign THEN 2 ELSE 1]
(* The holder of staff is created, renamed and deleted, that of foreign     *)
(* created and deleted.                                                     *)
SomeHolders ==
  [sid \in FourSIDs |->
     CASE sid = staff -> TwoAccounts [] sid = foreign -> {ann} [] OTHER -> {}]
=============================================================================
