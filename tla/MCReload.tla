------------------------------ MODULE MCReload ------------------------------
(* Small instances of Reload for TLC: one configuration with two snapshots  *)
(* and one with none.                                                       *)
EXTENDS Reload, TLC
CONSTANTS v1, v2

MCVersion == {v1, v2}
MCCount == v1 :> 2 @@ v2 :> 0

\* Reloads one after another that may fail in the guest.
GuestFails == {[faults |-> {"guest"}, reloads |-> 2]}
=============================================================================
