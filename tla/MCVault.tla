------------------------------ MODULE MCVault ------------------------------
(* Model values and bounds for checking Vault with TLC. *)
EXTENDS VaultClaims

\* Open at time 2 only: time 1 is too early, time 3 too late.
Weekly ==
  [start_epoch |-> 1, end_deposits |-> 2, start_auction |-> 3,
   end_auction |-> 4, start_settlement |-> 5, end_epoch |-> 6,
   epoch_cadence |-> 5]

\* One second shorter than the epoch: refused by validate_epoch_times.
TooShort == [Weekly EXCEPT !.epoch_cadence = 4]

\* No time between the end of deposits and the auction: refused.
Abutting == [Weekly EXCEPT !.start_auction = 2]

MCSchedules == {Weekly, TooShort, Abutting}
=============================================================================
