---------------------------- MODULE LeaseService ----------------------------
(***************************************************************************)
(* What the Runtime lifecycle promises to everyone who holds a             *)
(* RuntimeLease, whatever threads race behind it.                          *)
(*                                                                         *)
(* Runtime generations are numbered by `epoch'.  Opening an epoch closes   *)
(* the previous one for good.  While an epoch is open its start is still   *)
(* undecided: it ends either by granting the one lease of that epoch or by *)
(* giving up.  A lease names the newest epoch, and once it has been        *)
(* revoked no lease for that epoch is ever granted again.                  *)
(***************************************************************************)
EXTENDS Integers

VARIABLES
    epoch,   \* number of the newest generation, 0 before the first one
    open,    \* the start of that generation is still undecided
    lease    \* generation of the current lease, 0 when there is none

lsVars == <<epoch, open, lease>>

LSInit ==
    /\ epoch = 0
    /\ open = FALSE
    /\ lease = 0

\* A new generation is opened; only an earlier failure or stop makes room.
Open ==
    /\ ~open /\ lease = 0
    /\ epoch' = epoch + 1
    /\ open' = TRUE
    /\ UNCHANGED lease

\* The start of the open generation succeeds: the only way to get a lease.
Grant ==
    /\ open
    /\ open' = FALSE
    /\ lease' = epoch
    /\ UNCHANGED epoch

\* The start of the open generation is cancelled or fails.
GiveUp ==
    /\ open
    /\ open' = FALSE
    /\ UNCHANGED <<epoch, lease>>

\* The current lease is withdrawn by a stop or by the death of the Runtime.
Revoke ==
    /\ lease # 0
    /\ lease' = 0
    /\ UNCHANGED <<epoch, open>>

LSNext == Open \/ Grant \/ GiveUp \/ Revoke

LSSpec == LSInit /\ [][LSNext]_lsVars
=============================================================================
