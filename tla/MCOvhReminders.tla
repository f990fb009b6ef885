---------------------------- MODULE MCOvhReminders ----------------------------
(* Finite values for the constants of OvhReminders. *)
EXTENDS OvhReminders, TLC

Told(expires, renew, deletes) ==
    [expires |-> expires, renew |-> renew, deletes |-> deletes, mode |-> "none"]
Billed(expires, renew, mode, ends) ==
    [expires |-> expires, renew |-> renew, deletes |-> FALSE, mode |-> mode, ends |-> ends]

\* An ordinary service whose billing names an earlier end of the same day than serviceInfos;
\* one that is about to be terminated at a time of its own, of which only serviceInfos
\* tells, without saying how it is renewed; and one that renews itself by its type.
Manual == [info |-> Told(5, "manual", FALSE), billing |-> Billed(4, "manual", "none", Never),
           policy |-> FALSE]
Ending == [info |-> Told(5, "unknown", TRUE), billing |-> Billed(Never, "manual", "none", 3),
           policy |-> FALSE]
Policy == [info |-> Told(Never, "none", FALSE),
           billing |-> Billed(Never, "none", "automatic", Never), policy |-> TRUE]
Facts == {Manual, Ending, Policy}
=============================================================================
