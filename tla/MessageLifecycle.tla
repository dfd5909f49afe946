------------------------- MODULE MessageLifecycle -------------------------
(***************************************************************************)
(* What the worker promises of a message, with no word on inboxes, leases  *)
(* or processes: once accepted it waits, and it does not wait for ever. It *)
(* is answered, or it is set aside in the dead-letter queue where an       *)
(* operator finds it. Reconciliation implements this.                      *)
(***************************************************************************)
CONSTANTS
    Msgs,
    LateAnswers   \* may a message that was set aside be answered after all?

VARIABLE status

States == {"unknown", "waiting", "answered", "set_aside"}

LifecycleTypeOK == status \in [Msgs -> States]

Init == status = [m \in Msgs |-> "unknown"]

Become(m, s) == status' = [status EXCEPT ![m] = s]

Accept(m) == status[m] = "unknown" /\ Become(m, "waiting")

Answer(m) ==
    /\ \/ status[m] = "waiting"
       \/ status[m] = "set_aside" /\ LateAnswers
    /\ Become(m, "answered")

SetAside(m) == status[m] = "waiting" /\ Become(m, "set_aside")

Next == \E m \in Msgs : Accept(m) \/ Answer(m) \/ SetAside(m)

SafeSpec == Init /\ [][Next]_status

Settle(m) == status[m] = "waiting" /\ (Answer(m) \/ SetAside(m))

Spec == SafeSpec /\ \A m \in Msgs : WF_status(Settle(m))
===========================================================================
