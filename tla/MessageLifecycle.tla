-------------------------- MODULE MessageLifecycle --------------------------
(***************************************************************************)
(* What the message endpoint promises about an assistant message, without  *)
(* saying how a request is served: the row appears PENDING, settles once   *)
(* and then stays as it is until its conversation is deleted.  One change  *)
(* of mind is part of the promise: an answer may still turn into a failure,*)
(* because the handler that cannot learn whether its save committed        *)
(* reports, and stores, a failure.  MessageStream implements this module.  *)
(***************************************************************************)

CONSTANT Messages   \* the assistant messages that may ever be created

VARIABLE state      \* state[m]: where message m is in its life

Settled == {"answered", "stopped", "failed"}

States == {"absent", "pending", "removed"} \cup Settled

LifecycleTypeOK == state \in [Messages -> States]

Init == state = [m \in Messages |-> "absent"]

Move(m, from, to) ==
    /\ state[m] \in from
    /\ state' = [state EXCEPT ![m] = to]

\* The request's transaction stores the empty assistant row.
Create(m) == Move(m, {"absent"}, "pending")

\* The handler stores the answer, the part the user let it stream, or the error.
Settle(m) == \E s \in Settled : Move(m, {"pending"}, s)

\* The save of the answer committed, but the handler was told that it failed.
Overrule(m) == Move(m, {"answered"}, "failed")

\* Deleting a conversation deletes its messages.
Remove(M) ==
    state' = [m \in Messages |->
                 IF m \in M /\ state[m] # "absent" THEN "removed" ELSE state[m]]

Next == \/ \E m \in Messages : Create(m) \/ Settle(m) \/ Overrule(m)
        \/ \E M \in SUBSET Messages : Remove(M)

Spec == Init /\ [][Next]_state

=============================================================================
