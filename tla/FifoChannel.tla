------------------------------ MODULE FifoChannel ------------------------------
(***************************************************************************)
(* What a reliable ordered channel promises the application: the messages  *)
(* it accepted come out at the other end in order, each exactly once,      *)
(* until the session is closed.                                            *)
(***************************************************************************)
EXTENDS Sequences

CONSTANT Messages   \* what may be sent

VARIABLES queue,    \* accepted and not yet received
          out       \* what the last receive_message returned

vars == <<queue, out>>

Init == queue = <<>> /\ out = <<>>

Accept(m) == queue' = Append(queue, m) /\ UNCHANGED out

Deliver == /\ queue # <<>>
           /\ out' = <<Head(queue)>>
           /\ queue' = Tail(queue)

Close == queue' = <<>> /\ out' = <<>>

Next == (\E m \in Messages : Accept(m)) \/ Deliver \/ Close

Spec == Init /\ [][Next]_vars
==============================================================================
