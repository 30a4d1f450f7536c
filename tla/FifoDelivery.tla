---------------------------- MODULE FifoDelivery ----------------------------
(***************************************************************************)
(* What the outbound path promises its callers: the texts it accepted are  *)
(* attempted one chunk at a time, in the order of acceptance, each exactly *)
(* once, and the path closes only when nothing accepted is left.           *)
(***************************************************************************)
EXTENDS Naturals, Sequences

CONSTANTS Messages

VARIABLES
  accepted,   \* the messages accepted so far, in order
  performed,  \* the messages attempted so far, in order
  open        \* FALSE once the path is closed

vars == <<accepted, performed, open>>

TypeOK ==
  /\ accepted \in Seq(Messages)
  /\ performed \in Seq(Messages)
  /\ open \in BOOLEAN

\* A whole text is accepted at a time.
Accept ==
  /\ open
  /\ Len(accepted') > Len(accepted)
  /\ accepted' = accepted \o
       SubSeq(accepted', Len(accepted) + 1, Len(accepted'))
  /\ UNCHANGED <<performed, open>>

Perform ==
  /\ Len(performed) < Len(accepted)
  /\ performed' = Append(performed, accepted[Len(performed) + 1])
  /\ UNCHANGED <<accepted, open>>

Close ==
  /\ open
  /\ Len(performed) = Len(accepted)
  /\ open' = FALSE
  /\ UNCHANGED <<accepted, performed>>

Init ==
  /\ accepted = <<>>
  /\ performed = <<>>
  /\ open = TRUE

Next == Accept \/ Perform \/ Close

Spec == Init /\ [][Next]_vars
=============================================================================
