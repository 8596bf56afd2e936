--------------------------------- MODULE Outbox ---------------------------------
(***************************************************************************)
(* What the saved queue of warnings promises: at-least-once delivery.  A   *)
(* warning that was posted leaves the outbox only after it was told; it    *)
(* may be told more than once, and also before it is posted.               *)
(***************************************************************************)
CONSTANT Messages

VARIABLES
  posted,  \* what the outbox still holds
  told     \* what has been told

outboxVars == <<posted, told>>

OutboxInit == posted = {} /\ told = {}

Tell == /\ \E m \in Messages : told' = told \cup {m}
        /\ UNCHANGED posted

\* New messages come in and some of those that were told go.
Update == /\ \E new \in SUBSET Messages, done \in SUBSET told :
               posted' = (posted \ done) \cup new
          /\ UNCHANGED told

OutboxNext == Tell \/ Update

OutboxSpec == OutboxInit /\ [][OutboxNext]_outboxVars

=============================================================================
