---------------------------- MODULE SpillChannel ----------------------------
(***************************************************************************)
(* What SynchronizedQueue promises its callers: a FIFO channel that can be *)
(* closed.  Items come out once, in the order they went in; a consumer is  *)
(* told "no more" (NULL) only after the channel was closed, and nothing    *)
(* comes out of a closed channel.  Locks, condition variables and sleeping *)
(* threads do not appear here; they are in SynchronizedQueue.              *)
(***************************************************************************)
EXTENDS Sequences

CONSTANTS Items,      \* everything a producer may ever put
          Consumers   \* the threads that take items out

VARIABLES content,    \* items put and not yet taken, oldest first
          closed,     \* has the channel been closed
          delivered,  \* items taken so far, in order
          ended       \* consumers that were told there is no more

chanVars == <<content, closed, delivered, ended>>

Init == /\ content = <<>>
        /\ closed = FALSE
        /\ delivered = <<>>
        /\ ended = {}

Put(d) == /\ content' = Append(content, d)
          /\ UNCHANGED <<closed, delivered, ended>>

Get == /\ ~closed
       /\ content # <<>>
       /\ content' = Tail(content)
       /\ delivered' = Append(delivered, Head(content))
       /\ UNCHANGED <<closed, ended>>

End(c) == /\ closed
          /\ ended' = ended \cup {c}
          /\ UNCHANGED <<content, closed, delivered>>

Close == /\ closed' = TRUE
         /\ UNCHANGED <<content, delivered, ended>>

Next == \/ \E d \in Items : Put(d)
        \/ Get
        \/ \E c \in Consumers : End(c)
        \/ Close

Spec == Init /\ [][Next]_chanVars
=============================================================================
