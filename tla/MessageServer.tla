--------------------------- MODULE MessageServer ---------------------------
(***************************************************************************)
(* What the controller promises to one switch, without buffers, counters   *)
(* or partial reads and writes: it first sends the whole setup sequence;   *)
(* then it takes the switch's messages one at a time, in the order in      *)
(* which they were sent, and finishes sending the answer to one before it  *)
(* looks at the next.  A message it has no case for ends the conversation. *)
(***************************************************************************)
EXTENDS Sequences, Naturals

CONSTANTS
    Message,     \* the messages the two sides exchange
    Setup,       \* the messages the controller opens the conversation with
    Answers(_),  \* the possible answers to a message, each a sequence
    Accepts(_)   \* whether the conversation goes on after a message

VARIABLES
    todo,   \* messages of the switch the controller has not handled yet
    owed,   \* messages the controller has still to finish sending
    open    \* the controller still serves the switch

vars == <<todo, owed, open>>

Init == /\ todo \in Seq(Message)
        /\ owed = Setup
        /\ open = TRUE

(* The switch says something: one more message behind the others.          *)
Arrive == /\ Len(todo') = Len(todo) + 1
          /\ SubSeq(todo', 1, Len(todo)) = todo
          /\ todo'[Len(todo')] \in Message
          /\ UNCHANGED <<owed, open>>

Handle == /\ open
          /\ owed = << >>
          /\ todo # << >>
          /\ todo' = Tail(todo)
          /\ owed' \in Answers(Head(todo))
          /\ open' = Accepts(Head(todo))

Send == /\ owed # << >>
        /\ \E k \in 1..Len(owed) : owed' = SubSeq(owed, k + 1, Len(owed))
        /\ UNCHANGED <<todo, open>>

Next == Arrive \/ Handle \/ Send

Spec == Init /\ [][Next]_vars

FairSpec == Spec /\ WF_vars(Handle) /\ WF_vars(Send)
=============================================================================
