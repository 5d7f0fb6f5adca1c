---- MODULE Rendezvous ----
(***************************************************************************)
(* What a channel queue promises its users: items and calls are paired     *)
(* first-in first-out.  An item put while a call is waiting answers the    *)
(* longest waiting call; an item put while none is waiting is stored; a    *)
(* call takes the oldest stored item or waits.  Forget drops both the      *)
(* stored items and the waiting calls, which are then never answered.      *)
(***************************************************************************)
EXTENDS Sequences

CONSTANTS Item,      \* what can be put
          Call,      \* identities of get() calls
          Unasked,   \* answer of a call that has not been made
          Waiting    \* answer of a call that was made and has no item yet

VARIABLES items, callers, answer

abstractVars == <<items, callers, answer>>

Init ==
    /\ items = <<>>
    /\ callers = <<>>
    /\ answer = [c \in Call |-> Unasked]

Put(i) ==
    \/ /\ callers = <<>>
       /\ items' = Append(items, i)
       /\ UNCHANGED <<callers, answer>>
    \/ /\ callers # <<>>
       /\ answer' = [answer EXCEPT ![Head(callers)] = i]
       /\ callers' = Tail(callers)
       /\ UNCHANGED items

Get(c) ==
    /\ answer[c] = Unasked
    /\ \/ /\ items # <<>>
          /\ answer' = [answer EXCEPT ![c] = Head(items)]
          /\ items' = Tail(items)
          /\ UNCHANGED callers
       \/ /\ items = <<>>
          /\ answer' = [answer EXCEPT ![c] = Waiting]
          /\ callers' = Append(callers, c)
          /\ UNCHANGED items

Forget ==
    /\ items' = <<>>
    /\ callers' = <<>>
    /\ UNCHANGED answer

Next == (\E i \in Item : Put(i)) \/ (\E c \in Call : Get(c)) \/ Forget

Spec == Init /\ [][Next]_abstractVars
====
