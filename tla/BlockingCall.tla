---- MODULE BlockingCall ----
(***************************************************************************)
(* What a synchronous call from the worker to the main thread promises.    *)
(* Calls nest: while one waits, an event handler may make another.  A call *)
(* returns the response the main thread gave to that call, innermost call  *)
(* first; an interrupt may abandon every call that is still open, and what *)
(* the main thread answers to those is never seen.                         *)
(***************************************************************************)
EXTENDS Integers, Sequences

CONSTANTS Task,       \* calls
          Response,   \* what the main thread can answer
          NoResponse

VARIABLES calls,      \* the open calls, innermost last
          made,       \* the calls made so far
          answer,     \* what the main thread answered each call
          result      \* what each call returned to its caller

abstractVars == <<calls, made, answer, result>>

Init ==
    /\ calls = <<>>
    /\ made = {}
    /\ answer = [t \in Task |-> NoResponse]
    /\ result = [t \in Task |-> NoResponse]

Call(t) ==
    /\ t \notin made
    /\ made' = made \cup {t}
    /\ calls' = Append(calls, t)
    /\ UNCHANGED <<answer, result>>

Answer(t, r) ==
    /\ t \in made
    /\ answer[t] = NoResponse
    /\ answer' = [answer EXCEPT ![t] = r]
    /\ UNCHANGED <<calls, made, result>>

Return ==
    /\ calls # <<>>
    /\ LET t == calls[Len(calls)]
       IN  /\ answer[t] # NoResponse
           /\ result' = [result EXCEPT ![t] = answer[t]]
           /\ calls' = SubSeq(calls, 1, Len(calls) - 1)
    /\ UNCHANGED <<made, answer>>

Abandon ==
    /\ calls' = <<>>
    /\ UNCHANGED <<made, answer, result>>

Next ==
    \/ \E t \in Task : Call(t)
    \/ \E t \in Task, r \in Response : Answer(t, r)
    \/ Return
    \/ Abandon

Spec == Init /\ [][Next]_abstractVars
====
