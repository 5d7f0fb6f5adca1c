---- MODULE MCAsyncQueue ----
(* AsyncQueue for TLC: MCAsyncQueue.cfg gives it two messages and five     *)
(* promises, so at most five put and get calls that find nothing to pair   *)
(* with, and any number of resets between them.                            *)
EXTENDS AsyncQueue
====
