---- MODULE MCSharedChannel ----
(* SharedChannel for TLC.  MCSharedChannel.cfg checks the safety of lines,   *)
(* requests, an event and an interrupt; MCSharedChannelProgress.cfg what an  *)
(* undisturbed channel does in the end; the other two what the docs say of   *)
(* stored messages and of emitted events.                                    *)
EXTENDS SharedChannel
====
