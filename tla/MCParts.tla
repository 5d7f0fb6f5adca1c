---- MODULE MCParts ----
(***************************************************************************)
(* One run for the parts that share no state: evaluation on the R worker,  *)
(* the session over the PostMessage channel, the proxies, the REPL and its *)
(* editor.  A behaviour is one of the part that was picked at first; what  *)
(* the others' variables hold never changes.                               *)
(***************************************************************************)
EXTENDS Evaluation, PostMessage, Proxies, Repl, Editor

CONSTANTS f, g, u    \* files

Requested(n, ends, timer) == [asks |-> n, ends |-> ends, timer |-> timer]
MCInputLine ==
    {<<Requested(0, "value", TRUE)>>, <<Requested(1, "value", FALSE)>>,
     <<Requested(1, "value", FALSE), Requested(0, "error", FALSE)>>,
     <<Requested(0, "error", FALSE)>>,
     <<Requested(2, "value", FALSE), Requested(0, "value", FALSE)>>,
     <<Requested(0, "fatal", FALSE)>>}
MCEvaluated ==
    {Requested(0, "value", FALSE), Requested(2, "value", TRUE),
     Requested(1, "fatal", FALSE), Requested(0, "error", FALSE)}

MCFirstTabs == <<f, g>>

VARIABLE part        \* the part that moves

Init ==
    /\ part \in {"evaluation", "session", "proxies", "repl", "editor"}
    /\ EvalInit /\ SessionInit /\ ProxiesInit /\ ReplInit /\ EditorInit

Next ==
    \/ /\ part = "evaluation" /\ EvalNext
       /\ UNCHANGED <<part, postVars, proxyVars, replVars, editorVars>>
    \/ /\ part = "session" /\ SessionNext
       /\ UNCHANGED <<part, evalVars, proxyVars, replVars, editorVars>>
    \/ /\ part = "proxies" /\ ProxiesNext
       /\ UNCHANGED <<part, evalVars, postVars, replVars, editorVars>>
    \/ /\ part = "repl" /\ ReplNext
       /\ UNCHANGED <<part, evalVars, postVars, proxyVars, editorVars>>
    \/ /\ part = "editor" /\ EditorNext
       /\ UNCHANGED <<part, evalVars, postVars, proxyVars, replVars>>

Spec == Init /\ [][Next]_<<part, evalVars, postVars, proxyVars, replVars, editorVars>>
====
