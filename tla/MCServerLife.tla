---------------------------- MODULE MCServerLife ----------------------------
(* Two connections and two event threads.  Which connection is called c1, and *)
(* which thread e1, makes no difference: c1 is accepted first, by e1.         *)
EXTENDS ServerLife

CONSTANTS c1, c2, e1, e2

Named == /\ conn'[c2].net # None => conn'[c1].net # None
         /\ conn'[c1].thread # e2
NamedSpec ==
    /\ Init /\ [][Next /\ Named]_vars
    /\ \A t \in Threads : WF_vars(ExecutePublish(t) \/ ExecuteClose(t) \/ ExecuteMedia(t))
=============================================================================
