-------------------------- MODULE MCAnswerService --------------------------
(* Small instances of AnswerService. *)
EXTENDS AnswerService

CONSTANTS p1, p2, u1

Asked(norm, guards, context, cacheable) ==
    [question |-> [norm |-> norm, guards |-> guards, topic |-> "t"], scope |-> u1,
     context |-> context, cacheable |-> cacheable]

(* A question, the same in other words, with another guard, after new      *)
(* evidence was indexed, and searched without match metadata.              *)
Rephrased ==
    {Asked("a", "none", {p1}, TRUE), Asked("b", "none", {p1}, TRUE), Asked("c", "18", {p1}, TRUE),
     Asked("a", "none", {p1, p2}, TRUE), Asked("a", "none", {p1}, FALSE)}

(* "Concurrency in C" and "Concurrency in C++" normalize to the same words. *)
Symbolic == {Asked("a", "none", {p1}, TRUE), Asked("a", "c++", {p1}, TRUE)}
=============================================================================
