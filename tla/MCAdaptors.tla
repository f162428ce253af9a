---- MODULE MCAdaptors ----
(* Values for the model checker: a full report, a total alone, one without a prompt, one without a
   completion and none. *)
EXTENDS Adaptors

MCReports == {[prompt |-> 1, completion |-> 2, total |-> 3],
              [prompt |-> 0, completion |-> 0, total |-> 1],
              [prompt |-> 0, completion |-> 2, total |-> 2],
              [prompt |-> 3, completion |-> 0, total |-> 3],
              [prompt |-> 0, completion |-> 0, total |-> 0]}

====
