--------------------------- MODULE MCEventPipeline ---------------------------
(* Values for EventPipeline: two events of one source, which may arrive in *)
(* the wrong order; nobody can handle the second.                          *)
EXTENDS EventPipeline

MCSource == [e \in Envelopes |-> "source"]
MCSourceSequence == [e \in Envelopes |-> IF e = "second" THEN 2 ELSE 1]
MCSchemaOf == [e \in Envelopes |-> "schema"]
MCRange == [r \in Replays |-> <<1, 2>>]
=============================================================================
