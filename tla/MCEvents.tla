------------------------------ MODULE MCEvents ------------------------------
(***************************************************************************)
(* Model-checks the event store on two batches, one of two events with one *)
(* of registry-ui's own in between, and one of nothing to store.           *)
(***************************************************************************)
EXTENDS EventStore

CONSTANTS push, pull, own

MCEventSet == {push, pull, own}

MCBatches == << <<push, own, pull>>, <<own>> >>
=============================================================================
