------------------------------ MODULE MCDummyUrb ------------------------------
(* DummyUrb with at most one bulk IN endpoint beside endpoint 0. *)
EXTENDS DummyUrb
CONSTANTS CtlUrbs, DataUrbs, MaxFaults
MCUrbs == CtlUrbs \cup DataUrbs
MCEpOf == [u \in MCUrbs |-> IF u \in CtlUrbs THEN 0 ELSE 1]

\* Bound: how many things are out of order at a time.
FewFaults == Cardinality(unlinked) + Cardinality(halted \cup wedged)
             + Cardinality(DataEps \ enabled)
             + (IF link THEN 0 ELSE 1) + (IF rh_running THEN 0 ELSE 1) <= MaxFaults
=============================================================================
