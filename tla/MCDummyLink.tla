----------------------------- MODULE MCDummyLink -----------------------------
(* DummyLink with few threads of each kind, for the configurations beside it. *)
EXTENDS DummyLink

\* Bound of the two-hub run: at most one change bit is pending, as a hub worker clears
\* the bits as it meets them, and the root hubs run (the one-hub runs suspend it).
FewChanges ==
    /\ \A g, h \in Hcds : 
          \A b \in port_status[g] \cap PORT_C_MASK, c \in port_status[h] \cap PORT_C_MASK :
              b = c /\ g = h
    /\ \A h \in Hcds : rh_state[h] = "running"
=============================================================================
