---------------------------- MODULE MCDummySetup ----------------------------
(* An instance of DummySetup: up to two controllers, three bulk endpoints  *)
(* of which one has no streams.                                            *)
EXTENDS DummySetup

MCNums == {0, 1, 2, 33}
MCEps == {<<1, "in">>, <<1, "out">>, <<2, "in">>}
MCMaxStreams == [e \in MCEps |-> IF e = <<1, "in">> THEN 16 ELSE IF e = <<1, "out">> THEN 4 ELSE 0]
MCRequests == {2, 16}

\* SetStreams() is the loop over the endpoints, in any order.
ASSUME \A eps \in SUBSET MCEps, n \in {0, 1, 5, 16}, byte \in {0, 18, 255} :
    LET ns == [k \in StreamBytes |-> byte]
    IN  SetStreams(ns, eps, n)
            = FoldSet(LAMBDA e, acc : set_max_streams_for_pipe(acc, Number(e), n), ns, eps)
=============================================================================
