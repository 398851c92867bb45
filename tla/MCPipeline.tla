------------------------------ MODULE MCPipeline ------------------------------
(* Pipeline for TLC: two jobs over two servers, which may be the same one. *)
(* The first server's own verification block switches restore tests off,   *)
(* the second follows config.yaml.                                         *)
EXTENDS Pipeline

MCInit ==
    /\ Init
    /\ host[1] = 1
    /\ override = [h \in Hosts |-> IF h = 1 THEN "off" ELSE "unset"]

MCSpec == MCInit /\ [][Next]_vars /\ \A j \in Jobs : WF_vars(Step(j))
=============================================================================
