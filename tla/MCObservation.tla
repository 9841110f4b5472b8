---------------------------- MODULE MCObservation ----------------------------
(***************************************************************************)
(* Bodies of up to two operators over two deps, the literals the           *)
(* identities are about and an absence; two of one operator, each affine   *)
(* in either dep, in a graph watched for up to three ticks.                *)
(***************************************************************************)
EXTENDS Observation

MCReadings == {-1, 2}
MCLiterals == {0, 1}
MCObserved == {Node("Sub", <<Var(1), Var(2)>>), Node("Mul", <<Var(1), Var(2)>>)}
MCLevels == {1, 2}
MCBatches == {<<1>>, <<1, 2>>}

Alone(n, want) == [m \in Kinds |-> IF m = n THEN want ELSE Nothing]
Recorder == [m \in Kinds |-> Values]

\* Nobody; one node; two inspected; a recorder, and a node inspected beside it.
MCWatches ==
    {<<Unwatched, Unwatched>>,
     <<Alone("peak", Values), Unwatched>>, <<Alone("pure", Block), Alone("peak", Block)>>,
     <<Recorder, Alone("total", Jac)>>, <<Recorder, Alone("scan", Block)>>}
=============================================================================
