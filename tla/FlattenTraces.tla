---------------------------- MODULE FlattenTraces ----------------------------
(***************************************************************************)
(* Call.UnmarshalJSON and flattenTraces (client.go:674-734) as they are    *)
(* written, recursive over the tree of calls: the reference for Flatten,   *)
(* which works on the list that EvmLedger keeps of the tree's nodes.       *)
(***************************************************************************)
EXTENDS EvmLedger

(* The calls made by call i: those it is the innermost call around.        *)
Made(list, i) ==
    {j \in 1..Len(list) : i \in list[j].within /\ \A k \in list[j].within : k <= i}

(* Node i of the tree that the tracer reports, decoded.                    *)
UnmarshalJSON(list, i) ==
    [call |-> list[i], revert |-> list[i].error, calls |-> Made(list, i)]

(* One activation of flattenTraces, for node i: the node itself, and then  *)
(* what the activations for its children return (visit), in the order of   *)
(* the calls.  revert: the caller has set the node's Revert.               *)
Visit(list, i, revert, visit) ==
    LET data == UnmarshalJSON(list, i)
        failed == data.revert \/ revert
        results[j \in i..Len(list)] ==
            IF j = i THEN <<Flat(data.call, failed)>>
            ELSE IF j \in data.calls THEN results[j-1] \o visit[j][failed]
            ELSE results[j-1]
    IN  results[Len(list)]

flattenTraces(list) ==
    LET visit[i \in 1..Len(list)] ==
            [revert \in BOOLEAN |-> Visit(list, i, revert, visit)]
    IN  visit[1][FALSE]

(* traceOps gets the calls in the order in which flattenTraces visits the  *)
(* tree, with the errors that it hands down (client.go:713-734), however   *)
(* the calls were nested and wherever one failed.                          *)
FlattenedAsVisited ==
    stage = "loop" /\ at = 1 => calls = flattenTraces(trace)
=============================================================================
