----------------------- MODULE MCSystemOperationLock ------------------------
(* Three system operations; o1 and o2 repeat one request, so that they     *)
(* have one operation id.                                                  *)
EXTENDS SystemOperationLock, TLC

CONSTANTS o1, o2, o3, i1, i3

MCOperationId == o1 :> i1 @@ o2 :> i1 @@ o3 :> i3

\* The two requests with one operation id are interchangeable.
Repeats == Permutations({o1, o2})

=============================================================================
