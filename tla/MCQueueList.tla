----------------------------- MODULE MCQueueList -----------------------------
(* Instances of QueueList for TLC. Nodes are interchangeable. Whose the      *)
(* events are matters to queue_remove: events of one type may have either    *)
(* owner, all others have one. Where callbacks queue events all have one.    *)
EXTENDS QueueList, TLC

Symmetry == Permutations(Node)
FewKinds ==
  \A n \in Node : rec[n].owner # Blank.owner =>
                    rec[n].type = Blank.type /\ "add" \notin calls
=============================================================================
