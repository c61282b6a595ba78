---------------------------- MODULE MCThreadPool ----------------------------
(* Two workers, three tasks from outside, one of which submits a fourth.     *)
EXTENDS ThreadPool

MCNested == [t \in {"t1"} |-> "t4"]
=============================================================================
