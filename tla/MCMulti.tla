------------------------------ MODULE MCMulti -------------------------------
EXTENDS MultiCPU

(* Jobs that may run on processor 1 only; the working set of one is as       *)
(* random jobs may have it, 0, which is also the number of a processor.      *)
OnOne(run, size) == [run_time |-> run, working_set_size |-> size, affinity |-> {1}]
MCWorkloads == {<<OnOne(a, 0), OnOne(3, size), OnOne(b, 3)>> : a, b \in {2, 3}, size \in {2, 3}}
MCOptions ==
  [per_cpu : {TRUE}, peek_interval : {1, 2}, time_slice : {1, 2}, random_order : BOOLEAN,
   cache_size : {4}, warmup_time : {1, 2}]
=============================================================================
