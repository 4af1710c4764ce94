------------------------------ MODULE Parallel ------------------------------
(***************************************************************************)
(* What is said of parallel execution (parallel_semantics.py, parallel.rs).*)
(* The calls of a function are taken as parallel by their names, and are   *)
(* said to be equivalent to a sequential run if the function they hand out,*)
(* the worker, has no visible effect on what its iterations share.         *)
(*                                                                         *)
(* A call has marks, the prefixes and words found in its name ("gpu." is   *)
(* any of cupy, torch, jax), and a last name.  A worker, where the module defines it, is a list of statements   *)
(* on its argument x, its variable v and the list s, which is a parameter  *)
(* that every iteration is given or a variable of the module.              *)
(***************************************************************************)
EXTENDS Integers, SequencesExt

Statements == {"v = x", "v = s[:]", "s[:] = [x]", "s.append(x)", "global s = [x]", "s.clear()", "s[:], v = [x], x"}
\* The names that an assignment binds; a target inside a tuple is not looked at.
Bound(st) == CASE st \in {"v = x", "v = s[:]"} -> {"v"} [] st = "global s = [x]" -> {"s"} [] OTHER -> {}
Reads(st) == {"x"} \cup (IF st \in {"v = x", "global s = [x]"} THEN {} ELSE {"s"})
Assigned(st) ==
  CASE Bound(st) # {} -> {"Name"} [] st = "s[:] = [x]" -> {"Subscript"} [] st = "s[:], v = [x], x" -> {"Tuple"} [] OTHER -> {}
_function_features(w) ==
  LET body == Range(w.body)
      result == IF body \cap {"v = x", "v = s[:]", "s[:], v = [x], x"} = {} THEN "x" ELSE "v"
  IN  [global  |-> "global s = [x]" \in body,
       targets |-> UNION {Assigned(st) : st \in body},
       mutates |-> "s.append(x)" \in body,
       loaded  |-> {result} \cup UNION {Reads(st) : st \in body},
       local   |-> {"x"} \cup w.given \cup UNION {Bound(st) : st \in body}]
worker_effects(ws) ==
  IF ws = <<>> THEN [race |-> FALSE, cross |-> FALSE]
  ELSE LET f == _function_features(ws[1])
           cross == f.mutates \/ f.targets \cap {"Subscript", "Attribute"} # {}
       IN  [race |-> cross \/ f.global \/ ~f.loaded \subseteq f.local, cross |-> cross]

-----------------------------------------------------------------------------
Maps == {"map", "starmap", "map_async", "imap", "imap_unordered"}
Unordered(short) == short \in {"map_async", "imap_unordered"}
\* The classes of parallel calls, in the order in which they are tried.
Classes(c) ==
  <<[of |-> c.marks \cap {"dask.distributed.", "client."} # {} \/ c.short \in {"submit", "gather"},
     kind |-> "distributed_task", policy |-> "DISTRIBUTED"],
    [of |-> c.marks \cap {"dask.", "da."} # {} \/ c.short \in {"compute", "persist", "map_blocks", "map_partitions"},
     kind |-> "dask_graph",
     policy |-> IF c.backend = "UNKNOWN" THEN "UNKNOWN_EXECUTION_POLICY" ELSE "PARALLEL_DETERMINISTIC"],
    [of |-> c.short \in Maps /\ c.marks \cap {"pool", "executor"} # {}, kind |-> "parallel_map",
     policy |-> IF Unordered(c.short) THEN "PARALLEL_NONDETERMINISTIC" ELSE "PARALLEL_DETERMINISTIC"],
    [of |-> c.short \in {"Thread", "start"} \/ "thread" \in c.marks, kind |-> "thread", policy |-> "PARALLEL_NONDETERMINISTIC"],
    [of |-> "gpu." \in c.marks, kind |-> "gpu_kernel", policy |-> "GPU_PARALLEL"],
    [of |-> "np." \in c.marks /\ c.short \in {"sum", "prod", "mean", "dot", "matmul", "einsum"},
     kind |-> "threaded_blas_or_reduction", policy |-> "UNKNOWN_EXECUTION_POLICY"]>>
Class(c) == SelectInSeq(Classes(c), LAMBDA k : k.of)

Claims(kind, policy, short, effects, floating, reduction) ==
  [map |-> IF effects.race \/ effects.cross THEN "NOT_ESTABLISHED"
           ELSE IF kind = "parallel_map" \/ short \in Maps \cup {"map_blocks", "map_partitions"}
           THEN "ESTABLISHED_UNDER_PURITY_CONTRACT" ELSE "NOT_APPLICABLE",
   exact_reduction |-> IF reduction THEN "ESTABLISHED_UNDER_ASSOCIATIVITY" ELSE "NOT_APPLICABLE",
   order |-> IF reduction THEN "POSSIBLE" ELSE "NOT_APPLICABLE",
   bitwise |-> IF reduction \/ policy \in {"PARALLEL_NONDETERMINISTIC", "UNKNOWN_EXECUTION_POLICY"} THEN "NOT_ESTABLISHED"
               ELSE "ESTABLISHED_UNDER_SCHEDULER_CONTRACT",
   tolerance |-> IF floating /\ reduction THEN "REQUIRES_TOLERANCE_CONTRACT" ELSE "NOT_APPLICABLE",
   race |-> IF effects.race THEN "DETECTED" ELSE "NOT_DETECTED_STATICALLY",
   cross |-> IF effects.cross THEN "DETECTED" ELSE "NOT_DETECTED_STATICALLY"]
OperationOf(c, class, effects, floating) ==
  LET reduction == class.kind = "threaded_blas_or_reduction" \/ c.short \in {"sum", "prod", "mean"}
      policy == IF reduction /\ class.policy = "PARALLEL_DETERMINISTIC" THEN "PARALLEL_REORDERABLE" ELSE class.policy
  IN  [call |-> c, policy |-> policy, claims |-> Claims(class.kind, policy, c.short, effects, floating, reduction)]

Precedence ==
  <<"PARALLEL_NONDETERMINISTIC", "UNKNOWN_EXECUTION_POLICY", "GPU_PARALLEL", "DISTRIBUTED", "PARALLEL_REORDERABLE",
    "PARALLEL_DETERMINISTIC">>
aggregate_policy(operations) ==
  IF operations = <<>> THEN "SEQUENTIAL"
  ELSE Precedence[SelectInSeq(Precedence, LAMBDA p : \E o \in Range(operations) : o.policy = p)]
Overall(values) ==
  CASE values = {} -> "NOT_APPLICABLE" [] Cardinality(values) = 1 -> CHOOSE v \in values : TRUE [] Cardinality(values) > 1 -> "MIXED"
Keys == {"map", "exact_reduction", "order", "bitwise", "tolerance", "race", "cross"}
Unsettled(o) == o.policy = "UNKNOWN_EXECUTION_POLICY" \/ "DETECTED" \in {o.claims.race, o.claims.cross}
Analysed(operations) ==
  [status |-> IF \E o \in Range(operations) : Unsettled(o) THEN "PARALLEL_SEMANTICS_UNRESOLVED" ELSE "PARALLEL_SEMANTICS_RESOLVED",
   policy |-> aggregate_policy(operations), operations |-> operations,
   claims |-> [k \in Keys |-> Overall({o.claims[k] : o \in Range(operations)})]]
parallel_operation(q) ==
  LET parallel == SelectSeq(q.calls, LAMBDA c : Class(c) # 0)
  IN  Analysed([i \in DOMAIN parallel |->
                  OperationOf(parallel[i], Classes(parallel[i])[Class(parallel[i])], worker_effects(parallel[i].worker), q.floating)])

-----------------------------------------------------------------------------
(***************************************************************************)
(* What is promised: two iterations of the worker, on 1 and on 2.          *)
(***************************************************************************)
Effect(st, x, m) ==
  CASE st = "v = x" -> [m EXCEPT !.v[x] = <<x>>]
    [] st = "v = s[:]" -> [m EXCEPT !.v[x] = m.s]
    [] st \in {"s[:] = [x]", "global s = [x]"} -> [m EXCEPT !.s = <<x>>]
    [] st = "s.append(x)" -> [m EXCEPT !.s = Append(@, x)]
    [] st = "s.clear()" -> [m EXCEPT !.s = <<>>]
    [] st = "s[:], v = [x], x" -> [m EXCEPT !.s = <<x>>, !.v[x] = <<x>>]
RECURSIVE Outcomes(_, _)
\* All that may come of what is left to do, when the iterations take turns.
Outcomes(left, m) ==
  IF left = <<<<>>, <<>>>> THEN {m}
  ELSE UNION {Outcomes([left EXCEPT ![x] = Tail(@)], Effect(Head(left[x]), x, m)) : x \in {y \in {1, 2} : left[y] # <<>>}}
Interleaved(w) == Outcomes(<<w.body, w.body>>, [s |-> <<0>>, v |-> <<<<>>, <<>>>>])
\* A method that is not in the list of mutating ones, a target inside a tuple.
Overlooked(w) == Range(w.body) \cap {"s.clear()", "s[:], v = [x], x"} # {}

\* A worker that is not suspected gives what it gives in sequence, however its iterations take
\* turns; nothing is said of all calls that is not true of each, nor more when there are more
\* calls, nor in another order; bits are reproducible only without reductions and races in time.
ParallelIsSound(q, a) ==
  /\ \A o \in Range(a.operations) : \A w \in Range(o.call.worker) :
       o.claims.race # "DETECTED" /\ ~Overlooked(w) => Cardinality(Interleaved(w)) = 1
  /\ a.status = "PARALLEL_SEMANTICS_RESOLVED" => \A o \in Range(a.operations) : o.claims.map # "NOT_ESTABLISHED"
  /\ a.claims.bitwise = "ESTABLISHED_UNDER_SCHEDULER_CONTRACT" =>
       \A o \in Range(a.operations) :
         o.call.short \notin {"sum", "prod", "mean", "map_async", "imap_unordered", "Thread"} /\ o.claims.order # "POSSIBLE"
  /\ a.policy = "SEQUENTIAL" <=> a.operations = <<>>
  /\ q.calls # <<>> =>
       LET fewer == parallel_operation([q EXCEPT !.calls = Front(@)])
           other == parallel_operation([q EXCEPT !.calls = Reverse(@)])
       IN  /\ fewer.status = "PARALLEL_SEMANTICS_UNRESOLVED" => a.status = fewer.status
           /\ \A k \in Keys : fewer.claims[k] \in {"NOT_APPLICABLE", a.claims[k]} \/ a.claims[k] = "MIXED"
           /\ [a EXCEPT !.operations = <<>>] = [other EXCEPT !.operations = <<>>]
=============================================================================
