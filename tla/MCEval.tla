------------------------------ MODULE MCEval ------------------------------
(* Instances of Eval for TLC.                                              *)
EXTENDS Eval

\* Sessions by their times, ids told apart by their instance.
Entry(question, type, times, dates, probes) ==
  [question |-> question, type |-> type, dates |-> dates, probes |-> probes,
   sessions |-> [i \in DOMAIN times |->
                   [id |-> 10 * question + i, at |-> times[i]]]]

Line(command, system, data, max, judge) ==
  [command |-> command, system |-> system, data |-> data, max |-> max,
   judge |-> judge]

\* Datasets out of order, one longer than the window and with two sessions of
\* one time, one with a date missing.
Unsorted == << Entry(1, "multi", <<3, 1, 2, 2>>, 4, 1),
               Entry(2, "temporal", <<5, 4>>, 2, 1),
               Entry(3, "multi", <<6>>, 1, 1) >>
Mismatched == << Entry(4, "multi", <<1>>, 1, 1),
                 Entry(5, "multi", <<2, 3>>, 1, 1) >>

\* Two scenarios with several questions, and workloads of three sessions and
\* of none.
Scenarios == << Entry(6, "evolution", <<2, 1>>, 2, 2),
                Entry(7, "forgetting", <<1>>, 1, 1) >>
Workload(times) == << Entry(8, "bench", times, 0, 2) >>

MCJobs ==
  { Line("eval", "recency-2", Unsorted, 2, TRUE),
    Line("eval", "contextmemory", Tail(Unsorted), 0, FALSE),
    Line("eval", "full-history", Unsorted, 5, FALSE),
    Line("eval", "full-history", Mismatched, 1, FALSE),
    Line("dims", "contextmemory", Scenarios, 0, FALSE),
    Line("bench", "recency-2", Workload(<<1, 2, 3>>), 0, FALSE),
    Line("bench", "full-history", Workload(<< >>), 0, FALSE) }

=============================================================================
