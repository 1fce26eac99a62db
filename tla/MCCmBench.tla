----------------------------- MODULE MCCmBench -----------------------------
(* Instances of CmBench for TLC.                                           *)
EXTENDS CmBench

Asked(suiteList, systemList, keep, noInstall, timeout, check) ==
  [suites |-> suiteList, systems |-> systemList, keepGoing |-> keep,
   noInstall |-> noInstall, timeout |-> timeout, check |-> check]

\* Systems of each rank, out of order, one named twice and one misspelt; suites
\* of each kind, out of order and one misspelt.
MCRequests ==
  { Asked(<<"locomo", "bench">>,
          <<"full-history", "contextmemory", "full-history">>,
          keep, FALSE, TRUE, FALSE) : keep \in BOOLEAN }
  \cup { Asked(<<"dims", "beam">>, <<"full-history">>, FALSE, no, TRUE, FALSE)
         : no \in BOOLEAN }
  \cup { Asked(<<"bench">>, <<"fullhistory">>, FALSE, FALSE, FALSE, FALSE),
         Asked(<<"bem">>, <<"contextmemory">>, FALSE, FALSE, TRUE, FALSE),
         Asked(<<"longmemeval">>, <<"contextmemory", "supermemory">>, FALSE,
               FALSE, FALSE, TRUE) }

=============================================================================
