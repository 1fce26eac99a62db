------------------------------- MODULE Recall -------------------------------
(***************************************************************************)
(* The read path of the ETMC store (core/src/store.cpp) beside its writers *)
(* (MemoryStore): MemoryEngine.recall compiles a question into a plan,     *)
(* searches with it and packs the evidence.  compile and search lock the   *)
(* store separately, so writers run between the two; pack reads only what  *)
(* search returned.                                                        *)
(*                                                                         *)
(* Abstracted: which candidates match the words, the vector or the         *)
(* entities of a question is a choice (any subset), and so are the ranking *)
(* among them, the cells that carry a tag of the question and how much of  *)
(* the ranking the token budget admits.  Kept: which cells may be          *)
(* candidates, what the projection adds, and every filter on the way out.  *)
(***************************************************************************)
EXTENDS MemoryStore, FiniteSetsExt

CONSTANTS
  Cap,            \* candidate_cap: how many cells a search returns
  MaxChainDepth   \* kMaxChainDepth: versions a walk follows

ASSUME CapAssumption == Cap \in Nat \ {0} /\ MaxChainDepth \in Nat \ {0}

VARIABLES
  plan,      \* the plan the reader has compiled, or NoPlan
  answer,    \* the evidence the search that just ended returned, or NoAnswer
  asked,     \* the cells somebody has asked to forget; history
  buried     \* of these the ones no projection pointed at then; history

readVars == <<plan, answer, asked, buried>>

Modes == {"Current", "Historical", "Interval", "Relative", "None"}

Plan == [mode  : Modes,
         start : Times \cup {0},
         end   : Times \cup { t + 1 : t \in Times },
         hint  : Keys \cup {NoKey},
         hops  : {1, 2}]

NoPlan == [mode |-> "none yet"]

\* items: the packed cells; current: the projection's cell in Current mode.
Answer == [items : SUBSET (1 .. MaxId), current : 0 .. MaxId,
           sufficient : BOOLEAN]

NoAnswer == [items |-> {}, current |-> NoId, sufficient |-> FALSE]

----------------------------------------------------------------------------
(* compile.                                                                *)

\* What the words of a question ask for: a mode, for Interval the day it
\* names, the key subject and predicate words point at, the hops.
Question ==
  [mode : Modes, day : Times, hint : Keys \cup {NoKey}, hops : {1, 2}]

\* A question without temporal words about a key that has a projection is a
\* question about the current state.
ModeOf(q) ==
  IF q.mode = "None" /\ Current(q.hint) # NoId THEN "Current" ELSE q.mode

Compiled(q, at) ==
  [mode  |-> ModeOf(q),
   start |-> IF q.mode = "Interval" THEN q.day ELSE 0,
   end   |-> IF q.mode = "Interval" THEN q.day + 1 ELSE at,
   hint  |-> q.hint,
   hops  |-> q.hops]

----------------------------------------------------------------------------
(* active_candidates.                                                      *)

\* MemoryCell::active_at.
ActiveAt(i, t) ==
  /\ cells[i].status # "Forgotten"
  /\ cells[i].observed <= t
  /\ cells[i].from <= t
  /\ cells[i].until > t

\* Mutant of InWindow: an interval wants windows that cover its end.
InWindowAtEnd(i, p) ==
  \/ p.mode # "Historical" /\ ActiveAt(i, p.end)
  \/ /\ p.mode = "Historical" /\ cells[i].observed <= p.end
     /\ \/ cells[i].status = "Active" /\ cells[i].from <= p.end
        \/ cells[i].status = "Superseded" /\ cells[i].until <= p.end

\* The time rule of each mode for one cell.
InWindow(i, p) ==
  \/ p.mode \in {"Current", "None"} /\ ActiveAt(i, p.end)
  \/ /\ p.mode = "Historical" /\ cells[i].observed <= p.end
     /\ \/ cells[i].status = "Active" /\ cells[i].from <= p.end
        \/ cells[i].status = "Superseded" /\ cells[i].until <= p.end
  \/ /\ p.mode \in {"Interval", "Relative"} /\ cells[i].observed <= p.end
     /\ cells[i].status # "Forgotten"
     /\ cells[i].from <= p.end /\ cells[i].until > p.start

\* Mutant of Chain: the walk starts at the root and finds only it.
ChainRoot(k) == IF Current(k) = NoId THEN {} ELSE {projection[k].root}

\* The versions a walk from the projection's cell visits, newest (that is
\* with the highest id) first.
Chain(k) ==
  IF Current(k) = NoId THEN {}
  ELSE LET line == Lineage(cells, Current(k))
       IN { i \in line :
              Cardinality({ j \in line : j > i }) < MaxChainDepth }

\* The cells of the window among the tagged ones in the order of their ids,
\* then the rest of the projection's chain, cut at four times the cap.
Candidates(p, tagged) ==
  LET window == { i \in tagged : InWindow(i, p) }
      chain == { i \in Chain(p.hint) : cells[i].status # "Forgotten" } \ window
      limit == 4 * Cap
  IN { i \in window : Cardinality({ j \in window : j < i }) < limit }
     \cup
     { i \in chain :
         Cardinality(window) + Cardinality({ j \in chain : j > i }) < limit }

\* The plan search falls back to when nothing is a candidate.
Widened(p) == [p EXCEPT !.mode = "None", !.start = 0]

Region(p, tagged) ==
  IF Candidates(p, tagged) # {} THEN Candidates(p, tagged)
  ELSE Candidates(Widened(p), DOMAIN cells)

----------------------------------------------------------------------------
(* search and pack.                                                        *)

\* The projection channel: the chain's members observed by the plan's end, in
\* Current mode the newest of them only.
ProjectionHits(p) ==
  LET seen == { i \in Chain(p.hint) :
                  /\ cells[i].observed <= p.end
                  /\ cells[i].status # "Forgotten" }
  IN IF p.mode = "Current" /\ seen # {} THEN {Max(seen)} ELSE seen

\* The filters on the way out.
Kept(p, matched) ==
  { i \in matched \cup ProjectionHits(p) :
      /\ cells[i].status # "Forgotten"
      /\ p.mode = "Current" => ActiveAt(i, p.end) \/ i \in ProjectionHits(p) }

\* Mutant of Neighbours: whatever is not active is taken for history.
NeighboursNotActive(p, S) ==
  { i \in DOMAIN cells :
      /\ \E e \in edges :
           /\ e.type = "Related" => p.hops = 2
           /\ \/ e.src \in S /\ e.dst = i
              \/ e.dst \in S /\ e.src = i
      /\ \/ ActiveAt(i, p.end)
         \/ p.mode = "Historical" /\ cells[i].status # "Active" }

\* One hop of add_expanded from the cells in S.
Neighbours(p, S) ==
  { i \in DOMAIN cells :
      /\ \E e \in edges :
           /\ e.type = "Related" => p.hops = 2
           /\ \/ e.src \in S /\ e.dst = i
              \/ e.dst \in S /\ e.src = i
      /\ \/ ActiveAt(i, p.end)
         \/ p.mode = "Historical" /\ cells[i].status = "Superseded" }

Expanded(p, S) ==
  LET one == Neighbours(p, S) \ S
      two == IF p.hops = 2 THEN Neighbours(p, one) ELSE {}
  IN (one \cup two) \ S

\* The results a search can return: the best of the kept cells, the
\* projection's first in Current mode, and what expansion adds up to the cap.
Results(p, matched) ==
  LET kept == Kept(p, matched)
      first == IF p.mode = "Current" THEN ProjectionHits(p) ELSE {}
      tops == { S \in SUBSET kept :
                  /\ Cardinality(S) = Min({Cap, Cardinality(kept)})
                  /\ first \subseteq S }
  IN UNION { { top \cup more :
                 more \in { E \in SUBSET Expanded(p, top) :
                              Cardinality(E) =
                                Min({Cap - Cardinality(top),
                                     Cardinality(Expanded(p, top))}) } }
             : top \in tops }

\* pack: some first part of the ranking, never empty when the ranking is not.
Packed(p, hits) ==
  LET first == IF p.mode = "Current" THEN ProjectionHits(p) ELSE {}
  IN { items \in SUBSET hits :
         /\ hits # {} => items # {}
         /\ first \cap hits \subseteq items }

\* Is the evidence enough to answer?
Sufficient(p, items) ==
  /\ items # {}
  /\ p.mode = "Current" => items \cap ProjectionHits(p) # {}
  /\ p.mode = "Historical" =>
       \E i \in items : cells[i].status = "Superseded"
  /\ p.mode = "None" /\ p.hops = 2 => Cardinality(items) >= 2

----------------------------------------------------------------------------
(* The reader and the writers.                                             *)

ReadInit ==
  Init /\ plan = NoPlan /\ answer = NoAnswer /\ asked = {} /\ buried = {}

Compile ==
  /\ plan = NoPlan
  /\ \E q \in Question, at \in Times : plan' = Compiled(q, at)
  /\ answer' = NoAnswer
  /\ UNCHANGED <<vars, asked, buried>>

\* Everything some search with plan p can return: it looks at a region, some
\* of it matches, the best of that is kept and the first part of it packed.
Evidence(p) ==
  LET regions == { Region(p, tagged) : tagged \in SUBSET DOMAIN cells }
      results == UNION { Results(p, matched) :
                           matched \in UNION { SUBSET r : r \in regions } }
  IN UNION { Packed(p, hits) : hits \in results }

Search ==
  /\ plan # NoPlan
  /\ \E items \in Evidence(plan) :
       answer' = [items |-> items,
                  current |-> IF plan.mode = "Current"
                              THEN Max(ProjectionHits(plan) \cup {NoId})
                              ELSE NoId,
                  sufficient |-> Sufficient(plan, items)]
  /\ plan' = NoPlan
  /\ UNCHANGED <<vars, asked, buried>>

IsCurrent(i) == i = Current(cells[i].key)

WriterSteps ==
  /\ \/ (\E in \in Input : Reconcile(in)) /\ UNCHANGED <<asked, buried>>
     \/ \E i \in DOMAIN cells :
          /\ Forget(i)
          /\ asked' = asked \cup {i}
          /\ buried' = IF IsCurrent(i) THEN buried ELSE buried \cup {i}
  /\ plan' = plan /\ answer' = NoAnswer

ReadNext == Compile \/ Search \/ WriterSteps

ReadSpec == ReadInit /\ [][ReadNext]_<<vars, readVars>>

----------------------------------------------------------------------------
(* Properties.                                                             *)

\* The step that answers the plan.
Searched == plan # NoPlan /\ plan' = NoPlan

\* What a reader may know of a key at t: its versions observed by t whose
\* status is not Forgotten (see EvidenceFitsQuestion).
Known(k, t) ==
  { i \in Versions(k) :
      cells[i].observed <= t /\ cells[i].status # "Forgotten" }

\* A walk from the current cell of a key reaches all of its versions.
WalkIsWhole(k) == Cardinality(Versions(k)) <= MaxChainDepth

\* A question about the current state of a key is answered with the newest
\* version the reader may know, whatever was written between compile and
\* search, and then counts as answered; without one it abstains.  Of a chain
\* that is longer than a walk the code does not see the older versions.
CurrentIsNewestKnown ==
  [][ /\ Searched /\ plan.mode = "Current"
      /\ plan.hint # NoKey /\ WalkIsWhole(plan.hint)
      =>
        LET known == Known(plan.hint, plan.end)
        IN IF known = {} THEN answer'.current = NoId /\ ~answer'.sufficient
           ELSE /\ answer'.current \in known \cap answer'.items
                /\ answer'.sufficient
                /\ \A i \in known :
                     /\ cells[i].from <= cells[answer'.current].from
                     /\ i <= answer'.current
    ]_<<vars, readVars>>

\* Besides the projection's cell, the evidence for a current question holds
\* at most one version of any key: windows of one chain do not overlap.
OneTruthPerKey ==
  [][ Searched /\ plan.mode = "Current" =>
        \A k \in Keys :
          LET others == (answer'.items \cap Versions(k)) \ {answer'.current}
          IN Cardinality(others) <= 1
    ]_<<vars, readVars>>

\* A cell somebody has asked to forget is no evidence, with one exception: a
\* cell that was the current one of its key and that a newer one has replaced
\* since, for reconcile then writes "Superseded" over "Forgotten".  It is none
\* as long as it is current, and one that was replaced or late already when it
\* was forgotten never is again, whatever is reconciled or forgotten after it
\* and whatever was compiled before.
\* Besides, evidence fits the question but in three ways, all of them with the
\* version chains: a current question may be answered with a version that is
\* not active, as its one projection hit; one about the past may bring later
\* observations, of the key it hints at or by expansion to a superseded
\* version.
EvidenceFitsQuestion ==
  [][ Searched =>
        \A i \in answer'.items :
          /\ i \notin buried /\ (i \in asked => ~IsCurrent(i))
          /\ plan.mode = "Current" =>
               ActiveAt(i, plan.end) \/ i = answer'.current
          /\ cells[i].observed > plan.end =>
               \/ plan.mode # "Current" /\ cells[i].key = plan.hint
               \/ plan.mode = "Historical" /\ cells[i].status = "Superseded"
    ]_<<vars, readVars>>

\* A question about a day can find the version that was true when the day
\* began, unless it was observed later or forgotten - in a store with no more
\* cells than the candidates are cut at.
DayFindsItsTruth ==
  /\ plan # NoPlan /\ plan.mode = "Interval"
  /\ Cardinality(DOMAIN cells) <= 4 * Cap
  =>
    \A k \in Keys : \A v \in T!AsOf(k, plan.start) :
      v.ver \in Known(k, plan.end) => v.ver \in Candidates(plan, DOMAIN cells)

=============================================================================
