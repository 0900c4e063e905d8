---------------------------- MODULE CandidateSearch ----------------------------
(***************************************************************************)
(* The tool loop of a reflection (OpenAICodeResearcher.research): a coding *)
(* agent submits candidate programs, each is compared with the champion,   *)
(* and the loop keeps the best.  The agent is external: a response is any  *)
(* sequence of tool calls.  A measured candidate is named by what the loop *)
(* ranks it by, and the state the loop threads through a response is a     *)
(* record, so that a response is a fold over its calls.                    *)
(***************************************************************************)
EXTENDS Integers, SequencesExt

CONSTANTS
  Budget,        \* candidate_budget
  Improvements,  \* improvements over the champion that a comparison may measure
  MinImprovement,\* Objective.min_improvement
  NaN,           \* a score that is not a number
  Infinity,      \* the float that no finite one reaches
  CallsAtOnce    \* bound on the tool calls of one response

ASSUME SearchAssumption ==
  /\ Budget \in Nat \ {0}
  /\ Infinity \in Nat \ {0} /\ Improvements \subseteq (-Infinity)..Infinity /\ NaN \notin Int
  /\ MinImprovement \in Nat
  /\ CallsAtOnce \in Nat \ {0}

(* What _evaluation measures of a candidate that runs. *)
Candidates == [feasible : BOOLEAN, improvement : Improvements \cup {NaN}]

(* A submission is measured, or refused by validate_candidate_source, or it    *)
(* crashes, runs too long or returns something else in the subprocess.         *)
Calls == [tool : {"evaluate_candidate"}, measured : {{c} : c \in Candidates} \cup {{}}]
         \cup [tool : {"finish", "unknown"}, measured : {{}}]

Responses == UNION {[1..n -> Calls] : n \in 0..CallsAtOnce}

MaxAttempts == 2 * Budget + 2
MaxRounds == MaxAttempts + Budget + 6

Above(a, b) == a # NaN /\ b # NaN /\ a > b

(* Mutant: constraints do not count. *)
OutranksByScore(c, best) == best = {} \/ \A b \in best : Above(c.improvement, b.improvement)

(* (feasible, improvement) > best_rank, where the first best_rank is (False, -inf). *)
Outranks(c, best) ==
  IF best = {} THEN c.feasible \/ Above(c.improvement, -Infinity)
  ELSE \A b \in best : \/ c.feasible /\ ~b.feasible
                       \/ c.feasible = b.feasible /\ Above(c.improvement, b.improvement)

Unasked == [attempts |-> 0, evaluated |-> <<>>, best |-> {}, result |-> "open"]

(* One tool call.  `evaluated` is every candidate measured so far: its length  *)
(* is the code's `experiments`.                                                *)
Answer(search, call) ==
  IF search.result # "open" THEN search
  ELSE IF call.tool = "finish"
    THEN IF search.best = {} THEN search ELSE [search EXCEPT !.result = "proposal"]
  ELSE IF call.tool = "unknown" \/ search.attempts >= MaxAttempts THEN search
  ELSE [search EXCEPT
          !.attempts = @ + 1,
          !.evaluated = IF call.measured = {} THEN @ ELSE Append(@, CHOOSE c \in call.measured : TRUE),
          !.best = IF \E c \in call.measured : Outranks(c, @) THEN call.measured ELSE @]

(* One round: a response without a tool call is an error. *)
Round(search, response) ==
  LET after == FoldLeft(Answer, search, response) IN
  IF response = <<>> THEN [search EXCEPT !.result = "error"]
  ELSE IF after.result = "open" /\ Len(after.evaluated) >= Budget /\ after.best # {}
    THEN [after EXCEPT !.result = "proposal"]
  ELSE after

(* The searches that up to n rounds can lead to. *)
SearchesAfter[n \in 0..MaxRounds] ==
  IF n = 0 THEN {Unasked}
  ELSE LET before == SearchesAfter[n - 1] IN
       before \cup {Round(search, response) :
                      search \in {s \in before : s.result = "open"}, response \in Responses}

(* research: after the last round the best candidate is returned, if there is  *)
(* one.  The service may also raise, at any round.                             *)
Searches ==
  {[search EXCEPT !.result =
      IF @ # "open" THEN @ ELSE IF search.best = {} THEN "error" ELSE "proposal"] :
   search \in SearchesAfter[MaxRounds]}

Proposals == UNION {search.best : search \in {s \in Searches : s.result = "proposal"}}

(* Objective.accepts: both scores are finite, and so their difference; it is   *)
(* positive and reaches the minimum, and every required constraint passes, which are all    *)
(* that are measured (src/tasks/wiki_liftwing/task.py).                        *)
Accepts(c) ==
  /\ c.improvement \notin {NaN, Infinity, -Infinity}
  /\ c.improvement > 0 /\ c.improvement >= MinImprovement
  /\ c.feasible

(* The proposal is compared once more.  Its constraints may then come out      *)
(* otherwise, because the ratio of prediction times is one, or it may crash.   *)
Verdicts ==
  {"error"} \cup
  {IF Accepts([c EXCEPT !.feasible = feasible]) THEN "promoted" ELSE "rejected" :
   c \in Proposals, feasible \in BOOLEAN}
-----------------------------------------------------------------------------
(* The reference that the ranking is compared with: the proposal is a best     *)
(* candidate among those that pass their constraints, and one that does not    *)
(* pass only if none did.  Nothing is above an improvement that is not a       *)
(* number, nor below it: a candidate that passes with one may be proposed      *)
(* over a better one, if it was the first to pass.                             *)
Passing(search) == {i \in DOMAIN search.evaluated : search.evaluated[i].feasible}

IsBest(search) ==
  \A b \in search.best :
    \E i \in DOMAIN search.evaluated :
      /\ search.evaluated[i] = b
      /\ i \in Passing(search) \/ Passing(search) = {}
      /\ \A j \in DOMAIN search.evaluated :
           (j \in Passing(search) <=> b.feasible) => ~Above(search.evaluated[j].improvement, b.improvement)

SearchesAreSound ==
  \A search \in Searches : search.result = "proposal" => search.best # {} /\ IsBest(search)
=============================================================================
