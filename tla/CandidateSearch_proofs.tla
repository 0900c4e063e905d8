------------------------ MODULE CandidateSearch_proofs ------------------------
(***************************************************************************)
(* The search proposes the best candidate, for every budget and every      *)
(* conversation within it.  The fold over a response and the recursion     *)
(* over rounds are functions that TLA+ defines by CHOOSE: each             *)
(* is shown to exist by extending one on a smaller domain, and what        *)
(* they compute follows by climbing from 0.                                *)
(***************************************************************************)
EXTENDS CandidateSearch, TLAPS, SequenceTheorems, WellFoundedInduction

(* Induction over an interval, for a set. *)
LEMMA Climb ==
  ASSUME NEW N \in Nat, NEW T, 0 \in T, \A n \in 0..(N - 1) : n \in T => n + 1 \in T
  PROVE  0..N \subseteq T
<1> DEFINE missing == {n \in 0..N : n \notin T}
<1> SUFFICES ASSUME missing # {} PROVE FALSE
  OBVIOUS
<1>1. missing \subseteq Nat
  OBVIOUS
<1>2. PICK least \in missing : \A n \in missing : ~(<<n, least>> \in OpToRel(<, Nat))
  BY <1>1, NatLessThanWellFounded, WFMin
<1>3. \A n \in missing : ~(n < least)
  BY <1>1, <1>2 DEF OpToRel
<1>4. least \in 1..N
  OBVIOUS
<1>5. least - 1 \in 0..(N - 1) /\ least - 1 \notin missing
  BY <1>3, <1>4
<1>6. least - 1 \in T /\ (least - 1) + 1 = least
  BY <1>4, <1>5
<1>. QED
  BY <1>5, <1>6

-----------------------------------------------------------------------------
(* A response                                                               *)

(* The fold of a response over the calls of each set, the last call last. *)
FoldOf(search, response, calls, answered) ==
  answered = [s \in SUBSET calls |->
                IF s = {} THEN search ELSE Answer(answered[s \ {Max(s)}], response[Max(s)])]

After(search, response) == FoldLeft(Answer, search, response)

LEMMA FoldChooses ==
  ASSUME NEW search, NEW response
  PROVE  After(search, response)
           = (CHOOSE answered : FoldOf(search, response, DOMAIN response, answered))[DOMAIN response]
BY DEF After, FoldLeft, MapThenFoldSet, FoldOf

LEMMA LastIs ==
  ASSUME NEW n \in Nat, NEW s \in SUBSET (1..(n + 1)), n + 1 \in s
  PROVE  Max(s) = n + 1
<1>1. n + 1 \in s /\ \A i \in s : n + 1 >= i
  OBVIOUS
<1>2. \A top \in s : (\A i \in s : top >= i) => top = n + 1
  BY <1>1
<1>. QED
  BY <1>1, <1>2 DEF Max

(* A fold over n calls extends to one over n + 1. *)
LEMMA FoldExtends ==
  ASSUME NEW search, NEW response, NEW n \in Nat, NEW f, FoldOf(search, response, 1..n, f)
  PROVE  \E g : FoldOf(search, response, 1..(n + 1), g)
<1> DEFINE g == [s \in SUBSET (1..(n + 1)) |->
                   IF n + 1 \in s THEN Answer(f[s \ {n + 1}], response[n + 1]) ELSE f[s]]
<1>1. ASSUME NEW s \in SUBSET (1..(n + 1)), n + 1 \in s
      PROVE  g[s] = Answer(g[s \ {Max(s)}], response[Max(s)])
  <2>1. Max(s) = n + 1
    BY <1>1, LastIs
  <2>2. s \ {n + 1} \in SUBSET (1..(n + 1)) /\ n + 1 \notin s \ {n + 1}
    OBVIOUS
  <2>3. g[s \ {n + 1}] = f[s \ {n + 1}]
    BY <2>2
  <2>. QED
    BY <1>1, <2>1, <2>3
<1>2. ASSUME NEW s \in SUBSET (1..(n + 1)), n + 1 \notin s, s # {}
      PROVE  g[s] = Answer(g[s \ {Max(s)}], response[Max(s)])
  <2>0. \A i \in 1..(n + 1) : i # n + 1 => i \in 1..n
    OBVIOUS
  <2>1. s \in SUBSET (1..n) /\ s \ {Max(s)} \in SUBSET (1..(n + 1)) /\ n + 1 \notin s \ {Max(s)}
    BY <1>2, <2>0
  <2>2. g[s] = f[s] /\ g[s \ {Max(s)}] = f[s \ {Max(s)}]
    BY <1>2, <2>1
  <2>3. f[s] = Answer(f[s \ {Max(s)}], response[Max(s)])
    BY <1>2, <2>1 DEF FoldOf
  <2>. QED
    BY <2>2, <2>3
<1>3. g[{}] = search
  BY DEF FoldOf
<1>4. \A s \in SUBSET (1..(n + 1)) :
        g[s] = IF s = {} THEN search ELSE Answer(g[s \ {Max(s)}], response[Max(s)])
  BY <1>1, <1>2, <1>3
<1>5. g = [s \in SUBSET (1..(n + 1)) |-> g[s]]
  OBVIOUS
<1> HIDE DEF g
<1>6. FoldOf(search, response, 1..(n + 1), g)
  BY <1>4, <1>5 DEF FoldOf
<1>. QED
  BY <1>6

LEMMA FoldExists ==
  ASSUME NEW search, NEW response, NEW N \in Nat
  PROVE  \E f : FoldOf(search, response, 1..N, f)
<1> DEFINE T == {n \in 0..N : \E f : FoldOf(search, response, 1..n, f)}
<1>1. 0 \in T
  <2> DEFINE f == [s \in SUBSET (1..0) |-> search]
  <2>1. FoldOf(search, response, 1..0, f)
    <3>1. \A s \in SUBSET (1..0) : s = {}
      OBVIOUS
    <3>. QED
      BY <3>1 DEF FoldOf
  <2>. QED
    BY <2>1
<1>2. ASSUME NEW n \in 0..(N - 1), n \in T PROVE n + 1 \in T
  BY <1>2, FoldExtends
<1> HIDE DEF T
<1>3. N \in T
  BY <1>1, <1>2, Climb
<1>. QED
  BY <1>3 DEF T

(* The state after each call. *)
Stages(search, response, N, state) ==
  /\ state[0] = search
  /\ \A n \in 0..(N - 1) : state[n + 1] = Answer(state[n], response[n + 1])
  /\ After(search, response) = state[N]

LEMMA FoldSteps ==
  ASSUME NEW search, NEW N \in Nat, NEW response, DOMAIN response = 1..N
  PROVE  \E state : Stages(search, response, N, state)
<1>1. PICK f : /\ FoldOf(search, response, 1..N, f)
               /\ After(search, response) = f[1..N]
  BY FoldExists, FoldChooses
<1> DEFINE state == [n \in 0..N |-> f[1..n]]
<1>2. state[0] = search
  <2>1. 1..0 = {} /\ {} \in SUBSET (1..N)
    OBVIOUS
  <2>. QED
    BY <1>1, <2>1 DEF FoldOf
<1>3. ASSUME NEW n \in 0..(N - 1) PROVE state[n + 1] = Answer(state[n], response[n + 1])
  <2>0. n \in Nat /\ n \in 0..N /\ n + 1 \in 0..N /\ n + 1 \in 1..(n + 1) /\ \A i \in 1..(n + 1) : i \in 1..N
    OBVIOUS
  <2>1. 1..(n + 1) \in SUBSET (1..N) /\ 1..(n + 1) # {} /\ n \in Nat
    BY <2>0
  <2>2. Max(1..(n + 1)) = n + 1
    BY <2>0, LastIs
  <2>3. (1..(n + 1)) \ {n + 1} = 1..n
    OBVIOUS
  <2>4. f[1..(n + 1)] = Answer(f[(1..(n + 1)) \ {Max(1..(n + 1))}], response[Max(1..(n + 1))])
    BY <1>1, <2>1 DEF FoldOf
  <2>5. state[n] = f[1..n] /\ state[n + 1] = f[1..(n + 1)]
    BY <2>0
  <2>. QED
    BY <2>2, <2>3, <2>4, <2>5
<1>4. After(search, response) = state[N]
  BY <1>1
<1>5. Stages(search, response, N, state)
  <2> HIDE DEF state
  <2>. QED
    BY <1>2, <1>3, <1>4 DEF Stages
<1>. QED
  BY <1>5

-----------------------------------------------------------------------------
(* The ranking                                                              *)

(* What is kept of the candidates measured: a best one that passes, or of     *)
(* those that do not as long as none does.                                    *)
Leads(measured, best) ==
  /\ best = {} => \A c \in measured : ~c.feasible /\ ~Above(c.improvement, -Infinity)
  /\ \A b \in best :
       /\ b \in measured
       /\ b.feasible \/ \A c \in measured : ~c.feasible
       /\ \A c \in measured : (c.feasible <=> b.feasible) => ~Above(c.improvement, b.improvement)

One(best, measured) == best = {} \/ \E c \in measured : best = {c}

LEMMA LeadPasses ==
  ASSUME NEW measured \in SUBSET Candidates, NEW best, One(best, measured), Leads(measured, best),
         NEW c \in Candidates, NEW next, next = IF Outranks(c, best) THEN {c} ELSE best
  PROVE  One(next, measured \cup {c}) /\ Leads(measured \cup {c}, next)
<1>1. \A a \in measured \cup {c} :
        a.feasible \in BOOLEAN /\ (a.improvement = NaN \/ a.improvement \in (-Infinity)..Infinity)
  BY SearchAssumption DEF Candidates
<1>0. Infinity \in Nat /\ -Infinity # NaN /\ NaN \notin Int
  BY SearchAssumption
<1>2. ~Above(c.improvement, c.improvement)
  BY <1>0, <1>1 DEF Above
<1>3. CASE best = {}
  <2>1. CASE c.feasible \/ Above(c.improvement, -Infinity)
    <3>1. next = {c}
      BY <1>3, <2>1 DEF Outranks
    <3>2. \A a \in measured : ~a.feasible /\ ~Above(a.improvement, c.improvement)
      <4>1. \A a \in measured : ~a.feasible /\ ~Above(a.improvement, -Infinity)
        BY <1>3 DEF Leads
      <4>. QED
        BY <1>0, <1>1, <4>1 DEF Above
    <3>. QED
      BY <1>2, <3>1, <3>2 DEF Leads, One
  <2>2. CASE ~c.feasible /\ ~Above(c.improvement, -Infinity)
    <3>1. next = {}
      BY <1>3, <2>2 DEF Outranks
    <3>. QED
      BY <1>3, <2>2, <3>1 DEF Leads, One
  <2>. QED
    BY <2>1, <2>2
<1>4. CASE best # {}
  <2>1. PICK b \in measured : best = {b}
    BY <1>4 DEF One
  <2>2. /\ b.feasible \/ \A a \in measured : ~a.feasible
        /\ \A a \in measured : (a.feasible <=> b.feasible) => ~Above(a.improvement, b.improvement)
    BY <2>1 DEF Leads
  <2>3. /\ \/ ~Outranks(c, best)
           \/ c.feasible /\ ~b.feasible
           \/ (c.feasible <=> b.feasible) /\ Above(c.improvement, b.improvement)
        /\ \/ Outranks(c, best)
           \/ /\ ~(c.feasible /\ ~b.feasible)
              /\ ~((c.feasible <=> b.feasible) /\ Above(c.improvement, b.improvement))
    <3>1. c.feasible \in BOOLEAN /\ b.feasible \in BOOLEAN
      BY <1>1
    <3>2. (c.feasible = b.feasible) <=> (c.feasible <=> b.feasible)
      BY <3>1
    <3>3. PICK lead : lead = {b}
      OBVIOUS
    <3>4. \/ ~Outranks(c, lead)
          \/ c.feasible /\ ~b.feasible
          \/ c.feasible = b.feasible /\ Above(c.improvement, b.improvement)
      BY <3>3, Zenon DEF Outranks
    <3>5. \/ Outranks(c, lead)
          \/ /\ ~(c.feasible /\ ~b.feasible)
             /\ ~(c.feasible = b.feasible /\ Above(c.improvement, b.improvement))
      BY <3>3, Zenon DEF Outranks
    <3>6. lead = best
      BY <2>1, <3>3
    <3>7. \/ ~Outranks(c, best)
          \/ c.feasible /\ ~b.feasible
          \/ c.feasible = b.feasible /\ Above(c.improvement, b.improvement)
      BY <3>4, <3>6
    <3>8. \/ Outranks(c, best)
          \/ /\ ~(c.feasible /\ ~b.feasible)
             /\ ~(c.feasible = b.feasible /\ Above(c.improvement, b.improvement))
      BY <3>5, <3>6
    <3>. QED
      BY <3>2, <3>7, <3>8
  <2>4. CASE c.feasible /\ ~b.feasible
    <3>0. Outranks(c, best)
      BY <2>3, <2>4
    <3>1. next = {c}
      BY <3>0
    <3>2. \A a \in measured : ~a.feasible
      BY <2>2, <2>4
    <3>. QED
      BY <1>2, <2>4, <3>1, <3>2 DEF Leads, One
  <2>5. CASE (c.feasible <=> b.feasible) /\ Above(c.improvement, b.improvement)
    <3>1. next = {c}
      BY <2>3, <2>5
    <3>2. \A a \in measured : (a.feasible <=> c.feasible) => ~Above(a.improvement, c.improvement)
      BY <1>0, <1>1, <2>2, <2>5 DEF Above
    <3>3. c.feasible \/ \A a \in measured \cup {c} : ~a.feasible
      BY <2>2, <2>5
    <3>. QED
      BY <1>2, <3>1, <3>2, <3>3 DEF Leads, One
  <2>6. CASE ~Outranks(c, best)
    <3>1. next = {b}
      BY <2>1, <2>6
    <3>2. (c.feasible <=> b.feasible) => ~Above(c.improvement, b.improvement)
      BY <2>3, <2>6
    <3>3. b.feasible \/ ~c.feasible
      BY <2>3, <2>6
    <3>. QED
      BY <2>2, <3>1, <3>2, <3>3 DEF Leads, One
  <2>. QED
    BY <2>3, <2>4, <2>5, <2>6
<1>. QED
  BY <1>3, <1>4

(* What a search has measured. *)
MeasuredIn(search) == {search.evaluated[i] : i \in DOMAIN search.evaluated}

SearchOK(search) ==
  /\ search \in [attempts : Nat, evaluated : Seq(Candidates), best : SUBSET Candidates,
                 result : {"open", "proposal", "error"}]
  /\ One(search.best, MeasuredIn(search)) /\ Leads(MeasuredIn(search), search.best)
  /\ search.result = "proposal" => search.best # {}

(* A search that ended, in some way, is as good as it was. *)
LEMMA EndingKeeps ==
  ASSUME NEW search, SearchOK(search), NEW result \in {"open", "proposal", "error"},
         result = "proposal" => search.best # {}
  PROVE  SearchOK([search EXCEPT !.result = result])
<1>1. PICK next : next = [search EXCEPT !.result = result]
  OBVIOUS
<1>2. /\ next \in [attempts : Nat, evaluated : Seq(Candidates), best : SUBSET Candidates,
                   result : {"open", "proposal", "error"}]
      /\ next.best = search.best /\ next.evaluated = search.evaluated /\ next.result = result
  BY <1>1 DEF SearchOK
<1>3. MeasuredIn(next) = MeasuredIn(search)
  BY <1>2 DEF MeasuredIn
<1>. QED
  BY <1>1, <1>2, <1>3 DEF SearchOK

(* One tool call *)
LEMMA AnswerKeeps ==
  ASSUME NEW search, SearchOK(search), NEW call \in Calls
  PROVE  SearchOK(Answer(search, call))
<1>1. PICK next : next = Answer(search, call)
  OBVIOUS
<1>2. CASE next = search
  BY <1>1, <1>2
<1>3. CASE search.result = "open" /\ search.best # {} /\ next = [search EXCEPT !.result = "proposal"]
  BY <1>1, <1>3, EndingKeeps
<1>4. CASE /\ call.tool = "evaluate_candidate"
           /\ next = [search EXCEPT
                        !.attempts = @ + 1,
                        !.evaluated = IF call.measured = {} THEN @ ELSE Append(@, CHOOSE c \in call.measured : TRUE),
                        !.best = IF \E c \in call.measured : Outranks(c, @) THEN call.measured ELSE @]
  <2>1. /\ search.attempts \in Nat /\ search.evaluated \in Seq(Candidates) /\ search.best \in SUBSET Candidates
        /\ search.result \in {"open", "proposal", "error"}
        /\ One(search.best, MeasuredIn(search)) /\ Leads(MeasuredIn(search), search.best)
        /\ search.result = "proposal" => search.best # {}
    BY DEF SearchOK
  <2>2. CASE call.measured = {}
    <3>1. next = [search EXCEPT !.attempts = @ + 1]
      BY <1>4, <2>2 DEF SearchOK
    <3>2. /\ next \in [attempts : Nat, evaluated : Seq(Candidates), best : SUBSET Candidates,
                       result : {"open", "proposal", "error"}]
          /\ next.best = search.best /\ next.evaluated = search.evaluated /\ next.result = search.result
      BY <3>1 DEF SearchOK
    <3>3. MeasuredIn(next) = MeasuredIn(search)
      BY <3>2 DEF MeasuredIn
    <3>. QED
      BY <1>1, <2>1, <3>2, <3>3 DEF SearchOK
  <2>3. CASE \E c \in Candidates : call.measured = {c}
    <3>1. PICK c \in Candidates : call.measured = {c}
      BY <2>3
    <3>2. (CHOOSE x \in call.measured : TRUE) = c /\ call.measured # {}
      BY <3>1
    <3>3. PICK evaluated : evaluated = Append(search.evaluated, c)
      OBVIOUS
    <3>4. PICK best : best = IF Outranks(c, search.best) THEN {c} ELSE search.best
      OBVIOUS
    <3>5. (\E x \in call.measured : Outranks(x, search.best)) <=> Outranks(c, search.best)
      BY <3>1
    <3>6. next = [search EXCEPT !.attempts = @ + 1, !.evaluated = evaluated, !.best = best]
      BY <1>4, <3>1, <3>2, <3>3, <3>4, <3>5 DEF SearchOK
    <3>7. /\ evaluated \in Seq(Candidates) /\ Len(evaluated) = Len(search.evaluated) + 1
          /\ \A i \in 1..Len(search.evaluated) : evaluated[i] = search.evaluated[i]
          /\ evaluated[Len(search.evaluated) + 1] = c
      BY <2>1, <3>3, AppendProperties
    <3>8. best \in SUBSET Candidates /\ (search.result = "proposal" => best # {})
      BY <2>1, <3>4
    <3>9. /\ next \in [attempts : Nat, evaluated : Seq(Candidates), best : SUBSET Candidates,
                       result : {"open", "proposal", "error"}]
          /\ next.best = best /\ next.evaluated = evaluated /\ next.result = search.result
      <4>1. search \in [attempts : Nat, evaluated : Seq(Candidates), best : SUBSET Candidates,
                        result : {"open", "proposal", "error"}]
        BY DEF SearchOK
      <4>2. PICK attempts \in Nat : attempts = search.attempts + 1
        BY <2>1
      <4>3. next = [search EXCEPT !.attempts = attempts, !.evaluated = evaluated, !.best = best]
        BY <3>6, <4>2
      <4>4. evaluated \in Seq(Candidates) /\ best \in SUBSET Candidates
        BY <3>7, <3>8
      <4>. QED
        BY <4>1, <4>2, <4>3, <4>4
    <3>10. MeasuredIn(next) = MeasuredIn(search) \cup {c}
      <4>1. DOMAIN evaluated = 1..(Len(search.evaluated) + 1) /\ DOMAIN search.evaluated = 1..Len(search.evaluated)
            /\ Len(search.evaluated) \in Nat
        BY <2>1, <3>7
      <4>2. \A i \in DOMAIN evaluated : i \in DOMAIN search.evaluated \/ i = Len(search.evaluated) + 1
        BY <4>1
      <4>3. DOMAIN search.evaluated \subseteq DOMAIN evaluated /\ Len(search.evaluated) + 1 \in DOMAIN evaluated
        BY <4>1
      <4>. QED
        BY <3>7, <3>9, <4>1, <4>2, <4>3 DEF MeasuredIn
    <3>11. MeasuredIn(search) \in SUBSET Candidates
      BY <2>1 DEF MeasuredIn
    <3>12. One(best, MeasuredIn(next)) /\ Leads(MeasuredIn(next), best)
      BY <2>1, <3>4, <3>10, <3>11, LeadPasses
    <3>. QED
      BY <1>1, <3>8, <3>9, <3>12 DEF SearchOK
  <2>. QED
    BY <1>4, <2>2, <2>3 DEF Calls
<1>. QED
  BY <1>1, <1>2, <1>3, <1>4 DEF Answer, Calls

(* One round *)
LEMMA RoundKeeps ==
  ASSUME NEW search, SearchOK(search), NEW response \in Responses
  PROVE  SearchOK(Round(search, response))
<1>1. PICK n \in 0..CallsAtOnce : response \in [1..n -> Calls]
  BY DEF Responses
<1>2. n \in Nat /\ DOMAIN response = 1..n
  BY <1>1, SearchAssumption
<1>3. PICK state : Stages(search, response, n, state)
  BY <1>2, FoldSteps
<1> DEFINE T == {k \in 0..n : SearchOK(state[k])}
<1>4. 0 \in T
  BY <1>2, <1>3 DEF Stages
<1>5. ASSUME NEW k \in 0..(n - 1), k \in T PROVE k + 1 \in T
  <2>1. SearchOK(state[k]) /\ k + 1 \in 1..n /\ k + 1 \in 0..n
    BY <1>2, <1>5
  <2>2. response[k + 1] \in Calls
    BY <1>1, <2>1
  <2>. QED
    BY <1>3, <2>1, <2>2, AnswerKeeps DEF Stages
<1>6. 0..n \subseteq T
  <2> HIDE DEF T
  <2>. QED
    BY <1>2, <1>4, <1>5, Climb
<1>7. PICK after : after = After(search, response)
  OBVIOUS
<1>8. SearchOK(after)
  BY <1>2, <1>3, <1>6, <1>7 DEF Stages
<1>9. Round(search, response) =
        IF response = <<>> THEN [search EXCEPT !.result = "error"]
        ELSE IF after.result = "open" /\ Len(after.evaluated) >= Budget /\ after.best # {}
          THEN [after EXCEPT !.result = "proposal"]
        ELSE after
  BY <1>7, Zenon DEF Round, After
<1>. QED
  BY <1>8, <1>9, EndingKeeps

-----------------------------------------------------------------------------
(* The rounds                                                               *)

(* What one more round adds. *)
Longer(before) ==
  before \cup {Round(search, response) :
                 search \in {s \in before : s.result = "open"}, response \in Responses}

RoundsTo(n, after) == after = [k \in 0..n |-> IF k = 0 THEN {Unasked} ELSE Longer(after[k - 1])]

LEMMA RoundsChoose == SearchesAfter = CHOOSE after : RoundsTo(MaxRounds, after)
BY DEF SearchesAfter, RoundsTo, Longer

LEMMA RoundsExtend ==
  ASSUME NEW n \in Nat, NEW f, RoundsTo(n, f)
  PROVE  \E g : RoundsTo(n + 1, g)
<1> DEFINE g == [k \in 0..(n + 1) |-> IF k = n + 1 THEN Longer(f[n]) ELSE f[k]]
<1>1. \A k \in 0..n : g[k] = f[k] /\ f[k] = IF k = 0 THEN {Unasked} ELSE Longer(f[k - 1])
  <2>1. \A k \in 0..n : k \in 0..(n + 1) /\ k # n + 1
    OBVIOUS
  <2>2. \A k \in 0..n : g[k] = f[k]
    BY <2>1
  <2> HIDE DEF g
  <2>3. \A k \in 0..n : f[k] = IF k = 0 THEN {Unasked} ELSE Longer(f[k - 1])
    BY Zenon DEF RoundsTo
  <2>. QED
    BY <2>2, <2>3
<1>2. ASSUME NEW k \in 0..(n + 1) PROVE g[k] = IF k = 0 THEN {Unasked} ELSE Longer(g[k - 1])
  <2>1. CASE k = n + 1
    <3>1. k # 0 /\ k - 1 = n /\ n \in 0..n
      BY <2>1
    <3>2. g[k] = Longer(f[n]) /\ g[n] = f[n]
      BY <1>1, <2>1, <3>1
    <3>. QED
      BY <3>1, <3>2
  <2>2. CASE k = 0
    <3>1. k \in 0..n
      BY <2>2
    <3>. QED
      BY <1>1, <2>2, <3>1
  <2>3. CASE k \in 1..n
    <3>1. k \in 0..n /\ k - 1 \in 0..n /\ k # 0
      BY <2>3
    <3>2. g[k] = Longer(f[k - 1]) /\ g[k - 1] = f[k - 1]
      BY <1>1, <3>1
    <3>. QED
      BY <3>1, <3>2
  <2>. QED
    BY <2>1, <2>2, <2>3
<1>3. g = [k \in 0..(n + 1) |-> g[k]]
  OBVIOUS
<1> HIDE DEF g
<1>4. RoundsTo(n + 1, g)
  BY <1>2, <1>3 DEF RoundsTo
<1>. QED
  BY <1>4

LEMMA RoundsExist == ASSUME NEW N \in Nat PROVE \E f : RoundsTo(N, f)
<1> DEFINE T == {n \in 0..N : \E f : RoundsTo(n, f)}
<1>1. 0 \in T
  <2> DEFINE f == [k \in 0..0 |-> {Unasked}]
  <2>1. RoundsTo(0, f)
    BY DEF RoundsTo
  <2>. QED
    BY <2>1
<1>2. ASSUME NEW n \in 0..(N - 1), n \in T PROVE n + 1 \in T
  BY <1>2, RoundsExtend
<1> HIDE DEF T
<1>3. N \in T
  BY <1>1, <1>2, Climb
<1>. QED
  BY <1>3 DEF T

LEMMA RoundsAreCounted == MaxRounds \in Nat
BY SearchAssumption DEF MaxRounds, MaxAttempts

(* The recursion is what it says. *)
LEMMA SearchesAfterIs == RoundsTo(MaxRounds, SearchesAfter)
BY RoundsChoose, RoundsExist, RoundsAreCounted

LEMMA UnaskedIsOK == SearchOK(Unasked)
<1>1. Unasked.evaluated = <<>> /\ Unasked.best = {} /\ Unasked.result = "open" /\ Unasked.attempts = 0
  BY DEF Unasked
<1>2. MeasuredIn(Unasked) = {}
  BY <1>1 DEF MeasuredIn
<1>3. Unasked \in [attempts : Nat, evaluated : Seq(Candidates), best : SUBSET Candidates,
                   result : {"open", "proposal", "error"}]
  BY DEF Unasked
<1>. QED
  BY <1>1, <1>2, <1>3 DEF SearchOK, One, Leads

LEMMA SearchesAreOK == \A n \in 0..MaxRounds : \A search \in SearchesAfter[n] : SearchOK(search)
<1> DEFINE T == {n \in 0..MaxRounds : \A search \in SearchesAfter[n] : SearchOK(search)}
<1>1. MaxRounds \in Nat
  BY RoundsAreCounted
<1>2. \A n \in 0..MaxRounds : SearchesAfter[n] = IF n = 0 THEN {Unasked} ELSE Longer(SearchesAfter[n - 1])
  BY SearchesAfterIs DEF RoundsTo
<1>3. 0 \in T
  BY <1>1, <1>2, UnaskedIsOK
<1>4. ASSUME NEW n \in 0..(MaxRounds - 1), n \in T PROVE n + 1 \in T
  <2>1. n + 1 \in 0..MaxRounds /\ n + 1 # 0 /\ (n + 1) - 1 = n
    BY <1>1
  <2>2. SearchesAfter[n + 1] = Longer(SearchesAfter[n])
    BY <1>2, <2>1
  <2>3. \A search \in SearchesAfter[n] : SearchOK(search)
    BY <1>4
  <2>4. \A search \in Longer(SearchesAfter[n]) : SearchOK(search)
    BY <2>3, RoundKeeps DEF Longer
  <2>. QED
    BY <2>1, <2>2, <2>4
<1> HIDE DEF T
<1>5. 0..MaxRounds \subseteq T
  BY <1>1, <1>3, <1>4, Climb
<1>. QED
  BY <1>5 DEF T

(* SearchesAreSound: for every budget, number of improvements and conversation *)
(* the loop proposes the best candidate it measured: one that passes, unless   *)
(* none did, and none of its kind improves more.                               *)
THEOREM BestIsProposed == SearchesAreSound
<1> SUFFICES ASSUME NEW search \in Searches, search.result = "proposal"
             PROVE  search.best # {} /\ IsBest(search)
  BY DEF SearchesAreSound
<1>1. PICK last \in SearchesAfter[MaxRounds] :
        search = [last EXCEPT !.result =
                    IF @ # "open" THEN @ ELSE IF last.best = {} THEN "error" ELSE "proposal"]
  BY DEF Searches
<1>2. SearchOK(last)
  BY SearchesAreOK, RoundsAreCounted
<1>3. PICK result \in {"open", "proposal", "error"} :
        search = [last EXCEPT !.result = result] /\ (result = "proposal" => last.best # {})
  BY <1>1, <1>2 DEF SearchOK
<1>4. SearchOK(search)
  BY <1>2, <1>3, EndingKeeps
<1>5. search.best # {} /\ Leads(MeasuredIn(search), search.best)
  BY <1>4 DEF SearchOK
<1>6. ASSUME NEW b \in search.best
      PROVE  \E i \in DOMAIN search.evaluated :
               /\ search.evaluated[i] = b
               /\ i \in Passing(search) \/ Passing(search) = {}
               /\ \A j \in DOMAIN search.evaluated :
                    (j \in Passing(search) <=> b.feasible) => ~Above(search.evaluated[j].improvement, b.improvement)
  <2>1. PICK i \in DOMAIN search.evaluated : search.evaluated[i] = b
    BY <1>5 DEF Leads, MeasuredIn
  <2>2. \A j \in DOMAIN search.evaluated : search.evaluated[j] \in MeasuredIn(search)
    BY DEF MeasuredIn
  <2>3. \A j \in DOMAIN search.evaluated : j \in Passing(search) <=> search.evaluated[j].feasible
    BY DEF Passing
  <2>4. i \in Passing(search) \/ Passing(search) = {}
    BY <1>5, <2>1, <2>2 DEF Leads, Passing
  <2>5. \A j \in DOMAIN search.evaluated :
          (j \in Passing(search) <=> b.feasible) => ~Above(search.evaluated[j].improvement, b.improvement)
    BY <1>5, <2>2, <2>3 DEF Leads
  <2>. QED
    BY <2>1, <2>4, <2>5
<1>. QED
  BY <1>5, <1>6 DEF IsBest
===============================================================================
