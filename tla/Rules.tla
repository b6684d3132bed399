-------------------------------- MODULE Rules --------------------------------
(***************************************************************************)
(* How the rules engine judges the candidates of a simulation, and puts    *)
(* the best first.  A design has a spec, a number of users and a budget;   *)
(* a candidate a spec, the users it was simulated with, and its use of CPU *)
(* and memory.  The texts of suggestions are left out, as are the weights  *)
(* and operators of rules, which the engine reads and does not use.        *)
(***************************************************************************)
EXTENDS Integers, Sequences, FiniteSetsExt

CONSTANT Rules   \* their field, whether they are required and compared with the design

Design == [spec : Nat \X Nat, users : Nat, budget : Nat]
Candidate == [spec : Nat \X Nat, users : Nat, cpu : Nat, mem : Nat]

ASSUME RulesAssumption ==
    \A r \in Rules : r.required \in BOOLEAN /\ r.compare \in BOOLEAN

\* A field the engine does not know has the value 0.
Value(r, design, c) ==
    CASE r.field = "cpu_util_pct" -> c.cpu
      [] r.field = "mem_util_pct" -> c.mem
      [] r.field \in {"vcpu", "preferred_vcpu"} /\ r.compare -> c.spec[1] - design.spec[1]
      [] r.field \in {"memory_gb", "preferred_memory_gb"} /\ r.compare -> c.spec[2] - design.spec[2]
      [] r.field = "vcpu" /\ ~r.compare -> c.spec[1]
      [] r.field = "memory_gb" /\ ~r.compare -> c.spec[2]
      [] r.field = "preferred_vcpu" /\ ~r.compare -> design.spec[1]
      [] r.field = "preferred_memory_gb" /\ ~r.compare -> design.spec[2]
      [] OTHER -> 0

\* evalCandidate: a required rule fails if its value is 0, whatever its operator.
Passed(design, c) == \A r \in Rules : r.required => Value(r, design, c) # 0

Meets(design, c) == c.users >= design.users

\* What candidates are ordered by: whether they pass and meet the target; how far they are
\* from it; the smaller spec, or the larger when the target is missed; use; distance.
Rank(design, c) ==
    LET gap == IF Meets(design, c) THEN c.users - design.users ELSE design.users - c.users
        size == IF design.users > 0 /\ ~Meets(design, c) THEN -1 ELSE 1
    IN <<IF Passed(design, c) THEN 0 ELSE 1, IF Meets(design, c) THEN 0 ELSE 1,
         IF design.users > 0 THEN gap ELSE 0, size * c.spec[1], size * c.spec[2], c.cpu + c.mem, gap>>

Before(s, t) == \E i \in DOMAIN s : s[i] < t[i] /\ \A j \in 1 .. i - 1 : s[j] = t[j]

\* Mutant of Best: the order as it was before users were looked at.
BestBySize(design, candidates) ==
    LET rank(i) == SubSeq(Rank(design, candidates[i]), 4, 7)
    IN candidates[Min({i \in DOMAIN candidates :
                         \A j \in DOMAIN candidates : ~Before(rank(j), rank(i))})]

\* EvaluateCandidates: the first after a stable sort.
Best(design, candidates) ==
    LET rank(i) == Rank(design, candidates[i])
    IN candidates[Min({i \in DOMAIN candidates :
                         \A j \in DOMAIN candidates : ~Before(rank(j), rank(i))})]
=============================================================================
