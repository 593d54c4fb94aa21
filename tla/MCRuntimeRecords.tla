-------------------------- MODULE MCRuntimeRecords --------------------------
(* Instances of RuntimeRecords for TLC. *)
EXTENDS RuntimeRecords, TLC

\* Pids are interchangeable, and zygote names are
RecordSymmetry == Permutations(Pid) \cup Permutations(Zygote)

\* A view: a generation is compared with other generations and a new one is
\* above them all, so only their order matters.  States that differ in the
\* size of the gaps between generations are explored once.
Gens ==
    {0, gen, report.gen} \cup {table[s].gen : s \in Slot}
        \cup {inj[p].gen : p \in Pid} \cup {r.gen : r \in redirected}
Rank(g) == Cardinality({h \in Gens : h < g})
GenerationOrder ==
    <<[s \in Slot |-> [table[s] EXCEPT !.gen = Rank(@)]], Rank(gen), procVars,
      [p \in Pid |-> [inj[p] EXCEPT !.gen = Rank(@)]], safeVars,
      [report EXCEPT !.gen = Rank(@)],
      {[r EXCEPT !.gen = Rank(@)] : r \in redirected}, begun>>
=============================================================================
