---------------------------- MODULE MCHostIngest ----------------------------
(* Facts, hosts and consumers for the run of HostIngest with DedupJob. *)
EXTENDS DedupJob, TLC

CONSTANTS c1, c2, h1, h2, h3, p1, p2, m1, m2, i1

TwoConsumers == {c1, c2}
ThreeHosts   == {h1, h2, h3}

(* Two providers, two subscription manager ids and one insights id. *)
TwoProviders == [f \in Fact |-> CASE f = "provider" -> {p1, p2}
                                  [] f = "subman"   -> {m1, m2}
                                  [] f = "insights" -> {i1}]

(* A provider and a subscription manager id, or an insights id, with or    *)
(* without the latter.                                                     *)
FewReports ==
  {r \in Report : IF r["provider"] = None THEN r["insights"] = i1
                   ELSE r["insights"] = None /\ r["subman"] # None}

ByPriority == <<"provider", "subman", "insights">>

Symmetric == Permutations(Consumer) \union Permutations(Host)
               \union Permutations({p1, p2}) \union Permutations({m1, m2})
=============================================================================
