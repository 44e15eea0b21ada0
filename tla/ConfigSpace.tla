---------------------------- MODULE ConfigSpace ----------------------------
(***************************************************************************)
(* Relaxation configurations, as accept/core.py computes with them: every  *)
(* optimization site of the program has a parameter, and 0 leaves the site *)
(* as it is.  The identifiers of one configuration are distinct, since the *)
(* pass dumps it from a std::map, so a configuration is a function.        *)
(***************************************************************************)
EXTENDS Naturals, Sequences

CONSTANTS
  Sites,      \* the optimization sites of the program
  ParamMax    \* PARAM_MAX: the largest parameter of each site, by its kind

ASSUME SitesAssumption == ParamMax \in [Sites -> Nat \ {0}]

Config == [Sites -> Nat]
Null == [s \in Sites |-> 0]          \* what the precise build dumps

\* permute_config: the base configurations enable one site each.
PermuteConfig(base) == {[base EXCEPT ![s] = 1] : s \in Sites}

ConfigsConflict(a, b) == \E s \in Sites : a[s] # 0 /\ b[s] # 0

ConfigSubsumes(a, b) == \A s \in Sites : a[s] >= b[s]

\* Changed: steps of two.
IncreaseConfigByTwo(c) == [s \in Sites |-> IF c[s] # 0 THEN c[s] + 2 ELSE c[s]]

IncreaseConfig(c) == [s \in Sites |-> IF c[s] # 0 THEN c[s] + 1 ELSE c[s]]

CapConfig(c) == [s \in Sites |-> IF c[s] > ParamMax[s] THEN ParamMax[s] ELSE c[s]]

\* combine_configs: the last nonzero parameter of a site overrides the others.
Enabling(cs, s) == {i \in DOMAIN cs : cs[i][s] # 0}
Latest(is) == CHOOSE i \in is : \A j \in is : j <= i

CombineConfigs(cs) ==
  [s \in Sites |-> IF Enabling(cs, s) = {} THEN cs[1][s]
                   ELSE cs[Latest(Enabling(cs, s))][s]]
=============================================================================
