----------------------------- MODULE MCProviderRun -----------------------------
(* Two providers, one with regions: two regional modules and one global one    *)
(* against none and one; --regions given, left out, or naming a region twice; *)
(* a gather that reports a call under the name of its own module.             *)
EXTENDS ProviderRun, TLC

MCRegions == {"r1", "r2", "global", ""}
MCResourceTypes == {"vpc"}
MCResourceIds == {1}
MCCheckIds == {}
MCSources == {"vpc", "workspaces", "user", "vpc (subnets)"}
MCGatherSources == {"vpc (subnets)", "workspaces"}
MCProviders == {"aws", "gcp"}
MCRegionalModules == "aws" :> <<"vpc", "workspaces">> @@ "gcp" :> <<>>
MCGlobalModules == "aws" :> <<"user">> @@ "gcp" :> <<"vpc">>
MCRegionLists == {<<"r1">>, <<"r1", "r2">>, <<"r1", "r1">>}
=============================================================================
