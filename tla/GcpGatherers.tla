----------------------------- MODULE GcpGatherers -----------------------------
(***************************************************************************)
(* The gather functions of lensix_inventory/gcp, one definition each, in   *)
(* the statements of GatherLanguage.                                       *)
(*                                                                         *)
(* A list helper follows the page tokens before it returns, so a page that *)
(* fails is a failure of the call; those of iam.py and logging.py ask for  *)
(* the first page only.  Resources that the code leaves out by their own   *)
(* state (terminated instances, deprecated images) are not listed here.    *)
(***************************************************************************)
EXTENDS GatherLanguage, Naturals

(* One list call whose failure is reported and ends gather(). *)
ReportedListOf(type, body) == <<Tagged(type, "return", body)>>

(* The helpers of vpc.py that other modules call to find the id of a network or
   subnet by its name; they list all of them once more. *)
ResolveNetworks == Relisted(Over("vpc_network", "error", <<>>))
ResolveSubnets == Relisted(Over("subnet", "error", <<>>))

OnNetwork == <<ToListed("vpc_network"), ToListed("subnet")>>

(* The project's IAM policy: one resource, gathered by iam.py and by logging.py. *)
IamPolicy == Single("iam_policy", "error", <<Add(<<>>)>>)

-----------------------------------------------------------------------------
Artifactregistry ==
    ReportedListOf("artifactregistry_repository",
                   <<Fetch("iam policy", "error"), Add(Edges(<<"kms_crypto_key">>))>>)

Bigquery ==
    ReportedListOf("bigquery_dataset",
                   <<Fetch("dataset", "skip"), Add(Edges(<<"kms_crypto_key">>))>>)

Cloudrun ==
    ReportedListOf("cloudrun_service",
                   <<Fetch("iam policy", "error"), Add(Edges(<<"vpc_connector">>))>>)

CloudFunctions ==
    ReportedListOf("cloud_function",
                   <<Fetch("iam policy", "error"), Add(Edges(<<"vpc_connector">>))>>)

Dns == ReportedListOf("dns_zone", <<Add(<<>>)>>)

Storage ==
    ReportedListOf("storage_bucket",
                   <<Fetch("iam policy", "error"), Add(Edges(<<"kms_crypto_key">>))>>)

Secretmanager ==
    ReportedListOf("secretmanager_secret",
                   <<Fetch("versions", "error"), Add(Edges(<<"kms_crypto_key">>))>>)

Sql ==
    ReportedListOf("sql_instance", <<>>) \o
    <<ResolveNetworks,
      Again("sql_instance", <<Add(<<ToListed("vpc_network"), To("kms_crypto_key")>>)>>)>>

-----------------------------------------------------------------------------
(* compute.py *)

ComputeInstances ==
    <<Tagged("compute_instance", "error", <<>>),
      ResolveNetworks, ResolveSubnets,
      Again("compute_instance", <<Add(OnNetwork)>>)>>

ComputeImages ==
    <<Tagged("compute_image", "error", <<Fetch("iam policy", "error"), Add(<<>>)>>),
      Tagged("compute_snapshot", "error", <<Add(<<>>)>>)>>

(* Seven lookups of the same instance template, each with a try. *)
ComputeTemplates == [i \in 1 .. 7 |-> Fetch("instance template", "error")]

ComputeGroups ==
    <<Untagged("instance_group_manager", "error", <<>>),
      Fetch("autoscalers", "error"),
      Again("instance_group_manager", ComputeTemplates \o <<Add(<<>>)>>)>>

Compute ==
    ComputeInstances \o ComputeImages \o ComputeGroups \o
    <<Single("compute_project_metadata", "error", <<Add(<<>>)>>)>>

-----------------------------------------------------------------------------
(* gke.py: the pools come with their cluster. *)
Gke ==
    ReportedListOf("gke_cluster", <<>>) \o
    <<ResolveNetworks, ResolveSubnets,
      Again("gke_cluster",
            <<Add(OnNetwork),
              Untagged("gke_node_pool", "never",
                       <<Add(<<ToRecordedParent("gke_cluster")>>)>>)>>)>>

Iam ==
    <<IamPolicy,
      FirstPage(Untagged("service_account", "error",
                         <<Fetch("service account keys", "error"), Add(<<>>)>>)),
      FirstPage(Over("workload identity pools", "error",
           <<FirstPage(Untagged("workload_identity_pool_provider", "skip",
                                <<Add(<<>>)>>))>>))>>

Kms ==
    <<Over("kms locations", "return",
           <<Untagged("kms_keyring", "skip",
                      <<Add(<<>>),
                        Tagged("kms_crypto_key", "skip",
                               <<Fetch("iam policy", "error"),
                                 Add(<<ToRecordedParent("kms_keyring")>>)>>)>>)>>)>>

Vpcaccess ==
    <<ResolveNetworks, ResolveSubnets,
      Over("vpc access locations", "return",
           <<Untagged("vpc_connector", "skip", <<Add(OnNetwork)>>)>>)>>

-----------------------------------------------------------------------------
(* Sections, each a try of its own. *)
Section(type, body) == Guard(type, <<Untagged(type, "raise", body)>>)
TaggedSection(type, body) == Guard(type, <<Tagged(type, "raise", body)>>)

Lb ==
    <<ResolveNetworks,
      Section("lb_backend_service", <<Add(<<ToListed("vpc_network")>>)>>),
      Section("ssl_policy", <<Add(<<>>)>>),
      Section("target_https_proxy", <<Add(<<ToRecorded("ssl_policy")>>)>>)>>

(* the lists of logging.py ask for one page *)
OnePageSection(type, body) == Guard(type, <<FirstPage(Untagged(type, "raise", body))>>)

Logging ==
    <<OnePageSection("log_bucket", <<Add(<<>>)>>),
      (* a sink has one destination; which type it is of depends on its name *)
      OnePageSection("log_sink", <<Fetch("destination bucket", "error"),
                                   Add(Edges(<<"storage_bucket", "bigquery_dataset",
                                               "pubsub_topic", "log_bucket">>))>>),
      OnePageSection("log_based_metric", <<Add(<<>>)>>),
      Guard("alert_policy", <<FirstPage(Tagged("alert_policy", "raise", <<Add(<<>>)>>))>>),
      IamPolicy>>

Pubsub ==
    <<TaggedSection("pubsub_topic", <<Add(Edges(<<"kms_crypto_key">>))>>),
      TaggedSection("pubsub_subscription", <<Add(Edges(<<"pubsub_topic">>))>>)>>

Vpc ==
    <<Guard("vpc_network", <<Relisted(Untagged("vpc_network", "raise", <<Add(<<>>)>>))>>),
      Section("firewall_rule", <<Add(<<ToRecorded("vpc_network")>>)>>),
      Guard("subnet", <<Relisted(Untagged("subnet", "raise",
                                          <<Add(<<ToRecorded("vpc_network")>>)>>))>>)>>

-----------------------------------------------------------------------------
(* MODULES of gcp/__init__.py *)
Modules ==
    [artifactregistry |-> Artifactregistry, bigquery |-> Bigquery, cloudrun |-> Cloudrun,
     compute |-> Compute, dns |-> Dns, functions |-> CloudFunctions, gke |-> Gke,
     iam |-> Iam, kms |-> Kms, lb |-> Lb, logging |-> Logging,
     pubsub |-> Pubsub, secretmanager |-> Secretmanager, sql |-> Sql,
     storage |-> Storage, vpc |-> Vpc, vpcaccess |-> Vpcaccess]

(* What run() makes of some of them: one call after the other, the same writer. *)
InTurn(names) == [i \in DOMAIN names |-> Call(names[i], Modules[names[i]])]
=============================================================================
