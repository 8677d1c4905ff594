---------------------------- MODULE AzureGatherers ----------------------------
(***************************************************************************)
(* The gather functions of lensix_inventory/azure, one definition each, in *)
(* the statements of GatherLanguage.                                       *)
(*                                                                         *)
(* Every list helper returns list(<pager>), so that a page that fails is a *)
(* failure of the call itself and never of the loop over its result; the   *)
(* one exception is the protected items of a backup vault.  Lookups that   *)
(* fail into a default inside `raw` and report nothing (_try of            *)
(* appservice, get_advanced_threat_protection and the like) are left out,  *)
(* as GatherLanguage says.                                                 *)
(***************************************************************************)
EXTENDS GatherLanguage

(* One list call whose failure is reported and ends gather(). *)
ReportedListOf(type, edgesTo) == <<Tagged(type, "return", <<Add(Edges(edgesTo))>>)>>

-----------------------------------------------------------------------------
Acr == ListOf("container_registry", <<>>)
Activitylog == ListOf("activity_log_alert", <<"resource_group">>)
Aks == ListOf("kubernetes_cluster", <<"subnet">>)
Apimgmt == ListOf("apimgmt_service", <<"subnet">>)
Appgateway == ListOf("application_gateway", <<"subnet", "network_interface">>)
Appservice == ListOf("app_service", <<"subnet">>)
Bastion == ListOf("bastion_host", <<"subnet", "virtual_network">>)
Cosmosdb == ListOf("cosmosdb_account", <<"subnet">>)
Datafactory == ListOf("data_factory", <<>>)
Datalake == ListOf("data_lake_store", <<"subnet">>)
Eventgrid == ListOf("eventgrid_domain", <<>>)
Eventhub == ListOf("eventhub_namespace", <<>>)
Frontdoor == ListOf("frontdoor_profile", <<>>)

Cdn == <<Tagged("cdn_profile", "raise", <<Fetch("endpoints", "error"), Add(<<>>)>>)>>

(* The SDK is an optional dependency. *)
Containerapps == <<Fetch("import", "return")>> \o ListOf("container_app", <<>>)

Lb ==
    ReportedListOf("load_balancer", <<"subnet", "virtual_network", "network_interface">>)
Monitor == ReportedListOf("monitor_log_profile", <<"storage_account">>)
Nsg == ReportedListOf("nsg", <<>>)
Redis == ReportedListOf("redis_cache", <<"subnet">>)
Rsv == ReportedListOf("recovery_services_vault", <<>>)
Servicebus == ReportedListOf("servicebus_namespace", <<>>)
Synapse == ReportedListOf("synapse_workspace", <<"subnet">>)

Conditionalaccess ==
    <<Untagged("conditional_access_policy", "return", <<Add(<<>>)>>)>>

Policy ==
    <<Untagged("policy_assignment", "return", <<Add(Edges(<<"resource_group">>))>>)>>

-----------------------------------------------------------------------------
(* Two lists, one after the other, each with a try of its own. *)

Authorization ==
    <<Untagged("role_definition", "error", <<Add(<<>>)>>),
      Untagged("authorization_lock", "error", <<Add(Edges(<<"resource_group">>))>>)>>

Defender ==
    <<Untagged("defender_pricing", "error", <<Add(<<>>)>>),
      Tagged("network_interface", "error", <<Add(Edges(<<"subnet", "nsg">>))>>)>>

Securitycenter ==
    <<Untagged("security_contact", "error", <<Add(<<>>)>>),
      Untagged("security_setting", "error", <<Add(<<>>)>>)>>

(* mysql.py and postgresql.py: the rules are a call per server, made after the
   server is recorded. *)
ServersOf(server, flexible) ==
    <<Tagged(server, "error",
             <<Add(<<Fetch("vnet rules", "error"), Via("vnet rules", "subnet")>>)>>),
      Tagged(flexible, "error", <<Add(Edges(<<"subnet">>))>>)>>

Mysql == ServersOf("mysql_server", "mysql_flexible_server")
Postgresql == ServersOf("postgresql_server", "postgresql_flexible_server")

-----------------------------------------------------------------------------
(* A list, and for each of its items what belongs to it. *)

Keyvault ==
    <<Tagged("key_vault", "return",
             <<Add(Edges(<<"subnet">>)),
               Guard("keys", <<Tagged("keyvault_key", "raise", <<Add(<<>>)>>)>>),
               Guard("secrets", <<Tagged("keyvault_secret", "raise", <<Add(<<>>)>>)>>)>>)>>

(* Subnets come with their network; peerings have a call of their own.  Both
   are recorded with the tags of the network. *)
Network ==
    <<Tagged("virtual_network", "return",
             <<Add(<<>>),
               Inheriting("subnet", "never",
                          <<Add(<<ToParent("virtual_network"), To("nsg")>>)>>),
               Inheriting("vnet_peering", "skip",
                          <<Add(<<ToParent("virtual_network"),
                                  To("virtual_network")>>)>>)>>)>>

Networkwatcher ==
    <<Tagged("network_watcher", "return",
             <<Add(<<>>),
               Tagged("flow_log", "skip",
                      <<Add(Edges(<<"storage_account", "nsg", "virtual_network",
                                    "subnet">>))>>)>>)>>

Resources ==
    <<Tagged("resource_group", "return",
             <<Add(<<>>),
               Untagged("management_lock", "skip",
                        <<Add(<<ToRecordedParent("resource_group")>>)>>)>>)>>

Sql ==
    <<Tagged("sql_server", "return",
             <<Add(<<Fetch("vnet rules", "error"), Via("vnet rules", "subnet")>>),
               Inheriting("sql_server_firewall_rule", "skip", <<Add(<<>>)>>)>>)>>

Storage ==
    <<Tagged("storage_account", "return",
             <<Fetch("file services", "error"),
               Add(Edges(<<"subnet">>)),
               Untagged("blob_container", "skip", <<Add(<<>>)>>)>>)>>

-----------------------------------------------------------------------------
(* vm.py *)

(* rsv.get_protected_vm_resource_ids(), called with the writer: the vaults are
   listed once more, the items of each page by page, and the edges added on the
   way. *)
ProtectedVms ==
    Guard("backup protected items",
          <<Relisted(Over("recovery_services_vault", "raise",
                          <<Fetch("protected items", "raise"), To("vm"),
                            Fetch("next page", "raise"), To("vm")>>))>>)

VmMachines ==
    <<Tagged("vm", "error", <<>>),
      ProtectedVms,
      Fetch("management locks", "error"),
      Again("vm",
            <<Fetch("maintenance configuration", "error"),
              Add(<<To("network_interface"),
                    [From("authorization_lock") EXCEPT !.needs = "management locks"]>>)>>)>>

VmDisks ==
    <<Guard("disks", <<Tagged("disk", "raise", <<Add(<<>>)>>)>>),
      Guard("snapshots", <<Tagged("snapshot", "raise", <<Add(<<>>)>>)>>)>>

VmScaleSets ==
    <<Fetch("autoscale settings", "error"),
      Guard("scale sets", <<Tagged("vmss", "raise", <<Add(<<>>)>>)>>)>>

Vm == VmMachines \o VmDisks \o VmScaleSets

-----------------------------------------------------------------------------
(* MODULES of azure/__init__.py *)
Modules ==
    [acr |-> Acr, activitylog |-> Activitylog, aks |-> Aks, apimgmt |-> Apimgmt,
     appgateway |-> Appgateway, appservice |-> Appservice,
     authorization |-> Authorization, bastion |-> Bastion, cdn |-> Cdn,
     conditionalaccess |-> Conditionalaccess, containerapps |-> Containerapps,
     cosmosdb |-> Cosmosdb, datafactory |-> Datafactory, datalake |-> Datalake,
     defender |-> Defender, eventgrid |-> Eventgrid, eventhub |-> Eventhub,
     frontdoor |-> Frontdoor, keyvault |-> Keyvault, lb |-> Lb,
     monitor |-> Monitor, mysql |-> Mysql, network |-> Network,
     networkwatcher |-> Networkwatcher, nsg |-> Nsg, policy |-> Policy,
     postgresql |-> Postgresql, redis |-> Redis, resources |-> Resources,
     rsv |-> Rsv, securitycenter |-> Securitycenter, servicebus |-> Servicebus,
     sql |-> Sql, storage |-> Storage, synapse |-> Synapse, vm |-> Vm]
=============================================================================
