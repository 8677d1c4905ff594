----------------------------- MODULE AwsGatherers -----------------------------
(***************************************************************************)
(* The gather functions of lensix_inventory/aws, one definition each, in   *)
(* the statements of GatherLanguage.                                       *)
(*                                                                         *)
(* A get_*() helper that does not catch leaves the failure to the          *)
(* statement that calls it; one that catches and returns [] or None is a   *)
(* "silent" call.  Lookups for all items made ahead of the loop that       *)
(* records them (user, account: parallel_map) are written inside the loop: *)
(* they neither read nor write anything that the loop changes.  Lookups    *)
(* that fail into a default inside `raw` are left out, as GatherLanguage   *)
(* says.                                                                   *)
(***************************************************************************)
EXTENDS GatherLanguage

-----------------------------------------------------------------------------
(* vpc.py *)

VpcNetworks ==
    <<Fetch("flow logs", "error"),
      Tagged("vpc", "error", <<Add(<<>>)>>),
      Tagged("subnet", "error", <<Add(Edges(<<"vpc">>))>>),
      (* the edge of an association starts at the subnet, not at the item *)
      Tagged("route_table", "error", <<Add(<<To("vpc"), From("subnet")>>)>>)>>

VpcGateways ==
    <<Tagged("nat_gateway", "error", <<Add(Edges(<<"vpc", "subnet">>))>>),
      Tagged("internet_gateway", "error", <<Add(Edges(<<"vpc">>))>>),
      Tagged("vpn_gateway", "error", <<Add(Edges(<<"vpc">>))>>)>>

VpcLinks ==
    <<Tagged("network_acl", "error", <<Add(Edges(<<"vpc">>))>>),
      Tagged("vpc_endpoint", "error", <<Add(Edges(<<"vpc">>))>>),
      Tagged("vpc_peering", "error", <<Add(Edges(<<"vpc", "vpc">>))>>),
      Tagged("transit_gateway", "error", <<>>),
      IfAny("transit_gateway", <<Fetch("tgw attachments", "error")>>),
      Again("transit_gateway", <<Add(<<Via("tgw attachments", "vpc"),
                                       Via("tgw attachments", "subnet")>>)>>)>>

Vpc == VpcNetworks \o VpcGateways \o VpcLinks

(* ec2.py: neither of the first two calls is in a try. *)
Ec2Instances ==
    <<Tagged("ec2_instance", "raise", <<>>),
      IfAny("ec2_instance", <<Fetch("instance statuses", "raise")>>),
      Again("ec2_instance",
            <<Fetch("termination protection", "error"), Fetch("metrics", "error"),
              Add(Edges(<<"subnet", "security_group", "ebs_volume">>))>>)>>

Ec2 ==
    Ec2Instances \o
    <<Tagged("elastic_network_interface", "error", <<Add(<<>>)>>),
      Tagged("launch_template", "error",
             <<Fetch("launch template version", "error"), Add(<<>>)>>)>>

(* network.py *)
Network == ListOf("elastic_ip", <<"ec2_instance", "elastic_network_interface", "subnet">>)

-----------------------------------------------------------------------------
(* lb.py *)

LbClassic ==
    Tagged("classic_load_balancer", "error",
           <<Fetch("instance health", "silent"), FetchTags("silent"),
             Add(<<To("vpc"), To("security_group"),
                   Via("instance health", "ec2_instance")>>)>>)

(* get_target_groups() is called inside the loop, outside any try *)
LbModern ==
    Tagged("load_balancer", "error",
           <<Fetch("target groups", "raise"), FetchTags("silent"),
             Add(Edges(<<"vpc", "security_group", "target_group">>))>>)

LbTargetGroups ==
    Tagged("target_group", "error",
           <<Fetch("target health", "silent"), FetchTags("silent"),
             Add(<<Via("target health", "ec2_instance"),
                   Via("target health", "lambda_function")>>)>>)

Lb == <<LbClassic, LbModern, LbTargetGroups>>

(* apigateway.py: the custom domains of both versions of the API, whose lists overlap,
   are recorded with one type, by their names *)
Apigateway ==
    <<Tagged("apigw_rest_api", "error", <<Add(Edges(<<"vpc_endpoint">>))>>),
      Again("apigw_rest_api",
            <<Tagged("apigw_stage", "skip", <<Fetch("web acl", "error"), Add(<<>>)>>)>>),
      Tagged("apigw_http_api", "error", <<Add(<<>>)>>),
      Again("apigw_http_api", <<Tagged("apigw_stage", "skip", <<Add(<<>>)>>)>>),
      Tagged("apigw_domain", "error", <<Add(<<>>)>>),
      Overlapping(Tagged("apigw_domain", "error", <<Add(<<>>)>>)),
      Tagged("apigw_vpc_link", "error", <<Add(Edges(<<"subnet", "security_group">>))>>)>>

(* route53.py *)
Route53 ==
    <<Guard("domains",
            <<Tagged("route53_domain", "raise",
                     <<Fetch("domain detail", "skip"), FetchTags("silent"), Add(<<>>)>>)>>),
      Guard("hosted zones",
            <<Tagged("route53_zone", "raise", <<FetchTags("silent"), Add(<<>>)>>)>>),
      Guard("private hosted zones",
            <<Tagged("route53_private_zone", "raise",
                     <<Fetch("zone vpcs", "error"), FetchTags("silent"),
                       Add(<<Via("zone vpcs", "vpc")>>)>>)>>)>>

(* dnsinventory.py: the zones are listed for their records only *)
Dnsinventory ==
    <<Over("zones", "raise",
             <<Untagged("route53_record", "skip", <<Add(<<>>)>>)>>)>>

(* cloudfront.py *)
Cloudfront ==
    <<Tagged("cloudfront_distribution", "raise",
             <<Fetch("distribution config", "error"), FetchTags("silent"),
               Add(<<Via("distribution config", "s3_bucket")>>)>>)>>

-----------------------------------------------------------------------------
(* Compute. *)

(* lambda_.py: the two lookups of a role are made once per role; here once per
   function, which is as often as the roles may differ. *)
Lambda ==
    <<Tagged("lambda_function", "raise",
             <<Fetch("resource policy", "error"), Fetch("log group", "error"),
               Fetch("role exists", "error"), Fetch("role admin", "error"),
               FetchTags("silent"),
               Add(Edges(<<"vpc", "security_group", "subnet">>))>>)>>

(* autoscaling.py: four lookups of the same template, each with its own try *)
Autoscaling ==
    <<Fetch("scheduled actions", "error"),
      Tagged("autoscaling_group", "raise",
             <<Fetch("template public ip", "error"), Fetch("template role", "error"),
               Fetch("template userdata", "error"), Fetch("template market", "error"),
               Add(Edges(<<"subnet", "ec2_instance">>))>>)>>

(* ecs.py: describe_clusters() is called when there are cluster arns *)
Ecs ==
    <<WhenAny("cluster arns", "error",
              <<Tagged("ecs_cluster", "error",
                       <<Fetch("services", "error"),
                         Add(<<Via("services", "subnet"),
                               Via("services", "security_group")>>)>>)>>),
      Tagged("ecs_task_definition", "error", <<Fetch("detail", "skip"), Add(<<>>)>>)>>

(* ecr.py *)
Ecr ==
    <<Always("ecr_registry_scan_config"),
      Tagged("ecr_repository", "raise", <<FetchTags("silent"), Add(<<>>)>>)>>

(* eks.py, transfer.py, mq.py *)
Eks == DescribedOf("eks_cluster", <<"vpc", "security_group", "subnet">>)

Transfer == DescribedOf("transfer_server", <<"vpc", "subnet", "security_group">>)

Mq == DescribedOf("mq_broker", <<"subnet", "security_group">>)

(* emr.py *)
Emr ==
    <<Tagged("emr_cluster", "raise",
             <<Fetch("detail", "skip"), Fetch("security config", "error"),
               Add(Edges(<<"subnet", "security_group">>))>>)>>

(* sagemaker.py *)
Sagemaker ==
    <<Tagged("sagemaker_notebook", "raise",
             <<Fetch("detail", "skip"), FetchTags("silent"),
               Add(Edges(<<"subnet", "security_group">>))>>)>>

(* workspaces.py *)
Workspaces ==
    <<Tagged("workspace", "error", <<FetchTags("silent"), Add(Edges(<<"subnet">>))>>),
      Tagged("workspaces_ip_group", "error", <<FetchTags("silent"), Add(<<>>)>>),
      Tagged("workspaces_directory", "error", <<FetchTags("silent"), Add(<<>>)>>)>>

-----------------------------------------------------------------------------
(* Storage and databases. *)

(* s3.py: everything about one bucket is in one try, which nothing raises into
   but the cloud's own calls, all of them silent *)
S3 ==
    <<Tagged("s3_bucket", "raise",
             <<Guard("s3_bucket", <<FetchTags("silent"), Add(<<>>)>>)>>)>>

(* ebs.py *)
Ebs ==
    <<Single("ebs_region_settings", "silent", <<Add(<<>>)>>),
      Guard("volumes", <<Tagged("ebs_volume", "raise", <<Add(<<>>)>>)>>),
      Guard("snapshots", <<Tagged("ebs_snapshot", "raise", <<Add(<<>>)>>)>>),
      Guard("amis", <<Tagged("ebs_ami", "raise", <<Add(<<>>)>>)>>)>>

(* efs.py: the security groups of each mount target have a try of their own *)
Efs ==
    <<Tagged("efs_filesystem", "raise",
             <<Over("mount targets", "error",
                    <<Fetch("mount target security groups", "error")>>),
               Add(<<Via("mount targets", "subnet"),
                     Via("mount targets", "security_group"),
                     Via("mount targets", "vpc")>>)>>)>>

(* fsx.py, documentdb.py, neptune.py *)
Fsx == ListOf("fsx_file_system", <<"vpc", "subnet">>)

Documentdb == ListOf("docdb_cluster", <<"security_group">>)

Neptune == ListOf("neptune_cluster", <<"security_group">>)

(* dynamodb.py *)
Dynamodb ==
    <<Guard("tables",
            <<Tagged("dynamodb_table", "raise",
                     <<Fetch("detail", "skip"), FetchTags("silent"), Add(<<>>)>>)>>),
      Guard("dax clusters",
            <<Tagged("dax_cluster", "raise",
                     <<FetchTags("silent"), Add(Edges(<<"security_group">>))>>)>>)>>

(* rds.py: the engine versions are looked up once per engine in use, here once
   per instance *)
Rds ==
    <<Tagged("rds_instance", "raise", <<>>),
      Again("rds_instance", <<Fetch("engine versions", "error")>>),
      Fetch("protected resources", "error"),
      Again("rds_instance",
            <<Fetch("connections", "error"), Add(Edges(<<"vpc", "security_group">>))>>),
      Guard("clusters", <<Tagged("rds_cluster", "raise", <<Add(<<>>)>>)>>),
      Guard("snapshots", <<Tagged("rds_snapshot", "raise", <<Add(<<>>)>>)>>)>>

(* elasticache.py *)
Elasticache ==
    <<Fetch("protected resources", "error"),
      Guard("replication groups",
            <<Tagged("elasticache_replication_group", "raise",
                     <<FetchTags("silent"), Add(<<>>)>>)>>),
      Guard("cache clusters",
            <<Tagged("elasticache_cluster", "raise",
                     <<FetchTags("silent"), Add(Edges(<<"security_group">>))>>)>>)>>

(* redshift.py *)
Redshift ==
    <<Fetch("protected resources", "error"),
      Tagged("redshift_cluster", "raise", <<Add(Edges(<<"vpc", "security_group">>))>>)>>

(* elasticsearch.py *)
Elasticsearch ==
    <<Tagged("elasticsearch_domain", "raise",
             <<Fetch("detail", "skip"), FetchTags("silent"),
               Add(Edges(<<"vpc", "security_group", "subnet">>))>>)>>

(* athena.py *)
Athena == <<Untagged("athena_workgroup", "raise", <<Fetch("detail", "skip"), Add(<<>>)>>)>>

(* glue.py *)
Glue ==
    <<Guard("security configurations",
            <<Untagged("glue_security_config", "raise", <<Add(<<>>)>>)>>),
      Guard("connections",
            <<Untagged("glue_connection", "raise",
                       <<Add(Edges(<<"subnet", "security_group">>))>>)>>),
      Single("glue_catalog_encryption", "error", <<Add(<<>>)>>)>>

-----------------------------------------------------------------------------
(* Messaging, pipelines, certificates, parameters. *)

(* sns.py, sqs.py, acm.py *)
DescribedThenTagged(type) ==
    <<Tagged(type, "raise", <<Fetch("detail", "skip"), FetchTags("silent"), Add(<<>>)>>)>>

Sns == DescribedThenTagged("sns_topic")

Sqs == DescribedThenTagged("sqs_queue")

Acm == DescribedThenTagged("acm_certificate")

(* kinesis.py *)
Kinesis ==
    <<Guard("data streams",
            <<Tagged("kinesis_stream", "raise",
                     <<Fetch("summary", "skip"), Fetch("incoming records", "error"),
                       FetchTags("silent"), Add(<<>>)>>)>>),
      Guard("firehose streams",
            <<Tagged("kinesis_firehose_stream", "raise",
                     <<Fetch("detail", "skip"), FetchTags("silent"), Add(<<>>)>>)>>)>>

(* msk.py: a cluster that cannot be described is recorded from its summary *)
Msk ==
    <<Repaged(Tagged("msk_cluster", "raise",
                     <<Fetch("detail", "error"),
                       Add(Edges(<<"subnet", "security_group">>))>>))>>

(* cicd.py *)
Cicd ==
    <<Guard("codecommit repos",
            <<Tagged("codecommit_repo", "raise", <<FetchTags("silent"), Add(<<>>)>>)>>),
      Guard("codebuild projects",
            <<Tagged("codebuild_project", "raise",
                     <<Add(Edges(<<"vpc", "subnet", "security_group">>))>>)>>)>>

(* ssm.py, secretsmanager.py *)
Ssm == <<Tagged("ssm_parameter", "raise", <<FetchTags("silent"), Add(<<>>)>>)>>

Secretsmanager == ListOf("secretsmanager_secret", <<>>)

-----------------------------------------------------------------------------
(* Cost. *)

(* cost.py *)
Cost ==
    <<Tagged("budget", "raise",
             <<Fetch("notifications", "error"), FetchTags("silent"), Add(<<>>)>>)>>

(* reserved_instances.py: one loop over five sources; only the first returns
   records that carry tags *)
ReservedInstances ==
    <<Tagged("ec2_reserved_instance", "error", <<Add(<<>>)>>),
      Untagged("rds_reserved_instance", "error", <<Add(<<>>)>>),
      Untagged("elasticache_reserved_instance", "error", <<Add(<<>>)>>),
      Untagged("redshift_reserved_node", "error", <<Add(<<>>)>>),
      Untagged("elasticsearch_reserved_instance", "error", <<Add(<<>>)>>)>>

(* savingsplans.py *)
Savingsplans == ListOf("savings_plan", <<>>)

-----------------------------------------------------------------------------
(* sg.py, user.py, account.py *)

SgUsage == <<Fetch("glue connections", "error"), Always("security_group_usage")>>

Sg ==
    <<Fetch("rules", "error"),
      Tagged("security_group", "raise", <<Add(Edges(<<"vpc">>))>>)>> \o SgUsage

User ==
    <<Fetch("credential report", "error"),
      Tagged("iam_user", "raise",
             <<Fetch("policies and groups", "error"), Fetch("escalation actions", "error"),
               FetchTags("silent"), Add(<<>>)>>)>>

(* get_password_policy() turns every failure into a policy that says so *)
AccountIam ==
    <<Tagged("iam_role", "error", <<Add(<<>>)>>),
      Untagged("iam_group", "error", <<Add(<<>>)>>),
      Tagged("iam_policy", "error", <<Add(<<>>)>>),
      Untagged("iam_server_certificate", "error", <<Add(<<>>)>>),
      FirstPage(Tagged("iam_virtual_mfa_device", "silent", <<Add(<<>>)>>)),
      Always("iam_password_policy"),
      Single("iam_account_summary", "error", <<Add(<<>>)>>)>>

(* the permission sets of an instance are gathered whether or not the instance
   itself was recorded *)
AccountSso ==
    <<FirstPage(
          Tagged("sso_instance", "silent",
                 <<FetchTags("silent"), Add(<<>>),
                   Tagged("sso_permission_set", "error",
                          <<Fetch("permission set", "drop"), FetchTags("silent"),
                            Add(<<>>)>>)>>))>>

AccountGlobal ==
    AccountIam \o AccountSso \o
    <<Fetch("root credential report", "error"), Always("iam_root")>>

(* keys that AWS manages are not items at all; one whose description fails is
   taken for one of them *)
AccountKms ==
    <<Tagged("kms_key", "error",
             <<Fetch("key detail", "drop"), FetchTags("silent"), Add(<<>>)>>)>>

(* two trails may write to the same log group: its metric filters are then
   listed once for each *)
AccountTrails ==
    <<Tagged("cloudtrail_trail", "silent", <<FetchTags("silent"), Add(<<>>)>>),
      Guard("metric filters",
            <<Again("cloudtrail_trail",
                    <<Shared("cloudwatch_metric_filter", "raise", <<Add(<<>>)>>)>>)>>),
      Guard("eventbridge rules",
            <<Tagged("eventbridge_rule", "raise", <<FetchTags("silent"), Add(<<>>)>>)>>)>>

AccountConfig ==
    <<Untagged("config_recorder", "silent", <<Add(<<>>)>>),
      Untagged("config_delivery_channel", "silent", <<Add(<<>>)>>),
      FirstPage(Tagged("config_aggregator", "silent", <<FetchTags("silent"), Add(<<>>)>>))>>

AccountDetection ==
    <<FirstPage(Tagged("guardduty_detector", "silent",
                       <<Fetch("detector", "drop"), Add(<<>>)>>)),
      FirstPage(Tagged("access_analyzer", "silent", <<Add(<<>>)>>)),
      FirstPage(Tagged("cloudwatch_log_group", "silent",
                       <<FetchTags("silent"), Add(<<>>)>>)),
      Single("xray_encryption_config", "silent", <<Add(<<>>)>>)>>

Account == AccountKms \o AccountTrails \o AccountConfig \o AccountDetection

-----------------------------------------------------------------------------
(* The modules that run() calls once per region, and those it calls once. *)
RegionalPrograms ==
    [acm |-> Acm, apigateway |-> Apigateway, athena |-> Athena,
     autoscaling |-> Autoscaling, cicd |-> Cicd, documentdb |-> Documentdb,
     dynamodb |-> Dynamodb, ebs |-> Ebs, ec2 |-> Ec2, ecr |-> Ecr, ecs |-> Ecs,
     efs |-> Efs, eks |-> Eks, elasticache |-> Elasticache,
     elasticsearch |-> Elasticsearch, emr |-> Emr, fsx |-> Fsx, glue |-> Glue,
     kinesis |-> Kinesis, lambda |-> Lambda, lb |-> Lb, mq |-> Mq, msk |-> Msk,
     neptune |-> Neptune, network |-> Network, rds |-> Rds, redshift |-> Redshift,
     reserved_instances |-> ReservedInstances, sagemaker |-> Sagemaker,
     secretsmanager |-> Secretsmanager, sg |-> Sg, sns |-> Sns, sqs |-> Sqs,
     ssm |-> Ssm, transfer |-> Transfer, vpc |-> Vpc, workspaces |-> Workspaces,
     account |-> Account]

GlobalPrograms ==
    [s3 |-> S3, cost |-> Cost, cloudfront |-> Cloudfront, dnsinventory |-> Dnsinventory,
     route53 |-> Route53, savingsplans |-> Savingsplans, user |-> User,
     account_global |-> AccountGlobal]
=============================================================================
