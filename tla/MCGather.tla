------------------------------- MODULE MCGather -------------------------------
(* The gather functions of the three providers, each run on its own against an *)
(* account in which up to MaxEvents things happen: a resource is listed, a     *)
(* call fails, an edge is found; and some that share resources, one after the  *)
(* other as run() calls them.                                                  *)
EXTENDS GatherForms, TLC

Aws == INSTANCE AwsGatherers
Azure == INSTANCE AzureGatherers
Gcp == INSTANCE GcpGatherers

(* A gather function is named by its provider and its module. *)
Names(provider, modules) == {provider \o m : m \in modules}

Named(provider, programs) ==
    [p \in Names(provider, DOMAIN programs) |->
        programs[CHOOSE m \in DOMAIN programs : p = provider \o m]]

AwsModules == Named("aws/", Aws!RegionalPrograms @@ Aws!GlobalPrograms)
AzureModules == Named("azure/", Azure!Modules)
GcpModules == Named("gcp/", Gcp!Modules)

(* GCP modules that look networks up, with the one that records them, in the order
   of MODULES; the networks of the project do not change in between. *)
GcpOnNetworks ==
    Named("gcp/vpc after ", [n \in {"compute", "gke", "lb", "sql"} |-> Gcp!InTurn(<<n, "vpc">>)])

MCPrograms == AwsModules @@ AzureModules @@ GcpModules @@ GcpOnNetworks

Everyone == DOMAIN MCPrograms

-----------------------------------------------------------------------------
(* What is not claimed of whom; the README says why. *)

(* a list call that fails, or a description that does, goes unreported *)
Silent == Names("aws/", {"account", "account_global", "ebs"})

(* a list call without a second page *)
OnePage == Names("gcp/", {"iam", "logging"})

(* one thing recorded under two items of an outer loop, or from two lists *)
Overlap == Names("aws/", {"account", "msk", "apigateway"})

(* ids that are bare names, which two locations may both use *)
BareNames == Names("gcp/", {"gke", "vpc after gke"})

(* those whose comments or docstrings say that each list has a try of its own *)
Isolating ==
    DOMAIN GcpModules \cup DOMAIN GcpOnNetworks
    \cup Names("aws/", {"account", "account_global", "apigateway", "cicd", "dynamodb",
                         "ebs", "ecs", "elasticache", "glue", "kinesis",
                         "reserved_instances", "route53", "vpc", "workspaces"})
    \cup Names("azure/", {"authorization", "defender", "keyvault", "mysql", "network",
                           "networkwatcher", "postgresql", "resources",
                           "securitycenter", "sql", "storage", "vm"})

MCClaims ==
    [EdgeOwnersRecorded |-> Everyone \ {"azure/vm"},
     EdgesFromRecorded  |-> Everyone \ {"azure/vm", "aws/vpc"},
     UniqueRecords      |-> Everyone \ (Overlap \cup BareNames),
     LossIsExplained    |-> Everyone \ Silent,
     NoSilentLoss       |-> Everyone \ (Silent \cup OnePage),
     SectionsIsolated   |-> Isolating,
     NetworkEdgesLand   |-> {"gcp/vpc"},
     DanglingExplained  |-> DOMAIN GcpOnNetworks]

-----------------------------------------------------------------------------
(* Single functions, of which all is claimed. *)
Only(name) == [p \in {name} |-> MCPrograms[p]]

MCOnlyAwsVpc == Only("aws/vpc")
MCOnlyEc2 == Only("aws/ec2")
MCOnlyLambda == Only("aws/lambda")
MCOnlyAccount == Only("aws/account")

(* What is reached from these by going from each to those under it, no deeper than
   any program nests its statements. *)
Depth == 9
Reached(first, Under(_)) ==
    LET upTo[depth \in 0 .. Depth] ==
            IF depth = 0 THEN first
            ELSE LET before == upTo[depth - 1] IN before \cup UNION {Under(s) : s \in before}
    IN  upTo[Depth]

(* Those of `parts` from which some of these are reached. *)
Above(first, parts, Under(_)) ==
    LET upTo[depth \in 0 .. Depth] ==
            IF depth = 0 THEN first
            ELSE LET before == upTo[depth - 1]
                 IN  before \cup {s \in parts : Under(s) \cap before # {}}
    IN  upTo[Depth]

Of(body) == {body[i] : i \in DOMAIN body}
Within(s) == IF s.op \in Compound THEN Of(s.body) ELSE {}

(* The statements of a program, at any depth. *)
Parts(program) == Reached(Of(program), Within)

MCStatements == UNION {Parts(Programs[p]) : p \in DOMAIN Programs}

MCClaimAll == [p \in DOMAIN MCClaims |-> DOMAIN Programs]

-----------------------------------------------------------------------------
(* The functions of which a property is claimed have the form that the theorem about
   it asks for. *)
OfForm(property, Form(_)) == \A name \in MCClaims[property] : Form(MCPrograms[name])

(* those that may run for an item that is not known to be recorded, and the others *)
OutsideAdd(program) ==
    LET Under(pair) == {<<s, IF pair[1].op = "add" THEN TRUE
                             ELSE pair[1].op \notin {"each", "again"} /\ pair[2]>> :
                           s \in Within(pair[1])}
    IN  Reached(Of(program) \X {FALSE}, Under)

UnderAdd(program) ==
    EdgesUnderAdd(program, {p[1] : p \in {q \in OutsideAdd(program) : ~q[2]}},
                           {p[1] : p \in {q \in OutsideAdd(program) : q[2]}})

FromSelf(program) == EdgesFromSelf(Parts(program))

AllResolved(program) ==
    MadeOf(program, Parts(program)) /\ NetworksResolved(Parts(program))

AllTold(program) == MadeOf(program, Parts(program)) /\ ListsTold(Parts(program))

Untried(s) == IF s.op \in {"guard", "call"} THEN {} ELSE Within(s)

InTry(program) == RaisesInTry(program, Reached(Of(program), Untried))

(* the statements with the types of their items, and the types whose edges rely on
   tags that were inherited *)
Typed(program) ==
    LET Under(pair) ==
            {<<s, IF pair[1].op \in {"each", "again"} THEN pair[1].what ELSE pair[2]>> :
                s \in Within(pair[1])}
    IN  Reached(Of(program) \X {NotAResource}, Under)

HeirsIn(typed) ==
    {<<p[2], p[1].to>> : p \in
        {q \in typed : /\ q[1].op = "edge" /\ q[1].from = "self"
                       /\ q[1].among \notin {"recorded", "recorded parent"}
                       /\ \/ <<q[2], q[1].to>> \in Nests(typed)
                          \/ q[1].among # "any" /\ q[1].to \in Singles(typed)}}

OwnParents(program) ==
    LET typed == Typed(program)
        heirs == HeirsIn(typed)
    IN  /\ Fits(program, typed, heirs) /\ ParentsFound(typed, heirs)
        /\ heirs # {} => UnderAdd(program)
        /\ Inherits(typed, heirs)

(* what hands an item over, what does not raise, and so on *)
Calls(parts) == {s \in parts : s.op \in {"each", "fetch", "when"}}
Tried(s) == IF s.op = "guard" THEN Within(s) ELSE {}

KeepsIn(parts) == Above({s \in parts : s.op = "add"}, parts, Tried)
CalmIn(parts) == parts \ Above({s \in Calls(parts) : s.fail = "raise"}, parts, Untried)
LateIn(parts) == parts \ Above({s \in Calls(parts) : s.fail = "return"}, parts, Within)
QuietIn(parts) ==
    parts \ Above({s \in Calls(parts) : s.op = "each" /\ ~s.aside}, parts, Within)
TriedIn(parts) ==
    Reached(UNION {Within(s) : s \in {t \in parts : t.op \in {"guard", "call"}}}, Within)
PlainIn(parts) ==
    LET lists == {s \in parts : s.op = "each"}
    IN  {s.what : s \in {t \in lists : t.form \in {"shared", "known"}}}
        \ {s.what : s \in {t \in lists : t.tags # "none"}}

FormOf(program) ==
    LET parts == Parts(program)
    IN  [typed |-> Typed(program), keeps |-> KeepsIn(parts), plain |-> PlainIn(parts),
         quiet |-> QuietIn(parts), late |-> LateIn(parts), calm |-> CalmIn(parts),
         tried |-> TriedIn(parts)]

Reports(program) == TellsOfItems(program, Typed(program), KeepsIn(Parts(program)))

(* what may hand the item at hand over, and what may hand over others than new ones *)
Passing(s) == IF s.op \in Through THEN Within(s) ELSE {}
AddsIn(parts) == Above({s \in parts : s.op = "add"}, parts, Passing)

OnceIn(parts) ==
    LET again == {s \in parts : /\ \/ s.op = "again"
                                   \/ s.op = "each" /\ s.form \in {"single", "known"}
                                /\ Within(s) \cap AddsIn(parts) # {}}
    IN  UNION {{<<s, one.what>> : s \in Above({one}, parts, Passing)} : one \in again}

NoTwice(program) ==
    LET parts == Parts(program)
    IN  HandsOnce(program, [typed |-> Typed(program), plain |-> PlainIn(parts),
                            adds |-> AddsIn(parts), once |-> OnceIn(parts)])

(* the way to the list call of vpc.py for a type of networks *)
WayTo(type, program) ==
    LET parts == Parts(program)
        list == CHOOSE s \in parts : /\ s.op = "each" /\ s.what = type
                                     /\ s.form = "known" /\ ~s.aside
        InCall(s) == IF s.op = "call" THEN {} ELSE Within(s)
    IN  [list |-> list,
         call |-> CHOOSE s \in Of(program) : Guard(type, <<list>>) \in Within(s),
         stays |-> parts \ Above({s \in Calls(parts) : s.fail = "return"}, parts, InCall),
         before |-> parts \ Above({list}, parts, Within),
         after |-> parts \ Above({s \in parts : s.op = "each" /\ s.what = type /\ s.aside},
                                 parts, Within)]

NetworksLater(program) ==
    LET parts == Parts(program)
    IN  LooksUp(program,
                FormOf(program) @@
                [parts |-> parts,
                 open |-> Reached(Of(program), Untried),
                 ways |-> [type \in Networking |-> WayTo(type, program)]])

ASSUME FormsAssumption ==
    /\ \A name \in Everyone : Careful(MCPrograms[name], FormOf(MCPrograms[name]))
    /\ \A name \in Everyone : OwnParents(MCPrograms[name])
    /\ OfForm("LossIsExplained", Reports)
    /\ OfForm("UniqueRecords", NoTwice)
    /\ OfForm("EdgeOwnersRecorded", UnderAdd)
    /\ OfForm("EdgesFromRecorded", UnderAdd) /\ OfForm("EdgesFromRecorded", FromSelf)
    /\ OfForm("NetworkEdgesLand", AllResolved)
    /\ OfForm("NoSilentLoss", AllTold)
    /\ OfForm("SectionsIsolated", InTry)
    /\ OfForm("DanglingExplained", NetworksLater)

-----------------------------------------------------------------------------
MCResourceTypes == STRING
MCRegions == {"r1", ""}
MCResourceIds == 0 .. MaxEvents
MCCheckIds == {}
MCIntents == {NoIntent, [full |-> TRUE, checks |-> {}]}
MCSources == [what : STRING, n : 0 .. MaxEvents]
=============================================================================
