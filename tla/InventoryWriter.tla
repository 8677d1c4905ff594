--------------------------- MODULE InventoryWriter ---------------------------
(***************************************************************************)
(* The InventoryWriter of lensix_inventory/common/output.py: the object    *)
(* every gather function writes to, and the NDJSON file it becomes.        *)
(*                                                                         *)
(* A resource's `raw` payload is abstracted to the one part of it that the *)
(* writer itself changes, the list of suppressed check ids; names, scopes  *)
(* and payloads are copied untouched by the code and left out.  What a     *)
(* resource's tags ask for is an "intent", the pair that                   *)
(* parse_tag_suppression returns (module TagSuppression computes it from   *)
(* the tags).                                                              *)
(*                                                                         *)
(* The actions take their arguments as parameters, so that the modules     *)
(* that compose the writer with its callers (GatherModule, ProviderRun)    *)
(* use the same actions; Next below calls them in any order.               *)
(***************************************************************************)
EXTENDS Naturals, Sequences, FiniteSets

CONSTANTS ResourceTypes,  (* the resource_type values the callers use        *)
          Regions,        (* region names, among them NoRegion               *)
          NoRegion,       (* a region that is falsy in Python                *)
          ResourceIds,    (* resource_id values                              *)
          CheckIds,       (* the check ids a tag can name                    *)
          Sources,        (* `source` values of error entries                *)
          NoFile,         (* nothing at the output path                      *)
          StaleFile,      (* at the output path, a file this run did not write *)
          MaxEntries      (* bound: entries of all lists, for this module's Next *)

VARIABLES records,          (* self._records                                 *)
          counts,           (* self._counts: the types recorded so far       *)
          regions,          (* self._regions                                 *)
          errors,           (* self._errors                                  *)
          tagSuppressions,  (* self._tag_suppressions                        *)
          edges,            (* self._edges                                   *)
          file,             (* what is at the output path                    *)
          phase             (* where write() stands                          *)

writerVars == <<records, counts, regions, errors, tagSuppressions, edges,
                file, phase>>

-----------------------------------------------------------------------------
(* The values that the lists hold. *)

Intent == [full : BOOLEAN, checks : SUBSET CheckIds]

NoIntent == [full |-> FALSE, checks |-> {}]

Record == [type : ResourceTypes, region : Regions, id : ResourceIds,
           checks : SUBSET CheckIds]

Suppression == [type : ResourceTypes, region : Regions, id : ResourceIds,
                full : BOOLEAN, checks : SUBSET CheckIds]

Endpoint == [type : ResourceTypes, id : ResourceIds]

Edge == [from : Endpoint, to : Endpoint]

Error == [region : Regions, source : Sources]

(* resource_counts is 0 where dict(self._counts) has no such key. *)
Manifest == [regions : SUBSET Regions, resource_counts : [ResourceTypes -> Nat],
             total_resources : Nat, total_edges : Nat, error_count : Nat]

Line == [kind : {"resource"}, body : Record] \cup [kind : {"edge"}, body : Edge]
            \cup [kind : {"error"}, body : Error]

File == [manifest : Manifest, lines : Seq(Line), closed : BOOLEAN, private : BOOLEAN]

ASSUME WriterAssumption ==
    /\ NoRegion \in Regions
    /\ MaxEntries \in Nat
    /\ NoFile \notin File /\ StaleFile \notin File

LinesOf(kind, list) == [i \in DOMAIN list |-> [kind |-> kind, body |-> list[i]]]

(* The lines after the manifest, in the order the three loops write them. *)
AllLines == LinesOf("resource", records) \o LinesOf("edge", edges)
                \o LinesOf("error", errors)

-----------------------------------------------------------------------------
WriterInit ==
    /\ records = <<>>
    /\ counts = <<>>
    /\ regions = {}
    /\ errors = <<>>
    /\ tagSuppressions = <<>>
    /\ edges = <<>>
    /\ file \in {NoFile, StaleFile}
    /\ phase = "gathering"

(* A defaultdict(int): a key is there once it has been counted. *)
Count(totals, type) == IF type \in DOMAIN totals THEN totals[type] ELSE 0

OneMore(totals, type) ==
    [t \in DOMAIN totals \cup {type} |-> Count(totals, t) + (IF t = type THEN 1 ELSE 0)]

(* add_resource keeps the resource unless its tags suppress all of it.  The
   caller learns which from the return value: Recorded(intent).  The payload is a
   dict at every call, and so can carry check ids. *)
Recorded(intent) == ~intent.full

(* Slips: the totals kept before the test for suppression, the check ids not
   copied into raw, the suppression noted only for what is recorded. *)
AddResourceCountedFirst(type, region, id, intent) ==
    /\ phase = "gathering"
    /\ counts' = OneMore(counts, type)
    /\ regions' = regions \cup ({region} \ {NoRegion})
    /\ records' = IF Recorded(intent)
                     THEN Append(records, [type |-> type, region |-> region,
                                           id |-> id, checks |-> intent.checks])
                     ELSE records
    /\ UNCHANGED <<tagSuppressions, errors, edges, file, phase>>

AddResourceWithoutChecks(type, region, id, intent) ==
    /\ phase = "gathering"
    /\ records' = Append(records, [type |-> type, region |-> region,
                                   id |-> id, checks |-> {}])
    /\ tagSuppressions' = Append(tagSuppressions,
                                 [type |-> type, region |-> region, id |-> id,
                                  full |-> intent.full, checks |-> intent.checks])
    /\ UNCHANGED <<counts, regions, errors, edges, file, phase>>

AddResource(type, region, id, intent) ==
    /\ phase = "gathering"
    /\ tagSuppressions' =
           IF intent.full \/ intent.checks # {}
             THEN Append(tagSuppressions,
                         [type |-> type, region |-> region, id |-> id,
                          full |-> intent.full, checks |-> intent.checks])
             ELSE tagSuppressions
    /\ IF Recorded(intent)
         THEN /\ records' = Append(records, [type |-> type, region |-> region,
                                             id |-> id, checks |-> intent.checks])
              /\ counts' = OneMore(counts, type)
              /\ regions' = regions \cup ({region} \ {NoRegion})
         ELSE UNCHANGED <<records, counts, regions>>
    /\ UNCHANGED <<errors, edges, file, phase>>

(* add_edge checks nothing about either endpoint. *)
AddEdge(from, to) ==
    /\ phase = "gathering"
    /\ edges' = Append(edges, [from |-> from, to |-> to])
    /\ UNCHANGED <<records, counts, regions, errors, tagSuppressions, file, phase>>

AddError(region, source) ==
    /\ phase = "gathering"
    /\ errors' = Append(errors, [region |-> region, source |-> source])
    /\ UNCHANGED <<records, counts, regions, tagSuppressions, edges, file, phase>>

-----------------------------------------------------------------------------
(* write(path).  The manifest is computed before the file is opened, and
   opening truncates whatever the path held. *)
ManifestNow ==
    [regions |-> regions, resource_counts |-> [t \in ResourceTypes |-> Count(counts, t)],
     total_resources |-> Len(records), total_edges |-> Len(edges),
     error_count |-> Len(errors)]

(* Slip: a manifest that does not count the errors. *)
ManifestWithoutErrors == [ManifestNow EXCEPT !.error_count = 0]

WriteOpenUncounted ==
    /\ phase = "gathering"
    /\ phase' = "writing"
    /\ file' = [manifest |-> ManifestWithoutErrors, lines |-> <<>>, closed |-> FALSE,
                private |-> FALSE]
    /\ UNCHANGED <<records, counts, regions, errors, tagSuppressions, edges>>

(* Slip: the manifest written as a placeholder, to be filled in later. *)
WriteOpenPlaceholder ==
    /\ phase = "gathering"
    /\ phase' = "writing"
    /\ file' = [manifest |-> [regions |-> regions], lines |-> <<>>, closed |-> FALSE,
                private |-> FALSE]
    /\ UNCHANGED <<records, counts, regions, errors, tagSuppressions, edges>>

WriteOpen ==
    /\ phase = "gathering"
    /\ phase' = "writing"
    /\ file' = [manifest |-> ManifestNow, lines |-> <<>>, closed |-> FALSE,
                private |-> FALSE]
    /\ UNCHANGED <<records, counts, regions, errors, tagSuppressions, edges>>

WriteLine ==
    /\ phase = "writing"
    /\ Len(file.lines) < Len(AllLines)
    /\ file' = [file EXCEPT !.lines = Append(@, AllLines[Len(@) + 1])]
    /\ UNCHANGED <<records, counts, regions, errors, tagSuppressions, edges, phase>>

(* Slip: the file taken for finished once every resource is in it. *)
WriteCloseAfterResources ==
    /\ phase = "writing"
    /\ Len(file.lines) = Len(records)
    /\ phase' = "written"
    /\ file' = [file EXCEPT !.closed = TRUE]
    /\ UNCHANGED <<records, counts, regions, errors, tagSuppressions, edges>>

(* Leaving the `with` closes the file; os.chmod follows, and an OSError from
   it is ignored, so the file may keep the umask's permissions. *)
WriteClose ==
    /\ phase = "writing"
    /\ Len(file.lines) = Len(AllLines)
    /\ phase' = "written"
    /\ \E private \in BOOLEAN :
           file' = [file EXCEPT !.closed = TRUE, !.private = private]
    /\ UNCHANGED <<records, counts, regions, errors, tagSuppressions, edges>>

(* An exception out of write(): the path cannot be opened, the disk is full, a
   value does not serialise.  Nothing removes or renames what was written; the
   `with` still closes the file, unless closing is what fails. *)
WriteFail ==
    /\ \/ phase = "gathering" /\ UNCHANGED file
       \/ /\ phase = "writing"
          /\ \E closed \in BOOLEAN : file' = [file EXCEPT !.closed = closed]
    /\ phase' = "failed"
    /\ UNCHANGED <<records, counts, regions, errors, tagSuppressions, edges>>

WriteStep == WriteOpen \/ WriteLine \/ WriteClose \/ WriteFail

-----------------------------------------------------------------------------
(* A caller that makes any calls, in any order, and then writes the file. *)
RoomLeft == Len(records) + Len(errors) + Len(edges) + Len(tagSuppressions) < MaxEntries

SomeAddResource ==
    \E t \in ResourceTypes, r \in Regions, i \in ResourceIds, k \in Intent :
        AddResource(t, r, i, k)

SomeAddEdge == \E f \in Endpoint, t \in Endpoint : AddEdge(f, t)

SomeAddError == \E r \in Regions, s \in Sources : AddError(r, s)

WriterNext ==
    \/ RoomLeft /\ SomeAddResource
    \/ RoomLeft /\ SomeAddEdge
    \/ RoomLeft /\ SomeAddError
    \/ WriteStep

WriterSpec == WriterInit /\ [][WriterNext]_writerVars

-----------------------------------------------------------------------------
WriterTypeOK ==
    /\ records \in Seq(Record)
    /\ \E types \in SUBSET ResourceTypes : counts \in [types -> Nat]
    /\ regions \in SUBSET Regions
    /\ errors \in Seq(Error)
    /\ tagSuppressions \in Seq(Suppression)
    /\ edges \in Seq(Edge)
    /\ phase \in {"gathering", "writing", "written", "failed"}
    /\ file \in {NoFile, StaleFile} \cup File
    /\ phase \in {"writing", "written"} => file \in File

IndicesOf(list, P(_)) == {i \in DOMAIN list : P(list[i])}

(* Whatever sequence of calls was made, the running totals that become the
   manifest (add_resource's _counts and _regions) are those of the records
   actually kept: a suppressed resource is counted nowhere, a kept one once, and
   no type is named of which there is none. *)
TotalsMatchRecords ==
    /\ DOMAIN counts = {records[i].type : i \in DOMAIN records}
    /\ \A t \in DOMAIN counts :
           counts[t] = Cardinality(IndicesOf(records, LAMBDA r : r.type = t))
    /\ regions = {records[i].region : i \in DOMAIN records} \ {NoRegion}

(* Two parts of lists, given as functions on positions, hold the same entries in
   the same order. *)
SameInOrder(part, other) ==
    \E at \in [DOMAIN part -> DOMAIN other] :
        /\ \A i, j \in DOMAIN part : i < j => at[i] < at[j]
        /\ \A j \in DOMAIN other : \E i \in DOMAIN part : at[i] = j
        /\ \A i \in DOMAIN part : part[i] = other[at[i]]

AsRecord(entry) == [type |-> entry.type, region |-> entry.region, id |-> entry.id,
                    checks |-> entry.checks]

(* Per-check suppression is told twice, in the record itself
   (raw['_SuppressedCheckIds']) and in tag_suppressions, which another program
   copies into its own table; the two lists tell the same story, resource for
   resource and in the same order. *)
SuppressionsAgree ==
    LET kept == IndicesOf(tagSuppressions, LAMBDA s : ~s.full)
        named == IndicesOf(records, LAMBDA r : r.checks # {})
    IN  SameInOrder([i \in kept |-> AsRecord(tagSuppressions[i])],
                    [i \in named |-> records[i]])

FileCount(kind) == Cardinality(IndicesOf(file.lines, LAMBDA l : l.kind = kind))

(* What an importer can check of a file: its line counts are its manifest's. *)
CountsAsClaimed ==
    /\ FileCount("resource") = file.manifest.total_resources
    /\ FileCount("edge") = file.manifest.total_edges
    /\ FileCount("error") = file.manifest.error_count
    /\ \A t \in ResourceTypes :
           file.manifest.resource_counts[t] =
               Cardinality(IndicesOf(file.lines, LAMBDA l :
                   l.kind = "resource" /\ l.body.type = t))

(* write() is not atomic: a failure leaves a truncated file that may even be a
   well-formed gzip.  The manifest on line 1, written before the rest, makes
   every such file recognisable: its line counts agree with its manifest only
   when no line is missing. *)
TruncationIsVisible ==
    file \notin {NoFile, StaleFile} => (CountsAsClaimed <=> file.lines = AllLines)

(* write() returns only after the whole inventory is in a closed file. *)
WrittenIsComplete ==
    phase = "written" => file.closed /\ file.lines = AllLines
=============================================================================
