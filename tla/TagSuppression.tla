----------------------------- MODULE TagSuppression -----------------------------
(***************************************************************************)
(* What a resource's tags or labels ask for: _normalize_tags() and         *)
(* parse_tag_suppression() of common/output.py.                            *)
(*                                                                         *)
(* A text is the sequence of the words between its hyphens, so that ""     *)
(* is <<"">>; the two methods of str that are applied to words are         *)
(* functions given from outside.                                           *)
(***************************************************************************)
EXTENDS Naturals, Sequences

CONSTANTS Words,    (* the words that occur                                   *)
          Strip,    (* str.strip                                              *)
          Lower     (* str.lower                                              *)

ASSUME WordAssumption == Strip \in [Words -> Words] /\ Lower \in [Words -> Words]

SuppressTagKey == "lensix-suppress"
SuppressChecksTagKey == "lensix-suppress-checks"

(* Python's None, as a text and as the name of a field. *)
NoText == <<>>
NoField == ""

-----------------------------------------------------------------------------
(* The tags as the SDKs return them: nothing, a dict, or a list of dicts whose
   field names differ from one AWS service to the next. *)
NoTags == [shape |-> "none"]

Dict(tags) == [shape |-> "dict", dict |-> tags]

List(tags) == [shape |-> "list", list |-> tags]

FirstOf(fields, there) ==
    LET found == {i \in DOMAIN fields : fields[i] \in there}
    IN  IF found = {} THEN NoField
                      ELSE fields[CHOOSE i \in found : \A j \in found : i <= j]

KeyOf(tag) ==
    LET field == FirstOf(<<"Key", "key", "TagKey">>, DOMAIN tag)
    IN  IF field = NoField THEN NoField ELSE tag[field]

(* Slip: KMS, which names the fields in its own way, forgotten. *)
ValueOfTwoShapes(tag) ==
    LET field == FirstOf(<<"Value", "value">>, DOMAIN tag)
    IN  IF field = NoField THEN NoText ELSE tag[field]

ValueOf(tag) ==
    LET field == FirstOf(<<"Value", "value", "TagValue">>, DOMAIN tag)
    IN  IF field = NoField THEN NoText ELSE tag[field]

(* of two tags with one key the later one counts *)
FromList(list) ==
    LET keys == {KeyOf(list[i]) : i \in DOMAIN list} \ {NoField}
        last(key) == CHOOSE i \in DOMAIN list :
                         /\ KeyOf(list[i]) = key
                         /\ \A j \in DOMAIN list : KeyOf(list[j]) = key => j <= i
    IN  [key \in keys |-> ValueOf(list[last(key)])]

NormalizeTags(tags) ==
    CASE tags.shape = "none" -> <<>>
      [] tags.shape = "dict" -> tags.dict
      [] tags.shape = "list" -> FromList(tags.list)

-----------------------------------------------------------------------------
Get(tags, key) == IF key \in DOMAIN tags THEN tags[key] ELSE NoText

(* str(value).strip().lower() == 'true' *)
MeansTrue(text) == Len(text) = 1 /\ Lower[Strip[Head(text)]] = "true"

NamedIn(text) == {Strip[text[i]] : i \in DOMAIN text} \ {""}

ParseTagSuppression(tags) ==
    LET normalized == NormalizeTags(tags)
    IN  [full |-> MeansTrue(Get(normalized, SuppressTagKey)),
         checks |-> NamedIn(Get(normalized, SuppressChecksTagKey))]
=================================================================================
