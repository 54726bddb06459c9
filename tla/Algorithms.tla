----------------------------- MODULE Algorithms -----------------------------
(***************************************************************************)
(* The pure parts of the program over all small inputs: the merge of an    *)
(* import, names, and decoded values, each against a definition that says  *)
(* what the result is instead of how it is computed.                       *)
(***************************************************************************)
EXTENDS ImportMerge, Scalars, FiniteSets

CONSTANTS
    Ids, MergeTexts, MaxConfigured, MaxFound,  \* inputs of a merge
    MaxText,                                   \* of names
    MaxBytes                                   \* of values

VARIABLES input, output
algorithm == <<input, output>>

-----------------------------------------------------------------------------
(* Inputs *)

Configured == [id : Ids, tag : MergeTexts \cup {Blank}, label : {Blank}, enabled : BOOLEAN]
Found == [id : Ids, tag : MergeTexts \cup {Blank}, label : MergeTexts, enabled : {TRUE}]

Characters9 == {"a", "A", "_", "-", " ", "/", "+", "0", "1"}
Texts == BoundedSeq(Characters9, MaxText)

\* Types 2 and 3 have names.
MCDigits == {"0", "1", "2", "3"}
MCNameOf == [type \in {<<"2">>, <<"3">>} |-> IF type = <<"2">> THEN <<"A">> ELSE <<"A", "_", "A">>]
MCLower(c) == IF c = "A" THEN "a" ELSE c

N == INSTANCE Names WITH Lower <- MCLower, Digits <- MCDigits, Width <- 2, NameOf <- MCNameOf

\* Around the sign bit, and such that some are lengths, too.
Bytes == {0, 4, 5, 7}
ASSUME BytesAssumption == Bytes \subseteq 0 .. Base - 1
MCUtf8 == BoundedSeq({0, 4, 5}, MaxBytes)
Tags == {0, 1, 2, 3, 4, 5, 7, 9, 12, 13}

MergeInputs ==
    [of : {"merge"}, points : BoundedSeq(Configured, MaxConfigured), found : BoundedSeq(Found, MaxFound)]
NameInputs == [of : {"name"}, text : Texts]
ScalarInputs ==
    [of : {"scalar"}, tag : Tags, code : 0 .. 6, rest : BoundedSeq(Bytes, MaxBytes)]

\* The output is empty until it is computed.
NotYet == << >>
result == Head(output)

AlgorithmInit ==
    /\ \/ input \in MergeInputs
       \/ input \in NameInputs
       \/ input \in ScalarInputs
    /\ output = NotYet

MergePoints == input.of = "merge" /\ output' = << Merge(input.points, input.found) >>

ReadName ==
    /\ input.of = "name"
    /\ output' = << [identity |-> N!IdentityPart(input.text),
                  level |-> N!SanitizeSegment(input.text),
                  types |-> N!ObjectTypeFromText(input.text)] >>

Decode == input.of = "scalar" /\ output' = << DecodeScalar(input.tag, input.code, input.rest) >>

AlgorithmNext == output = NotYet /\ UNCHANGED input /\ (MergePoints \/ ReadName \/ Decode)

AlgorithmSpec == AlgorithmInit /\ [][AlgorithmNext]_algorithm

Computed(what) == output # NotYet /\ input.of = what

-----------------------------------------------------------------------------
(* The merge *)

Identities(list) == { list[i].id : i \in DOMAIN list }

\* The positions of the found points that speak of this identity and say
\* something of this field.
Saying(found, id, field) ==
    { k \in DOMAIN found : found[k].id = id /\ found[k][field] # Blank }

Latest(found, id, field, otherwise) ==
    LET saying == Saying(found, id, field)
    IN  IF saying = {} THEN otherwise ELSE found[Max(saying)][field]

LastOfIdentity(points, i) == \A j \in DOMAIN points : points[j].id = points[i].id => j <= i

MergedAsFound(points, found, merge) ==
    LET merged == merge.points
        new == Identities(found) \ Identities(points)
        old == DOMAIN points
    IN  /\ Len(merged) = Len(points) + merge.added
        /\ merge.added = Cardinality(new)
        /\ merge.updated <= Len(found) - merge.added
        /\ \A i \in old :
              merged[i] = IF LastOfIdentity(points, i)
                          THEN [points[i] EXCEPT
                                  !.tag = Latest(found, points[i].id, "tag", @),
                                  !.label = Latest(found, points[i].id, "label", @)]
                          ELSE points[i]
        /\ \A i \in DOMAIN merged \ old :
              /\ merged[i].id \in new
              /\ merged[i].tag = Latest(found, merged[i].id, "tag", Blank)
              /\ merged[i].label = Latest(found, merged[i].id, "label", Blank)
              /\ \A j \in DOMAIN merged \ old :
                    i < j => FirstOfIdentity(found, merged[i].id)
                               < FirstOfIdentity(found, merged[j].id)

\* The merge leaves every configured point where it is, with its identity and its
\* enabled flag; the last point of an identity takes the latest text found for it,
\* an earlier duplicate keeps its own; new identities follow once each in the order
\* in which they were found, and are what "added" counts.  Importing the same scan
\* again adds nothing and changes no point: the list does not grow, or flip between
\* two tags, from one scan-all to the next.
MergeCorrect ==
    Computed("merge") =>
        /\ MergedAsFound(input.points, input.found, result)
        /\ LET again == Merge(result.points, input.found)
           IN  again.points = result.points /\ again.added = 0

-----------------------------------------------------------------------------
(* Names *)

Types == [t \in Texts |-> N!ObjectTypeFromText(t)]
Identity == [t \in Texts |-> N!IdentityPart(t)]
Level == [t \in Texts |-> N!SanitizeSegment(t)]

SomePrefixes == { << >>, <<"a">>, <<"/", "a", "/", "+">>, <<"a", "/", "#">>, <<"+">> }

\* Points that can be read, whose topics are the default ones.  Some labels leave nothing
\* of a level.
Read == { t \in Texts : Types[t] # {} }
ReadPoints ==
    [tag_path : {<< >>}, device_label : {<< >>, <<"#">>, <<"a">>}, device_instance : {<<"1">>},
     object_type : Read, object_instance : {<<"1">>, <<"1", "0">>},
     property : Read \cap {<<"a">>, <<"1">>}]
Published == [prefix \in SomePrefixes |->
                { [point |-> p, topic |-> N!TelemetryTopic(prefix, p)] : p \in ReadPoints }]

\* Two spellings of a type that are one part of a PointIdentity are read as one type by
\* object_type_from_text, or neither is read: points that share a status because their
\* types are spelled alike are of one type.
IdentitiesReadAlike ==
    Computed("name") => \A t \in Texts : Identity[t] = result.identity => Types[t] = result.types

\* No text is read as two types.  What an import calls a type is read back as that type,
\* and is its own identity, so that the same object found again is the same point.
TypesToldApart ==
    Computed("name") =>
        /\ Cardinality(result.types) <= 1
        /\ \A type \in result.types : LET name == N!ObjectTypeName(type) IN
              N!ObjectTypeFromText(name) = {type} /\ N!IdentityPart(name) = name

\* Two points that can be read share a default topic only if their labels give one level,
\* and the types, the numbers of the objects and the properties are the same.  A default
\* topic can be published to.
TopicsToldApart ==
    Computed("name") =>
        \A prefix \in SomePrefixes : \A p \in Published[prefix] :
            p.point.object_type = input.text =>
                /\ N!ValidatePublishTopic(p.topic) = "Ok"
                /\ \A q \in Published[prefix] : q.topic = p.topic =>
                      /\ N!DeviceLevel(q.point) = N!DeviceLevel(p.point)
                      /\ Types[q.point.object_type] = result.types
                      /\ q.point.object_instance = p.point.object_instance
                      /\ Types[q.point.property] = Types[p.point.property]

\* Whatever the prefix, the tag path and the texts of the point, its topic has no wildcard:
\* what can be wrong with it is that nothing is left of it.
NoTopicHasWildcard ==
    Computed("name") =>
        \A prefix \in SomePrefixes :
            N!ValidatePublishTopic(N!TelemetryTopic(prefix,
                [tag_path |-> input.text, device_label |-> input.text, device_instance |-> <<"1">>,
                 object_type |-> input.text, object_instance |-> <<"1">>, property |-> input.text]))
              # "Wildcard"

\* Texts name what is read of a device: spellings of a type that share an identity are read
\* alike (PointIdentity, object_type_from_text), an imported type is found again, default
\* topics are told apart by all but the device behind a label and can be published to, and
\* no topic has a wildcard (telemetry_topic, validate_publish_topic).  Devices with one
\* label do share topics.
NamesSound == IdentitiesReadAlike /\ TypesToldApart /\ TopicsToldApart /\ NoTopicHasWildcard

-----------------------------------------------------------------------------
(* Values *)

\* What a device that follows the standard encodes: short payloads have their length
\* in the first byte, longer ones in the second.
Encodes(code, rest, bytes) ==
    \/ /\ code = Len(bytes) /\ code <= 4
       /\ Len(rest) >= Len(bytes)
       /\ SubSeq(rest, 1, Len(bytes)) = bytes
    \/ /\ code = 5
       /\ Len(rest) > Len(bytes)
       /\ rest[1] = Len(bytes)
       /\ SubSeq(rest, 2, Len(bytes) + 1) = bytes

Weight(bytes, i) == bytes[i] * Power[Len(bytes) - i]
Total(bytes) == FoldLeft(LAMBDA sum, i : sum + Weight(bytes, i), 0, [i \in DOMAIN bytes |-> i])
TwosComplement(bytes) ==
    Total(bytes) - IF bytes # << >> /\ bytes[1] >= Base \div 2 THEN Power[Len(bytes)] ELSE 0

\* The bytes that are there for the length the value has.
Carried == { SubSeq(input.rest, i, j) : i \in {1, 2}, j \in 0 .. Len(input.rest) }

Size(number) == IF number < 0 THEN -number ELSE number

\* A DOUBLE, off the number by half a unit at most: not at all up to 2^53.
Close(float, number) ==
    /\ \E unit \in Units : Size(float) <= Mantissa * unit /\ Size(float) % unit = 0
    /\ \A unit \in Units : Size(number) <= Mantissa * unit => 2 * Size(float - number) <= unit

ShowsNumber(number) ==
    result.ok /\ result.value.kind = "number" /\ Close(result.value.value, number)

\* Unsigned and signed numbers of up to a word, whichever way their length is written and
\* whatever follows, are shown as the DOUBLE next to them, so exactly up to 2^53;
\* enumerated ones are shown digit by digit; object identifiers come apart as they were
\* put together; and what is not a complete value is refused, not read beyond its end.
ScalarsDecoded ==
    Computed("scalar") =>
        /\ \A bytes \in Carried :
              Encodes(input.code, input.rest, bytes) /\ Len(bytes) <= Word =>
                  /\ input.tag = 2 => ShowsNumber(Total(bytes))
                  /\ input.tag = 3 => ShowsNumber(TwosComplement(bytes))
                  /\ input.tag = 9 => result = Ok(Text(Total(bytes)))
        /\ \A bytes \in Carried :
              Encodes(input.code, input.rest, bytes) /\ input.tag = 12 /\ result.ok =>
                  result.value.value[1] * Instances + result.value.value[2] = Total(bytes)
        /\ input.tag \notin {0, 1} /\ (\A bytes \in Carried : ~Encodes(input.code, input.rest, bytes))
              => ~result.ok
=============================================================================
