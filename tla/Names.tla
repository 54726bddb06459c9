------------------------------- MODULE Names -------------------------------
(***************************************************************************)
(* Texts that name things: MQTT topics (src/topic.rs), the identity of a   *)
(* point (src/model.rs) and what is requested for it (src/value.rs).  A    *)
(* text is a sequence of characters, of which a few kinds are told apart;  *)
(* " " stands for white space inside a line.  The number of a device, of a *)
(* type or of an object is its digits, without zeros that lead.            *)
(***************************************************************************)
EXTENDS Naturals, Sequences, SequencesExt

CONSTANTS
    Lower(_),   \* of a character
    Digits,
    Width,      \* the digits there is room for: of the numbers of a u32, those that fit
    NameOf      \* the names of the types that have one, by number

Trimmed(text, characters) ==
    LET kept == { i \in DOMAIN text : text[i] \notin characters }
    IN  IF kept = {} THEN << >> ELSE SubSeq(text, Min(kept), Max(kept))

IsBlank(text) == Trimmed(text, {" "}) = << >>

Mapped(text, Op(_)) == [i \in DOMAIN text |-> Op(text[i])]

Levels(text) ==
    LET next(levels, c) == IF c = "/" THEN Append(levels, << >>)
                           ELSE [levels EXCEPT ![Len(levels)] = Append(@, c)]
    IN  FoldLeft(next, << << >> >>, text)

Joined(levels) ==
    IF levels = << >> THEN << >>
    ELSE FoldLeft(LAMBDA text, level : text \o <<"/">> \o level, Head(levels), Tail(levels))

-----------------------------------------------------------------------------
(* topic.rs *)

\* Repeated "_" become one.
Collapsed(text) ==
    FoldLeft(LAMBDA done, c : IF c = "_" /\ done # << >> /\ Last(done) = "_"
                              THEN done ELSE Append(done, c), << >>, text)

SanitizeSegment(text) ==
    LET harmless(c) == IF c \in {"/", "#", "+", " "} THEN "_" ELSE c
    IN  Trimmed(Collapsed(Mapped(Trimmed(text, {" "}), harmless)), {"_"})

\* Only blank levels are left out: one that is empty after it was sanitized stays.
Sanitized(levels) ==
    FoldLeft(LAMBDA kept, level : IF IsBlank(level) THEN kept
                                  ELSE Append(kept, SanitizeSegment(level)), << >>, levels)

WithoutTrailingHash(text) ==
    LET kept == { i \in DOMAIN text : text[i] # "#" }
    IN  IF kept = {} THEN << >> ELSE SubSeq(text, 1, Max(kept))

NormalizePrefix(prefix) ==
    Joined(Sanitized(Levels(Trimmed(WithoutTrailingHash(Trimmed(prefix, {" "})), {"/"}))))

JoinTopic(prefix, path) == Joined(Sanitized(Levels(prefix) \o Levels(path)))

\* "device_" in front of the number of a device without a label.
DeviceLevel(point) ==
    SanitizeSegment(IF IsBlank(point.device_label) THEN <<"d", "_">> \o point.device_instance
                    ELSE point.device_label)

ObjectLevel(point) == SanitizeSegment(point.object_type) \o <<"_">> \o point.object_instance

DefaultTagPath(point) ==
    DeviceLevel(point) \o <<"/">> \o ObjectLevel(point) \o <<"/">> \o SanitizeSegment(point.property)

TelemetryTopic(prefix, point) ==
    JoinTopic(NormalizePrefix(prefix),
              IF IsBlank(point.tag_path) THEN DefaultTagPath(point) ELSE point.tag_path)

ValidatePublishTopic(topic) ==
    IF IsBlank(topic) THEN "Empty"
    ELSE IF \E i \in DOMAIN topic : topic[i] \in {"#", "+"} THEN "Wildcard" ELSE "Ok"

-----------------------------------------------------------------------------
(* Identities and requests *)

\* normalize_identity_part
IdentityPart(text) ==
    Mapped(Trimmed(text, {" "}), LAMBDA c : IF c \in {" ", "-"} THEN "_" ELSE Lower(c))

WithoutLowered(text, left) ==
    FoldLeft(LAMBDA kept, c : IF c \in left THEN kept ELSE Append(kept, Lower(c)), << >>, text)

NormalizeKeepingDashes(text) == WithoutLowered(text, {"_", " "})

NormalizeIdentifier(text) == WithoutLowered(text, {"_", "-", " "})

Significant(digits) ==
    LET others == { i \in DOMAIN digits : digits[i] # "0" }
    IN  IF others = {} THEN <<"0">> ELSE SubSeq(digits, Min(others), Len(digits))

\* parse::<u32>, which lets a "+" and zeros lead.  At most one number, as a set.
Parsed(text) ==
    LET digits == IF text # << >> /\ Head(text) = "+" THEN Tail(text) ELSE text
    IN  { number \in {Significant(digits)} :
            /\ digits # << >> /\ \A i \in DOMAIN digits : digits[i] \in Digits
            /\ Len(number) <= Width }

\* The type a text stands for: a number, or else what has that name; at most one.  Names
\* of properties are read the same way, from a table of their own.
ObjectTypeFromText(text) ==
    LET normal == NormalizeIdentifier(text)
    IN  IF Parsed(normal) # {} THEN Parsed(normal)
        ELSE { type \in DOMAIN NameOf : NormalizeIdentifier(NameOf[type]) = normal }

ObjectTypeName(type) == IF type \in DOMAIN NameOf THEN Mapped(NameOf[type], Lower) ELSE type
=============================================================================
