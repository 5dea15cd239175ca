------------------------------- MODULE Forms -------------------------------
(***************************************************************************)
(* Uploads (readFormParts in internal/handlers/banners.go): the            *)
(* multipart/form-data bodies of banners and schedule workbooks.  A body   *)
(* is the sequence of its parts, [name, size, value]; it arrives whole or  *)
(* is refused, whatever the status it is refused with.                     *)
(***************************************************************************)
EXTENDS Integers, SequencesExt

CONSTANT MaxBody  \* MaxBannerBodyBytes and MaxScheduleImportBodyBytes

Known(parts, limits) == {i \in DOMAIN parts : parts[i].name \in DOMAIN limits}

Named(parts, name) == {i \in DOMAIN parts : parts[i].name = name}

BodySize(parts) == FoldLeft(LAMBDA n, part : n + part.size, 0, parts)

\* A part without a limit is discarded, but counts for the size of the body.
ReadFormParts(parts, limits) ==
    /\ BodySize(parts) <= MaxBody
    /\ \A i \in Known(parts, limits) :
         /\ parts[i].size <= limits[parts[i].name]
         /\ Named(parts, parts[i].name) = {i}

Sent(parts, name) == Named(parts, name) # {}

\* The value of a part, or that of one that was not sent.
PartValue(parts, name, absent) ==
    IF Sent(parts, name)
    THEN parts[CHOOSE i \in DOMAIN parts : parts[i].name = name].value
    ELSE absent
=============================================================================
