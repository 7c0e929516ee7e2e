------------------------------ MODULE ImageInfo ------------------------------
(***************************************************************************)
(* The creation date GetImageInfo reads off a manifest (registry/          *)
(* client.go), which the purge task judges the image by.  Manifests are    *)
(* immutable, so what they hold is a function of the digest.               *)
(***************************************************************************)
EXTENDS Integers

CONSTANTS
  Kind,              \* the media type of each manifest, by digest
  ConfigCreated,     \* the date in the image's config file
  AnnotationCreated, \* the date of org.opencontainers.image.created, if it parses
  ZeroTime           \* time.Time's zero value: no date

Dates == Int \cup {ZeroTime}

ASSUME ManifestAssumption ==
  \A d \in DOMAIN Kind :
    /\ Kind[d] \in {"image", "index", "other"}
    /\ ConfigCreated[d] \in Dates /\ AnnotationCreated[d] \in Dates

ExtractCreatedFromAnnotations(d) == AnnotationCreated[d]

ImageDate(d) == IF ConfigCreated[d] = ZeroTime THEN ExtractCreatedFromAnnotations(d)
                                               ELSE ConfigCreated[d]

(***************************************************************************)
(* GetImageInfo(...).Created.  An index is not resolved to a platform, and *)
(* a manifest that is neither index nor image gives empty info with a nil  *)
(* error: neither gets a date.                                             *)
(***************************************************************************)
GetImageInfoCreated(d) == IF Kind[d] = "image" THEN ImageDate(d) ELSE ZeroTime
=============================================================================
