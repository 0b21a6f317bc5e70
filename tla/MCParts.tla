-------------------------------- MODULE MCParts --------------------------------
(***************************************************************************)
(* Small instances of four parts that neither wait for one another nor     *)
(* promise anything in the end.  A behaviour is one of one part; the       *)
(* variables of the others stay as they are at first.  The properties are  *)
(* those of the modules.                                                   *)
(*                                                                         *)
(* Publication: one fragment with an attachment, delivered to a file       *)
(* destination, to a bundle and to a remote one.  The file and the remote  *)
(* one have no directory in common with the bundle.                        *)
(* StoreOpen: no legacy rows, or up to three of one or two source items,   *)
(* in the orders that need several revisions of one.                       *)
(* CaptureProtocol: one page with an image mirrored under a known digest   *)
(* (hero), a cached one the client has not hashed (thumb), and a video     *)
(* kept by reference (clip).  The second manifest does not name the video  *)
(* and leaves the thumbnail to the server.                                 *)
(* ProviderAdapters: a post that shows an image, a video, both in either   *)
(* order, or what is gone of them, and another one that may be mistaken    *)
(* for it.                                                                 *)
(*                                                                         *)
(* The pairs are whoever works (publishers, processes), and what is alike  *)
(* otherwise (fragments, the keys of reports).                             *)
(***************************************************************************)
EXTENDS CaptureProtocol, Publication, StoreOpen, ProviderAdapters, TLC

CONSTANTS x1, x2, y1, y2, None, Off,
          fd, bd, rd, p1, p2,
          before, after, it1, it2,
          hero, thumb, clip, picture, video, otherPicture, otherVideo,
          plain, rich, d1, d2, q1,
          pa, pb, m1, m2

VARIABLE part

partsVars == <<part, publicationVars, storeVars, vars, providerVars>>

Workers == {x1, x2}
Alike == {y1, y2}

MCKindOf == (fd :> "file") @@ (bd :> "bundle") @@ (rd :> "remote")
MCPlaceOf == [t \in {fd, bd, rd} \X {y1} |-> IF t[1] = bd THEN p2 ELSE p1]

Row(item, material) == [item |-> item, material |-> material, private |-> FALSE]
MCHistories ==
    {<<>>,
     <<Row(it1, before), Row(it1, after)>>,
     <<Row(it1, before), Row(it1, after), Row(it1, before)>>,
     <<Row(it1, before), Row(it2, after), Row(it1, after)>>,
     <<Row(it1, before), [Row(it2, after) EXCEPT !.private = TRUE]>>}
MCMediaIn == (before :> 1) @@ (after :> 2)

MCVariants == {hero, thumb, clip, otherPicture, otherVideo}
MCTargetOf == [v \in MCVariants |-> IF v \in {clip, otherVideo} THEN video ELSE picture]
MCAcquisitionVariant == (video :> otherVideo) @@ (picture :> otherPicture)
Seen(action, custody, state, expected) ==
    [action |-> action, custody |-> custody, state |-> state, expected |-> expected]
MCManifestOf == [p \in {plain, rich} |->
    IF p = plain
    THEN (thumb :> Seen("request_upload", "cache", "pending", None))
            @@ (clip :> Seen("reference_only", "reference", "reference_only", None))
    ELSE (hero :> Seen("request_upload", "mirror", "pending", d1))
            @@ (thumb :> Seen("server_acquire", "cache", "pending", None))]

Item(media, kind, gone, original, thumbnail, poster) ==
    [media |-> media, named |-> TRUE, kind |-> kind, gone |-> gone,
     original |-> original, thumbnail |-> thumbnail, poster |-> poster]
WholeImage == Item(m1, "image", "no", "usable", "usable", "none")
HalfImage == Item(m1, "image", "no", "for_now", "usable", "none")
UnnamedImage == [Item(m1, "image", "no", "usable", "for_good", "none") EXCEPT !.named = FALSE]
WholeVideo == Item(m2, "video", "no", "usable", "for_good", "usable")
GoneVideo == Item(m2, "video", "for_now", "none", "none", "none")
HalfVideo == Item(m2, "video", "no", "for_good", "for_good", "for_now")
MCSayings ==
    {[id |-> pa, caption |-> "plain", items |-> s] :
        s \in {<<>>, <<UnnamedImage>>, <<WholeImage, WholeVideo>>, <<WholeVideo, WholeImage>>,
               <<HalfImage, HalfVideo>>, <<WholeVideo, GoneVideo>>}}
        \cup {[id |-> pb, caption |-> "none", items |-> <<WholeImage>>],
              [id |-> pa, caption |-> "unsafe", items |-> <<WholeVideo>>]}
Ask(call, capability, kind, asset, custody) ==
    [call |-> call, capability |-> capability, kind |-> kind, asset |-> asset, custody |-> custody]
MCQuestions ==
    {Ask("media", c, k, "any", u) : c \in {"original_media", "thumbnail_or_poster"},
                                    k \in {"any", "original"}, u \in {"none", "mirror"}}
        \cup {Ask("media", "gallery_manifest", "any", a, "cache") : a \in {"any", "first"}}
        \cup {Ask("media", "original_media", "any", "first", "reference")}
        \cup {Ask("metadata", c, "any", "any", "none") : c \in {"title", "entities"}}
        \cup {Ask(c, "entities", "any", "any", "none") : c \in {"identity", "playback"}}
        \cup {Ask("transcript", "transcript", "any", "any", "none")}

\* The initial states of one part, with the others as they may be at first:
\* there are no legacy rows, and no provider is asked.
StoreStarts == StoreInit /\ (part # "store" => legacy = <<>>)

ProviderStarts ==
    IF part = "providers" THEN ProviderInit
    ELSE provider = Off /\ source = Off /\ post = Off /\ last = Unasked /\ known = {}

PartsInit ==
    /\ part \in {"publication", "store", "capture", "providers"}
    /\ Init /\ PublicationInit /\ StoreStarts /\ ProviderStarts

PartsNext ==
    \/ /\ UNCHANGED <<part, storeVars, providerVars>>
       /\ \/ part = "publication" /\ PublicationNext /\ UNCHANGED vars
          \/ part = "capture" /\ Next /\ UNCHANGED publicationVars
    \/ /\ UNCHANGED <<part, publicationVars, vars>>
       /\ \/ part = "store" /\ StoreNext /\ UNCHANGED providerVars
          \/ part = "providers" /\ ProviderNext /\ UNCHANGED storeVars

PartsSpec == PartsInit /\ [][PartsNext]_partsVars

Symmetric == Permutations(Workers) \cup Permutations(Alike)

ASSUME PartsAssumption ==
    PublicationAssumption /\ StoreAssumption /\ ProviderAssumption
================================================================================
