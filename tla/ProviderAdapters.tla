--------------------------- MODULE ProviderAdapters ---------------------------
(***************************************************************************)
(* The adapters of Instagram, Pinterest and YouTube (internal/provider):   *)
(* each turns what its provider says of one item into media assets,        *)
(* variants and observations.  An adapter keeps nothing between calls; the *)
(* provider may say something else each time it is asked, so the state is  *)
(* what the provider says now, what the last call was told, and the assets *)
(* handed out so far.                                                      *)
(*                                                                         *)
(* An item of a post is a record of MediaItem: what it is, whether the     *)
(* provider says it is gone, and how each representation fares.  Titles,   *)
(* tags, creators and boards are one text; sizes, addresses and expiries   *)
(* are left out.                                                           *)
(***************************************************************************)
EXTENDS Naturals, Sequences, FiniteSets, SequencesExt

CONSTANTS
    Posts, NoItem,    \* the provider's items; no item, or none named
    Sayings,          \* what the provider may say: [id, caption, items]
    Questions         \* the requests made of an adapter

Candidates == {"none", "usable", "for_now", "for_good"}
Representations == <<"original", "thumbnail", "poster">>
MediaItems == UNION {Range(s.items) : s \in Sayings}
MediaItem == [media : {i.media : i \in MediaItems}, named : BOOLEAN, kind : {"image", "video"},
              gone : {"no", "for_now", "for_good"},
              original : Candidates, thumbnail : Candidates, poster : Candidates]

Providers == {"instagram", "pinterest", "youtube"}
RequestedCustodies == {"none", "reference", "cache", "mirror"}
MediaCapabilities == {"gallery_manifest", "original_media", "thumbnail_or_poster"}
TextCapabilities == {"title", "description", "tags", "entities"}
Requests ==
    [call : {"media"}, capability : MediaCapabilities, kind : {"any", "original", "thumbnail", "poster"},
     asset : {"any", "first"}, custody : RequestedCustodies]
        \cup [call : {"metadata", "identity", "transcript", "playback"},
              capability : MediaCapabilities \cup TextCapabilities \cup {"transcript"},
              kind : {"any"}, asset : {"any"}, custody : {"none"}]

\* No image is named like the one of a pin whose image is not named (PinMedia).
ProviderAssumption ==
    /\ NoItem \notin Posts
    /\ Sayings \subseteq [id : Posts, caption : {"none", "plain", "unsafe"}, items : Seq(MediaItem)]
    /\ \A i, j \in MediaItems : i.media = j.media => i.kind = j.kind
    /\ \A i \in MediaItems, p \in Posts : i.media # <<p, "image">>
    /\ Questions \subseteq Requests

\* The item that the source's URL names, and the one its record names.
Source == [url : Posts \cup {NoItem}, record : Posts \cup {NoItem}]

VARIABLES
    provider,   \* whose adapter is asked
    source,     \* the source's identity: the items its URL and its record name
    post,       \* what the provider says now
    last,       \* the last capability asked for, and its answer
    known       \* history: which image or video each asset was handed out for

providerVars == <<provider, source, post, last, known>>

Descriptor(p) ==
    IF p = "instagram" THEN MediaCapabilities \cup {"description", "tags", "entities"}
    ELSE IF p = "pinterest" THEN MediaCapabilities \cup TextCapabilities
    ELSE TextCapabilities \cup {"original_media", "thumbnail_or_poster", "transcript"}

Answer(manifest, refs) == [error |-> "none", code |-> "none", manifest |-> manifest, refs |-> refs]
Refuse(error, code, manifest) == [error |-> error, code |-> code, manifest |-> manifest, refs |-> {}]
permanent(code) == Refuse("permanent", code, {})

\* The answer, unless one of the refusals applies: the first that does.
Unless(refusals, answer) ==
    LET apply == {i \in DOMAIN refusals : refusals[i][1]}
    IN  IF apply = {} THEN answer ELSE permanent(refusals[Min(apply)][2])
Refused(a) == a.error # "none"
Checked(a, answer) == IF Refused(a) THEN a ELSE answer

(***************************************************************************)
(* What the client reports instead of a post.                              *)
(***************************************************************************)
ClientFailures == {"not_found", "unsupported", "authentication", "rate_limited", "transient", "other"}
classifyClientError(f) ==
    IF f \in {"not_found", "unsupported", "authentication"} THEN permanent(f)
    ELSE Refuse("retryable", f, {})

(***************************************************************************)
(* Identity.                                                               *)
(***************************************************************************)
\* A short link of Pinterest names no pin; the record may not either.
identityConflict ==
    \/ source.url # NoItem /\ post.id # source.url
    \/ source.record # NoItem /\ post.id # source.record

\* YouTube asks for the one video all parts of the source's identity name.
resolveInputVideoID == {source.url, source.record} \ {NoItem}

AssetId(media) == <<"media-asset", provider, media>>
VariantId(asset, of) == <<"asset-variant", post.id, asset, of>>

\* Pinterest does not always name the image of a pin.
PinMedia(item) == IF item.named THEN item.media ELSE <<post.id, "image">>

(***************************************************************************)
(* Custody: what is to be fetched, and what is only pointed to.            *)
(***************************************************************************)
DefaultImageCustody(requested) == IF requested = "none" THEN "mirror" ELSE requested
DefaultCustody(kind, requested) ==
    IF kind = "video" THEN "reference" ELSE DefaultImageCustody(requested)

\* A video's poster is an image.
InstagramCustody(item, of, requested) ==
    IF item.kind = "video" /\ of = "poster" THEN DefaultImageCustody(requested)
    ELSE DefaultCustody(item.kind, requested)

Variant(item, asset, of, fares, custody) ==
    [media |-> item.media, itemKind |-> item.kind, asset |-> asset, kind |-> of,
     id |-> VariantId(asset, of), custody |-> custody, failure |-> fares,
     state |-> IF fares # "usable" THEN "failed"
               ELSE IF custody = "reference" THEN "reference_only" ELSE "pending"]

(***************************************************************************)
(* The manifests.                                                          *)
(***************************************************************************)
\* Slip: an item is named after its place in the carousel.
AssetByPosition(position) == AssetId(position)
InstagramAsset(position) == AssetId(post.items[position].media)

\* An item that is gone as a whole is an original that failed.
instagramVariants(position, requested) ==
    LET item == post.items[position]
        asset == InstagramAsset(position)
    IN  IF item.gone # "no"
        THEN {Variant(item, asset, "original", item.gone, InstagramCustody(item, "original", "none"))}
        ELSE {Variant(item, asset, of, item[of], InstagramCustody(item, of, requested)) :
                  of \in {k \in Range(Representations) : item[k] # "none"}}

instagramManifest(requested) ==
    {[asset |-> InstagramAsset(p), variants |-> instagramVariants(p, requested)] : p \in DOMAIN post.items}

pinterestManifest(requested) ==
    LET item == [Head(post.items) EXCEPT !.kind = "image"]
        asset == AssetId(PinMedia(item))
    IN  {[asset |-> asset,
          variants |-> {Variant(item, asset, of, item[of], DefaultImageCustody(requested)) :
                            of \in {k \in {"original", "thumbnail"} : item[k] # "none"}}]}

Wanted(capability, kind) ==
    \/ capability = "original_media" /\ kind = "original"
    \/ capability = "thumbnail_or_poster" /\ kind \in {"thumbnail", "poster"}

mediaReferences(manifest, capability) ==
    IF capability = "gallery_manifest" THEN {m.asset : m \in manifest}
    ELSE {v.id : v \in {w \in UNION {m.variants : m \in manifest} :
                            w.state # "failed" /\ Wanted(capability, w.kind)}}

Failures(manifest, capability) ==
    {v.failure : v \in {w \in UNION {m.variants : m \in manifest} :
                            w.state = "failed" /\ Wanted(capability, w.kind)}}

\* Slip: what failed for good is looked at first.
mediaUnavailableAtOnce(manifest, capability) ==
    IF Failures(manifest, capability) # {} THEN Refuse("permanent", "media_unavailable", manifest)
    ELSE Refuse("permanent", "capability_unavailable", manifest)

mediaUnavailable(manifest, capability) ==
    IF "for_now" \in Failures(manifest, capability)
    THEN Refuse("retryable", "media_temporarily_unavailable", manifest)
    ELSE IF Failures(manifest, capability) # {} THEN Refuse("permanent", "media_unavailable", manifest)
    ELSE Refuse("permanent", "capability_unavailable", manifest)

OfKind(manifest, kind) ==
    {[asset |-> m.asset, variants |-> {v \in m.variants : kind \in {"any", v.kind}}] : m \in manifest}

Referring(manifest, capability) ==
    LET refs == mediaReferences(manifest, capability)
    IN  IF refs = {} THEN mediaUnavailable(manifest, capability) ELSE Answer(manifest, refs)

(***************************************************************************)
(* lookup / normalizeSnapshot.                                             *)
(***************************************************************************)
Repeats == \E p, q \in DOMAIN post.items : p # q /\ post.items[p].media = post.items[q].media
Ambiguous(item) ==
    \/ item.gone # "no" /\ \E k \in Range(Representations) : item[k] # "none"
    \/ item.gone = "no" /\ \A k \in Range(Representations) : item[k] = "none"
    \/ item.kind = "image" /\ item.poster # "none"

instagramLookup ==
    Unless(<<<<source.url = NoItem, "invalid_url">>,
             <<identityConflict, "identity_conflict">>,
             <<Repeats \/ \E p \in DOMAIN post.items : Ambiguous(post.items[p]), "invalid_response">>>>,
           Answer({}, {}))

pinterestLookup ==
    Unless(<<<<identityConflict, "identity_conflict">>>>, Answer({}, {}))

Unresolved == Cardinality(resolveInputVideoID) # 1
youTubeLookup ==
    Unless(<<<<Unresolved, "invalid_video_identity">>,
             <<post.id \notin resolveInputVideoID, "provider_identity_mismatch">>>>,
           Answer({}, {}))

(***************************************************************************)
(* The calls.                                                              *)
(***************************************************************************)
\* A gallery is completed as a whole.
invalidGallery(r) == r.capability = "gallery_manifest" /\ (r.asset # "any" \/ r.kind # "any")

InstagramMedia(r) ==
    LET all == instagramManifest(r.custody)
        asked == IF r.asset = "any" THEN all ELSE {m \in all : m.asset = InstagramAsset(1)}
    IN  IF invalidGallery(r) THEN permanent("invalid_request")
        ELSE Checked(instagramLookup,
                 Unless(<<<<post.items = <<>>, "capability_unavailable">>>>,
                        Referring(OfKind(asked, r.kind), r.capability)))

HasImage == post.items # <<>> /\ \E k \in {"original", "thumbnail"} : Head(post.items)[k] # "none"

PinterestMedia(r) ==
    LET asked == OfKind(pinterestManifest(r.custody), r.kind)
    IN  IF invalidGallery(r) THEN permanent("invalid_request")
        ELSE Checked(pinterestLookup,
                 IF ~HasImage \/ \A m \in asked : m.variants = {} THEN permanent("capability_unavailable")
                 ELSE Referring(asked, r.capability))

\* The representation that is asked for, or the one that goes with the capability.
youTubeKind(r) ==
    IF r.kind # "any" THEN r.kind
    ELSE IF r.capability = "original_media" THEN "original"
    ELSE IF r.capability = "thumbnail_or_poster" THEN "poster" ELSE "none"

YouTubeVariant(of, name, custody) ==
    LET asked == CHOOSE id \in resolveInputVideoID : TRUE
    IN  [media |-> asked, itemKind |-> "video", asset |-> AssetId(asked), kind |-> of,
         id |-> VariantId(AssetId(asked), name), failure |-> "usable", custody |-> custody,
         state |-> IF custody = "reference" THEN "reference_only" ELSE "pending"]

YouTubeAnswer(variants) ==
    Answer({[asset |-> v.asset, variants |-> variants] : v \in variants}, {v.id : v \in variants})

posterVariants(r) ==
    {YouTubeVariant(youTubeKind(r), p, DefaultImageCustody(r.custody)) :
        p \in {q \in DOMAIN post.items : post.items[q].poster = "usable"}}

\* The bytes of a video are only fetched by a command that says so.
youTubeOriginal(r) ==
    Unless(<<<<r.capability # "original_media", "capability_mismatch">>,
             <<r.custody \notin {"none", "reference"}, "automatic_video_download_disabled">>>>,
           YouTubeAnswer({YouTubeVariant("original", 0, "reference")}))

youTubePosters(r) ==
    IF r.capability # "thumbnail_or_poster" THEN permanent("capability_mismatch")
    ELSE Checked(youTubeLookup,
             IF post.items = <<>> \/ \E p \in DOMAIN post.items : post.items[p].poster # "usable"
             THEN permanent("invalid_poster")
             ELSE YouTubeAnswer(posterVariants(r)))

YouTubeMedia(r) ==
    IF youTubeKind(r) = "none" THEN permanent("unsupported_capability")
    ELSE IF Unresolved THEN permanent("invalid_video_identity")
    ELSE IF youTubeKind(r) = "original" THEN youTubeOriginal(r)
    ELSE youTubePosters(r)

\* The captions of a video, whose bytes come with the answer.
AcquireTranscript(r) ==
    IF r.capability # "transcript" THEN permanent("unsupported_capability")
    ELSE Checked(youTubeLookup,
             Unless(<<<<post.caption = "none", "invalid_transcript">>,
                      <<post.caption = "unsafe", "unsafe_transcript">>>>,
                    YouTubeAnswer({YouTubeVariant("transcript", "track", "mirror")})))

ProvidePlayback(r) ==
    Unless(<<<<r.capability # "entities", "capability_mismatch">>,
             <<Unresolved, "invalid_video_identity">>>>,
           Answer({}, resolveInputVideoID))

Lookup == IF provider = "instagram" THEN instagramLookup ELSE pinterestLookup

\* An observation is typed, and text in it carries no markup that runs.
ValidateCapabilityValue == post.caption # "unsafe"

\* Instagram and Pinterest always know the item itself as an entity.
Says(capability) == post.caption # "none" \/ (capability = "entities" /\ provider # "youtube")

\* The capability is looked at before YouTube is asked, and after the others are.
mismatch(r) == r.capability \notin TextCapabilities \cap Descriptor(provider)

youTubeMetadata(r) ==
    IF mismatch(r) THEN permanent("unsupported_capability")
    ELSE Checked(youTubeLookup,
             Unless(<<<<~Says(r.capability), "metadata_missing">>,
                      <<~ValidateCapabilityValue, "unsafe_metadata">>>>,
                    Answer({}, {post.id})))

ProvideMetadata(r) ==
    IF provider = "youtube" THEN youTubeMetadata(r)
    ELSE Checked(Lookup,
             Unless(<<<<mismatch(r), "capability_mismatch">>,
                      <<~Says(r.capability), "capability_unavailable">>,
                      <<~ValidateCapabilityValue, "unsafe_metadata">>>>,
                    Answer({}, {post.id})))

\* YouTube is not asked for the identity of a video.
youTubeIdentity ==
    Unless(<<<<Unresolved, "invalid_video_identity">>>>, Answer({}, resolveInputVideoID))

ResolveCanonicalIdentity(r) ==
    IF r.capability # "entities" THEN permanent("capability_mismatch")
    ELSE IF provider = "youtube" THEN youTubeIdentity
    ELSE Checked(Lookup, Answer({}, {post.id}))

Answered(r) ==
    IF r.call = "identity" THEN ResolveCanonicalIdentity(r)
    ELSE IF r.call = "metadata" THEN ProvideMetadata(r)
    ELSE IF r.call = "transcript" THEN AcquireTranscript(r)
    ELSE IF r.call = "playback" THEN ProvidePlayback(r)
    ELSE IF provider = "instagram" THEN InstagramMedia(r)
    ELSE IF provider = "pinterest" THEN PinterestMedia(r)
    ELSE YouTubeMedia(r)

\* The provider is asked unless the call is refused without it.
Asks(r) ==
    /\ provider = "youtube" => r.call \notin {"identity", "playback"} /\ youTubeKind(r) # "original"
    /\ Answered(r).code \notin {"invalid_url", "invalid_request", "invalid_video_identity",
                               "unsupported_capability"}

\* Which adapters implement which interface of contracts.go.
Implements(p, call) == call \in {"media", "metadata", "identity"} \/ p = "youtube"

Unasked == [capability |-> "none", answer |-> Answer({}, {})]

ProviderInit ==
    /\ provider \in Providers
    /\ source \in Source
    /\ post \in Sayings
    /\ last = Unasked
    /\ known = {}

ProviderChanges ==
    /\ post' \in Sayings
    /\ last' = Unasked
    /\ UNCHANGED <<provider, source, known>>

\* Whether the provider named what it shows.
Named == provider # "pinterest" \/ Head(post.items).named

CallAdapter(r) ==
    /\ Implements(provider, r.call)
    /\ last' = [capability |-> r.capability, answer |-> Answered(r)]
    /\ known' = known \cup {[media |-> v.media, asset |-> v.asset, named |-> Named] :
                               v \in UNION {m.variants : m \in Answered(r).manifest}}
    /\ UNCHANGED <<provider, source, post>>

ClientFails(f) ==
    /\ \E r \in Questions : Implements(provider, r.call) /\ Asks(r)
    /\ last' = [Unasked EXCEPT !.answer = classifyClientError(f)]
    /\ UNCHANGED <<provider, source, post, known>>

ProviderNext ==
    \/ ProviderChanges
    \/ \E r \in Questions : CallAdapter(r)
    \/ \E f \in ClientFailures : ClientFails(f)

ProviderSpec == ProviderInit /\ [][ProviderNext]_providerVars

(***************************************************************************)
(* "Every media asset uses a stable provider item ID, so reordering never  *)
(* changes media or variant identity" (instagram/README.md): whatever the  *)
(* provider said in between, what calls handed out are variants of one     *)
(* asset exactly if they are of one image or video.  A variant is named    *)
(* after its post, its asset and its kind, so it keeps its name with it.   *)
(* Excepted is an image of a pin that was named in one answer and not in   *)
(* another: it becomes two assets.                                         *)
(***************************************************************************)
OneItemOneAsset ==
    \A v, w \in known :
        /\ v.asset = w.asset => v.media = w.media \/ (~v.named /\ ~w.named)
        /\ v.media = w.media => v.asset = w.asset \/ ~v.named \/ ~w.named

(***************************************************************************)
(* What a media call says is so (AcquireMedia of the three adapters): it   *)
(* refers only to what may be used, it never has the bytes of a video      *)
(* fetched, whatever custody was asked for, and where it gives up for good *)
(* on a kind of representation, no representation of that kind was only    *)
(* gone for now.  Excepted is an item that is gone as a whole, which is    *)
(* told of its original alone: a thumbnail of it is refused for good       *)
(* although the item may come back.                                        *)
(***************************************************************************)
AnswersAreHonest ==
    LET handed == UNION {m.variants : m \in last.answer.manifest} IN
    /\ \A v \in handed :
           /\ v.id \in last.answer.refs => v.state # "failed"
           /\ v.itemKind = "video" /\ v.kind = "original" => v.state \in {"reference_only", "failed"}
    /\ last.answer.code \in {"media_unavailable", "capability_unavailable"}
           => \A v \in handed : Wanted(last.capability, v.kind) => v.failure # "for_now"
=============================================================================
