-------------------------------- MODULE Access --------------------------------
(***************************************************************************)
(* How a granule's COG is named and reached: the URL forms of assets.py,   *)
(* the container and the registry of credentials.py, and the store.py and  *)
(* virtualize.py code that asks for them.                                  *)
(*                                                                         *)
(* A writer builds a registry in an access mode of its own, reads the      *)
(* headers of granules through it, and stages references relative to the   *)
(* container in the session of a batch.  A reader opens the store in an    *)
(* access mode of its own and resolves the references any writer           *)
(* published.  S3 keys and bearer tokens expire, also while a request is   *)
(* under way.                                                              *)
(*                                                                         *)
(* A URL's path is the sequence of its segments, so that a prefix with a   *)
(* trailing slash ends in the segment "".                                  *)
(***************************************************************************)
EXTENDS Naturals, Sequences, SequencesExt

CONSTANTS
    Writers, Readers,
    Assets,     \* granule -> the bands it has -> [href, levels of its COG]
    Bands,      \* the bands asked for, in order
    Requested,  \* the access arguments of the calls, unknown modes included
    Host,       \* data.lpdaac.earthdatacloud.nasa.gov
    Bucket,     \* lp-prod-protected
    KeyLife,    \* how long issued S3 keys last at most
    TokenLife,  \* how long a bearer token lasts
    MaxTime,    \* bound: the clock
    Nil

ASSUME NameAssumption == "" \notin {Host, Bucket}
ASSUME AssetAssumption ==
    \A g \in DOMAIN Assets : \A b \in DOMAIN Assets[g] :
        /\ Assets[g][b].href \in Seq(ToSet(Assets[g][b].href))
        /\ Assets[g][b].levels \in Nat
ASSUME TimeAssumption == KeyLife \in Nat \ {0} /\ TokenLife \in Nat /\ MaxTime \in Nat

VARIABLES
    now,       \* the time
    store,     \* a reader's container and its credentials; Nil until opened
    registry,  \* the prefix and object store a writer reads headers through
    session,   \* of its batch: what its base holds, what it stages, keeps, left torn
    job,       \* the granule being virtualized: its bands' urls, headers read
    tried,     \* bound: a writer tries a granule once
    refs,      \* the references published, <<granule, band, level>> -> vcc url
    torn,      \* published granules whose writer raised and whose cleanup failed
    request,   \* a reader's chunk request under way
    seen       \* the answer the last step brought: the scheme, the object wanted
               \* and the one answered; Nil if it brought none

vars == <<now, store, registry, session, job, tried, refs, torn, request, seen>>

ACCESS_MODES == {"s3", "https"}

LPDAAC_HTTPS_PREFIX       == <<Host, "">>
LPDAAC_HTTPS_ASSET_PREFIX == <<Host, Bucket, "">>
LPDAAC_S3_PREFIX          == <<Bucket, "">>
CONTAINER_NAME            == "lpdaac"

StartsWith(path, prefix) == IsPrefix(Front(prefix), path)
Concat(prefix, path)     == Front(prefix) \o path
RStrip(prefix)           == Front(prefix)
Within(path, prefix)     == SubSeq(path, Len(prefix), Len(path))

(***************************************************************************)
(* assets.py                                                               *)
(***************************************************************************)

\* A fault for the checks to catch: any LP DAAC href is taken.
AnyBucket(href) == StartsWith(href, LPDAAC_HTTPS_PREFIX)

\* Whether asset_key accepts the href ...
InContainer(href) ==
    /\ StartsWith(href, LPDAAC_HTTPS_PREFIX)
    /\ StartsWith(href, LPDAAC_HTTPS_ASSET_PREFIX)

\* ... and the key it returns then.
AssetKey(href) == Within(href, LPDAAC_HTTPS_ASSET_PREFIX)

ToS3Url(href)  == [scheme |-> "s3", path |-> Concat(LPDAAC_S3_PREFIX, AssetKey(href))]
ToVccUrl(href) == [scheme |-> "vcc", name |-> CONTAINER_NAME, key |-> AssetKey(href)]

\* asset_urls: the bands the granule has, by their places among those requested,
\* each with the url its header is read from.
Usable(g)  == {i \in DOMAIN Bands : Bands[i] \in DOMAIN Assets[g]}
Href(g, i) == Assets[g][Bands[i]].href

AssetUrl(href, mode) ==
    IF mode = "s3" THEN ToS3Url(href) ELSE [scheme |-> "https", path |-> href]

\* asset_urls raises on an unknown mode, or if some href is not accepted.
UrlsRefused(g, mode) ==
    \/ mode \notin ACCESS_MODES
    \/ \E i \in Usable(g) : ~InContainer(Href(g, i))

(***************************************************************************)
(* credentials.py                                                          *)
(***************************************************************************)

\* A fault for the checks to catch: icechunk is not told when the keys expire.
UntoldCredentials == {[expires |-> now + d, told |-> MaxTime + 1] : d \in 1..KeyLife}

\* Keys that expire within KeyLife, and the expiry icechunk is told.
LpdaacCredentials == {[expires |-> now + d, told |-> now + d] : d \in 1..KeyLife}

\* earthdata_token.  That a process logs in once, for a registry and a store that
\* share the token, is left out: each has a token of its own.
EarthdataToken == {now + d : d \in 1..TokenLife}

\* virtual_chunk_container: where a process resolves references.
Container(mode) ==
    [scheme |-> mode, name |-> CONTAINER_NAME,
     prefix |-> IF mode = "s3" THEN LPDAAC_S3_PREFIX ELSE LPDAAC_HTTPS_ASSET_PREFIX]

\* container_credentials: the s3 container's keys come from a callable, which
\* icechunk calls when the keys at hand are none or past the expiry it was told.
RefreshedKeys(keys) == IF keys.told > now THEN {keys} ELSE LpdaacCredentials

\* A fault for the checks to catch: the http store's base keeps its slash.
BaseWithSlash(mode) ==
    IF mode = "https" THEN LPDAAC_HTTPS_ASSET_PREFIX ELSE RStrip(LPDAAC_S3_PREFIX)

\* object_store_registry: the store's base; an s3 store's is its bucket.
\* Every mode other than https is taken for s3.
RegistryBase(mode) ==
    IF mode = "https" THEN RStrip(LPDAAC_HTTPS_ASSET_PREFIX) ELSE RStrip(LPDAAC_S3_PREFIX)

Registry(mode, expires) ==
    [scheme  |-> IF mode = "https" THEN "https" ELSE "s3",
     prefix  |-> IF mode = "https" THEN LPDAAC_HTTPS_ASSET_PREFIX ELSE LPDAAC_S3_PREFIX,
     base    |-> RegistryBase(mode),
     expires |-> expires]

\* obstore asks for base + "/" + path, and answers with the object there.
Answered(scheme, base, path) == (IF scheme = "s3" THEN <<Host>> ELSE << >>) \o base \o path

Denied == <<"denied">>

(***************************************************************************)
(* open_store, and building the registry.                                  *)
(***************************************************************************)

\* open_store, given an access mode.  An unknown mode raises.  The https
\* container's bearer token is a static header; s3 keys are fetched when needed.
OpenStore(p, mode) ==
    /\ store[p] = Nil
    /\ mode \in ACCESS_MODES
    /\ \E expires \in IF mode = "https" THEN EarthdataToken ELSE {0} :
          store' = [store EXCEPT ![p] =
             [at |-> Container(mode), keys |-> [expires |-> expires, told |-> 0]]]
    /\ seen' = Nil
    /\ UNCHANGED <<now, registry, session, job, tried, refs, torn, request>>

\* The registry's token or keys are fetched here and never again.
BuildRegistry(p, mode) ==
    /\ registry[p] = Nil
    /\ \E expires \in IF mode = "https" THEN EarthdataToken
                      ELSE {keys.expires : keys \in LpdaacCredentials} :
          registry' = [registry EXCEPT ![p] = Registry(mode, expires)]
    /\ seen' = Nil
    /\ UNCHANGED <<now, store, session, job, tried, refs, torn, request>>

(***************************************************************************)
(* A batch: granules are virtualized one by one into its session, every    *)
(* header of a granule before the first of its references.                 *)
(***************************************************************************)

Granules(staged) == {x[1] : x \in DOMAIN staged}

\* References staged over others.
Over(new, old) ==
    [x \in DOMAIN new \cup DOMAIN old |-> IF x \in DOMAIN new THEN new[x] ELSE old[x]]

BeginBatch(p) ==
    /\ registry[p] # Nil /\ session[p] = Nil
    /\ session' = [session EXCEPT ![p] =
           [holds |-> Granules(refs), refs |-> << >>, kept |-> {}, torn |-> {}]]
    /\ seen' = Nil
    /\ UNCHANGED <<now, store, registry, job, tried, refs, torn, request>>

\* write_granule with an access mode, which need not be the registry's.  Skipped,
\* with nothing staged, are a granule that exists, in the session's base or staged,
\* and one with an href refused or no band.
Virtualize(p, g, mode) ==
    /\ session[p] # Nil /\ job[p] = Nil /\ g \notin tried[p]
    /\ g \notin session[p].holds \cup Granules(session[p].refs)
    /\ ~UrlsRefused(g, mode) /\ Usable(g) # {}
    /\ tried' = [tried EXCEPT ![p] = @ \cup {g}]
    /\ job' = [job EXCEPT ![p] = [granule |-> g, mode |-> mode, read |-> {}]]
    /\ seen' = Nil
    /\ UNCHANGED <<now, store, registry, session, refs, torn, request>>

\* The bands whose headers are still to be read, in their order.
HeadersLeft(p) == IF job[p] = Nil THEN {} ELSE Usable(job[p].granule) \ job[p].read
IsNext(p, i)   == i \in HeadersLeft(p) /\ \A j \in HeadersLeft(p) : i <= j

\* registry.resolve and the range request: whether there is an answer.
Readable(p, url) ==
    /\ url.scheme = registry[p].scheme
    /\ StartsWith(url.path, registry[p].prefix)
    /\ registry[p].expires > now

ReadHeader(p) ==
    \E i \in DOMAIN Bands :
    /\ IsNext(p, i)
    /\ LET href == Href(job[p].granule, i)
           url  == AssetUrl(href, job[p].mode)
           reg  == registry[p]
       IN  /\ Readable(p, url)
           /\ seen' = [scheme |-> reg.scheme,
                       wanted |-> href,
                       got    |-> Answered(reg.scheme, reg.base, Within(url.path, reg.prefix)),
                       valid  |-> TRUE]
    /\ job' = [job EXCEPT ![p].read = @ \cup {i}]
    /\ UNCHANGED <<now, store, registry, session, tried, refs, torn, request>>

\* The levels of a granule's bands, by the bands' places, in the order written.
Parts(g)     == UNION {{i} \X (0..Assets[g][Bands[i]].levels - 1) : i \in Usable(g)}
Ref(g, x)    == <<g, Bands[x[1]], x[2]>>
Before(x, y) == x[1] < y[1] \/ (x[1] = y[1] /\ x[2] < y[2])

\* The references of one level of one band are staged.
WriteLevel(p) ==
    /\ job[p] # Nil /\ HeadersLeft(p) = {}
    /\ LET g    == job[p].granule
           left == {x \in Parts(g) : Ref(g, x) \notin DOMAIN session[p].refs}
       IN  \E x \in left :
              /\ \A y \in left \ {x} : Before(x, y)
              /\ session' = [session EXCEPT ![p].refs =
                                Over([r \in {Ref(g, x)} |-> ToVccUrl(Href(g, x[1]))], @)]
    /\ seen' = Nil
    /\ UNCHANGED <<now, store, registry, job, tried, refs, torn, request>>

Written(staged, g) == \A x \in Parts(g) : Ref(g, x) \in DOMAIN staged

\* The writer returns: the row is kept.
KeepGranule(p) ==
    /\ job[p] # Nil /\ HeadersLeft(p) = {}
    /\ Written(session[p].refs, job[p].granule)
    /\ session' = [session EXCEPT ![p].kept = @ \cup {job[p].granule}]
    /\ job' = [job EXCEPT ![p] = Nil]
    /\ seen' = Nil
    /\ UNCHANGED <<now, store, registry, tried, refs, torn, request>>

\* A fault for the checks to catch: what was staged of the granule is left there.
LeaveParts(batch, g) == {batch}

\* What was staged of the granule is deleted, unless that raises as well.
CleanUp(batch, g) ==
    {[batch EXCEPT !.refs = Restrict(@, {x \in DOMAIN @ : x[1] # g})]}
        \cup {[batch EXCEPT !.torn = @ \cup {g}] : h \in Granules(batch.refs) \cap {g}}

\* The writer raises: a header's request fails, as the keys or the token have
\* expired or the registry serves the other mode's urls; or a level does not have
\* one variable, or a write fails, with any part of the granule staged.
GranuleFails(p) ==
    /\ job[p] # Nil
    /\ \/ \E i \in DOMAIN Bands :
             IsNext(p, i) /\ ~Readable(p, AssetUrl(Href(job[p].granule, i), job[p].mode))
       \/ HeadersLeft(p) = {}
    /\ \E batch \in CleanUp(session[p], job[p].granule) :
          session' = [session EXCEPT ![p] = batch]
    /\ job' = [job EXCEPT ![p] = Nil]
    /\ seen' = Nil
    /\ UNCHANGED <<now, store, registry, tried, refs, torn, request>>

\* The groups staged, against those published since the session began.
Clash(p) == Granules(session[p].refs) \cap Granules(refs) # {}

\* The commit publishes what is staged if some granule was kept and, after a
\* rebase, no group was created on both sides.
Publish(p) ==
    /\ session[p] # Nil /\ job[p] = Nil
    /\ session[p].kept # {} /\ ~Clash(p)
    /\ refs' = Over(session[p].refs, refs)
    /\ torn' = torn \cup session[p].torn
    /\ session' = [session EXCEPT ![p] = Nil]
    /\ seen' = Nil
    /\ UNCHANGED <<now, store, registry, job, tried, request>>

\* All granules failed or the commit raised: the session is discarded.
Discard(p) ==
    /\ session[p] # Nil /\ job[p] = Nil
    /\ session' = [session EXCEPT ![p] = Nil]
    /\ seen' = Nil
    /\ UNCHANGED <<now, store, registry, job, tried, refs, torn, request>>

(***************************************************************************)
(* Reading chunks.                                                         *)
(***************************************************************************)

\* A reader asks for a chunk of a published band, with the keys it has then.
AskChunk(p, g, b) ==
    /\ store[p] # Nil /\ request[p] = Nil
    /\ \E x \in DOMAIN refs :
          /\ x[1] = g /\ x[2] = b /\ store[p].at.name = refs[x].name
          /\ \E keys \in IF store[p].at.scheme = "s3" THEN RefreshedKeys(store[p].keys)
                         ELSE {store[p].keys} :
                /\ store' = [store EXCEPT ![p].keys = keys]
                /\ request' = [request EXCEPT ![p] =
                      [scheme  |-> store[p].at.scheme,
                       wanted  |-> Assets[g][b].href,
                       path    |-> Concat(store[p].at.prefix, refs[x].key),
                       expires |-> keys.expires,
                       valid   |-> keys.expires > now]]
    /\ seen' = Nil
    /\ UNCHANGED <<now, registry, session, job, tried, refs, torn>>

\* It is denied if they have expired by the time the request is served.
ServeChunk(p) ==
    /\ request[p] # Nil
    /\ seen' = [scheme |-> request[p].scheme,
                wanted |-> request[p].wanted,
                got    |-> IF request[p].expires <= now THEN Denied
                           ELSE Answered(request[p].scheme, << >>, request[p].path),
                valid  |-> request[p].valid]
    /\ request' = [request EXCEPT ![p] = Nil]
    /\ UNCHANGED <<now, store, registry, session, job, tried, refs, torn>>

Tick ==
    /\ now < MaxTime
    /\ now' = now + 1
    /\ seen' = Nil
    /\ UNCHANGED <<store, registry, session, job, tried, refs, torn, request>>

Init ==
    /\ now = 0
    /\ store = [p \in Readers |-> Nil]
    /\ registry = [p \in Writers |-> Nil]
    /\ session = [p \in Writers |-> Nil]
    /\ job = [p \in Writers |-> Nil]
    /\ tried = [p \in Writers |-> {}]
    /\ refs = << >>
    /\ torn = {}
    /\ request = [p \in Readers |-> Nil]
    /\ seen = Nil

Next ==
    \/ \E p \in Writers :
          \/ \E mode \in Requested : BuildRegistry(p, mode)
          \/ BeginBatch(p)
          \/ \E g \in DOMAIN Assets, mode \in Requested : Virtualize(p, g, mode)
          \/ ReadHeader(p) \/ WriteLevel(p) \/ KeepGranule(p) \/ GranuleFails(p)
          \/ Publish(p) \/ Discard(p)
    \/ \E p \in Readers :
          \/ \E mode \in Requested : OpenStore(p, mode)
          \/ \E g \in DOMAIN Assets, b \in ToSet(Bands) : AskChunk(p, g, b)
          \/ ServeChunk(p)
    \/ Tick

Spec == Init /\ [][Next]_vars

(***************************************************************************)
(* Properties.                                                             *)
(***************************************************************************)

\* Whatever mode wrote a reference and whatever mode resolves it, every
\* request that is not denied - a header's through the registry, a chunk's
\* through the container - is answered with the object the record's href names
\* (assets.py and credentials.py, the three URL forms).
RequestsHitTheObject ==
    seen # Nil /\ seen.got # Denied => seen.got = seen.wanted

\* However long an s3 reader stays open, it never asks with keys that have
\* expired: it is denied only if they ran out while the request was under way
\* (the expiry lpdaac_credentials passes on and the callable of
\* container_credentials).  An https reader, whose header is static, is denied
\* from the end of its token on, and is not spoken of.
ReadersOutliveKeys ==
    seen # Nil /\ seen.got = Denied => seen.valid \/ seen.scheme = "https"

\* A granule is published with every level of every band its record has or not
\* at all, whenever the registry's keys run out, a write raises part of the way,
\* or another process publishes the granule first.  The one exception: its writer
\* raised after staging some of it and the cleanup raised as well
\* (virtualize.py:143-170, ingest.py:117-138).
GranulesAreWhole ==
    \A g \in Granules(refs) : g \in torn \/ Written(refs, g)
=============================================================================
