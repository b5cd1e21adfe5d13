----------------------------- MODULE AccessProofs -----------------------------
(***************************************************************************)
(* Whatever mode a writer records references in and whatever mode a reader *)
(* resolves them in, requests reach the object the archive's record names, *)
(* s3 readers never ask with expired keys, and granules are published      *)
(* whole: proved for any writers, readers, records, lives of keys and      *)
(* tokens, and times.                                                      *)
(***************************************************************************)
EXTENDS Access, TLAPS

(***************************************************************************)
(* The invariant.                                                          *)
(***************************************************************************)

Domains ==
    /\ DOMAIN store = Readers /\ DOMAIN request = Readers
    /\ DOMAIN registry = Writers /\ DOMAIN session = Writers
    /\ DOMAIN job = Writers /\ DOMAIN tried = Writers
    /\ now \in Nat

\* An open store is the container of a mode, and some keys; icechunk knows when
\* those of an s3 container expire.
StoreForm(p) ==
    store[p] # Nil =>
        /\ store[p].at.scheme \in ACCESS_MODES
        /\ store[p] = [at |-> Container(store[p].at.scheme), keys |-> store[p].keys]
        /\ store[p].keys.expires \in Nat
        /\ store[p].at.scheme = "s3" => store[p].keys.told = store[p].keys.expires

\* A request is for the object its record names, and was made with valid keys.
RequestForm(p) ==
    request[p] # Nil =>
        /\ request[p].scheme \in ACCESS_MODES
        /\ Answered(request[p].scheme, << >>, request[p].path) = request[p].wanted
        /\ Len(request[p].wanted) >= 2
        /\ request[p].scheme = "s3" => request[p].valid

\* A registry is the one of its scheme.
RegistryForm(p) ==
    registry[p] # Nil =>
        /\ registry[p].scheme \in ACCESS_MODES
        /\ registry[p] = Registry(registry[p].scheme, registry[p].expires)

\* A granule is virtualized when its urls were not refused.
JobForm(p) ==
    job[p] # Nil =>
        /\ job[p].granule \in DOMAIN Assets /\ ~UrlsRefused(job[p].granule, job[p].mode)
        /\ job[p] = [granule |-> job[p].granule, mode |-> job[p].mode, read |-> job[p].read]

\* A reference is the one its record's href gives, which is in the container.
RefsOk(staged) ==
    \A x \in DOMAIN staged :
        \E g \in DOMAIN Assets : \E i \in Usable(g) :
            /\ x[1] = g /\ x[2] = Bands[i]
            /\ InContainer(Href(g, i)) /\ staged[x] = ToVccUrl(Href(g, i))

\* What is staged of a granule is all of it, or left by a failed cleanup, or of
\* the granule being written.
SessionForm(p) ==
    session[p] # Nil \/ job[p] # Nil =>
        /\ registry[p] # Nil
        /\ session[p] = [holds |-> session[p].holds, refs |-> session[p].refs,
                         kept |-> session[p].kept, torn |-> session[p].torn]
        /\ RefsOk(session[p].refs)
        /\ \A g \in Granules(session[p].refs) :
              \/ g \in session[p].torn
              \/ Written(session[p].refs, g)
              \/ job[p] # Nil /\ job[p].granule = g /\ HeadersLeft(p) = {}

\* A request was answered with an object of the container, or denied an https
\* reader or one whose keys had been valid.
SeenForm ==
    seen # Nil =>
        \/ seen.got = seen.wanted /\ Len(seen.wanted) >= 2
        \/ seen.got = Denied /\ (seen.valid \/ seen.scheme = "https")

WriterForm(p) == RegistryForm(p) /\ JobForm(p) /\ SessionForm(p)
ReaderForm(p) == StoreForm(p) /\ RequestForm(p)

IInv ==
    /\ Domains /\ RefsOk(refs) /\ GranulesAreWhole /\ SeenForm
    /\ \A p \in Writers : WriterForm(p)
    /\ \A p \in Readers : ReaderForm(p)

(***************************************************************************)
(* The URL forms.                                                          *)
(***************************************************************************)

\* A path of one or two segments is known by them.
LEMMA ShortPaths ==
    ASSUME NEW S, NEW a \in S, NEW b \in S, NEW s \in Seq(S), s[1] = a
    PROVE  /\ Len(s) = 1 => s = <<a>>
           /\ Len(s) = 2 /\ s[2] = b => s = <<a, b>>
<1>1. ASSUME Len(s) = 1 PROVE s = <<a>>
  BY <1>1
<1>2. ASSUME Len(s) = 2, s[2] = b PROVE s = <<a, b>>
  BY <1>2
<1> QED BY <1>1, <1>2

\* All but the last of two or three segments, and joining two.
LEMMA Segments ==
    ASSUME NEW S, NEW a \in S, NEW b \in S, NEW c \in S
    PROVE  /\ Front(<<a, b>>) = <<a>> /\ Len(<<a, b>>) = 2
           /\ Front(<<a, b, c>>) = <<a, b>> /\ Len(<<a, b, c>>) = 3
           /\ <<a>> \o <<b>> = <<a, b>>
<1>1. /\ <<a, b>> \in Seq(S) /\ Len(<<a, b>>) = 2 /\ <<a, b>>[1] = a
      /\ <<a, b, c>> \in Seq(S) /\ Len(<<a, b, c>>) = 3
      /\ <<a, b, c>>[1] = a /\ <<a, b, c>>[2] = b
      /\ <<a>> \in Seq(S) /\ Len(<<a>>) = 1 /\ <<a>>[1] = a
      /\ <<b>> \in Seq(S) /\ Len(<<b>>) = 1 /\ <<b>>[1] = b
  OBVIOUS
<1> DEFINE s == SubSeq(<<a, b>>, 1, 1)
           t == SubSeq(<<a, b, c>>, 1, 2)
           u == <<a>> \o <<b>>
<1>2. s \in Seq(S) /\ Len(s) = 1 /\ s[1] = a
  BY <1>1
<1>3. t \in Seq(S) /\ Len(t) = 2 /\ t[1] = a /\ t[2] = b
  BY <1>1
<1>4. u \in Seq(S) /\ Len(u) = 2 /\ u[1] = a /\ u[2] = b
  BY <1>1
<1>5. Front(<<a, b>>) = s /\ Front(<<a, b, c>>) = t
  BY <1>1 DEF Front
<1> HIDE DEF s, t, u
<1>6. s = <<a>> /\ t = <<a, b>> /\ u = <<a, b>>
  BY <1>2, <1>3, <1>4, ShortPaths
<1> QED BY <1>1, <1>5, <1>6 DEF u

\* The prefixes without their trailing slash.
LEMMA PrefixForms ==
    /\ Front(LPDAAC_HTTPS_PREFIX) = <<Host>>
    /\ Front(LPDAAC_HTTPS_ASSET_PREFIX) = <<Host, Bucket>> /\ Len(LPDAAC_HTTPS_ASSET_PREFIX) = 3
    /\ Front(LPDAAC_S3_PREFIX) = <<Bucket>> /\ Len(LPDAAC_S3_PREFIX) = 2
    /\ <<Host>> \o <<Bucket>> = <<Host, Bucket>>
<1>1. PICK S : Host \in S /\ Bucket \in S /\ "" \in S
  <2>1. Host \in {Host, Bucket, ""} /\ Bucket \in {Host, Bucket, ""} /\ "" \in {Host, Bucket, ""}
    OBVIOUS
  <2> QED BY <2>1
<1>2. /\ Front(<<Host, "">>) = <<Host>>
      /\ Front(<<Host, Bucket, "">>) = <<Host, Bucket>> /\ Len(<<Host, Bucket, "">>) = 3
      /\ Front(<<Bucket, "">>) = <<Bucket>> /\ Len(<<Bucket, "">>) = 2
      /\ <<Host>> \o <<Bucket>> = <<Host, Bucket>>
  BY <1>1, Segments
<1> QED BY <1>2 DEF LPDAAC_HTTPS_PREFIX, LPDAAC_HTTPS_ASSET_PREFIX, LPDAAC_S3_PREFIX

\* A path in a set that also holds the host and the bucket.
LEMMA PathType ==
    ASSUME NEW h, h \in Seq(ToSet(h))
    PROVE  \E S : h \in Seq(S) /\ Host \in S /\ Bucket \in S
<1>1. h \in Seq(ToSet(h) \cup {Host, Bucket})
  OBVIOUS
<1> QED BY <1>1

\* The key of an href in the container is what follows the host and the bucket.
LEMMA KeyForm ==
    ASSUME NEW S, NEW h \in Seq(S), Host \in S, Bucket \in S, InContainer(h)
    PROVE  /\ Len(h) >= 2 /\ AssetKey(h) \in Seq(S)
           /\ AssetKey(h) = SubSeq(h, 3, Len(h))
           /\ <<Host, Bucket>> \o AssetKey(h) = h
<1>1. IsPrefix(<<Host, Bucket>>, h)
  BY PrefixForms DEF InContainer, StartsWith
<1>2. Len(h) >= 2 /\ h[1] = Host /\ h[2] = Bucket
  BY <1>1 DEF IsPrefix
<1>3. AssetKey(h) = SubSeq(h, 3, Len(h))
  BY PrefixForms DEF AssetKey, Within
<1>4. SubSeq(h, 3, Len(h)) \in Seq(S)
  BY <1>2
<1>5. <<Host, Bucket>> \o SubSeq(h, 3, Len(h)) = h
  BY <1>2
<1> QED BY <1>2, <1>3, <1>4, <1>5

\* A header's request goes to the record's object, through the registry of its url's
\* scheme.
LEMMA HeaderAnswered ==
    ASSUME NEW h, h \in Seq(ToSet(h)), InContainer(h), NEW mode \in ACCESS_MODES, NEW expires
    PROVE  LET url == AssetUrl(h, mode)
               reg == Registry(mode, expires)
           IN  /\ url.scheme = mode
               /\ Answered(reg.scheme, reg.base, Within(url.path, reg.prefix)) = h
<1>1. PICK S : h \in Seq(S) /\ Host \in S /\ Bucket \in S
  BY PathType
<1>2. PICK key \in Seq(S) : key = AssetKey(h)
  BY <1>1, KeyForm
<1>3. <<Host, Bucket>> \o key = h /\ SubSeq(h, 3, Len(h)) = key
  BY <1>1, <1>2, KeyForm
<1>4. CASE mode = "s3"
  <2>1. AssetUrl(h, mode) = [scheme |-> "s3", path |-> <<Bucket>> \o key]
    BY <1>2, <1>4, PrefixForms DEF AssetUrl, ToS3Url, Concat
  <2>2. /\ Registry(mode, expires).scheme = "s3" /\ Registry(mode, expires).base = <<Bucket>>
        /\ Registry(mode, expires).prefix = LPDAAC_S3_PREFIX
    BY <1>4, PrefixForms DEF Registry, RegistryBase, RStrip
  <2>3. SubSeq(<<Bucket>> \o key, 2, Len(<<Bucket>> \o key)) = key
    BY <1>1
  <2>4. Within(<<Bucket>> \o key, LPDAAC_S3_PREFIX) = key
    BY <2>3, PrefixForms DEF Within
  <2>5. Answered("s3", <<Bucket>>, key) = <<Host, Bucket>> \o key
    BY PrefixForms DEF Answered
  <2>6. AssetUrl(h, mode).scheme = mode /\ AssetUrl(h, mode).path = <<Bucket>> \o key
    BY <1>4, <2>1
  <2> QED BY <1>3, <1>4, <2>2, <2>4, <2>5, <2>6
<1>5. CASE mode = "https"
  <2>1. AssetUrl(h, mode) = [scheme |-> "https", path |-> h]
    BY <1>5 DEF AssetUrl
  <2>2. /\ Registry(mode, expires).scheme = "https" /\ Registry(mode, expires).base = <<Host, Bucket>>
        /\ Registry(mode, expires).prefix = LPDAAC_HTTPS_ASSET_PREFIX
    BY <1>5, PrefixForms DEF Registry, RegistryBase, RStrip
  <2>3. Within(h, LPDAAC_HTTPS_ASSET_PREFIX) = key
    BY <1>3, PrefixForms DEF Within
  <2>4. << >> \o <<Host, Bucket>> \o key = <<Host, Bucket>> \o key
    BY <1>1
  <2>5. Answered("https", <<Host, Bucket>>, key) = <<Host, Bucket>> \o key
    BY <2>4 DEF Answered
  <2>6. AssetUrl(h, mode).scheme = mode /\ AssetUrl(h, mode).path = h
    BY <1>5, <2>1
  <2> QED BY <1>3, <1>5, <2>2, <2>3, <2>5, <2>6
<1> QED BY <1>4, <1>5 DEF ACCESS_MODES

\* A chunk's request goes to the record's object, through the container of either
\* mode.
LEMMA ChunkAnswered ==
    ASSUME NEW h, h \in Seq(ToSet(h)), InContainer(h), NEW mode \in ACCESS_MODES
    PROVE  Answered(mode, << >>, Concat(Container(mode).prefix, AssetKey(h))) = h
<1>1. PICK S : h \in Seq(S) /\ Host \in S /\ Bucket \in S
  BY PathType
<1>2. PICK key \in Seq(S) : key = AssetKey(h)
  BY <1>1, KeyForm
<1>3. <<Host, Bucket>> \o key = h
  BY <1>1, <1>2, KeyForm
<1>4. CASE mode = "s3"
  <2>1. Concat(Container(mode).prefix, key) = <<Bucket>> \o key
    BY <1>4, PrefixForms DEF Container, Concat
  <2>2. <<Host>> \o << >> \o (<<Bucket>> \o key) = <<Host, Bucket>> \o key
    <3>1. <<Host>> \o << >> = <<Host>>
      BY <1>1
    <3>2. <<Host>> \o (<<Bucket>> \o key) = (<<Host>> \o <<Bucket>>) \o key
      BY <1>1
    <3> QED BY <3>1, <3>2, PrefixForms
  <2> QED BY <1>2, <1>3, <1>4, <2>1, <2>2 DEF Answered
<1>5. CASE mode = "https"
  <2>1. Concat(Container(mode).prefix, key) = <<Host, Bucket>> \o key
    BY <1>5, PrefixForms DEF Container, Concat
  <2>2. << >> \o << >> \o (<<Host, Bucket>> \o key) = <<Host, Bucket>> \o key
    BY <1>1
  <2> QED BY <1>2, <1>3, <1>5, <2>1, <2>2 DEF Answered
<1> QED BY <1>4, <1>5 DEF ACCESS_MODES

(***************************************************************************)
(* The invariant holds at first and is kept by every step.                 *)
(***************************************************************************)

\* The records' hrefs are paths.
LEMMA HrefType ==
    ASSUME NEW g \in DOMAIN Assets, NEW i \in Usable(g)
    PROVE  Href(g, i) \in Seq(ToSet(Href(g, i))) /\ Href(g, i) = Assets[g][Bands[i]].href
BY AssetAssumption DEF Usable, Href

\* An href in the container has a host and a bucket.
LEMMA HrefLength ==
    ASSUME NEW h, h \in Seq(ToSet(h)), InContainer(h)
    PROVE  Len(h) >= 2
<1>1. PICK S : h \in Seq(S) /\ Host \in S /\ Bucket \in S
  BY PathType
<1> QED BY <1>1, KeyForm

\* Nothing is open, recorded or asked at first.
LEMMA InitInv == Init => IInv
<1> SUFFICES ASSUME Init PROVE IInv
  OBVIOUS
<1>1. DOMAIN refs = {} /\ Granules(refs) = {}
  BY DEF Init, Granules
<1>2. RefsOk(refs) /\ GranulesAreWhole /\ SeenForm /\ Domains
  BY <1>1 DEF Init, RefsOk, GranulesAreWhole, SeenForm, Domains
<1>3. \A p \in Writers : WriterForm(p)
  BY DEF Init, WriterForm, RegistryForm, JobForm, SessionForm
<1>4. \A p \in Readers : ReaderForm(p)
  BY DEF Init, ReaderForm, StoreForm, RequestForm
<1> QED BY <1>2, <1>3, <1>4 DEF IInv

\* A writer keeps its form when its state stays.
LEMMA WriterKept ==
    ASSUME NEW p, WriterForm(p), UNCHANGED <<registry[p], job[p], session[p]>>
    PROVE  WriterForm(p)'
<1>1. RegistryForm(p)'
  BY DEF WriterForm, RegistryForm
<1>2. JobForm(p)'
  BY DEF WriterForm, JobForm
<1>3. SessionForm(p)'
  BY DEF WriterForm, SessionForm, HeadersLeft
<1> QED BY <1>1, <1>2, <1>3 DEF WriterForm

\* A reader keeps its form when its state stays.
LEMMA ReaderKept ==
    ASSUME NEW p, ReaderForm(p), UNCHANGED <<store[p], request[p]>>
    PROVE  ReaderForm(p)'
BY DEF ReaderForm, StoreForm, RequestForm

\* Whether published granules are whole only depends on refs and torn.
LEMMA PublishedKept ==
    ASSUME IInv, UNCHANGED <<refs, torn>>
    PROVE  RefsOk(refs)' /\ GranulesAreWhole'
BY DEF IInv, RefsOk, GranulesAreWhole

\* A step of one writer that leaves what is published well-formed keeps the invariant.
LEMMA WriterStep ==
    ASSUME IInv, NEW p \in Writers, Domains', UNCHANGED <<store, request>>,
           \A q \in Writers \ {p} : UNCHANGED <<registry[q], job[q], session[q]>>,
           RefsOk(refs)', GranulesAreWhole', SeenForm', WriterForm(p)'
    PROVE  IInv'
<1>1. \A q \in Readers : ReaderForm(q)'
  BY ReaderKept DEF IInv
<1>2. \A q \in Writers : WriterForm(q)'
  BY WriterKept DEF IInv
<1> QED BY <1>1, <1>2 DEF IInv

\* A step of one reader keeps the invariant if it keeps the reader's form.
LEMMA ReaderStep ==
    ASSUME IInv, NEW p \in Readers, Domains', UNCHANGED <<registry, job, session, refs, torn>>,
           \A q \in Readers \ {p} : UNCHANGED <<store[q], request[q]>>,
           SeenForm', ReaderForm(p)'
    PROVE  IInv'
<1>1. \A q \in Readers : ReaderForm(q)'
  BY ReaderKept DEF IInv
<1>2. \A q \in Writers : WriterForm(q)'
  BY WriterKept DEF IInv
<1> QED BY <1>1, <1>2, PublishedKept DEF IInv

\* open_store gives the container of its mode.
LEMMA OpenStoreKeeps ==
    ASSUME IInv, NEW p \in Readers, NEW mode, OpenStore(p, mode)
    PROVE  IInv'
<1>1. /\ store[p] = Nil /\ mode \in ACCESS_MODES /\ Domains /\ seen' = Nil
      /\ UNCHANGED <<now, registry, session, job, tried, refs, torn, request>>
  BY DEF OpenStore, IInv
<1>2. PICK expires \in (IF mode = "https" THEN EarthdataToken ELSE {0}) :
         store' = [store EXCEPT ![p] =
             [at |-> Container(mode), keys |-> [expires |-> expires, told |-> 0]]]
  BY DEF OpenStore
<1>3. expires \in Nat /\ (mode = "s3" => expires = 0)
  BY <1>1, <1>2, TimeAssumption DEF EarthdataToken, Domains
<1>4. store'[p] = [at |-> Container(mode), keys |-> [expires |-> expires, told |-> 0]]
  BY <1>1, <1>2 DEF Domains
<1>5. store'[p].at.scheme = mode
  BY <1>4 DEF Container
<1>6. StoreForm(p)'
  BY <1>1, <1>3, <1>4, <1>5 DEF StoreForm
<1>7. RequestForm(p)
  BY DEF IInv, ReaderForm
<1>8. ReaderForm(p)' /\ SeenForm'
  BY <1>1, <1>6, <1>7 DEF ReaderForm, RequestForm, SeenForm
<1>9. Domains' /\ \A q \in Readers \ {p} : UNCHANGED <<store[q], request[q]>>
  BY <1>1, <1>2 DEF Domains
<1> QED BY <1>1, <1>8, <1>9, ReaderStep

\* A registry is the one of its scheme, an unknown mode's being that of s3.
LEMMA BuildRegistryKeeps ==
    ASSUME IInv, NEW p \in Writers, NEW mode, BuildRegistry(p, mode)
    PROVE  IInv'
<1>1. /\ registry[p] = Nil /\ Domains /\ seen' = Nil
      /\ UNCHANGED <<now, store, session, job, tried, refs, torn, request>>
  BY DEF BuildRegistry, IInv
<1>2. PICK expires : registry' = [registry EXCEPT ![p] = Registry(mode, expires)]
  BY DEF BuildRegistry
<1>3. registry'[p] = Registry(mode, expires)
  BY <1>1, <1>2 DEF Domains
<1>4. /\ Registry(mode, expires).scheme \in ACCESS_MODES
      /\ Registry(mode, expires).expires = expires
      /\ Registry(mode, expires) = Registry(Registry(mode, expires).scheme, expires)
  BY DEF Registry, RegistryBase, ACCESS_MODES
<1>5. RegistryForm(p)'
  BY <1>3, <1>4 DEF RegistryForm
<1>6. job[p] = Nil /\ session[p] = Nil
  BY <1>1 DEF IInv, WriterForm, JobForm, SessionForm
<1>7. JobForm(p)' /\ SessionForm(p)' /\ SeenForm'
  BY <1>1, <1>6 DEF JobForm, SessionForm, SeenForm
<1>8. Domains' /\ \A q \in Writers \ {p} : UNCHANGED <<registry[q], job[q], session[q]>>
  BY <1>1, <1>2 DEF Domains
<1> QED BY <1>1, <1>5, <1>7, <1>8, PublishedKept, WriterStep DEF WriterForm

\* What a step of a batch changes.
Batch(p) ==
    /\ Domains' /\ UNCHANGED <<store, registry, refs, torn, request>>
    /\ \A q \in Writers \ {p} : UNCHANGED <<job[q], session[q]>>

\* A step that changes a writer's session and job, and publishes nothing.
LEMMA BatchStep ==
    ASSUME IInv, NEW p \in Writers, Batch(p),
           SeenForm', JobForm(p)', SessionForm(p)'
    PROVE  IInv'
<1>1. /\ Domains' /\ UNCHANGED <<store, registry, refs, torn, request>>
      /\ \A q \in Writers \ {p} : UNCHANGED <<registry[q], job[q], session[q]>>
  BY DEF Batch
<1>2. RegistryForm(p)'
  BY <1>1 DEF IInv, WriterForm, RegistryForm
<1> QED BY <1>1, <1>2, PublishedKept, WriterStep DEF WriterForm

\* A batch begins with nothing staged.
LEMMA BeginBatchKeeps ==
    ASSUME IInv, NEW p \in Writers, BeginBatch(p)
    PROVE  IInv'
<1> DEFINE s == [holds |-> Granules(refs), refs |-> << >>, kept |-> {}, torn |-> {}]
<1>1. /\ session[p] = Nil /\ session' = [session EXCEPT ![p] = s] /\ seen' = Nil /\ Domains
      /\ registry[p] # Nil /\ UNCHANGED <<now, store, registry, job, tried, refs, torn, request>>
  BY DEF BeginBatch, IInv
<1>2. session'[p] = s /\ job'[p] = job[p]
  BY <1>1 DEF Domains
<1>3. DOMAIN s.refs = {} /\ Granules(s.refs) = {}
  BY DEF Granules
<1>4. SessionForm(p)'
  BY <1>1, <1>2, <1>3 DEF SessionForm, RefsOk
<1>5. JobForm(p)' /\ SeenForm'
  BY <1>1, <1>2 DEF IInv, WriterForm, JobForm, SeenForm
<1>6. Batch(p)
  BY <1>1 DEF Batch, Domains
<1> QED BY <1>4, <1>5, <1>6, BatchStep

\* write_granule starts on urls that were not refused.
LEMMA VirtualizeKeeps ==
    ASSUME IInv, NEW p \in Writers, NEW g \in DOMAIN Assets, NEW mode, Virtualize(p, g, mode)
    PROVE  IInv'
<1> DEFINE j == [granule |-> g, mode |-> mode, read |-> {}]
<1>1. /\ session[p] # Nil /\ job[p] = Nil /\ job' = [job EXCEPT ![p] = j]
      /\ ~UrlsRefused(g, mode) /\ seen' = Nil /\ Domains /\ DOMAIN tried' = Writers
      /\ UNCHANGED <<now, store, registry, session, refs, torn, request>>
  BY DEF Virtualize, IInv, Domains
<1>2. job'[p] = j /\ session'[p] = session[p] /\ registry'[p] = registry[p] /\ Batch(p)
  BY <1>1 DEF Domains, Batch
<1>3. JobForm(p)'
  BY <1>1, <1>2 DEF JobForm
<1>4. SessionForm(p)'
  BY <1>1, <1>2 DEF IInv, WriterForm, SessionForm
<1>5. SeenForm'
  BY <1>1 DEF SeenForm
<1> QED BY <1>2, <1>3, <1>4, <1>5, BatchStep

\* A header read through the registry is the one of the record's object.
LEMMA ReadHeaderKeeps ==
    ASSUME IInv, NEW p \in Writers, ReadHeader(p)
    PROVE  IInv'
<1> DEFINE g == job[p].granule
           mode == job[p].mode
           reg == registry[p]
           got(i) == Answered(reg.scheme, reg.base,
                              Within(AssetUrl(Href(g, i), mode).path, reg.prefix))
<1>1. PICK i \in DOMAIN Bands :
         /\ IsNext(p, i) /\ Readable(p, AssetUrl(Href(g, i), mode))
         /\ seen' = [scheme |-> reg.scheme, wanted |-> Href(g, i), got |-> got(i),
                     valid |-> TRUE]
         /\ job' = [job EXCEPT ![p].read = @ \cup {i}]
         /\ UNCHANGED <<now, store, registry, session, tried, refs, torn, request>>
  BY DEF ReadHeader
<1>2. job[p] # Nil /\ i \in Usable(g)
  BY <1>1 DEF IsNext, HeadersLeft
<1>3. /\ registry[p] # Nil /\ g \in DOMAIN Assets /\ ~UrlsRefused(g, mode)
      /\ job[p] = [granule |-> g, mode |-> mode, read |-> job[p].read] /\ Domains
      /\ reg = Registry(reg.scheme, reg.expires) /\ SessionForm(p)
  BY <1>2 DEF IInv, WriterForm, JobForm, RegistryForm, SessionForm
<1> HIDE DEF g, mode, reg
<1>4. mode \in ACCESS_MODES /\ InContainer(Href(g, i))
  BY <1>2, <1>3 DEF UrlsRefused
<1>5. Href(g, i) \in Seq(ToSet(Href(g, i)))
  BY <1>2, <1>3, HrefType
<1>6. AssetUrl(Href(g, i), mode).scheme = mode
  BY <1>4, <1>5, HeaderAnswered
<1>7. reg.scheme = mode
  BY <1>1, <1>6 DEF Readable, reg
<1>8. got(i) = Href(g, i)
  <2>1. LET r == Registry(mode, reg.expires)
        IN  Answered(r.scheme, r.base, Within(AssetUrl(Href(g, i), mode).path, r.prefix)) = Href(g, i)
    BY <1>4, <1>5, HeaderAnswered
  <2> QED BY <1>3, <1>7, <2>1
<1>9. SeenForm'
  BY <1>1, <1>4, <1>5, <1>8, HrefLength DEF SeenForm
<1>10. job'[p] = [granule |-> g, mode |-> mode, read |-> job[p].read \cup {i}]
  <2>1. job'[p] = [job[p] EXCEPT !.read = @ \cup {i}]
    BY <1>1, <1>3 DEF Domains
  <2> QED BY <1>3, <2>1
<1>11. session'[p] = session[p] /\ registry'[p] = registry[p] /\ Batch(p)
  BY <1>1, <1>3 DEF Domains, Batch
<1>12. JobForm(p)'
  BY <1>3, <1>10, <1>11 DEF JobForm
<1>13. SessionForm(p)'
  BY <1>1, <1>2, <1>3, <1>11 DEF SessionForm, IsNext
<1> QED BY <1>9, <1>11, <1>12, <1>13, BatchStep

\* A level's reference is the one its record's href gives.
LEMMA WriteLevelKeeps ==
    ASSUME IInv, NEW p \in Writers, WriteLevel(p)
    PROVE  IInv'
<1> DEFINE g == job[p].granule
           old == session[p].refs
<1>1. PICK x \in Parts(g) :
          session' = [session EXCEPT ![p].refs =
                          Over([r \in {Ref(g, x)} |-> ToVccUrl(Href(g, x[1]))], @)]
  BY DEF WriteLevel
<1>2. /\ job[p] # Nil /\ HeadersLeft(p) = {} /\ Domains /\ seen' = Nil
      /\ UNCHANGED <<now, store, registry, job, tried, refs, torn, request>>
  BY DEF WriteLevel, IInv
<1>3. /\ registry[p] # Nil /\ g \in DOMAIN Assets
      /\ ~UrlsRefused(g, job[p].mode) /\ RefsOk(old)
      /\ session[p] = [holds |-> session[p].holds, refs |-> old,
                       kept |-> session[p].kept, torn |-> session[p].torn]
      /\ \A h \in Granules(old) : h \in session[p].torn \/ Written(old, h) \/ h = g
  BY <1>2 DEF IInv, WriterForm, JobForm, SessionForm
<1> HIDE DEF g, old
<1>4. PICK new : new = Over([r \in {Ref(g, x)} |-> ToVccUrl(Href(g, x[1]))], old)
  OBVIOUS
<1>5. session'[p] = [holds |-> session[p].holds, refs |-> new,
                     kept |-> session[p].kept, torn |-> session[p].torn]
  BY <1>1, <1>2, <1>3, <1>4 DEF Domains, old
<1>6. /\ DOMAIN new = DOMAIN old \cup {Ref(g, x)}
      /\ new[Ref(g, x)] = ToVccUrl(Href(g, x[1]))
      /\ \A y \in DOMAIN old \ {Ref(g, x)} : new[y] = old[y]
  BY <1>4 DEF Over
<1>7. x[1] \in Usable(g) /\ Ref(g, x)[1] = g /\ Ref(g, x)[2] = Bands[x[1]]
  BY DEF Parts, Ref
<1>8. InContainer(Href(g, x[1]))
  BY <1>3, <1>7 DEF UrlsRefused
<1>9. RefsOk(new)
  <2> SUFFICES ASSUME NEW y \in DOMAIN new
               PROVE  \E h \in DOMAIN Assets : \E i \in Usable(h) :
                          /\ y[1] = h /\ y[2] = Bands[i]
                          /\ InContainer(Href(h, i)) /\ new[y] = ToVccUrl(Href(h, i))
    BY DEF RefsOk
  <2>1. CASE y = Ref(g, x)
    BY <1>3, <1>6, <1>7, <1>8, <2>1
  <2>2. CASE y # Ref(g, x)
    <3>1. y \in DOMAIN old /\ new[y] = old[y]
      BY <1>6, <2>2
    <3> QED BY <1>3, <3>1 DEF RefsOk
  <2> QED BY <2>1, <2>2
<1>10. \A h \in Granules(new) : h \in session[p].torn \/ Written(new, h) \/ h = g
  <2> SUFFICES ASSUME NEW h \in Granules(new), h # g
               PROVE  h \in session[p].torn \/ Written(new, h)
    OBVIOUS
  <2>1. h \in Granules(old)
    BY <1>6, <1>7 DEF Granules
  <2> QED BY <1>3, <1>6, <2>1 DEF Written
<1>11. SessionForm(p)'
  <2>1. job'[p] # Nil /\ job'[p].granule = g /\ HeadersLeft(p)' = {} /\ registry'[p] # Nil
    BY <1>2, <1>3 DEF HeadersLeft, g
  <2> QED BY <1>5, <1>9, <1>10, <2>1 DEF SessionForm
<1>12. JobForm(p)'
  BY <1>2, <1>3, <1>5 DEF IInv, WriterForm, JobForm
<1>13. SeenForm' /\ Batch(p)
  BY <1>1, <1>2 DEF Domains, SeenForm, Batch
<1> QED BY <1>11, <1>12, <1>13, BatchStep

\* A granule is kept when all of it has been written.
LEMMA KeepGranuleKeeps ==
    ASSUME IInv, NEW p \in Writers, KeepGranule(p)
    PROVE  IInv'
<1> DEFINE g == job[p].granule
           s == session[p]
<1>1. /\ job[p] # Nil /\ Written(s.refs, g)
      /\ session' = [session EXCEPT ![p].kept = @ \cup {g}]
      /\ job' = [job EXCEPT ![p] = Nil] /\ Domains /\ seen' = Nil
      /\ UNCHANGED <<now, store, registry, tried, refs, torn, request>>
  BY DEF KeepGranule, IInv
<1>2. /\ registry[p] # Nil /\ RefsOk(s.refs)
      /\ s = [holds |-> s.holds, refs |-> s.refs, kept |-> s.kept, torn |-> s.torn]
      /\ \A h \in Granules(s.refs) : h \in s.torn \/ Written(s.refs, h)
  BY <1>1 DEF IInv, WriterForm, JobForm, SessionForm
<1>3. session'[p] = [holds |-> s.holds, refs |-> s.refs, kept |-> s.kept \cup {g}, torn |-> s.torn]
  BY <1>1, <1>2 DEF Domains
<1>4. job'[p] = Nil /\ Batch(p)
  BY <1>1 DEF Domains, Batch
<1> HIDE DEF g, s
<1>5. SessionForm(p)'
  BY <1>1, <1>2, <1>3 DEF SessionForm
<1>6. JobForm(p)' /\ SeenForm'
  BY <1>1, <1>4 DEF JobForm, SeenForm
<1> QED BY <1>4, <1>5, <1>6, BatchStep

\* What a raising writer staged is cleaned up, or the granule is known to be torn.
LEMMA GranuleFailsKeeps ==
    ASSUME IInv, NEW p \in Writers, GranuleFails(p)
    PROVE  IInv'
<1> DEFINE g == job[p].granule
           s == session[p]
<1>1. PICK batch \in CleanUp(s, g) : session' = [session EXCEPT ![p] = batch]
  BY DEF GranuleFails
<1>2. /\ job[p] # Nil /\ job' = [job EXCEPT ![p] = Nil] /\ Domains /\ seen' = Nil
      /\ UNCHANGED <<now, store, registry, tried, refs, torn, request>>
  BY DEF GranuleFails, IInv
<1>3. /\ registry[p] # Nil /\ RefsOk(s.refs)
      /\ s = [holds |-> s.holds, refs |-> s.refs, kept |-> s.kept, torn |-> s.torn]
      /\ \A h \in Granules(s.refs) : h \in s.torn \/ Written(s.refs, h) \/ h = g
  BY <1>2 DEF IInv, WriterForm, JobForm, SessionForm
<1>4. job'[p] = Nil /\ session'[p] = batch /\ Batch(p)
  BY <1>1, <1>2 DEF Domains, Batch
<1> HIDE DEF g, s
<1>5. JobForm(p)' /\ SeenForm'
  BY <1>2, <1>4 DEF JobForm, SeenForm
<1>6. CASE batch = [s EXCEPT !.refs = Restrict(@, {x \in DOMAIN @ : x[1] # g})]
  <2>1. PICK left : left = [x \in {y \in DOMAIN s.refs : y[1] # g} |-> s.refs[x]]
    OBVIOUS
  <2>2. batch = [holds |-> s.holds, refs |-> left, kept |-> s.kept, torn |-> s.torn]
    BY <1>3, <1>6, <2>1 DEF Restrict
  <2>3. RefsOk(left)
    BY <1>3, <2>1 DEF RefsOk
  <2>4. ASSUME NEW h \in Granules(left) PROVE h \in s.torn \/ Written(left, h)
    <3>1. h \in Granules(s.refs) /\ h # g
      BY <2>1, <2>4 DEF Granules
    <3>2. \A x : Ref(h, x)[1] = h
      BY DEF Ref
    <3> QED BY <1>3, <2>1, <3>1, <3>2 DEF Written
  <2>5. SessionForm(p)'
    BY <1>2, <1>3, <1>4, <2>2, <2>3, <2>4 DEF SessionForm
  <2> QED BY <1>4, <1>5, <2>5, BatchStep
<1>7. CASE batch = [s EXCEPT !.torn = @ \cup {g}]
  <2>1. batch = [holds |-> s.holds, refs |-> s.refs, kept |-> s.kept, torn |-> s.torn \cup {g}]
    BY <1>3, <1>7
  <2>2. SessionForm(p)'
    BY <1>2, <1>3, <1>4, <2>1 DEF SessionForm
  <2> QED BY <1>4, <1>5, <2>2, BatchStep
<1> QED BY <1>6, <1>7 DEF CleanUp

\* Nothing is published of a granule that is published already, so that each is
\* whole in the session or whole in the store.
LEMMA PublishKeeps ==
    ASSUME IInv, NEW p \in Writers, Publish(p)
    PROVE  IInv'
<1> DEFINE s == session[p]
<1>1. /\ s # Nil /\ job[p] = Nil /\ ~Clash(p) /\ refs' = Over(s.refs, refs)
      /\ torn' = torn \cup s.torn /\ session' = [session EXCEPT ![p] = Nil]
      /\ Domains /\ RefsOk(refs) /\ GranulesAreWhole /\ seen' = Nil
      /\ UNCHANGED <<now, store, registry, job, tried, request>>
  BY DEF Publish, IInv
<1>2. RefsOk(s.refs) /\ \A h \in Granules(s.refs) : h \in s.torn \/ Written(s.refs, h)
  BY <1>1 DEF IInv, WriterForm, SessionForm
<1>3. /\ DOMAIN refs' = DOMAIN s.refs \cup DOMAIN refs
      /\ \A x \in DOMAIN s.refs : refs'[x] = s.refs[x]
      /\ \A x \in DOMAIN refs \ DOMAIN s.refs : refs'[x] = refs[x]
  BY <1>1 DEF Over
<1>4. RefsOk(refs)'
  <2> SUFFICES ASSUME NEW y \in DOMAIN refs'
               PROVE  \E h \in DOMAIN Assets : \E i \in Usable(h) :
                          /\ y[1] = h /\ y[2] = Bands[i]
                          /\ InContainer(Href(h, i)) /\ refs'[y] = ToVccUrl(Href(h, i))
    BY DEF RefsOk
  <2>1. CASE y \in DOMAIN s.refs
    BY <1>2, <1>3, <2>1 DEF RefsOk
  <2>2. CASE y \notin DOMAIN s.refs
    BY <1>1, <1>3, <2>2 DEF RefsOk
  <2> QED BY <2>1, <2>2
<1>5. GranulesAreWhole'
  <2> SUFFICES ASSUME NEW h \in Granules(refs') PROVE h \in torn' \/ Written(refs', h)
    BY DEF GranulesAreWhole
  <2>1. h \in Granules(s.refs) \/ h \in Granules(refs)
    BY <1>3 DEF Granules
  <2>2. CASE h \in Granules(s.refs)
    BY <1>1, <1>2, <1>3, <2>2 DEF Written
  <2>3. CASE h \in Granules(refs)
    BY <1>1, <1>3, <2>3 DEF GranulesAreWhole, Written
  <2> QED BY <2>1, <2>2, <2>3
<1>6. session'[p] = Nil /\ job'[p] = Nil /\ registry'[p] = registry[p]
  BY <1>1 DEF Domains
<1>7. JobForm(p)' /\ SessionForm(p)' /\ SeenForm'
  BY <1>1, <1>6 DEF JobForm, SessionForm, SeenForm
<1>8. RegistryForm(p)'
  BY <1>6 DEF IInv, WriterForm, RegistryForm
<1>9. Domains' /\ \A q \in Writers \ {p} : UNCHANGED <<registry[q], job[q], session[q]>>
  BY <1>1 DEF Domains
<1> QED BY <1>1, <1>4, <1>5, <1>7, <1>8, <1>9, WriterStep DEF WriterForm

\* A discarded session publishes nothing.
LEMMA DiscardKeeps ==
    ASSUME IInv, NEW p \in Writers, Discard(p)
    PROVE  IInv'
<1>1. /\ job[p] = Nil /\ session' = [session EXCEPT ![p] = Nil] /\ Domains /\ seen' = Nil
      /\ UNCHANGED <<now, store, registry, job, tried, refs, torn, request>>
  BY DEF Discard, IInv
<1>2. session'[p] = Nil /\ job'[p] = Nil /\ Batch(p)
  BY <1>1 DEF Domains, Batch
<1>3. JobForm(p)' /\ SessionForm(p)' /\ SeenForm'
  BY <1>1, <1>2 DEF JobForm, SessionForm, SeenForm
<1> QED BY <1>2, <1>3, BatchStep

\* A reader asks with keys that are valid, for the object the record named, in the
\* mode of the reader.
LEMMA AskChunkKeeps ==
    ASSUME IInv, NEW p \in Readers, NEW g \in DOMAIN Assets, NEW b, AskChunk(p, g, b)
    PROVE  IInv'
<1> DEFINE mode == store[p].at.scheme
           href == Assets[g][b].href
<1>1. PICK x \in DOMAIN refs, keys \in (IF mode = "s3" THEN RefreshedKeys(store[p].keys)
                                        ELSE {store[p].keys}) :
          /\ x[1] = g /\ x[2] = b
          /\ store' = [store EXCEPT ![p].keys = keys]
          /\ request' = [request EXCEPT ![p] =
                [scheme  |-> mode,
                 wanted  |-> href,
                 path    |-> Concat(store[p].at.prefix, refs[x].key),
                 expires |-> keys.expires,
                 valid   |-> keys.expires > now]]
  BY DEF AskChunk
<1>2. /\ store[p] # Nil /\ Domains /\ RefsOk(refs) /\ seen' = Nil
      /\ UNCHANGED <<now, registry, session, job, tried, refs, torn>>
  BY DEF AskChunk, IInv
<1>3. /\ mode \in ACCESS_MODES
      /\ store[p] = [at |-> Container(mode), keys |-> store[p].keys]
      /\ store[p].keys.expires \in Nat
      /\ mode = "s3" => store[p].keys.told = store[p].keys.expires
  BY <1>2 DEF IInv, ReaderForm, StoreForm
<1>4. keys.expires \in Nat /\ (mode = "s3" => keys.told = keys.expires /\ keys.expires > now)
  <2>1. CASE mode = "s3" /\ store[p].keys.told > now
    BY <1>1, <1>3, <2>1 DEF RefreshedKeys
  <2>2. CASE mode = "s3" /\ ~(store[p].keys.told > now)
    <3>1. PICK d \in 1..KeyLife : keys = [expires |-> now + d, told |-> now + d]
      BY <1>1, <2>2 DEF RefreshedKeys, LpdaacCredentials
    <3> QED BY <1>2, <3>1, TimeAssumption DEF Domains
  <2>3. CASE mode # "s3"
    BY <1>1, <1>3, <2>3
  <2> QED BY <2>1, <2>2, <2>3
<1>5. PICK i \in Usable(g) : /\ Bands[i] = b /\ InContainer(Href(g, i)) /\ Href(g, i) = href
                             /\ refs[x] = ToVccUrl(Href(g, i))
  BY <1>1, <1>2 DEF RefsOk, Href
<1>6. href \in Seq(ToSet(href)) /\ InContainer(href) /\ refs[x].key = AssetKey(href)
  <2>1. href \in Seq(ToSet(href)) /\ InContainer(href)
    BY <1>5, HrefType
  <2>2. refs[x] = ToVccUrl(href)
    BY <1>5
  <2> QED BY <2>1, <2>2 DEF ToVccUrl
<1> HIDE DEF mode, href
<1>7. store[p].at.prefix = Container(mode).prefix
  BY <1>3
<1>8. Answered(mode, << >>, Concat(store[p].at.prefix, refs[x].key)) = href
  BY <1>3, <1>6, <1>7, ChunkAnswered
<1>9. /\ request'[p].wanted = href /\ request'[p].valid = (keys.expires > now)
      /\ Answered(mode, << >>, request'[p].path) = href /\ request'[p].scheme = mode
  BY <1>1, <1>2, <1>8 DEF Domains
<1>10. store'[p] = [at |-> Container(mode), keys |-> keys]
  BY <1>1, <1>2, <1>3 DEF Domains
<1>11. store'[p].at.scheme = mode /\ store'[p].at = Container(mode) /\ store'[p].keys = keys
  BY <1>10 DEF Container
<1>12. StoreForm(p)'
  BY <1>3, <1>4, <1>10, <1>11 DEF StoreForm
<1>13. RequestForm(p)'
  BY <1>3, <1>4, <1>6, <1>9, HrefLength DEF RequestForm
<1>14. Domains' /\ SeenForm' /\ \A q \in Readers \ {p} : UNCHANGED <<store[q], request[q]>>
  BY <1>1, <1>2 DEF Domains, SeenForm
<1> QED BY <1>2, <1>12, <1>13, <1>14, ReaderStep DEF ReaderForm

\* An answer is the object wanted, or a denial of keys that were valid.
LEMMA ServeChunkKeeps ==
    ASSUME IInv, NEW p \in Readers, ServeChunk(p)
    PROVE  IInv'
<1> DEFINE r == request[p]
<1>1. /\ r # Nil /\ request' = [request EXCEPT ![p] = Nil] /\ Domains
      /\ seen' = [scheme |-> r.scheme, wanted |-> r.wanted,
                  got |-> IF r.expires <= now THEN Denied
                          ELSE Answered(r.scheme, << >>, r.path),
                  valid |-> r.valid]
      /\ UNCHANGED <<now, store, registry, session, job, tried, refs, torn>>
  BY DEF ServeChunk, IInv
<1>2. /\ Len(r.wanted) >= 2 /\ Answered(r.scheme, << >>, r.path) = r.wanted
      /\ r.scheme = "s3" => r.valid
      /\ r.scheme \in ACCESS_MODES /\ StoreForm(p)
  BY <1>1 DEF IInv, ReaderForm, RequestForm, StoreForm
<1> HIDE DEF r
<1>3. SeenForm'
  BY <1>1, <1>2 DEF SeenForm, ACCESS_MODES
<1>4. request'[p] = Nil /\ store'[p] = store[p]
  BY <1>1 DEF Domains
<1>5. ReaderForm(p)'
  BY <1>2, <1>4 DEF ReaderForm, RequestForm, StoreForm
<1>6. Domains' /\ \A q \in Readers \ {p} : UNCHANGED <<store[q], request[q]>>
  BY <1>1 DEF Domains
<1> QED BY <1>1, <1>3, <1>5, <1>6, ReaderStep

\* Every step keeps the invariant.
LEMMA NextInv == IInv /\ [Next]_vars => IInv'
<1> SUFFICES ASSUME IInv, [Next]_vars PROVE IInv'
  OBVIOUS
<1>1. ASSUME now' \in Nat, UNCHANGED <<store, registry, session, job, tried, refs, torn, request>>,
             SeenForm'
      PROVE  IInv'
  <2>1. (\A p \in Readers : ReaderForm(p)') /\ \A p \in Writers : WriterForm(p)'
    BY <1>1, ReaderKept, WriterKept DEF IInv
  <2>2. Domains' /\ RefsOk(refs)' /\ GranulesAreWhole'
    BY <1>1, PublishedKept DEF IInv, Domains
  <2> QED BY <1>1, <2>1, <2>2 DEF IInv
<1>2. CASE Tick
  BY <1>1, <1>2 DEF Tick, IInv, Domains, SeenForm
<1>3. CASE UNCHANGED vars
  BY <1>1, <1>3 DEF vars, IInv, Domains, SeenForm
<1>4. ASSUME NEW p \in Writers,
             \/ \E mode \in Requested : BuildRegistry(p, mode)
             \/ BeginBatch(p)
             \/ \E g \in DOMAIN Assets, mode \in Requested : Virtualize(p, g, mode)
             \/ ReadHeader(p) \/ WriteLevel(p) \/ KeepGranule(p) \/ GranuleFails(p)
             \/ Publish(p) \/ Discard(p)
      PROVE  IInv'
  BY <1>4, BuildRegistryKeeps, BeginBatchKeeps, VirtualizeKeeps, ReadHeaderKeeps,
     WriteLevelKeeps, KeepGranuleKeeps, GranuleFailsKeeps, PublishKeeps, DiscardKeeps
<1>5. ASSUME NEW p \in Readers,
             \/ \E mode \in Requested : OpenStore(p, mode)
             \/ \E g \in DOMAIN Assets, b \in ToSet(Bands) : AskChunk(p, g, b)
             \/ ServeChunk(p)
      PROVE  IInv'
  BY <1>5, OpenStoreKeeps, AskChunkKeeps, ServeChunkKeeps
<1> QED BY <1>2, <1>3, <1>4, <1>5 DEF Next

(***************************************************************************)
(* The theorems.                                                           *)
(***************************************************************************)

\* Whatever modes the processes that wrote a reference and that resolve it were in,
\* every request that is not denied is answered with the object the archive's record
\* names: the three URL forms of assets.py and the bases and prefixes of
\* credentials.py agree.
THEOREM UrlFormsAgree == Spec => []RequestsHitTheObject
<1>1. IInv => RequestsHitTheObject
  BY DEF IInv, SeenForm, RequestsHitTheObject
<1> QED BY <1>1, InitInv, NextInv, PTL DEF Spec

\* However long an s3 reader stays open, it is denied only if its keys ran out
\* while the request was under way: the expiry lpdaac_credentials passes on lets
\* icechunk fetch new keys before each request the old ones are too old for.
THEOREM ReadersAskWithValidKeys == Spec => []ReadersOutliveKeys
<1>1. Denied = <<"denied">> /\ Len(<<"denied">>) = 1
  BY DEF Denied
<1>2. ASSUME NEW s, s = Denied PROVE ~(Len(s) >= 2)
  BY <1>1, <1>2
<1>3. IInv => ReadersOutliveKeys
  <2> SUFFICES ASSUME IInv, seen # Nil, seen.got = Denied
               PROVE  seen.valid \/ seen.scheme = "https"
    BY DEF ReadersOutliveKeys
  <2>1. CASE seen.got = seen.wanted /\ Len(seen.wanted) >= 2
    BY <1>2, <2>1, Zenon
  <2> QED BY <2>1 DEF IInv, SeenForm
<1> QED BY <1>3, InitInv, NextInv, PTL DEF Spec

\* A granule is published with every level of every band its record has, or not at
\* all, however many processes virtualize it, whenever a registry's keys expire and
\* wherever a write raises, as long as the cleanup after it does not raise too.
THEOREM GranulesStayWhole == Spec => []GranulesAreWhole
<1>1. IInv => GranulesAreWhole
  BY DEF IInv
<1> QED BY <1>1, InitInv, NextInv, PTL DEF Spec
=============================================================================
