-------------------------- MODULE GenerationProofs --------------------------
(***************************************************************************)
(* What holds of every documentation site, every answer of the language    *)
(* models and every table of managed providers: the types of Generation,   *)
(* the bounds and the order of a documentation bundle, and the soundness   *)
(* of a generated tool.                                                    *)
(***************************************************************************)
EXTENDS Generation, FiniteSetTheorems, TLAPS

USE FetcherAssumption

-----------------------------------------------------------------------------
(* Links.                                                                  *)

\* The links of a page are addresses, and so are those that are candidates.
LEMMA LinksAreUrls ==
  ASSUME NEW site \in Site, NEW root \in Page
  PROVE  /\ Relevant(site, root) \subseteq Urls
         /\ CandidateLinks(site, root) \subseteq Relevant(site, root)
         /\ \A l \in Relevant(site, root) : Rank[l] \in Nat /\ Rank[l] > 0
<1>1. site.anchors[root.url] \in Seq(Urls)
  BY DEF Site, Page
<1>2. PageLinks(site, root.url) \subseteq Urls
  <2> SUFFICES ASSUME NEW l \in PageLinks(site, root.url) PROVE l \in Urls
    OBVIOUS
  <2>1. PICK i \in DOMAIN site.anchors[root.url] : l = site.anchors[root.url][i]
    BY DEF PageLinks
  <2> QED
    BY <1>1, <2>1
<1>3. Relevant(site, root) \subseteq PageLinks(site, root.url)
  BY DEF Relevant
<1> QED
  BY <1>2, <1>3 DEF Relevant, CandidateLinks

\* Two links of a page never rank the same, so that what ranks higher than the one is
\* a proper part of what ranks higher than the other.
LEMMA BetterShrinks ==
  ASSUME NEW S \in SUBSET Urls, \A l \in S : Rank[l] > 0,
         NEW l \in S, NEW m \in S, Rank[l] >= Rank[m], l # m
  PROVE  /\ Rank[m] < Rank[l]
         /\ Cardinality(Better(S, l)) \in Nat /\ Cardinality(Better(S, m)) \in Nat
         /\ Cardinality(Better(S, l)) < Cardinality(Better(S, m))
<1>1. Rank[m] \in Nat /\ Rank[l] \in Nat /\ Rank[l] # Rank[m]
  OBVIOUS
<1>2. IsFiniteSet(Better(S, m))
  <2>1. Better(S, m) \in SUBSET Urls
    BY DEF Better
  <2> QED
    BY <2>1, FS_Subset
<1>3. Better(S, l) \in SUBSET Better(S, m) /\ l \in Better(S, m) /\ l \notin Better(S, l)
  <2> SUFFICES ASSUME NEW u \in S, Rank[u] > Rank[l] PROVE Rank[u] > Rank[m]
    BY <1>1 DEF Better
  <2> QED
    BY <1>1
<1>4. /\ Cardinality(Better(S, l)) <= Cardinality(Better(S, m))
      /\ Cardinality(Better(S, m)) # Cardinality(Better(S, l))
      /\ IsFiniteSet(Better(S, l))
  BY <1>2, <1>3, FS_Subset
<1> QED
  BY <1>1, <1>2, <1>4, FS_CardinalityType

\* The cut leaves at most n links: each has its own number of better ones, below n.
LEMMA CutBounds ==
  ASSUME NEW S \in SUBSET Urls, \A l \in S : Rank[l] > 0, NEW n \in Nat
  PROVE  LET T == {l \in S : Cardinality(Better(S, l)) < n}
         IN  IsFiniteSet(T) /\ Cardinality(T) \in Nat /\ Cardinality(T) <= n
<1> DEFINE T == {l \in S : Cardinality(Better(S, l)) < n}
           place == [l \in T |-> Cardinality(Better(S, l))]
<1>1. IsFiniteSet(T) /\ Cardinality(T) \in Nat
  <2>1. T \in SUBSET Urls
    OBVIOUS
  <2>2. IsFiniteSet(T)
    BY <2>1, FS_Subset
  <2> QED
    BY <2>2, FS_CardinalityType
<1>2. IsFiniteSet(0..(n - 1)) /\ Cardinality(0..(n - 1)) = n
  <2>1. 0 \in Int /\ n - 1 \in Int
    OBVIOUS
  <2>2. IsFiniteSet(0..(n - 1)) /\ Cardinality(0..(n - 1)) = IF 0 > n - 1 THEN 0 ELSE n - 1 - 0 + 1
    BY <2>1, FS_Interval
  <2> QED
    BY <2>2
<1>3. \A l \in S : Cardinality(Better(S, l)) \in Nat
  <2> TAKE l \in S
  <2>1. Better(S, l) \in SUBSET Urls
    BY DEF Better
  <2>2. IsFiniteSet(Better(S, l))
    BY <2>1, FS_Subset
  <2> QED
    BY <2>2, FS_CardinalityType
<1>4. place \in [T -> 0..(n - 1)]
  <2> SUFFICES ASSUME NEW l \in T PROVE Cardinality(Better(S, l)) \in 0..(n - 1)
    OBVIOUS
  <2> QED
    BY <1>3
<1>5. \A l, m \in T : l # m => place[l] # place[m]
  <2> SUFFICES ASSUME NEW l \in T, NEW m \in T, l # m, Rank[l] >= Rank[m]
               PROVE  place[l] # place[m]
    <3>1. \A u \in T : Rank[u] \in Nat
      OBVIOUS
    <3> QED
      BY <3>1
  <2>1. Cardinality(Better(S, l)) < Cardinality(Better(S, m))
    BY BetterShrinks
  <2> QED
    BY <2>1, <1>3
<1>6. ~(Cardinality(0..(n - 1)) < Cardinality(T))
  <2> SUFFICES ASSUME Cardinality(0..(n - 1)) < Cardinality(T) PROVE FALSE
    OBVIOUS
  <2> HIDE DEF T, place
  <2>1. \E l, m \in T : l # m /\ place[l] = place[m]
    BY <1>1, <1>2, <1>4, FS_PigeonHole
  <2> QED
    BY <2>1, <1>5
<1> QED
  BY <1>1, <1>2, <1>6

\* A link that the cut leaves out ranks below every one that it keeps.
LEMMA CutKeepsBest ==
  ASSUME NEW S \in SUBSET Urls, \A l \in S : Rank[l] > 0, NEW n \in Nat,
         NEW l \in S, Cardinality(Better(S, l)) < n,
         NEW m \in S, ~(Cardinality(Better(S, m)) < n)
  PROVE  Rank[m] < Rank[l]
<1> SUFFICES ASSUME Rank[m] >= Rank[l] PROVE FALSE
  BY DEF Better
<1>1. l # m
  OBVIOUS
<1>2. /\ Cardinality(Better(S, m)) < Cardinality(Better(S, l))
      /\ Cardinality(Better(S, m)) \in Nat /\ Cardinality(Better(S, l)) \in Nat
  BY <1>1, BetterShrinks
<1> QED
  BY <1>2

-----------------------------------------------------------------------------
(* A bundle, by what its call has done: nothing, or begun with a root page *)
(* and taken its candidates from the best one down.                        *)

Root == bundle.pages[1]
Candidates == CandidateLinks(bundle.site, Root)
Tried == bundle.seen \ {Root.url}

\* Every candidate is tried or left, and what is tried ranks above what is left.
FromTheBest ==
  /\ Tried \subseteq Candidates /\ bundle.left \subseteq Candidates
  /\ Candidates \subseteq bundle.seen \cup bundle.left
  /\ \A l \in Tried, m \in bundle.left : Rank[m] < Rank[l]

\* The pages after the root page were asked for at addresses that were tried, each at
\* another one.
AskedOnce ==
  \A i \in DOMAIN bundle.pages : i > 1 =>
    /\ bundle.pages[i].asked \in Tried
    /\ \A k \in DOMAIN bundle.pages : 1 < k /\ k < i =>
         bundle.pages[k].asked # bundle.pages[i].asked

Begun ==
  /\ bundle.site # NoSite
  /\ bundle.pages # <<>>
  /\ Root.url \in bundle.seen

BundleSound ==
  /\ bundle \in Bundle
  /\ bundle.pc \in {"idle", "failed"} => bundle.pages = <<>> /\ bundle.seen = {}
  /\ bundle.pc \in {"walk", "done"} => Begun /\ FromTheBest /\ AskedOnce

LEMMA FirstIsSound == bundle = NoBundle => BundleSound
BY DEF NoBundle, BundleSound, Bundle

LEMMA RootKeepsSound ==
  ASSUME BundleSound, NEW maxPages \in Nat, FetchRoot(maxPages)
  PROVE  BundleSound'
<1> DEFINE root(site) == Fetched(site, DocsUrl)
<1>1. PICK site \in Sites :
        bundle' = [pc |-> "walk", site |-> site,
                   budget |-> IF maxPages # 0 THEN maxPages ELSE DefaultPages,
                   pages |-> <<root(site)>>, seen |-> {root(site).url},
                   left |-> CandidateLinks(site, root(site))]
  BY DEF FetchRoot, FirstSeen
<1>2. site \in Site /\ site # NoSite
  OBVIOUS
<1>3. root(site) \in Page
  BY <1>2 DEF Site, Response, Fetched, Page
<1>4. CandidateLinks(site, root(site)) \subseteq Urls
  BY <1>2, <1>3, LinksAreUrls
<1> HIDE DEF root
<1>5. bundle' \in Bundle
  BY <1>1, <1>2, <1>3, <1>4 DEF Bundle, Page
<1>6. /\ bundle'.pc = "walk" /\ bundle'.site = site /\ bundle'.pages = <<root(site)>>
      /\ bundle'.seen = {root(site).url} /\ bundle'.left = CandidateLinks(site, root(site))
      /\ DOMAIN bundle'.pages = {1} /\ Root' = root(site)
  BY <1>1 DEF Root
<1>7. Begun' /\ FromTheBest' /\ AskedOnce'
  BY <1>2, <1>6 DEF Begun, FromTheBest, AskedOnce, Tried, Candidates
<1> QED
  BY <1>5, <1>6, <1>7 DEF BundleSound

\* Of the links that are left, the best ranks above every other.
LEMMA BestIsAbove ==
  ASSUME bundle.left \in SUBSET Urls, \A m \in bundle.left : Rank[m] > 0, NEW l \in Best
  PROVE  l \in bundle.left /\ \A m \in bundle.left \ {l} : Rank[m] < Rank[l]
<1> SUFFICES ASSUME NEW m \in bundle.left, m # l, l \in bundle.left PROVE Rank[m] < Rank[l]
  BY DEF Best
<1>1. ~(Rank[m] > Rank[l])
  BY DEF Best, Better
<1>2. Rank[m] # Rank[l] /\ Rank[m] \in Nat /\ Rank[l] \in Nat
  OBVIOUS
<1> QED
  BY <1>1, <1>2

\* What a bundle that has begun is made of.
LEMMA WalkFacts ==
  ASSUME BundleSound, bundle.pc = "walk"
  PROVE  /\ bundle.site \in Site /\ Root \in Page /\ Len(bundle.pages) > 0
         /\ 1 \in DOMAIN bundle.pages
         /\ bundle.left \in SUBSET Urls /\ \A m \in bundle.left : Rank[m] > 0
<1>1. bundle.site \in Site /\ bundle.pages \in Seq(Page) /\ bundle.pages # <<>>
  BY DEF BundleSound, Bundle, Begun
<1>2. Len(bundle.pages) > 0 /\ 1 \in DOMAIN bundle.pages /\ Root \in Page
  BY <1>1 DEF Root
<1>3. bundle.left \subseteq Candidates
  BY DEF BundleSound, FromTheBest
<1> QED
  BY <1>1, <1>2, <1>3, LinksAreUrls DEF Candidates

\* Trying a link that was not seen, with or without a page of it.
LEMMA VisitKeepsSound ==
  ASSUME BundleSound, Visit
  PROVE  BundleSound'
<1>0. bundle.pc = "walk"
  BY DEF Visit, MorePages
<1>1. PICK l \in Best :
        /\ l \notin bundle.seen
        /\ \E pages \in {bundle.pages, Append(bundle.pages, Fetched(bundle.site, l))} :
             bundle' = [bundle EXCEPT !.left = @ \ {l}, !.seen = @ \cup {l}, !.pages = pages]
  BY DEF Visit
<1>2. PICK pages \in {bundle.pages, Append(bundle.pages, Fetched(bundle.site, l))} :
        bundle' = [bundle EXCEPT !.left = @ \ {l}, !.seen = @ \cup {l}, !.pages = pages]
  BY <1>1
<1>3. /\ bundle \in Bundle /\ Begun /\ FromTheBest /\ AskedOnce
      /\ bundle.pages \in Seq(Page) /\ bundle.seen \in SUBSET Urls
  BY <1>0 DEF BundleSound, Bundle
<1>4. l \in bundle.left /\ l \in Urls /\ \A m \in bundle.left \ {l} : Rank[m] < Rank[l]
  BY <1>0, WalkFacts, BestIsAbove
<1>5. Fetched(bundle.site, l) \in Page /\ Fetched(bundle.site, l).asked = l
  BY <1>0, <1>4, WalkFacts DEF Site, Response, Fetched, Page
<1>6. /\ bundle'.pc = "walk" /\ bundle'.site = bundle.site /\ bundle'.pages = pages
      /\ bundle'.left = bundle.left \ {l} /\ bundle'.seen = bundle.seen \cup {l}
  BY <1>0, <1>2, <1>3 DEF Bundle
<1>7. pages \in Seq(Page) /\ pages # <<>> /\ pages[1] = Root
  BY <1>0, <1>3, <1>5, WalkFacts DEF Root
<1>8. bundle' \in Bundle
  BY <1>2, <1>3, <1>4, <1>7 DEF Bundle
<1>9. Root' = Root /\ Candidates' = Candidates /\ Tried' = Tried \cup {l}
  BY <1>1, <1>3, <1>6, <1>7 DEF Root, Candidates, Tried, Begun
<1>10. Begun'
  BY <1>3, <1>6, <1>7, <1>9 DEF Begun
<1>11. FromTheBest'
  BY <1>3, <1>4, <1>6, <1>9 DEF FromTheBest
<1>12. AskedOnce'
  <2>1. CASE pages = bundle.pages
    BY <1>3, <1>6, <1>9, <2>1 DEF AskedOnce
  <2>2. CASE pages = Append(bundle.pages, Fetched(bundle.site, l))
    <3> DEFINE n == Len(bundle.pages)
    <3>1. /\ n \in Nat /\ DOMAIN bundle.pages = 1..n /\ DOMAIN pages = 1..(n + 1)
          /\ \A i \in 1..n : pages[i] = bundle.pages[i]
          /\ pages[n + 1].asked = l
      BY <1>3, <1>5, <2>2
    <3>2. SUFFICES ASSUME NEW i \in 1..(n + 1), i > 1
                   PROVE  /\ pages[i].asked \in Tried \cup {l}
                          /\ \A k \in 1..(n + 1) : 1 < k /\ k < i =>
                               pages[k].asked # pages[i].asked
      BY <1>6, <1>9, <3>1 DEF AskedOnce
    <3>3. \A k \in 1..n : k > 1 => pages[k].asked \in Tried
      BY <1>3, <3>1 DEF AskedOnce
    <3>4. CASE i = n + 1
      <4>1. l \notin Tried
        BY <1>1 DEF Tried
      <4> QED
        BY <3>1, <3>3, <3>4, <4>1
    <3>5. CASE i \in 1..n
      <4> HIDE DEF n
      <4>1. \A k \in 1..(n + 1) : k < i => k \in 1..n
        BY <3>1, <3>5
      <4> QED
        BY <1>3, <3>1, <3>2, <3>3, <3>5, <4>1 DEF AskedOnce
    <3> QED
      BY <3>1, <3>2, <3>4, <3>5
  <2> QED
    BY <2>1, <2>2
<1> QED
  BY <1>6, <1>8, <1>10, <1>11, <1>12 DEF BundleSound

LEMMA FetchKeepsSound ==
  ASSUME BundleSound, NEW maxPages \in Nat, FetchDocsBundle(maxPages)
  PROVE  BundleSound'
<1>1. CASE FetchRoot(maxPages)
  BY <1>1, RootKeepsSound
<1>2. CASE RootFails
  BY <1>2 DEF RootFails, BundleSound, Bundle
<1>3. CASE Skip
  <2>1. PICK l \in Best : l \in bundle.seen /\ bundle' = [bundle EXCEPT !.left = @ \ {l}]
    BY <1>3 DEF Skip
  <2>2. /\ bundle.pc = "walk" /\ bundle \in Bundle /\ Begun /\ FromTheBest /\ AskedOnce
    BY <1>3 DEF Skip, MorePages, BundleSound
  <2>3. /\ bundle' \in Bundle /\ bundle'.pc = "walk" /\ bundle'.site = bundle.site
        /\ bundle'.pages = bundle.pages /\ bundle'.left = bundle.left \ {l}
        /\ bundle'.seen = bundle.seen
    BY <2>1, <2>2 DEF Bundle
  <2>4. Root' = Root /\ Candidates' = Candidates /\ Tried' = Tried
    BY <2>3 DEF Root, Candidates, Tried
  <2>5. Begun' /\ AskedOnce'
    BY <2>2, <2>3, <2>4 DEF Begun, AskedOnce
  <2>6. FromTheBest'
    BY <2>1, <2>2, <2>3, <2>4 DEF FromTheBest
  <2> QED
    BY <2>3, <2>5, <2>6 DEF BundleSound
<1>4. CASE Visit
  BY <1>4, VisitKeepsSound
<1>5. CASE Return
  <2>1. bundle.pc = "walk" /\ bundle' = [bundle EXCEPT !.pc = "done"] /\ bundle \in Bundle
    BY <1>5 DEF Return, BundleSound
  <2>2. /\ bundle' \in Bundle /\ bundle'.pc = "done" /\ bundle'.site = bundle.site
        /\ bundle'.pages = bundle.pages /\ bundle'.left = bundle.left
        /\ bundle'.seen = bundle.seen
    BY <2>1 DEF Bundle
  <2> QED
    BY <2>1, <2>2 DEF BundleSound, Begun, FromTheBest, AskedOnce, Root, Candidates, Tried
<1> QED
  BY <1>1, <1>2, <1>3, <1>4, <1>5 DEF FetchDocsBundle

-----------------------------------------------------------------------------
(* What a sound bundle is good for.                                        *)

LEMMA SoundIsBounded == BundleSound => RequestsBounded
<1> SUFFICES ASSUME BundleSound PROVE RequestsBounded
  OBVIOUS
<1>1. CASE bundle.pc \in {"idle", "failed"}
  <2>1. bundle.seen = {}
    BY <1>1 DEF BundleSound
  <2> QED
    BY <2>1, FS_EmptySet DEF RequestsBounded
<1>2. CASE bundle.pc \in {"walk", "done"}
  <2>1. Begun /\ FromTheBest
    BY <1>2 DEF BundleSound
  <2>2. bundle.site \in Site /\ Root \in Page
    BY <2>1 DEF BundleSound, Bundle, Begun, Root
  <2> DEFINE S == Relevant(bundle.site, Root)
  <2>3. S \in SUBSET Urls /\ \A l \in S : Rank[l] > 0
    BY <2>2, LinksAreUrls
  <2>4. DefaultPages - 1 \in Nat
    OBVIOUS
  <2>5. IsFiniteSet(Candidates) /\ Cardinality(Candidates) \in Nat
        /\ Cardinality(Candidates) <= DefaultPages - 1
    <3> HIDE DEF S
    <3>1. Candidates = {l \in S : Cardinality(Better(S, l)) < DefaultPages - 1}
      BY DEF Candidates, CandidateLinks, S
    <3> QED
      BY <2>3, <2>4, <3>1, CutBounds
  <2>6. IsFiniteSet(Candidates \cup {Root.url})
        /\ Cardinality(Candidates \cup {Root.url}) <= DefaultPages
    <3>1. Cardinality(Candidates \cup {Root.url})
            = IF Root.url \in Candidates THEN Cardinality(Candidates)
              ELSE Cardinality(Candidates) + 1
      BY <2>5, FS_AddElement
    <3>2. IsFiniteSet(Candidates \cup {Root.url})
      BY <2>5, FS_AddElement
    <3> QED
      BY <2>5, <3>1, <3>2
  <2>7. bundle.seen \in SUBSET (Candidates \cup {Root.url})
    BY <2>1 DEF FromTheBest, Tried
  <2>8. /\ Cardinality(bundle.seen) <= Cardinality(Candidates \cup {Root.url})
        /\ Cardinality(bundle.seen) \in Nat
        /\ Cardinality(Candidates \cup {Root.url}) \in Nat
    BY <2>6, <2>7, FS_Subset, FS_CardinalityType
  <2> QED
    BY <2>6, <2>8 DEF RequestsBounded
<1> QED
  BY <1>1, <1>2 DEF BundleSound, Bundle

LEMMA SoundRepeatsByRedirect == BundleSound => RepeatsOnlyByRedirect
<1> SUFFICES ASSUME BundleSound,
                    NEW i \in DOMAIN bundle.pages, NEW k \in DOMAIN bundle.pages, i < k,
                    bundle.pages[i].url = bundle.pages[k].url, Direct(bundle.pages[k])
             PROVE  i > 1 /\ ~Direct(bundle.pages[i])
  BY DEF RepeatsOnlyByRedirect
<1>1. bundle.pages \in Seq(Page) /\ bundle.pages # <<>>
  BY DEF BundleSound, Bundle
<1>2. Begun /\ AskedOnce
  BY <1>1 DEF BundleSound, Bundle
<1>3. i \in Nat /\ k \in Nat /\ i >= 1 /\ k > 1
  BY <1>1
<1>4. /\ bundle.pages[k].asked \in Tried
      /\ 1 < i => bundle.pages[i].asked # bundle.pages[k].asked
  BY <1>2, <1>3 DEF AskedOnce
<1>5. bundle.pages[k].asked = bundle.pages[i].url
  BY DEF Direct
<1>6. i # 1
  BY <1>4, <1>5 DEF Tried, Root
<1> QED
  BY <1>3, <1>4, <1>5, <1>6 DEF Direct

LEMMA SoundTakesBest == BundleSound => BestLinksFirst
<1> SUFFICES ASSUME BundleSound, bundle.pc \in {"walk", "done"},
                    NEW l \in Tried, NEW m \in Relevant(bundle.site, Root) \ bundle.seen
             PROVE  Rank[m] < Rank[l]
  BY DEF BestLinksFirst, Tried, Root
<1>1. Begun /\ FromTheBest
  BY DEF BundleSound
<1>2. bundle.site \in Site /\ Root \in Page
  BY <1>1 DEF BundleSound, Bundle, Begun, Root
<1> DEFINE S == Relevant(bundle.site, Root)
<1>3. S \in SUBSET Urls /\ \A u \in S : Rank[u] > 0
  BY <1>2, LinksAreUrls
<1>4. CASE m \in Candidates
  BY <1>1, <1>4 DEF FromTheBest
<1>5. CASE m \notin Candidates
  <2>1. l \in Candidates
    BY <1>1 DEF FromTheBest
  <2>2. l \in S /\ Cardinality(Better(S, l)) < DefaultPages - 1
    BY <2>1 DEF Candidates, CandidateLinks
  <2>3. m \in S /\ ~(Cardinality(Better(S, m)) < DefaultPages - 1)
    BY <1>5 DEF Candidates, CandidateLinks
  <2>4. DefaultPages - 1 \in Nat
    OBVIOUS
  <2> HIDE DEF S
  <2> QED
    BY <1>3, <2>2, <2>3, <2>4, CutKeepsBest
<1> QED
  BY <1>4, <1>5

-----------------------------------------------------------------------------
(* Code generation, whatever the model proposes.                           *)

LEMMA SanitizedSchema ==
  ASSUME NEW s \in APISpecification, NEW schema \in Schema
  PROVE  LET public == SanitizePublicInputSchema(schema, s)
         IN  /\ public \in Schema
             /\ IsManagedProvider(s) =>
                  /\ public.required \subseteq public.fields
                  /\ public.fields \cap CredentialFields(s.provider) = {}
                  /\ public.fields \cap s.authKeys = {}
BY DEF SanitizePublicInputSchema, HiddenFields, ManagedSecretFields, Schema

LEMMA TwilioSchema ==
  ASSUME NEW name \in Names
  PROVE  /\ TwilioManagedTool(name) \in GeneratedTool
         /\ TwilioManagedTool(name).schema.required \subseteq TwilioManagedTool(name).schema.fields
         /\ TwilioManagedTool(name).schema.fields \cap CredentialFields(Twilio) = {}
<1>1. {"to", "message"} \cap CredentialFields(Twilio) = {}
  BY CodegenAssumption DEF CredentialFields
<1>2. TwilioManagedTool(name) \in GeneratedTool
  BY CodegenAssumption DEF TwilioManagedTool, GeneratedTool, Schema, ToolStatus
<1> QED
  BY <1>1, <1>2 DEF TwilioManagedTool

LEMMA FinalStatusSound ==
  ASSUME NEW s \in APISpecification, NEW status \in ToolStatus \cup {"integrating", Absent}
  PROVE  /\ FinalStatus(status, s) = "live" => ~RequiresCredentials(s)
         /\ FinalStatus(status, s) \in ToolStatus \cup {"integrating"}
BY DEF FinalStatus, Default, ToolStatus

\* A tool that codegen returns is a GeneratedTool, sound with respect to s.
LEMMA CodegenSound ==
  ASSUME NEW s \in APISpecification, NEW requested \in Names, NEW data \in ProposedTools
  PROVE  LET t == RunCodegen(s, requested, data)
         IN  /\ t \in GeneratedTool
             /\ t.status = "live" => ~RequiresCredentials(s)
             /\ IsManagedProvider(s) =>
                  /\ t.schema.required \subseteq t.schema.fields
                  /\ t.schema.fields \cap CredentialFields(s.provider) = {}
                  /\ s.provider # Twilio => t.schema.fields \cap s.authKeys = {}
<1> DEFINE name == Sanitize[requested]
           policy == ApplyManagedProviderPolicy(data, s, name)
           t == RunCodegen(s, requested, data)
<1>1. data \in ProposedTool /\ name \in Names
  BY CodegenAssumption
<1>2. t = [policy EXCEPT !.status = FinalStatus(policy.status, s)]
  BY DEF RunCodegen
<1>3. CASE s.provider = Twilio
  <2>1. policy = TwilioManagedTool(name)
    BY <1>3 DEF ApplyManagedProviderPolicy
  <2>2. policy \in GeneratedTool /\ policy.status \in ToolStatus
    BY <1>1, <2>1, TwilioSchema DEF TwilioManagedTool, ToolStatus
  <2> HIDE DEF policy
  <2>3. /\ t \in GeneratedTool /\ t.schema = policy.schema
        /\ t.status = FinalStatus(policy.status, s)
    BY <1>2, <2>2, FinalStatusSound DEF GeneratedTool
  <2> QED
    BY <1>1, <1>3, <2>1, <2>2, <2>3, TwilioSchema, FinalStatusSound
<1>4. CASE s.provider # Twilio
  <2> DEFINE given == Default(data.schema, NoFields)
             public == SanitizePublicInputSchema(given, s)
  <2>1. given \in Schema
    BY <1>1 DEF Default, NoFields, Schema, ProposedTool
  <2>2. public \in Schema
    BY <2>1, SanitizedSchema
  <2>3. Sanitize[Default(data.name, name)] \in Names
    BY <1>1, CodegenAssumption DEF Default, ProposedTool
  <2>4. policy = [name |-> Sanitize[Default(data.name, name)], status |-> data.status,
                  schema |-> public, code |-> IF data.code THEN "proposed" ELSE "echo"]
    BY <1>4 DEF ApplyManagedProviderPolicy
  <2>5. data.status \in ToolStatus \cup {"integrating", Absent}
    BY <1>1 DEF ProposedTool
  <2> HIDE DEF policy, public, given, name
  <2>6. t = [name |-> Sanitize[Default(data.name, name)], status |-> FinalStatus(data.status, s),
             schema |-> public, code |-> IF data.code THEN "proposed" ELSE "echo"]
    BY <1>2, <2>4
  <2>7. t \in GeneratedTool
    BY <2>2, <2>3, <2>5, <2>6, FinalStatusSound DEF GeneratedTool
  <2> QED
    BY <2>1, <2>5, <2>6, <2>7, SanitizedSchema, FinalStatusSound DEF public
<1> QED
  BY <1>3, <1>4

-----------------------------------------------------------------------------
(* The invariant.  There is no tool before codegen has run, and the reader *)
(* has described an API by then; later neither changes any more.           *)

InOrder ==
  /\ stage \in {"discovery", "reader", "codegen"} => tool = NoTool
  /\ stage = "codegen" => spec \in APISpecification

IInv == TypeOK /\ BundleSound /\ InOrder /\ GeneratedToolSound

LEMMA InitIInv == Init => IInv
BY FirstIsSound, GenerationAssumption
   DEF Init, IInv, TypeOK, BundleSound, InOrder, GeneratedToolSound

LEMMA NextIInv == IInv /\ [Next]_vars => IInv'
<1> SUFFICES ASSUME IInv, [Next]_vars PROVE IInv'
  OBVIOUS
<1> USE GenerationAssumption
<1>1. CASE Fetch
  <2>1. BundleSound'
    <3>1. FetchDocsBundle(2) \/ FetchDocsBundle(0)
      BY <1>1 DEF Fetch
    <3> QED
      BY <3>1, FetchKeepsSound DEF IInv
  <2> QED
    BY <1>1, <2>1
       DEF Fetch, IInv, TypeOK, BundleSound, InOrder, GeneratedToolSound, LiveNeedsNoKeys,
           SchemaAsksNoSecret
<1>2. CASE RunDiscovery
  <2>1. BundleSound'
    BY <1>2 DEF RunDiscovery, Prompt, BundleSound, NoBundle, Bundle
  <2>2. provider' \in Providers
    BY <1>2 DEF RunDiscovery, Default
  <2> QED
    BY <1>2, <2>1, <2>2 DEF RunDiscovery, IInv, TypeOK, BundleSound, InOrder, GeneratedToolSound
<1>3. CASE RunReader
  <2>1. BundleSound'
    BY <1>3 DEF RunReader, Prompt, BundleSound, NoBundle, Bundle
  <2>2. spec' \in APISpecification
    <3>1. PICK named \in Providers \cup {Absent}, auth \in AuthTypes, keys \in AuthKeys :
            spec' = [provider |-> Default(named, provider), auth |-> auth, authKeys |-> keys]
      BY <1>3 DEF RunReader
    <3>2. Default(named, provider) \in Providers
      BY DEF Default, IInv, TypeOK
    <3> QED
      BY <3>1, <3>2 DEF APISpecification
  <2> QED
    BY <1>3, <2>1, <2>2 DEF RunReader, IInv, TypeOK, BundleSound, InOrder, GeneratedToolSound
<1>4. CASE RunCodegenStage
  <2>1. PICK requested \in Names, data \in ProposedTools :
          tool' = RunCodegen(spec, requested, data)
    BY <1>4 DEF RunCodegenStage
  <2>2. spec \in APISpecification /\ spec' = spec /\ bundle' = bundle
    BY <1>4 DEF RunCodegenStage, IInv, InOrder
  <2>3. tool' \in GeneratedTool /\ GeneratedToolSound'
    BY <2>1, <2>2, CodegenSound
       DEF GeneratedToolSound, LiveNeedsNoKeys, SchemaAsksNoSecret
  <2>4. BundleSound'
    BY <2>2 DEF IInv, BundleSound, Begun, FromTheBest, AskedOnce, Root, Candidates, Tried
  <2>5. TypeOK' /\ InOrder'
    BY <1>4, <2>2, <2>3 DEF RunCodegenStage, IInv, TypeOK, InOrder
  <2> QED
    BY <2>3, <2>4, <2>5 DEF IInv
<1>5. CASE Fail \/ UNCHANGED vars
  <2>1. UNCHANGED <<bundle, provider, spec, tool>>
    BY <1>5 DEF Fail, vars
  <2>2. stage' \in {stage, "failed"}
    BY <1>5 DEF Fail, vars
  <2>3. BundleSound'
    BY <2>1 DEF IInv, BundleSound, Begun, FromTheBest, AskedOnce, Root, Candidates, Tried
  <2>4. TypeOK' /\ InOrder'
    BY <2>1, <2>2 DEF IInv, TypeOK, InOrder
  <2>5. GeneratedToolSound'
    BY <2>1 DEF IInv, GeneratedToolSound, LiveNeedsNoKeys, SchemaAsksNoSecret
  <2> QED
    BY <2>3, <2>4, <2>5 DEF IInv
<1> QED
  BY <1>1, <1>2, <1>3, <1>4, <1>5 DEF Next

LEMMA IInvHolds == Spec => []IInv
BY InitIInv, NextIInv, PTL DEF Spec

-----------------------------------------------------------------------------

\* Whatever the site, the settings and the answers of the models are, what the stages
\* hand to one another is of its kind.
THEOREM TypeCorrect == Spec => []TypeOK
<1>1. IInv => TypeOK
  BY DEF IInv
<1> QED
  BY <1>1, IInvHolds, PTL

\* fetch_docs_bundle never makes more requests than docs_fetch_max_pages, whatever the
\* links of the site and however many of them fail.
THEOREM RequestsBoundedAlways == Spec => []RequestsBounded
<1>1. IInv => RequestsBounded
  BY SoundIsBounded DEF IInv
<1> QED
  BY <1>1, IInvHolds, PTL

\* On every site only a redirect brings a page into a bundle twice: seen takes care of
\* all else, although it mixes final with requested addresses.
THEOREM RepeatsOnlyByRedirectAlways == Spec => []RepeatsOnlyByRedirect
<1>1. IInv => RepeatsOnlyByRedirect
  BY SoundRepeatsByRedirect DEF IInv
<1> QED
  BY <1>1, IInvHolds, PTL

\* On every site no bundle passes over a better link for a worse one.
THEOREM BestLinksFirstAlways == Spec => []BestLinksFirst
<1>1. IInv => BestLinksFirst
  BY SoundTakesBest DEF IInv
<1> QED
  BY <1>1, IInvHolds, PTL

\* For every table of managed providers and every proposal of the model, codegen
\* returns no live tool that needs keys and no public schema that asks for a secret.
THEOREM GeneratedToolSoundAlways == Spec => []GeneratedToolSound
<1>1. IInv => GeneratedToolSound
  BY DEF IInv
<1> QED
  BY <1>1, IInvHolds, PTL
=============================================================================
