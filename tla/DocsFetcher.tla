---------------------------- MODULE DocsFetcher ----------------------------
(***************************************************************************)
(* The documentation fetcher of the integrator (services/integrator/app/   *)
(* docs_fetcher.py): which pages of a documentation site fetch_docs_bundle *)
(* asks for, in which order, and which of them end up in the bundle that   *)
(* the discovery and reader agents give to a language model.               *)
(*                                                                         *)
(* The texts are left out.  What is kept of a response is where redirects  *)
(* led, which parser takes it, and whether that parser raises; settings    *)
(* that switch the PDF and OpenAPI parsers off are at their default.       *)
(***************************************************************************)
EXTENDS Integers, Sequences, FiniteSets

CONSTANTS
  Urls,          \* addresses, fragment and query included
  DocsUrl,       \* the address the job was given
  Host,          \* the netloc of each address
  Rank,          \* the order of <<keyword score, address>>; 0 without a keyword
  Sites,         \* what may answer: a response for each address, the anchors of each
  NoSite,
  DefaultPages,  \* settings.docs_fetch_max_pages
  LinkLimit      \* the links kept of a page: 25

Types == {"html", "pdf", "json", "yaml", "text", "other"}
Response ==
  [url: Urls,                           \* after redirects
   declared: Types \cup {"none"},       \* the content-type header
   suffix: {"pdf", "json", "yaml", "none"},
   body: Types,                         \* what its first bytes say
   openapi: BOOLEAN,                    \* address or body name OpenAPI or Swagger
   parses: BOOLEAN]                     \* its parser takes the body, which is cut
                                        \* at docs_fetch_max_bytes
Site == [answer: [Urls -> Response], anchors: [Urls -> Seq(Urls)]]

ASSUME FetcherAssumption ==
  /\ IsFiniteSet(Urls) /\ DocsUrl \in Urls
  /\ Rank \in [Urls -> Nat]
  /\ \A u, v \in Urls : Rank[u] = Rank[v] /\ Rank[u] > 0 => u = v
  /\ Sites \subseteq Site /\ NoSite \notin Site
  /\ DefaultPages \in Nat \ {0} /\ LinkLimit \in Nat

VARIABLE bundle  \* the local variables of a call of fetch_docs_bundle

Page == [asked: Urls, url: Urls]
Bundle ==
  [pc: {"idle", "walk", "done", "failed"},
   site: Site \cup {NoSite},  \* the documentation as it is during the call
   budget: Nat,               \* effective_max_pages
   pages: Seq(Page), seen: SUBSET Urls, left: SUBSET Urls]
NoBundle ==
  [pc |-> "idle", site |-> NoSite, budget |-> 0, pages |-> <<>>, seen |-> {}, left |-> {}]

-----------------------------------------------------------------------------
(* One document.  ForgetRedirect, AnyOrder and AllRelevant are seeded      *)
(* faults that stand in for the definition below them.                     *)

\* _detect_content_type: the header, else the path, else the first bytes; a body
\* of no known beginning counts as HTML.
DetectContentType(r) ==
  IF r.declared # "none" THEN r.declared
  ELSE IF r.suffix # "none" THEN r.suffix
  ELSE IF r.body \in {"pdf", "json"} THEN r.body ELSE "html"

\* The parser fetch_document picks.
Parser(r) ==
  LET type == DetectContentType(r)
  IN  IF type \in {"html", "pdf"} THEN type
      ELSE IF type \in {"json", "yaml", "text"} \/ r.openapi THEN "openapi" ELSE "plain"

\* The PDF and the OpenAPI parser raise on a body that is cut or malformed, and the
\* latter on JSON that is no object; a transport or HTTP error raises at any time.
Raises(r) == Parser(r) \in {"pdf", "openapi"} /\ ~r.parses

-----------------------------------------------------------------------------
(* _candidate_links: the links of an HTML root page on its own host with a  *)
(* keyword, best first, cut to the pages the settings leave for them.      *)

\* _parse_html_page keeps the first links of a page, each once.
PageLinks(site, u) ==
  LET found == site.anchors[u]
  IN  {found[i] : i \in {k \in DOMAIN found :
                         Cardinality({found[j] : j \in 1..(k - 1)}) < LinkLimit}}

Relevant(site, root) ==
  IF Parser(site.answer[root.asked]) # "html" THEN {}
  ELSE {l \in PageLinks(site, root.url) : Host[l] = Host[root.url] /\ Rank[l] > 0}

Better(S, l) == {m \in S : Rank[m] > Rank[l]}

AllRelevant(site, root) == Relevant(site, root)
CandidateLinks(site, root) ==
  LET S == Relevant(site, root)
  IN  {l \in S : Cardinality(Better(S, l)) < DefaultPages - 1}

-----------------------------------------------------------------------------
(* fetch_docs_bundle.                                                      *)

Fetched(site, u) == [asked |-> u, url |-> site.answer[u].url]

\* seen begins with the address the root page has after redirects.
ForgetRedirect(root) == {root.asked}
FirstSeen(root) == {root.url}

\* max_pages is 0 for None.
FetchRoot(maxPages) ==
  /\ bundle.pc = "idle"
  /\ \E site \in Sites :
       LET root == Fetched(site, DocsUrl)
       IN  /\ ~Raises(site.answer[DocsUrl])
           /\ bundle' = [pc |-> "walk", site |-> site,
                         budget |-> IF maxPages # 0 THEN maxPages ELSE DefaultPages,
                         pages |-> <<root>>, seen |-> FirstSeen(root),
                         left |-> CandidateLinks(site, root)]

\* The root page is fetched outside any try block: the exception ends the stage.
RootFails ==
  /\ bundle.pc = "idle"
  /\ bundle' = [bundle EXCEPT !.pc = "failed"]

MorePages == bundle.pc = "walk" /\ Len(bundle.pages) < bundle.budget
AnyOrder == bundle.left
Best == {l \in bundle.left : Better(bundle.left, l) = {}}

Skip ==
  /\ MorePages
  /\ \E l \in Best : /\ l \in bundle.seen
                     /\ bundle' = [bundle EXCEPT !.left = @ \ {l}]

\* A link is seen from when it is tried; one that fails leaves no page.
Visit ==
  /\ MorePages
  /\ \E l \in Best :
       LET fails == bundle.pages
           answers == Append(bundle.pages, Fetched(bundle.site, l))
       IN  /\ l \notin bundle.seen
           /\ \E pages \in {fails, answers} :
                /\ pages = answers => ~Raises(bundle.site.answer[l])
                /\ bundle' = [bundle EXCEPT !.left = @ \ {l}, !.seen = @ \cup {l},
                                            !.pages = pages]

Return ==
  /\ bundle.pc = "walk"
  /\ bundle.left = {} \/ ~MorePages
  /\ bundle' = [bundle EXCEPT !.pc = "done"]

FetchDocsBundle(maxPages) ==
  FetchRoot(maxPages) \/ RootFails \/ Skip \/ Visit \/ Return

-----------------------------------------------------------------------------
(* Properties.                                                             *)

\* Every request of a bundle is one address in seen, the root's included.  However
\* many links fail, and however many pages the caller asked for, a bundle costs at
\* most docs_fetch_max_pages requests: a failure uses up a candidate.
RequestsBounded == Cardinality(bundle.seen) <= DefaultPages

\* A page is twice in a bundle only if a redirect led there: the bundle asks for no
\* address twice, nor for the one its root page turned out to have.
Direct(page) == page.asked = page.url
RepeatsOnlyByRedirect ==
  \A i, k \in DOMAIN bundle.pages :
    LET first == bundle.pages[i]  again == bundle.pages[k] IN
    i < k /\ first.url = again.url => ~Direct(again) \/ (i > 1 /\ ~Direct(first))

\* A relevant link that has not been tried ranks below every one that has, so that
\* neither the cut nor a failure makes a bundle pass over a better page.
BestLinksFirst ==
  bundle.pc \in {"walk", "done"} =>
    LET root == bundle.pages[1] IN
    \A l \in bundle.seen \ {root.url}, m \in Relevant(bundle.site, root) \ bundle.seen :
      Rank[m] < Rank[l]
=============================================================================
