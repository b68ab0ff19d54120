----------------------------- MODULE Generation -----------------------------
(***************************************************************************)
(* How one integration job comes to its tool: the first three stages of    *)
(* execute_pipeline (services/integrator/app/pipeline.py), in which the    *)
(* discovery agent (agents/discovery.py) reads a small bundle of pages and *)
(* the reader agent (agents/reader.py) a larger one, both by DocsFetcher,  *)
(* and run_codegen makes a tool of what the reader found, by Codegen.      *)
(*                                                                         *)
(* The language model answers anything.  Pipeline has these stages as      *)
(* steps that succeed or fail; here is what they hand to one another.      *)
(***************************************************************************)
EXTENDS DocsFetcher, Codegen

CONSTANTS
  UnknownAPI,      \* the provider named when discovery finds none
  AuthKeys,        \* the sets of keys an authentication is described with
  NoSpec, NoTool

ASSUME GenerationAssumption ==
  /\ UnknownAPI \in Providers
  /\ AuthKeys \subseteq SUBSET Fields
  /\ NoSpec \notin APISpecification /\ NoTool \notin GeneratedTool

VARIABLES
  stage,     \* the stage the job is in
  provider,  \* DiscoveryResult.provider_name
  spec,      \* APISpecification, from the reader
  tool       \* GeneratedTool, from codegen

vars == <<bundle, stage, provider, spec, tool>>

Init ==
  /\ bundle = NoBundle
  /\ stage = "discovery"
  /\ provider = UnknownAPI
  /\ spec = NoSpec
  /\ tool = NoTool

-----------------------------------------------------------------------------

\* Discovery asks for two pages, the reader for the default.
Fetch ==
  /\ \/ stage = "discovery" /\ FetchDocsBundle(2)
     \/ stage = "reader" /\ FetchDocsBundle(0)
  /\ UNCHANGED <<stage, provider, spec, tool>>

\* The bundle goes into a prompt and is forgotten.
Prompt == bundle.pc = "done" /\ bundle' = NoBundle

\* A missing provider is named so.  What discovery says of the authentication is
\* shown to the reader's model, and codegen never sees it.
RunDiscovery ==
  /\ stage = "discovery" /\ Prompt
  /\ \E named \in Providers \cup {Absent} : provider' = Default(named, UnknownAPI)
  /\ stage' = "reader"
  /\ UNCHANGED <<spec, tool>>

\* The provider falls back to that of discovery, the authentication to none.
RunReader ==
  /\ stage = "reader" /\ Prompt
  /\ \E named \in Providers \cup {Absent}, auth \in AuthTypes, keys \in AuthKeys :
       spec' = [provider |-> Default(named, provider), auth |-> auth, authKeys |-> keys]
  /\ stage' = "codegen"
  /\ UNCHANGED <<provider, tool>>

RunCodegenStage ==
  /\ stage = "codegen"
  /\ \E requested \in Names, data \in ProposedTools :
       LET generated == RunCodegen(spec, requested, data)
       IN  /\ Validates(generated)
           /\ tool' = generated
  /\ stage' = "test_fix"
  /\ UNCHANGED <<bundle, provider, spec>>

\* A fetch that raised, a model that cannot be reached, or an answer that does not
\* validate: the job fails.
Fail ==
  /\ \/ stage \in {"discovery", "reader"} /\ bundle.pc \in {"failed", "done"}
     \/ stage = "codegen"
  /\ stage' = "failed"
  /\ UNCHANGED <<bundle, provider, spec, tool>>

Next == Fetch \/ RunDiscovery \/ RunReader \/ RunCodegenStage \/ Fail

Spec == Init /\ [][Next]_vars

-----------------------------------------------------------------------------
(* Properties.                                                             *)

\* Every variable holds a value of its kind.
TypeOK ==
  /\ bundle \in Bundle
  /\ stage \in {"discovery", "reader", "codegen", "test_fix", "failed"}
  /\ provider \in Providers
  /\ spec \in APISpecification \cup {NoSpec}
  /\ tool \in GeneratedTool \cup {NoTool}

\* An API that asks for credentials has no live tool.
LiveNeedsNoKeys(t) == t.status = "live" => ~RequiresCredentials(spec)

\* The tool of a managed provider requires no field that it does not show, and shows
\* none named like a credential, nor like a key of the authentication unless it is the
\* tool the code brings along.
SchemaAsksNoSecret(t) ==
  IsManagedProvider(spec) =>
    /\ t.schema.required \subseteq t.schema.fields
    /\ t.schema.fields \cap CredentialFields(spec.provider) = {}
    /\ spec.provider # Twilio => t.schema.fields \cap spec.authKeys = {}

\* Whatever the language model proposed, a generated tool is sound with respect to the
\* API the reader described: the catalog takes its status as it comes, so that a live
\* tool is one that needs no keys, and the schema an agent is shown asks for no secret
\* that the platform keeps.
GeneratedToolSound == tool # NoTool => LiveNeedsNoKeys(tool) /\ SchemaAsksNoSecret(tool)
=============================================================================
