------------------------------ MODULE Codegen ------------------------------
(***************************************************************************)
(* What run_codegen (services/integrator/app/agents/codegen.py) makes of a *)
(* tool that a language model proposes: its name, its status and the input *)
(* fields it shows.  The model may propose anything, or leave a key out;   *)
(* names and fields are known by what the code asks of their text.         *)
(***************************************************************************)
EXTENDS Integers

CONSTANTS
  Providers,
  Twilio,          \* the provider with a tool of its own
  Requirements,    \* MANAGED_PROVIDER_REQUIREMENTS: the credentials of each, {} for
                   \* a provider that is not managed
  Names, Sanitize, \* proposed tool names, and _sanitize_tool_name of each
  Fields,          \* input fields, by their normalized names
  FullName, ShortName,  \* the field named like a credential, with and without provider
  InternalFields,  \* those that contain one of INTERNAL_FIELD_TOKENS
  PublicFields,    \* PUBLIC_INPUT_ALLOWLIST
  Absent,          \* a key the model leaves out
  ProposedTools    \* what the model may propose

Credentials == UNION {Requirements[p] : p \in Providers}

ToolStatus == {"live", "pending_credentials", "deprecated"}
AuthTypes == {"none", "unknown", "bearer"}
Schema == [fields: SUBSET Fields, required: SUBSET Fields]

\* What the reader agent extracts, as far as codegen looks at it: the type of the
\* authentication, and the names of the keys it is described with.
APISpecification == [provider: Providers, auth: AuthTypes, authKeys: SUBSET Fields]
ProposedTool ==
  [name: Names \cup {Absent}, status: ToolStatus \cup {"integrating", Absent},
   schema: Schema \cup {Absent}, code: BOOLEAN]
GeneratedTool ==
  [name: Names, status: ToolStatus \cup {"integrating"}, schema: Schema,
   code: {"proposed", "twilio", "echo"}]

ASSUME CodegenAssumption ==
  /\ DOMAIN Requirements = Providers
  /\ Twilio \in Providers /\ Requirements[Twilio] # {}
  /\ Sanitize \in [Names -> Names] /\ Absent \notin Names
  /\ FullName \in [Credentials -> Fields] /\ ShortName \in [Credentials -> Fields]
  /\ InternalFields \subseteq Fields /\ PublicFields \subseteq Fields
  /\ {"to", "message"} \subseteq Fields
  /\ \A c \in Requirements[Twilio] : {FullName[c], ShortName[c]} \cap {"to", "message"} = {}
  /\ ProposedTools \subseteq ProposedTool

-----------------------------------------------------------------------------
(* TrustStatus is a seeded fault that stands in for FinalStatus.           *)

\* An empty type counts as none.
RequiresCredentials(spec) == spec.auth \notin {"none", "unknown"}
IsManagedProvider(spec) == Requirements[spec.provider] # {}

CredentialFields(provider) ==
  {FullName[c] : c \in Requirements[provider]} \cup {ShortName[c] : c \in Requirements[provider]}
ManagedSecretFields(spec) == CredentialFields(spec.provider) \cup spec.authKeys

\* A field the public schema of a managed provider must not show.
HiddenFields(spec) == ManagedSecretFields(spec) \cup (InternalFields \ PublicFields)

SanitizePublicInputSchema(schema, spec) ==
  IF ~IsManagedProvider(spec) THEN schema
  ELSE LET kept == schema.fields \ HiddenFields(spec)
       IN  [fields |-> kept, required |-> schema.required \cap kept]

\* data.setdefault
Default(value, default) == IF value = Absent THEN default ELSE value
NoFields == [fields |-> {}, required |-> {}]

\* The managed tool of Twilio replaces what was proposed, its name included.
TwilioManagedTool(toolName) ==
  [name |-> toolName, status |-> "pending_credentials", code |-> "twilio",
   schema |-> [fields |-> {"to", "message"}, required |-> {"to", "message"}]]

ApplyManagedProviderPolicy(data, spec, toolName) ==
  IF spec.provider = Twilio THEN TwilioManagedTool(toolName)
  ELSE [name |-> Sanitize[Default(data.name, toolName)],
        status |-> data.status,
        schema |-> SanitizePublicInputSchema(Default(data.schema, NoFields), spec),
        code |-> IF data.code THEN "proposed" ELSE "echo"]

\* An API that asks for credentials has no live tool, whatever was proposed.
TrustStatus(status, spec) ==
  Default(status, IF RequiresCredentials(spec) THEN "pending_credentials" ELSE "live")
FinalStatus(status, spec) ==
  LET given == Default(status, IF RequiresCredentials(spec) THEN "pending_credentials"
                                                            ELSE "live")
  IN  IF RequiresCredentials(spec) /\ given = "live" THEN "pending_credentials" ELSE given

RunCodegen(spec, requested, data) ==
  LET tool == ApplyManagedProviderPolicy(data, spec, Sanitize[requested])
  IN  [tool EXCEPT !.status = FinalStatus(@, spec)]

\* GeneratedTool.model_validate raises on any other status.
Validates(tool) == tool.status \in ToolStatus
=============================================================================
