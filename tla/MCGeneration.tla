---------------------------- MODULE MCGeneration ----------------------------
(* An instance of Generation: a documentation site of four pages and one on  *)
(* another host, in which one address redirects or one answers with something *)
(* other than HTML; two managed providers and one that is not managed.        *)
EXTENDS Generation

MCHost == [home |-> "docs", guide |-> "docs", auth |-> "docs", errors |-> "docs", partner |-> "other"]
MCRank == [home |-> 1, guide |-> 2, errors |-> 3, auth |-> 4, partner |-> 5]

Html(u) == [url |-> u, declared |-> "html", suffix |-> "none", body |-> "html",
            openapi |-> FALSE, parses |-> TRUE]
OddKinds(r) ==
  {[r EXCEPT !.declared = "json", !.parses = FALSE],
   [r EXCEPT !.declared = "none", !.suffix = "yaml"],
   [r EXCEPT !.declared = "other"]}
MCSites ==
  {[answer |-> [u \in Urls |-> IF u = moved THEN Html(to) ELSE Html(u)],
    anchors |-> [u \in Urls |-> found]] : moved, to \in Urls, found \in [1..4 -> Urls]}
  \cup UNION {{[answer |-> [[u \in Urls |-> Html(u)] EXCEPT ![odd] = r],
                anchors |-> [u \in Urls |-> <<"home", "auth", "guide">>]] : r \in OddKinds(Html(odd))} : odd \in Urls}

MCRequirements == [twilio |-> {"account_sid"}, slack |-> {"bot_token"}, unknown_api |-> {}]
MCSanitize == [send |-> "send", Send |-> "send"]
MCFullName == [account_sid |-> "twilioaccountsid", bot_token |-> "slackbottoken"]
MCShortName == [account_sid |-> "accountsid", bot_token |-> "bottoken"]
MCInternalFields == {"twilioaccountsid", "accountsid", "slackbottoken", "bottoken", "oauthtoken"}
MCPublicFields == {"to", "message", "email"}
MCFields == MCInternalFields \cup MCPublicFields
MCAuthKeys == {{}, {"email"}}
MCProposedTools ==
  [name: {"Send", Absent}, status: ToolStatus \cup {"integrating", Absent},
   schema: {Absent, [fields |-> {"to", "email", "bottoken"}, required |-> {"email", "bottoken"}],
            [fields |-> {"message", "oauthtoken"}, required |-> {"to", "message"}]},
   code: BOOLEAN]
=============================================================================
