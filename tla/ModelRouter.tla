----------------------------- MODULE ModelRouter -----------------------------
(***************************************************************************)
(* ModelRouter.complete and complete_json: one call of a purpose walks that*)
(* purpose's chain of providers until one of them answers.  The model named*)
(* beside each provider only distinguishes two hops of one provider and is *)
(* left out; so is the content, of which only whether personal data is     *)
(* still in it matters.  The caller consumes the outcome.                  *)
(***************************************************************************)
EXTENDS Naturals, Sequences

Providers == {"gemini", "ollama"}

\* _DEFAULT_ROUTING; "ollama" is the local provider.
Routing ==
  LET hosted == <<"gemini", "ollama", "ollama">>
      short == <<"gemini", "ollama">>
  IN [classification |-> hosted, extraction |-> hosted, drafting |-> hosted,
      routing |-> short, quality |-> <<"gemini", "gemini", "ollama">>,
      embedding |-> <<"ollama">>, reranking |-> short, default |-> short]

Purposes == DOMAIN Routing

Contents == {"original", "redacted"}

VARIABLES
  providers,  \* ModelRouter._providers
  call,       \* the call under way, or its outcome
  sent        \* history: what each provider has been sent

routerVars == <<providers, call, sent>>

NoCall == [status |-> "idle", purpose |-> "default", at |-> 1,
           request |-> "original"]

RouterTypeOK ==
  /\ providers \in SUBSET Providers
  /\ call \in [status : {"idle", "trying", "answered", "failed"},
               purpose : Purposes, at : 1..4, request : Contents]
  /\ call.at <= Len(Routing[call.purpose]) + 1
  /\ sent \subseteq [provider : Providers, content : Contents]

\* Gemini needs an API key, Ollama is always there.
RouterInit ==
  /\ providers \in {{"ollama"}, {"gemini", "ollama"}}
  /\ call = NoCall
  /\ sent = {}

\* The coroutine of a node has called the router and waits for it.
Complete(purpose) ==
  /\ call.status = "idle"
  /\ call' = [NoCall EXCEPT !.status = "trying", !.purpose = purpose]
  /\ UNCHANGED <<providers, sent>>

Chain == Routing[call.purpose]

Trying == call.status = "trying" /\ call.at <= Len(Chain)

\* Mutant: model_copy(deep=False), so that redacting writes the caller's own
\* messages.
AfterShallowCopy(request, provider) ==
  IF provider = "ollama" THEN request ELSE "redacted"

\* The caller's request after a hop: each hop works on a deep copy.
RequestAfterHop(request, provider) == request

\* What a hop sends: redacted unless the provider is the local one.
Sent(request, provider) ==
  [provider |-> provider,
   content |-> IF provider = "ollama" THEN request ELSE "redacted"]

SkipProvider ==
  /\ Trying
  /\ Chain[call.at] \notin providers
  /\ call' = [call EXCEPT !.at = call.at + 1]
  /\ UNCHANGED <<providers, sent>>

ProviderAnswers ==
  /\ Trying
  /\ Chain[call.at] \in providers
  /\ sent' = sent \cup {Sent(call.request, Chain[call.at])}
  /\ call' = [call EXCEPT !.status = "answered"]
  /\ UNCHANGED providers

ProviderFails ==
  /\ Trying
  /\ Chain[call.at] \in providers
  /\ sent' = sent \cup {Sent(call.request, Chain[call.at])}
  /\ call' = [call EXCEPT
                !.at = call.at + 1,
                !.request = RequestAfterHop(call.request, Chain[call.at])]
  /\ UNCHANGED providers

AllProvidersFailed ==
  /\ call.status = "trying" /\ call.at > Len(Chain)
  /\ call' = [call EXCEPT !.status = "failed"]
  /\ UNCHANGED <<providers, sent>>

RouterStep ==
  SkipProvider \/ ProviderAnswers \/ ProviderFails \/ AllProvidersFailed

\* The caller takes the outcome; the next call starts from its own request.
Returned ==
  /\ call.status \in {"answered", "failed"}
  /\ call' = NoCall
  /\ UNCHANGED <<providers, sent>>

-----------------------------------------------------------------------------
\* A hosted provider is only ever sent redacted text, and the local one the
\* original, also when it is reached because the hosted one failed: what one
\* hop redacts never shows in the next.
OnlyHostedCallsAreRedacted ==
  \A s \in sent : s.content = "redacted" <=> s.provider # "ollama"
=============================================================================
