--------------------------- MODULE ManagedAccess ---------------------------
(***************************************************************************)
(* What VS Code keeps for the managed service, and what the service keeps of *)
(* it: managed.py, mcp_oauth.py, the attachment of projects in api.py.       *)
(*                                                                         *)
(* The service holds no secret of its own.  For every HydraDB call a thread  *)
(* asks VS Code for the credentials bound to its project, and remembers for  *)
(* a moment whether there are any.  The OAuth provider of the MCP server     *)
(* keeps authorization codes and token pairs in VS Code's SecretStorage, one *)
(* request per record.  Its methods never suspend, so the event loop runs    *)
(* one at a time; every request goes over one pipe under one lock, may fail  *)
(* before or after it took effect, and the service may die between any two.  *)
(*                                                                         *)
(* A client presents what it was given, as often as it likes.               *)
(***************************************************************************)
EXTENDS Naturals, Sequences, FiniteSets

CONSTANTS Projects,
          Default,         \* the project the service was started for
          Callers,         \* threads that call HydraDB
          CodeSeconds, AccessSeconds, RefreshSeconds,  \* lifetimes of the records
          CacheSeconds,    \* CONFIGURED_CACHE_SECONDS
          MaxCodes, MaxPairs,  \* codes and token pairs issued (bounds)
          MaxTime,         \* (bound)
          MaxEdits,        \* changes of a project's binding (bound)
          MaxFailures,     \* failing requests (bound)
          MaxDeaths        \* deaths of the service (bound)

ASSUME DefaultAssumption == Default \in Projects
ASSUME SecondsAssumption ==
  /\ CodeSeconds \in Nat /\ AccessSeconds \in Nat
  /\ RefreshSeconds \in Nat /\ CacheSeconds \in Nat \ {0}

(* Keys of SecretStorage: codes by number, tokens by the number of their pair. *)
Kinds == {"code", "access", "refresh"}
Keys == Kinds \X (Nat \ {0})
NoKey == <<"code", 0>>

(* refresh_key of a StoredAccessToken, access_key of a StoredRefreshToken.     *)
Other(k) == IF k[1] = "access" THEN <<"refresh", k[2]>> ELSE <<"access", k[2]>>
Both(k) == IF k[1] = "code" THEN {k} ELSE {k, Other(k)}

(* The provider method under way, the key it is about, and why.               *)
Quiet == [at |-> "idle", key |-> NoKey, purpose |-> "use", offered |-> {}]
Methods == [at : {"idle", "consent", "code", "load", "other", "own", "issue", "access", "refresh"},
            key : Keys \cup {NoKey},
            purpose : {"use", "exchange", "revoke", "expired"},
            offered : SUBSET Projects]

(* A thread in configured() or acquire(): asked is the time it began.          *)
Unasked == [at |-> "idle", project |-> Default, asked |-> 0, answer |-> FALSE]
Calls == [at : {"idle", "status", "answered", "lease", "refused"},
          project : Projects, asked : Nat, answer : BOOLEAN]
NoEntry == [until |-> 0, answer |-> FALSE]

VARIABLES secrets,     \* SecretStorage: keys under which a record is stored
          codes,       \* contents of the records: of every code made
          pairs,       \* and of every token pair
          granted,     \* keys that reached a client
          spent,       \* history: exchanged, revoked or found expired, with the other of the pair
          provider,    \* the OAuth provider
          registered,  \* projects the service knows
          bound,       \* projects with a binding in VS Code
          changed,     \* history: when that last changed
          configured,  \* ManagedCredentialProvider._configured
          caller,
          clock, edits, failures, deaths

oauth == <<secrets, codes, pairs, granted, spent, provider>>
credentials == <<bound, changed, configured, caller, edits>>
accessVars == <<oauth, credentials, registered, clock, failures, deaths>>

AccessTypeOK ==
  /\ secrets \subseteq Keys /\ granted \subseteq Keys /\ spent \subseteq Keys
  /\ codes \in Seq([project : Projects, expires : Nat])
  /\ pairs \in Seq([from : Keys, grant : Nat \ {0}, project : Projects, issued : Nat])
  /\ provider \in Methods
  /\ registered \subseteq Projects /\ bound \subseteq Projects
  /\ changed \in [Projects -> Nat]
  /\ configured \in [Projects -> [until : Nat, answer : BOOLEAN]]
  /\ caller \in [Callers -> Calls]
  /\ clock \in Nat /\ edits \in Nat /\ failures \in Nat /\ deaths \in Nat

AccessInit ==
  /\ secrets = {} /\ codes = <<>> /\ pairs = <<>> /\ granted = {} /\ spent = {}
  /\ provider = Quiet /\ registered = {Default}
  /\ bound \in SUBSET Projects /\ changed = [p \in Projects |-> 0]
  /\ configured = [p \in Projects |-> NoEntry]
  /\ caller = [t \in Callers |-> Unasked]
  /\ clock = 0 /\ edits = 0 /\ failures = 0 /\ deaths = 0

Fails == failures < MaxFailures /\ failures' = failures + 1

-----------------------------------------------------------------------------
(* Projects and time.                                                       *)

(* attach_project: a window attaches, its project may be asked consent for.    *)
AttachProject(p) ==
  /\ registered' = registered \cup {p}
  /\ UNCHANGED <<oauth, credentials, clock, failures, deaths>>

Tick ==
  /\ clock < MaxTime /\ clock' = clock + 1
  /\ UNCHANGED <<oauth, credentials, registered, failures, deaths>>

(* bindProject and removeProjectBinding.                                     *)
Edit(p) ==
  /\ edits < MaxEdits /\ edits' = edits + 1
  /\ bound' = IF p \in bound THEN bound \ {p} ELSE bound \cup {p}
  /\ changed' = [changed EXCEPT ![p] = clock]
  /\ UNCHANGED <<oauth, configured, caller, registered, clock, failures, deaths>>

-----------------------------------------------------------------------------
(* Credentials.  No request gets on the line while a consent dialog is open.   *)
LineFree == provider.at # "consent"

Now(t, c) == caller' = [caller EXCEPT ![t] = c]
Begins(t, at, p) == Now(t, [at |-> at, project |-> p, asked |-> clock, answer |-> FALSE])

(* configured: a remembered answer that has not run out needs no request.      *)
Configured(t, p) ==
  /\ caller[t].at = "idle" /\ p \in registered
  /\ configured[p].until <= clock
  /\ Begins(t, "status", p)
  /\ UNCHANGED <<oauth, bound, changed, configured, edits, registered, clock, failures, deaths>>

StatusAnswer(t) ==
  /\ caller[t].at = "status" /\ LineFree
  /\ \/ /\ Now(t, [caller[t] EXCEPT !.at = "answered", !.answer = caller[t].project \in bound])
        /\ UNCHANGED failures
     \/ Fails /\ Now(t, [caller[t] EXCEPT !.at = "refused"])
  /\ UNCHANGED <<oauth, bound, changed, configured, edits, registered, clock, deaths>>

(* The answer is kept under another lock, two seconds from when it was asked.  *)
(* Mutation: from when it is stored.                                        *)
UntilStored(t) == clock + CacheSeconds

Until(t) == caller[t].asked + CacheSeconds
Remember(t) ==
  /\ caller[t].at = "answered"
  /\ configured' = [configured EXCEPT ![caller[t].project] =
                      [until |-> Until(t), answer |-> caller[t].answer]]
  /\ Now(t, Unasked)
  /\ UNCHANGED <<oauth, bound, changed, edits, registered, clock, failures, deaths>>

(* acquire: the credentials of one HydraDB call.                             *)
Lease(t, p) ==
  /\ caller[t].at = "idle" /\ p \in registered
  /\ Begins(t, "lease", p)
  /\ UNCHANGED <<oauth, bound, changed, configured, edits, registered, clock, failures, deaths>>

LeaseAnswer(t) ==
  /\ caller[t].at = "lease" /\ LineFree
  /\ \/ caller[t].project \in bound /\ Now(t, Unasked) /\ UNCHANGED failures
     \/ /\ (caller[t].project \notin bound /\ UNCHANGED failures) \/ Fails
        /\ Now(t, [caller[t] EXCEPT !.at = "refused"])
  /\ UNCHANGED <<oauth, bound, changed, configured, edits, registered, clock, deaths>>

Forget(t) ==
  /\ caller[t].at = "refused"
  /\ configured' = [configured EXCEPT ![caller[t].project] = NoEntry]
  /\ Now(t, Unasked)
  /\ UNCHANGED <<oauth, bound, changed, edits, registered, clock, failures, deaths>>

-----------------------------------------------------------------------------
(* OAuth.                                                                   *)
Expires(k) ==
  CASE k[1] = "code" -> codes[k[2]].expires
    [] k[1] = "access" -> pairs[k[2]].issued + AccessSeconds
    [] k[1] = "refresh" -> pairs[k[2]].issued + RefreshSeconds

(* The code a token goes back to, and the project consented to then.           *)
GrantOf(k) == IF k[1] = "code" THEN k[2] ELSE pairs[k[2]].grant
ProjectOf(k) == IF k[1] = "code" THEN codes[k[2]].project ELSE pairs[k[2]].project

Does(at) == provider' = [provider EXCEPT !.at = at]
Elsewhere == UNCHANGED <<credentials, registered, clock, deaths>>

Authorize ==
  /\ provider.at = "idle" /\ Len(codes) < MaxCodes
  /\ provider' = [Quiet EXCEPT !.at = "consent", !.offered = registered]
  /\ UNCHANGED <<secrets, codes, pairs, granted, spent, failures>> /\ Elsewhere

(* The user picks a project and allows it, or refuses, or lets the time pass.   *)
Consent ==
  /\ provider.at = "consent"
  /\ \/ \E p \in provider.offered \cap registered :
          /\ codes' = Append(codes, [project |-> p, expires |-> clock + CodeSeconds])
          /\ provider' = [Quiet EXCEPT !.at = "code", !.key = <<"code", Len(codes) + 1>>]
     \/ provider' = Quiet /\ UNCHANGED codes
  /\ UNCHANGED <<secrets, pairs, granted, spent, failures>> /\ Elsewhere

(* A code or token presented to /token, /revoke or /mcp.  A client that was     *)
(* answered nothing may present the same again.                             *)
Purposes(k) ==
  CASE k[1] = "code" -> {"exchange"}
    [] k[1] = "access" -> {"use", "revoke"}
    [] k[1] = "refresh" -> {"exchange", "revoke"}

Present(k, purpose) ==
  /\ provider.at = "idle" /\ k \in granted
  /\ purpose = "exchange" => Len(pairs) < MaxPairs
  /\ provider' = [Quiet EXCEPT !.at = "load", !.key = k, !.purpose = purpose]
  /\ UNCHANGED <<secrets, codes, pairs, granted, spent, failures>> /\ Elsewhere

(* revoke_token removes the other token of the pair first.                     *)
(* Mutation: it removes the presented token only.                            *)
DeletePresented(purpose) ==
  /\ provider' = [provider EXCEPT !.purpose = purpose, !.at = "own"]
  /\ spent' = spent \cup Both(provider.key)

Delete(purpose) ==
  /\ provider' = [provider EXCEPT !.purpose = purpose,
                                  !.at = IF provider.key[1] = "code" THEN "own" ELSE "other"]
  /\ spent' = spent \cup Both(provider.key)

Leave == provider' = Quiet /\ UNCHANGED spent

(* An access token of a project the service does not know is not found, and     *)
(* then not revoked.                                                        *)
Revocable(k) == k[1] = "access" => ProjectOf(k) \in registered

(* load_authorization_code, load_refresh_token, load_access_token: what has      *)
(* expired is removed, with the other token of its pair.  A refresh that asks   *)
(* for more scopes is refused.                                              *)
Load ==
  /\ provider.at = "load"
  /\ \/ provider.key \notin secrets /\ Leave
     \/ provider.key \in secrets /\ Expires(provider.key) <= clock /\ Delete("expired")
     \/ /\ provider.key \in secrets /\ Expires(provider.key) > clock
        /\ \/ provider.purpose = "exchange" /\ Delete("exchange")
           \/ provider.key[1] = "refresh" /\ provider.purpose = "exchange" /\ Leave
           \/ provider.purpose = "revoke" /\ Revocable(provider.key) /\ Delete("revoke")
           \/ provider.purpose = "revoke" /\ ~ Revocable(provider.key) /\ Leave
           \/ provider.purpose = "use" /\ Leave
  /\ UNCHANGED <<secrets, codes, pairs, granted, failures>> /\ Elsewhere

(* The keys a request would write or remove.                                  *)
Removes == CASE provider.at = "other" -> {Other(provider.key)}
             [] provider.at = "own" -> {provider.key}
             [] OTHER -> {}
Writes == CASE provider.at = "code" -> {provider.key}
            [] provider.at = "access" -> {<<"access", Len(pairs)>>}
            [] provider.at = "refresh" -> {<<"refresh", Len(pairs)>>}
            [] OTHER -> {}
Effect == secrets' = (secrets \ Removes) \cup Writes

RemoveRecords ==
  /\ \/ provider.at = "other" /\ Does("own")
     \/ provider.at = "own" /\ provider.purpose = "exchange" /\ Does("issue")
     \/ provider.at = "own" /\ provider.purpose # "exchange" /\ provider' = Quiet
  /\ Effect
  /\ UNCHANGED <<codes, pairs, granted, spent, failures>> /\ Elsewhere

(* _issue_tokens, for a project the service still knows.                       *)
Issue ==
  /\ provider.at = "issue"
  /\ IF ProjectOf(provider.key) \in registered
     THEN /\ pairs' = Append(pairs, [from |-> provider.key, grant |-> GrantOf(provider.key),
                                     project |-> ProjectOf(provider.key), issued |-> clock])
          /\ Does("access")
     ELSE provider' = Quiet /\ UNCHANGED pairs
  /\ UNCHANGED <<secrets, codes, granted, spent, failures>> /\ Elsewhere

(* The last record is stored and the answer sent; it may not arrive.            *)
Answered(keys) == provider' = Quiet /\ granted' \in {granted, granted \cup keys}

(* Mutation: the client is answered before the refresh token is stored.        *)
WriteRecordsLate ==
  /\ \/ provider.at = "code" /\ Answered({provider.key})
     \/ provider.at = "access" /\ Does("refresh")
        /\ granted' = granted \cup {<<"access", Len(pairs)>>, <<"refresh", Len(pairs)>>}
     \/ provider.at = "refresh" /\ provider' = Quiet /\ UNCHANGED granted
  /\ Effect
  /\ UNCHANGED <<codes, pairs, spent, failures>> /\ Elsewhere

WriteRecords ==
  /\ \/ provider.at = "code" /\ Answered({provider.key})
     \/ provider.at = "access" /\ Does("refresh") /\ UNCHANGED granted
     \/ provider.at = "refresh" /\ Answered({<<"access", Len(pairs)>>, <<"refresh", Len(pairs)>>})
  /\ Effect
  /\ UNCHANGED <<codes, pairs, spent, failures>> /\ Elsewhere

(* A request fails, with or without its effect, and the method with it.         *)
RequestFails ==
  /\ provider.at \notin {"idle", "issue"}
  /\ Fails
  /\ Effect \/ UNCHANGED secrets
  /\ provider' = Quiet
  /\ UNCHANGED <<codes, pairs, granted, spent>> /\ Elsewhere

(* The service dies and is started again; a request on the line may still be    *)
(* served.                                                                  *)
ServiceDies ==
  /\ deaths < MaxDeaths /\ deaths' = deaths + 1
  /\ Effect \/ UNCHANGED secrets
  /\ provider' = Quiet /\ registered' = {Default}
  /\ configured' = [p \in Projects |-> NoEntry]
  /\ caller' = [t \in Callers |-> Unasked]
  /\ UNCHANGED <<codes, pairs, granted, spent, bound, changed, edits, clock, failures>>

-----------------------------------------------------------------------------
AccessNext ==
  \/ \E p \in Projects : AttachProject(p) \/ Edit(p)
  \/ \E t \in Callers : \/ \E p \in Projects : Configured(t, p) \/ Lease(t, p)
                        \/ StatusAnswer(t) \/ Remember(t) \/ LeaseAnswer(t) \/ Forget(t)
  \/ Authorize \/ Consent \/ Load \/ RemoveRecords \/ Issue \/ WriteRecords
  \/ \E k \in granted : \E purpose \in Purposes(k) : Present(k, purpose)
  \/ Tick \/ RequestFails \/ ServiceDies

AccessSpec == AccessInit /\ [][AccessNext]_accessVars

-----------------------------------------------------------------------------
(* Rotation: of one consent only one thing lives on in SecretStorage, the code  *)
(* or the last token pair, whichever requests failed or were repeated and       *)
(* wherever the service died.                                               *)
Stored(n) == <<"access", n>> \in secrets \/ <<"refresh", n>> \in secrets
OneGeneration ==
  \A m \in DOMAIN pairs :
    Stored(m) => /\ <<"code", pairs[m].grant>> \notin secrets
                 /\ \A n \in DOMAIN pairs :
                      Stored(n) /\ pairs[n].grant = pairs[m].grant => n = m

(* A code or refresh token is exchanged for one pair at most, even if the        *)
(* answer was lost and it is presented again.                                 *)
ExchangedOnce ==
  \A m, n \in DOMAIN pairs : pairs[m].from = pairs[n].from => m = n

(* managed.py: "a short cache removes the repeated round trips without letting  *)
(* a removed binding look configured for longer than a moment": an answer used  *)
(* more than CacheSeconds after the last change of the binding is right,        *)
(* however long the request had waited for the line.                          *)
ConfiguredIsRecent ==
  \A p \in Projects :
    configured[p].until > changed[p] + CacheSeconds => (configured[p].answer <=> p \in bound)

(* A code or token that reached its client is stored until it, or the other     *)
(* token of its pair, is exchanged, revoked or found expired, whichever other    *)
(* requests fail and whenever the service dies.                              *)
GrantedIsKept == granted \ spent \subseteq secrets
=============================================================================
