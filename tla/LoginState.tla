---------------------------- MODULE LoginState ----------------------------
(* How a user gets a session and what becomes of it: the OAuth states of   *)
(* authorizations under way (internal/auth/oauth.go), the session store    *)
(* (internal/auth/session.go) and the handlers that use them (authorize,   *)
(* callback, login, logout, and userClient of every other request).        *)
(*                                                                         *)
(* A state is a fresh random id, so it is issued at most once; a session   *)
(* is named by the request that creates it.  The authorization server is   *)
(* external: it gives a browser a code for every authorize URL it opens,   *)
(* and takes a code only with the redirect_uri that URL carried.           *)
EXTENDS Naturals, FiniteSets

CONSTANTS
  States,      \* ids that IssueRedirect draws
  Callbacks,   \* requests of handleOpenShiftCallback
  Logins,      \* requests of handleAuthLogin
  Requests,    \* requests that need a cluster client (userClient)
  Hosts,       \* callback URLs of the public hosts the portal is reached by
  EnvUri,      \* OAUTH_REDIRECT_URL
  RouteUri,    \* the callback URL that discovery makes of the Route
  NoUri,
  None, Ended,
  StateTTL,    \* 10 minutes
  SessionTTL,  \* 8 hours
  MaxTime      \* bound of the clock

ASSUME TimesAssumption ==
  StateTTL \in Nat /\ SessionTTL \in Nat /\ MaxTime \in Nat

ASSUME NamesAssumption ==
  /\ Callbacks \cap Logins = {}
  /\ None # Ended /\ None \notin States /\ NoUri \notin Hosts \cup {EnvUri, RouteUri}
  /\ {None, Ended} \cap [mode : {"kubeconfig", "bearer"}, created : Nat] = {}

VARIABLES
  now,
  settings,  \* [methods, env, secret]: what the environment gives
  pending,   \* oauthStateStore.states: [at, uri], or None
  sent,      \* history: the redirect_uri each authorize URL carried
  step,      \* where each callback is
  from,      \* the state a callback consumed
  uri,       \* cfg.RedirectURL of a callback
  store,     \* Store.sessions: [mode, created]; None before, Ended after
  cred,      \* a session's kubeconfig bytes: "whole" or "zero"
  req,       \* where each request is in userClient
  of         \* the session a request looked up

loginVars == <<now, settings, pending, sent, step, from, uri, store, cred, req, of>>
oauth == <<pending, sent, step, from, uri>>
users == <<store, cred>>

SessionIds == Callbacks \cup Logins
Uris == Hosts \cup {EnvUri, RouteUri}
Urls == {"authorize", "token", "redirect", "frontend"}
Modes == {"openshift", "kubeconfig", "bearer"}

LoginInit ==
  /\ now = 0
  /\ settings \in [methods : SUBSET Modes, env : SUBSET Urls, secret : BOOLEAN]
  /\ pending = [s \in States |-> None]
  /\ sent = [s \in States |-> NoUri]
  /\ step = [c \in Callbacks |-> "idle"]
  /\ from = [c \in Callbacks |-> None]
  /\ uri = [c \in Callbacks |-> NoUri]
  /\ store = [i \in SessionIds |-> None]
  /\ cred = [i \in SessionIds |-> "zero"]
  /\ req = [r \in Requests |-> "idle"]
  /\ of = [r \in Requests |-> None]

\* Bound: the clock stops at MaxTime.
Tick ==
  /\ now < MaxTime
  /\ now' = now + 1
  /\ UNCHANGED <<settings, oauth, users, req, of>>

---------------------------------------------------------------------------
(* Settings. *)

MethodAllowed(mode) == mode \in settings.methods

\* The environment comes first, discovery (which may fail) gives the rest.
ResolveOAuthSettings(discovered) == discovered \/ Urls \subseteq settings.env

RedirectURL == IF "redirect" \in settings.env THEN EnvUri ELSE RouteUri

\* host is the callback URL of the request's public host, NoUri for one in
\* the cluster.
CallbackRedirectURL(host) == IF host = NoUri THEN RedirectURL ELSE host

---------------------------------------------------------------------------
(* The OAuth states. *)

Expired(p) == now - p.at > StateTTL

pruneLocked ==
  [s \in States |-> IF pending[s] # None /\ Expired(pending[s])
                    THEN None ELSE pending[s]]

IssueRedirect(s, u) == pending' = [pruneLocked EXCEPT ![s] = [at |-> now, uri |-> u]]

\* mutant: the state stays until it is pruned
KeepState(s) == pending

\* ConsumeRedirect deletes what it finds, fresh or not.
TakeState(s) == [pending EXCEPT ![s] = None]

StateIsGood(s) == pending[s] # None /\ ~Expired(pending[s])

Authorize(s, host, discovered) ==
  /\ MethodAllowed("openshift") /\ ResolveOAuthSettings(discovered)
  /\ sent[s] = NoUri
  /\ IssueRedirect(s, CallbackRedirectURL(host))
  /\ sent' = [sent EXCEPT ![s] = CallbackRedirectURL(host)]
  /\ UNCHANGED <<now, settings, step, from, uri, users, req, of>>

\* mutant: the redirect_uri is that of the host the callback came by
OwnUri(s, host) == CallbackRedirectURL(host)

StoredUri(s, host) == pending[s].uri

RefuseCallback(c) == step' = [step EXCEPT ![c] = "refused"]

\* A browser comes back with an authorization it was given, as often as it
\* likes and by any host; the secret is looked at when the state is gone.
Callback(c, s, host, discovered) ==
  /\ step[c] = "idle" /\ sent[s] # NoUri
  /\ MethodAllowed("openshift")
  /\ \/ /\ ~ResolveOAuthSettings(discovered)
        /\ RefuseCallback(c)
        /\ UNCHANGED <<pending, from, uri>>
     \/ /\ ResolveOAuthSettings(discovered)
        /\ pending' = TakeState(s)
        /\ \/ ~StateIsGood(s) /\ RefuseCallback(c) /\ UNCHANGED <<from, uri>>
           \/ /\ StateIsGood(s)
              /\ from' = [from EXCEPT ![c] = s]
              /\ uri' = [uri EXCEPT ![c] = StoredUri(s, host)]
              /\ step' = [step EXCEPT ![c] = IF settings.secret THEN "exchange" ELSE "refused"]
  /\ UNCHANGED <<now, settings, sent, users, req, of>>

\* The provider refuses a code presented with another redirect_uri.
ProviderAccepts(c) == uri[c] = sent[from[c]]

ExchangeCodeForToken(c) ==
  /\ step[c] = "exchange"
  /\ \/ ProviderAccepts(c) /\ step' = [step EXCEPT ![c] = "review"]
     \/ RefuseCallback(c)
  /\ UNCHANGED <<now, settings, pending, sent, from, uri, users, req, of>>

CreateBearer(i) ==
  /\ store' = [store EXCEPT ![i] = [mode |-> "bearer", created |-> now]]
  /\ UNCHANGED cred

\* The API server reviews the token before a session is made of it.
ReviewToken(c) ==
  /\ step[c] = "review"
  /\ \/ CreateBearer(c) /\ step' = [step EXCEPT ![c] = "done"]
     \/ RefuseCallback(c) /\ UNCHANGED users
  /\ UNCHANGED <<now, settings, pending, sent, from, uri, req, of>>

---------------------------------------------------------------------------
(* The sessions. *)

Holds(i) == store[i] \notin {None, Ended}

\* mutant: the session keeps the caller's slice, which the caller wipes
KubeconfigShared == "zero"

\* CreateKubeconfig copies; handleAuthLogin then wipes its own slice.
KubeconfigCopy == "whole"

CreateKubeconfig(i) ==
  /\ store' = [store EXCEPT ![i] = [mode |-> "kubeconfig", created |-> now]]
  /\ cred' = [cred EXCEPT ![i] = KubeconfigCopy]

\* The credentials that the API server refuses make no session.
AuthLogin(l, mode) ==
  /\ store[l] = None
  /\ MethodAllowed(mode)
  /\ \/ mode = "kubeconfig" /\ CreateKubeconfig(l)
     \/ mode = "bearer" /\ CreateBearer(l)
  /\ UNCHANGED <<now, settings, oauth, req, of>>

\* The slice is shared with whoever looked the session up; a bearer is a
\* string, and what is wiped is a copy of it.
WipeKubeconfig(i) == cred' = [cred EXCEPT ![i] = "zero"]

\* mutant: the bytes are wiped, the session stays in the map
WipedButKept(i) == UNCHANGED store /\ WipeKubeconfig(i)

wipeLocked(i) == store' = [store EXCEPT ![i] = Ended] /\ WipeKubeconfig(i)

AuthLogout(i) ==
  /\ Holds(i)
  /\ wipeLocked(i)
  /\ UNCHANGED <<now, settings, oauth, req, of>>

\* userClient, under the store's lock: expiry is found out here.
GetSession(r, i) ==
  /\ req[r] = "idle"
  /\ \/ /\ Holds(i) /\ now - store[i].created <= SessionTTL
        /\ req' = [req EXCEPT ![r] = store[i].mode]
        /\ of' = [of EXCEPT ![r] = i]
        /\ UNCHANGED users
     \/ /\ Holds(i) /\ now - store[i].created > SessionTTL
        /\ wipeLocked(i)
        /\ req' = [req EXCEPT ![r] = "refused"]
        /\ UNCHANGED of
     \/ /\ ~Holds(i)
        /\ req' = [req EXCEPT ![r] = "refused"]
        /\ UNCHANGED <<of, users>>
  /\ UNCHANGED <<now, settings, oauth>>

\* userClient, without the lock: zeroed bytes are no kubeconfig.
BuildClient(r) ==
  /\ req[r] \in {"kubeconfig", "bearer"}
  /\ req' = [req EXCEPT ![r] =
       IF req[r] = "bearer" \/ cred[of[r]] = "whole" THEN "client" ELSE "refused"]
  /\ UNCHANGED <<now, settings, oauth, users, of>>

---------------------------------------------------------------------------
LoginNext ==
  \/ Tick
  \/ \E s \in States, host \in Hosts \cup {NoUri}, d \in BOOLEAN :
       \/ Authorize(s, host, d)
       \/ \E c \in Callbacks : Callback(c, s, host, d)
  \/ \E c \in Callbacks : ExchangeCodeForToken(c) \/ ReviewToken(c)
  \/ \E l \in Logins, mode \in {"kubeconfig", "bearer"} : AuthLogin(l, mode)
  \/ \E i \in SessionIds : AuthLogout(i) \/ \E r \in Requests : GetSession(r, i)
  \/ \E r \in Requests : BuildClient(r)

LoginSpec == LoginInit /\ [][LoginNext]_loginVars

---------------------------------------------------------------------------
Pending == [at : 0..MaxTime, uri : Uris]
Session == [mode : {"kubeconfig", "bearer"}, created : 0..MaxTime]

\* The types of the two stores and of the requests that use them.
LoginTypeOK ==
  /\ now \in 0..MaxTime
  /\ settings \in [methods : SUBSET Modes, env : SUBSET Urls, secret : BOOLEAN]
  /\ pending \in [States -> Pending \cup {None}]
  /\ sent \in [States -> Uris \cup {NoUri}]
  /\ step \in [Callbacks -> {"idle", "exchange", "review", "done", "refused"}]
  /\ from \in [Callbacks -> States \cup {None}]
  /\ uri \in [Callbacks -> Uris \cup {NoUri}]
  /\ store \in [SessionIds -> Session \cup {None, Ended}]
  /\ cred \in [SessionIds -> {"whole", "zero"}]
  /\ req \in [Requests -> {"idle", "kubeconfig", "bearer", "client", "refused"}]
  /\ of \in [Requests -> SessionIds \cup {None}]

\* However many callbacks come back with one state, and however they
\* overlap, one of them gets past ConsumeRedirect: a state makes at most one
\* session (auth/oauth.go:102).
OneSessionPerState ==
  \A c, d \in Callbacks : c # d /\ from[c] # None => from[c] # from[d]

\* The token request of a callback names the redirect_uri its authorize URL
\* carried, by whatever host the two were reached and whatever was authorized
\* in between (portal/auth_oauth_handlers.go:141).
ExchangeMatchesAuthorize ==
  \A c \in Callbacks : step[c] = "exchange" => ProviderAccepts(c)

\* What browsers abandon does not pile up: no state waits that was already
\* expired at a later authorize (auth/oauth.go:74).
AbandonedStatesArePruned ==
  \A s, t \in States :
    pending[s] # None /\ pending[t] # None => pending[t].at - pending[s].at <= StateTTL

StateInv == LoginTypeOK /\ OneSessionPerState /\ AbandonedStatesArePruned

\* A session's kubeconfig is whole for as long as the store holds the session
\* and zeroed for everyone, requests under way included, once it does not
\* (auth/session.go:95, portal/handlers.go:166).
KubeconfigLivesWithSession ==
  \A i \in SessionIds :
    cred[i] = "whole" <=> Holds(i) /\ store[i].mode = "kubeconfig"

\* A request that found its session is refused a client only when a logout or
\* an expiry has ended that session since: what userClient holds without the
\* store's lock is never wiped by a login, or under a session that still
\* stands (portal/handlers.go:89).
RefusedMeansEnded ==
  \A r \in Requests : req[r] = "refused" /\ of[r] # None => store[of[r]] = Ended
===========================================================================
