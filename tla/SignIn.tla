------------------------------- MODULE SignIn -------------------------------
(***************************************************************************)
(* Signing in with an OIDC provider, under settings that change meanwhile: *)
(* the flows, the session cookies of the browsers, the rows that keep the  *)
(* refresh tokens, and the worker that cleans these up.                    *)
(*                                                                         *)
(* All of a session is in its cookie.  A request works on the cookie the   *)
(* browser sent with it; the answer's cookie replaces the browser's, which *)
(* another tab may have changed meanwhile.                                 *)
(***************************************************************************)
EXTENDS TenantConfig

CONSTANTS
  Browsers,
  Flows       \* state tokens; every start draws a new one

ASSUME SignInConstants == None \notin Flows \union Browsers

VARIABLES
  cookie,     \* per browser: [state, user]; user is the flow that signed in
  flow,       \* per flow: the provider it was started with and the browser
  visit,      \* per browser: its request in progress
  sessions,   \* oauth_sessions: per flow "none", "new" or "aged" (37 days)
  overlap     \* (history) per browser: the last logout came during a visit

signInVars == <<cookie, flow, visit, sessions, overlap>>
vars == <<configVars, signInVars>>

-----------------------------------------------------------------------------
NoCookie == [state |-> None, user |-> None]
NoVisit == [pc |-> "idle", flow |-> None, sent |-> NoCookie, provider |-> None]

Cookie == [state : Flows \union {None}, user : Flows \union {None}]

Flow == [by : Browsers \union {None}, provider : Providers \union {None}, left : BOOLEAN]
Visit == [pc : {"idle", "start", "exchange"}, flow : Flows \union {None}, sent : Cookie, provider : Providers \union {None}]

SignInTypeOK ==
  /\ TypeOK
  /\ cookie \in [Browsers -> Cookie]
  /\ flow \in [Flows -> Flow]
  /\ visit \in [Browsers -> Visit]
  /\ sessions \in [Flows -> {"none", "new", "aged"}]
  /\ overlap \in [Browsers -> BOOLEAN]

(* flow.left is history: the browser has logged out since the start. *)
SignInInit ==
  /\ Init
  /\ cookie = [b \in Browsers |-> NoCookie]
  /\ flow = [f \in Flows |-> [by |-> None, provider |-> None, left |-> FALSE]]
  /\ visit = [b \in Browsers |-> NoVisit]
  /\ sessions = [f \in Flows |-> "none"]
  /\ overlap = [b \in Browsers |-> FALSE]

(* IsOIDCEnabled, from the settings in memory. *)
OIDCEnabled == cache.oidc # None /\ cache.secret # None

(* getOAuthConfig: built anew when the settings differ from the last ones. *)
OAuthConfig == cache.oidc

(* A browser's request; the settings are not changed by it. *)
Request == req[Main].pc = "idle" /\ ops < MaxOps /\ ops' = ops + 1
SettingsStay == UNCHANGED <<stored, seeded, cache, req, clean>>

Answer(b, c) ==
  /\ cookie' = [cookie EXCEPT ![b] = c]
  /\ visit' = [visit EXCEPT ![b] = NoVisit]

(* StartOIDC: a fresh state, and the provider of this moment. *)
StartOIDC(b) ==
  /\ Request /\ OIDCEnabled /\ visit[b].pc = "idle"
  /\ \E f \in Flows :
       /\ flow[f].by = None
       /\ flow' = [flow EXCEPT ![f].by = b, ![f].provider = OAuthConfig]
       /\ visit' = [visit EXCEPT ![b] = [NoVisit EXCEPT !.pc = "start", !.flow = f, !.sent = cookie[b]]]
  /\ SettingsStay /\ UNCHANGED <<cookie, sessions, overlap>>

(* The state goes into the answer's cookie, next to what was sent. *)
Redirect(b) ==
  /\ visit[b].pc = "start"
  /\ Answer(b, [visit[b].sent EXCEPT !.state = visit[b].flow])
  /\ UNCHANGED configVars /\ UNCHANGED <<flow, sessions, overlap>>

(* Mutant: the state of the request is not compared with the cookie's. *)
AnyState(sent, f) == sent.state # None

(* VerifyOIDCState. *)
VerifyState(sent, f) == sent.state # None /\ sent.state = f

(* A browser comes to the callback with a state, perhaps of another        *)
(* browser's flow.  The OAuth configuration is that of this moment.        *)
Callback(b) ==
  /\ Request /\ OIDCEnabled /\ visit[b].pc = "idle"
  /\ \E f \in Flows :
       /\ flow[f].by # None /\ VerifyState(cookie[b], f)
       /\ visit' = [visit EXCEPT ![b] = [pc |-> "exchange", flow |-> f, sent |-> cookie[b], provider |-> OAuthConfig]]
  /\ SettingsStay /\ UNCHANGED <<cookie, flow, sessions, overlap>>

(* The provider that issued the code must be the one it is exchanged with, *)
(* and where the user is asked for is read from the settings once more.    *)
Accepted(b) == {visit[b].provider, OAuthConfig} = {flow[visit[b].flow].provider}

(* HandleOIDCCallback fails: the cookie without the state was sent. *)
Reject(b) ==
  /\ visit[b].pc = "exchange"
  /\ Answer(b, [visit[b].sent EXCEPT !.state = None])
  /\ UNCHANGED configVars /\ UNCHANGED <<flow, sessions, overlap>>

(* A refresh token, if the provider gave one, has its row unless the       *)
(* transaction is lost after the answer.                                   *)
StoreRefreshToken(f) == {sessions, [sessions EXCEPT ![f] = "new"]}

(* SetUser decodes the request's cookie anew: the state taken from it      *)
(* before is in the answer again.                                          *)
SignedIn(b) ==
  LET f == visit[b].flow IN
  /\ visit[b].pc = "exchange" /\ Accepted(b)
  /\ Answer(b, [visit[b].sent EXCEPT !.user = f])
  /\ sessions' \in StoreRefreshToken(f)
  /\ UNCHANGED configVars /\ UNCHANGED <<flow, overlap>>

(* Logout clears the session and expires the cookie; the row stays. *)
Logout(b) ==
  /\ Request /\ cookie[b] # NoCookie
  /\ cookie' = [cookie EXCEPT ![b] = NoCookie]
  /\ flow' = [f \in Flows |-> [flow[f] EXCEPT !.left = @ \/ flow[f].by = b]]
  /\ overlap' = [overlap EXCEPT ![b] = visit[b].pc # "idle"]
  /\ SettingsStay /\ UNCHANGED <<visit, sessions>>

(* The cookie's thirty days are over. *)
Expire(b) ==
  /\ cookie[b] # NoCookie
  /\ cookie' = [cookie EXCEPT ![b] = NoCookie]
  /\ UNCHANGED configVars /\ UNCHANGED <<flow, visit, sessions, overlap>>

(* Nothing touches the row after its creation... *)
Age(f) ==
  /\ sessions[f] = "new"
  /\ sessions' = [sessions EXCEPT ![f] = "aged"]
  /\ UNCHANGED configVars /\ UNCHANGED <<cookie, flow, visit, overlap>>

(* ... until performCleanup, at start and every day. *)
Cleanup ==
  /\ req[Main].pc = "idle" /\ \E f \in Flows : sessions[f] = "aged"
  /\ sessions' = [f \in Flows |-> IF sessions[f] = "aged" THEN "none" ELSE sessions[f]]
  /\ UNCHANGED configVars /\ UNCHANGED <<cookie, flow, visit, overlap>>

(* The browsers keep their cookies; their requests are lost. *)
RestartServer ==
  /\ Restart
  /\ visit' = [b \in Browsers |-> NoVisit]
  /\ UNCHANGED <<cookie, flow, sessions, overlap>>

Next ==
  \/ ConfigStep /\ UNCHANGED signInVars
  \/ RestartServer \/ Cleanup
  \/ \E b \in Browsers :
       StartOIDC(b) \/ Redirect(b) \/ Callback(b) \/ Reject(b) \/ SignedIn(b) \/ Logout(b) \/ Expire(b)
  \/ \E f \in Flows : Age(f)

Spec == SignInInit /\ [][Next]_vars
-----------------------------------------------------------------------------
(* VerifyOIDCState and Logout: who is signed in at a browser got there by  *)
(* a flow that this browser started itself, and started after it was last  *)
(* logged out, unless another of its requests was in progress then, whose  *)
(* answer brought the old cookie back.                                     *)
SignedInByOwnFlow ==
  \A b \in Browsers, f \in Flows :
    cookie[b].user = f => flow[f].by = b /\ (flow[f].left => overlap[b])
=============================================================================
