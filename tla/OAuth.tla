---------------------------------- MODULE OAuth ----------------------------------
(***************************************************************************)
(* The authorization server for AI tools: a visit to the consent page, the *)
(* code it yields, the connection (grant) the code opens, and the pairs of *)
(* access and refresh tokens handed out for it.                            *)
(*                                                                         *)
(* A read is a step of its own and a transaction is one step, with two     *)
(* exceptions that let transactions overlap.  An exchange holds its code's *)
(* row while it looks for the connection.  A revocation holds the grant's  *)
(* row while it revokes the tokens its statement saw when it started: a    *)
(* pair inserted by a refresh that commits meanwhile escapes it.           *)
(*                                                                         *)
(* Time passes in flags: a deadline is over or it is not.  Redirect URIs,  *)
(* PKCE and client secrets, which a request either satisfies or not, are   *)
(* not modelled: a request that does not satisfy them changes nothing.     *)
(***************************************************************************)
EXTENDS Naturals, FiniteSets

CONSTANTS
  Users, Clients, NoUser, NoClient,
  Visits,   \* identities of oauth_auth_requests
  Grants,   \* identities of oauth_grants
  Pairs,    \* identities of pairs of oauth_tokens
  NoVisit, NoGrant, NoPair,
  Calls     \* slots for calls being served

ASSUME OAuthAssumption ==
  /\ NoUser \notin Users /\ NoClient \notin Clients
  /\ NoVisit \notin Visits /\ NoGrant \notin Grants /\ NoPair \notin Pairs

VARIABLES
  clients, \* oauth_clients: the tools registered
  visit,  \* oauth_auth_requests
  grant,  \* oauth_grants
  pair,   \* oauth_tokens, an access and a refresh token together
  call    \* the calls being served

vars == <<clients, visit, grant, pair, call>>

\* write implies read.
Scopes == {"read", "write"}

Visit == [status : {"absent", "pending", "approved", "denied", "used"},
          client : Clients \cup {NoClient},
          user   : Users \cup {NoUser},
          given  : Scopes,    \* granted_scopes
          late   : BOOLEAN]   \* expires_at, then code_expires_at, has passed

Grant == [life   : {"absent", "active", "revoked"},
          client : Clients \cup {NoClient},
          user   : Users \cup {NoUser},
          scope  : Scopes,
          idle   : BOOLEAN]   \* not used for longer than GrantIdleTTL

\* root is the visit whose code opened the line of tokens this pair belongs to.
\* A refresh token is revoked when it has been rotated or its grant revoked, stale when
\* that was longer ago than refreshReuseGrace, expired when it ran out unrevoked.
Pair == [grant   : Grants \cup {NoGrant},
         root    : Visits \cup {NoVisit},
         access  : {"absent", "live", "dead"},
         refresh : {"absent", "live", "expired", "revoked", "stale"}]

\* A call has read the row it is about, has passed its checks, has to retire a
\* connection, or is retiring it.
Call == [pc     : {"idle", "read", "passed", "retire", "retiring"},
         op     : {"none", "approve", "deny", "exchange", "refresh", "verify", "revoke"},
         user   : Users \cup {NoUser},
         client : Clients \cup {NoClient},
         visit  : Visits \cup {NoVisit},
         grant  : Grants \cup {NoGrant},
         pair   : Pairs \cup {NoPair},
         scope  : Scopes,
         revoked : BOOLEAN,      \* the refresh token, as it was read
         tokens : SUBSET Pairs,  \* the pairs a revocation sees
         after  : BOOLEAN]       \* history: its grant was revoked before it began

NoRequest == [status |-> "absent", client |-> NoClient, user |-> NoUser,
              given |-> "read", late |-> FALSE]
NoConnection == [life |-> "absent", client |-> NoClient, user |-> NoUser,
                 scope |-> "read", idle |-> FALSE]
NoTokens == [grant |-> NoGrant, root |-> NoVisit, access |-> "absent",
             refresh |-> "absent"]
NoCall == [pc |-> "idle", op |-> "none", user |-> NoUser, client |-> NoClient,
           visit |-> NoVisit, grant |-> NoGrant, pair |-> NoPair, scope |-> "read",
           revoked |-> FALSE, tokens |-> {}, after |-> FALSE]

Init ==
  /\ clients = {}
  /\ visit = [v \in Visits |-> NoRequest]
  /\ grant = [g \in Grants |-> NoConnection]
  /\ pair = [p \in Pairs |-> NoTokens]
  /\ call = [c \in Calls |-> NoCall]

---------------------------------------------------------------------------------
(* What the statements select.                                             *)

\* revoked_at IS NULL, for the refresh token of a pair.
Unrevoked(p) == pair[p].refresh \in {"live", "expired"}

UsableAnyLife(g) == ~grant[g].idle

\* grantActive.
Usable(g) == grant[g].life = "active" /\ ~grant[g].idle

ActiveAnyUser(u, k) == {g \in Grants : grant[g].life = "active" /\ grant[g].client = k}

\* GetActiveGrant; one row at most, by ux_oauth_grants_active.
Active(u, k) ==
  {g \in Grants : grant[g].life = "active" /\ grant[g].user = u /\ grant[g].client = k}

\* What RevokeTokensForGrant finds.
TokensOf(g) ==
  {p \in Pairs : pair[p].grant = g /\ (Unrevoked(p) \/ pair[p].access = "live")}

\* A transaction that is revoking the grant holds its row.
Locked(g) == \E c \in Calls : call[c].pc = "retiring" /\ call[c].grant = g

\* An exchange that is under way holds the row of its code.
CodeHeld(v) ==
  \E c \in Calls : /\ call[c].op = "exchange" /\ call[c].visit = v
                   /\ call[c].pc \in {"passed", "retire", "retiring"}

---------------------------------------------------------------------------------
(* Calls.                                                                  *)

Serving(c, ops, pc) == call[c].op \in ops /\ call[c].pc = pc

Advance(c, q) ==
  /\ call' = [call EXCEPT ![c] = q]
  /\ UNCHANGED <<clients, visit, grant, pair>>

Done(c) ==
  /\ call' = [call EXCEPT ![c] = NoCall]
  /\ UNCHANGED clients

\* A call begins with its first read, and is refused there unless a guard says otherwise.
Begin(c, op, q) ==
  /\ call[c].pc = "idle"
  /\ Advance(c, [q EXCEPT !.pc = "read", !.op = op])

\* A tool registers itself: one insert.
RegisterClient(k) ==
  /\ k \notin clients
  /\ clients' = clients \cup {k}
  /\ UNCHANGED <<visit, grant, pair, call>>

\* authenticateClient finds the tool; its secret, if it has one, is right.
Authenticated(k) == k \in clients

\* The row of a request that waits for its user.
Parked(v, k) == [visit EXCEPT ![v].status = "pending", ![v].client = k]

\* Authorize: one insert.  The scope asked for matters no further: the user chooses.
Authorize(k, v) ==
  /\ k \in clients
  /\ visit[v].status = "absent"
  /\ visit' = Parked(v, k)
  /\ UNCHANGED <<clients, grant, pair, call>>

\* A call ends without a further write: a check failed, a conditional update found no
\* row, the database failed and its transaction was undone, or a VerifyAccess answers.
Leave(c) ==
  /\ call[c].pc # "idle"
  /\ Done(c)
  /\ UNCHANGED <<visit, grant, pair>>

---------------------------------------------------------------------------------
(* Consent: a read, then one update conditional on the status.             *)

\* pendingRequest.
Pending(v) == visit[v].status = "pending" /\ ~visit[v].late

\* Choosing no scope on the consent page is choosing the one asked for.
BeginApprove(c) ==
  \E u \in Users, v \in Visits, scope \in Scopes :
    /\ Pending(v)
    /\ Begin(c, "approve", [NoCall EXCEPT !.user = u, !.visit = v, !.scope = scope])

BeginDeny(c) ==
  \E u \in Users, v \in Visits :
    /\ Pending(v)
    /\ Begin(c, "deny", [NoCall EXCEPT !.user = u, !.visit = v])

\* UpdateRequestStatus finds its row.
InStatus(v, from) == visit[v].status = from

\* The code gets a deadline of its own.
Approve(c) ==
  LET v == call[c].visit
  IN /\ Serving(c, {"approve"}, "read") /\ InStatus(v, "pending")
     /\ visit' = [visit EXCEPT ![v].status = "approved", ![v].user = call[c].user,
                               ![v].given = call[c].scope, ![v].late = FALSE]
     /\ Done(c)
     /\ UNCHANGED <<grant, pair>>

Deny(c) ==
  LET v == call[c].visit
  IN /\ Serving(c, {"deny"}, "read") /\ InStatus(v, "pending")
     /\ visit' = [visit EXCEPT ![v].status = "denied", ![v].user = call[c].user]
     /\ Done(c)
     /\ UNCHANGED <<grant, pair>>

---------------------------------------------------------------------------------
(* A connection is retired: by its owner, for a stale refresh token, or by *)
(* an exchange that found it idle.                                         *)

\* pair after RevokeTokensForGrant.
WithoutTokens(ps) ==
  [p \in Pairs |->
     IF p \in ps THEN [pair[p] EXCEPT !.access = "dead",
                         !.refresh = IF Unrevoked(p) THEN "revoked" ELSE @]
                 ELSE pair[p]]

\* RevokeGrant of the domain: the connection is the caller's and not revoked yet.
Owns(u, g) == grant[g].user = u /\ grant[g].life = "active"

BeginRevoke(c) ==
  \E u \in Users, g \in Grants :
    /\ call[c].pc = "idle"
    /\ Owns(u, g)
    /\ Advance(c, [NoCall EXCEPT !.pc = "retire", !.op = "revoke",
                                 !.user = u, !.grant = g])

\* revokeGrant takes the grant's row, then its second statement starts.
BeginRetiring(c) ==
  /\ call[c].pc = "retire" /\ ~Locked(call[c].grant)
  /\ Advance(c, [call[c] EXCEPT !.pc = "retiring", !.tokens = TokensOf(call[c].grant)])

Retire(c) ==
  /\ Serving(c, {"revoke", "refresh"}, "retiring")
  /\ grant' = [grant EXCEPT ![call[c].grant].life = "revoked"]
  /\ pair' = WithoutTokens(call[c].tokens)
  /\ Done(c)
  /\ UNCHANGED visit

---------------------------------------------------------------------------------
(* Exchange of a code.                                                     *)

\* GetRequestByCodeHash and the checks of exchangeCode.
Exchangeable(k, v) ==
  visit[v].status = "approved" /\ visit[v].client = k /\ ~visit[v].late

BeginExchange(c) ==
  \E k \in Clients, v \in Visits :
    /\ Authenticated(k) /\ Exchangeable(k, v)
    /\ Begin(c, "exchange", [NoCall EXCEPT !.client = k, !.visit = v,
                               !.user = visit[v].user, !.scope = visit[v].given])

\* The code is marked used, conditionally; GetActiveGrant reads the connection there is.
FindConnection(c) ==
  LET q == call[c]
      found == Active(q.user, q.client)
  IN /\ Serving(c, {"exchange"}, "read")
     /\ InStatus(q.visit, "approved") /\ ~CodeHeld(q.visit)
     /\ \/ found = {} /\ Advance(c, [q EXCEPT !.pc = "passed"])
        \/ \E g \in found :
             Advance(c, [q EXCEPT !.grant = g,
                                  !.pc = IF Usable(g) THEN "passed" ELSE "retire"])

\* issue, for a line of tokens.
Issue(g, root) == [grant |-> g, root |-> root, access |-> "live", refresh |-> "live"]
Fresh == {p \in Pairs : pair[p].refresh = "absent"}

UseCodeUnknownStatus(c) == visit' = [visit EXCEPT ![call[c].visit].status = "exchanged"]

UseCode(c) == visit' = [visit EXCEPT ![call[c].visit].status = "used"]

\* The connection that was found gets the scope just consented to, revoked since or not.
Reuse(c) ==
  LET q == call[c]
  IN /\ Serving(c, {"exchange"}, "passed")
     /\ q.grant # NoGrant /\ ~Locked(q.grant)
     /\ grant' = [grant EXCEPT ![q.grant].scope = q.scope, ![q.grant].idle = FALSE]
     /\ \E p \in Fresh : pair' = [pair EXCEPT ![p] = Issue(q.grant, q.visit)]
     /\ UseCode(c) /\ Done(c)

AdmittedAnyway(u, k, retired) == TRUE

\* ux_oauth_grants_active admits the new row.
Admitted(u, k, retired) == Active(u, k) \subseteq retired

NewGrant(q) == [life |-> "active", client |-> q.client, user |-> q.user,
                scope |-> q.scope, idle |-> FALSE]

\* A new connection, in place of the one that was idle if there was one.
Open(c) ==
  LET q == call[c]
      old == {q.grant} \ {NoGrant}
  IN /\ \/ Serving(c, {"exchange"}, "passed") /\ old = {}
        \/ Serving(c, {"exchange"}, "retiring")
     /\ Admitted(q.user, q.client, old)
     /\ \E g \in Grants, p \in Fresh :
          /\ grant[g].life = "absent"
          /\ grant' = [h \in Grants |->
               IF h = g THEN NewGrant(q)
               ELSE IF h \in old THEN [grant[h] EXCEPT !.life = "revoked"] ELSE grant[h]]
          /\ pair' = [WithoutTokens(q.tokens) EXCEPT ![p] = Issue(g, q.visit)]
     /\ UseCode(c) /\ Done(c)

---------------------------------------------------------------------------------
(* Use of the tokens.                                                      *)

\* GetTokenByHash finds the token of p.
Presented(p) ==
  [NoCall EXCEPT !.pair = p, !.grant = pair[p].grant,
                 !.after = grant[pair[p].grant].life = "revoked"]

\* Token is given a refresh token by a tool.
BeginRefresh(c) ==
  \E k \in Clients, p \in Pairs \ Fresh :
    /\ Authenticated(k)
    /\ Begin(c, "refresh", [Presented(p) EXCEPT !.client = k, !.revoked = ~Unrevoked(p)])

\* VerifyAccess is given an access token with a call of the assistant's tools.
BeginVerify(c) ==
  \E p \in Pairs :
    /\ pair[p].access = "live"
    /\ Begin(c, "verify", Presented(p))

ReplayedNoGrace(p) == pair[p].refresh \in {"revoked", "stale"}

\* Longer ago than refreshReuseGrace.
Replayed(p) == pair[p].refresh = "stale"

\* GetGrant, and what becomes of the token: a refresh token that was revoked longer ago
\* than the grace period cuts the connection off, a younger one is only refused.
ReadGrant(c) ==
  LET q == call[c]
  IN /\ Serving(c, {"refresh", "verify"}, "read")
     /\ Usable(q.grant)
     /\ q.op = "refresh" => grant[q.grant].client = q.client
     /\ \/ /\ ~q.revoked
           /\ q.op = "refresh" => pair[q.pair].refresh # "expired"
           /\ Advance(c, [q EXCEPT !.pc = "passed"])
        \/ /\ q.revoked /\ Replayed(q.pair)
           /\ Advance(c, [q EXCEPT !.pc = "retire"])

RevokesAny(p) == TRUE

\* RevokeToken updates its row only while it is unrevoked.
RevokesOne(p) == Unrevoked(p)

\* The token is rotated: revoked and replaced.
Rotate(c) ==
  LET q == call[c]
  IN /\ Serving(c, {"refresh"}, "passed") /\ RevokesOne(q.pair)
     /\ \E p \in Fresh :
          pair' = [pair EXCEPT ![q.pair].refresh = "revoked",
                               ![p] = Issue(q.grant, pair[q.pair].root)]
     /\ Done(c)
     /\ UNCHANGED <<visit, grant>>

Touched(g) == [grant EXCEPT ![g].idle = FALSE]

\* VerifyAccess notes that the connection is in use, whatever became of it since.
Touch(c) ==
  /\ Serving(c, {"verify"}, "passed") /\ ~Locked(call[c].grant)
  /\ grant' = Touched(call[c].grant)
  /\ Done(c)
  /\ UNCHANGED <<visit, pair>>

---------------------------------------------------------------------------------
(* Time passes.                                                            *)

ConsentRunsOut(v) ==
  /\ visit[v].status \in {"pending", "approved"} /\ ~visit[v].late
  /\ visit' = [visit EXCEPT ![v].late = TRUE]
  /\ UNCHANGED <<clients, grant, pair, call>>

\* An access token expires, a refresh token expires, or the grace period after a
\* revocation is over.
TokenAges(p) ==
  /\ \/ pair[p].access = "live" /\ pair' = [pair EXCEPT ![p].access = "dead"]
     \/ pair[p].refresh = "live" /\ pair' = [pair EXCEPT ![p].refresh = "expired"]
     \/ pair[p].refresh = "revoked" /\ pair' = [pair EXCEPT ![p].refresh = "stale"]
  /\ UNCHANGED <<clients, visit, grant, call>>

GrantIdles(g) ==
  /\ grant[g].life = "active" /\ ~grant[g].idle
  /\ grant' = [grant EXCEPT ![g].idle = TRUE]
  /\ UNCHANGED <<clients, visit, pair, call>>

Next ==
  \/ \E k \in Clients : RegisterClient(k) \/ \E v \in Visits : Authorize(k, v)
  \/ \E c \in Calls :
       \/ BeginApprove(c) \/ BeginDeny(c) \/ Approve(c) \/ Deny(c)
       \/ BeginRevoke(c) \/ BeginRetiring(c) \/ Retire(c)
       \/ BeginExchange(c) \/ FindConnection(c) \/ Reuse(c) \/ Open(c)
       \/ BeginRefresh(c) \/ BeginVerify(c) \/ ReadGrant(c) \/ Rotate(c) \/ Touch(c)
       \/ Leave(c)
  \/ \E v \in Visits : ConsentRunsOut(v)
  \/ \E p \in Pairs : TokenAges(p)
  \/ \E g \in Grants : GrantIdles(g)

Spec == Init /\ [][Next]_vars

---------------------------------------------------------------------------------
(* Properties.                                                             *)

\* Every variable has its type.
OTypeOK ==
  /\ clients \subseteq Clients
  /\ visit \in [Visits -> Visit]
  /\ grant \in [Grants -> Grant]
  /\ pair \in [Pairs -> Pair]
  /\ call \in [Calls -> Call]

\* A consent is decided once and its code exchanged once, and each exchange opens one
\* line of refresh tokens in which a token is replaced at most once: two refreshes with
\* one token, or two exchanges of one code, never both succeed (UpdateRequestStatus and
\* RevokeToken, with any of the calls interleaved).
LineOf(v) == {p \in Pairs : pair[p].root = v /\ Unrevoked(p)}
Line == INSTANCE TokenLine WITH
  decision <- [v \in Visits |-> visit[v].status],
  current <- [v \in Visits |-> IF Cardinality(LineOf(v)) = 1
                                 THEN CHOOSE p \in LineOf(v) : TRUE ELSE NoPair],
  spent <- Pairs \ Fresh
ImplementsTokenLine == Line!LineSpec

\* upsertGrant keeps one active connection per user and client, however many consents
\* of theirs are exchanged at the same time and whichever of them finds it idle.
OneConnection ==
  \A u \in Users, k \in Clients : Cardinality(Active(u, k)) <= 1

\* A connection is cut off by its owner, for a refresh token that came back after the
\* grace period, or by an exchange that puts another in its place; two refreshes in
\* parallel never cut it off (refreshReuseGrace).
RevokedOnlyForCause ==
  [][\A g \in Grants : grant[g].life = "active" /\ grant'[g].life = "revoked" =>
       \/ \E c \in Calls : Serving(c, {"revoke"}, "retiring")
                             /\ call[c].grant = g /\ call[c].user = grant[g].user
       \/ \E p \in Pairs : pair[p].grant = g /\ pair[p].refresh = "stale"
       \/ \E h \in Grants : /\ grant[h].life = "absent" /\ grant'[h].life = "active"
                            /\ grant'[h].user = grant[g].user
                            /\ grant'[h].client = grant[g].client]_vars

\* Every token stands on a consent that was given by the user whose connection it opens,
\* to the client that holds it; and what a connection allows is what that user chose in
\* a consent that was exchanged (exchangeCode hands upsertGrant the row it read before).
ConsentBehindEveryToken ==
  /\ \A p \in Pairs \ Fresh :
       LET v == visit[pair[p].root]
           g == grant[pair[p].grant]
       IN /\ v.status = "used" /\ v.user = g.user /\ v.client = g.client
          /\ v.client \in clients
  /\ \A g \in Grants : grant[g].life # "absent" =>
       \E v \in Visits : /\ visit[v].status = "used" /\ visit[v].given = grant[g].scope
                         /\ visit[v].user = grant[g].user
                         /\ visit[v].client = grant[g].client

\* A call that began after its connection was revoked never gets past the checks of
\* refresh and VerifyAccess, not even with a token that escaped the revocation.
RevocationIsEffective ==
  \A c \in Calls : Serving(c, {"refresh", "verify"}, "passed") => ~call[c].after
=================================================================================
