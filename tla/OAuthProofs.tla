------------------------------- MODULE OAuthProofs -------------------------------
(***************************************************************************)
(* Proofs about OAuth for any number of users, clients, consents,          *)
(* connections, pairs of tokens and calls.  Nothing in the tables is ever  *)
(* undone: a row stays, and what a consent, a connection or a pair says    *)
(* about whom it belongs to never changes (Grows).  So what a call has     *)
(* read of those (Knows) stays true whatever the others commit meanwhile.  *)
(*                                                                         *)
(* The second part follows the lines of refresh tokens: a consent has at   *)
(* most one that is neither used nor revoked, and an exchange in progress  *)
(* holds its code alone, so that every step is one of TokenLine.           *)
(***************************************************************************)
EXTENDS OAuth, FiniteSetTheorems, TLAPS

\* What a call knows of the rows it works on.
Knows(q) ==
  /\ q.pc = "idle" => q.op = "none"
  /\ q.op \in {"approve", "deny"} =>
       /\ q.pc = "read" /\ q.visit \in Visits /\ q.user \in Users
       /\ visit[q.visit].status # "absent"
  /\ q.op = "exchange" =>
       /\ q.visit \in Visits /\ visit[q.visit].status \in {"approved", "used"}
       /\ visit[q.visit].client = q.client /\ visit[q.visit].user = q.user
       /\ visit[q.visit].given = q.scope
       /\ q.grant # NoGrant =>
            /\ q.grant \in Grants /\ grant[q.grant].life # "absent"
            /\ grant[q.grant].user = q.user /\ grant[q.grant].client = q.client
       /\ q.pc \in {"retire", "retiring"} => q.grant # NoGrant
       /\ q.pc = "read" => q.grant = NoGrant
  /\ q.op \in {"refresh", "verify"} =>
       /\ q.pair \in Pairs /\ pair[q.pair].refresh # "absent"
       /\ q.grant = pair[q.pair].grant
  /\ q.op = "verify" => ~q.revoked
  /\ q.op = "revoke" =>
       /\ q.grant \in Grants /\ grant[q.grant].life # "absent"
       /\ grant[q.grant].user = q.user
  /\ q.pc \in {"retire", "retiring"} => q.op \in {"exchange", "refresh", "revoke"}
  /\ q.op = "refresh" /\ q.pc \in {"retire", "retiring"} => pair[q.pair].refresh = "stale"
  /\ q.tokens # {} => q.pc = "retiring"
  /\ \A p \in q.tokens : p \in Pairs /\ pair[p].refresh # "absent"
  /\ q.after => /\ q.op \in {"refresh", "verify"} /\ q.pc # "passed"
                /\ grant[q.grant].life = "revoked"

ConsentsOK ==
  \A v \in Visits :
    /\ visit[v].status # "absent" => visit[v].client \in clients
    /\ visit[v].status \in {"approved", "used"} => visit[v].user \in Users

\* A pair belongs to a connection and to a consent that was exchanged.
PairsOK ==
  \A p \in Pairs :
    /\ pair[p].refresh = "absent" => pair[p].access = "absent"
    /\ pair[p].refresh # "absent" =>
         /\ pair[p].root \in Visits /\ visit[pair[p].root].status = "used"
         /\ pair[p].grant \in Grants /\ grant[pair[p].grant].life # "absent"
         /\ visit[pair[p].root].user = grant[pair[p].grant].user
         /\ visit[pair[p].root].client = grant[pair[p].grant].client

\* A connection allows what its user chose in a consent that was exchanged, and
\* nobody has two with one client.
GrantsOK ==
  /\ \A g \in Grants : grant[g].life # "absent" =>
       \E v \in Visits : /\ visit[v].status = "used" /\ visit[v].given = grant[g].scope
                         /\ visit[v].user = grant[g].user
                         /\ visit[v].client = grant[g].client
  /\ \A g, h \in Grants :
       /\ grant[g].life = "active" /\ grant[h].life = "active"
       /\ grant[g].user = grant[h].user /\ grant[g].client = grant[h].client
       => g = h

TablesOK == ConsentsOK /\ PairsOK /\ GrantsOK

IInv == OTypeOK /\ TablesOK /\ \A c \in Calls : Knows(call[c])

\* Nothing is undone.
Grows ==
  /\ clients \subseteq clients'
  /\ \A v \in Visits :
       /\ visit[v].status # "absent" =>
            visit'[v].status # "absent" /\ visit'[v].client = visit[v].client
       /\ visit[v].status \in {"approved", "used"} =>
            /\ visit'[v].status \in {"approved", "used"}
            /\ visit'[v].user = visit[v].user /\ visit'[v].given = visit[v].given
       /\ visit[v].status = "used" => visit'[v].status = "used"
  /\ \A g \in Grants :
       /\ grant[g].life # "absent" =>
            /\ grant'[g].life # "absent"
            /\ grant'[g].user = grant[g].user /\ grant'[g].client = grant[g].client
       /\ grant[g].life = "revoked" => grant'[g].life = "revoked"
  /\ \A p \in Pairs :
       /\ pair[p].refresh # "absent" =>
            /\ pair'[p].refresh # "absent"
            /\ pair'[p].root = pair[p].root /\ pair'[p].grant = pair[p].grant
       /\ pair[p].refresh = "stale" => pair'[p].refresh = "stale"

LEMMA NoCallFacts ==
  /\ NoCall \in Call
  /\ NoCall.pc = "idle" /\ NoCall.op = "none" /\ NoCall.tokens = {} /\ NoCall.after = FALSE
  /\ NoCall.revoked = FALSE /\ NoCall.grant = NoGrant /\ NoCall.visit = NoVisit /\ NoCall.pair = NoPair
BY DEF NoCall, Call, Scopes

LEMMA NoCallKnows == Knows(NoCall)
BY NoCallFacts DEF Knows

LEMMA InitInv == Init => IInv
<1> SUFFICES ASSUME Init PROVE IInv
  OBVIOUS
<1>1. NoRequest \in Visit /\ NoRequest.status = "absent"
  BY DEF NoRequest, Visit, Scopes
<1>2. NoConnection \in Grant /\ NoConnection.life = "absent"
  BY DEF NoConnection, Grant, Scopes
<1>3. NoTokens \in Pair /\ NoTokens.refresh = "absent" /\ NoTokens.access = "absent"
  BY DEF NoTokens, Pair
<1>4. /\ \A v \in Visits : visit[v] = NoRequest
      /\ \A g \in Grants : grant[g] = NoConnection
      /\ \A p \in Pairs : pair[p] = NoTokens
      /\ \A c \in Calls : call[c] = NoCall
  BY DEF Init
<1>5. OTypeOK
  BY <1>1, <1>2, <1>3, NoCallFacts DEF Init, OTypeOK
<1>6. TablesOK
  BY <1>1, <1>2, <1>3, <1>4 DEF TablesOK, ConsentsOK, PairsOK, GrantsOK
<1>7. \A c \in Calls : Knows(call[c])
  BY <1>4, NoCallKnows
<1> QED
  BY <1>5, <1>6, <1>7 DEF IInv

\* What a call knows stays so.
LEMMA KnowsOn ==
  ASSUME IInv, Grows, NEW q \in Call, Knows(q)
  PROVE  Knows(q)'
<1>1. \A g \in Grants : grant[g].life # "absent" =>
        /\ grant'[g].life # "absent"
        /\ grant'[g].user = grant[g].user /\ grant'[g].client = grant[g].client
  BY DEF Grows
<1>2. \A p \in Pairs : pair[p].refresh # "absent" =>
        /\ pair'[p].refresh # "absent" /\ pair'[p].grant = pair[p].grant
        /\ pair[p].refresh = "stale" => pair'[p].refresh = "stale"
        /\ pair[p].grant \in Grants
  BY DEF Grows, IInv, TablesOK, PairsOK
<1>3. \A v \in Visits :
        /\ visit[v].status # "absent" => visit'[v].status # "absent"
        /\ visit[v].status \in {"approved", "used"} =>
             /\ visit'[v].status \in {"approved", "used"}
             /\ visit'[v].client = visit[v].client
             /\ visit'[v].user = visit[v].user /\ visit'[v].given = visit[v].given
  BY DEF Grows
<1>4. \A g \in Grants : grant[g].life = "revoked" => grant'[g].life = "revoked"
  BY DEF Grows
<1>5. CASE q.op \in {"refresh", "verify"}
  BY <1>2, <1>4, <1>5 DEF Knows
<1>6. CASE q.op = "exchange"
  BY <1>1, <1>2, <1>3, <1>6 DEF Knows
<1>7. CASE q.op \in {"approve", "deny", "revoke", "none"}
  BY <1>1, <1>2, <1>3, <1>7 DEF Knows
<1> QED
  BY <1>5, <1>6, <1>7 DEF Call

\* A step that serves c: it goes on as q.
LEMMA CallStep ==
  ASSUME IInv, NEW c \in Calls, NEW q \in Call, call' = [call EXCEPT ![c] = q],
         Knows(q)', Grows, OTypeOK', TablesOK'
  PROVE  IInv'
<1>1. \A d \in Calls : call[d] \in Call /\ Knows(call[d])
  BY DEF IInv, OTypeOK
<1>2. \A d \in Calls : call'[d] = IF d = c THEN q ELSE call[d]
  BY DEF IInv, OTypeOK
<1>3. \A p \in Call : Knows(p) => Knows(p)'
  BY KnowsOn
<1>4. \A d \in Calls : Knows(call[d])'
  <2> TAKE d \in Calls
  <2>1. CASE d = c
    BY <1>2, <2>1
  <2>2. CASE d # c
    BY <1>1, <1>2, <1>3, <2>2
  <2> QED
    BY <2>1, <2>2
<1> QED
  BY <1>4 DEF IInv

\* A step that only changes a call.
LEMMA ReadStep ==
  ASSUME IInv, NEW c \in Calls, NEW q \in Call, Advance(c, q), Knows(q)
  PROVE  IInv'
<1>1. /\ call' = [call EXCEPT ![c] = q] /\ UNCHANGED <<clients, visit, grant, pair>>
  BY DEF Advance
<1>2. OTypeOK' /\ TablesOK' /\ Grows
  BY <1>1 DEF IInv, OTypeOK, TablesOK, ConsentsOK, PairsOK, GrantsOK, Grows
<1>3. Knows(q)'
  BY <1>1 DEF Knows
<1> QED
  BY <1>1, <1>2, <1>3, CallStep

\* A step that ends a call.
LEMMA DoneStep ==
  ASSUME IInv, NEW c \in Calls, Done(c), Grows, TablesOK', visit' \in [Visits -> Visit],
         grant' \in [Grants -> Grant], pair' \in [Pairs -> Pair]
  PROVE  IInv'
<1>1. call' = [call EXCEPT ![c] = NoCall] /\ UNCHANGED clients
  BY DEF Done
<1>2. OTypeOK'
  BY <1>1, NoCallFacts DEF IInv, OTypeOK
<1>3. Knows(NoCall)'
  BY NoCallFacts DEF Knows
<1> QED
  BY <1>1, <1>2, <1>3, NoCallFacts, CallStep

---------------------------------------------------------------------------------
(* Reads.                                                                  *)

LEMMA CallFacts ==
  ASSUME IInv, NEW c \in Calls
  PROVE  call[c] \in Call /\ Knows(call[c])
BY DEF IInv, OTypeOK

LEMMA BeginConsentInv ==
  ASSUME IInv, NEW c \in Calls, BeginApprove(c) \/ BeginDeny(c)
  PROVE  IInv'
<1>1. ASSUME NEW u \in Users, NEW v \in Visits, Pending(v), NEW q \in Call,
             q.pc = "read", q.op \in {"approve", "deny"}, q.visit = v, q.user = u,
             q.tokens = {}, q.after = FALSE
      PROVE  Knows(q)
  BY <1>1 DEF Knows, Pending
<1>2. CASE BeginApprove(c)
  <2>1. PICK u \in Users, v \in Visits, scope \in Scopes :
          /\ Pending(v)
          /\ Begin(c, "approve", [NoCall EXCEPT !.user = u, !.visit = v, !.scope = scope])
    BY <1>2 DEF BeginApprove
  <2>2. PICK q : q = [[NoCall EXCEPT !.user = u, !.visit = v, !.scope = scope]
                        EXCEPT !.pc = "read", !.op = "approve"]
    OBVIOUS
  <2>3. /\ q \in Call /\ q.pc = "read" /\ q.op = "approve" /\ q.visit = v /\ q.user = u
        /\ q.tokens = {} /\ q.after = FALSE
    BY <2>2, NoCallFacts DEF Call
  <2>4. Advance(c, q)
    BY <2>1, <2>2 DEF Begin
  <2> QED
    BY <1>1, <2>1, <2>3, <2>4, ReadStep
<1>3. CASE BeginDeny(c)
  <2>1. PICK u \in Users, v \in Visits :
          Pending(v) /\ Begin(c, "deny", [NoCall EXCEPT !.user = u, !.visit = v])
    BY <1>3 DEF BeginDeny
  <2>2. PICK q : q = [[NoCall EXCEPT !.user = u, !.visit = v]
                        EXCEPT !.pc = "read", !.op = "deny"]
    OBVIOUS
  <2>3. /\ q \in Call /\ q.pc = "read" /\ q.op = "deny" /\ q.visit = v /\ q.user = u
        /\ q.tokens = {} /\ q.after = FALSE
    BY <2>2, NoCallFacts DEF Call
  <2>4. Advance(c, q)
    BY <2>1, <2>2 DEF Begin
  <2> QED
    BY <1>1, <2>1, <2>3, <2>4, ReadStep
<1> QED
  BY <1>2, <1>3

LEMMA BeginRevokeInv ==
  ASSUME IInv, NEW c \in Calls, BeginRevoke(c)
  PROVE  IInv'
<1>0. PICK u \in Users, g \in Grants :
        /\ Owns(u, g)
        /\ Advance(c, [NoCall EXCEPT !.pc = "retire", !.op = "revoke", !.user = u,
                                     !.grant = g])
  BY DEF BeginRevoke
<1>1. PICK q : q = [NoCall EXCEPT !.pc = "retire", !.op = "revoke", !.user = u, !.grant = g]
  OBVIOUS
<1>2. /\ q \in Call /\ q.pc = "retire" /\ q.op = "revoke" /\ q.grant = g /\ q.user = u
      /\ q.tokens = {} /\ q.after = FALSE
  BY <1>1, NoCallFacts DEF Call
<1>3. Knows(q)
  BY <1>0, <1>2 DEF Knows, Owns
<1> QED
  BY <1>0, <1>1, <1>2, <1>3, ReadStep

LEMMA BeginRetiringInv ==
  ASSUME IInv, NEW c \in Calls, BeginRetiring(c)
  PROVE  IInv'
<1> DEFINE tokens == TokensOf(call[c].grant)
           q == [call[c] EXCEPT !.pc = "retiring", !.tokens = tokens]
<1>1. call[c].pc = "retire" /\ Advance(c, q)
  BY DEF BeginRetiring
<1>2. tokens \subseteq Pairs /\ \A p \in tokens : pair[p].refresh # "absent"
  BY DEF TokensOf, Unrevoked, IInv, TablesOK, PairsOK
<1> HIDE DEF tokens
<1>3. /\ q \in Call /\ q.pc = "retiring" /\ q.op = call[c].op /\ q.grant = call[c].grant
      /\ q.user = call[c].user /\ q.client = call[c].client /\ q.visit = call[c].visit
      /\ q.pair = call[c].pair /\ q.scope = call[c].scope /\ q.after = call[c].after
      /\ q.tokens = tokens
  BY <1>2, CallFacts DEF Call
<1> HIDE DEF q
<1>4. Knows(q)
  BY <1>1, <1>2, <1>3, CallFacts DEF Knows
<1> QED
  BY <1>1, <1>3, <1>4, ReadStep

LEMMA BeginExchangeInv ==
  ASSUME IInv, NEW c \in Calls, BeginExchange(c)
  PROVE  IInv'
<1>1. PICK k \in Clients, v \in Visits :
        /\ Exchangeable(k, v)
        /\ Begin(c, "exchange", [NoCall EXCEPT !.client = k, !.visit = v,
                                   !.user = visit[v].user, !.scope = visit[v].given])
  BY DEF BeginExchange
<1> DEFINE u == visit[v].user
           scope == visit[v].given
           q == [NoCall EXCEPT !.client = k, !.visit = v, !.user = u, !.scope = scope,
                               !.pc = "read", !.op = "exchange"]
<1>2. Advance(c, q)
  BY <1>1 DEF Begin
<1>3. u \in Users \cup {NoUser} /\ scope \in Scopes
  BY DEF IInv, OTypeOK, Visit
<1> HIDE DEF u, scope
<1>4. /\ q \in Call /\ q.pc = "read" /\ q.op = "exchange" /\ q.visit = v /\ q.user = u
      /\ q.client = k /\ q.scope = scope /\ q.grant = NoGrant
      /\ q.tokens = {} /\ q.after = FALSE
  BY <1>3, NoCallFacts DEF Call
<1> HIDE DEF q
<1>5. Knows(q)
  BY <1>1, <1>4 DEF Knows, Exchangeable, u, scope
<1> QED
  BY <1>2, <1>4, <1>5, ReadStep

LEMMA FindConnectionInv ==
  ASSUME IInv, NEW c \in Calls, FindConnection(c)
  PROVE  IInv'
<1> DEFINE old == call[c]
<1>0. old \in Call /\ Knows(old) /\ old.op = "exchange" /\ old.pc = "read"
  BY CallFacts DEF FindConnection, Serving
<1>1. CASE Advance(c, [old EXCEPT !.pc = "passed"])
  <2> DEFINE q == [old EXCEPT !.pc = "passed"]
  <2>1. /\ q \in Call /\ q.pc = "passed" /\ q.op = "exchange" /\ q.grant = old.grant
        /\ q.user = old.user /\ q.client = old.client /\ q.visit = old.visit
        /\ q.scope = old.scope /\ q.after = old.after /\ q.tokens = old.tokens
    BY <1>0 DEF Call
  <2> HIDE DEF q, old
  <2>2. Knows(q)
    BY <1>0, <2>1 DEF Knows
  <2> QED
    BY <1>1, <2>1, <2>2, ReadStep DEF q
<1>2. ASSUME NEW g \in Active(old.user, old.client),
             Advance(c, [old EXCEPT !.grant = g,
                                    !.pc = IF Usable(g) THEN "passed" ELSE "retire"])
      PROVE  IInv'
  <2> DEFINE pc == IF Usable(g) THEN "passed" ELSE "retire"
             q == [old EXCEPT !.grant = g, !.pc = pc]
  <2>0. g \in Grants /\ pc \in {"passed", "retire"}
    BY DEF Active
  <2> HIDE DEF pc
  <2>1. /\ q \in Call /\ q.pc = pc /\ q.op = "exchange" /\ q.grant = g
        /\ q.user = old.user /\ q.client = old.client /\ q.visit = old.visit
        /\ q.scope = old.scope /\ q.after = old.after /\ q.tokens = old.tokens
    BY <1>0, <2>0 DEF Call
  <2> HIDE DEF q, old
  <2>2. g # NoGrant /\ grant[g].life = "active" /\ grant[g].user = old.user
        /\ grant[g].client = old.client
    BY <2>0, OAuthAssumption DEF Active
  <2>3. Knows(q)
    BY <1>0, <2>0, <2>1, <2>2 DEF Knows
  <2> QED
    BY <1>2, <2>1, <2>3, ReadStep DEF q, pc
<1> QED
  BY <1>1, <1>2 DEF FindConnection

LEMMA PresentedFacts ==
  ASSUME IInv, NEW p \in Pairs, pair[p].refresh # "absent"
  PROVE  \E q \in Call :
           /\ q = Presented(p) /\ q.pair = p /\ q.grant = pair[p].grant /\ q.grant \in Grants
           /\ q.after => grant[q.grant].life = "revoked"
           /\ q.tokens = {} /\ q.revoked = FALSE
<1> DEFINE g == pair[p].grant
           after == grant[g].life = "revoked"
<1>1. g \in Grants /\ after \in BOOLEAN
  BY DEF IInv, TablesOK, PairsOK
<1> HIDE DEF g
<1>2. PICK q : q = [NoCall EXCEPT !.pair = p, !.grant = g, !.after = after]
  OBVIOUS
<1> HIDE DEF after
<1>3. q \in Call /\ q.pair = p /\ q.grant = g /\ q.after = after /\ q.tokens = {}
      /\ q.revoked = FALSE
  BY <1>1, <1>2, NoCallFacts DEF Call
<1>4. q = Presented(p)
  BY <1>2 DEF Presented, g, after
<1> QED
  BY <1>1, <1>3, <1>4 DEF g, after

LEMMA BeginRefreshInv ==
  ASSUME IInv, NEW c \in Calls, BeginRefresh(c)
  PROVE  IInv'
<1>1. PICK k \in Clients, p \in Pairs \ Fresh :
        Begin(c, "refresh", [Presented(p) EXCEPT !.client = k, !.revoked = ~Unrevoked(p)])
  BY DEF BeginRefresh
<1>2. p \in Pairs /\ pair[p].refresh # "absent"
  BY DEF Fresh
<1>3. PICK seen \in Call :
        /\ seen = Presented(p) /\ seen.pair = p /\ seen.grant = pair[p].grant
        /\ seen.grant \in Grants /\ seen.tokens = {}
        /\ seen.after => grant[seen.grant].life = "revoked"
  BY <1>2, PresentedFacts
<1> DEFINE revoked == ~Unrevoked(p)
<1>4. revoked \in BOOLEAN
  BY DEF Unrevoked
<1>5. PICK q : q = [[seen EXCEPT !.client = k, !.revoked = revoked]
                      EXCEPT !.pc = "read", !.op = "refresh"]
  OBVIOUS
<1>6. Advance(c, q)
  BY <1>1, <1>3, <1>5 DEF Begin
<1> HIDE DEF revoked
<1>7. /\ q \in Call /\ q.pc = "read" /\ q.op = "refresh" /\ q.pair = seen.pair
      /\ q.grant = seen.grant /\ q.tokens = seen.tokens /\ q.after = seen.after
  BY <1>3, <1>4, <1>5 DEF Call
<1>8. Knows(q)
  BY <1>2, <1>3, <1>7 DEF Knows
<1> QED
  BY <1>6, <1>7, <1>8, ReadStep

LEMMA BeginVerifyInv ==
  ASSUME IInv, NEW c \in Calls, BeginVerify(c)
  PROVE  IInv'
<1>1. PICK p \in Pairs : pair[p].access = "live" /\ Begin(c, "verify", Presented(p))
  BY DEF BeginVerify
<1>2. pair[p].refresh # "absent"
  BY <1>1 DEF IInv, TablesOK, PairsOK
<1>3. PICK seen \in Call :
        /\ seen = Presented(p) /\ seen.pair = p /\ seen.grant = pair[p].grant
        /\ seen.grant \in Grants /\ seen.tokens = {} /\ seen.revoked = FALSE
        /\ seen.after => grant[seen.grant].life = "revoked"
  BY <1>2, PresentedFacts
<1>4. PICK q : q = [seen EXCEPT !.pc = "read", !.op = "verify"]
  OBVIOUS
<1>5. Advance(c, q)
  BY <1>1, <1>3, <1>4 DEF Begin
<1>6. /\ q \in Call /\ q.pc = "read" /\ q.op = "verify" /\ q.pair = seen.pair
      /\ q.grant = seen.grant /\ q.tokens = seen.tokens /\ q.after = seen.after
      /\ q.revoked = seen.revoked
  BY <1>3, <1>4 DEF Call
<1>7. Knows(q)
  BY <1>2, <1>3, <1>6 DEF Knows
<1> QED
  BY <1>5, <1>6, <1>7, ReadStep

\* The one check a revocation has to reach: a connection that was revoked before the
\* call began is not usable.
LEMMA ReadGrantInv ==
  ASSUME IInv, NEW c \in Calls, ReadGrant(c)
  PROVE  IInv'
<1>0. PICK old : old = call[c]
  OBVIOUS
<1>1. /\ old \in Call /\ Knows(old) /\ old.op \in {"refresh", "verify"} /\ old.pc = "read"
      /\ grant[old.grant].life = "active"
  BY <1>0, CallFacts DEF ReadGrant, Serving, Usable
<1>2. ~old.after
  BY <1>1 DEF Knows
<1>3. \/ Advance(c, [old EXCEPT !.pc = "passed"])
      \/ /\ Advance(c, [old EXCEPT !.pc = "retire"])
         /\ old.op = "refresh" /\ pair[old.pair].refresh = "stale"
  BY <1>0, <1>1 DEF ReadGrant, Replayed, Knows
<1>4. PICK pc \in {"passed", "retire"} :
        /\ Advance(c, [old EXCEPT !.pc = pc])
        /\ pc = "retire" => old.op = "refresh" /\ pair[old.pair].refresh = "stale"
  BY <1>3
<1>5. PICK q : q = [old EXCEPT !.pc = pc]
  OBVIOUS
<1>6. /\ q \in Call /\ q.pc = pc /\ q.op = old.op /\ q.pair = old.pair
      /\ q.grant = old.grant /\ q.tokens = old.tokens /\ q.after = old.after
      /\ q.revoked = old.revoked
  BY <1>1, <1>5 DEF Call
<1>7. Knows(q)
  BY <1>1, <1>2, <1>4, <1>6 DEF Knows
<1> QED
  BY <1>4, <1>5, <1>6, <1>7, ReadStep

---------------------------------------------------------------------------------
(* Writes: nothing is undone, and what is new is in order.                 *)

LEMMA TablesOn ==
  ASSUME IInv, Grows,
         \A v \in Visits : visit'[v].status # "absent" =>
           visit[v].status # "absent" \/ visit'[v].client \in clients',
         \A v \in Visits : visit'[v].status \in {"approved", "used"} =>
           visit[v].status \in {"approved", "used"} \/ visit'[v].user \in Users,
         \A p \in Pairs : pair[p].refresh = "absent" =>
           \/ pair'[p] = pair[p]
           \/ /\ pair'[p].refresh # "absent"
              /\ pair'[p].root \in Visits /\ visit'[pair'[p].root].status = "used"
              /\ pair'[p].grant \in Grants /\ grant'[pair'[p].grant].life # "absent"
              /\ visit'[pair'[p].root].user = grant'[pair'[p].grant].user
              /\ visit'[pair'[p].root].client = grant'[pair'[p].grant].client,
         \A g \in Grants : grant'[g].life # "absent" =>
           \/ grant[g].life # "absent" /\ grant'[g].scope = grant[g].scope
           \/ \E v \in Visits : /\ visit'[v].status = "used" /\ visit'[v].given = grant'[g].scope
                                /\ visit'[v].user = grant'[g].user
                                /\ visit'[v].client = grant'[g].client,
         \A g, h \in Grants :
           /\ grant'[g].life = "active" /\ grant'[h].life = "active"
           /\ grant'[g].user = grant'[h].user /\ grant'[g].client = grant'[h].client
           => g = h \/ (grant[g].life = "active" /\ grant[h].life = "active")
  PROVE  TablesOK'
<1>1. /\ clients \subseteq clients'
      /\ \A v \in Visits :
           /\ visit[v].status # "absent" => visit'[v].client = visit[v].client
           /\ visit[v].status \in {"approved", "used"} =>
                visit'[v].user = visit[v].user /\ visit'[v].given = visit[v].given
           /\ visit[v].status = "used" => visit'[v].status = "used"
  BY DEF Grows
<1>2. \A g \in Grants : grant[g].life # "absent" =>
        /\ grant'[g].life # "absent"
        /\ grant'[g].user = grant[g].user /\ grant'[g].client = grant[g].client
  BY DEF Grows
<1>3. \A p \in Pairs : pair[p].refresh # "absent" =>
        /\ pair'[p].refresh # "absent"
        /\ pair'[p].root = pair[p].root /\ pair'[p].grant = pair[p].grant
  BY DEF Grows
<1>4. ConsentsOK /\ PairsOK /\ GrantsOK
  BY DEF IInv, TablesOK
<1>5. ConsentsOK'
  BY <1>1, <1>4 DEF ConsentsOK
<1>6. PairsOK'
  <2> SUFFICES ASSUME NEW p \in Pairs
               PROVE  /\ pair'[p].refresh = "absent" => pair'[p].access = "absent"
                      /\ pair'[p].refresh # "absent" =>
                           /\ pair'[p].root \in Visits /\ visit'[pair'[p].root].status = "used"
                           /\ pair'[p].grant \in Grants
                           /\ grant'[pair'[p].grant].life # "absent"
                           /\ visit'[pair'[p].root].user = grant'[pair'[p].grant].user
                           /\ visit'[pair'[p].root].client = grant'[pair'[p].grant].client
    BY DEF PairsOK
  <2>1. CASE pair[p].refresh # "absent"
    <3>1. /\ pair[p].root \in Visits /\ visit[pair[p].root].status = "used"
          /\ pair[p].grant \in Grants /\ grant[pair[p].grant].life # "absent"
          /\ visit[pair[p].root].user = grant[pair[p].grant].user
          /\ visit[pair[p].root].client = grant[pair[p].grant].client
      BY <1>4, <2>1 DEF PairsOK
    <3> QED
      BY <1>1, <1>2, <1>3, <2>1, <3>1
  <2>2. CASE pair[p].refresh = "absent"
    BY <1>4, <2>2 DEF PairsOK
  <2> QED
    BY <2>1, <2>2
<1>7. GrantsOK'
  <2>1. ASSUME NEW g \in Grants, grant'[g].life # "absent"
        PROVE  \E v \in Visits : /\ visit'[v].status = "used" /\ visit'[v].given = grant'[g].scope
                                 /\ visit'[v].user = grant'[g].user
                                 /\ visit'[v].client = grant'[g].client
    <3>1. CASE grant[g].life # "absent" /\ grant'[g].scope = grant[g].scope
      <4>1. PICK v \in Visits : /\ visit[v].status = "used" /\ visit[v].given = grant[g].scope
                                /\ visit[v].user = grant[g].user
                                /\ visit[v].client = grant[g].client
        BY <1>4, <3>1 DEF GrantsOK
      <4> QED
        BY <1>1, <1>2, <3>1, <4>1
    <3> QED
      BY <2>1, <3>1
  <2>2. ASSUME NEW g \in Grants, NEW h \in Grants,
               grant'[g].life = "active", grant'[h].life = "active",
               grant'[g].user = grant'[h].user, grant'[g].client = grant'[h].client
        PROVE  g = h
    BY <1>2, <1>4, <2>2 DEF GrantsOK
  <2> QED
    BY <2>1, <2>2 DEF GrantsOK
<1> QED
  BY <1>5, <1>6, <1>7 DEF TablesOK

\* A step that serves no call.
LEMMA OtherStep ==
  ASSUME IInv, Grows, OTypeOK', TablesOK', UNCHANGED call
  PROVE  IInv'
<1>1. \A c \in Calls : call[c] \in Call /\ Knows(call[c])
  BY CallFacts
<1>2. \A q \in Call : Knows(q) => Knows(q)'
  BY KnowsOn
<1>3. \A c \in Calls : Knows(call[c])'
  BY <1>1, <1>2
<1> QED
  BY <1>3 DEF IInv

\* A consent that was not exchanged yet changes.
LEMMA ConsentStep ==
  ASSUME IInv, NEW v \in Visits, NEW r \in Visit, visit' = [visit EXCEPT ![v] = r],
         UNCHANGED <<clients, grant, pair>>,
         visit[v].status # "used", r.status # "absent", r.client \in clients,
         visit[v].status # "absent" => r.client = visit[v].client,
         visit[v].status = "approved" =>
           r.status = "approved" /\ r.user = visit[v].user /\ r.given = visit[v].given,
         r.status \in {"approved", "used"} => r.user \in Users
  PROVE  Grows /\ TablesOK' /\ visit' \in [Visits -> Visit]
<1>1. /\ visit' \in [Visits -> Visit]
      /\ \A w \in Visits : visit'[w] = IF w = v THEN r ELSE visit[w]
  BY DEF IInv, OTypeOK
<1>2. Grows
  BY <1>1 DEF Grows
<1>3. TablesOK'
  BY <1>1, <1>2, TablesOn
<1> QED
  BY <1>1, <1>2, <1>3

LEMMA RegisterClientInv ==
  ASSUME IInv, NEW k \in Clients, RegisterClient(k)
  PROVE  IInv'
<1>1. Grows
  BY DEF RegisterClient, Grows
<1>2. TablesOK'
  BY DEF RegisterClient, IInv, TablesOK, ConsentsOK, PairsOK, GrantsOK
<1>3. OTypeOK'
  BY DEF RegisterClient, IInv, OTypeOK
<1> QED
  BY <1>1, <1>2, <1>3, OtherStep DEF RegisterClient

LEMMA AuthorizeInv ==
  ASSUME IInv, NEW k \in Clients, NEW v \in Visits, Authorize(k, v)
  PROVE  IInv'
<1>1. visit[v] \in Visit /\ visit \in [Visits -> Visit]
  BY DEF IInv, OTypeOK
<1>2. PICK r : r = [visit[v] EXCEPT !.status = "pending", !.client = k]
  OBVIOUS
<1>3. r \in Visit /\ r.status = "pending" /\ r.client = k
  BY <1>1, <1>2 DEF Visit
<1>4. visit' = [visit EXCEPT ![v] = r]
  BY <1>1, <1>2 DEF Authorize, Parked
<1>5. Grows /\ TablesOK' /\ visit' \in [Visits -> Visit]
  BY <1>3, <1>4, ConsentStep DEF Authorize
<1>6. OTypeOK'
  BY <1>5 DEF Authorize, IInv, OTypeOK
<1> QED
  BY <1>5, <1>6, OtherStep DEF Authorize

LEMMA ConsentRunsOutInv ==
  ASSUME IInv, NEW v \in Visits, ConsentRunsOut(v)
  PROVE  IInv'
<1>1. visit[v] \in Visit /\ visit \in [Visits -> Visit]
  BY DEF IInv, OTypeOK
<1>2. PICK r : r = [visit[v] EXCEPT !.late = TRUE]
  OBVIOUS
<1>3. /\ r \in Visit /\ r.status = visit[v].status /\ r.client = visit[v].client
      /\ r.user = visit[v].user /\ r.given = visit[v].given
  BY <1>1, <1>2 DEF Visit
<1>4. visit' = [visit EXCEPT ![v] = r]
  BY <1>1, <1>2 DEF ConsentRunsOut
<1>5. Grows /\ TablesOK' /\ visit' \in [Visits -> Visit]
  <2>1. /\ r.client \in clients
        /\ r.status \in {"approved", "used"} => r.user \in Users
    BY <1>3 DEF ConsentRunsOut, IInv, TablesOK, ConsentsOK
  <2> QED
    BY <1>3, <1>4, <2>1, ConsentStep DEF ConsentRunsOut
<1>6. OTypeOK'
  BY <1>5 DEF ConsentRunsOut, IInv, OTypeOK
<1> QED
  BY <1>5, <1>6, OtherStep DEF ConsentRunsOut

LEMMA ApproveInv ==
  ASSUME IInv, NEW c \in Calls, Approve(c)
  PROVE  IInv'
<1>0. PICK q : q = call[c]
  OBVIOUS
<1>1. PICK v : v = q.visit
  OBVIOUS
<1>2. /\ q \in Call /\ v \in Visits /\ q.user \in Users /\ visit[v].status = "pending"
  BY <1>0, <1>1, CallFacts DEF Approve, Serving, InStatus, Knows
<1>3. visit[v] \in Visit /\ visit \in [Visits -> Visit] /\ visit[v].client \in clients
  BY <1>2 DEF IInv, OTypeOK, TablesOK, ConsentsOK
<1>4. PICK r : r = [visit[v] EXCEPT !.status = "approved", !.user = q.user,
                                    !.given = q.scope, !.late = FALSE]
  OBVIOUS
<1>5. r \in Visit /\ r.status = "approved" /\ r.client = visit[v].client /\ r.user = q.user
  BY <1>2, <1>3, <1>4 DEF Visit, Call
<1>6. visit' = [visit EXCEPT ![v] = r]
  BY <1>0, <1>1, <1>3, <1>4 DEF Approve
<1>7. Done(c) /\ UNCHANGED <<clients, grant, pair>>
  BY DEF Approve, Done
<1>8. Grows /\ TablesOK' /\ visit' \in [Visits -> Visit]
  BY <1>2, <1>3, <1>5, <1>6, <1>7, ConsentStep
<1> QED
  BY <1>7, <1>8, DoneStep DEF IInv, OTypeOK

LEMMA DenyInv ==
  ASSUME IInv, NEW c \in Calls, Deny(c)
  PROVE  IInv'
<1>0. PICK q : q = call[c]
  OBVIOUS
<1>1. PICK v : v = q.visit
  OBVIOUS
<1>2. /\ q \in Call /\ v \in Visits /\ q.user \in Users /\ visit[v].status = "pending"
  BY <1>0, <1>1, CallFacts DEF Deny, Serving, InStatus, Knows
<1>3. visit[v] \in Visit /\ visit \in [Visits -> Visit] /\ visit[v].client \in clients
  BY <1>2 DEF IInv, OTypeOK, TablesOK, ConsentsOK
<1>4. PICK r : r = [visit[v] EXCEPT !.status = "denied", !.user = q.user]
  OBVIOUS
<1>5. r \in Visit /\ r.status = "denied" /\ r.client = visit[v].client /\ r.user = q.user
  BY <1>2, <1>3, <1>4 DEF Visit, Call
<1>6. visit' = [visit EXCEPT ![v] = r]
  BY <1>0, <1>1, <1>3, <1>4 DEF Deny
<1>7. Done(c) /\ UNCHANGED <<clients, grant, pair>>
  BY DEF Deny, Done
<1>8. Grows /\ TablesOK' /\ visit' \in [Visits -> Visit]
  BY <1>2, <1>3, <1>5, <1>6, <1>7, ConsentStep
<1> QED
  BY <1>7, <1>8, DoneStep DEF IInv, OTypeOK

LEMMA TypeFacts ==
  ASSUME IInv
  PROVE  visit \in [Visits -> Visit] /\ grant \in [Grants -> Grant] /\ pair \in [Pairs -> Pair]
BY DEF IInv, OTypeOK

LEMMA LeaveInv ==
  ASSUME IInv, NEW c \in Calls, Leave(c)
  PROVE  IInv'
<1>1. Done(c) /\ UNCHANGED <<clients, visit, grant, pair>>
  BY DEF Leave, Done
<1>2. Grows /\ TablesOK'
  BY <1>1 DEF IInv, TablesOK, ConsentsOK, PairsOK, GrantsOK, Grows
<1> QED
  BY <1>1, <1>2, TypeFacts, DoneStep

\* Only whether a pair is live changes, and who is connected does not.
LEMMA PairsAge ==
  ASSUME IInv, pair' \in [Pairs -> Pair], UNCHANGED <<clients, visit>>,
         \A p \in Pairs : pair[p].refresh = "absent" => pair'[p] = pair[p],
         \A p \in Pairs : pair[p].refresh # "absent" =>
           /\ pair'[p].refresh # "absent"
           /\ pair'[p].root = pair[p].root /\ pair'[p].grant = pair[p].grant
           /\ pair[p].refresh = "stale" => pair'[p].refresh = "stale",
         \A g \in Grants :
           /\ grant'[g].life = "absent" <=> grant[g].life = "absent"
           /\ grant'[g].user = grant[g].user /\ grant'[g].client = grant[g].client
           /\ grant'[g].scope = grant[g].scope
           /\ grant'[g].life = "active" => grant[g].life = "active"
           /\ grant[g].life = "revoked" => grant'[g].life = "revoked"
  PROVE  Grows /\ TablesOK'
<1>1. Grows
  BY DEF Grows
<1>2. TablesOK'
  BY <1>1, TablesOn
<1> QED
  BY <1>1, <1>2

LEMMA WithoutFacts ==
  ASSUME IInv, NEW ps, \A p \in ps : p \in Pairs /\ pair[p].refresh # "absent"
  PROVE  /\ WithoutTokens(ps) \in [Pairs -> Pair]
         /\ \A p \in Pairs :
              /\ pair[p].refresh = "absent" => WithoutTokens(ps)[p] = pair[p]
              /\ pair[p].refresh # "absent" =>
                   /\ WithoutTokens(ps)[p].refresh # "absent"
                   /\ WithoutTokens(ps)[p].root = pair[p].root
                   /\ WithoutTokens(ps)[p].grant = pair[p].grant
                   /\ pair[p].refresh = "stale" => WithoutTokens(ps)[p].refresh = "stale"
<1> DEFINE then(p) == IF Unrevoked(p) THEN "revoked" ELSE pair[p].refresh
           dead(p) == [pair[p] EXCEPT !.access = "dead", !.refresh = then(p)]
<1>1. ASSUME NEW p \in Pairs
      PROVE  /\ pair[p] \in Pair
             /\ then(p) \in {"absent", "live", "expired", "revoked", "stale"}
             /\ pair[p].refresh # "absent" => then(p) # "absent"
             /\ pair[p].refresh = "stale" => then(p) = "stale"
  BY TypeFacts DEF Unrevoked, Pair
<1>2. WithoutTokens(ps) = [p \in Pairs |-> IF p \in ps THEN dead(p) ELSE pair[p]]
  BY DEF WithoutTokens
<1> HIDE DEF then
<1>3. ASSUME NEW p \in Pairs
      PROVE  /\ dead(p) \in Pair /\ dead(p).refresh = then(p)
             /\ dead(p).root = pair[p].root /\ dead(p).grant = pair[p].grant
  BY <1>1 DEF Pair
<1> HIDE DEF dead
<1> QED
  BY <1>1, <1>2, <1>3

LEMMA RetireInv ==
  ASSUME IInv, NEW c \in Calls, Retire(c)
  PROVE  IInv'
<1>0. PICK q : q = call[c]
  OBVIOUS
<1>1. /\ q \in Call /\ Knows(q) /\ q.op \in {"revoke", "refresh"}
      /\ grant' = [grant EXCEPT ![q.grant].life = "revoked"]
      /\ pair' = WithoutTokens(q.tokens) /\ Done(c) /\ UNCHANGED <<clients, visit>>
  BY <1>0, CallFacts DEF Retire, Serving, Done
<1>2. q.grant \in Grants /\ grant[q.grant].life # "absent"
  BY <1>1 DEF Knows, IInv, TablesOK, PairsOK
<1>3. PICK r : r = [grant[q.grant] EXCEPT !.life = "revoked"]
  OBVIOUS
<1>4. /\ r \in Grant /\ r.life = "revoked" /\ r.user = grant[q.grant].user
      /\ r.client = grant[q.grant].client /\ r.scope = grant[q.grant].scope
  BY <1>2, <1>3, TypeFacts DEF Grant
<1>5. /\ grant' \in [Grants -> Grant]
      /\ \A g \in Grants : grant'[g] = IF g = q.grant THEN r ELSE grant[g]
  BY <1>1, <1>2, <1>3, <1>4, TypeFacts
<1>6. \A p \in q.tokens : p \in Pairs /\ pair[p].refresh # "absent"
  BY <1>1 DEF Knows
<1>7. Grows /\ TablesOK' /\ pair' \in [Pairs -> Pair]
  BY <1>1, <1>2, <1>4, <1>5, <1>6, WithoutFacts, PairsAge
<1> QED
  BY <1>1, <1>5, <1>7, TypeFacts, DoneStep

LEMMA TouchInv ==
  ASSUME IInv, NEW c \in Calls, Touch(c)
  PROVE  IInv'
<1>0. PICK q : q = call[c]
  OBVIOUS
<1>1. /\ q \in Call /\ Knows(q) /\ q.op = "verify"
      /\ grant' = [grant EXCEPT ![q.grant].idle = FALSE]
      /\ Done(c) /\ UNCHANGED <<clients, visit, pair>>
  BY <1>0, CallFacts DEF Touch, Touched, Serving, Done
<1>2. q.grant \in Grants
  BY <1>1 DEF Knows, IInv, TablesOK, PairsOK
<1>3. PICK r : r = [grant[q.grant] EXCEPT !.idle = FALSE]
  OBVIOUS
<1>4. /\ r \in Grant /\ r.life = grant[q.grant].life /\ r.user = grant[q.grant].user
      /\ r.client = grant[q.grant].client /\ r.scope = grant[q.grant].scope
  BY <1>2, <1>3, TypeFacts DEF Grant
<1>5. /\ grant' \in [Grants -> Grant]
      /\ \A g \in Grants : grant'[g] = IF g = q.grant THEN r ELSE grant[g]
  BY <1>1, <1>2, <1>3, <1>4, TypeFacts
<1>6. Grows /\ TablesOK'
  BY <1>1, <1>4, <1>5, TypeFacts, PairsAge
<1> QED
  BY <1>1, <1>5, <1>6, TypeFacts, DoneStep

LEMMA GrantIdlesInv ==
  ASSUME IInv, NEW g \in Grants, GrantIdles(g)
  PROVE  IInv'
<1>1. PICK r : r = [grant[g] EXCEPT !.idle = TRUE]
  OBVIOUS
<1>2. /\ r \in Grant /\ r.life = grant[g].life /\ r.user = grant[g].user
      /\ r.client = grant[g].client /\ r.scope = grant[g].scope
  BY <1>1, TypeFacts DEF Grant
<1>3. /\ grant' \in [Grants -> Grant]
      /\ \A h \in Grants : grant'[h] = IF h = g THEN r ELSE grant[h]
  BY <1>1, <1>2, TypeFacts DEF GrantIdles
<1>4. Grows /\ TablesOK'
  BY <1>2, <1>3, TypeFacts, PairsAge DEF GrantIdles
<1>5. OTypeOK'
  BY <1>3 DEF GrantIdles, IInv, OTypeOK
<1> QED
  BY <1>4, <1>5, OtherStep DEF GrantIdles

LEMMA TokenAgesInv ==
  ASSUME IInv, NEW p \in Pairs, TokenAges(p)
  PROVE  IInv'
<1>0. pair[p] \in Pair /\ (pair[p].refresh = "absent" => pair[p].access = "absent")
  BY TypeFacts DEF IInv, TablesOK, PairsOK
<1>1. PICK r \in Pair :
        /\ pair' = [pair EXCEPT ![p] = r]
        /\ pair[p].refresh # "absent" /\ r.refresh # "absent"
        /\ r.root = pair[p].root /\ r.grant = pair[p].grant
        /\ pair[p].refresh = "stale" => r.refresh = "stale"
  <2>1. CASE pair[p].access = "live" /\ pair' = [pair EXCEPT ![p].access = "dead"]
    <3>1. PICK r : r = [pair[p] EXCEPT !.access = "dead"]
      OBVIOUS
    <3>2. r \in Pair /\ r.root = pair[p].root /\ r.grant = pair[p].grant
          /\ r.refresh = pair[p].refresh
      BY <1>0, <3>1 DEF Pair
    <3> QED
      BY <1>0, <2>1, <3>1, <3>2
  <2>2. ASSUME NEW to \in {"expired", "stale"}, pair[p].refresh \in {"live", "revoked"},
               pair' = [pair EXCEPT ![p].refresh = to]
        PROVE  \E r \in Pair :
                 /\ pair' = [pair EXCEPT ![p] = r]
                 /\ pair[p].refresh # "absent" /\ r.refresh # "absent"
                 /\ r.root = pair[p].root /\ r.grant = pair[p].grant
                 /\ pair[p].refresh = "stale" => r.refresh = "stale"
    <3>1. PICK r : r = [pair[p] EXCEPT !.refresh = to]
      OBVIOUS
    <3>2. r \in Pair /\ r.root = pair[p].root /\ r.grant = pair[p].grant /\ r.refresh = to
      BY <1>0, <3>1 DEF Pair
    <3> QED
      BY <2>2, <3>1, <3>2
  <2> QED
    BY <2>1, <2>2 DEF TokenAges
<1>2. /\ pair' \in [Pairs -> Pair]
      /\ \A o \in Pairs : pair'[o] = IF o = p THEN r ELSE pair[o]
  BY <1>1, TypeFacts
<1>3. UNCHANGED <<clients, visit, grant, call>>
  BY DEF TokenAges
<1>4. Grows /\ TablesOK'
  BY <1>1, <1>2, <1>3, TypeFacts, PairsAge
<1>5. OTypeOK'
  BY <1>2, <1>3 DEF IInv, OTypeOK
<1> QED
  BY <1>3, <1>4, <1>5, OtherStep

LEMMA IssueFacts ==
  ASSUME NEW g \in Grants, NEW v \in Visits
  PROVE  /\ Issue(g, v) \in Pair /\ Issue(g, v).grant = g /\ Issue(g, v).root = v
         /\ Issue(g, v).refresh = "live"
BY DEF Issue, Pair

\* What the tables say of a pair that exists.
LEMMA PairFacts ==
  ASSUME IInv, NEW p \in Pairs, pair[p].refresh # "absent"
  PROVE  /\ pair[p].root \in Visits /\ visit[pair[p].root].status = "used"
         /\ pair[p].grant \in Grants /\ grant[pair[p].grant].life # "absent"
         /\ visit[pair[p].root].user = grant[pair[p].grant].user
         /\ visit[pair[p].root].client = grant[pair[p].grant].client
BY DEF IInv, TablesOK, PairsOK

LEMMA RotateInv ==
  ASSUME IInv, NEW c \in Calls, Rotate(c)
  PROVE  IInv'
<1>0. PICK q : q = call[c]
  OBVIOUS
<1>1. PICK p \in Fresh :
        /\ q \in Call /\ Knows(q) /\ q.op = "refresh" /\ Unrevoked(q.pair)
        /\ pair' = [pair EXCEPT ![q.pair].refresh = "revoked",
                                ![p] = Issue(q.grant, pair[q.pair].root)]
        /\ Done(c) /\ UNCHANGED <<clients, visit, grant>>
  BY <1>0, CallFacts DEF Rotate, RevokesOne, Serving, Done
<1>2. /\ q.pair \in Pairs /\ pair[q.pair].refresh \in {"live", "expired"}
      /\ q.grant = pair[q.pair].grant
  BY <1>1 DEF Knows, Unrevoked
<1>3. PICK g \in Grants, v \in Visits :
        g = q.grant /\ v = pair[q.pair].root
    BY <1>2, PairFacts, Zenon
<1>4. PICK old : old = [pair[q.pair] EXCEPT !.refresh = "revoked"]
  OBVIOUS
<1>5. /\ old \in Pair /\ old.refresh = "revoked"
      /\ old.root = pair[q.pair].root /\ old.grant = pair[q.pair].grant
  BY <1>2, <1>4, TypeFacts DEF Pair
<1>6. p \in Pairs /\ pair[p].refresh = "absent" /\ p # q.pair
  BY <1>2 DEF Fresh
<1>7. /\ pair' \in [Pairs -> Pair]
      /\ \A o \in Pairs : pair'[o] = IF o = p THEN Issue(g, v)
                                    ELSE IF o = q.pair THEN old ELSE pair[o]
  BY <1>1, <1>2, <1>3, <1>4, <1>5, <1>6, TypeFacts, IssueFacts
<1>8. Grows
  BY <1>1, <1>2, <1>5, <1>6, <1>7 DEF Grows
<1>9. TablesOK'
  <2>1. /\ pair'[p].refresh # "absent" /\ pair'[p].root = v /\ pair'[p].grant = g
    BY <1>6, <1>7, IssueFacts
  <2>2. /\ visit[v].status = "used" /\ grant[g].life # "absent"
        /\ visit[v].user = grant[g].user /\ visit[v].client = grant[g].client
    BY <1>2, <1>3, PairFacts
  <2>3. \A o \in Pairs : pair[o].refresh = "absent" => o = p \/ pair'[o] = pair[o]
    BY <1>2, <1>7
  <2> QED
    BY <1>1, <1>8, <2>1, <2>2, <2>3, TablesOn
<1> QED
  BY <1>1, <1>7, <1>8, <1>9, TypeFacts, DoneStep

\* An exchange uses its code and issues a pair on connection g, which is its user's.
LEMMA ExchangeStep ==
  ASSUME IInv, NEW c \in Calls, NEW q \in Call, call[c] = q, q.op = "exchange",
         NEW g \in Grants, NEW p \in Pairs, pair[p].refresh = "absent",
         UseCode(c), Done(c), pair' \in [Pairs -> Pair], pair'[p] = Issue(g, q.visit),
         \A o \in Pairs : o # p =>
           /\ pair[o].refresh = "absent" => pair'[o] = pair[o]
           /\ pair[o].refresh # "absent" =>
                /\ pair'[o].refresh # "absent"
                /\ pair'[o].root = pair[o].root /\ pair'[o].grant = pair[o].grant
                /\ pair[o].refresh = "stale" => pair'[o].refresh = "stale",
         grant' \in [Grants -> Grant],
         grant'[g].life # "absent", grant'[g].user = q.user, grant'[g].client = q.client,
         grant'[g].scope = q.scope,
         \A h \in Grants :
           /\ grant[h].life # "absent" =>
                /\ grant'[h].life # "absent"
                /\ grant'[h].user = grant[h].user /\ grant'[h].client = grant[h].client
           /\ grant[h].life = "revoked" => grant'[h].life = "revoked"
           /\ h # g => /\ grant'[h].life # "absent" => grant[h].life # "absent"
                       /\ grant'[h].scope = grant[h].scope,
         \A h, i \in Grants :
           /\ grant'[h].life = "active" /\ grant'[i].life = "active"
           /\ grant'[h].user = grant'[i].user /\ grant'[h].client = grant'[i].client
           => h = i \/ (grant[h].life = "active" /\ grant[i].life = "active")
  PROVE  IInv'
<1>1. Knows(q)
  BY CallFacts
<1>2. /\ q.visit \in Visits /\ visit[q.visit].status \in {"approved", "used"}
      /\ visit[q.visit].client = q.client /\ visit[q.visit].user = q.user
      /\ visit[q.visit].given = q.scope
  BY <1>1 DEF Knows
<1>3. PICK r : r = [visit[q.visit] EXCEPT !.status = "used"]
  OBVIOUS
<1>4. /\ r \in Visit /\ r.status = "used" /\ r.client = q.client /\ r.user = q.user
      /\ r.given = q.scope
  BY <1>2, <1>3, TypeFacts DEF Visit
<1>5. /\ visit' \in [Visits -> Visit]
      /\ \A v \in Visits : visit'[v] = IF v = q.visit THEN r ELSE visit[v]
  BY <1>2, <1>3, <1>4, TypeFacts DEF UseCode
<1>6. Grows
  <2>1. \A v \in Visits :
          /\ visit[v].status # "absent" =>
               visit'[v].status # "absent" /\ visit'[v].client = visit[v].client
          /\ visit[v].status \in {"approved", "used"} =>
               /\ visit'[v].status \in {"approved", "used"}
               /\ visit'[v].user = visit[v].user /\ visit'[v].given = visit[v].given
          /\ visit[v].status = "used" => visit'[v].status = "used"
    BY <1>2, <1>4, <1>5
  <2>2. clients' = clients
    BY DEF Done
  <2> QED
    BY <2>1, <2>2 DEF Grows
<1>7. TablesOK'
  <2>1. /\ pair'[p].refresh # "absent" /\ pair'[p].root = q.visit /\ pair'[p].grant = g
    BY <1>2, IssueFacts
  <2>2. /\ visit'[q.visit].status = "used" /\ visit'[q.visit].given = q.scope
        /\ visit'[q.visit].user = q.user /\ visit'[q.visit].client = q.client
    BY <1>2, <1>4, <1>5
  <2>3. \A v \in Visits : visit'[v].status # "absent" => visit[v].status # "absent"
    BY <1>2, <1>5
  <2>4. \A v \in Visits : visit'[v].status \in {"approved", "used"} =>
          visit[v].status \in {"approved", "used"}
    BY <1>2, <1>5
  <2>5. \A o \in Pairs : pair[o].refresh = "absent" =>
           \/ pair'[o] = pair[o]
           \/ /\ pair'[o].refresh # "absent"
              /\ pair'[o].root \in Visits /\ visit'[pair'[o].root].status = "used"
              /\ pair'[o].grant \in Grants /\ grant'[pair'[o].grant].life # "absent"
              /\ visit'[pair'[o].root].user = grant'[pair'[o].grant].user
              /\ visit'[pair'[o].root].client = grant'[pair'[o].grant].client
    BY <1>2, <2>1, <2>2
  <2>6. \A h \in Grants : grant'[h].life # "absent" =>
           \/ grant[h].life # "absent" /\ grant'[h].scope = grant[h].scope
           \/ \E v \in Visits : /\ visit'[v].status = "used" /\ visit'[v].given = grant'[h].scope
                                /\ visit'[v].user = grant'[h].user
                                /\ visit'[v].client = grant'[h].client
    BY <1>2, <2>2
  <2> QED
    BY <1>6, <2>3, <2>4, <2>5, <2>6, TablesOn
<1> QED
  BY <1>5, <1>6, <1>7, DoneStep

LEMMA ReuseInv ==
  ASSUME IInv, NEW c \in Calls, Reuse(c)
  PROVE  IInv'
<1>0. PICK q : q = call[c]
  OBVIOUS
<1>1. PICK p \in Fresh :
        /\ q \in Call /\ Knows(q) /\ q.op = "exchange" /\ q.grant # NoGrant
        /\ grant' = [grant EXCEPT ![q.grant].scope = q.scope, ![q.grant].idle = FALSE]
        /\ pair' = [pair EXCEPT ![p] = Issue(q.grant, q.visit)]
        /\ UseCode(c) /\ Done(c)
  BY <1>0, CallFacts DEF Reuse, Serving
<1>2. /\ q.visit \in Visits /\ q.grant \in Grants /\ grant[q.grant].life # "absent"
      /\ grant[q.grant].user = q.user /\ grant[q.grant].client = q.client
  BY <1>1 DEF Knows
<1>3. PICK r : r = [grant[q.grant] EXCEPT !.scope = q.scope, !.idle = FALSE]
  OBVIOUS
<1>4. /\ r \in Grant /\ r.life = grant[q.grant].life /\ r.user = q.user
      /\ r.client = q.client /\ r.scope = q.scope
  <2>1. PICK was \in Grant, scope \in Scopes : was = grant[q.grant] /\ scope = q.scope
    BY <1>1, <1>2, TypeFacts DEF Call
  <2>2. r = [was EXCEPT !.scope = scope, !.idle = FALSE]
    BY <1>3, <2>1
  <2>3. /\ r \in Grant /\ r.life = was.life /\ r.user = was.user
        /\ r.client = was.client /\ r.scope = scope
    BY <2>2 DEF Grant
  <2> QED
    BY <1>2, <2>1, <2>3
<1>5. /\ grant' \in [Grants -> Grant]
      /\ \A h \in Grants : grant'[h] = IF h = q.grant THEN r ELSE grant[h]
  BY <1>1, <1>2, <1>3, <1>4, TypeFacts
<1>6. p \in Pairs /\ pair[p].refresh = "absent"
  BY DEF Fresh
<1>7. /\ pair' \in [Pairs -> Pair] /\ pair'[p] = Issue(q.grant, q.visit)
      /\ \A o \in Pairs : o # p => pair'[o] = pair[o]
  BY <1>1, <1>2, <1>6, TypeFacts, IssueFacts
<1>8. \A h \in Grants :
           /\ grant'[h].life = grant[h].life
           /\ grant'[h].user = grant[h].user /\ grant'[h].client = grant[h].client
           /\ h # q.grant => grant'[h].scope = grant[h].scope
  BY <1>2, <1>4, <1>5
<1>9. /\ grant'[q.grant].life # "absent" /\ grant'[q.grant].user = q.user
      /\ grant'[q.grant].client = q.client /\ grant'[q.grant].scope = q.scope
  BY <1>2, <1>4, <1>5
<1>10. \A o \in Pairs : o # p =>
           /\ pair[o].refresh = "absent" => pair'[o] = pair[o]
           /\ pair[o].refresh # "absent" =>
                /\ pair'[o].refresh # "absent"
                /\ pair'[o].root = pair[o].root /\ pair'[o].grant = pair[o].grant
                /\ pair[o].refresh = "stale" => pair'[o].refresh = "stale"
  BY <1>7
<1>11. \A h \in Grants :
        /\ grant[h].life # "absent" =>
             /\ grant'[h].life # "absent"
             /\ grant'[h].user = grant[h].user /\ grant'[h].client = grant[h].client
        /\ grant[h].life = "revoked" => grant'[h].life = "revoked"
        /\ h # q.grant => /\ grant'[h].life # "absent" => grant[h].life # "absent"
                          /\ grant'[h].scope = grant[h].scope
  BY <1>8
<1>12. \A h, i \in Grants :
        /\ grant'[h].life = "active" /\ grant'[i].life = "active"
        /\ grant'[h].user = grant'[i].user /\ grant'[h].client = grant'[i].client
        => h = i \/ (grant[h].life = "active" /\ grant[i].life = "active")
  BY <1>8
<1>13. /\ q \in Call /\ call[c] = q /\ q.op = "exchange" /\ UseCode(c) /\ Done(c)
       /\ q.grant \in Grants /\ grant' \in [Grants -> Grant]
  BY <1>0, <1>1, <1>2, <1>5
<1> QED
  BY <1>6, <1>7, <1>9, <1>10, <1>11, <1>12, <1>13, ExchangeStep

LEMMA OpenInv ==
  ASSUME IInv, NEW c \in Calls, Open(c)
  PROVE  IInv'
<1>0. PICK q : q = call[c]
  OBVIOUS
<1> DEFINE old == {q.grant} \ {NoGrant}
<1>1. PICK g \in Grants, p \in Fresh :
        /\ q \in Call /\ Knows(q) /\ q.op = "exchange"
        /\ Admitted(q.user, q.client, old)
        /\ grant[g].life = "absent"
        /\ grant' = [h \in Grants |->
               IF h = g THEN NewGrant(q)
               ELSE IF h \in old THEN [grant[h] EXCEPT !.life = "revoked"] ELSE grant[h]]
        /\ pair' = [WithoutTokens(q.tokens) EXCEPT ![p] = Issue(g, q.visit)]
        /\ UseCode(c) /\ Done(c)
  BY <1>0, CallFacts DEF Open, Serving
<1>2. /\ q.visit \in Visits
      /\ \A h \in old : h \in Grants /\ grant[h].life # "absent"
  BY <1>1 DEF Knows
<1>3. /\ NewGrant(q) \in Grant /\ NewGrant(q).life = "active" /\ NewGrant(q).user = q.user
      /\ NewGrant(q).client = q.client /\ NewGrant(q).scope = q.scope
  BY <1>1 DEF NewGrant, Grant, Call
<1> DEFINE cut(h) == [grant[h] EXCEPT !.life = "revoked"]
<1>4. ASSUME NEW h \in Grants
      PROVE  /\ cut(h) \in Grant /\ cut(h).life = "revoked" /\ cut(h).user = grant[h].user
             /\ cut(h).client = grant[h].client /\ cut(h).scope = grant[h].scope
  BY TypeFacts DEF Grant
<1>5. /\ g \notin old
      /\ Active(q.user, q.client) \subseteq old
  BY <1>1, <1>2 DEF Admitted
<1> HIDE DEF cut, old
<1>6. \A h \in Grants : grant'[h] = IF h = g THEN NewGrant(q)
                                    ELSE IF h \in old THEN cut(h) ELSE grant[h]
  BY <1>1 DEF cut
<1>7. grant' \in [Grants -> Grant]
  <2>1. grant' = [h \in Grants |-> IF h = g THEN NewGrant(q)
                                  ELSE IF h \in old THEN cut(h) ELSE grant[h]]
    BY <1>1 DEF cut
  <2> QED
    BY <2>1, <1>3, <1>4, TypeFacts
<1>8. \A h \in Grants : h # g =>
        /\ grant'[h].user = grant[h].user /\ grant'[h].client = grant[h].client
        /\ grant'[h].scope = grant[h].scope
        /\ h \in old => grant'[h].life = "revoked"
        /\ h \notin old => grant'[h].life = grant[h].life
  BY <1>4, <1>6
<1>9. /\ grant'[g].life = "active" /\ grant'[g].user = q.user
      /\ grant'[g].client = q.client /\ grant'[g].scope = q.scope
  BY <1>3, <1>6
<1>10. \A h \in Grants :
        /\ grant[h].life # "absent" =>
             /\ grant'[h].life # "absent"
             /\ grant'[h].user = grant[h].user /\ grant'[h].client = grant[h].client
        /\ grant[h].life = "revoked" => grant'[h].life = "revoked"
        /\ h # g => /\ grant'[h].life # "absent" => grant[h].life # "absent"
                    /\ grant'[h].scope = grant[h].scope
  BY <1>1, <1>2, <1>8
<1>11. ASSUME NEW h \in Grants, NEW i \in Grants, h # i,
              grant'[h].life = "active", grant'[i].life = "active",
              grant'[h].user = grant'[i].user, grant'[h].client = grant'[i].client
       PROVE  grant[h].life = "active" /\ grant[i].life = "active"
  <2>1. \A j \in Grants : j # g /\ grant'[j].life = "active" =>
          grant[j].life = "active" /\ j \notin old
    BY <1>8
  <2>2. \A j \in Grants : ~(/\ j # g /\ grant'[j].life = "active"
                            /\ grant'[j].user = q.user /\ grant'[j].client = q.client)
    BY <1>5, <1>8, <2>1 DEF Active
  <2> QED
    BY <1>9, <1>11, <2>1, <2>2
<1>12. p \in Pairs /\ pair[p].refresh = "absent"
  BY DEF Fresh
<1>13. \A o \in q.tokens : o \in Pairs /\ pair[o].refresh # "absent"
  BY <1>1 DEF Knows
<1>14. /\ pair' \in [Pairs -> Pair] /\ pair'[p] = Issue(g, q.visit)
       /\ \A o \in Pairs : o # p => pair'[o] = WithoutTokens(q.tokens)[o]
  BY <1>1, <1>2, <1>12, <1>13, WithoutFacts, IssueFacts
<1>15. \A o \in Pairs : o # p =>
           /\ pair[o].refresh = "absent" => pair'[o] = pair[o]
           /\ pair[o].refresh # "absent" =>
                /\ pair'[o].refresh # "absent"
                /\ pair'[o].root = pair[o].root /\ pair'[o].grant = pair[o].grant
                /\ pair[o].refresh = "stale" => pair'[o].refresh = "stale"
  BY <1>13, <1>14, WithoutFacts
<1> QED
  BY <1>0, <1>1, <1>7, <1>9, <1>10, <1>11, <1>12, <1>14, <1>15, ExchangeStep

LEMMA StepInv == IInv /\ [Next]_vars => IInv'
<1> SUFFICES ASSUME IInv, [Next]_vars PROVE IInv'
  OBVIOUS
<1>1. CASE UNCHANGED vars
  BY <1>1 DEF vars, IInv, OTypeOK, TablesOK, ConsentsOK, PairsOK, GrantsOK, Knows
<1>2. CASE \E k \in Clients : RegisterClient(k) \/ \E v \in Visits : Authorize(k, v)
  BY <1>2, RegisterClientInv, AuthorizeInv
<1>3. ASSUME NEW c \in Calls,
             \/ BeginApprove(c) \/ BeginDeny(c) \/ Approve(c) \/ Deny(c)
             \/ BeginRevoke(c) \/ BeginRetiring(c) \/ Retire(c) \/ Leave(c)
      PROVE  IInv'
  BY <1>3, BeginConsentInv, ApproveInv, DenyInv, BeginRevokeInv, BeginRetiringInv,
     RetireInv, LeaveInv
<1>4. ASSUME NEW c \in Calls,
             \/ BeginExchange(c) \/ FindConnection(c) \/ Reuse(c) \/ Open(c)
             \/ BeginRefresh(c) \/ BeginVerify(c) \/ ReadGrant(c) \/ Rotate(c) \/ Touch(c)
      PROVE  IInv'
  BY <1>4, BeginExchangeInv, FindConnectionInv, ReuseInv, OpenInv, BeginRefreshInv,
     BeginVerifyInv, ReadGrantInv, RotateInv, TouchInv
<1>5. CASE \/ \E v \in Visits : ConsentRunsOut(v)
           \/ \E p \in Pairs : TokenAges(p)
           \/ \E g \in Grants : GrantIdles(g)
  BY <1>5, ConsentRunsOutInv, TokenAgesInv, GrantIdlesInv
<1> QED
  BY <1>1, <1>2, <1>3, <1>4, <1>5 DEF Next

\* What a call has read of consents, connections and tokens stays true while others
\* write, and the three tables agree with each other, in every reachable state.
THEOREM OAuthInvariant == Spec => []IInv
<1>1. Init => IInv
  BY InitInv
<1>2. IInv /\ [Next]_vars => IInv'
  BY StepInv
<1> QED
  BY <1>1, <1>2, PTL DEF Spec

\* Every variable keeps its type: the tables of the authorization server and what its
\* calls hold.
THEOREM OAuthTypeCorrect == Spec => []OTypeOK
<1>1. IInv => OTypeOK
  BY DEF IInv
<1> QED
  BY <1>1, OAuthInvariant, PTL

\* However many consents are exchanged at once, and whichever of them finds the
\* connection idle, a user has one active connection with a client (upsertGrant and its
\* unique index).
THEOREM OneConnectionEach == Spec => []OneConnection
<1>1. ASSUME IInv PROVE OneConnection
  <2> SUFFICES ASSUME NEW u \in Users, NEW k \in Clients
               PROVE  Cardinality(Active(u, k)) <= 1
    BY DEF OneConnection
  <2>1. \A g, h \in Active(u, k) : g = h
    BY <1>1 DEF Active, IInv, TablesOK, GrantsOK
  <2>2. CASE Active(u, k) = {}
    BY <2>2, FS_EmptySet
  <2>3. ASSUME NEW g \in Active(u, k) PROVE Cardinality(Active(u, k)) <= 1
    <3>1. Active(u, k) = {g}
      BY <2>1
    <3> QED
      BY <3>1, FS_Singleton
  <2> QED
    BY <2>2, <2>3
<1> QED
  BY <1>1, OAuthInvariant, PTL

\* Every token stands on a consent of the user whose connection it opens, and a
\* connection allows what a consent of its user allowed (exchangeCode, upsertGrant, with
\* any of the calls interleaved).
THEOREM ConsentStands == Spec => []ConsentBehindEveryToken
<1>1. ASSUME IInv PROVE ConsentBehindEveryToken
  <2>1. ASSUME NEW p \in Pairs \ Fresh
        PROVE  LET v == visit[pair[p].root]
                   g == grant[pair[p].grant]
               IN /\ v.status = "used" /\ v.user = g.user /\ v.client = g.client
                  /\ v.client \in clients
    <3>1. p \in Pairs /\ pair[p].refresh # "absent"
      BY DEF Fresh
    <3>2. \A v \in Visits : visit[v].status = "used" => visit[v].client \in clients
      BY <1>1 DEF IInv, TablesOK, ConsentsOK
    <3> QED
      BY <1>1, <3>1, <3>2, PairFacts
  <2>2. \A g \in Grants : grant[g].life # "absent" =>
          \E v \in Visits : /\ visit[v].status = "used" /\ visit[v].given = grant[g].scope
                            /\ visit[v].user = grant[g].user
                            /\ visit[v].client = grant[g].client
    BY <1>1 DEF IInv, TablesOK, GrantsOK
  <2> QED
    BY <2>1, <2>2 DEF ConsentBehindEveryToken
<1> QED
  BY <1>1, OAuthInvariant, PTL

\* A call that began after its connection was revoked never passes the checks of refresh
\* and VerifyAccess: a connection that was revoked stays so until the call reads it.
THEOREM RevocationReaches == Spec => []RevocationIsEffective
<1>1. IInv => RevocationIsEffective
  BY CallFacts DEF RevocationIsEffective, Serving, Knows
<1> QED
  BY <1>1, OAuthInvariant, PTL

\* A connection is cut off by its owner, for a refresh token replayed after the grace
\* period, or by an exchange that opens another in its place (revokeGrant has no other
\* caller, and each of them checked its reason before).
THEOREM NobodyIsCutOff == Spec => RevokedOnlyForCause
<1> DEFINE Cut(g) ==
             \/ \E c \in Calls : Serving(c, {"revoke"}, "retiring")
                                   /\ call[c].grant = g /\ call[c].user = grant[g].user
             \/ \E p \in Pairs : pair[p].grant = g /\ pair[p].refresh = "stale"
             \/ \E h \in Grants : /\ grant[h].life = "absent" /\ grant'[h].life = "active"
                                  /\ grant'[h].user = grant[g].user
                                  /\ grant'[h].client = grant[g].client
<1>1. ASSUME IInv, [Next]_vars, NEW g \in Grants,
             grant[g].life = "active", grant'[g].life = "revoked"
      PROVE  Cut(g)
  <2>1. \/ grant' = grant
        \/ \E c \in Calls : Retire(c) \/ Reuse(c) \/ Open(c) \/ Touch(c)
        \/ \E h \in Grants : GrantIdles(h)
    BY <1>1 DEF vars, Next, RegisterClient, Authorize, BeginApprove, BeginDeny, Begin,
       Advance, Approve, Deny, BeginRevoke, BeginRetiring, BeginExchange, FindConnection,
       BeginRefresh, BeginVerify, ReadGrant, Rotate, Leave, ConsentRunsOut, TokenAges
  <2>2. ASSUME NEW c \in Calls, Retire(c) PROVE Cut(g)
    <3>1. PICK q : q = call[c] /\ q \in Call /\ Knows(q)
      BY <1>1, CallFacts
    <3>2. /\ q.op \in {"revoke", "refresh"} /\ q.pc = "retiring"
          /\ grant' = [grant EXCEPT ![q.grant].life = "revoked"]
      BY <2>2, <3>1 DEF Retire, Serving
    <3>3. q.grant = g
      BY <1>1, <3>2, TypeFacts
    <3>4. CASE q.op = "revoke"
      BY <3>1, <3>2, <3>3, <3>4 DEF Serving, Knows
    <3>5. CASE q.op = "refresh"
      BY <3>1, <3>2, <3>3, <3>5 DEF Knows
    <3> QED
      BY <3>2, <3>4, <3>5
  <2>3. ASSUME NEW c \in Calls, Open(c) PROVE Cut(g)
    <3>1. PICK q : q = call[c] /\ q \in Call /\ Knows(q)
      BY <1>1, CallFacts
    <3>2. PICK h \in Grants :
            /\ grant[h].life = "absent" /\ q.op = "exchange"
            /\ grant' = [i \in Grants |->
                 IF i = h THEN NewGrant(q)
                 ELSE IF i \in {q.grant} \ {NoGrant}
                        THEN [grant[i] EXCEPT !.life = "revoked"] ELSE grant[i]]
      BY <2>3, <3>1 DEF Open, Serving
    <3>3. /\ grant'[h].life = "active" /\ grant'[h].user = q.user
          /\ grant'[h].client = q.client
      BY <3>2 DEF NewGrant
    <3>4. g = q.grant /\ q.grant # NoGrant
      BY <1>1, <3>2
    <3>5. grant[g].user = q.user /\ grant[g].client = q.client
      BY <3>1, <3>2, <3>4 DEF Knows
    <3> QED
      BY <3>2, <3>3, <3>5
  <2>4. ASSUME NEW c \in Calls, Reuse(c) \/ Touch(c) PROVE FALSE
    <3>1. PICK h : h = call[c].grant
      OBVIOUS
    <3>2. \/ grant' = [grant EXCEPT ![h].scope = call[c].scope, ![h].idle = FALSE]
          \/ grant' = [grant EXCEPT ![h].idle = FALSE]
      BY <2>4, <3>1 DEF Reuse, Touch, Touched
    <3> QED
      BY <1>1, <3>2, TypeFacts DEF Grant
  <2>5. ASSUME NEW h \in Grants, GrantIdles(h) PROVE FALSE
    BY <1>1, <2>5, TypeFacts DEF GrantIdles, Grant
  <2> QED
    BY <1>1, <2>1, <2>2, <2>3, <2>4, <2>5
<1>2. IInv /\ [Next]_vars =>
        [\A g \in Grants : grant[g].life = "active" /\ grant'[g].life = "revoked" => Cut(g)]_vars
  BY <1>1
<1>3. Spec => [][\A g \in Grants : grant[g].life = "active" /\ grant'[g].life = "revoked"
                                   => Cut(g)]_vars
  BY <1>2, OAuthInvariant, PTL DEF Spec
<1> QED
  BY <1>3 DEF RevokedOnlyForCause

---------------------------------------------------------------------------------
(* OAuth implements TokenLine.  To the invariant this adds that an         *)
(* exchange which has used its code holds it alone (CodesOK), and that a   *)
(* consent has one unrevoked refresh token at most (SingleLine).           *)

\* An exchange has marked its code, in a transaction that is under way.
Holds(q) == q.op = "exchange" /\ q.pc \in {"passed", "retire", "retiring"}

CodesOK ==
  /\ \A c \in Calls : Holds(call[c]) => visit[call[c].visit].status = "approved"
  /\ \A c, d \in Calls : c # d /\ Holds(call[c]) /\ Holds(call[d]) =>
       call[c].visit # call[d].visit

SingleLine == \A v \in Visits : \A p, o \in LineOf(v) : p = o

LineInv == IInv /\ CodesOK /\ SingleLine

---------------------------------------------------------------------------------
(* What each step does to the lines.                                       *)

SameStatus == \A v \in Visits : visit'[v].status = visit[v].status

Shrinks ==
  /\ SameStatus
  /\ Fresh' = Fresh
  /\ \A v \in Visits : LineOf(v)' \subseteq LineOf(v)

Decides ==
  /\ Fresh' = Fresh
  /\ \A v \in Visits : LineOf(v)' = LineOf(v)
  /\ \E v \in Visits, step \in {<<"absent", "pending">>, <<"pending", "approved">>,
                                <<"pending", "denied">>} :
       /\ visit[v].status = step[1]
       /\ \A w \in Visits : visit'[w].status = IF w = v THEN step[2] ELSE visit[w].status

Rotates ==
  /\ SameStatus
  /\ \E v \in Visits, p \in Fresh :
       /\ Fresh' = Fresh \ {p}
       /\ LineOf(v) # {} /\ LineOf(v)' = {p}
       /\ \A w \in Visits \ {v} : LineOf(w)' = LineOf(w)

Exchanges ==
  \E v \in Visits, p \in Fresh :
    /\ visit[v].status = "approved"
    /\ \A w \in Visits : visit'[w].status = IF w = v THEN "used" ELSE visit[w].status
    /\ Fresh' = Fresh \ {p}
    /\ LineOf(v)' = {p}
    /\ \A w \in Visits \ {v} : LineOf(w)' \subseteq LineOf(w)

Moves == Shrinks \/ Decides \/ Rotates \/ Exchanges

\* A consent that was not exchanged has no tokens.
LEMMA NoLineYet ==
  ASSUME IInv, NEW v \in Visits, visit[v].status # "used"
  PROVE  LineOf(v) = {}
BY DEF LineOf, Unrevoked, IInv, TablesOK, PairsOK

LEMMA QuietStep ==
  ASSUME SameStatus, UNCHANGED pair
  PROVE  Moves
BY DEF Moves, Shrinks, Fresh, LineOf, Unrevoked

\* Tokens are revoked or age.
LEMMA ShrinkStep ==
  ASSUME SameStatus,
         \A p \in Pairs :
           /\ pair'[p].root = pair[p].root
           /\ pair'[p].refresh = "absent" <=> pair[p].refresh = "absent"
           /\ pair'[p].refresh \in {"live", "expired"} =>
                pair[p].refresh \in {"live", "expired"}
  PROVE  Moves
BY DEF Moves, Shrinks, Fresh, LineOf, Unrevoked

\* One consent is parked, approved or denied.
LEMMA DecideStep ==
  ASSUME IInv, UNCHANGED pair, NEW v \in Visits,
         NEW from, NEW to, visit[v].status = from,
         <<from, to>> \in {<<"absent", "pending">>, <<"pending", "approved">>,
                           <<"pending", "denied">>},
         \A w \in Visits : visit'[w].status = IF w = v THEN to ELSE visit[w].status
  PROVE  Moves
<1>1. Fresh' = Fresh /\ \A w \in Visits : LineOf(w)' = LineOf(w)
  BY DEF Fresh, LineOf, Unrevoked
<1>2. PICK step \in {<<"absent", "pending">>, <<"pending", "approved">>,
                     <<"pending", "denied">>} : step[1] = from /\ step[2] = to
  OBVIOUS
<1>3. Decides
  BY <1>1, <1>2 DEF Decides
<1> QED
  BY <1>3 DEF Moves

LEMMA WithoutLine ==
  ASSUME IInv, NEW ps, NEW p \in Pairs
  PROVE  /\ WithoutTokens(ps)[p].root = pair[p].root
         /\ WithoutTokens(ps)[p].refresh = "absent" <=> pair[p].refresh = "absent"
         /\ WithoutTokens(ps)[p].refresh \in {"live", "expired"} =>
              pair[p].refresh \in {"live", "expired"}
<1> DEFINE then == IF Unrevoked(p) THEN "revoked" ELSE pair[p].refresh
           dead == [pair[p] EXCEPT !.access = "dead", !.refresh = then]
<1>1. /\ then = "absent" <=> pair[p].refresh = "absent"
      /\ then \notin {"live", "expired"} /\ then \in {"absent", "live", "expired", "revoked", "stale"}
      /\ pair[p] \in Pair
  BY TypeFacts DEF Unrevoked, Pair
<1>2. WithoutTokens(ps)[p] = IF p \in ps THEN dead ELSE pair[p]
  BY DEF WithoutTokens
<1> HIDE DEF then
<1>3. dead.refresh = then /\ dead.root = pair[p].root
  BY <1>1 DEF Pair
<1> HIDE DEF dead
<1> QED
  BY <1>1, <1>2, <1>3

LEMMA RotateMoves ==
  ASSUME LineInv, NEW c \in Calls, Rotate(c)
  PROVE  Moves
<1>0. IInv /\ SingleLine
  BY DEF LineInv
<1>1. PICK q : q = call[c] /\ q \in Call /\ Knows(q)
  BY <1>0, CallFacts
<1>2. PICK p \in Fresh :
        /\ q.op = "refresh" /\ pair[q.pair].refresh \in {"live", "expired"}
        /\ pair' = [pair EXCEPT ![q.pair].refresh = "revoked",
                                ![p] = Issue(q.grant, pair[q.pair].root)]
        /\ visit' = visit
  BY <1>1 DEF Rotate, RevokesOne, Unrevoked, Serving
<1>3. q.pair \in Pairs /\ p \in Pairs /\ pair[p].refresh = "absent" /\ p # q.pair
  BY <1>1, <1>2 DEF Knows, Fresh
<1>4. PICK v \in Visits : v = pair[q.pair].root
  BY <1>0, <1>2, <1>3, PairFacts, Zenon
<1>5. Issue(q.grant, v).root = v /\ Issue(q.grant, v).refresh = "live"
  BY DEF Issue
<1>6. PICK old : old = [pair[q.pair] EXCEPT !.refresh = "revoked"]
  OBVIOUS
<1>7. old.refresh = "revoked" /\ old.root = v
  BY <1>0, <1>3, <1>4, <1>6, TypeFacts DEF Pair
<1>8. \A o \in Pairs : pair'[o] = IF o = p THEN Issue(q.grant, v)
                                  ELSE IF o = q.pair THEN old ELSE pair[o]
  BY <1>0, <1>2, <1>3, <1>4, <1>6, TypeFacts
<1>9. Fresh' = Fresh \ {p}
  BY <1>2, <1>3, <1>5, <1>7, <1>8 DEF Fresh
<1>10. LineOf(v) = {q.pair}
  BY <1>0, <1>2, <1>3, <1>4 DEF SingleLine, LineOf, Unrevoked
<1>11. LineOf(v)' = {p}
  <2>1. \A o \in Pairs : pair[o].root = v /\ pair[o].refresh \in {"live", "expired"} => o = q.pair
    BY <1>10 DEF LineOf, Unrevoked
  <2> QED
    BY <1>3, <1>5, <1>7, <1>8, <2>1 DEF LineOf, Unrevoked
<1>12. \A w \in Visits \ {v} : LineOf(w)' = LineOf(w)
  BY <1>3, <1>4, <1>5, <1>7, <1>8 DEF LineOf, Unrevoked
<1>13. SameStatus
  BY <1>2 DEF SameStatus
<1>14. Rotates
  BY <1>9, <1>10, <1>11, <1>12, <1>13 DEF Rotates
<1> QED
  BY <1>14 DEF Moves

\* An exchange that holds its code issues the first pair of the line.
LEMMA ExchangeMoves ==
  ASSUME LineInv, NEW c \in Calls, Holds(call[c]), UseCode(c), NEW p \in Fresh, NEW g,
         pair'[p] = Issue(g, call[c].visit),
         \A o \in Pairs : o # p =>
           /\ pair'[o].root = pair[o].root
           /\ pair'[o].refresh = "absent" <=> pair[o].refresh = "absent"
           /\ pair'[o].refresh \in {"live", "expired"} =>
                pair[o].refresh \in {"live", "expired"}
  PROVE  Moves
<1>0. IInv /\ CodesOK
  BY DEF LineInv
<1>1. PICK q : q = call[c] /\ q \in Call /\ Knows(q)
  BY <1>0, CallFacts
<1>2. PICK v \in Visits : v = q.visit
  BY <1>1 DEF Knows, Holds
<1>3. visit[v].status = "approved"
  BY <1>0, <1>1, <1>2 DEF CodesOK
<1>4. \A w \in Visits : visit'[w].status = IF w = v THEN "used" ELSE visit[w].status
  BY <1>0, <1>1, <1>2, TypeFacts DEF UseCode, Visit
<1>5. Issue(g, v).root = v /\ Issue(g, v).refresh = "live"
  BY DEF Issue
<1>6. p \in Pairs /\ pair[p].refresh = "absent" /\ pair'[p] = Issue(g, v)
  BY <1>1, <1>2 DEF Fresh
<1>7. Fresh' = Fresh \ {p}
  BY <1>5, <1>6 DEF Fresh
<1>8. LineOf(v) = {}
  BY <1>0, <1>3, NoLineYet
<1>9. LineOf(v)' = {p}
  <2>1. \A o \in Pairs : pair[o].refresh \in {"live", "expired"} => pair[o].root # v
    BY <1>8 DEF LineOf, Unrevoked
  <2> QED
    BY <1>5, <1>6, <2>1 DEF LineOf, Unrevoked
<1>10. \A w \in Visits \ {v} : LineOf(w)' \subseteq LineOf(w)
  BY <1>5, <1>6 DEF LineOf, Unrevoked
<1>11. Exchanges
  BY <1>3, <1>4, <1>6, <1>7, <1>9, <1>10 DEF Exchanges
<1> QED
  BY <1>11 DEF Moves

LEMMA StepMoves == LineInv /\ [Next]_vars => Moves
<1> SUFFICES ASSUME LineInv, [Next]_vars PROVE Moves
  OBVIOUS
<1>0. IInv
  BY DEF LineInv
<1>1. CASE UNCHANGED <<visit, pair>>
  BY <1>1, QuietStep DEF SameStatus
<1>2. ASSUME NEW k \in Clients, NEW v \in Visits, Authorize(k, v) PROVE Moves
  <2>1. \A w \in Visits : visit'[w].status = IF w = v THEN "pending" ELSE visit[w].status
    BY <1>0, <1>2, TypeFacts DEF Authorize, Parked, Visit
  <2> QED
    BY <1>0, <1>2, <2>1, DecideStep DEF Authorize
<1>3. ASSUME NEW c \in Calls, Approve(c) PROVE Moves
  <2>1. PICK v : v = call[c].visit
    OBVIOUS
  <2>2. v \in Visits /\ visit[v].status = "pending"
    BY <1>0, <1>3, <2>1, CallFacts DEF Approve, InStatus, Serving, Knows
  <2>3. \A w \in Visits : visit'[w].status = IF w = v THEN "approved" ELSE visit[w].status
    BY <1>0, <1>3, <2>1, <2>2, TypeFacts DEF Approve, Visit
  <2> QED
    BY <1>0, <1>3, <2>2, <2>3, DecideStep DEF Approve
<1>4. ASSUME NEW c \in Calls, Deny(c) PROVE Moves
  <2>1. PICK v : v = call[c].visit
    OBVIOUS
  <2>2. v \in Visits /\ visit[v].status = "pending"
    BY <1>0, <1>4, <2>1, CallFacts DEF Deny, InStatus, Serving, Knows
  <2>3. \A w \in Visits : visit'[w].status = IF w = v THEN "denied" ELSE visit[w].status
    BY <1>0, <1>4, <2>1, <2>2, TypeFacts DEF Deny, Visit
  <2> QED
    BY <1>0, <1>4, <2>2, <2>3, DecideStep DEF Deny
<1>5. ASSUME NEW c \in Calls, Retire(c) PROVE Moves
  <2>1. pair' = WithoutTokens(call[c].tokens) /\ visit' = visit
    BY <1>5 DEF Retire
  <2> QED
    BY <1>0, <2>1, WithoutLine, ShrinkStep DEF SameStatus
<1>6. ASSUME NEW v \in Visits, ConsentRunsOut(v) PROVE Moves
  <2>1. SameStatus
    BY <1>0, <1>6, TypeFacts DEF ConsentRunsOut, SameStatus, Visit
  <2> QED
    BY <1>6, <2>1, QuietStep DEF ConsentRunsOut
<1>7. ASSUME NEW p \in Pairs, TokenAges(p) PROVE Moves
  <2>1. SameStatus
    BY <1>7 DEF TokenAges, SameStatus
  <2>2. \A o \in Pairs :
           /\ pair'[o].root = pair[o].root
           /\ pair'[o].refresh = "absent" <=> pair[o].refresh = "absent"
           /\ pair'[o].refresh \in {"live", "expired"} =>
                pair[o].refresh \in {"live", "expired"}
    BY <1>0, <1>7, TypeFacts DEF TokenAges, Pair
  <2> QED
    BY <2>1, <2>2, ShrinkStep
<1>8. ASSUME NEW c \in Calls, Reuse(c) PROVE Moves
  <2>1. PICK q : q = call[c]
    OBVIOUS
  <2>2. PICK p \in Fresh : pair' = [pair EXCEPT ![p] = Issue(q.grant, q.visit)]
    BY <1>8, <2>1 DEF Reuse
  <2>3. UseCode(c) /\ Holds(q)
    BY <1>8, <2>1 DEF Reuse, Serving, Holds
  <2>4. /\ pair'[p] = Issue(q.grant, q.visit)
        /\ \A o \in Pairs : o # p => pair'[o] = pair[o]
    BY <1>0, <2>2, TypeFacts DEF Fresh
  <2> QED
    BY <2>1, <2>3, <2>4, ExchangeMoves
<1>9. ASSUME NEW c \in Calls, Open(c) PROVE Moves
  <2>1. PICK q : q = call[c]
    OBVIOUS
  <2>2. PICK g \in Grants, p \in Fresh :
          pair' = [WithoutTokens(q.tokens) EXCEPT ![p] = Issue(g, q.visit)]
    BY <1>9, <2>1 DEF Open
  <2>3. UseCode(c) /\ Holds(q)
    BY <1>9, <2>1 DEF Open, Serving, Holds
  <2>4. /\ pair'[p] = Issue(g, q.visit)
        /\ \A o \in Pairs : o # p => pair'[o] = WithoutTokens(q.tokens)[o]
    BY <2>2 DEF Fresh, WithoutTokens
  <2>5. \A o \in Pairs : o # p =>
           /\ pair'[o].root = pair[o].root
           /\ pair'[o].refresh = "absent" <=> pair[o].refresh = "absent"
           /\ pair'[o].refresh \in {"live", "expired"} =>
                pair[o].refresh \in {"live", "expired"}
    BY <1>0, <2>4, WithoutLine
  <2> QED
    BY <2>1, <2>3, <2>4, <2>5, ExchangeMoves
<1>10. ASSUME NEW c \in Calls, Rotate(c) PROVE Moves
  BY <1>10, RotateMoves
<1>11. \/ UNCHANGED <<visit, pair>>
       \/ \E k \in Clients, v \in Visits : Authorize(k, v)
       \/ \E c \in Calls : \/ Approve(c) \/ Deny(c) \/ Retire(c) \/ Reuse(c)
                           \/ Open(c) \/ Rotate(c)
       \/ \E v \in Visits : ConsentRunsOut(v)
       \/ \E p \in Pairs : TokenAges(p)
  BY DEF vars, Next, RegisterClient, BeginApprove, BeginDeny, Begin, Advance, BeginRevoke,
     BeginRetiring, BeginExchange, FindConnection, BeginRefresh, BeginVerify, ReadGrant,
     Touch, Leave, GrantIdles
<1> QED
  BY <1>1, <1>2, <1>3, <1>4, <1>5, <1>6, <1>7, <1>8, <1>9, <1>10, <1>11

LEMMA MovesSingle == SingleLine /\ Moves => SingleLine'
<1> SUFFICES ASSUME SingleLine, Moves, NEW v \in Visits PROVE \A p, o \in LineOf(v)' : p = o
  BY DEF SingleLine
<1>1. LineOf(v)' \subseteq LineOf(v) \/ \E p : LineOf(v)' = {p}
  BY DEF Moves, Shrinks, Decides, Rotates, Exchanges
<1> QED
  BY <1>1 DEF SingleLine

---------------------------------------------------------------------------------
(* Codes are held by one exchange each.                                    *)

LEMMA CodesStay ==
  ASSUME IInv, CodesOK, NEW c \in Calls, NEW q, call' = [call EXCEPT ![c] = q],
         \A d \in Calls : d # c /\ Holds(call[d]) =>
           visit'[call[d].visit].status = "approved",
         Holds(q) => /\ visit'[q.visit].status = "approved"
                     /\ \A d \in Calls : d # c /\ Holds(call[d]) => call[d].visit # q.visit
  PROVE  CodesOK'
<1>1. \A d \in Calls : call'[d] = IF d = c THEN q ELSE call[d]
  BY DEF IInv, OTypeOK
<1>2. \A d \in Calls : Holds(call[d])' <=> IF d = c THEN Holds(q) ELSE Holds(call[d])
  BY <1>1 DEF Holds
<1> QED
  BY <1>1, <1>2 DEF CodesOK

LEMMA AdvanceCodes ==
  ASSUME IInv, CodesOK, NEW c \in Calls, NEW q, Advance(c, q),
         Holds(q) => Holds(call[c]) /\ q.visit = call[c].visit
  PROVE  CodesOK'
<1>1. call' = [call EXCEPT ![c] = q] /\ visit' = visit
  BY DEF Advance
<1>2. \A d \in Calls : d # c /\ Holds(call[d]) => visit'[call[d].visit].status = "approved"
  BY <1>1 DEF CodesOK
<1>3. Holds(q) => /\ visit'[q.visit].status = "approved"
                  /\ \A d \in Calls : d # c /\ Holds(call[d]) => call[d].visit # q.visit
  BY <1>1 DEF CodesOK
<1> QED
  BY <1>1, <1>2, <1>3, CodesStay

LEMMA DoneCodes ==
  ASSUME IInv, CodesOK, NEW c \in Calls, Done(c),
         \A d \in Calls : d # c /\ Holds(call[d]) =>
           visit'[call[d].visit].status = "approved"
  PROVE  CodesOK'
<1>1. call' = [call EXCEPT ![c] = NoCall] /\ ~Holds(NoCall)
  BY DEF Done, Holds, NoCall
<1> QED
  BY <1>1, CodesStay

LEMMA StillCodes ==
  ASSUME CodesOK, UNCHANGED call,
         \A c \in Calls : Holds(call[c]) => visit'[call[c].visit].status = "approved"
  PROVE  CodesOK'
BY DEF CodesOK, Holds

LEMMA CodesKept == LineInv /\ [Next]_vars => CodesOK'
<1> SUFFICES ASSUME LineInv, [Next]_vars PROVE CodesOK'
  OBVIOUS
<1>0. IInv /\ CodesOK
  BY DEF LineInv
<1>1. \A d \in Calls : Holds(call[d]) =>
        call[d].visit \in Visits /\ visit[call[d].visit].status = "approved"
  BY <1>0, CallFacts DEF CodesOK, Holds, Knows
<1>2. CASE UNCHANGED <<visit, call>>
  BY <1>0, <1>1, <1>2, StillCodes
<1>3. ASSUME NEW k \in Clients, NEW v \in Visits, Authorize(k, v) PROVE CodesOK'
  <2>1. \A w \in Visits : w # v => visit'[w] = visit[w]
    BY <1>0, <1>3, TypeFacts DEF Authorize, Parked
  <2> QED
    BY <1>0, <1>1, <1>3, <2>1, StillCodes DEF Authorize
<1>4. ASSUME NEW v \in Visits, ConsentRunsOut(v) PROVE CodesOK'
  <2>1. \A w \in Visits : visit'[w].status = visit[w].status
    BY <1>0, <1>4, TypeFacts DEF ConsentRunsOut, Visit
  <2> QED
    BY <1>0, <1>1, <1>4, <2>1, StillCodes DEF ConsentRunsOut
<1>5. ASSUME NEW c \in Calls, Leave(c) \/ Retire(c) \/ Rotate(c) \/ Touch(c) PROVE CodesOK'
  <2>1. Done(c) /\ visit' = visit
    BY <1>5 DEF Leave, Retire, Rotate, Touch
  <2> QED
    BY <1>0, <1>1, <2>1, DoneCodes
<1>6. ASSUME NEW c \in Calls, Approve(c) \/ Deny(c) PROVE CodesOK'
  <2>1. Done(c) /\ visit[call[c].visit].status = "pending"
    BY <1>6 DEF Approve, Deny, InStatus
  <2>2. \A w \in Visits : w # call[c].visit => visit'[w] = visit[w]
    BY <1>0, <1>6, TypeFacts DEF Approve, Deny
  <2> QED
    BY <1>0, <1>1, <2>1, <2>2, DoneCodes
<1>7. ASSUME NEW c \in Calls, Reuse(c) \/ Open(c) PROVE CodesOK'
  <2>1. Done(c) /\ UseCode(c) /\ Holds(call[c])
    BY <1>7 DEF Reuse, Open, Serving, Holds
  <2>2. \A w \in Visits : w # call[c].visit => visit'[w] = visit[w]
    BY <1>0, <2>1, TypeFacts DEF UseCode
  <2> QED
    BY <1>0, <1>1, <2>1, <2>2, DoneCodes DEF CodesOK
<1>8. ASSUME NEW c \in Calls,
             \/ BeginApprove(c) \/ BeginDeny(c) \/ BeginExchange(c) \/ BeginRefresh(c)
             \/ BeginVerify(c) \/ BeginRevoke(c)
      PROVE  CodesOK'
  <2>1. \E q : Advance(c, q) /\ (q.pc = "read" \/ q.op = "revoke")
    <3>1. ASSUME NEW op, NEW q, Begin(c, op, q), "pc" \in DOMAIN q
          PROVE  \E s : Advance(c, s) /\ (s.pc = "read" \/ s.op = "revoke")
      <4>1. PICK s : s = [q EXCEPT !.pc = "read", !.op = op]
        OBVIOUS
      <4>3. s.pc = "read"
        BY <3>1, <4>1
      <4> QED
        BY <3>1, <4>1, <4>3 DEF Begin
    <3>2. CASE BeginRevoke(c)
      <4>1. PICK u \in Users, g \in Grants :
              Advance(c, [NoCall EXCEPT !.pc = "retire", !.op = "revoke", !.user = u,
                                        !.grant = g])
        BY <3>2 DEF BeginRevoke
      <4>2. [NoCall EXCEPT !.pc = "retire", !.op = "revoke", !.user = u, !.grant = g].op
              = "revoke"
        BY DEF NoCall
      <4> QED
        BY <4>1, <4>2
    <3>3. CASE BeginApprove(c)
      <4>1. PICK u \in Users, v \in Visits, scope \in Scopes :
              Begin(c, "approve", [NoCall EXCEPT !.user = u, !.visit = v, !.scope = scope])
        BY <3>3 DEF BeginApprove
      <4>2. "pc" \in DOMAIN [NoCall EXCEPT !.user = u, !.visit = v, !.scope = scope]
        BY DEF NoCall
      <4> QED
        BY <3>1, <4>1, <4>2
    <3>4. CASE BeginDeny(c)
      <4>1. PICK u \in Users, v \in Visits :
              Begin(c, "deny", [NoCall EXCEPT !.user = u, !.visit = v])
        BY <3>4 DEF BeginDeny
      <4>2. "pc" \in DOMAIN [NoCall EXCEPT !.user = u, !.visit = v]
        BY DEF NoCall
      <4> QED
        BY <3>1, <4>1, <4>2
    <3>5. CASE BeginExchange(c)
      <4>1. PICK k \in Clients, v \in Visits :
              Begin(c, "exchange", [NoCall EXCEPT !.client = k, !.visit = v,
                         !.user = visit[v].user, !.scope = visit[v].given])
        BY <3>5 DEF BeginExchange
      <4>2. "pc" \in DOMAIN [NoCall EXCEPT !.client = k, !.visit = v,
                         !.user = visit[v].user, !.scope = visit[v].given]
        BY DEF NoCall
      <4> QED
        BY <3>1, <4>1, <4>2
    <3>6. CASE BeginRefresh(c)
      <4>1. PICK k \in Clients, p \in Pairs \ Fresh :
              Begin(c, "refresh", [Presented(p) EXCEPT !.client = k, !.revoked = ~Unrevoked(p)])
        BY <3>6 DEF BeginRefresh
      <4>2. "pc" \in DOMAIN [Presented(p) EXCEPT !.client = k, !.revoked = ~Unrevoked(p)]
        BY DEF NoCall, Presented
      <4> QED
        BY <3>1, <4>1, <4>2
    <3>7. CASE BeginVerify(c)
      <4>1. PICK p \in Pairs :
              Begin(c, "verify", Presented(p))
        BY <3>7 DEF BeginVerify
      <4>2. "pc" \in DOMAIN Presented(p)
        BY DEF NoCall, Presented
      <4> QED
        BY <3>1, <4>1, <4>2
    <3> QED
      BY <1>8, <3>2, <3>3, <3>4, <3>5, <3>6, <3>7
  <2>2. PICK q : Advance(c, q) /\ (q.pc = "read" \/ q.op = "revoke")
    BY <2>1
  <2>3. ~Holds(q)
    BY <2>2 DEF Holds
  <2> QED
    BY <1>0, <2>2, <2>3, AdvanceCodes
<1>9. ASSUME NEW c \in Calls, BeginRetiring(c) \/ ReadGrant(c) PROVE CodesOK'
  <2>1. PICK old : old = call[c] /\ old \in Call
    BY <1>0, CallFacts
  <2>2. PICK q : /\ Advance(c, q) /\ q.op = old.op /\ q.visit = old.visit
                 /\ old.op = "exchange" => old.pc = "retire"
    <3>1. CASE BeginRetiring(c)
      <4>1. PICK tokens : Advance(c, [old EXCEPT !.pc = "retiring", !.tokens = tokens])
        BY <2>1, <3>1 DEF BeginRetiring
      <4>2. PICK q : q = [old EXCEPT !.pc = "retiring", !.tokens = tokens]
        OBVIOUS
      <4>3. q.op = old.op /\ q.visit = old.visit
        BY <2>1, <4>2 DEF Call
      <4> QED
        BY <2>1, <3>1, <4>1, <4>2, <4>3 DEF BeginRetiring
    <3>2. CASE ReadGrant(c)
      <4>1. PICK pc : Advance(c, [old EXCEPT !.pc = pc])
        BY <2>1, <3>2 DEF ReadGrant
      <4>2. PICK q : q = [old EXCEPT !.pc = pc]
        OBVIOUS
      <4>3. q.op = old.op /\ q.visit = old.visit
        BY <2>1, <4>2 DEF Call
      <4> QED
        BY <2>1, <3>2, <4>1, <4>2, <4>3 DEF ReadGrant, Serving
    <3> QED
      BY <1>9, <3>1, <3>2
  <2>3. Holds(q) => Holds(old)
    BY <2>2 DEF Holds
  <2> QED
    BY <1>0, <2>1, <2>2, <2>3, AdvanceCodes
<1>10. ASSUME NEW c \in Calls, FindConnection(c) PROVE CodesOK'
  <2>1. PICK old : old = call[c] /\ old \in Call
    BY <1>0, CallFacts
  <2>2. PICK q : Advance(c, q) /\ q.visit = old.visit
    <3>1. \/ Advance(c, [old EXCEPT !.pc = "passed"])
          \/ \E g : Advance(c, [old EXCEPT !.grant = g,
                                  !.pc = IF Usable(g) THEN "passed" ELSE "retire"])
      <4>1. \/ Advance(c, [call[c] EXCEPT !.pc = "passed"])
            \/ \E g \in Active(call[c].user, call[c].client) :
                 Advance(c, [call[c] EXCEPT !.grant = g,
                               !.pc = IF Usable(g) THEN "passed" ELSE "retire"])
        BY <1>10, Zenon DEF FindConnection
      <4> QED
        BY <2>1, <4>1, Zenon
    <3>2. [old EXCEPT !.pc = "passed"].visit = old.visit
      BY <2>1 DEF Call
    <3>3. \A g : [old EXCEPT !.grant = g,
                    !.pc = IF Usable(g) THEN "passed" ELSE "retire"].visit = old.visit
      BY <2>1 DEF Call
    <3>4. CASE Advance(c, [old EXCEPT !.pc = "passed"])
      BY <3>2, <3>4
    <3>5. ASSUME NEW g, Advance(c, [old EXCEPT !.grant = g,
                                      !.pc = IF Usable(g) THEN "passed" ELSE "retire"])
          PROVE  \E q : Advance(c, q) /\ q.visit = old.visit
      <4>1. PICK q : q = [old EXCEPT !.grant = g,
                            !.pc = IF Usable(g) THEN "passed" ELSE "retire"]
        OBVIOUS
      <4>2. q.visit = old.visit
        BY <3>3, <4>1
      <4> QED
        BY <3>5, <4>1, <4>2
    <3> QED
      BY <3>1, <3>4, <3>5
  <2>3. visit[old.visit].status = "approved" /\ ~CodeHeld(old.visit)
    BY <1>10, <2>1 DEF FindConnection, InStatus
  <2>4. \A d \in Calls : Holds(call[d]) => call[d].visit # old.visit
    BY <2>3 DEF CodeHeld, Holds
  <2>5. call' = [call EXCEPT ![c] = q] /\ visit' = visit
    BY <2>2 DEF Advance
  <2> QED
    BY <1>0, <1>1, <2>2, <2>3, <2>4, <2>5, CodesStay
<1>11. \/ UNCHANGED <<visit, call>>
       \/ \E k \in Clients, v \in Visits : Authorize(k, v)
       \/ \E v \in Visits : ConsentRunsOut(v)
       \/ \E c \in Calls :
            \/ BeginApprove(c) \/ BeginDeny(c) \/ Approve(c) \/ Deny(c)
            \/ BeginRevoke(c) \/ BeginRetiring(c) \/ Retire(c)
            \/ BeginExchange(c) \/ FindConnection(c) \/ Reuse(c) \/ Open(c)
            \/ BeginRefresh(c) \/ BeginVerify(c) \/ ReadGrant(c) \/ Rotate(c) \/ Touch(c)
            \/ Leave(c)
  BY DEF vars, Next, RegisterClient, TokenAges, GrantIdles
<1> QED
  BY <1>2, <1>3, <1>4, <1>5, <1>6, <1>7, <1>8, <1>9, <1>10, <1>11

\* An exchange holds its code alone, and a consent never has two refresh tokens that are
\* not revoked, in every reachable state.
THEOREM LineInvariant == Spec => []LineInv
<1>1. Init => LineInv
  <2> SUFFICES ASSUME Init PROVE LineInv
    OBVIOUS
  <2>1. \A c \in Calls : ~Holds(call[c])
    BY DEF Init, NoCall, Holds
  <2>2. \A v \in Visits : LineOf(v) = {}
    BY DEF Init, NoTokens, LineOf, Unrevoked
  <2> QED
    BY <2>1, <2>2, InitInv DEF LineInv, CodesOK, SingleLine
<1>2. LineInv /\ [Next]_vars => LineInv'
  BY StepInv, CodesKept, StepMoves, MovesSingle DEF LineInv
<1> QED
  BY <1>1, <1>2, PTL DEF Spec

---------------------------------------------------------------------------------
(* The refinement.                                                         *)

Decision == [v \in Visits |-> visit[v].status]

TheOne(S) == IF Cardinality(S) = 1 THEN CHOOSE p \in S : TRUE ELSE NoPair

Current == [v \in Visits |-> TheOne(LineOf(v))]

LEMMA TheOneOf == TheOne({}) = NoPair /\ \A p : TheOne({p}) = p
BY FS_EmptySet, FS_Singleton DEF TheOne

LEMMA CurrentOf ==
  ASSUME SingleLine, NEW v \in Visits
  PROVE  \/ LineOf(v) = {} /\ Current[v] = NoPair
         \/ \E p \in Pairs : LineOf(v) = {p} /\ Current[v] = p
<1>1. LineOf(v) = {} \/ \E p \in Pairs : LineOf(v) = {p}
  BY DEF SingleLine, LineOf
<1> QED
  BY <1>1, TheOneOf DEF Current

LEMMA MovesRefine ==
  ASSUME SingleLine, Moves
  PROVE  [Line!LineNext]_(Line!lineVars)
<1>1. \A v \in Visits : Current'[v] = TheOne(LineOf(v)')
  BY DEF Current
<1>2. \A v \in Visits : Decision[v] = visit[v].status /\ Decision'[v] = visit'[v].status
  BY DEF Decision
<1>3. \A v \in Visits :
        \/ LineOf(v) = {} /\ Current[v] = NoPair
        \/ \E p \in Pairs : LineOf(v) = {p} /\ Current[v] = p
  BY CurrentOf
<1>4. ASSUME NEW v \in Visits, LineOf(v)' \subseteq LineOf(v)
      PROVE  IF LineOf(v)' = {} THEN Current'[v] = NoPair ELSE Current'[v] = Current[v]
  <2>1. LineOf(v)' = {} \/ LineOf(v)' = LineOf(v)
    BY <1>3, <1>4
  <2> QED
    BY <1>1, <2>1, TheOneOf DEF Current
<1>5. CASE Shrinks
  <2>0. PICK ended \in SUBSET Visits : \A v \in Visits : v \in ended <=> LineOf(v)' = {}
    <3>1. {v \in Visits : LineOf(v)' = {}} \in SUBSET Visits
      OBVIOUS
    <3> QED
      BY <3>1
  <2>1. Current' = [v \in Visits |-> IF v \in ended THEN NoPair ELSE Current[v]]
    BY <1>4, <1>5, <2>0 DEF Shrinks, Current
  <2>2. Decision' = Decision /\ (Pairs \ Fresh)' = Pairs \ Fresh
    BY <1>5 DEF Shrinks, SameStatus, Decision
  <2>3. Line!End(ended)
    BY <2>1, <2>2 DEF Line!End, Current, TheOne, Decision
  <2> QED
    BY <2>3 DEF Line!LineNext
<1>6. CASE Decides
  <2>1. PICK v \in Visits, step \in {<<"absent", "pending">>, <<"pending", "approved">>,
                                    <<"pending", "denied">>} :
          /\ visit[v].status = step[1]
          /\ \A w \in Visits : visit'[w].status = IF w = v THEN step[2] ELSE visit[w].status
    BY <1>6 DEF Decides
  <2>2. Decision[v] = step[1] /\ Decision' = [Decision EXCEPT ![v] = step[2]]
    BY <2>1 DEF Decision
  <2>3. Current' = Current /\ (Pairs \ Fresh)' = Pairs \ Fresh
    BY <1>6 DEF Decides, Current
  <2>4. Line!Decide(v, step[1], step[2])
    BY <2>2, <2>3 DEF Line!Decide, Current, TheOne, Decision
  <2> QED
    BY <2>4 DEF Line!LineNext
<1>7. CASE Rotates
  <2>1. PICK v \in Visits, p \in Fresh :
          /\ Fresh' = Fresh \ {p}
          /\ LineOf(v) # {} /\ LineOf(v)' = {p}
          /\ \A w \in Visits \ {v} : LineOf(w)' = LineOf(w)
    BY <1>7 DEF Rotates
  <2>2. p \in Pairs \ (Pairs \ Fresh) /\ (Pairs \ Fresh)' = (Pairs \ Fresh) \cup {p}
    BY <2>1 DEF Fresh
  <2>3. Current[v] # NoPair /\ Current' = [Current EXCEPT ![v] = p]
    BY <1>3, <2>1, TheOneOf, OAuthAssumption DEF Current
  <2>4. Decision' = Decision
    BY <1>7 DEF Rotates, SameStatus, Decision
  <2>5. Line!HandOut(v, p)
    BY <2>2, <2>3 DEF Line!HandOut, Current, TheOne
  <2>6. Line!Rotate(v)
    BY <2>2, <2>3, <2>4, <2>5 DEF Line!Rotate, Current, TheOne, Decision
  <2> QED
    BY <2>6 DEF Line!LineNext
<1>8. CASE Exchanges
  <2>1. PICK v \in Visits, p \in Fresh :
          /\ visit[v].status = "approved"
          /\ \A w \in Visits : visit'[w].status = IF w = v THEN "used" ELSE visit[w].status
          /\ Fresh' = Fresh \ {p}
          /\ LineOf(v)' = {p}
          /\ \A w \in Visits \ {v} : LineOf(w)' \subseteq LineOf(w)
    BY <1>8 DEF Exchanges
  <2>0. PICK ended \in SUBSET Visits : \A w \in Visits : w \in ended <=> LineOf(w)' = {}
    <3>1. {w \in Visits : LineOf(w)' = {}} \in SUBSET Visits
      OBVIOUS
    <3> QED
      BY <3>1
  <2>2. p \in Pairs \ (Pairs \ Fresh) /\ (Pairs \ Fresh)' = (Pairs \ Fresh) \cup {p}
    BY <2>1 DEF Fresh
  <2>3. Current' = [w \in Visits |-> IF w = v THEN p
                                     ELSE IF w \in ended THEN NoPair ELSE Current[w]]
    <3>1. Current'[v] = p
      BY <1>1, <2>1, TheOneOf
    <3>2. \A w \in Visits \ {v} : Current'[w] = IF w \in ended THEN NoPair ELSE Current[w]
      BY <1>4, <2>0, <2>1
    <3>3. Current' = [w \in Visits |-> Current'[w]]
      BY DEF Current
    <3> QED
      BY <3>1, <3>2, <3>3
  <2>4. Decision[v] = "approved" /\ Decision' = [Decision EXCEPT ![v] = "used"]
    BY <2>1 DEF Decision
  <2>5. Line!Exchange(v, ended)
    BY <2>2, <2>3, <2>4 DEF Line!Exchange, Current, TheOne, Decision
  <2> QED
    BY <2>5 DEF Line!LineNext
<1> QED
  BY <1>5, <1>6, <1>7, <1>8 DEF Moves

\* A consent is decided once and its code exchanged once, and in the line of tokens the
\* exchange opens each is replaced at most once: the tables of the authorization server
\* evolve as TokenLine promises, however calls overlap (UpdateRequestStatus, RevokeToken).
THEOREM TokensAreOneLine == Spec => ImplementsTokenLine
<1>1. Init => Line!LineInit
  <2> SUFFICES ASSUME Init PROVE Line!LineInit
    OBVIOUS
  <2>1. \A v \in Visits : visit[v].status = "absent"
    BY DEF Init, NoRequest
  <2>2. \A p \in Pairs : pair[p].refresh = "absent"
    BY DEF Init, NoTokens
  <2>3. Fresh = Pairs /\ \A v \in Visits : LineOf(v) = {}
    BY <2>2 DEF Fresh, LineOf, Unrevoked
  <2> QED
    BY <2>1, <2>3, FS_EmptySet DEF Line!LineInit
<1>2. LineInv /\ [Next]_vars => [Line!LineNext]_(Line!lineVars)
  BY StepMoves, MovesRefine DEF LineInv
<1> QED
  BY <1>1, <1>2, LineInvariant, PTL DEF Spec, ImplementsTokenLine, Line!LineSpec
==================================================================================
