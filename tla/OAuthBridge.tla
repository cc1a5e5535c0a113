---------------------------- MODULE OAuthBridge ----------------------------
(***************************************************************************)
(* The authorization-code flow of the OAuth bridge (app/mcp/oauth): from   *)
(* the request of a client, over the page on which a person confirms it,   *)
(* to the exchange of a code for a session.                                *)
(*                                                                         *)
(* Pending flows, codes and the sessions minted for them are dictionaries  *)
(* of one process, and a restart empties them; registered clients are a    *)
(* table.  The process is asynchronous: between two awaits a handler is    *)
(* alone, and at an await others run.                                      *)
(***************************************************************************)
EXTENDS Naturals, Sequences

CONSTANTS
    Clients,   \* oauth_clients.client_id
    Flows,     \* flow_id
    Codes,     \* authorization codes
    Posts,     \* submissions of the page that may be handled at the same time
    Exchanges, \* token requests that may be handled at the same time
    None       \* no client, flow or code

VARIABLES
    registered, \* the committed oauth_clients
    pending,    \* _pending_flows: the client of each pending flow
    codes,      \* _auth_codes: the client of each code that was not used
    sessions,   \* _issued_sessions: the codes that have a session to hand out
    post,       \* the submissions being handled: the flow each has claimed
    exchange,   \* the token requests being handled: the code each has loaded
    stale,      \* the flows and codes that are past their time
    clientOf,   \* history: the client that started each flow
    flowOf,     \* history: the flow that each code was issued for
    handed,     \* history: the clients that each code's session was handed to
    excused     \* history: the flows and codes that a restart or a failure met

bridgeVars == <<registered, pending, codes, sessions, post, exchange, stale, clientOf, flowOf, handed, excused>>

BridgeTypeOK ==
    /\ registered \subseteq Clients
    /\ pending \in [Flows -> Clients \cup {None}]
    /\ codes \in [Codes -> Clients \cup {None}]
    /\ sessions \subseteq Codes
    /\ post \in [Posts -> [pc : {"idle", "verifying", "minted"}, flow : Flows \cup {None}]]
    /\ exchange \in [Exchanges -> [client : Clients \cup {None}, code : Codes \cup {None}]]
    /\ stale \subseteq Flows \cup Codes
    /\ clientOf \in [Flows -> Clients \cup {None}]
    /\ flowOf \in [Codes -> Flows \cup {None}]
    /\ handed \in [Codes -> Seq(Clients)]
    /\ excused \subseteq Flows \cup Codes

NoPost == [pc |-> "idle", flow |-> None]
NoExchange == [client |-> None, code |-> None]

BridgeInit ==
    /\ registered = {}
    /\ pending = [f \in Flows |-> None]
    /\ codes = [k \in Codes |-> None]
    /\ sessions = {}
    /\ post = [p \in Posts |-> NoPost]
    /\ exchange = [e \in Exchanges |-> NoExchange]
    /\ stale = {}
    /\ clientOf = [f \in Flows |-> None]
    /\ flowOf = [k \in Codes |-> None]
    /\ handed = [k \in Codes |-> <<>>]
    /\ excused = {}

-----------------------------------------------------------------------------
\* register_client: an upsert, in a transaction of its own.
RegisterClient(c) ==
    /\ registered' = registered \cup {c}
    /\ UNCHANGED <<pending, codes, sessions, post, exchange, stale, clientOf, flowOf, handed, excused>>

\* authorize: the SDK has found the client (get_client); the flow id is fresh.
Authorize(c, f) ==
    /\ c \in registered /\ clientOf[f] = None
    /\ pending' = [pending EXCEPT ![f] = c]
    /\ clientOf' = [clientOf EXCEPT ![f] = c]
    /\ UNCHANGED <<registered, codes, sessions, post, exchange, stale, flowOf, handed, excused>>

\* _FLOW_TTL_SECONDS, _CODE_TTL_SECONDS: a flow or a code grows too old.
GrowStale(x) ==
    /\ x \notin stale
    /\ (x \in Flows /\ clientOf[x] # None) \/ (x \in Codes /\ flowOf[x] # None)
    /\ stale' = stale \cup {x}
    /\ UNCHANGED <<registered, pending, codes, sessions, post, exchange, clientOf, flowOf, handed, excused>>

\* _pop_expired.
Swept == [f \in Flows |-> IF f \in stale THEN None ELSE pending[f]]

\* GET of the page: it sweeps, and leaves the flow for the submission.
ShowPage ==
    /\ pending' = Swept
    /\ UNCHANGED <<registered, codes, sessions, post, exchange, stale, clientOf, flowOf, handed, excused>>

\* Mutant of ClaimFlow: the flow is looked up here and deleted when all is done.
ClaimFlowLate(p, f) ==
    /\ post[p].pc = "idle" /\ Swept[f] # None
    /\ pending' = Swept
    /\ post' = [post EXCEPT ![p] = [pc |-> "verifying", flow |-> f]]
    /\ UNCHANGED <<registered, codes, sessions, exchange, stale, clientOf, flowOf, handed, excused>>

\* POST of the page, up to its first await: the flow is popped.
ClaimFlow(p, f) ==
    /\ post[p].pc = "idle" /\ Swept[f] # None
    /\ pending' = [Swept EXCEPT ![f] = None]
    /\ post' = [post EXCEPT ![p] = [pc |-> "verifying", flow |-> f]]
    /\ UNCHANGED <<registered, codes, sessions, exchange, stale, clientOf, flowOf, handed, excused>>

\* Mutant of PutBack: a token that cannot be verified costs the whole flow.
PutBackNothing(p) ==
    /\ post[p].pc = "verifying"
    /\ post' = [post EXCEPT ![p] = NoPost]
    /\ UNCHANGED <<registered, pending, codes, sessions, exchange, stale, clientOf, flowOf, handed, excused>>

\* The token cannot be verified, a domain error: the flow is put back as it was.
PutBack(p) ==
    /\ post[p].pc = "verifying"
    /\ pending' = [pending EXCEPT ![post[p].flow] = clientOf[post[p].flow]]
    /\ post' = [post EXCEPT ![p] = NoPost]
    /\ UNCHANGED <<registered, codes, sessions, exchange, stale, clientOf, flowOf, handed, excused>>

\* Any other exception, of the database for one: the flow is lost.
PostFails(p) ==
    /\ post[p].pc = "verifying"
    /\ post' = [post EXCEPT ![p] = NoPost]
    /\ excused' = excused \cup {post[p].flow}
    /\ UNCHANGED <<registered, pending, codes, sessions, exchange, stale, clientOf, flowOf, handed>>

\* The identity is resolved and the transaction of _issue_session commits.
MintSession(p) ==
    /\ post[p].pc = "verifying"
    /\ post' = [post EXCEPT ![p].pc = "minted"]
    /\ UNCHANGED <<registered, pending, codes, sessions, exchange, stale, clientOf, flowOf, handed, excused>>

\* The code, fresh, and the session are stored under each other, with no await.
IssueCode(p, k) ==
    /\ post[p].pc = "minted" /\ flowOf[k] = None
    /\ codes' = [codes EXCEPT ![k] = clientOf[post[p].flow]]
    /\ sessions' = sessions \cup {k}
    /\ flowOf' = [flowOf EXCEPT ![k] = post[p].flow]
    /\ post' = [post EXCEPT ![p] = NoPost]
    /\ UNCHANGED <<registered, pending, exchange, stale, clientOf, handed, excused>>

-----------------------------------------------------------------------------
\* Mutant of LoadCode: the client of the code is not compared.
LoadCodeOfAnyone(e, c, k) ==
    /\ c \in registered /\ exchange[e] = NoExchange
    /\ codes[k] # None /\ k \notin stale
    /\ exchange' = [exchange EXCEPT ![e] = [client |-> c, code |-> k]]
    /\ UNCHANGED <<registered, pending, codes, sessions, post, stale, clientOf, flowOf, handed, excused>>

\* load_authorization_code finds the code, and it is the client's.
LoadCode(e, c, k) ==
    /\ c \in registered /\ exchange[e] = NoExchange
    /\ codes[k] = c /\ k \notin stale
    /\ exchange' = [exchange EXCEPT ![e] = [client |-> c, code |-> k]]
    /\ UNCHANGED <<registered, pending, codes, sessions, post, stale, clientOf, flowOf, handed, excused>>

\* load_authorization_code of a code that has expired drops it.
LoadExpired(c, k) ==
    /\ c \in registered /\ codes[k] = c /\ k \in stale
    /\ codes' = [codes EXCEPT ![k] = None]
    /\ sessions' = sessions \ {k}
    /\ UNCHANGED <<registered, pending, post, exchange, stale, clientOf, flowOf, handed, excused>>

\* exchange_authorization_code: both are popped; without a session the request is
\* refused.
ExchangeCode(e) ==
    LET k == exchange[e].code IN
    /\ exchange[e] # NoExchange
    /\ codes' = [codes EXCEPT ![k] = None]
    /\ sessions' = sessions \ {k}
    /\ handed' = IF k \in sessions THEN [handed EXCEPT ![k] = Append(@, exchange[e].client)] ELSE handed
    /\ exchange' = [exchange EXCEPT ![e] = NoExchange]
    /\ UNCHANGED <<registered, pending, post, stale, clientOf, flowOf, excused>>

\* The SDK refuses the request: another redirect_uri, a wrong code_verifier.
RefuseExchange(e) ==
    /\ exchange[e] # NoExchange
    /\ exchange' = [exchange EXCEPT ![e] = NoExchange]
    /\ UNCHANGED <<registered, pending, codes, sessions, post, stale, clientOf, flowOf, handed, excused>>

\* The process restarts: its memory and the handlers are gone, the clients stay.
Restart ==
    /\ pending' = [f \in Flows |-> None]
    /\ codes' = [k \in Codes |-> None]
    /\ sessions' = {}
    /\ post' = [p \in Posts |-> NoPost]
    /\ exchange' = [e \in Exchanges |-> NoExchange]
    /\ excused' = excused \cup {f \in Flows : clientOf[f] # None} \cup {k \in Codes : flowOf[k] # None}
    /\ UNCHANGED <<registered, stale, clientOf, flowOf, handed>>

BridgeNext ==
    \/ \E c \in Clients : RegisterClient(c)
    \/ \E c \in Clients, f \in Flows : Authorize(c, f)
    \/ \E x \in Flows \cup Codes : GrowStale(x)
    \/ ShowPage
    \/ \E p \in Posts :
        \/ \E f \in Flows : ClaimFlow(p, f)
        \/ PutBack(p) \/ PostFails(p) \/ MintSession(p)
        \/ \E k \in Codes : IssueCode(p, k)
    \/ \E c \in Clients, k \in Codes : LoadExpired(c, k)
    \/ \E e \in Exchanges :
        \/ \E c \in Clients, k \in Codes : LoadCode(e, c, k)
        \/ ExchangeCode(e) \/ RefuseExchange(e)
    \/ Restart

BridgeSpec == BridgeInit /\ [][BridgeNext]_bridgeVars

-----------------------------------------------------------------------------
(* Properties.                                                              *)

\* However often the page is submitted, one flow yields one code ("only one
\* concurrent request can ever claim the flow").
OneCodePerFlow ==
    \A k, l \in Codes : flowOf[k] # None /\ flowOf[k] = flowOf[l] => k = l

\* However token requests overlap, the session of a code is handed out once at
\* most, and to the client that started the flow (single-use).
CodeIsRedeemedOnce ==
    \A k \in Codes :
        /\ Len(handed[k]) <= 1
        /\ \A i \in DOMAIN handed[k] : flowOf[k] # None /\ handed[k][i] = clientOf[flowOf[k]]

InHand(f) == \E p \in Posts : post[p].flow = f
HasCode(f) == \E k \in Codes : flowOf[k] = f

\* Nothing is lost without a reason: a flow that is not past its time, and that no
\* restart or failure met, is pending, in a handler's hands, or has its code; such
\* a code can be exchanged, or was ("put the flow back so the same link still
\* works for a retry").
NothingIsLost ==
    /\ \A f \in Flows \ (stale \cup excused) :
           clientOf[f] # None => pending[f] = clientOf[f] \/ InHand(f) \/ HasCode(f)
    /\ \A k \in Codes \ (stale \cup excused) :
           flowOf[k] # None => (codes[k] # None /\ k \in sessions) \/ handed[k] # <<>>
=============================================================================
