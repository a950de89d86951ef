----------------------------- MODULE Sessions -----------------------------
(***************************************************************************)
(* The session of one browser: its access and refresh tokens, the TTL      *)
(* cache of enriched users, the look-ups that concurrent requests share    *)
(* (singleflight), the rotation of refresh tokens, sign-out, and an        *)
(* administrator who changes the user's role meanwhile.  A role is the     *)
(* number of the change that made it, and the two tokens minted together   *)
(* bear one number.  A request may come without the refresh token: the     *)
(* web server's own requests do, and those of a browser that signed in     *)
(* without being remembered.  MFA, passwords and OAuth tokens are left     *)
(* out.                                                                    *)
(***************************************************************************)
EXTENDS Naturals

CONSTANTS Requests,
          MaxPairs,    \* bound: token pairs ever minted
          MaxChanges   \* bound: changes of the role

ASSUME BoundsAssumption == MaxPairs \in Nat \ {0} /\ MaxChanges \in Nat

None == MaxChanges + 1

Pairs == 1 .. MaxPairs

Roles == 0 .. MaxChanges

VARIABLES
  role,      \* global.app_users
  change,    \* SetRole: "idle", or "written" until the cache is cleared
  cache,     \* userCache: the role cached for each access token
  flight,    \* the look-up under way for each access token
  held,      \* what it read
  refresh,   \* auth.refresh_tokens
  minted,    \* pairs minted so far
  jar,       \* the pair of the browser's cookies, 0 when they are deleted
  at,        \* where each request is
  sent,      \* the pair it came with
  pair,      \* the pair minted for it
  own,       \* the role it read after refreshing
  bare,      \* the visits that came without a refresh token
  faulty,    \* history: a statement failed, an answer was lost, a restart
  signedOut, \* history: the sign-outs that are past the DELETE
  unrevoked, \* history: those of them whose access token had expired or whose
             \* DELETE failed
  late,      \* history: pairs being rotated at that moment, and their successors
  outdated   \* history: tokens whose look-up had read before the role changed

server == <<role, change, cache, flight, held>>
tokens == <<refresh, minted>>
request == <<at, sent, pair, own, bare>>
history == <<faulty, signedOut, unrevoked, late, outdated>>
vars == <<server, tokens, jar, request, history>>

Init ==
  /\ role = 0 /\ change = "idle"
  /\ cache = [t \in Pairs |-> None]
  /\ flight = [t \in Pairs |-> "none"] /\ held = [t \in Pairs |-> None]
  /\ refresh = {1} /\ minted = 1 /\ jar = 1
  /\ at = [r \in Requests |-> "new"]
  /\ sent = [r \in Requests |-> 0] /\ pair = [r \in Requests |-> 0]
  /\ own = [r \in Requests |-> None] /\ bare = {}
  /\ faulty = FALSE /\ signedOut = {} /\ unrevoked = {}
  /\ late = {} /\ outdated = {}

-----------------------------------------------------------------------------
Goes(r, from, to) ==
  /\ at[r] = from
  /\ at' = [at EXCEPT ![r] = to]
  /\ UNCHANGED <<sent, pair, own, bare>>

\* These requests are over, and what they knew is gone.
End(requests, result) ==
  /\ at' = [r \in Requests |-> IF r \in requests THEN result ELSE at[r]]
  /\ sent' = [r \in Requests |-> IF r \in requests THEN 0 ELSE sent[r]]
  /\ pair' = [r \in Requests |-> IF r \in requests THEN 0 ELSE pair[r]]
  /\ own' = [r \in Requests |-> IF r \in requests THEN None ELSE own[r]]
  /\ bare' = bare \ requests

Rotating == {"rotate", "issue", "enrich", "fill", "respond"}

Over == {"new", "done", "unauthorized", "failed"}

InFlight == {r \in Requests : at[r] \notin Over}

Waiting(t) == {r \in Requests : at[r] = "wait" /\ sent[r] = t}

Lands(t) ==
  /\ flight' = [flight EXCEPT ![t] = "none"]
  /\ held' = [held EXCEPT ![t] = None]

-----------------------------------------------------------------------------
(* Plausible bugs, used only to show that the properties can fail. *)

\* SetRole does not call InvalidateUserCache.
ForgetsToClear ==
  /\ change = "written" /\ change' = "idle"
  /\ outdated' = outdated \cup {t \in Pairs : flight[t] = "store"}
  /\ UNCHANGED <<role, cache, flight, held, tokens, jar, request>>
  /\ UNCHANGED <<faulty, signedOut, unrevoked, late>>

\* A visit whose look-up fails is refused at once (issue #809).
RefusesAtOnce(t) ==
  /\ flight[t] = "read"
  /\ Lands(t) /\ End(Waiting(t), "unauthorized")
  /\ UNCHANGED <<role, change, cache, tokens, jar, history>>

\* The new refresh token is returned and not stored.
IssueUnstored(r) ==
  /\ minted < MaxPairs
  /\ at[r] = "issue" /\ at' = [at EXCEPT ![r] = "enrich"]
  /\ minted' = minted + 1
  /\ pair' = [pair EXCEPT ![r] = minted + 1]
  /\ UNCHANGED <<server, refresh, jar, sent, own, bare, history>>

\* Sign-out deletes the refresh token it came with.
RevokeOne(r) ==
  /\ Goes(r, "revoke", "leave")
  /\ refresh' = refresh \ {sent[r]} /\ signedOut' = signedOut \cup {r}
  /\ late' = {sent[q] : q \in {p \in Requests : at[p] \in {"rotate", "issue"}}}
  /\ UNCHANGED <<server, minted, jar, faulty, unrevoked, outdated>>

\* An answer wakes the request that led the look-up and not those that joined.
StoreForOne(t) ==
  /\ flight[t] = "store"
  /\ Lands(t)
  /\ \E r \in Waiting(t) : End({r}, "done")
  /\ cache' = [cache EXCEPT ![t] = held[t]]
  /\ UNCHANGED <<role, change, tokens, jar, history>>

-----------------------------------------------------------------------------
(* A visit: getCurrentUser with the shared look-up of resolveUser. *)

Comes(r, to) ==
  /\ jar # 0
  /\ at[r] = "new" /\ at' = [at EXCEPT ![r] = to]
  /\ sent' = [sent EXCEPT ![r] = jar]
  /\ UNCHANGED <<pair, own>>

Visit(r) ==
  /\ Comes(r, "lookup")
  /\ bare' \in {bare, bare \cup {r}}
  /\ UNCHANGED <<server, tokens, jar, history>>

CacheHit(r) ==
  /\ at[r] = "lookup" /\ cache[sent[r]] # None
  /\ End({r}, "done")
  /\ UNCHANGED <<server, tokens, jar, history>>

\* The first to miss leads the look-up, the others join it.
CacheMiss(r) ==
  /\ Goes(r, "lookup", "wait")
  /\ cache[sent[r]] = None
  /\ flight' = [flight EXCEPT ![sent[r]] = IF @ = "none" THEN "read" ELSE @]
  /\ UNCHANGED <<role, change, cache, held, tokens, jar, history>>

EnrichUser(t) ==
  /\ flight[t] = "read"
  /\ held' = [held EXCEPT ![t] = role]
  /\ flight' = [flight EXCEPT ![t] = "store"]
  /\ UNCHANGED <<role, change, cache, tokens, jar, request, history>>

\* The token has expired, a query fails, or the leader's client went away:
\* everyone who joined goes on to refreshTokens.
LookupFails(t) ==
  /\ flight[t] = "read"
  /\ Lands(t)
  /\ at' = [r \in Requests |-> IF r \in Waiting(t) THEN "refresh" ELSE at[r]]
  /\ UNCHANGED <<role, change, cache, tokens, jar, sent, pair, own, bare, history>>

Store(t) ==
  /\ flight[t] = "store"
  /\ Lands(t) /\ End(Waiting(t), "done")
  /\ cache' = [cache EXCEPT ![t] = held[t]]
  /\ UNCHANGED <<role, change, tokens, jar, history>>

-----------------------------------------------------------------------------
(* refreshTokens: RefreshSession, then the enriched user of the new token. *)

NoRefreshCookie(r) ==
  /\ at[r] = "refresh" /\ r \in bare
  /\ End({r}, "unauthorized")
  /\ UNCHANGED <<server, tokens, jar, history>>

GetRefreshTokenByHash(r) ==
  /\ r \notin bare
  /\ \/ sent[r] \in refresh /\ Goes(r, "refresh", "rotate")
     \/ sent[r] \notin refresh /\ at[r] = "refresh" /\ End({r}, "unauthorized")
  /\ UNCHANGED <<server, tokens, jar, history>>

DeleteRefreshToken(r) ==
  /\ Goes(r, "rotate", "issue")
  /\ refresh' = refresh \ {sent[r]}
  /\ UNCHANGED <<server, minted, jar, history>>

IssueRefreshToken(r) ==
  /\ minted < MaxPairs
  /\ at[r] = "issue" /\ at' = [at EXCEPT ![r] = "enrich"]
  /\ minted' = minted + 1
  /\ refresh' = refresh \cup {minted + 1}
  /\ pair' = [pair EXCEPT ![r] = minted + 1]
  /\ late' = IF sent[r] \in late THEN late \cup {minted + 1} ELSE late
  /\ UNCHANGED <<server, jar, sent, own, bare, faulty, signedOut, unrevoked, outdated>>

EnrichRefreshed(r) ==
  /\ at[r] = "enrich" /\ at' = [at EXCEPT ![r] = "fill"]
  /\ own' = [own EXCEPT ![r] = role]
  /\ UNCHANGED <<server, tokens, jar, sent, pair, bare, history>>

\* The visit is refused, with the new cookies all the same.
EnrichFails(r) ==
  /\ Goes(r, "enrich", "respond")
  /\ faulty' = TRUE
  /\ UNCHANGED <<server, tokens, jar, signedOut, unrevoked, late, outdated>>

Fill(r) ==
  /\ Goes(r, "fill", "respond")
  /\ cache' = [cache EXCEPT ![pair[r]] = own[r]]
  /\ UNCHANGED <<role, change, flight, held, tokens, jar, history>>

\* The browser stores the cookies of the answers in the order they arrive.
Respond(r) ==
  /\ at[r] = "respond"
  /\ End({r}, IF own[r] = None THEN "unauthorized" ELSE "done")
  /\ jar' = pair[r]
  /\ UNCHANGED <<server, tokens, history>>

-----------------------------------------------------------------------------
(* Sign-out; without an access cookie it is refused and changes nothing. *)

SignOut(r) ==
  /\ Comes(r, "revoke")
  /\ cache' = [cache EXCEPT ![jar] = None]
  /\ UNCHANGED <<role, change, flight, held, tokens, jar, bare, history>>

DeleteAllRefreshTokensForUser(r) ==
  /\ Goes(r, "revoke", "leave")
  /\ refresh' = {} /\ signedOut' = signedOut \cup {r}
  /\ late' = {sent[q] : q \in {p \in Requests : at[p] \in {"rotate", "issue"}}}
  /\ UNCHANGED <<server, minted, jar, faulty, unrevoked, outdated>>

\* The access token has expired meanwhile, or the DELETE fails, which nobody
\* looks at: the cookies go and the answer is the same.
RevokesNothing(r) ==
  /\ Goes(r, "revoke", "leave")
  /\ signedOut' = signedOut \cup {r} /\ unrevoked' = unrevoked \cup {r}
  /\ UNCHANGED <<server, tokens, jar, faulty, late, outdated>>

DeleteCookies(r) ==
  /\ at[r] = "leave" /\ End({r}, "done")
  /\ jar' = 0
  /\ UNCHANGED <<server, tokens, history>>

-----------------------------------------------------------------------------
(* The administrator. *)

SetRole ==
  /\ change = "idle" /\ role < MaxChanges
  /\ role' = role + 1 /\ change' = "written"
  /\ UNCHANGED <<cache, flight, held, tokens, jar, request, history>>

InvalidateUserCache ==
  /\ change = "written" /\ change' = "idle"
  /\ cache' = [t \in Pairs |-> None]
  /\ outdated' = outdated \cup {t \in Pairs : flight[t] = "store"}
                   \cup {pair[r] : r \in {q \in Requests : at[q] = "fill"}}
  /\ UNCHANGED <<role, flight, held, tokens, jar, request>>
  /\ UNCHANGED <<faulty, signedOut, unrevoked, late>>

-----------------------------------------------------------------------------
(* Time and faults. *)

ExpireEntry(t) ==
  /\ cache[t] # None
  /\ cache' = [cache EXCEPT ![t] = None]
  /\ UNCHANGED <<role, change, flight, held, tokens, jar, request, history>>

\* A statement of a refresh fails, or the answer of a refresh or of a sign-out
\* is lost.
Fails(r) ==
  /\ at[r] \in Rotating \cup {"refresh", "leave"}
  /\ End({r}, "failed")
  /\ faulty' = TRUE
  /\ UNCHANGED <<server, tokens, jar, signedOut, unrevoked, late, outdated>>

\* The process is replaced: cache and look-ups are gone, requests are cut off.
Restart ==
  /\ InFlight # {} /\ End(InFlight, "failed")
  /\ cache' = [t \in Pairs |-> None]
  /\ flight' = [t \in Pairs |-> "none"] /\ held' = [t \in Pairs |-> None]
  /\ change' = "idle" /\ faulty' = TRUE
  /\ UNCHANGED <<role, tokens, jar, signedOut, unrevoked, late, outdated>>

-----------------------------------------------------------------------------
Lookup(t) == EnrichUser(t) \/ LookupFails(t) \/ Store(t)

Proceeds(r) ==
  \/ CacheHit(r) \/ CacheMiss(r) \/ NoRefreshCookie(r) \/ GetRefreshTokenByHash(r)
  \/ DeleteRefreshToken(r) \/ IssueRefreshToken(r) \/ EnrichRefreshed(r)
  \/ EnrichFails(r) \/ Fill(r) \/ Respond(r)
  \/ DeleteAllRefreshTokensForUser(r) \/ RevokesNothing(r) \/ DeleteCookies(r)

Next ==
  \/ \E r \in Requests : Visit(r) \/ SignOut(r) \/ Proceeds(r) \/ Fails(r)
  \/ \E t \in Pairs : Lookup(t) \/ ExpireEntry(t)
  \/ SetRole \/ InvalidateUserCache \/ Restart

\* What was accepted runs on.
Fairness ==
  WF_vars(\E r \in Requests : Proceeds(r)) /\ WF_vars(\E t \in Pairs : Lookup(t))

Spec == Init /\ [][Next]_vars /\ Fairness

-----------------------------------------------------------------------------
(* Properties. *)

TypeOK ==
  /\ role \in Roles /\ change \in {"idle", "written"}
  /\ cache \in [Pairs -> Roles \cup {None}]
  /\ flight \in [Pairs -> {"none", "read", "store"}]
  /\ held \in [Pairs -> Roles \cup {None}]
  /\ minted \in Pairs /\ refresh \subseteq Pairs /\ jar \in Pairs \cup {0}
  /\ at \in [Requests -> Over \cup Rotating \cup
                         {"lookup", "wait", "refresh", "revoke", "leave"}]
  /\ sent \in [Requests -> Pairs \cup {0}] /\ pair \in [Requests -> Pairs \cup {0}]
  /\ own \in [Requests -> Roles \cup {None}]
  /\ bare \subseteq Requests
  /\ faulty \in BOOLEAN
  /\ signedOut \subseteq Requests /\ unrevoked \subseteq Requests
  /\ late \subseteq Pairs /\ outdated \subseteq Pairs

\* The cache holds the role of the database once SetRole has cleared it, but
\* for tokens whose look-up had read the user before and stored it after.
CacheIsCurrent ==
  \A t \in Pairs :
    cache[t] \in {None, role} \/ change = "written" \/ t \in outdated

\* A sign-out has deleted the user's refresh tokens.
Revoked == signedOut \ unrevoked # {}

\* The refresh token in the browser's cookies is good, or on its way to be
\* replaced, until a sign-out deletes it; it takes a failure between the deletion
\* of the old token and the arrival of the new one to lose the session.
SessionKept ==
  \/ jar \in refresh \cup {0} \/ faulty \/ Revoked
  \/ \E r \in Requests : sent[r] = jar /\ at[r] \in Rotating

\* A visit that came with its refresh token, while nothing failed and nobody
\* signed out, is refused only when another request is replacing, or has
\* replaced, that token.  One without is refused whenever its look-up fails.
RefusedOnlyWhenRaced ==
  [][\A r \in Requests \ bare : at[r] # "unauthorized" /\ at'[r] = "unauthorized" =>
       \/ faulty \/ Revoked \/ jar # sent[r]
       \/ \E q \in Requests \ {r} : sent[q] = sent[r] /\ at[q] \in Rotating]_vars

\* A sign-out that answers leaves no refresh token of the user, of this tab or
\* another, but the successors of tokens that were being rotated at that moment,
\* unless its access token had expired or its DELETE failed.
SignOutRevokesAll ==
  \A r \in signedOut : refresh \subseteq late \/ r \in unrevoked

\* Not so, though the comment of SignOut says that it deletes every refresh
\* token of the user: with an expired access token or a failed DELETE it
\* answers the same and deletes none, and a token under rotation comes back.
SignOutDeletesEvery == signedOut # {} => refresh = {}

\* Not so: a signed-in visit without a refresh token is refused when the
\* look-up it joined fails, with nobody racing it.
SignedInIsServed ==
  [][\A r \in Requests : at[r] # "unauthorized" /\ at'[r] = "unauthorized" =>
       \/ faulty \/ Revoked \/ jar # sent[r]
       \/ \E q \in Requests \ {r} : sent[q] = sent[r] /\ at[q] \in Rotating]_vars

\* Every request is answered, the ones that joined a look-up too.
RequestsAnswered == InFlight # {} ~> InFlight = {}
=============================================================================
