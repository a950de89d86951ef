--------------------------- MODULE SessionsProofs ---------------------------
(***************************************************************************)
(* Proofs about Sessions, for any requests and any number of token pairs   *)
(* and role changes: what the cache serves, that the browser keeps its     *)
(* session, what a sign-out revokes and when a visit is refused.           *)
(***************************************************************************)
EXTENDS Sessions, TLAPS

-----------------------------------------------------------------------------
(* Types. *)

\* A request under way has the pair it came with, and once it has minted one,
\* that; a sign-out past its DELETE does not return to it.
TypeInv ==
  /\ TypeOK
  /\ \A r \in Requests : at[r] \notin Over => sent[r] \in Pairs
  /\ \A r \in Requests : at[r] \in {"enrich", "fill", "respond"} => pair[r] \in Pairs
  /\ \A r \in signedOut \cup unrevoked : at[r] \in {"leave", "done", "failed"}

LEMMA TypeInitially ==
  ASSUME Init
  PROVE  TypeInv
<1>1. faulty \in BOOLEAN
  BY DEF Init
<1>. QED
  BY <1>1, BoundsAssumption
     DEF Init, TypeInv, TypeOK, None, Pairs, Roles, Over, Rotating

LEMMA TypeStep ==
  ASSUME TypeInv, [Next]_vars
  PROVE  TypeInv'
<1>. USE BoundsAssumption DEF server, tokens, request, history, TypeInv,
     TypeOK, None, Pairs, Roles, Over, Rotating
<1>0. CASE UNCHANGED vars
  BY <1>0 DEF vars
<1>1. ASSUME NEW r \in Requests, Visit(r) PROVE TypeInv'
  BY <1>1 DEF Visit, Comes
<1>2. ASSUME NEW r \in Requests, SignOut(r) PROVE TypeInv'
  BY <1>2 DEF SignOut, Comes
<1>3. ASSUME NEW r \in Requests, CacheHit(r) PROVE TypeInv'
  BY <1>3 DEF CacheHit, End
<1>4. ASSUME NEW r \in Requests, CacheMiss(r) PROVE TypeInv'
  BY <1>4 DEF CacheMiss, Goes
<1>5. ASSUME NEW r \in Requests, GetRefreshTokenByHash(r) PROVE TypeInv'
  <2>1. CASE sent[r] \in refresh
    BY <1>5, <2>1 DEF GetRefreshTokenByHash, Goes
  <2>2. CASE sent[r] \notin refresh
    BY <1>5, <2>2, SMTT(30) DEF GetRefreshTokenByHash, Goes, End
  <2>. QED
    BY <2>1, <2>2
<1>6. ASSUME NEW r \in Requests, DeleteRefreshToken(r) PROVE TypeInv'
  BY <1>6 DEF DeleteRefreshToken, Goes
<1>7. ASSUME NEW r \in Requests, IssueRefreshToken(r) PROVE TypeInv'
  BY <1>7 DEF IssueRefreshToken
<1>8. ASSUME NEW r \in Requests, EnrichRefreshed(r) PROVE TypeInv'
  BY <1>8 DEF EnrichRefreshed
<1>9. ASSUME NEW r \in Requests, EnrichFails(r) PROVE TypeInv'
  BY <1>9 DEF EnrichFails, Goes
<1>10. ASSUME NEW r \in Requests, Fill(r) PROVE TypeInv'
  BY <1>10 DEF Fill, Goes
<1>11. ASSUME NEW r \in Requests, Respond(r) PROVE TypeInv'
  BY <1>11 DEF Respond, End
<1>12. ASSUME NEW r \in Requests, DeleteAllRefreshTokensForUser(r) PROVE TypeInv'
  <2>1. /\ at[r] = "revoke" /\ at' = [at EXCEPT ![r] = "leave"]
        /\ signedOut' = signedOut \cup {r} /\ UNCHANGED <<sent, pair, unrevoked>>
    BY <1>12 DEF DeleteAllRefreshTokensForUser, Goes
  <2>2. /\ at'[r] = "leave" /\ \A q \in Requests \ {r} : at'[q] = at[q]
        /\ r \notin unrevoked
    BY <2>1
  <2>3. ASSUME NEW q \in Requests, at[q] \in {"rotate", "issue"}
        PROVE  sent[q] \in Pairs
    BY <2>3
  <2>4. late' \subseteq Pairs /\ refresh' \subseteq Pairs
    BY <1>12, <2>3 DEF DeleteAllRefreshTokensForUser
  <2>5. TypeOK'
    BY <1>12, <2>1, <2>4 DEF DeleteAllRefreshTokensForUser, Goes
  <2>6. /\ \A q \in Requests : at'[q] \notin Over => sent'[q] \in Pairs
        /\ \A q \in Requests : at'[q] \in {"enrich", "fill", "respond"} => pair'[q] \in Pairs
    BY <2>1, <2>2
  <2>7. \A q \in signedOut' \cup unrevoked' : at'[q] \in {"leave", "done", "failed"}
    BY <2>1, <2>2
  <2>. QED
    BY <2>5, <2>6, <2>7
<1>13. ASSUME NEW r \in Requests, RevokesNothing(r) PROVE TypeInv'
  BY <1>13 DEF RevokesNothing, Goes
<1>14. ASSUME NEW r \in Requests, DeleteCookies(r) PROVE TypeInv'
  BY <1>14 DEF DeleteCookies, End
<1>15. ASSUME NEW r \in Requests, Fails(r) PROVE TypeInv'
  BY <1>15 DEF Fails, End
<1>16. ASSUME NEW t \in Pairs, EnrichUser(t) PROVE TypeInv'
  BY <1>16 DEF EnrichUser
<1>17. ASSUME NEW t \in Pairs, LookupFails(t) PROVE TypeInv'
  BY <1>17 DEF LookupFails, Lands, Waiting
<1>18. ASSUME NEW t \in Pairs, Store(t) PROVE TypeInv'
  BY <1>18 DEF Store, Lands, Waiting, End
<1>19. ASSUME NEW t \in Pairs, ExpireEntry(t) PROVE TypeInv'
  BY <1>19 DEF ExpireEntry
<1>20. CASE SetRole
  BY <1>20 DEF SetRole
<1>21. CASE InvalidateUserCache
  <2>1. outdated \subseteq Pairs /\ \A q \in Requests : at[q] = "fill" => pair[q] \in Pairs
    OBVIOUS
  <2>2. ASSUME NEW t \in outdated' PROVE t \in Pairs
    <3>1. \/ t \in outdated \/ t \in Pairs
          \/ \E q \in Requests : at[q] = "fill" /\ t = pair[q]
      BY <1>21, <2>2 DEF InvalidateUserCache
    <3>. QED
      BY <2>1, <3>1
  <2>3. cache' \in [Pairs -> Roles \cup {None}]
    BY <1>21 DEF InvalidateUserCache
  <2>. QED
    BY <1>21, <2>2, <2>3 DEF InvalidateUserCache
<1>22. CASE Restart
  BY <1>22 DEF Restart, End, InFlight
<1>23. ASSUME NEW r \in Requests, NoRefreshCookie(r) PROVE TypeInv'
  BY <1>23 DEF NoRefreshCookie, End
<1>. QED BY <1>0, <1>1, <1>2, <1>3, <1>4, <1>5, <1>6, <1>7, <1>8, <1>9, <1>10,
     <1>11, <1>12, <1>13, <1>14, <1>15, <1>16, <1>17, <1>18, <1>19, <1>20,
     <1>21, <1>22, <1>23 DEF Next, Proceeds, Lookup

-----------------------------------------------------------------------------
(* The cache. *)

\* What a look-up or a refreshed visit is about to cache is current too, or
\* the token is one whose look-up the change of the role overtook.
CacheInv ==
  /\ CacheIsCurrent
  /\ \A t \in Pairs : flight[t] = "store" =>
       held[t] \in {None, role} \/ change = "written" \/ t \in outdated
  /\ \A r \in Requests : at[r] = "fill" =>
       own[r] \in {None, role} \/ change = "written" \/ pair[r] \in outdated

LEMMA CacheStep ==
  ASSUME TypeInv, CacheInv, [Next]_vars
  PROVE  CacheInv'
<1>. USE BoundsAssumption DEF server, tokens, request, history, CacheInv,
     CacheIsCurrent, TypeInv, TypeOK, None, Pairs, Roles, Over, Rotating
<1>0. CASE UNCHANGED vars
  BY <1>0 DEF vars
<1>1. ASSUME NEW r \in Requests, Visit(r) PROVE CacheInv'
  BY <1>1 DEF Visit, Comes
<1>2. ASSUME NEW r \in Requests, SignOut(r) PROVE CacheInv'
  BY <1>2 DEF SignOut, Comes
<1>3. ASSUME NEW r \in Requests, CacheHit(r) PROVE CacheInv'
  BY <1>3 DEF CacheHit, End
<1>4. ASSUME NEW r \in Requests, CacheMiss(r) PROVE CacheInv'
  BY <1>4 DEF CacheMiss, Goes
<1>5. ASSUME NEW r \in Requests, GetRefreshTokenByHash(r) PROVE CacheInv'
  BY <1>5 DEF GetRefreshTokenByHash, Goes, End
<1>6. ASSUME NEW r \in Requests, DeleteRefreshToken(r) PROVE CacheInv'
  BY <1>6 DEF DeleteRefreshToken, Goes
<1>7. ASSUME NEW r \in Requests, IssueRefreshToken(r) PROVE CacheInv'
  BY <1>7 DEF IssueRefreshToken
<1>8. ASSUME NEW r \in Requests, EnrichRefreshed(r) PROVE CacheInv'
  BY <1>8 DEF EnrichRefreshed
<1>9. ASSUME NEW r \in Requests, EnrichFails(r) PROVE CacheInv'
  BY <1>9 DEF EnrichFails, Goes
<1>10. ASSUME NEW r \in Requests, Fill(r) PROVE CacheInv'
  BY <1>10 DEF Fill, Goes
<1>11. ASSUME NEW r \in Requests, Respond(r) PROVE CacheInv'
  BY <1>11 DEF Respond, End
<1>12. ASSUME NEW r \in Requests, DeleteAllRefreshTokensForUser(r) PROVE CacheInv'
  BY <1>12 DEF DeleteAllRefreshTokensForUser, Goes
<1>13. ASSUME NEW r \in Requests, RevokesNothing(r) PROVE CacheInv'
  BY <1>13 DEF RevokesNothing, Goes
<1>14. ASSUME NEW r \in Requests, DeleteCookies(r) PROVE CacheInv'
  BY <1>14 DEF DeleteCookies, End
<1>15. ASSUME NEW r \in Requests, Fails(r) PROVE CacheInv'
  BY <1>15 DEF Fails, End
<1>16. ASSUME NEW t \in Pairs, EnrichUser(t) PROVE CacheInv'
  BY <1>16 DEF EnrichUser
<1>17. ASSUME NEW t \in Pairs, LookupFails(t) PROVE CacheInv'
  BY <1>17 DEF LookupFails, Lands, Waiting
<1>18. ASSUME NEW t \in Pairs, Store(t) PROVE CacheInv'
  BY <1>18 DEF Store, Lands, Waiting, End
<1>19. ASSUME NEW t \in Pairs, ExpireEntry(t) PROVE CacheInv'
  BY <1>19 DEF ExpireEntry
<1>20. CASE SetRole
  BY <1>20 DEF SetRole
<1>21. CASE InvalidateUserCache
  BY <1>21 DEF InvalidateUserCache
<1>22. CASE Restart
  BY <1>22 DEF Restart, End, InFlight
<1>23. ASSUME NEW r \in Requests, NoRefreshCookie(r) PROVE CacheInv'
  BY <1>23 DEF NoRefreshCookie, End
<1>. QED BY <1>0, <1>1, <1>2, <1>3, <1>4, <1>5, <1>6, <1>7, <1>8, <1>9, <1>10,
     <1>11, <1>12, <1>13, <1>14, <1>15, <1>16, <1>17, <1>18, <1>19, <1>20,
     <1>21, <1>22, <1>23 DEF Next, Proceeds, Lookup

-----------------------------------------------------------------------------
(* Sign-out. *)

\* After a sign-out, what is still being rotated was so at that moment.
SignOutInv ==
  /\ SignOutRevokesAll
  /\ Revoked =>
       \A r \in Requests : at[r] \in {"rotate", "issue"} => sent[r] \in late

LEMMA SignOutStep ==
  ASSUME TypeInv, SignOutInv, [Next]_vars
  PROVE  SignOutInv'
<1>. USE BoundsAssumption DEF server, tokens, request, history, SignOutInv,
     SignOutRevokesAll, Revoked, TypeInv, TypeOK, None, Pairs, Roles, Over, Rotating
<1>0. CASE UNCHANGED vars
  BY <1>0 DEF vars
<1>1. ASSUME NEW r \in Requests, Visit(r) PROVE SignOutInv'
  BY <1>1 DEF Visit, Comes
<1>2. ASSUME NEW r \in Requests, SignOut(r) PROVE SignOutInv'
  BY <1>2 DEF SignOut, Comes
<1>3. ASSUME NEW r \in Requests, CacheHit(r) PROVE SignOutInv'
  BY <1>3 DEF CacheHit, End
<1>4. ASSUME NEW r \in Requests, CacheMiss(r) PROVE SignOutInv'
  BY <1>4 DEF CacheMiss, Goes
<1>5. ASSUME NEW r \in Requests, GetRefreshTokenByHash(r) PROVE SignOutInv'
  BY <1>5 DEF GetRefreshTokenByHash, Goes, End
<1>6. ASSUME NEW r \in Requests, DeleteRefreshToken(r) PROVE SignOutInv'
  BY <1>6 DEF DeleteRefreshToken, Goes
<1>7. ASSUME NEW r \in Requests, IssueRefreshToken(r) PROVE SignOutInv'
  BY <1>7 DEF IssueRefreshToken
<1>8. ASSUME NEW r \in Requests, EnrichRefreshed(r) PROVE SignOutInv'
  BY <1>8 DEF EnrichRefreshed
<1>9. ASSUME NEW r \in Requests, EnrichFails(r) PROVE SignOutInv'
  BY <1>9 DEF EnrichFails, Goes
<1>10. ASSUME NEW r \in Requests, Fill(r) PROVE SignOutInv'
  BY <1>10 DEF Fill, Goes
<1>11. ASSUME NEW r \in Requests, Respond(r) PROVE SignOutInv'
  BY <1>11 DEF Respond, End
<1>12. ASSUME NEW r \in Requests, DeleteAllRefreshTokensForUser(r) PROVE SignOutInv'
  BY <1>12 DEF DeleteAllRefreshTokensForUser, Goes
<1>13. ASSUME NEW r \in Requests, RevokesNothing(r) PROVE SignOutInv'
  BY <1>13 DEF RevokesNothing, Goes
<1>14. ASSUME NEW r \in Requests, DeleteCookies(r) PROVE SignOutInv'
  BY <1>14 DEF DeleteCookies, End
<1>15. ASSUME NEW r \in Requests, Fails(r) PROVE SignOutInv'
  BY <1>15 DEF Fails, End
<1>16. ASSUME NEW t \in Pairs, EnrichUser(t) PROVE SignOutInv'
  BY <1>16 DEF EnrichUser
<1>17. ASSUME NEW t \in Pairs, LookupFails(t) PROVE SignOutInv'
  BY <1>17 DEF LookupFails, Lands, Waiting
<1>18. ASSUME NEW t \in Pairs, Store(t) PROVE SignOutInv'
  BY <1>18 DEF Store, Lands, Waiting, End
<1>19. ASSUME NEW t \in Pairs, ExpireEntry(t) PROVE SignOutInv'
  BY <1>19 DEF ExpireEntry
<1>20. CASE SetRole
  BY <1>20 DEF SetRole
<1>21. CASE InvalidateUserCache
  BY <1>21 DEF InvalidateUserCache
<1>22. CASE Restart
  BY <1>22 DEF Restart, End, InFlight
<1>23. ASSUME NEW r \in Requests, NoRefreshCookie(r) PROVE SignOutInv'
  BY <1>23 DEF NoRefreshCookie, End
<1>. QED BY <1>0, <1>1, <1>2, <1>3, <1>4, <1>5, <1>6, <1>7, <1>8, <1>9, <1>10,
     <1>11, <1>12, <1>13, <1>14, <1>15, <1>16, <1>17, <1>18, <1>19, <1>20,
     <1>21, <1>22, <1>23 DEF Next, Proceeds, Lookup

-----------------------------------------------------------------------------
(* The browser's session. *)

\* A request that holds a fresh pair on its way to the browser.
Carries(r) == at[r] \in {"enrich", "fill", "respond"}

\* A fresh pair is good and known to nobody else: no cookie, no request and no
\* other answer has it, so no rotation can delete it before it arrives.
SessionInv ==
  /\ SessionKept
  /\ jar <= minted
  /\ \A r \in Requests : sent[r] <= minted
  /\ \A r \in Requests : Carries(r) =>
       /\ pair[r] <= minted /\ pair[r] # jar
       /\ pair[r] \in refresh \/ Revoked \/ faulty
       /\ \A q \in Requests : sent[q] # pair[r]
       /\ \A q \in Requests \ {r} : Carries(q) => pair[q] # pair[r]
  /\ \A r \in Requests : at[r] = "fill" => own[r] \in Roles
  /\ \A r \in Requests : at[r] = "respond" /\ own[r] = None => faulty

LEMMA SessionStep ==
  ASSUME TypeInv, SessionInv, [Next]_vars
  PROVE  SessionInv'
<1>. USE BoundsAssumption DEF server, tokens, request, history, SessionInv,
     SessionKept, Revoked, Carries, TypeInv, TypeOK, None, Pairs, Roles, Over, Rotating
<1>0. CASE UNCHANGED vars
  BY <1>0 DEF vars
<1>1. ASSUME NEW r \in Requests, Visit(r) PROVE SessionInv'
  BY <1>1 DEF Visit, Comes
<1>2. ASSUME NEW r \in Requests, SignOut(r) PROVE SessionInv'
  BY <1>2 DEF SignOut, Comes
<1>3. ASSUME NEW r \in Requests, CacheHit(r) PROVE SessionInv'
  BY <1>3 DEF CacheHit, End
<1>4. ASSUME NEW r \in Requests, CacheMiss(r) PROVE SessionInv'
  BY <1>4 DEF CacheMiss, Goes
<1>5. ASSUME NEW r \in Requests, GetRefreshTokenByHash(r) PROVE SessionInv'
  <2>1. CASE sent[r] \in refresh
    <3>1. /\ at[r] = "refresh" /\ at'[r] = "rotate"
          /\ \A q \in Requests \ {r} : at'[q] = at[q]
          /\ UNCHANGED <<server, tokens, jar, history, sent, pair, own>>
      BY <1>5, <2>1 DEF GetRefreshTokenByHash, Goes
    <3>2. \A q \in Requests : (Carries(q)' <=> Carries(q)) /\ (at[q] \in Rotating => at'[q] \in Rotating)
      BY <3>1
    <3>3. \A q \in Requests : (at'[q] = "fill" => at[q] = "fill") /\ (at'[q] = "respond" => at[q] = "respond")
      BY <3>1
    <3>4. SessionKept'
      BY <3>1, <3>2
    <3>. QED
      BY <3>1, <3>2, <3>3, <3>4
  <2>2. CASE sent[r] \notin refresh
    <3>1. /\ at[r] = "refresh" /\ at'[r] = "unauthorized" /\ sent'[r] = 0
          /\ \A q \in Requests \ {r} :
               at'[q] = at[q] /\ sent'[q] = sent[q] /\ pair'[q] = pair[q] /\ own'[q] = own[q]
          /\ UNCHANGED <<server, tokens, jar, history>>
      BY <1>5, <2>2 DEF GetRefreshTokenByHash, Goes, End
    <3>2. \A q \in Requests : Carries(q)' => Carries(q) /\ q # r /\ pair[q] # 0
      BY <3>1
    <3>3. SessionKept'
      BY <3>1
    <3>4. \A q \in Requests : sent'[q] <= minted'
      BY <3>1
    <3>5. ASSUME NEW q \in Requests, at'[q] \in {"fill", "respond"}
          PROVE  at[q] = at'[q] /\ own[q] = own'[q]
      BY <3>1, <3>5
    <3>6. \A q \in Requests : Carries(q)' => \A p \in Requests : sent'[p] # pair'[q]
      BY <3>1, <3>2
    <3>. QED
      BY <3>1, <3>2, <3>3, <3>4, <3>5, <3>6
  <2>. QED
    BY <2>1, <2>2
<1>6. ASSUME NEW r \in Requests, DeleteRefreshToken(r) PROVE SessionInv'
  BY <1>6 DEF DeleteRefreshToken, Goes
<1>7. ASSUME NEW r \in Requests, IssueRefreshToken(r) PROVE SessionInv'
  <2>1. /\ at[r] = "issue" /\ minted + 1 \in Pairs /\ minted' = minted + 1
        /\ refresh' = refresh \cup {minted + 1} /\ pair'[r] = minted + 1
        /\ \A q \in Requests \ {r} : pair'[q] = pair[q] /\ at'[q] = at[q]
        /\ at'[r] = "enrich"
        /\ UNCHANGED <<jar, sent, own, faulty, signedOut, unrevoked>>
    BY <1>7 DEF IssueRefreshToken
  <2>2. jar \in Nat /\ minted \in Nat /\ \A q \in Requests : sent[q] \in Nat /\ pair[q] \in Nat
    OBVIOUS
  <2>3. SessionKept'
    BY <2>1
  <2>4. /\ jar <= minted' /\ \A q \in Requests : sent[q] <= minted'
        /\ jar # minted + 1 /\ \A q \in Requests : sent[q] # minted + 1
    BY <2>1, <2>2
  <2>5. \A q \in Requests \ {r} : Carries(q) => pair[q] # minted + 1 /\ pair[q] <= minted'
    BY <2>1, <2>2
  <2>6. \A q \in Requests \ {r} : Carries(q)' <=> Carries(q)
    BY <2>1
  <2>7. ASSUME NEW q \in Requests, Carries(q)'
        PROVE  /\ pair'[q] <= minted' /\ pair'[q] # jar'
               /\ pair'[q] \in refresh' \/ Revoked' \/ faulty'
               /\ \A p \in Requests : sent'[p] # pair'[q]
               /\ \A p \in Requests \ {q} : Carries(p)' => pair'[p] # pair'[q]
    <3>1. CASE q = r
      <4>1. pair'[q] = minted + 1 /\ minted' = minted + 1 /\ minted + 1 \in refresh'
        BY <2>1, <3>1
      <4>2. \A p \in Requests \ {q} : Carries(p)' => pair'[p] # minted + 1
        BY <2>1, <2>5, <2>6, <3>1
      <4>. QED
        BY <2>1, <2>2, <2>4, <4>1, <4>2
    <3>2. CASE q # r
      <4>1. Carries(q) /\ pair'[q] = pair[q] /\ pair[q] # minted + 1 /\ pair[q] <= minted'
        BY <2>1, <2>5, <2>6, <2>7, <3>2
      <4>2. pair[q] \in refresh' \/ Revoked' \/ faulty'
        BY <2>1, <4>1
      <4>3. pair[q] # jar' /\ \A p \in Requests : sent'[p] # pair[q]
        BY <2>1, <4>1
      <4>4. \A p \in Requests \ {q} : Carries(p)' => pair'[p] # pair[q]
        BY <2>1, <2>6, <4>1
      <4>. QED
        BY <4>1, <4>2, <4>3, <4>4
    <3>. QED
      BY <3>1, <3>2
  <2>8. \A q \in Requests : (at'[q] = "fill" => at[q] = "fill") /\ (at'[q] = "respond" => at[q] = "respond")
    BY <2>1
  <2>. QED
    BY <2>1, <2>3, <2>4, <2>7, <2>8
<1>8. ASSUME NEW r \in Requests, EnrichRefreshed(r) PROVE SessionInv'
  BY <1>8 DEF EnrichRefreshed
<1>9. ASSUME NEW r \in Requests, EnrichFails(r) PROVE SessionInv'
  BY <1>9 DEF EnrichFails, Goes
<1>10. ASSUME NEW r \in Requests, Fill(r) PROVE SessionInv'
  BY <1>10 DEF Fill, Goes
<1>11. ASSUME NEW r \in Requests, Respond(r) PROVE SessionInv'
  BY <1>11 DEF Respond, End
<1>12. ASSUME NEW r \in Requests, DeleteAllRefreshTokensForUser(r) PROVE SessionInv'
  BY <1>12 DEF DeleteAllRefreshTokensForUser, Goes
<1>13. ASSUME NEW r \in Requests, RevokesNothing(r) PROVE SessionInv'
  BY <1>13, ZenonT(30) DEF RevokesNothing, Goes
<1>14. ASSUME NEW r \in Requests, DeleteCookies(r) PROVE SessionInv'
  BY <1>14 DEF DeleteCookies, End
<1>15. ASSUME NEW r \in Requests, Fails(r) PROVE SessionInv'
  BY <1>15 DEF Fails, End
<1>16. ASSUME NEW t \in Pairs, EnrichUser(t) PROVE SessionInv'
  BY <1>16 DEF EnrichUser
<1>17. ASSUME NEW t \in Pairs, LookupFails(t) PROVE SessionInv'
  BY <1>17 DEF LookupFails, Lands, Waiting
<1>18. ASSUME NEW t \in Pairs, Store(t) PROVE SessionInv'
  BY <1>18 DEF Store, Lands, Waiting, End
<1>19. ASSUME NEW t \in Pairs, ExpireEntry(t) PROVE SessionInv'
  BY <1>19 DEF ExpireEntry
<1>20. CASE SetRole
  BY <1>20 DEF SetRole
<1>21. CASE InvalidateUserCache
  BY <1>21 DEF InvalidateUserCache
<1>22. CASE Restart
  BY <1>22 DEF Restart, End, InFlight
<1>23. ASSUME NEW r \in Requests, NoRefreshCookie(r) PROVE SessionInv'
  BY <1>23 DEF NoRefreshCookie, End
<1>. QED BY <1>0, <1>1, <1>2, <1>3, <1>4, <1>5, <1>6, <1>7, <1>8, <1>9, <1>10,
     <1>11, <1>12, <1>13, <1>14, <1>15, <1>16, <1>17, <1>18, <1>19, <1>20,
     <1>21, <1>22, <1>23 DEF Next, Proceeds, Lookup

\* The base case of the three invariants.
LEMMA InvInitially ==
  ASSUME Init
  PROVE  CacheInv /\ SignOutInv /\ SessionInv
<1>1. CacheInv
  BY DEF Init, CacheInv, CacheIsCurrent, None
<1>2. SignOutInv
  BY DEF Init, SignOutInv, SignOutRevokesAll, Revoked
<1>3. SessionInv
  BY BoundsAssumption DEF Init, SessionInv, SessionKept, Carries
<1>. QED
  BY <1>1, <1>2, <1>3

\* A visit with a refresh token that is refused came with the cookie the browser has, so by
\* SessionKept another request is replacing it.
LEMMA RefusalStep ==
  ASSUME TypeInv, SessionInv, [Next]_vars,
         NEW r \in Requests \ bare, at[r] # "unauthorized", at'[r] = "unauthorized"
  PROVE  \/ faulty \/ Revoked \/ jar # sent[r]
         \/ \E q \in Requests \ {r} : sent[q] = sent[r] /\ at[q] \in Rotating
<1>. USE DEF TypeInv, TypeOK, Over, Rotating
<1>1. \/ at[r] = "refresh" /\ sent[r] \notin refresh
      \/ at[r] = "respond" /\ own[r] = None
  <2>1. CASE UNCHANGED vars
    BY <2>1 DEF vars, request
  <2>2. ASSUME NEW q \in Requests,
               Visit(q) \/ SignOut(q) \/ CacheHit(q) \/ CacheMiss(q) \/ DeleteRefreshToken(q)
                 \/ IssueRefreshToken(q) \/ EnrichRefreshed(q) \/ EnrichFails(q)
        PROVE  at'[r] # "unauthorized"
    BY <2>2
       DEF Visit, SignOut, Comes, CacheHit, End, CacheMiss, Goes, DeleteRefreshToken,
           IssueRefreshToken, EnrichRefreshed, EnrichFails
  <2>3. ASSUME NEW q \in Requests,
               Fill(q) \/ DeleteAllRefreshTokensForUser(q) \/ RevokesNothing(q)
                 \/ DeleteCookies(q) \/ Fails(q)
        PROVE  at'[r] # "unauthorized"
    BY <2>3 DEF Fill, DeleteAllRefreshTokensForUser, RevokesNothing, DeleteCookies, Fails, Goes, End
  <2>4. ASSUME NEW t \in Pairs, Lookup(t) \/ ExpireEntry(t)
        PROVE  at'[r] # "unauthorized"
    BY <2>4 DEF Lookup, EnrichUser, LookupFails, Store, ExpireEntry, Lands, End, request
  <2>5. CASE SetRole \/ InvalidateUserCache \/ Restart
    BY <2>5 DEF SetRole, InvalidateUserCache, Restart, End, request
  <2>6. ASSUME NEW q \in Requests, GetRefreshTokenByHash(q)
        PROVE  at[r] = "refresh" /\ sent[r] \notin refresh
    BY <2>6 DEF GetRefreshTokenByHash, Goes, End
  <2>7. ASSUME NEW q \in Requests, Respond(q)
        PROVE  at[r] = "respond" /\ own[r] = None
    BY <2>7 DEF Respond, End
  <2>8. ASSUME NEW q \in Requests, NoRefreshCookie(q)
        PROVE  at'[r] # "unauthorized"
    BY <2>8 DEF NoRefreshCookie, End
  <2>. QED
    BY <2>1, <2>2, <2>3, <2>4, <2>5, <2>6, <2>7, <2>8 DEF Next, Proceeds
<1>2. CASE at[r] = "respond" /\ own[r] = None
  BY <1>2 DEF SessionInv
<1>3. CASE at[r] = "refresh" /\ sent[r] \notin refresh
  BY <1>3 DEF SessionInv, SessionKept, Pairs
<1>. QED
  BY <1>1, <1>2, <1>3

-----------------------------------------------------------------------------
(* In every behaviour. *)

\* The types of the variables are as stated.
THEOREM TypeCorrect == Spec => []TypeOK
<1>1. TypeInv => TypeOK
  BY DEF TypeInv
<1>. QED
  BY <1>1, TypeInitially, TypeStep, PTL DEF Spec

\* The cache serves the role of the database once SetRole has cleared it,
\* however many requests fill it and whatever they share, but for tokens whose
\* look-up was overtaken by the change.
THEOREM CacheCorrect == Spec => []CacheIsCurrent
<1>1. CacheInv => CacheIsCurrent
  BY DEF CacheInv
<1>. QED
  BY <1>1, TypeInitially, TypeStep, InvInitially, CacheStep, PTL DEF Spec

\* Every sign-out that answers has revoked all refresh tokens but the successors
\* of those being rotated at that moment, unless its access token had expired or
\* its DELETE failed.
THEOREM SignOutCorrect == Spec => []SignOutRevokesAll
<1>1. SignOutInv => SignOutRevokesAll
  BY DEF SignOutInv
<1>. QED
  BY <1>1, TypeInitially, TypeStep, InvInitially, SignOutStep, PTL DEF Spec

\* No interleaving of visits loses the browser's session: only a failure
\* between the two halves of a rotation, or a sign-out.
THEOREM SessionCorrect == Spec => []SessionKept
<1>1. SessionInv => SessionKept
  BY DEF SessionInv
<1>. QED
  BY <1>1, TypeInitially, TypeStep, InvInitially, SessionStep, PTL DEF Spec

\* A visit that carries its refresh token is refused only if a concurrent request
\* is replacing or has replaced that token, after a sign-out, or after a fault.
THEOREM RefusalCorrect == Spec => RefusedOnlyWhenRaced
<1>1. TypeInv /\ SessionInv /\ [Next]_vars =>
        [\A r \in Requests \ bare : at[r] # "unauthorized" /\ at'[r] = "unauthorized" =>
           \/ faulty \/ Revoked \/ jar # sent[r]
           \/ \E q \in Requests \ {r} : sent[q] = sent[r] /\ at[q] \in Rotating]_vars
  BY RefusalStep
<1>. QED
  BY <1>1, TypeInitially, TypeStep, InvInitially, SessionStep, PTL
     DEF Spec, RefusedOnlyWhenRaced
=============================================================================
