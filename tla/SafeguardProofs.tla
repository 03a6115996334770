---------------------------- MODULE SafeguardProofs ----------------------------
(***************************************************************************)
(* What guards users and their data, whatever the numbers of requests,     *)
(* jobs, callers, rows, instances and flags: sessions, the erasure of      *)
(* accounts, rate limits, the rotation of keys, the script that encrypts   *)
(* what was stored in plain, and the feature flags. They share no variable;*)
(* each part has an inductive invariant (Inv or Hold), the lemmas that it  *)
(* holds at first and that every step keeps it, and what follows from it.  *)
(***************************************************************************)
EXTENDS Sessions, AccountErasure, RateLimits, KeyRotation, EncryptionBackfill,
        FeatureFlags, SequenceTheorems, FiniteSetTheorems, TLAPS

-----------------------------------------------------------------------------
(***************************************************************************)
(* The sessions.                                                           *)
(***************************************************************************)
AskStates == Asking \cup {NotAsking}

SessionInv ==
  /\ tokenVersion \in Versions /\ walletToken \in TokenNos \cup {NoToken}
  /\ tokens \in Seq(RefreshToken) /\ Len(tokens) <= MaxTokens
  /\ cachedVersion \in Versions \cup {NoVersion} /\ lateEntry \in BOOLEAN
  /\ challenge \in 0 .. MaxChallenges /\ usedNonces \subseteq 1 .. MaxChallenges
  /\ asking \in [SessionRequests -> AskStates]
  /\ sessionFaults \in 0 .. MaxSessionFaults
  /\ CacheIsCurrent

\* The invariant of this part holds at first,
LEMMA SessionInitially == SessionInit => SessionInv
<1> SUFFICES ASSUME SessionInit PROVE SessionInv
  OBVIOUS
<1>1. 0 \in Versions /\ 0 \in 0 .. MaxChallenges /\ 0 \in 0 .. MaxSessionFaults
      /\ 0 <= MaxTokens
  BY SessionAssumption DEF Versions
<1>2. tokens \in Seq(RefreshToken) /\ Len(tokens) = 0
  BY DEF SessionInit
<1>3. asking \in [SessionRequests -> AskStates]
  BY DEF SessionInit, AskStates
<1>4. CacheIsCurrent
  BY DEF SessionInit, CacheIsCurrent
<1>5. Len(tokens) <= MaxTokens
  BY <1>1, <1>2
<1> QED
  BY <1>1, <1>2, <1>3, <1>4, <1>5 DEF SessionInit, SessionInv, NoToken

\* ... and it implies what is to be shown of this part.
LEMMA SessionConclusion == SessionInv => CacheIsCurrent /\ SessionTypeOK
<1> SUFFICES ASSUME SessionInv PROVE SessionTypeOK
  BY DEF SessionInv
<1>1. tokens \in [1 .. Len(tokens) -> RefreshToken] /\ Len(tokens) \in 0 .. MaxTokens
  BY SessionAssumption DEF SessionInv
<1>2. tokens \in UNION {[1 .. n -> RefreshToken] : n \in 0 .. MaxTokens}
  BY <1>1
<1> QED
  BY <1>2 DEF SessionInv, SessionTypeOK, AskStates

\* What the state of a request holds, by where the request is.
LEMMA AskingByPlace ==
  ASSUME NEW a \in AskStates
  PROVE  /\ a.at = "store" => a.version \in Versions /\ a.wallet \in BOOLEAN
         /\ a.at \in {"rotate", "close"} => a.token \in TokenNos
         /\ a.at \in {"revoke", "read"} => a.then \in Rest /\ a.slot \in BOOLEAN
         /\ a.at = "write" => /\ a.version \in Versions /\ a.then \in Rest
                              /\ a.slot \in BOOLEAN
         /\ a.at = "drop" => a.version \in Versions /\ a.then \in Rest
         /\ a.at = "cache" => [a EXCEPT !.at = "row"] \in AskStates
         /\ a.at = "row" => [a EXCEPT !.at = "fill"] \in AskStates
         /\ a.at = "fill" => a.version \in Versions
         /\ a.at = "nonce" => /\ a.nonce \in 1 .. MaxChallenges
                              /\ [a EXCEPT !.at = "wallet"] \in AskStates
         /\ a.at = "ban" => /\ a.version \in Versions
                            /\ a.hash \in TokenNos \cup {NoToken}
  BY DEF AskStates, Asking, NotAsking

\* The states that requests go on to.
LEMMA AskingBuilt ==
  /\ NotAsking \in AskStates
  /\ \A v \in Versions, w \in BOOLEAN :
       [at |-> "store", version |-> v, wallet |-> w] \in AskStates
  /\ \A t \in TokenNos : /\ [at |-> "rotate", token |-> t] \in AskStates
                         /\ [at |-> "close", token |-> t] \in AskStates
  /\ \A then \in Rest, slot \in BOOLEAN :
       /\ [at |-> "revoke", then |-> then, slot |-> slot] \in AskStates
       /\ Raise(then, slot) \in AskStates
       /\ \A v \in Versions : [at |-> "write", version |-> v, then |-> then,
                               slot |-> slot] \in AskStates
  /\ \A v \in Versions, then \in Rest :
       [at |-> "drop", version |-> v, then |-> then] \in AskStates
  /\ \A v \in Versions : [at |-> "cache", version |-> v] \in AskStates
  /\ \A n \in 1 .. MaxChallenges : [at |-> "nonce", nonce |-> n] \in AskStates
  /\ \A v \in Versions, h \in TokenNos \cup {NoToken} :
       [at |-> "ban", version |-> v, hash |-> h] \in AskStates
  BY DEF AskStates, Asking, NotAsking, Raise

\* A request goes on to another state.
LEMMA NowTyped ==
  ASSUME SessionInv, NEW r \in SessionRequests, NEW state \in AskStates,
         Now(r, state)
  PROVE  /\ asking' \in [SessionRequests -> AskStates]
         /\ asking'[r] = state
         /\ \A q \in SessionRequests : q # r => asking'[q] = asking[q]
  BY DEF SessionInv, Now

\* The tokens revoked are still the tokens issued.
LEMMA RevokedTyped ==
  ASSUME SessionInv, NEW gone
  PROVE  /\ Revoked(gone) \in Seq(RefreshToken)
         /\ Len(Revoked(gone)) <= MaxTokens
<1>1. /\ tokens \in Seq(RefreshToken) /\ Len(tokens) \in Nat
      /\ DOMAIN tokens = 1 .. Len(tokens)
  BY DEF SessionInv
<1>2. \A t \in DOMAIN tokens :
        [tokens[t] EXCEPT !.state = "revoked"] \in RefreshToken
  <2>1. \A u \in RefreshToken : [u EXCEPT !.state = "revoked"] \in RefreshToken
    BY DEF RefreshToken
  <2>2. \A t \in DOMAIN tokens : tokens[t] \in RefreshToken
    BY <1>1
  <2> QED
    BY <2>1, <2>2
<1>3. Revoked(gone) \in [1 .. Len(tokens) -> RefreshToken]
  BY <1>1, <1>2 DEF Revoked
<1>4. Revoked(gone) \in Seq(RefreshToken)
      /\ Len(Revoked(gone)) = Len(tokens)
  BY <1>1, <1>3
<1> QED
  BY <1>4 DEF SessionInv

\* The rows are tokens issued.
LEMMA RowsAreTokens ==
  ASSUME SessionInv
  PROVE  /\ \A t \in DOMAIN tokens : t \in TokenNos /\ tokens[t] \in RefreshToken
         /\ Rows \subseteq DOMAIN tokens
  BY SessionAssumption DEF SessionInv, Rows, TokenNos

\* A step that leaves the versions as they are, and the requests that are to
\* invalidate the cache, leaves the cache as current as it was.
LEMMA CacheStaysCurrent ==
  ASSUME SessionInv, UNCHANGED <<tokenVersion, cachedVersion>>,
         lateEntry => lateEntry',
         \A q \in SessionRequests :
           asking[q].at = "drop" => asking'[q].at = "drop" \/ lateEntry'
  PROVE  CacheIsCurrent'
  BY DEF SessionInv, CacheIsCurrent

\* The types that a step of a request keeps, and that it is not the end of an
\* invalidation.
AskStep(r) ==
  /\ \E state \in AskStates : Now(r, state)
  /\ asking[r].at # "drop"
  /\ UNCHANGED cacheVars

\* A step of one request that leaves the versions alone keeps the invariant.
LEMMA AskStepHolds ==
  ASSUME SessionInv, NEW r \in SessionRequests, AskStep(r),
         UNCHANGED tokenVersion,
         walletToken' \in TokenNos \cup {NoToken},
         tokens' \in Seq(RefreshToken), Len(tokens') <= MaxTokens,
         challenge' \in 0 .. MaxChallenges,
         usedNonces' \subseteq 1 .. MaxChallenges,
         sessionFaults' \in 0 .. MaxSessionFaults
  PROVE  SessionInv'
<1>1. PICK state \in AskStates : Now(r, state)
  BY DEF AskStep
<1>2. /\ asking' \in [SessionRequests -> AskStates] /\ asking'[r] = state
      /\ \A q \in SessionRequests : q # r => asking'[q] = asking[q]
  BY <1>1, NowTyped
<1>3. CacheIsCurrent'
  BY <1>2, CacheStaysCurrent DEF AskStep, cacheVars
<1> QED
  BY <1>2, <1>3 DEF SessionInv, AskStep, cacheVars

\* Signing in, and revoking what was issued.
LEMMA TokensStep ==
  ASSUME SessionInv, NEW r \in SessionRequests,
         RevokeTokens(r) \/ IssueTokens(r)
  PROVE  SessionInv'
<1> DEFINE Kept ==
      /\ walletToken' \in TokenNos \cup {NoToken}
      /\ tokens' \in Seq(RefreshToken) /\ Len(tokens') <= MaxTokens
      /\ challenge' \in 0 .. MaxChallenges
      /\ usedNonces' \subseteq 1 .. MaxChallenges
      /\ sessionFaults' \in 0 .. MaxSessionFaults
<1>1. asking[r] \in AskStates /\ asking \in [SessionRequests -> AskStates]
  BY DEF SessionInv
<1>2. /\ tokenVersion \in Versions /\ NoToken \in TokenNos \cup {NoToken}
      /\ walletToken \in TokenNos \cup {NoToken}
      /\ tokens \in Seq(RefreshToken) /\ Len(tokens) <= MaxTokens
      /\ challenge \in 0 .. MaxChallenges
      /\ usedNonces \subseteq 1 .. MaxChallenges
      /\ sessionFaults \in 0 .. MaxSessionFaults
  BY DEF SessionInv
<1>3. NotAsking.at # "drop"
  BY DEF NotAsking
<1>4. {"end", "again", "issue"} \subseteq Rest /\ {TRUE, FALSE} \subseteq BOOLEAN
  BY DEF Rest
<1>5. Idle(r) => asking[r].at # "drop"
  BY <1>3 DEF Idle
<1>6. \A gone : /\ Revoked(gone) \in Seq(RefreshToken)
                   /\ Len(Revoked(gone)) <= MaxTokens
  BY RevokedTyped
<1>7. \A up \in BOOLEAN : RedisAnswers(up) => sessionFaults' \in 0 .. MaxSessionFaults
  BY <1>2, SessionAssumption DEF RedisAnswers
<1>8. ASSUME AskStep(r), Kept, UNCHANGED tokenVersion PROVE SessionInv'
  BY <1>8, AskStepHolds
<1>9. CASE SignIn(r)
  <2>1. AskStep(r)
    BY <1>2, <1>4, <1>5, <1>9, AskingBuilt DEF SignIn, AskStep, cacheVars
  <2> QED
    BY <1>2, <1>8, <1>9, <2>1 DEF SignIn, rowVars, nonceVars
<1>10. CASE RefreshTokens(r)
  <2>1. AskStep(r)
    BY <1>4, <1>5, <1>10, AskingBuilt, RowsAreTokens
    DEF RefreshTokens, AskStep, cacheVars
  <2> QED
    BY <1>2, <1>8, <1>10, <2>1 DEF RefreshTokens, rowVars, nonceVars
<1>11. CASE RotateToken(r)
  <2>1. AskStep(r)
    BY <1>4, <1>11, AskingBuilt
    DEF RotateToken, AskStep, cacheVars, Answered
  <2> QED
    BY <1>2, <1>6, <1>8, <1>11, <2>1 DEF RotateToken, rowVars, nonceVars
<1>12. CASE VerifySignature(r)
  <2>1. challenge \in 1 .. MaxChallenges
    BY <1>2, <1>12, SessionAssumption DEF VerifySignature, NoToken
  <2>2. AskStep(r)
    BY <1>5, <1>12, <2>1, AskingBuilt DEF VerifySignature, AskStep, cacheVars
  <2> QED
    BY <1>2, <1>7, <1>8, <1>12, <2>2 DEF VerifySignature, rowVars, nonceVars
<1>13. CASE NoteNonce(r)
  <2>1. asking[r].nonce \in 1 .. MaxChallenges
        /\ [asking[r] EXCEPT !.at = "wallet"] \in AskStates
    BY <1>1, <1>13, AskingByPlace DEF NoteNonce
  <2>2. AskStep(r)
    BY <1>13, <2>1 DEF NoteNonce, AskStep, cacheVars
  <2>3. usedNonces' \subseteq 1 .. MaxChallenges
    BY <1>2, <1>13, <2>1 DEF NoteNonce, AddMember
  <2> QED
    BY <1>2, <1>7, <1>8, <1>13, <2>2, <2>3 DEF NoteNonce, rowVars
<1>14. CASE IssueToWallet(r)
  <2>1. AskStep(r)
    BY <1>2, <1>4, <1>14, AskingBuilt DEF IssueToWallet, AskStep, cacheVars
  <2>2. challenge' \in 0 .. MaxChallenges
    BY <1>14, SessionAssumption DEF IssueToWallet, NoToken
  <2> QED
    BY <1>2, <1>8, <1>14, <2>1, <2>2 DEF IssueToWallet, rowVars
<1>15. CASE StoreRefreshToken(r)
  <2>1. asking[r].version \in Versions /\ asking[r].wallet \in BOOLEAN
    BY <1>1, <1>15, AskingByPlace DEF StoreRefreshToken
  <2>2. AskStep(r)
    BY <1>15, AskingBuilt DEF StoreRefreshToken, AskStep, cacheVars, Answered
  <2>3. PICK token \in RefreshToken : tokens' = Append(tokens, token)
    BY <1>15, <2>1 DEF StoreRefreshToken, RefreshToken
  <2>4. Len(tokens) \in Nat /\ MaxTokens \in Nat /\ Len(tokens) < MaxTokens
    BY <1>2, <1>15, SessionAssumption DEF StoreRefreshToken
  <2>5. tokens' \in Seq(RefreshToken) /\ Len(tokens') = Len(tokens) + 1
    BY <1>2, <2>3
  <2>6. walletToken' \in TokenNos \cup {NoToken}
    BY <1>2, <1>15, <2>4 DEF StoreRefreshToken, TokenNos
  <2> QED
    BY <1>2, <1>8, <1>15, <2>2, <2>4, <2>5, <2>6
    DEF StoreRefreshToken, nonceVars
<1>16. CASE RevokeSession(r)
  <2>1. PICK t \in Rows : tokens' = Revoked({t})
    BY <1>16 DEF RevokeSession
  <2>2. CacheIsCurrent'
    BY <1>16, CacheStaysCurrent DEF RevokeSession, rowVars, cacheVars
  <2> QED
    BY <1>6, <1>16, <2>1, <2>2
    DEF RevokeSession, SessionInv, rowVars, cacheVars, nonceVars
<1>17. CASE Logout(r)
  <2>1. AskStep(r)
    BY <1>4, <1>5, <1>17, AskingBuilt DEF Logout, AskStep, cacheVars
  <2>2. tokens' \in Seq(RefreshToken) /\ Len(tokens') <= MaxTokens
    BY <1>2, <1>6, <1>17 DEF Logout
  <2> QED
    BY <1>2, <1>8, <1>17, <2>1, <2>2 DEF Logout, rowVars, nonceVars
<1>18. CASE LogoutWallet(r)
  <2>1. AskStep(r)
    BY <1>4, <1>5, <1>18, AskingBuilt DEF LogoutWallet, AskStep, cacheVars
  <2> QED
    BY <1>2, <1>8, <1>18, <2>1 DEF LogoutWallet, nonceVars
<1>19. CASE AdminRevokeUserTokens(r)
  <2>1. AskStep(r)
    BY <1>4, <1>5, <1>19, AskingBuilt DEF AdminRevokeUserTokens, AskStep, cacheVars
  <2> QED
    BY <1>2, <1>8, <1>19, <2>1 DEF AdminRevokeUserTokens, rowVars, nonceVars
<1>20. CASE RevokeAllUserTokens(r)
  <2>1. AskStep(r)
    BY <1>1, <1>4, <1>20, AskingBuilt, AskingByPlace
    DEF RevokeAllUserTokens, AskStep, cacheVars
  <2> QED
    BY <1>2, <1>6, <1>8, <1>20, <2>1 DEF RevokeAllUserTokens, rowVars, nonceVars
<1> HIDE DEF Kept
<1> QED
  BY <1>9, <1>10, <1>11, <1>12, <1>13, <1>14, <1>15, <1>16, <1>17, <1>18,
     <1>19, <1>20 DEF RevokeTokens, IssueTokens

\* Raising the version, with the invalidation of the cache that follows.
LEMMA VersionsStep ==
  ASSUME SessionInv, NEW r \in SessionRequests, RaiseVersion(r)
  PROVE  SessionInv'
<1>1. asking[r] \in AskStates /\ asking \in [SessionRequests -> AskStates]
  BY DEF SessionInv
<1>2. /\ tokenVersion \in Versions /\ walletToken \in TokenNos \cup {NoToken}
      /\ NoToken \in TokenNos \cup {NoToken}
      /\ tokens \in Seq(RefreshToken) /\ Len(tokens) <= MaxTokens
      /\ challenge \in 0 .. MaxChallenges
      /\ usedNonces \subseteq 1 .. MaxChallenges
      /\ sessionFaults \in 0 .. MaxSessionFaults
  BY DEF SessionInv
<1>3. {"end", "again", "issue"} \subseteq Rest /\ {TRUE, FALSE} \subseteq BOOLEAN
  BY DEF Rest
<1>4. \A v \in Versions : v < MaxVersion => v + 1 \in Versions
  BY SessionAssumption DEF Versions
<1>5. Idle(r) => asking[r].at # "drop"
  BY DEF Idle, NotAsking
<1>6. CASE ReadVersion(r)
  <2>1. AskStep(r)
    BY <1>1, <1>2, <1>6, AskingBuilt, AskingByPlace
    DEF ReadVersion, AskStep, cacheVars
  <2> QED
    BY <1>2, <1>6, <2>1, AskStepHolds DEF ReadVersion, rowVars, nonceVars
<1>7. CASE FindUserToBan(r)
  <2>1. AskStep(r)
    BY <1>2, <1>4, <1>5, <1>7, AskingBuilt DEF FindUserToBan, AskStep, cacheVars
  <2> QED
    BY <1>2, <1>7, <2>1, AskStepHolds DEF FindUserToBan, rowVars, nonceVars
<1>8. ASSUME WriteVersion(r) \/ BanUser(r) PROVE SessionInv'
  <2>1. PICK v \in Versions, then \in Rest :
          /\ tokenVersion' = v
          /\ Now(r, [at |-> "drop", version |-> v, then |-> then])
    BY <1>1, <1>3, <1>4, <1>8, AskingByPlace DEF WriteVersion, BanUser
  <2>2. walletToken' \in TokenNos \cup {NoToken}
    BY <1>1, <1>2, <1>8, AskingByPlace DEF WriteVersion, BanUser
  <2>3. UNCHANGED <<tokens, cachedVersion, lateEntry, challenge, usedNonces,
                    sessionFaults>>
    BY <1>8 DEF WriteVersion, BanUser, cacheVars, nonceVars
  <2>4. [at |-> "drop", version |-> v, then |-> then] \in AskStates
    BY AskingBuilt
  <2>5. asking' \in [SessionRequests -> AskStates] /\ asking'[r].at = "drop"
    BY <2>1, <2>4, NowTyped
  <2>6. CacheIsCurrent'
    BY <2>5 DEF CacheIsCurrent
  <2> QED
    BY <1>2, <2>1, <2>2, <2>3, <2>5, <2>6 DEF SessionInv
<1>9. CASE InvalidateVersion(r)
  <2>1. asking[r].version \in Versions /\ asking[r].then \in Rest
    BY <1>1, <1>9, AskingByPlace DEF InvalidateVersion
  <2>2. \E state \in AskStates : Now(r, state)
    BY <1>3, <1>9, <2>1, AskingBuilt DEF InvalidateVersion, Answered, Rest
  <2>3. asking' \in [SessionRequests -> AskStates]
    BY <2>2, NowTyped
  <2>4. CacheIsCurrent'
    BY <1>9 DEF InvalidateVersion, CacheIsCurrent
  <2> QED
    BY <1>2, <1>9, <2>3, <2>4
    DEF InvalidateVersion, SessionInv, rowVars, nonceVars
<1> QED
  BY <1>6, <1>7, <1>8, <1>9 DEF RaiseVersion

\* Checking an access token against the cache and the row.
LEMMA ChecksStep ==
  ASSUME SessionInv, NEW r \in SessionRequests, CheckToken(r)
  PROVE  SessionInv'
<1>1. asking[r] \in AskStates /\ asking \in [SessionRequests -> AskStates]
  BY DEF SessionInv
<1>2. /\ walletToken \in TokenNos \cup {NoToken}
      /\ tokens \in Seq(RefreshToken) /\ Len(tokens) <= MaxTokens
      /\ challenge \in 0 .. MaxChallenges
      /\ usedNonces \subseteq 1 .. MaxChallenges
      /\ sessionFaults \in 0 .. MaxSessionFaults
  BY DEF SessionInv
<1>3. Idle(r) => asking[r].at # "drop"
  BY DEF Idle, NotAsking
<1>4. CASE Validate(r)
  <2>1. \A t \in DOMAIN tokens : tokens[t].version \in Versions
    BY RowsAreTokens DEF RefreshToken
  <2>2. AskStep(r)
    BY <1>3, <1>4, <2>1, AskingBuilt DEF Validate, AskStep, cacheVars
  <2> QED
    BY <1>2, <1>4, <2>2, AskStepHolds DEF Validate, rowVars, nonceVars
<1>5. CASE CheckCachedVersion(r)
  <2>1. AskStep(r)
    BY <1>1, <1>5, AskingBuilt, AskingByPlace
    DEF CheckCachedVersion, AskStep, cacheVars, Answered
  <2> QED
    BY <1>2, <1>5, <2>1, AskStepHolds DEF CheckCachedVersion, rowVars, nonceVars
<1>6. CASE CheckVersion(r)
  <2>1. AskStep(r)
    BY <1>1, <1>6, AskingBuilt, AskingByPlace
    DEF CheckVersion, AskStep, cacheVars, Answered
  <2> QED
    BY <1>2, <1>6, <2>1, AskStepHolds DEF CheckVersion, rowVars, nonceVars
<1>7. CASE FillCache(r)
  <2>1. cachedVersion' \in Versions
    BY <1>1, <1>7, AskingByPlace DEF FillCache
  <2>2. asking' \in [SessionRequests -> AskStates]
    BY <1>7, AskingBuilt, NowTyped DEF FillCache, Answered
  <2>3. CacheIsCurrent'
    BY <1>7 DEF FillCache, CacheIsCurrent, rowVars
  <2>4. UNCHANGED <<tokenVersion, walletToken, tokens, challenge, usedNonces,
                    sessionFaults>> /\ lateEntry' \in BOOLEAN
    BY <1>7 DEF FillCache, rowVars, nonceVars
  <2> QED
    BY <2>1, <2>2, <2>3, <2>4 DEF SessionInv
<1> QED
  BY <1>4, <1>5, <1>6, <1>7 DEF CheckToken

\* ... every step keeps it,
LEMMA SessionStepHolds == SessionInv /\ [SessionNext]_sessionVars => SessionInv'
<1> SUFFICES ASSUME SessionInv, [SessionNext]_sessionVars PROVE SessionInv'
  OBVIOUS
<1>1. ASSUME NEW r \in SessionRequests, RequestDies(r) PROVE SessionInv'
  <2>1. /\ asking' \in [SessionRequests -> AskStates]
        /\ \A q \in SessionRequests : q # r => asking'[q] = asking[q]
    BY <1>1, AskingBuilt, NowTyped DEF RequestDies, Answered
  <2>2. sessionFaults' \in 0 .. MaxSessionFaults
    BY <1>1, SessionAssumption DEF RequestDies, SessionInv
  <2>3. UNCHANGED <<tokenVersion, walletToken, tokens, cachedVersion, challenge,
                    usedNonces>>
    BY <1>1 DEF RequestDies, rowVars, nonceVars
  <2>4. lateEntry' = (lateEntry \/ asking[r].at = "drop")
    BY <1>1 DEF RequestDies
  <2>5. CacheIsCurrent'
    BY <2>1, <2>3, <2>4, CacheStaysCurrent
  <2>6. lateEntry' \in BOOLEAN
    BY <2>4 DEF SessionInv
  <2> QED
    BY <2>1, <2>2, <2>3, <2>5, <2>6 DEF SessionInv
<1>2. CASE GenerateChallenge
  <2>1. CacheIsCurrent'
    BY <1>2, CacheStaysCurrent DEF GenerateChallenge, rowVars, cacheVars
  <2>2. challenge' \in 0 .. MaxChallenges
    BY <1>2, SessionAssumption DEF GenerateChallenge
  <2> QED
    BY <1>2, <2>1, <2>2 DEF GenerateChallenge, SessionInv, rowVars, cacheVars
<1>3. CASE SessionTimePasses
  <2>1. CASE /\ cachedVersion' = NoVersion /\ lateEntry' = FALSE
             /\ UNCHANGED <<rowVars, tokens, nonceVars, asking, sessionFaults>>
    <3>1. CacheIsCurrent'
      BY <2>1 DEF CacheIsCurrent
    <3> QED
      BY <2>1, <3>1 DEF SessionInv, rowVars, nonceVars
  <2>2. ASSUME NEW t \in Rows, NEW age \in {"late", "over"},
               tokens' = [tokens EXCEPT ![t].age = age],
               UNCHANGED <<rowVars, cacheVars, nonceVars, asking, sessionFaults>>
        PROVE  SessionInv'
    <3>1. CacheIsCurrent'
      BY <2>2, CacheStaysCurrent DEF rowVars, cacheVars
    <3>2. t \in DOMAIN tokens /\ tokens[t] \in RefreshToken
      BY RowsAreTokens
    <3>3. [tokens[t] EXCEPT !.age = age] \in RefreshToken
      BY <3>2 DEF RefreshToken
    <3>4. tokens' \in Seq(RefreshToken) /\ Len(tokens') = Len(tokens)
      BY <2>2, <3>2, <3>3 DEF SessionInv
    <3> QED
      BY <2>2, <3>1, <3>4 DEF SessionInv, rowVars, cacheVars, nonceVars
  <2> QED
    BY <1>3, <2>1, <2>2 DEF SessionTimePasses
<1>4. CASE UNCHANGED sessionVars
  BY <1>4 DEF sessionVars, SessionInv, CacheIsCurrent
<1> QED
  BY <1>1, <1>2, <1>3, <1>4, TokensStep, VersionsStep, ChecksStep
  DEF SessionNext

-----------------------------------------------------------------------------
(***************************************************************************)
(* The accounts and their erasure.                                         *)
(***************************************************************************)
AskingToday ==
  {NotRequesting} \cup [at : {"exists", "set", "add"}, kind : GdprKinds]
  \cup [at : {"upload", "save"}, file : KycFiles] \cup [at : {"store"}]

\* The queue: a job that has not failed for good has an attempt left.
QueueTyped ==
  /\ \E n \in 0 .. MaxGdprJobs : gdprJobs \in [1 .. n -> GdprJob]
  /\ \A j \in DOMAIN gdprJobs :
       gdprJobs[j].at # "failed" => gdprJobs[j].tries < GdprAttempts

DataTyped ==
  /\ kycRows \subseteq KycFiles /\ stored \subseteq Objects
  /\ {signedIn, anonymized, completed, lateSignIn} \subseteq BOOLEAN
  /\ overtook \subseteq KycFiles \cup Exports /\ refused \subseteq Exports

GdprTyped ==
  /\ cooldowns \subseteq GdprKinds
  /\ requesting \in [GdprRequests -> AskingToday]
  /\ QueueTyped /\ DataTyped /\ beneficiary \in BOOLEAN
  /\ gdprFaults \in 0 .. MaxGdprFaults

\* An erasure has done what its earlier steps are for, but for what came too
\* late for it and what was refused: so while it runs, and for ever after.
Reached(steps) == completed \/ \E j \in DOMAIN gdprJobs : gdprJobs[j].at \in steps
AfterRows == {"list", "exports", "tokens", "anonymize", "log"}
AfterExports == {"tokens", "anonymize", "log"}
AfterTokens == {"anonymize", "log"}
Leftovers(found) ==
  \A o \in stored : o.name \in Exports => o \in found \/ o.name \in overtook \cup refused

RowsRemoved == Reached(AfterRows) => kycRows \subseteq overtook
Listed(j) ==
  gdprJobs[j].at = "exports" =>
    /\ Leftovers(gdprJobs[j].found)
    /\ \A o \in gdprJobs[j].found : o.name \in Exports
ExportsListed == \A j \in DOMAIN gdprJobs : Listed(j)
ExportsRemoved == Reached(AfterExports) => Leftovers({})
TokensRevoked == Reached(AfterTokens) => (signedIn => lateSignIn)
RowAnonymized == Reached({"log"}) => anonymized
ExportsInBucket == \A o \in stored : o.name \in Exports => o.bucket = ExportBucket

Removed ==
  /\ RowsRemoved /\ ExportsListed /\ ExportsRemoved /\ TokensRevoked
  /\ RowAnonymized /\ ExportsInBucket
GdprInv == GdprTyped /\ Removed

\* The invariant of this part holds at first,
LEMMA GdprInitially == GdprInit => GdprInv
<1> SUFFICES ASSUME GdprInit PROVE GdprInv
  OBVIOUS
<1>1. DOMAIN gdprJobs = {} /\ gdprJobs \in [1 .. 0 -> GdprJob]
  BY DEF GdprInit
<1>2. 0 \in 0 .. MaxGdprJobs /\ 0 \in 0 .. MaxGdprFaults
  BY GdprAssumption
<1>3. \A o \in stored : o \in Objects /\ o.name \in KycFiles
  BY DEF GdprInit, Objects
<1>4. \A o \in stored : o.name \notin Exports
  BY <1>3, GdprAssumption
<1>5. requesting \in [GdprRequests -> AskingToday]
  BY DEF GdprInit, AskingToday
<1>6. QueueTyped /\ DataTyped
  BY <1>1, <1>2, <1>3 DEF GdprInit, QueueTyped, DataTyped
<1>7. GdprTyped
  BY <1>2, <1>5, <1>6 DEF GdprInit, GdprTyped
<1>8. \A S : ~Reached(S)
  BY <1>1 DEF GdprInit, Reached
<1>9. Removed
  BY <1>1, <1>4, <1>8 DEF Removed, RowsRemoved, ExportsListed, ExportsRemoved,
     TokensRevoked, RowAnonymized, ExportsInBucket
<1> QED
  BY <1>7, <1>9 DEF GdprInv

\* ... and it implies the types and what is to be shown of this part.
LEMMA GdprConclusion == GdprInv => GdprTypeOK /\ CompletedIsErased
<1> SUFFICES ASSUME GdprInv PROVE GdprTypeOK /\ CompletedIsErased
  OBVIOUS
<1>1. PICK n \in 0 .. MaxGdprJobs : gdprJobs \in [1 .. n -> GdprJob]
  BY DEF GdprInv, GdprTyped, QueueTyped
<1>2. DOMAIN gdprJobs = 1 .. n /\ \A j \in 1 .. n : gdprJobs[j] \in GdprJob
  BY <1>1
<1>3. \E m \in 0 .. MaxGdprJobs :
        DOMAIN gdprJobs = 1 .. m /\ \A j \in 1 .. m : gdprJobs[j] \in GdprJob
  BY <1>2
<1>4. GdprTypeOK
  BY <1>3 DEF GdprInv, GdprTyped, DataTyped, GdprTypeOK, AskingToday
<1>5. completed => \A S : Reached(S)
  BY DEF Reached
<1>6. CompletedIsErased
  BY <1>5 DEF GdprInv, Removed, RowsRemoved, ExportsRemoved, TokensRevoked,
     RowAnonymized, Leftovers, CompletedIsErased
<1> QED
  BY <1>4, <1>6

\* The jobs are finitely many rows of their type.
LEMMA JobsTyped ==
  ASSUME QueueTyped
  PROVE  /\ \A j \in DOMAIN gdprJobs : gdprJobs[j] \in GdprJob /\ j \in JobNos
         /\ IsFiniteSet(DOMAIN gdprJobs)
         /\ \E n \in 0 .. MaxGdprJobs : DOMAIN gdprJobs = 1 .. n
<1>1. PICK n \in 0 .. MaxGdprJobs : gdprJobs \in [1 .. n -> GdprJob]
  BY DEF QueueTyped
<1>2. n \in Nat /\ DOMAIN gdprJobs = 1 .. n
  BY <1>1
<1>3. \A j \in 1 .. n : j \in JobNos /\ gdprJobs[j] \in GdprJob
  BY <1>1, GdprAssumption DEF JobNos
<1>4. IsFiniteSet(1 .. n)
  BY <1>2, FS_Interval
<1> QED
  BY <1>2, <1>3, <1>4

\* A step of a job: its place, what it has found, the rest as it was.
Moves(j, step, found) ==
  /\ j \in DOMAIN gdprJobs /\ DOMAIN gdprJobs' = DOMAIN gdprJobs
  /\ gdprJobs'[j].at = step /\ gdprJobs'[j].found = found
  /\ \A i \in DOMAIN gdprJobs : i # j => gdprJobs'[i] = gdprJobs[i]
JobPlaces == {"waiting", "done", "failed"} \cup ExportSteps \cup ErasureSteps

\* A job that takes a row of its type leaves the queue typed.
LEMMA RowTaken ==
  ASSUME QueueTyped, NEW j \in DOMAIN gdprJobs, NEW row \in GdprJob,
         gdprJobs' = [gdprJobs EXCEPT ![j] = row],
         row.at # "failed" => row.tries < GdprAttempts
  PROVE  QueueTyped' /\ Moves(j, row.at, row.found)
<1>1. PICK n \in 0 .. MaxGdprJobs : gdprJobs \in [1 .. n -> GdprJob]
  BY DEF QueueTyped
<1>2. gdprJobs' \in [1 .. n -> GdprJob]
  BY <1>1
<1>3. \A i \in DOMAIN gdprJobs :
        gdprJobs'[i] = IF i = j THEN row ELSE gdprJobs[i]
  BY <1>1
<1>4. DOMAIN gdprJobs' = DOMAIN gdprJobs
  BY <1>1, <1>2
<1> QED
  BY <1>2, <1>3, <1>4 DEF QueueTyped, Moves

\* ... so does one that goes on from a place where it had an attempt left,
LEMMA JobGoesOn ==
  ASSUME QueueTyped, NEW j, NEW at, NEW step \in JobPlaces, at # "failed",
         JobAt(j, at, step)
  PROVE  /\ QueueTyped' /\ gdprJobs[j].at = at
         /\ Moves(j, step, gdprJobs[j].found)
<1>1. /\ j \in DOMAIN gdprJobs /\ gdprJobs[j].at = at
      /\ gdprJobs' = [gdprJobs EXCEPT ![j].at = step]
  BY DEF JobAt
<1>2. gdprJobs[j] \in GdprJob /\ gdprJobs[j].tries < GdprAttempts
  BY <1>1, JobsTyped DEF QueueTyped
<1>3. PICK row : row = [gdprJobs[j] EXCEPT !.at = step]
  OBVIOUS
<1>4. /\ row \in GdprJob /\ row.at = step /\ row.tries = gdprJobs[j].tries
      /\ row.found = gdprJobs[j].found
  BY <1>2, <1>3 DEF GdprJob, JobPlaces
<1>5. gdprJobs' = [gdprJobs EXCEPT ![j] = row]
  BY <1>1, <1>3
<1> QED
  BY <1>1, <1>2, <1>4, <1>5, RowTaken

\* ... or with objects it has found,
LEMMA JobHasFound ==
  ASSUME QueueTyped, NEW j, NEW at, NEW step \in JobPlaces, at # "failed",
         NEW found \in SUBSET Objects, JobFinds(j, at, step, found)
  PROVE  QueueTyped' /\ gdprJobs[j].at = at /\ Moves(j, step, found)
<1>1. /\ j \in DOMAIN gdprJobs /\ gdprJobs[j].at = at
      /\ gdprJobs' = [gdprJobs EXCEPT ![j].at = step, ![j].found = found]
  BY DEF JobFinds
<1>2. gdprJobs[j] \in GdprJob /\ gdprJobs[j].tries < GdprAttempts
  BY <1>1, JobsTyped DEF QueueTyped
<1>3. PICK row : row = [[gdprJobs[j] EXCEPT !.at = step] EXCEPT !.found = found]
  OBVIOUS
<1>4. /\ row \in GdprJob /\ row.at = step /\ row.tries = gdprJobs[j].tries
      /\ row.found = found
  BY <1>2, <1>3 DEF GdprJob, JobPlaces
<1>5. gdprJobs' = [gdprJobs EXCEPT ![j] = row]
  BY <1>1, <1>3
<1> QED
  BY <1>1, <1>2, <1>4, <1>5, RowTaken

\* ... and one that failed, which waits to be tried again while attempts remain.
LEMMA JobHasFailed ==
  ASSUME QueueTyped, NEW j, GdprJobFails(j)
  PROVE  QueueTyped' /\ \E step \in {"waiting", "failed"} : Moves(j, step, {})
<1>1. /\ j \in DOMAIN gdprJobs /\ gdprJobs[j] \in GdprJob
      /\ gdprJobs[j].at # "failed"
  BY JobsTyped DEF GdprJobFails, Running, ExportSteps, ErasureSteps
<1>2. gdprJobs[j].tries \in Nat /\ gdprJobs[j].tries < GdprAttempts
      /\ GdprAttempts \in Nat
  BY <1>1, GdprAssumption DEF QueueTyped, GdprJob
<1>3. PICK n \in 1 .. GdprAttempts : n = gdprJobs[j].tries + 1
  BY <1>2
<1>4. PICK step \in {"waiting", "failed"} :
        step = IF n < GdprAttempts THEN "waiting" ELSE "failed"
  OBVIOUS
<1>5. gdprJobs' = [gdprJobs EXCEPT
        ![j].at = IF gdprJobs[j].tries + 1 < GdprAttempts THEN "waiting" ELSE "failed",
        ![j].tries = @ + 1, ![j].found = {}]
  BY DEF GdprJobFails
<1>6. PICK found \in SUBSET Objects : found = {}
  OBVIOUS
<1>7. PICK row : row = [[[gdprJobs[j] EXCEPT !.at = step] EXCEPT !.tries = n]
                          EXCEPT !.found = found]
  OBVIOUS
<1>8. /\ row \in GdprJob /\ row.at = step /\ row.tries = n /\ row.found = found
  <2>1. n \in 0 .. GdprAttempts
    BY <1>2
  <2> QED
    BY <1>1, <1>7, <2>1 DEF GdprJob
<1>9. gdprJobs' = [gdprJobs EXCEPT ![j].at = step, ![j].tries = n, ![j].found = found]
  BY <1>1, <1>3, <1>4, <1>5, <1>6 DEF GdprJob
<1>10. gdprJobs' = [gdprJobs EXCEPT ![j] = row]
  BY <1>1, <1>7, <1>9
<1>11. row.at # "failed" => row.tries < GdprAttempts
  BY <1>2, <1>3, <1>4, <1>8
<1> QED
  BY <1>1, <1>6, <1>8, <1>10, <1>11, RowTaken

\* A job that is added comes last and waits.
LEMMA JobAdded ==
  ASSUME GdprTyped, NEW r \in GdprRequests, AddGdprJob(r)
  PROVE  /\ QueueTyped'
         /\ \E j \in JobNos :
              /\ j \notin DOMAIN gdprJobs /\ DOMAIN gdprJobs' = DOMAIN gdprJobs \cup {j}
              /\ \A i \in DOMAIN gdprJobs : gdprJobs'[i] = gdprJobs[i]
              /\ gdprJobs'[j].at = "waiting"
<1>1. PICK n \in 0 .. MaxGdprJobs : gdprJobs \in [1 .. n -> GdprJob]
  BY DEF GdprTyped, QueueTyped
<1>2. n \in Nat /\ DOMAIN gdprJobs = 1 .. n /\ 1 \in Int
  BY <1>1
<1>3. Cardinality(1 .. n) = n
  BY <1>2, FS_Interval
<1>4. n < MaxGdprJobs /\ Cardinality(DOMAIN gdprJobs) + 1 = n + 1
  BY <1>2, <1>3 DEF AddGdprJob
<1>5. PICK j \in JobNos : j = n + 1
  BY <1>2, <1>4, GdprAssumption DEF JobNos
<1>6. requesting[r] \in AskingToday /\ requesting[r].at = "add"
  BY DEF AddGdprJob, GdprTyped
<1>7. requesting[r].kind \in GdprKinds
  BY <1>6 DEF AskingToday, NotRequesting
<1>8. PICK row : row = [kind |-> requesting[r].kind, tries |-> 0,
                        found |-> {}, at |-> "waiting"]
  OBVIOUS
<1>9. row \in GdprJob /\ row.at = "waiting" /\ row.tries < GdprAttempts
  BY <1>7, <1>8, GdprAssumption DEF GdprJob
<1>10. 1 .. n \cup {j} = 1 .. j /\ j \notin 1 .. n /\ j \in 0 .. MaxGdprJobs
  BY <1>2, <1>4, <1>5, GdprAssumption
<1>11. gdprJobs' = [i \in 1 .. j |-> IF i # j THEN gdprJobs[i] ELSE row]
  BY <1>2, <1>4, <1>5, <1>8, <1>10 DEF AddGdprJob
<1>12. /\ gdprJobs' \in [1 .. j -> GdprJob] /\ gdprJobs'[j] = row
       /\ \A i \in 1 .. n : gdprJobs'[i] = gdprJobs[i]
  BY <1>1, <1>9, <1>10, <1>11
<1>13. \A i \in DOMAIN gdprJobs' :
         gdprJobs'[i].at # "failed" => gdprJobs'[i].tries < GdprAttempts
  BY <1>2, <1>9, <1>10, <1>12 DEF GdprTyped, QueueTyped
<1>14. QueueTyped'
  BY <1>10, <1>12, <1>13 DEF QueueTyped
<1> QED
  BY <1>2, <1>9, <1>10, <1>12, <1>14

\* What is asked of the steps that come late for an erasure.
LEMMA TooLate ==
  /\ TooLateFor({}) <=> Reached(AfterRows)
  /\ TooLateFor({"list"}) <=> Reached({"exports"} \cup AfterExports)
  /\ TooLateFor({"list", "exports", "tokens"}) <=> Reached(AfterTokens)
<1>1. /\ ErasureSteps \ ({"find", "files", "rows"} \cup {}) = AfterRows
      /\ ErasureSteps \ ({"find", "files", "rows"} \cup {"list"})
           = {"exports"} \cup AfterExports
      /\ ErasureSteps \ ({"find", "files", "rows"} \cup {"list", "exports", "tokens"})
           = AfterTokens
  BY DEF ErasureSteps, AfterRows, AfterExports, AfterTokens
<1> QED
  BY <1>1 DEF TooLateFor, Reached

\* A step after which no job is where it was not before, nor has found anything
\* else there: nothing is reached that was not.
Behind ==
  /\ completed' = completed
  /\ \A i \in DOMAIN gdprJobs' : gdprJobs'[i].at \in AfterRows =>
       i \in DOMAIN gdprJobs /\ gdprJobs'[i] = gdprJobs[i]

LEMMA NothingReached ==
  ASSUME Behind, NEW S, S \subseteq AfterRows, Reached(S)'
  PROVE  Reached(S)
  BY DEF Behind, Reached

\* So a step that only adds objects of the user, or nothing, keeps what was
\* removed,
LEMMA QuietStep ==
  ASSUME Removed, Behind, UNCHANGED dataVars
  PROVE  Removed'
<1>1. /\ Reached(AfterRows)' => Reached(AfterRows)
      /\ Reached(AfterExports)' => Reached(AfterExports)
      /\ Reached(AfterTokens)' => Reached(AfterTokens)
      /\ Reached({"log"})' => Reached({"log"})
  BY NothingReached DEF AfterRows, AfterExports, AfterTokens
<1>2. \A S : Leftovers(S)' <=> Leftovers(S)
  BY DEF Leftovers, dataVars
<1>3. ExportsListed'
  BY <1>2 DEF Removed, ExportsListed, Listed, Behind, AfterRows
<1> QED
  BY <1>1, <1>2, <1>3 DEF Removed, RowsRemoved, ExportsRemoved, TokensRevoked,
     RowAnonymized, ExportsInBucket, dataVars

\* ... and a step of one job reaches the place it goes to, and no other.
LEMMA StepReaches ==
  ASSUME NEW j, NEW step, NEW found, Moves(j, step, found), NEW S,
         Reached(S)', completed' = completed
  PROVE  Reached(S) \/ step \in S
  BY DEF Moves, Reached

LEMMA StaysBehind ==
  ASSUME NEW j, NEW step, NEW found, Moves(j, step, found), step \notin AfterRows,
         completed' = completed
  PROVE  Behind
  BY DEF Moves, Behind

\* What the step of a job has to keep of the types.
LEMMA JobStepTyped ==
  ASSUME GdprTyped, QueueTyped', DataTyped', UNCHANGED <<cooldowns, requesting>>,
         beneficiary' = beneficiary, gdprFaults' \in 0 .. MaxGdprFaults
  PROVE  GdprTyped'
  BY DEF GdprTyped

\* The requests to export and to erase change nothing of what is removed,
LEMMA GdprRequestHolds ==
  ASSUME GdprInv, NEW r \in GdprRequests, GdprRequest(r)
  PROVE  GdprInv'
<1>1. requesting[r] \in AskingToday /\ NotRequesting \in AskingToday
  BY DEF GdprInv, GdprTyped, AskingToday
<1>2. ASSUME NEW state \in AskingToday, ToStep(r, state)
      PROVE  requesting' \in [GdprRequests -> AskingToday]
  BY <1>2 DEF ToStep, GdprInv, GdprTyped
<1>3. \A kind \in GdprKinds : [at |-> "exists", kind |-> kind] \in AskingToday
  BY DEF AskingToday
<1>4. requesting[r].at \in {"exists", "set"} =>
        /\ requesting[r].kind \in GdprKinds
        /\ [requesting[r] EXCEPT !.at = "set"] \in AskingToday
        /\ [requesting[r] EXCEPT !.at = "add"] \in AskingToday
  BY <1>1 DEF AskingToday, NotRequesting
<1>5. requesting' \in [GdprRequests -> AskingToday]
  <2>1. CASE RequestDataExport(r) \/ RequestErasure(r)
    BY <1>2, <1>3, <2>1 DEF RequestDataExport, RequestErasure, GdprKinds
  <2>2. CASE CheckCooldown(r)
    BY <1>1, <1>2, <1>4, <2>2 DEF CheckCooldown
  <2>3. CASE SetCooldown(r)
    BY <1>2, <1>4, <2>3 DEF SetCooldown
  <2>4. CASE AddGdprJob(r) \/ GdprRequestDies(r)
    BY <1>1, <1>2, <2>4 DEF AddGdprJob, GdprRequestDies
  <2> QED
    BY <2>1, <2>2, <2>3, <2>4 DEF GdprRequest
<1>6. cooldowns' \subseteq GdprKinds
  <2>1. CASE SetCooldown(r)
    BY <1>4, <2>1 DEF SetCooldown, GdprInv, GdprTyped
  <2>2. UNCHANGED cooldowns \/ SetCooldown(r)
    BY DEF GdprRequest, RequestDataExport, RequestErasure, CheckCooldown,
           AddGdprJob, GdprRequestDies
  <2> QED
    BY <2>1, <2>2 DEF GdprInv, GdprTyped
<1>7. UNCHANGED userVars
  BY DEF GdprRequest, RequestDataExport, RequestErasure, CheckCooldown,
         SetCooldown, AddGdprJob, GdprRequestDies
<1>8. gdprFaults' \in 0 .. MaxGdprFaults
  BY GdprAssumption DEF GdprRequest, RequestDataExport, RequestErasure, CheckCooldown,
     SetCooldown, AddGdprJob, GdprRequestDies, GdprFault, GdprInv, GdprTyped
<1>9. UNCHANGED gdprJobs \/ AddGdprJob(r)
  BY DEF GdprRequest, RequestDataExport, RequestErasure, CheckCooldown,
         SetCooldown, GdprRequestDies
<1>10. QueueTyped'
  BY <1>9, JobAdded DEF GdprInv, GdprTyped, QueueTyped
<1>11. Behind
  <2>1. completed' = completed
    BY <1>7 DEF userVars, dataVars
  <2>2. CASE AddGdprJob(r)
    BY <2>1, <2>2, JobAdded DEF GdprInv, Behind, AfterRows
  <2> QED
    BY <1>9, <2>1, <2>2 DEF Behind
<1>12. UNCHANGED dataVars /\ beneficiary' = beneficiary
  BY <1>7 DEF userVars
<1>13. DataTyped'
  BY <1>12 DEF GdprInv, GdprTyped, DataTyped, dataVars
<1> QED
  BY <1>5, <1>6, <1>8, <1>10, <1>11, <1>12, <1>13, QuietStep DEF GdprInv, GdprTyped

\* ... those of the user add only what has come too late for an erasure that is
\* past its step,
LEMMA UserRequestHolds ==
  ASSUME GdprInv, NEW r \in GdprRequests, UserRequest(r)
  PROVE  GdprInv'
<1>1. requesting[r] \in AskingToday /\ NotRequesting \in AskingToday
  BY DEF GdprInv, GdprTyped, AskingToday
<1>2. ASSUME NEW state \in AskingToday, ToStep(r, state)
      PROVE  requesting' \in [GdprRequests -> AskingToday]
  BY <1>2 DEF ToStep, GdprInv, GdprTyped
<1>3. requesting[r].at \in {"upload", "save"} =>
        /\ requesting[r].file \in KycFiles
        /\ [requesting[r] EXCEPT !.at = "save"] \in AskingToday
  BY <1>1 DEF AskingToday, NotRequesting
<1>4. \A f \in KycFiles : [at |-> "upload", file |-> f] \in AskingToday
  BY DEF AskingToday
<1>5. requesting' \in [GdprRequests -> AskingToday]
  <2>1. CASE UploadDocument(r)
    BY <1>2, <1>4, <2>1 DEF UploadDocument
  <2>2. CASE UploadToS3(r)
    BY <1>2, <1>3, <2>2 DEF UploadToS3
  <2>3. CASE SaveKycRow(r) \/ StoreToken(r)
    BY <1>1, <1>2, <2>3 DEF SaveKycRow, StoreToken
  <2>4. CASE Authenticate(r)
    <3>1. [at |-> "store"] \in AskingToday
      BY DEF AskingToday
    <3> QED
      BY <1>2, <2>4, <3>1 DEF Authenticate
  <2> QED
    BY <2>1, <2>2, <2>3, <2>4 DEF UserRequest
<1>6. UNCHANGED <<cooldowns, gdprJobs, beneficiary, anonymized, completed,
                  refused, gdprFaults>>
  BY DEF UserRequest, UploadDocument, UploadToS3, SaveKycRow, Authenticate,
         StoreToken, userVars, dataVars
<1>7. Behind /\ \A S : Reached(S)' <=> Reached(S)
  BY <1>6 DEF Behind, Reached
<1>8. QueueTyped'
  BY <1>6 DEF GdprInv, GdprTyped, QueueTyped
<1>9. DataTyped' /\ Removed' => GdprInv'
  BY <1>5, <1>6, <1>8 DEF GdprInv, GdprTyped
<1>10. DataTyped /\ Removed
  BY DEF GdprInv, GdprTyped
<1>11. CASE UploadDocument(r)
  <2>1. UNCHANGED dataVars
    BY <1>11 DEF UploadDocument, userVars
  <2>2. Removed' /\ DataTyped'
    BY <1>7, <1>10, <2>1, QuietStep DEF DataTyped, dataVars
  <2> QED
    BY <1>9, <2>2
<1>12. CASE UploadToS3(r)
  <2>1. PICK f \in KycFiles : stored' = stored \cup {[bucket |-> KycBucket, name |-> f]}
    BY <1>3, <1>12 DEF UploadToS3
  <2>2. UNCHANGED <<kycRows, signedIn, overtook, lateSignIn>>
    BY <1>12 DEF UploadToS3
  <2>3. [bucket |-> KycBucket, name |-> f] \in Objects /\ f \notin Exports
    BY GdprAssumption DEF Objects
  <2>4. DataTyped'
    BY <1>6, <1>10, <2>1, <2>2, <2>3 DEF DataTyped
  <2>5. ASSUME NEW o \in stored', o.name \in Exports PROVE o \in stored
    BY <2>1, <2>3, <2>5
  <2>6. ExportsInBucket' /\ \A S : Leftovers(S) => Leftovers(S)'
    BY <1>6, <1>10, <2>2, <2>5 DEF Removed, ExportsInBucket, Leftovers
  <2>7. Removed'
    BY <1>6, <1>7, <1>10, <2>2, <2>6
    DEF Removed, RowsRemoved, ExportsListed, Listed, ExportsRemoved, TokensRevoked,
        RowAnonymized
  <2> QED
    BY <1>9, <2>4, <2>7
<1>13. CASE SaveKycRow(r)
  <2>1. PICK f \in KycFiles : /\ kycRows' = kycRows \cup {f}
                              /\ Comes(f, {})
    BY <1>3, <1>13 DEF SaveKycRow
  <2>2. UNCHANGED <<stored, signedIn, lateSignIn>>
    BY <1>13 DEF SaveKycRow
  <2>3. /\ overtook \subseteq overtook' /\ overtook' \subseteq overtook \cup {f}
        /\ Reached(AfterRows) => f \in overtook'
    BY <2>1, TooLate DEF Comes
  <2>4. DataTyped'
    BY <1>6, <1>10, <2>1, <2>2, <2>3 DEF DataTyped
  <2>5. RowsRemoved'
    BY <1>7, <1>10, <2>1, <2>3 DEF Removed, RowsRemoved
  <2>6. ExportsInBucket' /\ \A S : Leftovers(S) => Leftovers(S)'
    BY <1>6, <1>10, <2>2, <2>3 DEF Removed, ExportsInBucket, Leftovers
  <2>7. Removed'
    BY <1>6, <1>7, <1>10, <2>2, <2>5, <2>6
    DEF Removed, ExportsListed, Listed, ExportsRemoved, TokensRevoked, RowAnonymized
  <2> QED
    BY <1>9, <2>4, <2>7
<1>14. CASE Authenticate(r) \/ StoreToken(r)
  <2>1. UNCHANGED <<kycRows, stored, overtook>>
    BY <1>14 DEF Authenticate, StoreToken
  <2>2. signedIn' \in BOOLEAN /\ lateSignIn' \in BOOLEAN /\ TokensRevoked'
    <3>1. CASE Authenticate(r)
      BY <1>7, <1>10, <3>1 DEF Authenticate, DataTyped, Removed, TokensRevoked
    <3>2. CASE StoreToken(r)
      BY <1>7, <1>10, <3>2, TooLate DEF StoreToken, DataTyped, TokensRevoked
    <3> QED
      BY <1>14, <3>1, <3>2
  <2>3. DataTyped'
    BY <1>6, <1>10, <2>1, <2>2 DEF DataTyped
  <2>4. ExportsInBucket' /\ \A S : Leftovers(S) => Leftovers(S)'
    BY <1>6, <1>10, <2>1 DEF Removed, ExportsInBucket, Leftovers
  <2>5. Removed'
    BY <1>6, <1>7, <1>10, <2>1, <2>2, <2>4
    DEF Removed, RowsRemoved, ExportsListed, Listed, ExportsRemoved, RowAnonymized
  <2> QED
    BY <1>9, <2>3, <2>5
<1> QED
  BY <1>11, <1>12, <1>13, <1>14 DEF UserRequest

\* ... an export that is put too late for an erasure is known to be,
LEMMA PutHolds ==
  ASSUME GdprInv, NEW j \in JobNos, PutExport(j)
  PROVE  GdprInv'
<1>1. QueueTyped /\ DataTyped /\ Removed
  BY DEF GdprInv, GdprTyped
<1>2. /\ QueueTyped' /\ gdprJobs[j].at = "put"
      /\ Moves(j, "mail", gdprJobs[j].found)
  BY <1>1, JobGoesOn DEF PutExport, JobPlaces, ExportSteps
<1>3. gdprJobs[j].tries \in 0 .. GdprAttempts - 1
  <2>1. gdprJobs[j] \in GdprJob /\ gdprJobs[j].tries < GdprAttempts
    BY <1>1, <1>2, JobsTyped DEF Moves, QueueTyped
  <2> QED
    BY <2>1, GdprAssumption DEF GdprJob
<1>4. PICK file \in Exports :
        /\ stored' = stored \cup {[bucket |-> ExportBucket, name |-> file]}
        /\ Comes(file, {"list"})
  BY <1>3 DEF PutExport, Exports
<1>5. UNCHANGED <<RequestVars, beneficiary, kycRows, signedIn, anonymized,
                  completed, lateSignIn, refused>>
  BY DEF PutExport
<1>6. /\ overtook \subseteq overtook' /\ overtook' \subseteq overtook \cup {file}
      /\ Reached({"exports"} \cup AfterExports) => file \in overtook'
  BY <1>4, TooLate DEF Comes
<1>7. DataTyped'
  BY <1>1, <1>4, <1>5, <1>6 DEF DataTyped, Objects
<1>8. GdprTyped'
  BY <1>2, <1>5, <1>7, JobStepTyped DEF GdprInv, GdprTyped, RequestVars
<1>9. Behind
  BY <1>2, <1>5, StaysBehind DEF AfterRows
<1>10. /\ Reached(AfterRows)' => Reached(AfterRows)
       /\ Reached(AfterExports)' => Reached(AfterExports)
       /\ Reached(AfterTokens)' => Reached(AfterTokens)
       /\ Reached({"log"})' => Reached({"log"})
       /\ Reached({"exports"})' => Reached({"exports"})
  BY <1>9, NothingReached DEF AfterRows, AfterExports, AfterTokens
<1>11. Reached({"exports"}) \/ Reached(AfterExports) => file \in overtook'
  BY <1>6 DEF Reached
<1>12. ASSUME NEW S, Leftovers(S), file \in overtook' PROVE Leftovers(S)'
  BY <1>4, <1>5, <1>6, <1>12 DEF Leftovers
<1>13. ExportsRemoved'
  BY <1>1, <1>10, <1>11, <1>12 DEF Removed, ExportsRemoved
<1>14. ExportsListed'
  <2>1. SUFFICES ASSUME NEW i \in DOMAIN gdprJobs', gdprJobs'[i].at = "exports"
                 PROVE  Listed(i)'
    BY DEF ExportsListed, Listed
  <2>2. i \in DOMAIN gdprJobs /\ gdprJobs'[i] = gdprJobs[i]
    BY <1>9, <2>1 DEF Behind, AfterRows
  <2>3. /\ Reached({"exports"}) /\ Leftovers(gdprJobs[i].found)
        /\ \A o \in gdprJobs[i].found : o.name \in Exports
    BY <1>1, <2>1, <2>2 DEF Reached, Removed, ExportsListed, Listed
  <2>4. \A o \in stored' : o.name \in Exports =>
          o \in gdprJobs[i].found \/ o.name \in overtook' \cup refused'
    BY <1>4, <1>5, <1>6, <1>11, <2>3 DEF Leftovers
  <2> QED
    BY <2>2, <2>3, <2>4 DEF Leftovers, Listed
<1>15. ExportsInBucket'
  BY <1>1, <1>4 DEF Removed, ExportsInBucket
<1>16. Removed'
  BY <1>1, <1>5, <1>6, <1>10, <1>13, <1>14, <1>15
  DEF Removed, RowsRemoved, TokensRevoked, RowAnonymized
<1> QED
  BY <1>8, <1>16 DEF GdprInv

\* ... files that are deleted leave fewer objects,
LEMMA FilesDeleted ==
  ASSUME GdprInv, NEW j \in JobNos, DeleteKycFiles(j)
  PROVE  GdprInv'
<1>1. QueueTyped /\ DataTyped /\ Removed
  BY DEF GdprInv, GdprTyped
<1>2. stored' \subseteq stored /\ gdprFaults' \in 0 .. MaxGdprFaults
  BY GdprAssumption DEF DeleteKycFiles, DeleteObjects, GdprFault, GdprInv, GdprTyped
<1>3. UNCHANGED <<cooldowns, requesting, beneficiary, kycRows, signedIn, anonymized,
                  completed, overtook, lateSignIn, refused>>
  BY DEF DeleteKycFiles
<1>4. QueueTyped' /\ Moves(j, "rows", gdprJobs[j].found)
  BY <1>1, JobGoesOn DEF DeleteKycFiles, JobPlaces, ErasureSteps
<1>5. DataTyped'
  BY <1>1, <1>2, <1>3 DEF DataTyped
<1>6. GdprTyped'
  BY <1>2, <1>3, <1>4, <1>5, JobStepTyped DEF GdprInv
<1>7. Behind
  BY <1>3, <1>4, StaysBehind DEF AfterRows
<1>8. /\ Reached(AfterRows)' => Reached(AfterRows)
      /\ Reached(AfterExports)' => Reached(AfterExports)
      /\ Reached(AfterTokens)' => Reached(AfterTokens)
      /\ Reached({"log"})' => Reached({"log"})
  BY <1>7, NothingReached DEF AfterRows, AfterExports, AfterTokens
<1>9. \A S : Leftovers(S) => Leftovers(S)'
  BY <1>2, <1>3 DEF Leftovers
<1>10. ExportsListed' /\ ExportsInBucket'
  BY <1>1, <1>2, <1>7, <1>9
  DEF Removed, ExportsListed, Listed, ExportsInBucket, Behind, AfterRows
<1> QED
  BY <1>1, <1>3, <1>6, <1>8, <1>9, <1>10
  DEF GdprInv, Removed, RowsRemoved, ExportsRemoved, TokensRevoked, RowAnonymized

\* ... and of the exports an erasure has listed, those that are refused.
LEMMA ExportsDeleted ==
  ASSUME GdprInv, NEW j \in JobNos, DeleteExports(j)
  PROVE  GdprInv'
<1>1. QueueTyped /\ DataTyped /\ Removed
  BY DEF GdprInv, GdprTyped
<1>2. /\ QueueTyped' /\ gdprJobs[j].at = "exports"
      /\ Moves(j, "tokens", gdprJobs[j].found)
  BY <1>1, JobGoesOn DEF DeleteExports, JobPlaces, ErasureSteps
<1>3. PICK kept \in SUBSET gdprJobs[j].found :
        /\ stored' = stored \ (gdprJobs[j].found \ kept)
        /\ refused' = refused \cup {o.name : o \in kept}
  BY DEF DeleteExports, DeleteObjects
<1>4. gdprFaults' \in 0 .. MaxGdprFaults
  BY GdprAssumption DEF DeleteExports, DeleteObjects, GdprFault, GdprInv, GdprTyped
<1>5. UNCHANGED <<cooldowns, requesting, beneficiary, kycRows, signedIn, anonymized,
                  completed, overtook, lateSignIn>>
  BY DEF DeleteExports
<1>6. /\ Leftovers(gdprJobs[j].found)
      /\ \A o \in gdprJobs[j].found : o.name \in Exports
  BY <1>1, <1>2 DEF Moves, Removed, ExportsListed, Listed
<1>7. refused \subseteq refused' /\ refused' \subseteq Exports
  BY <1>1, <1>3, <1>6 DEF DataTyped
<1>8. DataTyped'
  BY <1>1, <1>3, <1>5, <1>7 DEF DataTyped
<1>9. GdprTyped'
  BY <1>2, <1>4, <1>5, <1>8, JobStepTyped DEF GdprInv
<1>10. \A S : Leftovers(S) => Leftovers(S)'
  BY <1>3, <1>5, <1>7 DEF Leftovers
<1>11. Leftovers({})'
  <2>1. SUFFICES ASSUME NEW o \in stored', o.name \in Exports
                 PROVE  o.name \in overtook' \cup refused'
    BY DEF Leftovers
  <2>2. o \in stored /\ (o \in gdprJobs[j].found => o \in kept)
    BY <1>3, <2>1
  <2> QED
    BY <1>3, <1>5, <1>6, <2>1, <2>2 DEF Leftovers
<1>12. /\ Reached(AfterRows)' => Reached(AfterRows)
       /\ Reached(AfterTokens)' => Reached(AfterTokens)
       /\ Reached({"log"})' => Reached({"log"})
  <2>1. Reached(AfterRows)
    BY <1>2 DEF Moves, Reached, AfterRows
  <2> QED
    BY <1>2, <1>5, <2>1, StepReaches DEF AfterTokens
<1>13. ExportsListed' /\ ExportsInBucket'
  BY <1>1, <1>2, <1>3, <1>10
  DEF Removed, ExportsListed, Listed, ExportsInBucket, Moves
<1> QED
  BY <1>1, <1>5, <1>9, <1>11, <1>12, <1>13
  DEF GdprInv, Removed, RowsRemoved, ExportsRemoved, TokensRevoked, RowAnonymized

\* The erasures' other steps: each does what the next ones count on.
LEMMA ErasureStepHolds ==
  ASSUME GdprInv, NEW j \in JobNos,
         \/ DeleteKycRows(j) \/ RevokeRefreshTokens(j) \/ AnonymizeUser(j)
         \/ LogErasure(j)
  PROVE  GdprInv'
<1>1. QueueTyped /\ DataTyped /\ Removed
  BY DEF GdprInv, GdprTyped
<1>2. UNCHANGED <<RequestVars, beneficiary, stored, refused>>
  BY DEF DeleteKycRows, RevokeRefreshTokens, AnonymizeUser, LogErasure
<1>3. ASSUME NEW at, NEW step \in {"list", "anonymize", "log", "done"},
             at # "failed", JobAt(j, at, step), DataTyped', KycFiles \cap Exports = {},
             Exports \cap overtook \subseteq overtook',
             RowsRemoved', TokensRevoked', RowAnonymized',
             Reached(AfterExports)' => Reached(AfterExports)
      PROVE  GdprInv'
  <2>1. QueueTyped' /\ Moves(j, step, gdprJobs[j].found)
    BY <1>1, <1>3, JobGoesOn DEF JobPlaces, ErasureSteps
  <2>2. GdprTyped'
    BY <1>2, <1>3, <2>1, JobStepTyped DEF GdprInv, GdprTyped, RequestVars
  <2>3. \A S : Leftovers(S) => Leftovers(S)'
    BY <1>2, <1>3 DEF Leftovers
  <2>4. ExportsListed' /\ ExportsInBucket'
    BY <1>1, <1>2, <1>3, <2>1, <2>3
    DEF Removed, ExportsListed, Listed, ExportsInBucket, Moves
  <2> QED
    BY <1>1, <1>3, <2>2, <2>3, <2>4 DEF GdprInv, Removed, ExportsRemoved
<1>4. ASSUME NEW at, NEW step \in JobPlaces, at # "failed", JobAt(j, at, step),
             completed' = completed, NEW S, Reached(S)'
      PROVE  Reached(S) \/ step \in S
  BY <1>1, <1>4, JobGoesOn, StepReaches
<1>5. CASE DeleteKycRows(j)
  <2>1. /\ JobAt(j, "rows", "list") /\ kycRows' = {}
        /\ overtook' = overtook \ KycFiles
        /\ UNCHANGED <<signedIn, anonymized, completed, lateSignIn>>
    BY <1>5 DEF DeleteKycRows
  <2>2. /\ Reached(AfterExports)' => Reached(AfterExports)
        /\ Reached(AfterTokens)' => Reached(AfterTokens)
        /\ Reached({"log"})' => Reached({"log"})
    BY <1>4, <2>1 DEF JobPlaces, ErasureSteps, AfterExports, AfterTokens
  <2>3. DataTyped' /\ Exports \cap overtook \subseteq overtook'
    BY <1>1, <1>2, <2>1, GdprAssumption DEF DataTyped
  <2>4. RowsRemoved' /\ TokensRevoked' /\ RowAnonymized'
    BY <1>1, <2>1, <2>2 DEF Removed, RowsRemoved, TokensRevoked, RowAnonymized
  <2> QED
    BY <1>3, <2>1, <2>2, <2>3, <2>4, GdprAssumption
<1>6. CASE RevokeRefreshTokens(j)
  <2>1. /\ JobAt(j, "tokens", "anonymize") /\ ~signedIn' /\ ~lateSignIn'
        /\ signedIn' = FALSE /\ lateSignIn' = FALSE
        /\ UNCHANGED <<kycRows, anonymized, completed, overtook>>
    BY <1>6 DEF RevokeRefreshTokens
  <2>2. Reached(AfterExports) /\ Reached(AfterRows)
    BY <2>1 DEF JobAt, Reached, AfterExports, AfterRows
  <2>3. Reached({"log"})' => Reached({"log"})
    BY <1>4, <2>1 DEF JobPlaces, ErasureSteps
  <2>4. DataTyped'
    BY <1>1, <1>2, <2>1 DEF DataTyped
  <2>5. RowsRemoved' /\ TokensRevoked' /\ RowAnonymized'
    BY <1>1, <2>1, <2>2, <2>3 DEF Removed, RowsRemoved, TokensRevoked, RowAnonymized
  <2> QED
    BY <1>3, <2>1, <2>2, <2>4, <2>5, GdprAssumption
<1>7. CASE AnonymizeUser(j)
  <2>1. /\ JobAt(j, "anonymize", "log") /\ anonymized' = TRUE
        /\ UNCHANGED <<kycRows, signedIn, completed, overtook, lateSignIn>>
    BY <1>7 DEF AnonymizeUser
  <2>2. Reached(AfterExports) /\ Reached(AfterRows) /\ Reached(AfterTokens)
    BY <2>1 DEF JobAt, Reached, AfterExports, AfterRows, AfterTokens
  <2>3. DataTyped'
    BY <1>1, <1>2, <2>1 DEF DataTyped
  <2>4. RowsRemoved' /\ TokensRevoked' /\ RowAnonymized'
    BY <1>1, <2>1, <2>2 DEF Removed, RowsRemoved, TokensRevoked, RowAnonymized
  <2> QED
    BY <1>3, <2>1, <2>2, <2>3, <2>4, GdprAssumption
<1>8. CASE LogErasure(j)
  <2>1. /\ JobAt(j, "log", "done") /\ completed' = TRUE
        /\ UNCHANGED <<kycRows, signedIn, anonymized, overtook, lateSignIn>>
    BY <1>8 DEF LogErasure
  <2>2. /\ Reached(AfterExports) /\ Reached(AfterRows) /\ Reached(AfterTokens)
        /\ Reached({"log"})
    BY <2>1 DEF JobAt, Reached, AfterExports, AfterRows, AfterTokens
  <2>3. DataTyped'
    BY <1>1, <1>2, <2>1 DEF DataTyped
  <2>4. RowsRemoved' /\ TokensRevoked' /\ RowAnonymized'
    BY <1>1, <2>1, <2>2 DEF Removed, RowsRemoved, TokensRevoked, RowAnonymized
  <2> QED
    BY <1>3, <2>1, <2>2, <2>3, <2>4, GdprAssumption
<1> QED
  BY <1>5, <1>6, <1>7, <1>8

\* A job that reads or lists finds objects, and changes nothing.
LEMMA ReadingHolds ==
  ASSUME GdprInv, NEW j \in JobNos,
         \/ CollectData(j) \/ MailExportLink(j) \/ FindKycRows(j) \/ ListExports(j)
  PROVE  GdprInv'
<1>1. QueueTyped /\ DataTyped /\ Removed
  BY DEF GdprInv, GdprTyped
<1>2. UNCHANGED <<RequestVars, userVars>>
  BY DEF CollectData, MailExportLink, FindKycRows, ListExports
<1>3. DataTyped' /\ UNCHANGED <<dataVars, completed>>
  BY <1>1, <1>2 DEF DataTyped, userVars, dataVars
<1>4. QueueTyped' => GdprTyped'
  BY <1>2, <1>3, JobStepTyped DEF GdprInv, GdprTyped, RequestVars, userVars
<1>5. ASSUME NEW step, NEW found, QueueTyped', Moves(j, step, found),
             step \notin AfterRows
      PROVE  GdprInv'
  BY <1>1, <1>3, <1>4, <1>5, StaysBehind, QuietStep DEF GdprInv
<1>6. CASE CollectData(j) \/ MailExportLink(j)
  BY <1>1, <1>5, <1>6, JobGoesOn
  DEF CollectData, MailExportLink, JobPlaces, ExportSteps, AfterRows
<1>7. CASE FindKycRows(j)
  <2>1. PICK found \in SUBSET Objects :
          found = {[bucket |-> ExportBucket, name |-> f] : f \in kycRows}
    <3>1. \A f \in kycRows : [bucket |-> ExportBucket, name |-> f] \in Objects
      BY <1>1 DEF DataTyped, Objects
    <3>2. {[bucket |-> ExportBucket, name |-> f] : f \in kycRows} \in SUBSET Objects
      BY <3>1
    <3> QED
      BY <3>2
  <2>2. PICK step \in {"list", "files"} :
          step = IF kycRows = {} THEN "list" ELSE "files"
    OBVIOUS
  <2>3. QueueTyped' /\ Moves(j, step, found)
    BY <1>1, <1>7, <2>1, <2>2, JobHasFound DEF FindKycRows, JobPlaces, ErasureSteps
  <2>4. CASE step = "files"
    BY <1>5, <2>3, <2>4 DEF AfterRows
  <2>5. CASE step = "list"
    <3>1. kycRows = {}
      BY <2>2, <2>5
    <3>2. /\ Reached(AfterExports)' => Reached(AfterExports)
          /\ Reached(AfterTokens)' => Reached(AfterTokens)
          /\ Reached({"log"})' => Reached({"log"})
      BY <1>3, <2>3, <2>5, StepReaches DEF AfterExports, AfterTokens
    <3>3. \A S : Leftovers(S)' <=> Leftovers(S)
      BY <1>3 DEF Leftovers, dataVars
    <3>4. ExportsListed'
      BY <1>1, <2>3, <2>5, <3>3 DEF Removed, ExportsListed, Listed, Moves
    <3>5. Removed'
      BY <1>1, <1>3, <3>1, <3>2, <3>3, <3>4 DEF Removed, RowsRemoved, ExportsRemoved,
         TokensRevoked, RowAnonymized, ExportsInBucket, dataVars
    <3> QED
      BY <1>4, <2>3, <3>5 DEF GdprInv
  <2> QED
    BY <2>4, <2>5
<1>8. CASE ListExports(j)
  <2>1. PICK found \in SUBSET Objects :
          found = {o \in stored : o.bucket = ExportBucket /\ o.name \in Exports}
    BY <1>1 DEF DataTyped
  <2>2. /\ QueueTyped' /\ gdprJobs[j].at = "list"
        /\ Moves(j, "exports", found)
    BY <1>1, <1>8, <2>1, JobHasFound DEF ListExports, JobPlaces, ErasureSteps
  <2>3. /\ Reached(AfterRows)
        /\ Reached(AfterExports)' => Reached(AfterExports)
        /\ Reached(AfterTokens)' => Reached(AfterTokens)
        /\ Reached({"log"})' => Reached({"log"})
    <3>1. Reached(AfterRows)
      BY <2>2 DEF Moves, Reached, AfterRows
    <3> QED
      BY <1>3, <2>2, <3>1, StepReaches DEF AfterExports, AfterTokens
  <2>4. \A S : Leftovers(S)' <=> Leftovers(S)
    BY <1>3 DEF Leftovers, dataVars
  <2>5. Leftovers(found) /\ \A o \in found : o.name \in Exports
    BY <1>1, <2>1 DEF Removed, ExportsInBucket, Leftovers
  <2>6. ExportsListed'
    BY <1>1, <2>2, <2>4, <2>5 DEF Removed, ExportsListed, Listed, Moves
  <2>7. Removed'
    BY <1>1, <1>3, <2>3, <2>4, <2>6 DEF Removed, RowsRemoved, ExportsRemoved,
       TokensRevoked, RowAnonymized, ExportsInBucket, dataVars
  <2> QED
    BY <1>4, <2>2, <2>7 DEF GdprInv
<1> QED
  BY <1>6, <1>7, <1>8

\* ... every step keeps it, however many requests, jobs and workers there are.
LEMMA GdprStepHolds == GdprInv /\ [GdprNext]_gdprVars => GdprInv'
<1> SUFFICES ASSUME GdprInv, [GdprNext]_gdprVars PROVE GdprInv'
  OBVIOUS
<1>1. QueueTyped /\ DataTyped /\ Removed
  BY DEF GdprInv, GdprTyped
<1>2. ASSUME NEW j \in JobNos, NEW step, NEW found, QueueTyped',
             Moves(j, step, found), step \notin AfterRows, UNCHANGED userVars,
             UNCHANGED <<cooldowns, requesting>>, gdprFaults' \in 0 .. MaxGdprFaults
      PROVE  GdprInv'
  <2>1. DataTyped' /\ UNCHANGED <<dataVars, beneficiary, completed>>
    BY <1>1, <1>2 DEF DataTyped, userVars, dataVars
  <2> QED
    BY <1>1, <1>2, <2>1, StaysBehind, QuietStep, JobStepTyped DEF GdprInv
<1>3. ASSUME NEW j \in JobNos, TakeGdprJob(j) PROVE GdprInv'
  <2>1. PICK step \in {"read", "find"} : step = FirstStep(gdprJobs[j].kind)
    BY DEF FirstStep
  <2>2. QueueTyped' /\ Moves(j, step, gdprJobs[j].found) /\ step \notin AfterRows
    BY <1>1, <1>3, <2>1, JobGoesOn
    DEF TakeGdprJob, JobPlaces, ExportSteps, ErasureSteps, AfterRows
  <2> QED
    BY <1>2, <1>3, <2>2 DEF TakeGdprJob, RequestVars, GdprInv, GdprTyped
<1>4. ASSUME NEW j \in JobNos, GdprJobFails(j) PROVE GdprInv'
  <2>1. PICK step \in {"waiting", "failed"} : Moves(j, step, {}) /\ QueueTyped'
    BY <1>1, <1>4, JobHasFailed
  <2>2. gdprFaults' \in 0 .. MaxGdprFaults
    BY <1>4, GdprAssumption DEF GdprJobFails, GdprFault, GdprInv, GdprTyped
  <2>3. step \notin AfterRows
    BY DEF AfterRows
  <2> QED
    BY <1>2, <1>4, <2>1, <2>2, <2>3 DEF GdprJobFails
<1>5. CASE CooldownEnds \/ PayoutTurns \/ UNCHANGED gdprVars
  <2>1. UNCHANGED <<gdprJobs, dataVars, requesting, gdprFaults>>
    BY <1>5 DEF CooldownEnds, PayoutTurns, gdprVars, userVars, dataVars, RequestVars
  <2>2. QueueTyped' /\ DataTyped'
    BY <1>1, <2>1 DEF QueueTyped, DataTyped, dataVars
  <2>3. Removed'
    BY <1>1, <2>1, QuietStep DEF Behind, dataVars
  <2>4. cooldowns' \subseteq GdprKinds /\ beneficiary' \in BOOLEAN
    BY <1>5 DEF CooldownEnds, PayoutTurns, gdprVars, userVars, RequestVars,
       GdprInv, GdprTyped
  <2> QED
    BY <2>1, <2>2, <2>3, <2>4 DEF GdprInv, GdprTyped
<1> QED
  BY <1>3, <1>4, <1>5, GdprRequestHolds, UserRequestHolds, PutHolds, FilesDeleted,
     ExportsDeleted, ErasureStepHolds, ReadingHolds
  DEF GdprNext, HandleDataExport, HandleErasure

-----------------------------------------------------------------------------
(***************************************************************************)
(* The rate limits.                                                        *)
(***************************************************************************)
\* the order they expire in; and of a bucket that is closed, those that will
\* outlast that are as few as the requests that were past the check.
Counting(b) == {v \in Visits : visit[v].at = "count" /\ Bucket(v) = b}

InOrder(list) ==
  \A l \in Nat : \E k \in 0 .. Len(list) :
    \A i \in DOMAIN list : list[i].left <= l <=> i <= k

BucketHits(b, list) ==
  /\ \A i \in DOMAIN list : list[i].through => i <= LimitOf(b[2])
  /\ \A i \in DOMAIN list : list[i].left <= TicksOf(b[2])
  /\ ~Sliding => \A i, j \in DOMAIN list : list[i].left = list[j].left
  /\ InOrder(list)

Outlast(list, m, ticks) ==
  \A i \in DOMAIN list : i + m <= Len(list) => list[i].left <= ticks

ClosedHolds(b) ==
  closed[b] > 0 => \E m \in Nat :
    /\ m + Cardinality(Counting(b)) < Cardinality(Visits)
    /\ Outlast(hits[b], m, closed[b])

RateInv ==
  /\ RateTypeOK
  /\ \A b \in Buckets : BucketHits(b, hits[b]) /\ ClosedHolds(b)

\* What the settings of the throttlers say.
LEMMA RateFacts ==
  /\ Throttlers = {"default", "apikey", "short"}
  /\ \A t \in Throttlers : /\ LimitOf(t) \in Nat \ {0}
                           /\ TicksOf(t) \in 1 .. WindowTicks
  /\ WindowTicks \in Nat \ {0} /\ MaxHits \in Nat
  /\ \A b \in Buckets : b[2] \in Throttlers
  /\ \A c \in Callers, t \in Throttlers :
       BucketOf(c, t) \in Buckets /\ BucketOf(c, t)[2] = t
<1>1. {DefaultLimit, ApiKeyLimit, ShortLimit, WindowTicks} \subseteq Nat \ {0}
  BY RateAssumption
<1>2. Cardinality(Visits) \in Nat
  BY RateAssumption, FS_CardinalityType
<1>3. \A t \in Throttlers : LimitOf(t) \in Nat \ {0}
  BY <1>1 DEF Throttlers, LimitOf
<1>4. \A t \in Throttlers : TicksOf(t) \in 1 .. WindowTicks
  BY <1>1 DEF TicksOf
<1>5. MaxHits \in Nat
  BY <1>1, <1>2 DEF MaxHits
<1>6. \A c \in Callers, t \in Throttlers :
        BucketOf(c, t) \in Buckets /\ BucketOf(c, t)[2] = t
  BY DEF BucketOf, Buckets
<1>7. \A b \in Buckets : b[2] \in Throttlers
  <2>1. ASSUME NEW b \in Buckets PROVE b[2] \in Throttlers
    <3>1. PICK c \in Callers, t \in Throttlers : b = BucketOf(c, t)
      BY DEF Buckets
    <3> QED
      BY <1>6, <3>1
  <2> QED
    BY <2>1
<1> QED
  BY <1>1, <1>3, <1>4, <1>5, <1>6, <1>7 DEF Throttlers

\* ... and it implies what is to be shown of this part.
LEMMA RateConclusion == RateInv => LimitHolds /\ RateTypeOK
<1> SUFFICES ASSUME RateInv, NEW c \in Callers, NEW t \in Throttlers
             PROVE  Cardinality({i \in DOMAIN hits[BucketOf(c, t)] :
                                   hits[BucketOf(c, t)][i].through}) <= LimitOf(t)
  BY DEF RateInv, LimitHolds
<1>1. PICK b \in Buckets : b = BucketOf(c, t) /\ b[2] = t
  BY RateFacts
<1>2. PICK X : X = {i \in DOMAIN hits[b] : hits[b][i].through}
  OBVIOUS
<1>3. LimitOf(t) \in Nat
  BY RateFacts
<1>4. hits[b] \in Seq(Hit)
  BY DEF RateInv, RateTypeOK
<1>5. X \subseteq 1 .. LimitOf(t)
  BY <1>1, <1>2, <1>3, <1>4 DEF RateInv, BucketHits
<1>6. IsFiniteSet(1 .. LimitOf(t)) /\ Cardinality(1 .. LimitOf(t)) = LimitOf(t)
  BY <1>3, FS_Interval
<1>7. Cardinality(X) <= LimitOf(t)
  BY <1>5, <1>6, FS_Subset
<1> QED
  BY <1>1, <1>2, <1>7

\* A function on 1 .. n is a sequence of that length.
LEMMA RowsAreSequence ==
  ASSUME NEW S, NEW n \in Nat, NEW f \in [1 .. n -> S]
  PROVE  f \in Seq(S) /\ Len(f) = n /\ DOMAIN f = 1 .. n
  OBVIOUS

\* An empty bucket is in order.
LEMMA EmptyBucket ==
  \A b : <<>> \in Seq(Hit) /\ Len(<<>>) = 0 /\ BucketHits(b, <<>>)
<1>1. Len(<<>>) = 0 /\ DOMAIN <<>> = {} /\ <<>> \in Seq(Hit)
  OBVIOUS
<1>2. InOrder(<<>>)
  BY <1>1 DEF InOrder
<1> QED
  BY <1>1, <1>2 DEF BucketHits

\* The invariant of this part holds at first,
LEMMA RateInitially == RateInit => RateInv
<1> SUFFICES ASSUME RateInit PROVE RateInv
  OBVIOUS
<1>1. /\ hits \in [Buckets -> Seq(Hit)]
      /\ \A b \in Buckets : hits[b] = <<>> /\ closed[b] = 0
  BY EmptyBucket DEF RateInit
<1>2. RateTypeOK
  BY <1>1, EmptyBucket, RateFacts, RateAssumption DEF RateInit, RateTypeOK
<1>3. \A b \in Buckets : BucketHits(b, hits[b]) /\ ClosedHolds(b)
  BY <1>1, EmptyBucket DEF ClosedHolds
<1> QED
  BY <1>2, <1>3 DEF RateInv

-----------------------------------------------------------------------------
\* A hit is appended to a bucket.
LEMMA HitAppended ==
  ASSUME NEW b \in Buckets, NEW t \in Throttlers, b[2] = t,
         NEW list \in Seq(Hit), BucketHits(b, list)
  PROVE  /\ NewHit(t, list) \in Hit
         /\ Append(list, NewHit(t, list)) \in Seq(Hit)
         /\ Len(Append(list, NewHit(t, list))) = Len(list) + 1
         /\ BucketHits(b, Append(list, NewHit(t, list)))
         /\ \A m \in Nat, ticks \in Nat :
              Outlast(list, m, ticks) =>
                Outlast(Append(list, NewHit(t, list)), m + 1, ticks)
<1>1. /\ Len(list) \in Nat /\ DOMAIN list = 1 .. Len(list)
      /\ \A i \in 1 .. Len(list) : list[i] \in Hit
  OBVIOUS
<1>2. TicksOf(t) \in 1 .. WindowTicks /\ LimitOf(t) \in Nat /\ WindowTicks \in Nat
  BY RateFacts
<1>3. list # <<>> => 1 \in DOMAIN list
  BY <1>1
<1>4. PICK left :
        left = IF Sliding \/ list = <<>> THEN TicksOf(t) ELSE list[1].left
  OBVIOUS
<1>5. \A i \in 1 .. Len(list) : list[i].left \in 1 .. WindowTicks
  BY <1>1 DEF Hit
<1>6. left \in 1 .. WindowTicks /\ left <= TicksOf(t)
  <2>1. CASE Sliding \/ list = <<>>
    BY <1>2, <1>4, <2>1
  <2>2. CASE ~(Sliding \/ list = <<>>)
    BY <1>1, <1>3, <1>4, <1>5, <2>2 DEF BucketHits
  <2> QED
    BY <2>1, <2>2
<1>7. /\ \A i \in DOMAIN list : list[i].left <= left
      /\ ~Sliding => \A i \in DOMAIN list : list[i].left = left
  <2>1. CASE Sliding
    BY <1>4, <2>1 DEF BucketHits
  <2>2. CASE ~Sliding /\ list = <<>>
    BY <1>1, <2>2
  <2>3. CASE ~Sliding /\ list # <<>>
    <3>1. \A i \in DOMAIN list : list[i].left = left
      BY <1>3, <1>4, <2>3 DEF BucketHits
    <3> QED
      BY <1>1, <1>5, <3>1
  <2> QED
    BY <2>1, <2>2, <2>3
<1>8. PICK hit : hit = NewHit(t, list)
  OBVIOUS
<1>9. /\ hit \in Hit /\ hit.left = left
      /\ hit.through => Len(list) + 1 <= LimitOf(t)
  <2>3. (Len(list) + 1 <= LimitOf(t)) \in BOOLEAN
    OBVIOUS
  <2>1. PICK through \in BOOLEAN : through = (Len(list) + 1 <= LimitOf(t))
    BY <2>3, Zenon
  <2>2. hit = [left |-> left, through |-> through]
    BY <1>4, <1>8, <2>1 DEF NewHit
  <2> QED
    BY <1>6, <2>1, <2>2 DEF Hit
<1>10. PICK more \in Seq(Hit) : more = Append(list, hit)
  BY <1>9, AppendProperties
<1>11. /\ Len(more) = Len(list) + 1 /\ DOMAIN more = 1 .. Len(list) + 1
       /\ \A i \in 1 .. Len(list) : more[i] = list[i]
       /\ more[Len(list) + 1] = hit
  BY <1>9, <1>10
<1>12. \A i \in DOMAIN more : i \in DOMAIN list \/ (i = Len(list) + 1 /\ more[i] = hit)
  BY <1>1, <1>11
<1>13. \A i \in DOMAIN more : more[i].through => i <= LimitOf(b[2])
  BY <1>1, <1>9, <1>11, <1>12 DEF BucketHits
<1>14. \A i \in DOMAIN more : more[i].left <= TicksOf(b[2])
  BY <1>1, <1>6, <1>9, <1>11, <1>12 DEF BucketHits
<1>15. ~Sliding => \A i, j \in DOMAIN more : more[i].left = more[j].left
  <2>1. ~Sliding => \A i \in DOMAIN more : more[i].left = left
    BY <1>1, <1>7, <1>9, <1>11, <1>12
  <2> QED
    BY <2>1
<1>16. ASSUME NEW l \in Nat
       PROVE  \E k \in 0 .. Len(more) :
                \A i \in DOMAIN more : more[i].left <= l <=> i <= k
  <2>1. CASE left <= l
    <3>1. \A i \in DOMAIN more : more[i].left <= l
      BY <1>1, <1>5, <1>6, <1>7, <1>9, <1>11, <1>12, <2>1
    <3>2. Len(more) \in 0 .. Len(more) /\ \A i \in DOMAIN more : i <= Len(more)
      BY <1>1, <1>11
    <3> QED
      BY <3>1, <3>2
  <2>2. CASE ~(left <= l)
    <3>1. PICK k \in 0 .. Len(list) :
            \A i \in DOMAIN list : list[i].left <= l <=> i <= k
      BY DEF BucketHits, InOrder
    <3>2. k \in 0 .. Len(more) /\ ~(Len(list) + 1 <= k)
      BY <1>1, <1>11
    <3>3. \A i \in DOMAIN more : more[i].left <= l <=> i <= k
      BY <1>1, <1>9, <1>11, <1>12, <2>2, <3>1, <3>2
    <3> QED
      BY <3>2, <3>3
  <2> QED
    BY <2>1, <2>2
<1>17. BucketHits(b, more)
  BY <1>13, <1>14, <1>15, <1>16 DEF BucketHits, InOrder
<1>18. ASSUME NEW m \in Nat, NEW ticks \in Nat, Outlast(list, m, ticks)
       PROVE  Outlast(more, m + 1, ticks)
  <2>1. ASSUME NEW i \in DOMAIN more, i + (m + 1) <= Len(more)
        PROVE  more[i].left <= ticks
    <3>1. i \in 1 .. Len(list) /\ i + m <= Len(list)
      BY <1>1, <1>11, <2>1
    <3> QED
      BY <1>1, <1>11, <1>18, <3>1 DEF Outlast
  <2> QED
    BY <2>1 DEF Outlast
<1> QED
  BY <1>8, <1>9, <1>10, <1>11, <1>17, <1>18

\* A tick passes in a bucket.
LEMMA HitsExpire ==
  ASSUME RateInv, NEW b \in Buckets
  PROVE  /\ Remaining(b) \in Seq(Hit) /\ Len(Remaining(b)) <= Len(hits[b])
         /\ BucketHits(b, Remaining(b))
         /\ \A m \in Nat, ticks \in Nat \ {0} :
              Outlast(hits[b], m, ticks) => Outlast(Remaining(b), m, ticks - 1)
<1>1. PICK list \in Seq(Hit) : list = hits[b]
  BY DEF RateInv, RateTypeOK
<1>2. /\ Len(list) \in Nat /\ DOMAIN list = 1 .. Len(list)
      /\ \A i \in 1 .. Len(list) : list[i] \in Hit
  OBVIOUS
<1>3. BucketHits(b, list)
  BY <1>1 DEF RateInv
<1>4. PICK k \in 0 .. Len(list) :
        k = Expired(b) /\ \A i \in DOMAIN list : list[i].left <= 1 <=> i <= k
  <2>1. \E k \in 0 .. Len(list) :
          \A i \in DOMAIN list : list[i].left <= 1 <=> i <= k
    BY <1>3 DEF BucketHits, InOrder
  <2> QED
    BY <1>1, <2>1 DEF Expired
<1>18. PICK len \in Nat : len = Len(list)
  BY <1>2, Zenon
<1>19. k \in 0 .. len
  BY <1>18
<1>20. len - k \in Nat
  BY <1>19
<1>5. PICK n \in Nat : n = len - k /\ n = Len(list) - k
  BY <1>18, <1>20
<1>6. \A i \in 1 .. n : i + k \in DOMAIN list /\ ~(i + k <= k)
  BY <1>2, <1>5
<1>7. PICK rest : rest = [i \in 1 .. n |-> AgedHit(list[i + k])]
  OBVIOUS
<1>8. Remaining(b) = rest
  BY <1>1, <1>4, <1>5, <1>7 DEF Remaining
<1>9. ASSUME NEW i \in 1 .. n
      PROVE  /\ rest[i] \in Hit /\ rest[i].left = list[i + k].left - 1
             /\ rest[i].through = list[i + k].through
             /\ list[i + k].left \in 2 .. WindowTicks
  <2>1. list[i + k] \in Hit /\ ~(list[i + k].left <= 1)
    BY <1>2, <1>4, <1>6
  <2>2. PICK hit \in Hit : hit = list[i + k]
    BY <2>1
  <2>3. hit.left \in 2 .. WindowTicks
    BY <2>1, <2>2, RateFacts DEF Hit
  <2>4. PICK left \in 1 .. WindowTicks : left = hit.left - 1
    BY <2>3, RateFacts
  <2>5. AgedHit(hit) = [hit EXCEPT !.left = left]
    BY <2>4 DEF AgedHit
  <2>6. AgedHit(hit) \in Hit /\ AgedHit(hit).left = left
        /\ AgedHit(hit).through = hit.through
    BY <2>5 DEF Hit
  <2>7. rest[i] = AgedHit(hit)
    BY <1>7, <2>2
  <2> QED
    BY <2>2, <2>3, <2>4, <2>6, <2>7
<1>10. rest \in [1 .. n -> Hit]
  BY <1>7, <1>9
<1>11. rest \in Seq(Hit) /\ Len(rest) = n /\ DOMAIN rest = 1 .. n
  BY <1>5, <1>10, RowsAreSequence
<1>12. \A i \in DOMAIN rest : rest[i].through => i <= LimitOf(b[2])
  <2>1. ASSUME NEW i \in 1 .. n, rest[i].through PROVE i <= LimitOf(b[2])
    <3>1. i + k <= LimitOf(b[2]) /\ LimitOf(b[2]) \in Nat
      BY <1>3, <1>6, <1>9, <2>1, RateFacts DEF BucketHits
    <3> QED
      BY <3>1
  <2> QED
    BY <1>11, <2>1
<1>13. \A i \in DOMAIN rest : rest[i].left <= TicksOf(b[2])
  <2>1. ASSUME NEW i \in 1 .. n PROVE rest[i].left <= TicksOf(b[2])
    <3>1. list[i + k].left <= TicksOf(b[2]) /\ TicksOf(b[2]) \in 1 .. WindowTicks
      BY <1>3, <1>6, RateFacts DEF BucketHits
    <3> QED
      BY <1>9, <3>1, RateFacts
  <2> QED
    BY <1>11, <2>1
<1>14. ~Sliding => \A i, j \in DOMAIN rest : rest[i].left = rest[j].left
  BY <1>3, <1>6, <1>9, <1>11 DEF BucketHits
<1>15. ASSUME NEW l \in Nat
       PROVE  \E x \in 0 .. Len(rest) :
                \A i \in DOMAIN rest : rest[i].left <= l <=> i <= x
  <2>4. PICK l1 \in Nat : l1 = l + 1
    OBVIOUS
  <2>5. PICK y \in 0 .. Len(list) :
          \A i \in DOMAIN list : list[i].left <= l1 <=> i <= y
    BY <1>3 DEF BucketHits, InOrder
  <2>1. \A i \in DOMAIN list : list[i].left <= l + 1 <=> i <= y
    BY <2>4, <2>5
  <2>6. y \in 0 .. len
    BY <1>18
  <2>7. (IF y <= k THEN 0 ELSE y - k) \in 0 .. n
    BY <1>5, <1>19, <2>6
  <2>2. PICK x \in 0 .. n : x = IF y <= k THEN 0 ELSE y - k
    BY <2>7
  <2>3. ASSUME NEW i \in 1 .. n PROVE rest[i].left <= l <=> i <= x
    <3>1. rest[i].left <= l <=> list[i + k].left <= l + 1
      <4>1. PICK u \in 2 .. WindowTicks :
              u = list[i + k].left /\ rest[i].left = u - 1
        BY <1>9
      <4>2. u - 1 <= l <=> u <= l + 1
        BY RateFacts
      <4> QED
        BY <4>1, <4>2
    <3>2. list[i + k].left <= l + 1 <=> i + k <= y
      BY <1>6, <2>1
    <3>3. i + k <= y <=> i <= x
      BY <1>2, <1>5, <2>2
    <3> QED
      BY <3>1, <3>2, <3>3
  <2> QED
    BY <1>11, <2>3
<1>16. BucketHits(b, rest)
  BY <1>12, <1>13, <1>14, <1>15 DEF BucketHits, InOrder
<1>17. ASSUME NEW m \in Nat, NEW ticks \in Nat \ {0}, Outlast(list, m, ticks)
       PROVE  Outlast(rest, m, ticks - 1)
  <2>1. ASSUME NEW i \in 1 .. n, i + m <= n PROVE rest[i].left <= ticks - 1
    <3>1. (i + k) + m <= Len(list)
      BY <1>2, <1>5, <2>1
    <3>2. list[i + k].left <= ticks
      BY <1>6, <1>17, <3>1 DEF Outlast
    <3> QED
      BY <1>9, <3>2
  <2> QED
    BY <1>11, <2>1 DEF Outlast
<1> QED
  BY <1>1, <1>5, <1>8, <1>11, <1>16, <1>17, <1>18, <1>19

-----------------------------------------------------------------------------
\* The requests that count: one changes, and no more count then unless it does.
LEMMA VisitGoes ==
  ASSUME RateTypeOK, NEW v \in Visits, NEW to \in Visiting \cup {Gone}, Goes(v, to)
  PROVE  /\ visit' \in [Visits -> Visiting \cup {Gone}]
         /\ \A b : Counting(b)' \subseteq Counting(b) \cup {v}
         /\ to.at # "count" => \A b : Counting(b)' \subseteq Counting(b) \ {v}
         /\ to.at = "count" => \A b :
              v \in Counting(b)' => b = BucketOf(to.caller, to.throttler)
<1>1. /\ visit' \in [Visits -> Visiting \cup {Gone}] /\ visit'[v] = to
      /\ \A w \in Visits \ {v} : visit'[w] = visit[w]
  BY DEF RateTypeOK, Goes
<1>2. ASSUME NEW b, NEW w \in Visits, w # v
      PROVE  w \in Counting(b)' => w \in Counting(b)
  BY <1>1, <1>2 DEF Counting, Bucket
<1>3. \A b : Counting(b)' \subseteq Visits
  BY DEF Counting
<1>4. \A b : Counting(b)' \subseteq Counting(b) \cup {v}
  BY <1>2, <1>3
<1>5. to.at # "count" => \A b : v \notin Counting(b)'
  BY <1>1 DEF Counting
<1>6. \A b : v \in Counting(b)' => b = BucketOf(to.caller, to.throttler)
  BY <1>1 DEF Counting, Bucket
<1> QED
  BY <1>1, <1>4, <1>5, <1>6

\* The visits are finitely many, and their sets are counted as expected.
LEMMA Counted ==
  ASSUME RateTypeOK
  PROVE  /\ Cardinality(Visits) \in Nat
         /\ \A X \in SUBSET Visits : IsFiniteSet(X) /\ Cardinality(X) \in Nat
         /\ \A X, Y \in SUBSET Visits :
              X \subseteq Y => Cardinality(X) <= Cardinality(Y)
         /\ \A X \in SUBSET Visits, v \in Visits :
              v \notin X => /\ Cardinality(X) < Cardinality(Visits)
                            /\ \A Y \in SUBSET Visits : X \subseteq Y /\ v \in Y =>
                                 Cardinality(X) + 1 <= Cardinality(Y)
         /\ \A b : Counting(b) \in SUBSET Visits
<1>1. IsFiniteSet(Visits) /\ Cardinality(Visits) \in Nat
  BY RateAssumption, FS_CardinalityType
<1>2. \A X \in SUBSET Visits : IsFiniteSet(X) /\ Cardinality(X) \in Nat
  BY <1>1, FS_Subset, FS_CardinalityType
<1>3. ASSUME NEW X \in SUBSET Visits, NEW Y \in SUBSET Visits, X \subseteq Y
      PROVE  Cardinality(X) <= Cardinality(Y)
  BY <1>2, <1>3, FS_Subset
<1>4. ASSUME NEW X \in SUBSET Visits, NEW v \in Visits, v \notin X,
             NEW Y \in SUBSET Visits, X \subseteq Y, v \in Y
      PROVE  Cardinality(X) + 1 <= Cardinality(Y)
  <2>1. X \cup {v} \in SUBSET Visits /\ X \cup {v} \subseteq Y
    BY <1>4
  <2>2. Cardinality(X \cup {v}) = Cardinality(X) + 1
    BY <1>2, <1>4, FS_AddElement
  <2> QED
    BY <1>3, <2>1, <2>2
<1>5. ASSUME NEW X \in SUBSET Visits, NEW v \in Visits, v \notin X
      PROVE  Cardinality(X) < Cardinality(Visits)
  <2>1. Cardinality(X) + 1 <= Cardinality(Visits)
    BY <1>4, <1>5
  <2> QED
    BY <1>1, <1>2, <2>1
<1>6. \A b : Counting(b) \in SUBSET Visits
  BY DEF Counting
<1> QED
  BY <1>1, <1>2, <1>3, <1>4, <1>5, <1>6

\* A bucket of which no more requests count than before stays as it should be.
LEMMA ClosedStays ==
  ASSUME RateInv, NEW b \in Buckets, UNCHANGED <<hits[b], closed[b]>>,
         Counting(b)' \subseteq Counting(b)
  PROVE  ClosedHolds(b)'
<1>1. PICK now \in SUBSET Visits : now = Counting(b)'
  BY DEF Counting
<1>2. Cardinality(now) <= Cardinality(Counting(b))
      /\ Cardinality(now) \in Nat /\ Cardinality(Counting(b)) \in Nat
      /\ Cardinality(Visits) \in Nat
  BY <1>1, Counted DEF RateInv
<1> SUFFICES ASSUME closed[b] > 0 PROVE ClosedHolds(b)'
  BY DEF ClosedHolds
<1>3. PICK m \in Nat : /\ m + Cardinality(Counting(b)) < Cardinality(Visits)
                       /\ Outlast(hits[b], m, closed[b])
  BY DEF RateInv, ClosedHolds
<1>4. m + Cardinality(now) < Cardinality(Visits)
  BY <1>2, <1>3
<1> QED
  BY <1>1, <1>3, <1>4 DEF ClosedHolds

\* After its bucket a visit goes to the next, or on its way.
LEMMA AfterBucketGoes ==
  ASSUME RateTypeOK, NEW v \in Visits, visit[v] # Gone, NEW over \in BOOLEAN
  PROVE  AfterBucket(v, over) \in Visiting \cup {Gone}
         /\ AfterBucket(v, over).at # "count"
<1>1. PICK row \in Visiting : row = visit[v]
  BY DEF RateTypeOK
<1>2. PICK worse \in BOOLEAN : worse = (row.over \/ over)
  BY DEF Visiting
<1>3. PICK now \in Visiting : now = [row EXCEPT !.over = worse, !.at = "closed"]
  BY DEF Visiting
<1>4. now.at = "closed"
  BY <1>3 DEF Visiting
<1>5. /\ [now EXCEPT !.throttler = "apikey"] \in Visiting
      /\ [now EXCEPT !.throttler = "apikey"].at = "closed"
      /\ [now EXCEPT !.throttler = "short"] \in Visiting
      /\ [now EXCEPT !.throttler = "short"].at = "closed"
      /\ [now EXCEPT !.at = "violation"] \in Visiting
      /\ [now EXCEPT !.at = "violation"].at = "violation"
  BY <1>4 DEF Visiting, Throttlers
<1>6. Gone.at = "none"
  BY DEF Gone
<1>7. \/ AfterBucket(v, over) = [now EXCEPT !.throttler = "apikey"]
      \/ AfterBucket(v, over) = [now EXCEPT !.throttler = "short"]
      \/ AfterBucket(v, over) = [now EXCEPT !.at = "violation"]
      \/ AfterBucket(v, over) = Gone
  BY <1>1, <1>2, <1>3 DEF AfterBucket
<1> QED
  BY <1>5, <1>6, <1>7

\* A step of a request that touches no bucket.
LEMMA VisitSteps ==
  ASSUME RateInv, NEW v \in Visits, NEW to \in Visiting \cup {Gone}, Goes(v, to),
         \/ to.at # "count"
         \/ closed[BucketOf(to.caller, to.throttler)] = 0,
         UNCHANGED bucketVars,
         violations' \in [Callers -> [count : Nat, left : 0 .. IpBlockTicks]],
         ipBlock' \in [Callers -> 0 .. IpBlockTicks]
  PROVE  RateInv'
<1>1. /\ visit' \in [Visits -> Visiting \cup {Gone}]
      /\ \A b : Counting(b)' \subseteq Counting(b) \cup {v}
      /\ to.at # "count" => \A b : Counting(b)' \subseteq Counting(b) \ {v}
      /\ to.at = "count" => \A b :
           v \in Counting(b)' => b = BucketOf(to.caller, to.throttler)
  BY VisitGoes DEF RateInv
<1>2. RateTypeOK'
  BY <1>1 DEF RateInv, RateTypeOK, bucketVars
<1>3. ASSUME NEW b \in Buckets PROVE BucketHits(b, hits'[b]) /\ ClosedHolds(b)'
  <2>1. BucketHits(b, hits'[b]) /\ UNCHANGED <<hits[b], closed[b]>>
    BY DEF RateInv, bucketVars
  <2>2. CASE Counting(b)' \subseteq Counting(b)
    BY <2>1, <2>2, ClosedStays
  <2>3. CASE ~(Counting(b)' \subseteq Counting(b))
    <3>1. b = BucketOf(to.caller, to.throttler) /\ to.at = "count"
      BY <1>1, <2>3
    <3>2. closed'[b] = 0
      BY <2>1, <3>1
    <3> QED
      BY <2>1, <3>2 DEF ClosedHolds
  <2> QED
    BY <2>1, <2>2, <2>3
<1> QED
  BY <1>2, <1>3 DEF RateInv, BucketHits

\* The steps that touch no bucket keep the invariant.
LEMMA BucketlessSteps ==
  ASSUME RateInv, NEW v \in Visits,
         \/ Visit(v) \/ CheckClosed(v) \/ IncrementViolations(v) \/ BlockIp(v)
         \/ RateRedisFails(v)
  PROVE  RateInv'
<1>1. /\ visit[v] \in Visiting \cup {Gone} /\ RateTypeOK
      /\ violations \in [Callers -> [count : Nat, left : 0 .. IpBlockTicks]]
      /\ ipBlock \in [Callers -> 0 .. IpBlockTicks]
      /\ IpBlockTicks \in Nat \ {0} /\ ViolationLimit \in Nat \ {0}
  BY RateAssumption DEF RateInv, RateTypeOK
<1>2. Gone.at = "none" /\ Gone \in Visiting \cup {Gone}
  BY DEF Gone
<1>3. CASE Visit(v)
  <2>1. PICK c \in Callers :
          Goes(v, [at |-> "closed", caller |-> c, throttler |-> "default",
                   over |-> FALSE])
    BY <1>3 DEF Visit
  <2>2. PICK to : to = [at |-> "closed", caller |-> c, throttler |-> "default",
                        over |-> FALSE]
    OBVIOUS
  <2>3. to \in Visiting /\ to.at # "count"
    BY <2>2 DEF Visiting, Throttlers
  <2> QED
    BY <1>1, <1>3, <2>1, <2>2, <2>3, VisitSteps DEF Visit, addressVars
<1>4. CASE CheckClosed(v)
  <2>1. visit[v] # Gone /\ UNCHANGED <<bucketVars, violations, ipBlock>>
    BY <1>2, <1>4 DEF CheckClosed, addressVars
  <2>2. CASE closed[Bucket(v)] > 0
    <3>1. PICK to : to = AfterBucket(v, TRUE)
      OBVIOUS
    <3>2. to \in Visiting \cup {Gone} /\ to.at # "count"
      BY <1>1, <2>1, <3>1, AfterBucketGoes
    <3>3. Goes(v, to)
      BY <1>4, <2>2, <3>1 DEF CheckClosed
    <3> QED
      BY <1>1, <2>1, <3>2, <3>3, VisitSteps
  <2>3. CASE ~(closed[Bucket(v)] > 0)
    <3>1. PICK row \in Visiting : row = visit[v]
      BY <1>1, <2>1
    <3>2. PICK to : to = [row EXCEPT !.at = "count"]
      OBVIOUS
    <3>3. to \in Visiting /\ to.caller = row.caller /\ to.throttler = row.throttler
      BY <3>2 DEF Visiting
    <3>4. Goes(v, to)
      BY <1>4, <2>3, <3>1, <3>2 DEF CheckClosed
    <3>5. BucketOf(to.caller, to.throttler) = Bucket(v)
      BY <3>1, <3>3 DEF Bucket
    <3>6. Bucket(v) \in Buckets
      BY <3>1, RateFacts DEF Bucket, Visiting
    <3>7. closed[BucketOf(to.caller, to.throttler)] = 0
      BY <2>3, <3>5, <3>6, RateFacts DEF RateInv, RateTypeOK
    <3> QED
      BY <1>1, <2>1, <3>3, <3>4, <3>7, VisitSteps
  <2> QED
    BY <2>2, <2>3
<1>5. CASE IncrementViolations(v)
  <2>1. PICK row \in Visiting : row = visit[v]
    BY <1>1, <1>2, <1>5 DEF IncrementViolations
  <2>2. PICK c \in Callers : c = row.caller
    BY DEF Visiting
  <2>3. PICK to : /\ Goes(v, to)
                  /\ to = [row EXCEPT !.at = "block"] \/ to = Gone
    BY <1>5, <2>1 DEF IncrementViolations
  <2>4. [row EXCEPT !.at = "block"] \in Visiting
        /\ [row EXCEPT !.at = "block"].at = "block"
    BY DEF Visiting
  <2>5. to \in Visiting \cup {Gone} /\ to.at # "count"
    BY <1>2, <2>3, <2>4
  <2>6. PICK count \in Nat, left \in 0 .. IpBlockTicks :
          violations' = [violations EXCEPT ![c] = [count |-> count, left |-> left]]
    <3>1. PICK count \in Nat :
            count = IF violations[c].count < ViolationLimit
                    THEN violations[c].count + 1 ELSE ViolationLimit
      BY <1>1
    <3>2. PICK left \in 0 .. IpBlockTicks :
            left = IF violations[c].count = 0 THEN IpBlockTicks
                                              ELSE violations[c].left
      BY <1>1
    <3>3. violations' = [violations EXCEPT ![c] = [count |-> count, left |-> left]]
      BY <1>1, <1>5, <2>1, <2>2, <3>1, <3>2 DEF IncrementViolations
    <3> QED
      BY <3>3
  <2>7. violations' \in [Callers -> [count : Nat, left : 0 .. IpBlockTicks]]
    BY <1>1, <2>6
  <2> QED
    BY <1>1, <1>5, <2>3, <2>5, <2>7, VisitSteps DEF IncrementViolations
<1>6. CASE BlockIp(v)
  <2>1. ipBlock' \in [Callers -> 0 .. IpBlockTicks]
    <3>1. IpBlockTicks \in 0 .. IpBlockTicks
      BY <1>1
    <3>2. ipBlock' = [ipBlock EXCEPT ![visit[v].caller] = IpBlockTicks]
      BY <1>6 DEF BlockIp
    <3> QED
      BY <1>1, <3>1, <3>2
  <2> QED
    BY <1>1, <1>2, <1>6, <2>1, VisitSteps DEF BlockIp
<1>7. CASE RateRedisFails(v)
  BY <1>1, <1>2, <1>7, VisitSteps DEF RateRedisFails, addressVars
<1> QED
  BY <1>3, <1>4, <1>5, <1>6, <1>7

\* A hit is counted: one more of the bucket, one request less that is past the
\* check.
LEMMA CountStep ==
  ASSUME RateInv, NEW v \in Visits, CountHit(v)
  PROVE  RateInv'
<1>1. visit[v].at = "count" /\ UNCHANGED <<closed, violations, ipBlock>>
  BY DEF CountHit, addressVars
<1>2. Gone.at = "none"
  BY DEF Gone
<1>3. PICK row \in Visiting : row = visit[v]
  BY <1>1, <1>2 DEF RateInv, RateTypeOK
<1>4. PICK t \in Throttlers : t = row.throttler
  BY DEF Visiting
<1>5. PICK b \in Buckets : b = Bucket(v) /\ b[2] = t
  BY <1>3, <1>4, RateFacts DEF Bucket, Visiting
<1>6. PICK list \in Seq(Hit) : list = hits[b]
  BY DEF RateInv, RateTypeOK
<1>7. BucketHits(b, list) /\ Len(list) \in Nat
  BY <1>6 DEF RateInv
<1>8. PICK more : more = Append(list, NewHit(t, list))
  OBVIOUS
<1>9. /\ NewHit(t, list) \in Hit /\ more \in Seq(Hit) /\ Len(more) = Len(list) + 1
      /\ BucketHits(b, more)
      /\ \A m \in Nat, ticks \in Nat :
           Outlast(list, m, ticks) => Outlast(more, m + 1, ticks)
  BY <1>5, <1>7, <1>8, HitAppended
<1>10. hits' = [hits EXCEPT ![b] = more] /\ Len(list) < MaxHits
  BY <1>3, <1>4, <1>5, <1>6, <1>8 DEF CountHit
<1>11. /\ hits' \in [Buckets -> Seq(Hit)] /\ hits'[b] = more
       /\ \A a \in Buckets \ {b} : hits'[a] = hits[a]
  BY <1>9, <1>10 DEF RateInv, RateTypeOK
<1>12. PICK to \in Visiting \cup {Gone} : Goes(v, to) /\ to.at # "count"
  <2>1. \/ Goes(v, AfterBucket(v, FALSE))
        \/ Goes(v, [row EXCEPT !.at = "close"])
    BY <1>3 DEF CountHit
  <2>2. [row EXCEPT !.at = "close"] \in Visiting
        /\ [row EXCEPT !.at = "close"].at = "close"
    BY DEF Visiting
  <2>3. AfterBucket(v, FALSE) \in Visiting \cup {Gone}
        /\ AfterBucket(v, FALSE).at # "count"
    BY <1>1, <1>2, AfterBucketGoes DEF RateInv
  <2>4. "close" # "count"
    OBVIOUS
  <2> QED
    BY <2>1, <2>2, <2>3, <2>4
<1>13. /\ visit' \in [Visits -> Visiting \cup {Gone}]
       /\ \A a : Counting(a)' \subseteq Counting(a) \ {v}
  BY <1>12, VisitGoes DEF RateInv
<1>14. \A a \in Buckets : Len(hits'[a]) <= MaxHits
  BY <1>7, <1>9, <1>10, <1>11, RateFacts DEF RateInv, RateTypeOK
<1>15. RateTypeOK'
  BY <1>1, <1>11, <1>13, <1>14 DEF RateInv, RateTypeOK
<1>16. v \in Counting(b)
  BY <1>1, <1>5 DEF Counting
<1>17. ASSUME closed[b] > 0 PROVE ClosedHolds(b)'
  <2>1. PICK m \in Nat : /\ m + Cardinality(Counting(b)) < Cardinality(Visits)
                         /\ Outlast(list, m, closed[b])
    BY <1>6, <1>17 DEF RateInv, ClosedHolds
  <2>2. PICK now \in SUBSET Visits : now = Counting(b)'
    BY DEF Counting
  <2>3. now \subseteq Counting(b) /\ v \notin now
    BY <1>13, <2>2
  <2>4. /\ Cardinality(now) + 1 <= Cardinality(Counting(b))
        /\ Cardinality(now) \in Nat /\ Cardinality(Counting(b)) \in Nat
        /\ Cardinality(Visits) \in Nat
    BY <1>16, <2>2, <2>3, Counted DEF RateInv
  <2>5. PICK n \in Nat : n = m + 1 /\ n + Cardinality(now) < Cardinality(Visits)
    BY <2>1, <2>4
  <2>6. Outlast(more, n, closed[b])
    BY <1>9, <2>1, <2>5 DEF RateInv, RateTypeOK
  <2> QED
    BY <1>1, <1>11, <2>2, <2>5, <2>6 DEF ClosedHolds
<1>18. ASSUME NEW a \in Buckets PROVE BucketHits(a, hits'[a]) /\ ClosedHolds(a)'
  <2>1. CASE a = b
    <3>1. CASE closed[b] > 0
      BY <1>9, <1>11, <1>17, <2>1, <3>1
    <3>2. CASE ~(closed[b] > 0)
      <4>1. ClosedHolds(b)'
        BY <1>1, <3>2 DEF ClosedHolds
      <4> QED
        BY <1>9, <1>11, <2>1, <4>1
    <3> QED
      BY <3>1, <3>2
  <2>2. CASE a # b
    <3>1. UNCHANGED <<hits[a], closed[a]>>
      BY <1>1, <1>11, <2>2
    <3>2. Counting(a)' \subseteq Counting(a)
      BY <1>13
    <3>3. BucketHits(a, hits'[a])
      BY <3>1 DEF RateInv
    <3> QED
      BY <3>1, <3>2, <3>3, ClosedStays
  <2> QED
    BY <2>1, <2>2
<1> QED
  BY <1>15, <1>18 DEF RateInv, BucketHits

\* A bucket is closed, for as long as any of its hits lasts.
LEMMA CloseStep ==
  ASSUME RateInv, NEW v \in Visits, CloseBucket(v)
  PROVE  RateInv' /\ \A b \in Buckets : closed[b] > 0 => closed'[b] > 0
<1>1. visit[v].at = "close" /\ UNCHANGED <<hits, violations, ipBlock>>
  BY DEF CloseBucket, addressVars
<1>2. Gone.at = "none"
  BY DEF Gone
<1>3. PICK row \in Visiting : row = visit[v]
  BY <1>1, <1>2 DEF RateInv, RateTypeOK
<1>4. PICK t \in Throttlers : t = row.throttler
  BY DEF Visiting
<1>5. PICK b \in Buckets : b = Bucket(v) /\ b[2] = t
  BY <1>3, <1>4, RateFacts DEF Bucket, Visiting
<1>6. PICK ticks \in 1 .. WindowTicks : ticks = TicksOf(t)
  BY RateFacts
<1>7. closed \in [Buckets -> 0 .. WindowTicks] /\ WindowTicks \in Nat
  BY RateFacts DEF RateInv, RateTypeOK
<1>8. closed' = [closed EXCEPT ![b] = IF closed[b] > 0 THEN closed[b] ELSE ticks]
  BY <1>3, <1>4, <1>5, <1>6, <1>7 DEF CloseBucket
<1>9. /\ closed' \in [Buckets -> 0 .. WindowTicks]
      /\ closed'[b] = IF closed[b] > 0 THEN closed[b] ELSE ticks
      /\ \A a \in Buckets \ {b} : closed'[a] = closed[a]
  BY <1>7, <1>8
<1>10. AfterBucket(v, TRUE) \in Visiting \cup {Gone}
       /\ AfterBucket(v, TRUE).at # "count" /\ Goes(v, AfterBucket(v, TRUE))
  BY <1>1, <1>2, AfterBucketGoes DEF RateInv, CloseBucket
<1>11. /\ visit' \in [Visits -> Visiting \cup {Gone}]
       /\ \A a : Counting(a)' \subseteq Counting(a) \ {v}
  BY <1>10, VisitGoes DEF RateInv
<1>12. RateTypeOK'
  BY <1>1, <1>9, <1>11 DEF RateInv, RateTypeOK
<1>13. ASSUME closed[b] = 0 PROVE ClosedHolds(b)'
  <2>1. PICK now \in SUBSET Visits : now = Counting(b)'
    BY DEF Counting
  <2>2. v \notin now
    BY <1>11, <2>1
  <2>3. 0 + Cardinality(now) < Cardinality(Visits)
    BY <2>2, Counted DEF RateInv
  <2>4. closed'[b] = ticks
    BY <1>9, <1>13
  <2>5. Outlast(hits[b], 0, ticks)
    BY <1>5, <1>6 DEF RateInv, BucketHits, Outlast
  <2> QED
    BY <1>1, <2>1, <2>3, <2>4, <2>5 DEF ClosedHolds
<1>14. ASSUME NEW a \in Buckets PROVE BucketHits(a, hits'[a]) /\ ClosedHolds(a)'
  <2>1. BucketHits(a, hits'[a])
    BY <1>1 DEF RateInv
  <2>2. CASE a = b /\ closed[b] = 0
    BY <1>13, <2>1, <2>2
  <2>3. CASE ~(a = b /\ closed[b] = 0)
    <3>1. UNCHANGED <<hits[a], closed[a]>>
      BY <1>1, <1>7, <1>9, <2>3
    <3>2. Counting(a)' \subseteq Counting(a)
      BY <1>11
    <3> QED
      BY <2>1, <3>1, <3>2, ClosedStays
  <2> QED
    BY <2>2, <2>3
<1>15. \A a \in Buckets : closed[a] > 0 => closed'[a] > 0
  BY <1>9
<1> QED
  BY <1>12, <1>14, <1>15 DEF RateInv, BucketHits

\* Time passes: a bucket that opens is left with the hits that came late.
LEMMA TickStep ==
  ASSUME RateInv, RateTick
  PROVE  /\ RateInv'
         /\ \A b \in Buckets : closed[b] > 0 /\ closed'[b] = 0 =>
              Len(hits'[b]) < Cardinality(Visits)
<1>1. /\ closed \in [Buckets -> 0 .. WindowTicks] /\ WindowTicks \in Nat
      /\ violations \in [Callers -> [count : Nat, left : 0 .. IpBlockTicks]]
      /\ ipBlock \in [Callers -> 0 .. IpBlockTicks] /\ IpBlockTicks \in Nat
      /\ visit \in [Visits -> Visiting \cup {Gone}]
      /\ \A b \in Buckets : hits[b] \in Seq(Hit) /\ Len(hits[b]) <= MaxHits
  BY RateFacts, RateAssumption DEF RateInv, RateTypeOK
<1>2. \A b \in Buckets : hits'[b] = Remaining(b)
  BY DEF RateTick
<1>3. /\ hits' \in [Buckets -> Seq(Hit)]
      /\ \A b \in Buckets : BucketHits(b, hits'[b]) /\ Len(hits'[b]) <= Len(hits[b])
  BY <1>2, HitsExpire DEF RateTick
<1>4. \A n \in Nat : n > 0 => Sooner(n) = n - 1
  BY DEF Sooner
<1>5. Sooner(0) = 0
  BY DEF Sooner
<1>6. /\ \A n \in 0 .. WindowTicks : Sooner(n) \in 0 .. WindowTicks
      /\ \A n \in 0 .. IpBlockTicks : Sooner(n) \in 0 .. IpBlockTicks
  BY <1>1 DEF Sooner
<1>7. /\ closed' \in [Buckets -> 0 .. WindowTicks]
      /\ ipBlock' \in [Callers -> 0 .. IpBlockTicks]
      /\ \A b \in Buckets : closed'[b] = Sooner(closed[b])
      /\ visit' = visit
  BY <1>1, <1>6 DEF RateTick
<1>8. violations' \in [Callers -> [count : Nat, left : 0 .. IpBlockTicks]]
  <2>1. ASSUME NEW c \in Callers
        PROVE  (IF violations[c].left <= 1 THEN [count |-> 0, left |-> 0]
                ELSE [violations[c] EXCEPT !.left = @ - 1])
                 \in [count : Nat, left : 0 .. IpBlockTicks]
    <3>1. PICK n \in Nat, left \in 0 .. IpBlockTicks :
            violations[c] = [count |-> n, left |-> left]
      BY <1>1
    <3>2. CASE left <= 1
      BY <1>1, <3>1, <3>2
    <3>3. CASE ~(left <= 1)
      <4>1. PICK less \in 0 .. IpBlockTicks : less = left - 1
        BY <1>1, <3>3
      <4>2. [violations[c] EXCEPT !.left = @ - 1] = [count |-> n, left |-> less]
        BY <3>1, <4>1
      <4> QED
        BY <3>1, <3>3, <4>2
    <3> QED
      BY <3>2, <3>3
  <2> QED
    BY <2>1 DEF RateTick
<1>9. \A b \in Buckets : Len(hits'[b]) <= MaxHits
  <2>1. ASSUME NEW b \in Buckets PROVE Len(hits'[b]) <= MaxHits
    <3>3. Len(hits[b]) \in Nat /\ Len(hits[b]) <= MaxHits
      BY <1>1
    <3>1. PICK n \in Nat : n = Len(hits[b]) /\ n <= MaxHits
      BY <3>3, Zenon
    <3>2. Len(hits'[b]) \in Nat /\ Len(hits'[b]) <= n
      BY <1>3, <3>1
    <3> QED
      BY <3>1, <3>2, RateFacts
  <2> QED
    BY <2>1
<1>10. RateTypeOK'
  BY <1>1, <1>3, <1>7, <1>8, <1>9 DEF RateTypeOK
<1>11. \A b : Counting(b)' = Counting(b)
  BY <1>7 DEF Counting, Bucket
<1>12. ASSUME NEW b \in Buckets, closed[b] > 0
       PROVE  \E m \in Nat :
                /\ m + Cardinality(Counting(b)) < Cardinality(Visits)
                /\ Outlast(hits'[b], m, closed'[b]) /\ closed'[b] = closed[b] - 1
  <2>1. PICK m \in Nat : /\ m + Cardinality(Counting(b)) < Cardinality(Visits)
                         /\ Outlast(hits[b], m, closed[b])
    BY <1>12 DEF RateInv, ClosedHolds
  <2>2. PICK ticks \in Nat \ {0} : ticks = closed[b]
    BY <1>1, <1>12
  <2>3. closed'[b] = ticks - 1
    BY <1>4, <1>7, <2>2
  <2>4. Outlast(Remaining(b), m, ticks - 1)
    BY <2>1, <2>2, HitsExpire
  <2> QED
    BY <1>2, <2>1, <2>2, <2>3, <2>4
<1>13. ASSUME NEW b \in Buckets PROVE ClosedHolds(b)'
  <2>1. CASE closed[b] > 0
    BY <1>11, <1>12, <2>1 DEF ClosedHolds
  <2>2. CASE ~(closed[b] > 0)
    <3>1. closed'[b] = 0
      BY <1>1, <1>5, <1>7, <2>2
    <3> QED
      BY <3>1 DEF ClosedHolds
  <2> QED
    BY <2>1, <2>2
<1>14. ASSUME NEW b \in Buckets, closed[b] > 0, closed'[b] = 0
       PROVE  Len(hits'[b]) < Cardinality(Visits)
  <2>1. PICK m \in Nat : /\ m + Cardinality(Counting(b)) < Cardinality(Visits)
                         /\ Outlast(hits'[b], m, 0)
    BY <1>12, <1>14
  <2>2. PICK list \in Seq(Hit) : list = hits'[b]
    BY <1>3
  <2>3. Cardinality(Counting(b)) \in Nat /\ Cardinality(Visits) \in Nat
    BY Counted DEF RateInv
  <2>4. Len(list) \in Nat /\ DOMAIN list = 1 .. Len(list)
        /\ \A i \in DOMAIN list : ~(list[i].left <= 0)
    <3>1. \A hit \in Hit : ~(hit.left <= 0)
      BY RateFacts DEF Hit
    <3>2. Len(list) \in Nat /\ DOMAIN list = 1 .. Len(list)
          /\ \A i \in DOMAIN list : list[i] \in Hit
      OBVIOUS
    <3> QED
      BY <3>1, <3>2
  <2>5. PICK len \in Nat : len = Len(list)
    BY <2>4, Zenon
  <2>6. ~(len > 0 /\ 1 + m <= len)
    BY <2>1, <2>2, <2>4, <2>5 DEF Outlast
  <2> QED
    BY <2>1, <2>2, <2>3, <2>5, <2>6
<1> QED
  BY <1>3, <1>10, <1>13, <1>14 DEF RateInv, BucketHits

\* ... every step keeps it,
LEMMA RateStepHolds ==
  RateInv /\ [RateNext]_rateVars =>
    /\ RateInv'
    /\ \A b \in Buckets : closed[b] > 0 /\ closed'[b] = 0 =>
         Len(hits'[b]) < Cardinality(Visits)
<1> SUFFICES ASSUME RateInv, [RateNext]_rateVars
             PROVE  /\ RateInv'
                    /\ \A b \in Buckets : closed[b] > 0 /\ closed'[b] = 0 =>
                         Len(hits'[b]) < Cardinality(Visits)
  OBVIOUS
<1>1. CASE RateTick
  BY <1>1, TickStep
<1>2. ASSUME NEW v \in Visits, CloseBucket(v)
      PROVE  RateInv' /\ \A b \in Buckets : closed[b] > 0 => closed'[b] > 0
  BY <1>2, CloseStep
<1>3. ASSUME NEW v \in Visits, CountHit(v) PROVE RateInv' /\ UNCHANGED closed
  BY <1>3, CountStep DEF CountHit
<1>4. ASSUME NEW v \in Visits,
             \/ Visit(v) \/ CheckClosed(v) \/ IncrementViolations(v) \/ BlockIp(v)
             \/ RateRedisFails(v)
      PROVE  RateInv' /\ UNCHANGED closed
  <2>1. RateInv'
    BY <1>4, BucketlessSteps
  <2>2. UNCHANGED closed
    BY <1>4 DEF Visit, CheckClosed, IncrementViolations, BlockIp, RateRedisFails,
       bucketVars
  <2> QED
    BY <2>1, <2>2
<1>5. CASE AdminBlocks \/ UNCHANGED rateVars
  <2>1. UNCHANGED <<hits, closed, violations, visit>>
    BY <1>5 DEF AdminBlocks, rateVars, bucketVars
  <2>2. ipBlock' \in [Callers -> 0 .. IpBlockTicks]
    <3>1. IpBlockTicks \in Nat /\ ipBlock \in [Callers -> 0 .. IpBlockTicks]
      BY RateAssumption DEF RateInv, RateTypeOK
    <3> QED
      BY <1>5, <3>1 DEF AdminBlocks, rateVars
  <2>3. RateTypeOK'
    BY <2>1, <2>2 DEF RateInv, RateTypeOK
  <2>4. \A b : Counting(b)' = Counting(b)
    BY <2>1 DEF Counting, Bucket
  <2>5. \A b \in Buckets : BucketHits(b, hits'[b]) /\ ClosedHolds(b)'
    BY <2>1, <2>4 DEF RateInv, ClosedHolds
  <2>6. RateInv'
    BY <2>3, <2>5 DEF RateInv, BucketHits
  <2> QED
    BY <2>1, <2>6
<1>6. \A b \in Buckets : closed[b] > 0 => closed[b] # 0
  BY DEF RateInv, RateTypeOK
<1>7. \A b \in Buckets : closed'[b] > 0 => closed'[b] # 0
  OBVIOUS
<1> QED
  BY <1>1, <1>2, <1>3, <1>4, <1>5, <1>6, <1>7, Zenon DEF RateNext

-----------------------------------------------------------------------------
(***************************************************************************)
(* The rotation of keys.                                                   *)
(***************************************************************************)
\* A row that a batch has not taken to encrypt anew, since it was not there or
\* was under the target's key, is still so, unless it was written otherwise.
BatchIsComplete ==
  rotation.at = "write" =>
    \A id \in Ids : progress.last < id /\ id <= rotation.upto =>
      \/ batch[id].key \notin {NoKey, rotation.target}
      \/ pii[id].key \in {NoKey, rotation.target}
      \/ id \in excused

\* The run under way belongs to the campaign of the checkpoint.
RunsTheCampaign ==
  rotation.at # "none" => rotation.target = progress.target

RotationInv ==
  RotationTypeOK /\ BatchIsComplete /\ RunsTheCampaign /\ BehindCheckpointRotated

-----------------------------------------------------------------------------
\* The count of failures stays within its bound.
LEMMA FailuresBounded ==
  ASSUME RotationTypeOK
  PROVE  Failures(Cardinality(Unreadable)) \in 0 .. MaxFailures + 1
<1>1. IsFiniteSet(Ids)
  BY RotationAssumption, FS_Interval DEF Ids
<1>2. Unreadable \subseteq Ids
  BY DEF Unreadable, OldValues
<1>3. Cardinality(Unreadable) \in Nat
  BY <1>1, <1>2, FS_Subset, FS_CardinalityType
<1>4. progress.failed \in Nat
  BY RotationAssumption DEF RotationTypeOK, Progress
<1> DEFINE n == Cardinality(Unreadable)
<1>5. n \in Nat /\ MaxFailures \in Nat
  BY <1>3, RotationAssumption
<1> HIDE DEF n
<1>6. Failures(n) \in 0 .. MaxFailures + 1
  BY <1>4, <1>5 DEF Failures
<1> QED
  BY <1>6 DEF n

\* The rows and records that the actions start over with are of their types.
LEMMA NothingTyped ==
  /\ NoBatch \in [Ids -> PiiRow] /\ NotRotating \in Rotation
  /\ NotRun \in Progress
  BY RotationAssumption
  DEF NoBatch, NoRow, PiiRow, NotRotating, Rotation, NotRun, Progress

\* At the start no run is under way and no row is behind the checkpoint.
LEMMA RotationInitially == RotationInit => RotationInv
<1> SUFFICES ASSUME RotationInit PROVE RotationInv
  OBVIOUS
<1>1. pii \in [Ids -> PiiRow]
  <2>1. NoRow \in PiiRow /\ \A v \in KeyVersions :
          [key |-> v, latest |-> TRUE] \in PiiRow
    BY DEF PiiRow, NoRow
  <2>2. {[key |-> v, latest |-> TRUE] : v \in KeyVersions} \cup {NoRow}
          \subseteq PiiRow
    BY <2>1
  <2> QED
    BY <2>2 DEF RotationInit
<1>2. RotationTypeOK
  BY <1>1, NothingTyped DEF RotationInit, RotationTypeOK
<1>3. BatchIsComplete /\ RunsTheCampaign
  BY DEF RotationInit, BatchIsComplete, RunsTheCampaign, NotRotating
<1>4. BehindCheckpointRotated
  BY DEF RotationInit, BehindCheckpointRotated, NotRun, Ids
<1> QED
  BY <1>2, <1>3, <1>4 DEF RotationInv

\* The type of every variable is kept by every step of the instances and of the
\* job (key-rotation.ts:126).
LEMMA RotationTypes ==
  RotationTypeOK /\ [RotationNext]_rotationVars => RotationTypeOK'
<1> SUFFICES ASSUME RotationTypeOK, [RotationNext]_rotationVars
             PROVE  RotationTypeOK'
  OBVIOUS
<1> USE NothingTyped, RotationAssumption DEF RotationTypeOK
<1>1. ASSUME NEW i \in CryptoInstances, DeployKey(i)
      PROVE  RotationTypeOK'
  BY <1>1 DEF DeployKey
<1>2. ASSUME NEW i \in CryptoInstances, NEW id \in Ids, WriteRow(i, id)
      PROVE  RotationTypeOK'
  <2>1. [key |-> active[i], latest |-> TRUE] \in PiiRow
    BY DEF PiiRow
  <2>2. batch[id].key \in KeyVersions \cup {NoKey}
    BY DEF PiiRow
  <2>3. [key |-> batch[id].key, latest |-> batch[id].key = NoKey] \in PiiRow
    BY <2>2, Zenon DEF PiiRow
  <2>4. pii' \in [Ids -> PiiRow]
    BY <1>2, <2>1 DEF WriteRow
  <2>5. batch' \in [Ids -> PiiRow]
    BY <1>2, <2>3 DEF WriteRow
  <2> QED
    BY <1>2, <2>4, <2>5 DEF WriteRow
<1>3. CASE StartRotation
  <2>0. PICK i \in CryptoInstances, others \in BOOLEAN :
          /\ progress' = Resumed(active[i])
          /\ rotation' = [NotRotating EXCEPT !.at = "fetch",
                            !.target = active[i], !.others = others]
    BY <1>3 DEF StartRotation
  <2>1. progress' \in Progress /\ rotation' \in Rotation
    <3>1. active[i] \in KeyVersions
      OBVIOUS
    <3>2. progress' \in Progress
      BY <2>0, <3>1 DEF Resumed, Progress
    <3>3. rotation' \in Rotation
      BY <2>0, <3>1 DEF Rotation
    <3> QED
      BY <3>2, <3>3
  <2>2. excused' \subseteq Ids
    BY <1>3 DEF StartRotation
  <2> QED
    BY <1>3, <2>1, <2>2 DEF StartRotation
<1>4. CASE FetchBatch
  <2>1. PICK upto \in Ahead, short \in BOOLEAN :
          /\ batch' = [id \in Ids |->
               IF id \in {j \in Ahead : j <= upto} THEN pii[id] ELSE NoRow]
          /\ rotation' = [rotation EXCEPT !.at = "write", !.upto = upto,
                            !.short = short]
    BY <1>4 DEF FetchBatch
  <2>2. NoRow \in PiiRow
    BY DEF NoRow, PiiRow
  <2>3. batch' \in [Ids -> PiiRow]
    BY <2>1, <2>2
  <2>4. upto \in 0 .. MaxId
    BY DEF Ahead, Ids
  <2>5. rotation' \in Rotation
    BY <2>1, <2>4 DEF Rotation
  <2> QED
    BY <1>4, <2>3, <2>5 DEF FetchBatch
<1>5. CASE FinishRotation
  BY <1>5 DEF FinishRotation, Progress
<1>6. CASE WriteBatch
  <2>1. Failures(Cardinality(Unreadable)) \in 0 .. MaxFailures + 1
    BY FailuresBounded
  <2>2. progress' \in Progress /\ rotation' \in Rotation
    BY <1>6, <2>1 DEF WriteBatch, Progress, Rotation
  <2>3. \A id \in Ids : [batch[id] EXCEPT !.key = rotation.target] \in PiiRow
    BY DEF PiiRow, Rotation
  <2>4. pii' \in [Ids -> PiiRow]
    BY <1>6, <2>3 DEF WriteBatch
  <2>5. excused' \subseteq Ids /\ batch' \in [Ids -> PiiRow]
    BY <1>6 DEF WriteBatch, Unreadable, OldValues
  <2> QED
    BY <1>6, <2>2, <2>4, <2>5 DEF WriteBatch
<1>7. CASE CheckBatch
  <2>1. progress' \in Progress
    BY <1>7 DEF CheckBatch, Progress
  <2>2. \/ rotation' = NotRotating
        \/ rotation' = [rotation EXCEPT !.at = "fetch", !.upto = 0,
                          !.short = FALSE]
    BY <1>7 DEF CheckBatch
  <2>3. 0 \in 0 .. MaxId
    OBVIOUS
  <2>4. rotation' \in Rotation
    BY <2>2, <2>3 DEF Rotation
  <2> QED
    BY <1>7, <2>1, <2>4 DEF CheckBatch
<1>8. CASE RotationDies
  BY <1>8 DEF RotationDies
<1>9. CASE UNCHANGED rotationVars
  BY <1>9 DEF rotationVars
<1> QED
  BY <1>1, <1>2, <1>3, <1>4, <1>5, <1>6, <1>7, <1>8, <1>9 DEF RotationNext

\* Every step keeps the invariant: a write under another key is excused, and a
\* batch moves the checkpoint only past rows it has rotated, found rotated or
\* failed on.
LEMMA RotationStepHolds ==
  RotationInv /\ [RotationNext]_rotationVars => RotationInv'
<1> SUFFICES ASSUME RotationInv, [RotationNext]_rotationVars
             PROVE  RotationInv'
  OBVIOUS
<1>0. RotationTypeOK /\ RotationTypeOK' /\ Ids \subseteq Nat
  BY RotationTypes DEF RotationInv, Ids
<1> USE <1>0 DEF RotationInv
<1>1. ASSUME NEW i \in CryptoInstances, DeployKey(i)
      PROVE  RotationInv'
  BY <1>1 DEF DeployKey, BatchIsComplete, RunsTheCampaign,
              BehindCheckpointRotated
<1>2. ASSUME NEW i \in CryptoInstances, NEW id \in Ids, WriteRow(i, id)
      PROVE  RotationInv'
  <2>1. pii'[id].key = active[i] /\ \A j \in Ids \ {id} : pii'[j] = pii[j]
    BY <1>2 DEF WriteRow, RotationTypeOK
  <2>2. \A j \in Ids : batch'[j].key = batch[j].key
    BY <1>2 DEF WriteRow, RotationTypeOK
  <2>3. /\ UNCHANGED <<progress, rotation>> /\ excused \subseteq excused'
        /\ active[i] = progress.target \/ id \in excused'
    BY <1>2 DEF WriteRow
  <2>4. RunsTheCampaign'
    BY <2>3 DEF RunsTheCampaign
  <2>5. BehindCheckpointRotated'
    BY <2>1, <2>3 DEF BehindCheckpointRotated
  <2>6. BatchIsComplete'
    BY <2>1, <2>2, <2>3 DEF BatchIsComplete, RunsTheCampaign
  <2> QED
    BY <2>4, <2>5, <2>6
<1>3. CASE StartRotation
  <2>1. rotation'.at = "fetch" /\ rotation'.target = progress'.target
    BY <1>3 DEF StartRotation, Resumed, NotRotating
  <2>2. \/ /\ progress'.target = progress.target
           /\ progress'.last = progress.last /\ excused' = excused
        \/ progress'.last = 0
    BY <1>3 DEF StartRotation, Resumed, RotationTypeOK, Progress
  <2>3. BehindCheckpointRotated'
    BY <1>3, <2>2 DEF StartRotation, BehindCheckpointRotated, Ids
  <2> QED
    BY <2>1, <2>3 DEF BatchIsComplete, RunsTheCampaign
<1>4. CASE FetchBatch
  <2>1. PICK upto \in Ahead, short \in BOOLEAN :
          /\ batch' = [id \in Ids |->
               IF id \in {j \in Ahead : j <= upto} THEN pii[id] ELSE NoRow]
          /\ rotation' = [rotation EXCEPT !.at = "write", !.upto = upto,
                            !.short = short]
    BY <1>4 DEF FetchBatch
  <2>2. rotation'.upto = upto /\ rotation'.target = rotation.target
    BY <2>1 DEF RotationTypeOK, Rotation
  <2>3. UNCHANGED <<pii, progress, excused>> /\ rotation.at = "fetch"
    BY <1>4 DEF FetchBatch
  <2>4. BatchIsComplete'
    <3> SUFFICES ASSUME NEW id \in Ids, progress.last < id, id <= upto
                 PROVE  \/ batch'[id].key \notin {NoKey, rotation.target}
                        \/ pii[id].key \in {NoKey, rotation.target}
      BY <2>2, <2>3 DEF BatchIsComplete
    <3>1. CASE pii[id].key = NoKey
      BY <3>1
    <3>2. CASE pii[id].key # NoKey
      <4>1. id \in Ahead
        BY <3>2, <1>0 DEF Ahead, RotationTypeOK, Progress
      <4>2. batch'[id] = pii[id]
        BY <4>1, <2>1
      <4> QED
        BY <4>2
    <3> QED
      BY <3>1, <3>2
  <2> QED
    BY <2>2, <2>3, <2>4 DEF RunsTheCampaign, BehindCheckpointRotated
<1>5. CASE FinishRotation
  <2>1. progress'.target = progress.target /\ progress'.last = progress.last
    BY <1>5 DEF FinishRotation, RotationTypeOK, Progress
  <2> QED
    BY <1>5, <2>1 DEF FinishRotation, NotRotating, BatchIsComplete,
                      RunsTheCampaign, BehindCheckpointRotated
<1>6. CASE WriteBatch
  <2>1. /\ progress'.target = progress.target
        /\ progress'.last = rotation.upto
    BY <1>6 DEF WriteBatch, RotationTypeOK, Progress
  <2>2. rotation'.at = "check" /\ rotation'.target = rotation.target
    BY <1>6 DEF WriteBatch, RotationTypeOK, Rotation
  <2>3. rotation.at = "write" /\ rotation.target = progress.target
    BY <1>6 DEF WriteBatch, RunsTheCampaign
  <2>4. \A id \in Reencrypted : pii'[id].key = rotation.target
    BY <1>6 DEF WriteBatch, Reencrypted, OldValues, RotationTypeOK, PiiRow
  <2>5. \A id \in Ids \ Reencrypted : pii'[id] = pii[id]
    BY <1>6 DEF WriteBatch
  <2>6. BehindCheckpointRotated'
    <3> SUFFICES ASSUME NEW id \in Ids, id <= rotation.upto
                 PROVE  \/ pii'[id].key \in {NoKey, progress.target}
                        \/ id \in excused'
      BY <2>1 DEF BehindCheckpointRotated
    <3>1. CASE id \in Reencrypted
      BY <3>1, <2>3, <2>4
    <3>2. CASE id \in Unreadable
      BY <3>2, <1>6 DEF WriteBatch
    <3>3. CASE id \notin OldValues
      <4>1. pii'[id] = pii[id] /\ excused \subseteq excused'
        BY <3>3, <2>5, <1>6 DEF Reencrypted, WriteBatch
      <4>2. CASE id <= progress.last
        BY <4>1, <4>2 DEF BehindCheckpointRotated
      <4>3. CASE progress.last < id
        BY <4>1, <4>3, <3>3, <2>3 DEF BatchIsComplete, OldValues
      <4>4. progress.last \in Nat /\ id \in Nat
        BY <1>0, RotationAssumption DEF RotationTypeOK, Progress
      <4>5. id <= progress.last \/ progress.last < id
        BY <4>4
      <4> QED
        BY <4>2, <4>3, <4>5
    <3> QED
      BY <3>1, <3>2, <3>3 DEF Reencrypted
  <2> QED
    BY <2>1, <2>2, <2>3, <2>6 DEF BatchIsComplete, RunsTheCampaign
<1>7. CASE CheckBatch
  <2>1. progress'.target = progress.target /\ progress'.last = progress.last
    BY <1>7 DEF CheckBatch, RotationTypeOK, Progress
  <2>2. rotation'.at \in {"none", "fetch"}
        /\ (rotation'.at # "none" => rotation'.target = rotation.target)
    <3>1. \/ rotation' = NotRotating
          \/ rotation' = [rotation EXCEPT !.at = "fetch", !.upto = 0,
                            !.short = FALSE]
      BY <1>7 DEF CheckBatch
    <3>2. NotRotating.at = "none"
      BY DEF NotRotating
    <3>3. rotation \in Rotation
      BY DEF RotationTypeOK
    <3> QED
      BY <3>1, <3>2, <3>3 DEF Rotation
  <2>3. rotation.at = "check" /\ UNCHANGED <<pii, excused>>
    BY <1>7 DEF CheckBatch
  <2> QED
    BY <2>1, <2>2, <2>3 DEF BatchIsComplete, RunsTheCampaign,
                            BehindCheckpointRotated
<1>8. CASE RotationDies
  BY <1>8 DEF RotationDies, NotRotating, BatchIsComplete, RunsTheCampaign,
              BehindCheckpointRotated
<1>9. CASE UNCHANGED rotationVars
  BY <1>9 DEF rotationVars, BatchIsComplete, RunsTheCampaign,
              BehindCheckpointRotated
<1> QED
  BY <1>1, <1>2, <1>3, <1>4, <1>5, <1>6, <1>7, <1>8, <1>9 DEF RotationNext

-----------------------------------------------------------------------------
\* Resuming skips nothing: at every moment each row up to the checkpoint is
\* under the key the campaign rotates to, has failed to decrypt, or has been
\* written with another key since (key-rotation.ts:201, :236).
THEOREM ResumingSkipsNothing == RotationSpec => []BehindCheckpointRotated
<1>1. RotationInv => BehindCheckpointRotated
  BY DEF RotationInv
<1> QED
  BY <1>1, RotationInitially, RotationStepHolds, PTL DEF RotationSpec

-----------------------------------------------------------------------------
(***************************************************************************)
(* The script that encrypts what was stored in plain.                      *)
(***************************************************************************)
\* Without a ring of keys, what a row holds, or held before another user
\* updated it or the script read it, is plain or encrypted once.
NeverTwice == IF versions THEN Contents \ {"spoilt"} ELSE {"plain", "bare"}

BackfillInv ==
  /\ BackfillTypeOK
  /\ email \in [RowIds -> NeverTwice]
  /\ before \in [RowIds -> NeverTwice \cup {Untouched}]
  /\ script.page \in Seq([id : RowIds, email : NeverTwice])

\* ... and it implies what is to be shown of this part.
LEMMA BackfillConclusion == BackfillInv => EncryptedOnce /\ BackfillTypeOK
  BY DEF BackfillInv, EncryptedOnce, NeverTwice, Contents

\* Before it begins, the script has an empty page.
LEMMA NoPage == NotStarted.page = <<>> /\ \A S : <<>> \in Seq(S)
  BY DEF NotStarted

\* A function on 1 .. n is a sequence.
LEMMA PagesAreSequences ==
  ASSUME NEW S, NEW n \in Nat, NEW f \in [1 .. n -> S]
  PROVE  f \in Seq(S)
  OBVIOUS

\* The invariant of this part holds at first,
LEMMA BackfillInitially == BackfillInit => BackfillInv
<1> SUFFICES ASSUME BackfillInit PROVE BackfillInv
  OBVIOUS
<1>1. /\ email \in [RowIds -> NeverTwice] /\ email \in [RowIds -> Contents]
      /\ before \in [RowIds -> NeverTwice \cup {Untouched}]
      /\ before \in [RowIds -> Contents \cup {Untouched}]
  BY DEF BackfillInit, NeverTwice, Contents, Ciphertext
<1>2. scan \in [RowIds -> RowIds] /\ \A id \in RowIds : scan[id] = id
  BY DEF BackfillInit
<1>3. script \in [at : {"none", "select", "update", "committed"},
                  offset : 0 .. MaxRow, page : Seq(PageRow), full : BOOLEAN]
  BY NoPage, BackfillAssumption DEF BackfillInit, NotStarted
<1>4. backfillFaults \in 0 .. MaxBackfillFaults
  BY BackfillAssumption DEF BackfillInit
<1> QED
  BY <1>1, <1>2, <1>3, <1>4, NoPage DEF BackfillInit, BackfillInv, BackfillTypeOK

\* A row that moves leaves every row in the scan.
LEMMA ScanStaysWhole ==
  ASSUME BackfillTypeOK, NEW id \in RowIds, MovesInScan(id)
  PROVE  /\ scan' \in [RowIds -> RowIds]
         /\ \A x \in RowIds : \E i \in RowIds : scan'[i] = x
<1>1. PICK p \in RowIds, q \in RowIds :
        /\ scan[p] = id
        /\ scan' = [i \in RowIds |->
                     IF i = q THEN id
                     ELSE IF p <= i /\ i < q THEN scan[i + 1]
                     ELSE IF q < i /\ i <= p THEN scan[i - 1] ELSE scan[i]]
  BY DEF MovesInScan
<1>2. scan \in [RowIds -> RowIds] /\ MaxRow \in Nat \ {0}
  BY BackfillAssumption DEF BackfillTypeOK
<1>3. \A i \in RowIds : /\ p <= i /\ i < q => i + 1 \in RowIds
                        /\ q < i /\ i <= p => i - 1 \in RowIds
  BY <1>2 DEF RowIds
<1>4. scan' \in [RowIds -> RowIds]
  BY <1>1, <1>2, <1>3
<1>5. ASSUME NEW x \in RowIds PROVE \E i \in RowIds : scan'[i] = x
  <2>1. PICK k \in RowIds : scan[k] = x
    BY DEF BackfillTypeOK
  <2>2. CASE k = p
    BY <1>1, <2>1, <2>2
  <2>3. CASE p < k /\ k <= q
    <3>1. k - 1 \in RowIds /\ p <= k - 1 /\ k - 1 < q /\ k - 1 # q /\ k - 1 + 1 = k
      BY <1>2, <2>3 DEF RowIds
    <3>2. scan'[k - 1] = scan[k - 1 + 1]
      BY <1>1, <3>1
    <3> QED
      BY <2>1, <3>1, <3>2
  <2>4. CASE q <= k /\ k < p
    <3>1. PICK m \in RowIds :
            /\ m = k + 1 /\ m - 1 = k /\ m # q
            /\ ~(p <= m /\ m < q) /\ q < m /\ m <= p
      BY <1>2, <2>4 DEF RowIds
    <3>2. scan'[m] = scan[m - 1]
      BY <1>1, <3>1
    <3> QED
      BY <2>1, <3>1, <3>2
  <2>5. CASE k # q /\ ~(p <= k /\ k < q) /\ ~(q < k /\ k <= p)
    BY <1>1, <2>1, <2>5
  <2>6. k \in Nat /\ p \in Nat /\ q \in Nat
    BY <1>2 DEF RowIds
  <2> QED
    BY <2>2, <2>3, <2>4, <2>5, <2>6
<1> QED
  BY <1>4, <1>5

\* ... every step keeps it,
LEMMA BackfillStepHolds ==
  BackfillInv /\ [BackfillNext]_backfillVars => BackfillInv'
<1> SUFFICES ASSUME BackfillInv, [BackfillNext]_backfillVars PROVE BackfillInv'
  OBVIOUS
<1> DEFINE Script == [at : {"none", "select", "update", "committed"},
                      offset : 0 .. MaxRow, page : Seq(PageRow), full : BOOLEAN]
           CleanRow == [id : RowIds, email : NeverTwice]
<1>1. /\ email \in [RowIds -> Contents] /\ email \in [RowIds -> NeverTwice]
      /\ before \in [RowIds -> Contents \cup {Untouched}]
      /\ before \in [RowIds -> NeverTwice \cup {Untouched}]
      /\ scan \in [RowIds -> RowIds]
      /\ \A id \in RowIds : \E i \in RowIds : scan[i] = id
      /\ script \in Script /\ script.page \in Seq(CleanRow)
      /\ backfillFaults \in 0 .. MaxBackfillFaults
      /\ MaxRow \in Nat \ {0} /\ PageSize \in Nat \ {0} /\ MaxBackfillFaults \in Nat
  BY BackfillAssumption DEF BackfillInv, BackfillTypeOK
<1>2. /\ NeverTwice \subseteq Contents /\ Ciphertext \in NeverTwice
      /\ Untouched \notin Contents
  BY DEF NeverTwice, Contents, Untouched, Ciphertext
<1>0. versions \in BOOLEAN /\ versions' = versions /\ NeverTwice' = NeverTwice
  BY DEF BackfillInv, BackfillTypeOK, BackfillNext, backfillVars, NeverTwice, Erase, StartBackfill,
         SelectPage, UpdateRow, NextPage, Commit, RollBack, RunAgain
<1>3. ASSUME email' \in [RowIds -> NeverTwice],
             before' \in [RowIds -> NeverTwice \cup {Untouched}],
             scan' \in [RowIds -> RowIds],
             \A x \in RowIds : \E i \in RowIds : scan'[i] = x,
             script' \in Script, script'.page \in Seq(CleanRow),
             backfillFaults' \in 0 .. MaxBackfillFaults
      PROVE  BackfillInv'
  <2>1. /\ email' \in [RowIds -> Contents]
        /\ before' \in [RowIds -> Contents \cup {Untouched}]
    BY <1>2, <1>3
  <2>2. BackfillTypeOK'
    BY <1>0, <1>3, <2>1 DEF BackfillTypeOK
  <2> QED
    BY <1>0, <1>3, <2>2 DEF BackfillInv
<1>4. /\ NotStarted \in Script /\ NotStarted.page \in Seq(CleanRow)
      /\ [NotStarted EXCEPT !.at = "committed"] \in Script
      /\ [NotStarted EXCEPT !.at = "committed"].page \in Seq(CleanRow)
  <2>1. NotStarted \in Script
    BY <1>1, NoPage DEF NotStarted
  <2>2. PICK t \in Script : t = NotStarted
    BY <2>1
  <2>3. [t EXCEPT !.at = "committed"] \in Script
        /\ [t EXCEPT !.at = "committed"].page = t.page
    OBVIOUS
  <2> QED
    BY <2>1, <2>2, <2>3, NoPage
<1>5. PICK s \in Script : s = script /\ s.page \in Seq(CleanRow)
  BY <1>1
<1>6. ASSUME NEW id \in RowIds, Erase(id) PROVE BackfillInv'
  <2>1. scan' \in [RowIds -> RowIds]
        /\ \A x \in RowIds : \E i \in RowIds : scan'[i] = x
    BY <1>6, ScanStaysWhole DEF Erase, BackfillInv
  <2>2. email' \in [RowIds -> NeverTwice]
        /\ UNCHANGED <<before, script, backfillFaults>>
    BY <1>1, <1>2, <1>6 DEF Erase
  <2> QED
    BY <1>1, <1>3, <2>1, <2>2
<1>7. CASE StartBackfill
  <2>1. PICK t \in Script : t = [s EXCEPT !.at = "select"]
    BY <1>5
  <2>2. t.page = s.page
    BY <2>1
  <2>3. script' = t /\ UNCHANGED <<email, scan, before, backfillFaults>>
    BY <1>5, <1>7, <2>1 DEF StartBackfill
  <2> QED
    BY <1>1, <1>3, <1>5, <2>2, <2>3
<1>8. CASE SelectPage
  <2>1. PICK many \in Nat :
          /\ many <= MaxRow - s.offset
          /\ script' = [at |-> "update", offset |-> s.offset,
                        page |-> [i \in 1 .. many |->
                          [id |-> scan[s.offset + i],
                           email |-> email[scan[s.offset + i]]]],
                        full |-> many = PageSize]
    <3>1. s.offset \in 0 .. MaxRow /\ s.offset < MaxRow
      BY <1>5, <1>8 DEF SelectPage
    <3>2. PICK many \in Nat :
            many = IF PageSize < MaxRow - s.offset THEN PageSize
                                                    ELSE MaxRow - s.offset
      BY <1>1, <3>1
    <3>3. many <= MaxRow - s.offset
      BY <1>1, <3>1, <3>2
    <3> QED
      BY <1>5, <1>8, <3>2, <3>3 DEF SelectPage
  <2>2. PICK page : page = [i \in 1 .. many |->
                          [id |-> scan[s.offset + i],
                           email |-> email[scan[s.offset + i]]]]
    OBVIOUS
  <2>9. PICK o \in 0 .. MaxRow : o = s.offset
    OBVIOUS
  <2>10. many <= MaxRow - o
    BY <2>1, <2>9
  <2>11. \A i \in 1 .. many : o + i \in RowIds
    BY <1>1, <2>10 DEF RowIds
  <2>3. \A i \in 1 .. many : s.offset + i \in RowIds
    BY <2>9, <2>11
  <2>4. page \in [1 .. many -> CleanRow] /\ page \in [1 .. many -> PageRow]
    BY <1>1, <1>2, <2>2, <2>3 DEF PageRow
  <2>5. page \in Seq(CleanRow) /\ page \in Seq(PageRow)
    BY <2>4, PagesAreSequences
  <2>6. PICK full \in BOOLEAN : full = (many = PageSize)
    OBVIOUS
  <2>7. script' = [at |-> "update", offset |-> s.offset, page |-> page, full |-> full]
    BY <2>1, <2>2, <2>6
  <2>8. script' \in Script /\ script'.page = page
    BY <2>5, <2>7
  <2> QED
    BY <1>1, <1>3, <1>8, <2>5, <2>8 DEF SelectPage
<1>9. CASE UpdateRow
  <2>1. s.page # <<>> /\ s.page \in Seq(PageRow)
    BY <1>5, <1>9 DEF UpdateRow
  <2>2. /\ Head(s.page) \in CleanRow /\ Tail(s.page) \in Seq(CleanRow)
        /\ Tail(s.page) \in Seq(PageRow)
    BY <1>5, <2>1, HeadTailProperties
  <2>3. PICK row \in CleanRow : row = Head(s.page)
    BY <2>2
  <2>4. PICK page \in Seq(CleanRow) : page = Tail(s.page) /\ page \in Seq(PageRow)
    BY <2>2
  <2>5. PICK t \in Script : t = [s EXCEPT !.page = page]
    BY <2>4
  <2>6. t.page = page
    BY <2>5
  <2>7. script' = t /\ UNCHANGED backfillFaults
    BY <1>5, <1>9, <2>4, <2>5 DEF UpdateRow
  <2>8. /\ email' \in [RowIds -> NeverTwice]
        /\ before' \in [RowIds -> NeverTwice \cup {Untouched}]
        /\ MovesInScan(row.id) \/ UNCHANGED scan
    <3>1. CASE IsPlain(row.email)
      <4>1. Encrypted(row.email) \in NeverTwice
        BY <3>1 DEF IsPlain, Encrypted, NeverTwice, Contents, Ciphertext
      <4>2. /\ email' = [email EXCEPT ![row.id] = Encrypted(row.email)]
            /\ before' = [before EXCEPT ![row.id] =
                            IF before[row.id] = Untouched THEN email[row.id]
                                                          ELSE before[row.id]]
            /\ MovesInScan(row.id)
        BY <1>5, <1>9, <2>3, <3>1 DEF UpdateRow
      <4> QED
        BY <1>1, <1>2, <4>1, <4>2
    <3>2. CASE ~IsPlain(row.email)
      BY <1>1, <1>5, <1>9, <2>3, <3>2 DEF UpdateRow
    <3> QED
      BY <3>1, <3>2
  <2>9. /\ scan' \in [RowIds -> RowIds]
        /\ \A x \in RowIds : \E i \in RowIds : scan'[i] = x
    BY <1>1, <2>8, ScanStaysWhole DEF BackfillInv
  <2> QED
    <3>1. script' \in Script /\ script'.page \in Seq(CleanRow)
      BY <2>4, <2>5, <2>6, <2>7
    <3>2. backfillFaults' \in 0 .. MaxBackfillFaults
      BY <1>1, <2>7
    <3> QED
      BY <1>3, <2>8, <2>9, <3>1, <3>2
<1>10. CASE NextPage
  <2>1. PICK offset \in 0 .. MaxRow :
          script' = [s EXCEPT !.at = "select", !.offset = offset]
    <3>1. s.offset \in 0 .. MaxRow
      OBVIOUS
    <3>2. /\ s.full /\ s.offset + PageSize < MaxRow
          /\ script' = [s EXCEPT !.at = "select", !.offset = s.offset + PageSize]
      BY <1>5, <1>10 DEF NextPage
    <3>3. s.offset + PageSize \in 0 .. MaxRow
      BY <1>1, <3>1, <3>2
    <3> QED
      BY <3>2, <3>3, Zenon
  <2>2. PICK t \in Script : t = [s EXCEPT !.at = "select", !.offset = offset]
    OBVIOUS
  <2>3. t.page = s.page
    BY <2>2
  <2> QED
    BY <1>1, <1>3, <1>5, <1>10, <2>1, <2>2, <2>3 DEF NextPage
<1>11. CASE Commit
  BY <1>1, <1>3, <1>4, <1>11 DEF Commit
<1>12. CASE RollBack
  <2>1. email' \in [RowIds -> NeverTwice]
        /\ before' \in [RowIds -> NeverTwice \cup {Untouched}]
        /\ backfillFaults' \in 0 .. MaxBackfillFaults
    BY <1>1, <1>12 DEF RollBack
  <2> QED
    BY <1>1, <1>3, <1>4, <1>12, <2>1 DEF RollBack
<1>13. CASE RunAgain
  BY <1>1, <1>3, <1>4, <1>13 DEF RunAgain
<1>14. CASE UNCHANGED backfillVars
  BY <1>1, <1>3, <1>14 DEF backfillVars
<1> QED
  BY <1>6, <1>7, <1>8, <1>9, <1>10, <1>11, <1>12, <1>13, <1>14 DEF BackfillNext

-----------------------------------------------------------------------------
(***************************************************************************)
(* The feature flags.                                                      *)
(***************************************************************************)
\* writes what it means.
EditRows == [asked : BOOLEAN, boots : BOOLEAN, server : FlagServers,
             flag : FlagNames, to : MaybeSetting,
             seen : [FlagNames -> MaybeSetting]]

FlagsInv ==
  /\ flagStore \in [FlagNames -> MaybeSetting] /\ meant \in [FlagNames -> MaybeSetting]
  /\ edits \in [Edits -> EditRows]
  /\ careless \in BOOLEAN
  /\ ~careless =>
       /\ flagStore = meant
       /\ \A e \in Edits : edits[e].asked => edits[e].seen = flagStore
       /\ \A d, e \in Edits : edits[d].asked /\ edits[e].asked => d = e

\* The flags an instance has yet to write are flags.
BootsFlags == booting \in [FlagServers -> SUBSET FlagNames]

\* ... and remain flags.
LEMMA BootsFlagsStep == BootsFlags /\ [FlagsNext]_flagVars => BootsFlags'
BY FlagsAssumption
DEF BootsFlags, FlagsNext, flagVars, AskRedis, CacheFlag, SetFromEnvironment,
    SetFlag, DeleteFlag, ReadFails, WriteFlags, RestartServer, FlagTick

\* No edit is one that has asked for nothing.
LEMMA NoEditTyped ==
  ASSUME FlagServers # {}, FlagNames # {}
  PROVE  NoEdit \in EditRows /\ ~NoEdit.asked
BY DEF NoEdit, EditRows, NothingSeen, MaybeSetting

\* An edit that begins while none is under way has read what is there.
LEMMA BeginKeepsInv ==
  ASSUME FlagsInv,
         NEW e \in Edits, NEW s \in FlagServers, NEW f \in FlagNames,
         NEW c \in MaybeSetting, NEW boots \in BOOLEAN,
         Begin(e, s, f, c, boots)
  PROVE  FlagsInv'
<1> DEFINE edit == [asked |-> TRUE, boots |-> boots, server |-> s, flag |-> f,
                    to |-> c, seen |-> flagStore]
<1>1. edit \in EditRows /\ edit.asked /\ edit.seen = flagStore
  BY DEF EditRows, FlagsInv
<1>2. edits' = [edits EXCEPT ![e] = edit]
  BY DEF Begin
<1> HIDE DEF edit
<1>3. UNCHANGED <<flagStore, meant>>
  BY DEF Begin
<1>4. careless' = (careless \/ \E other \in Edits : edits[other].asked)
  BY DEF Begin
<1>5. edits' \in [Edits -> EditRows] /\ careless' \in BOOLEAN
  BY <1>1, <1>2, <1>4 DEF FlagsInv
<1>6. ASSUME ~careless'
      PROVE  /\ flagStore' = meant'
             /\ \A d \in Edits : edits'[d].asked => d = e /\ edits'[d].seen = flagStore'
  <2>1. ~careless /\ \A other \in Edits : ~edits[other].asked
    BY <1>4, <1>6 DEF FlagsInv
  <2> QED
    BY <1>1, <1>2, <1>3, <2>1 DEF FlagsInv
<1> QED
  BY <1>3, <1>5, <1>6 DEF FlagsInv

\* What a lone edit writes is what is there, with its flag as it is meant.
LEMMA WriteKeepsInv ==
  ASSUME FlagsInv, NEW e \in Edits, WriteFlags(e)
  PROVE  FlagsInv'
<1>1. edits[e] \in EditRows /\ edits[e].asked
  BY DEF FlagsInv, WriteFlags
<1>2. NoEdit \in EditRows /\ ~NoEdit.asked
  BY <1>1, NoEditTyped DEF EditRows
<1>3. edits' = [edits EXCEPT ![e] = NoEdit]
  BY DEF WriteFlags
<1>4. meant' = [meant EXCEPT ![edits[e].flag] = edits[e].to]
  BY DEF WriteFlags
<1>5. edits' \in [Edits -> EditRows] /\ meant' \in [FlagNames -> MaybeSetting]
  BY <1>1, <1>2, <1>3, <1>4 DEF FlagsInv, EditRows
<1>6. CASE flagStore' = Merged(edits[e]) /\ careless' = careless
  <2>1. flagStore' \in [FlagNames -> MaybeSetting]
    BY <1>1, <1>6 DEF Merged, EditRows
  <2>2. ASSUME ~careless
        PROVE  flagStore' = meant' /\ \A d \in Edits : ~edits'[d].asked
    <3>1. edits[e].seen = meant
      BY <1>1, <2>2 DEF FlagsInv
    <3>2. flagStore' = meant'
      BY <1>4, <1>6, <3>1 DEF Merged
    <3>3. \A d \in Edits : edits[d].asked => d = e
      BY <1>1, <2>2 DEF FlagsInv
    <3>4. \A d \in Edits : ~edits'[d].asked
      BY <1>2, <1>3, <3>3 DEF FlagsInv
    <3> QED
      BY <3>2, <3>4
  <2> QED
    BY <1>5, <1>6, <2>1, <2>2 DEF FlagsInv
<1>7. CASE careless' = TRUE /\ flagStore' = flagStore
  BY <1>5, <1>7 DEF FlagsInv
<1> QED
  BY <1>6, <1>7 DEF WriteFlags

\* At first no edit is under way, and every flag is as it is meant.
LEMMA FlagsInvStarts == FlagsInit => FlagsInv
<1> SUFFICES ASSUME FlagsInit PROVE FlagsInv
  OBVIOUS
<1>1. PICK c \in Settings : flagStore = [f \in FlagNames |-> c]
  BY DEF FlagsInit
<1>2. c \in MaybeSetting
  BY FlagsAssumption DEF MaybeSetting
<1>3. FlagServers # {} /\ FlagNames # {}
  BY FlagsAssumption
<1>4. edits = [e \in Edits |-> NoEdit]
  BY DEF FlagsInit
<1>5. edits \in [Edits -> EditRows] /\ \A e \in Edits : ~edits[e].asked
  BY <1>3, <1>4, NoEditTyped
<1> QED
  BY <1>1, <1>2, <1>5 DEF FlagsInit, FlagsInv

\* Every step keeps what the edits know.
LEMMA FlagsInvStep ==
  FlagsInv /\ BootsFlags /\ [FlagsNext]_flagVars => FlagsInv'
<1> SUFFICES ASSUME FlagsInv, BootsFlags, [FlagsNext]_flagVars PROVE FlagsInv'
  OBVIOUS
<1>1. ASSUME UNCHANGED <<flagStore, meant, edits, careless>> PROVE FlagsInv'
  BY <1>1 DEF FlagsInv
<1>2. CASE UNCHANGED flagVars
  BY <1>1, <1>2 DEF flagVars
<1>3. CASE \E s \in FlagServers, f \in FlagNames :
             AskRedis(s, f) \/ CacheFlag(s, f)
  BY <1>1, <1>3 DEF AskRedis, CacheFlag
<1>4. ASSUME NEW e \in Edits, NEW s \in FlagServers, NEW f \in FlagNames,
             SetFlag(e, s, f) \/ DeleteFlag(e, s, f)
      PROVE  FlagsInv'
  <2>1. CASE SetFlag(e, s, f)
    <3>1. PICK c \in Settings : Begin(e, s, f, c, FALSE)
      BY <2>1 DEF SetFlag
    <3>2. c \in MaybeSetting
      BY FlagsAssumption DEF MaybeSetting
    <3> QED
      BY <3>1, <3>2, BeginKeepsInv
  <2>2. CASE DeleteFlag(e, s, f)
    <3>1. Begin(e, s, f, NoSetting, FALSE) /\ NoSetting \in MaybeSetting
      BY <2>2 DEF DeleteFlag, MaybeSetting
    <3> QED
      BY <3>1, BeginKeepsInv
  <2> QED
    BY <1>4, <2>1, <2>2
<1>5. ASSUME NEW e \in Edits, NEW s \in FlagServers, SetFromEnvironment(e, s)
      PROVE  FlagsInv'
  <2>1. PICK f \in booting[s] : Begin(e, s, f, EnvSetting, TRUE)
    BY <1>5 DEF SetFromEnvironment
  <2>2. f \in FlagNames /\ EnvSetting \in MaybeSetting
    BY FlagsAssumption DEF MaybeSetting, BootsFlags
  <2> QED
    BY <2>1, <2>2, BeginKeepsInv
<1>6. ASSUME NEW e \in Edits, ReadFails(e) PROVE FlagsInv'
  <2>1. edits[e] \in EditRows /\ NothingSeen \in [FlagNames -> MaybeSetting]
    BY DEF FlagsInv, NothingSeen, MaybeSetting
  <2>2. [edits[e] EXCEPT !.seen = NothingSeen] \in EditRows
    BY <2>1 DEF EditRows
  <2>3. edits' \in [Edits -> EditRows]
    BY <1>6, <2>2 DEF ReadFails, FlagsInv
  <2> QED
    BY <1>6, <2>3 DEF ReadFails, FlagsInv
<1>7. ASSUME NEW e \in Edits, WriteFlags(e) PROVE FlagsInv'
  BY <1>7, WriteKeepsInv
<1>8. ASSUME NEW s \in FlagServers, RestartServer(s) PROVE FlagsInv'
  <2>1. NoEdit \in EditRows /\ ~NoEdit.asked
    BY NoEditTyped, FlagsAssumption
  <2>2. UNCHANGED <<flagStore, meant, careless>>
    BY <1>8 DEF RestartServer
  <2>3. \A e \in Edits : edits'[e] \in {edits[e], NoEdit}
    BY <1>8 DEF RestartServer
  <2>4. edits' \in [Edits -> EditRows]
    BY <1>8, <2>1 DEF RestartServer, FlagsInv
  <2> QED
    BY <2>1, <2>2, <2>3, <2>4 DEF FlagsInv
<1>9. CASE FlagTick
  BY <1>1, <1>9 DEF FlagTick
<1> QED
  BY <1>2, <1>3, <1>4, <1>5, <1>6, <1>7, <1>8, <1>9 DEF FlagsNext

\* Of the cache: what an instance holds was Redis's when it was stored, and an
\* entry that is outdated had less time left than Redis has held what it holds.
Entry == [setting : MaybeSetting, left : 0 .. FlagCacheLife]
Lookup == [asked : BOOLEAN, found : MaybeSetting]

CacheInv ==
  /\ local \in [FlagServers -> [FlagNames -> Entry]]
  /\ lookups \in [FlagServers -> [FlagNames -> Lookup]]
  /\ unchanged \in [FlagNames -> 0 .. FlagCacheLife]
  /\ \A s \in FlagServers, f \in FlagNames :
       /\ lookups[s][f].asked =>
            lookups[s][f].found = flagStore[f] \/ unchanged[f] = 0
       /\ Cached(s, f) =>
            \/ local[s][f].setting = flagStore[f]
            \/ unchanged[f] + local[s][f].left <= FlagCacheLife

\* What Redis holds, and what edits would write to it, has an audience where it
\* needs one.
StoreInv ==
  /\ flagStore \in [FlagNames -> Stored]
  /\ \A e \in Edits :
       /\ edits[e].seen \in [FlagNames -> Stored]
       /\ edits[e].asked => edits[e].to \in Stored
  /\ editsLeft \in 0 .. MaxEdits /\ flagFaults \in 0 .. MaxFlagFaults

\* At first no instance has cached a flag.
LEMMA CacheInvStarts == FlagsInit => CacheInv /\ StoreInv
<1> SUFFICES ASSUME FlagsInit PROVE CacheInv /\ StoreInv
  OBVIOUS
<1>1. FlagCacheLife \in Nat /\ MaxEdits \in Nat /\ MaxFlagFaults \in Nat
  BY FlagsAssumption
<1>2. NotCached \in Entry /\ NoLookup \in Lookup
  BY <1>1 DEF NotCached, NoLookup, Entry, Lookup, MaybeSetting
<1>3. local \in [FlagServers -> [FlagNames -> Entry]]
      /\ lookups \in [FlagServers -> [FlagNames -> Lookup]]
  BY <1>2 DEF FlagsInit
<1>4. unchanged \in [FlagNames -> 0 .. FlagCacheLife]
  BY <1>1 DEF FlagsInit
<1>5. \A s \in FlagServers, f \in FlagNames :
        ~lookups[s][f].asked /\ ~Cached(s, f)
  BY <1>1 DEF FlagsInit, NoLookup, NotCached, Cached
<1>6. flagStore \in [FlagNames -> Stored]
  BY DEF FlagsInit
<1>7. NoEdit.seen = NothingSeen /\ ~NoEdit.asked
      /\ NothingSeen \in [FlagNames -> Stored]
  BY DEF NoEdit, NothingSeen, Stored
<1>8. \A e \in Edits : edits[e] = NoEdit
  BY DEF FlagsInit
<1> QED
  BY <1>1, <1>3, <1>4, <1>5, <1>6, <1>7, <1>8 DEF FlagsInit, CacheInv, StoreInv

\* A step that leaves Redis and the time alone, and caches at most what a
\* lookup has found.
LEMMA CacheStays ==
  ASSUME CacheInv, flagStore \in [FlagNames -> MaybeSetting],
         UNCHANGED <<flagStore, local, lookups, unchanged>>
  PROVE  CacheInv'
BY DEF CacheInv, Cached

\* Every step keeps what is known of the caches.
LEMMA CacheInvStep ==
  FlagsInv /\ BootsFlags /\ CacheInv /\ [FlagsNext]_flagVars => CacheInv'
<1> SUFFICES ASSUME FlagsInv, BootsFlags, CacheInv, [FlagsNext]_flagVars
             PROVE  CacheInv'
  OBVIOUS
<1>1. FlagCacheLife \in Nat /\ FlagCacheLife > 0
  BY FlagsAssumption
<1>2. NotCached \in Entry /\ NoLookup \in Lookup /\ NotCached.left = 0
      /\ ~NoLookup.asked
  BY <1>1 DEF NotCached, NoLookup, Entry, Lookup, MaybeSetting
<1>3. flagStore \in [FlagNames -> MaybeSetting]
  BY DEF FlagsInv
<1>4. ASSUME NEW s \in FlagServers, NEW f \in FlagNames, AskRedis(s, f)
      PROVE  CacheInv'
  <2>1. PICK found : found = [asked |-> TRUE, found |-> flagStore[f]]
    OBVIOUS
  <2>2. found \in Lookup /\ found.found = flagStore[f]
    BY <1>3, <2>1 DEF Lookup
  <2>3. lookups' = [lookups EXCEPT ![s][f] = found]
        /\ UNCHANGED <<flagStore, local, unchanged>>
    BY <1>4, <2>1 DEF AskRedis
  <2>4. lookups' \in [FlagServers -> [FlagNames -> Lookup]]
    BY <2>2, <2>3 DEF CacheInv
  <2>5. \A r \in FlagServers, g \in FlagNames :
          lookups'[r][g] = lookups[r][g] \/ lookups'[r][g].found = flagStore[g]
    BY <2>2, <2>3 DEF CacheInv
  <2> QED
    BY <2>3, <2>4, <2>5 DEF CacheInv, Cached
<1>5. ASSUME NEW s \in FlagServers, NEW f \in FlagNames, CacheFlag(s, f)
      PROVE  CacheInv'
  <2>1. PICK entry : entry = [setting |-> lookups[s][f].found,
                              left |-> FlagCacheLife]
    OBVIOUS
  <2>2. lookups[s][f] \in Lookup /\ lookups[s][f].asked
    BY <1>5 DEF CacheInv, CacheFlag
  <2>3. entry \in Entry /\ entry.left = FlagCacheLife
        /\ (entry.setting = flagStore[f] \/ unchanged[f] = 0)
    BY <1>1, <2>1, <2>2 DEF Entry, Lookup, CacheInv
  <2>4. local' = [local EXCEPT ![s][f] = entry]
        /\ lookups' = [lookups EXCEPT ![s][f] = NoLookup]
        /\ UNCHANGED <<flagStore, unchanged>>
    BY <1>5, <2>1 DEF CacheFlag
  <2>5. local' \in [FlagServers -> [FlagNames -> Entry]]
        /\ lookups' \in [FlagServers -> [FlagNames -> Lookup]]
    BY <1>2, <2>3, <2>4 DEF CacheInv
  <2>6. ASSUME NEW r \in FlagServers, NEW g \in FlagNames
        PROVE  /\ lookups'[r][g] = lookups[r][g] \/ ~lookups'[r][g].asked
               /\ local'[r][g] = local[r][g] \/ (g = f /\ local'[r][g] = entry)
    BY <1>2, <2>4 DEF CacheInv
  <2> QED
    BY <1>1, <2>3, <2>4, <2>5, <2>6 DEF CacheInv, Cached
<1>6. ASSUME NEW e \in Edits, WriteFlags(e) PROVE CacheInv'
  <2>1. edits[e] \in EditRows
    BY DEF FlagsInv
  <2>2. PICK s \in FlagServers, f \in FlagNames :
          s = edits[e].server /\ f = edits[e].flag
    BY <2>1 DEF EditRows
  <2>3. local' = [local EXCEPT ![s][f] = NotCached] /\ UNCHANGED lookups
    BY <1>6, <2>2 DEF WriteFlags
  <2>4. local' \in [FlagServers -> [FlagNames -> Entry]]
    BY <1>2, <2>3 DEF CacheInv
  <2>5. \A r \in FlagServers, g \in FlagNames :
          local'[r][g] \in {local[r][g], NotCached}
    BY <2>3 DEF CacheInv
  <2>6. /\ unchanged' \in [FlagNames -> 0 .. FlagCacheLife]
        /\ \A g \in FlagNames :
             \/ flagStore'[g] = flagStore[g] /\ unchanged'[g] = unchanged[g]
             \/ unchanged'[g] = 0
    <3>1. unchanged \in [FlagNames -> 0 .. FlagCacheLife] /\ 0 \in 0 .. FlagCacheLife
      BY <1>1 DEF CacheInv
    <3>2. \/ UNCHANGED <<flagStore, unchanged>>
          \/ /\ flagStore' = Merged(edits[e])
             /\ unchanged' = [g \in FlagNames |->
                  IF flagStore[g] = Merged(edits[e])[g] THEN unchanged[g] ELSE 0]
      BY <1>6 DEF WriteFlags
    <3> QED
      BY <3>1, <3>2
  <2>7. ASSUME NEW r \in FlagServers, NEW g \in FlagNames, Cached(r, g)'
        PROVE  \/ local'[r][g].setting = flagStore'[g]
               \/ unchanged'[g] + local'[r][g].left <= FlagCacheLife
    <3>1. local'[r][g] = local[r][g] /\ local[r][g].left \in 0 .. FlagCacheLife
          /\ Cached(r, g)
      BY <1>2, <2>5, <2>7 DEF Cached, CacheInv, Entry
    <3> QED
      BY <1>1, <2>6, <3>1 DEF CacheInv
  <2> QED
    BY <2>3, <2>4, <2>6, <2>7 DEF CacheInv
<1>7. ASSUME NEW s \in FlagServers, RestartServer(s) PROVE CacheInv'
  <2>1. /\ local' = [local EXCEPT ![s] = [f \in FlagNames |-> NotCached]]
        /\ lookups' = [lookups EXCEPT ![s] = [f \in FlagNames |-> NoLookup]]
        /\ UNCHANGED <<flagStore, unchanged>>
    BY <1>7 DEF RestartServer
  <2>2. local' \in [FlagServers -> [FlagNames -> Entry]]
        /\ lookups' \in [FlagServers -> [FlagNames -> Lookup]]
    BY <1>2, <2>1 DEF CacheInv
  <2>3. ASSUME NEW r \in FlagServers, NEW g \in FlagNames
        PROVE  /\ lookups'[r][g] \in {lookups[r][g], NoLookup}
               /\ local'[r][g] \in {local[r][g], NotCached}
    BY <2>1 DEF CacheInv
  <2> QED
    BY <1>2, <2>1, <2>2, <2>3 DEF CacheInv, Cached
<1>8. CASE FlagTick
  <2>1. /\ \A s \in FlagServers, f \in FlagNames : ~lookups[s][f].asked
        /\ local' = [s \in FlagServers |-> [f \in FlagNames |->
                 IF local[s][f].left = 0 THEN local[s][f]
                                         ELSE [local[s][f] EXCEPT !.left = @ - 1]]]
        /\ unchanged' = [f \in FlagNames |-> IF unchanged[f] < FlagCacheLife
                                       THEN unchanged[f] + 1 ELSE FlagCacheLife]
        /\ UNCHANGED <<flagStore, lookups>>
    BY <1>8 DEF FlagTick
  <2>2. unchanged' \in [FlagNames -> 0 .. FlagCacheLife]
    BY <1>1, <2>1 DEF CacheInv
  <2>3. ASSUME NEW s \in FlagServers, NEW f \in FlagNames
        PROVE  /\ local'[s][f] \in Entry
               /\ local'[s][f].setting = local[s][f].setting
               /\ Cached(s, f)' => Cached(s, f) /\ local'[s][f].left = local[s][f].left - 1
    <3>1. local[s][f] \in Entry /\ local[s][f].left \in 0 .. FlagCacheLife
      BY DEF CacheInv, Entry
    <3>2. CASE local[s][f].left = 0
      BY <2>1, <3>1, <3>2 DEF Cached
    <3>3. CASE local[s][f].left # 0
      <4>1. PICK n \in 0 .. FlagCacheLife : n = local[s][f].left - 1
        BY <1>1, <3>1, <3>3
      <4>2. local'[s][f] = [local[s][f] EXCEPT !.left = n]
        BY <2>1, <3>3, <4>1
      <4> QED
        BY <1>1, <3>1, <3>3, <4>1, <4>2 DEF Entry, Cached
    <3> QED
      BY <3>2, <3>3
  <2>4. local' \in [FlagServers -> [FlagNames -> Entry]]
    BY <2>1, <2>3
  <2>5. ASSUME NEW s \in FlagServers, NEW f \in FlagNames, Cached(s, f)'
        PROVE  \/ local'[s][f].setting = flagStore'[f]
               \/ unchanged'[f] + local'[s][f].left <= FlagCacheLife
    <3>1. Cached(s, f) /\ local'[s][f].left = local[s][f].left - 1
          /\ local[s][f].left \in 0 .. FlagCacheLife
      BY <2>3, <2>5 DEF CacheInv, Entry
    <3>2. unchanged[f] \in 0 .. FlagCacheLife
      BY DEF CacheInv
    <3>3. CASE local[s][f].setting = flagStore[f]
      BY <2>1, <2>3, <3>3
    <3>4. CASE unchanged[f] + local[s][f].left <= FlagCacheLife
      <4>1. unchanged[f] < FlagCacheLife
        BY <1>1, <3>1, <3>2, <3>4 DEF Cached
      <4>2. unchanged'[f] = unchanged[f] + 1
        BY <2>1, <4>1
      <4> QED
        BY <1>1, <3>1, <3>2, <3>4, <4>2
    <3> QED
      BY <3>1, <3>3, <3>4 DEF CacheInv
  <2> QED
    BY <2>1, <2>2, <2>4, <2>5 DEF CacheInv
<1>9. CASE UNCHANGED <<flagStore, local, lookups, unchanged>>
  BY <1>3, <1>9, CacheStays
<1>10. ASSUME NEW e \in Edits, NEW s \in FlagServers,
              SetFromEnvironment(e, s)
                \/ \E f \in FlagNames : SetFlag(e, s, f) \/ DeleteFlag(e, s, f)
       PROVE  UNCHANGED <<flagStore, local, lookups, unchanged>>
  BY <1>10 DEF SetFromEnvironment, SetFlag, DeleteFlag, Begin
<1>11. ASSUME NEW e \in Edits, ReadFails(e)
       PROVE  UNCHANGED <<flagStore, local, lookups, unchanged>>
  BY <1>11 DEF ReadFails
<1>12. CASE UNCHANGED flagVars
  BY <1>9, <1>12 DEF flagVars
<1> QED
  BY <1>4, <1>5, <1>6, <1>7, <1>8, <1>9, <1>10, <1>11, <1>12 DEF FlagsNext

\* Every step keeps what is known of the store.
LEMMA StoreInvStep ==
  FlagsInv /\ BootsFlags /\ StoreInv /\ [FlagsNext]_flagVars => StoreInv'
<1> SUFFICES ASSUME FlagsInv, BootsFlags, StoreInv, [FlagsNext]_flagVars
             PROVE  StoreInv'
  OBVIOUS
<1>1. /\ NoEdit.seen = NothingSeen /\ ~NoEdit.asked
      /\ NothingSeen \in [FlagNames -> Stored] /\ NoSetting \in Stored
  BY DEF NoEdit, NothingSeen, Stored
<1>2. edits \in [Edits -> EditRows]
  BY DEF FlagsInv
<1>3. ASSUME NEW e \in Edits, NEW s \in FlagServers, NEW f \in FlagNames,
             NEW c \in Stored, NEW boots \in BOOLEAN, Begin(e, s, f, c, boots),
             editsLeft' \in 0 .. MaxEdits
      PROVE  StoreInv'
  <2>1. PICK edit : edit = [asked |-> TRUE, boots |-> boots, server |-> s,
                            flag |-> f, to |-> c, seen |-> flagStore]
    OBVIOUS
  <2>2. edits' = [edits EXCEPT ![e] = edit] /\ UNCHANGED <<flagStore, flagFaults>>
    BY <1>3, <2>1 DEF Begin
  <2>3. \A d \in Edits : edits'[d] = IF d = e THEN edit ELSE edits[d]
    BY <1>2, <2>2
  <2> QED
    BY <1>3, <2>1, <2>2, <2>3 DEF StoreInv
<1>4. ASSUME NEW e \in Edits, NEW s \in FlagServers, NEW f \in FlagNames,
             SetFlag(e, s, f)
      PROVE  StoreInv'
  <2>1. PICK c \in Settings : Valid(c) /\ Begin(e, s, f, c, FALSE)
    BY <1>4 DEF SetFlag
  <2>2. c \in Stored
    BY <2>1, FlagsAssumption DEF Valid, Stored
  <2>3. editsLeft' \in 0 .. MaxEdits
    BY <1>4, FlagsAssumption DEF SetFlag, StoreInv
  <2> QED
    BY <1>3, <2>1, <2>2, <2>3
<1>5. ASSUME NEW e \in Edits, NEW s \in FlagServers, NEW f \in FlagNames,
             DeleteFlag(e, s, f)
      PROVE  StoreInv'
  <2>1. Begin(e, s, f, NoSetting, FALSE)
    BY <1>5 DEF DeleteFlag
  <2>2. editsLeft' \in 0 .. MaxEdits
    <3>1. editsLeft' = editsLeft - 1 /\ editsLeft > 0
      BY <1>5 DEF DeleteFlag
    <3> QED
      BY <3>1, FlagsAssumption DEF StoreInv
  <2> QED
    BY <1>1, <1>3, <2>1, <2>2
<1>6. ASSUME NEW e \in Edits, NEW s \in FlagServers, SetFromEnvironment(e, s)
      PROVE  StoreInv'
  <2>1. PICK f \in booting[s] : Begin(e, s, f, EnvSetting, TRUE)
    BY <1>6 DEF SetFromEnvironment
  <2>2. f \in FlagNames
    BY DEF BootsFlags
  <2>3. EnvSetting \in Stored /\ editsLeft' \in 0 .. MaxEdits
    BY <1>6, FlagsAssumption DEF SetFromEnvironment, Valid, Stored, StoreInv
  <2> QED
    BY <1>3, <2>1, <2>2, <2>3
<1>7. ASSUME NEW e \in Edits, ReadFails(e) PROVE StoreInv'
  <2>1. \A d \in Edits : /\ edits'[d].asked = edits[d].asked
                         /\ edits'[d].to = edits[d].to
                         /\ edits'[d].seen \in {edits[d].seen, NothingSeen}
    BY <1>2, <1>7 DEF ReadFails, EditRows
  <2>2. flagFaults' \in 0 .. MaxFlagFaults
    BY <1>7, FlagsAssumption DEF ReadFails, StoreInv
  <2> QED
    BY <1>1, <1>7, <2>1, <2>2 DEF ReadFails, StoreInv
<1>8. ASSUME NEW e \in Edits, WriteFlags(e) PROVE StoreInv'
  <2>1. edits[e] \in EditRows /\ edits[e].asked
    BY <1>2, <1>8 DEF WriteFlags
  <2>2. Merged(edits[e]) \in [FlagNames -> Stored]
    BY <2>1 DEF Merged, EditRows, StoreInv
  <2>3. flagStore' \in {flagStore, Merged(edits[e])}
        /\ edits' = [edits EXCEPT ![e] = NoEdit] /\ UNCHANGED editsLeft
    BY <1>8 DEF WriteFlags
  <2>4. flagFaults' \in 0 .. MaxFlagFaults
    BY <1>8, FlagsAssumption DEF WriteFlags, StoreInv
  <2>5. \A d \in Edits : edits'[d] \in {edits[d], NoEdit}
    BY <1>2, <2>3
  <2> QED
    BY <1>1, <2>2, <2>3, <2>4, <2>5 DEF StoreInv
<1>9. ASSUME NEW s \in FlagServers, RestartServer(s) PROVE StoreInv'
  <2>1. \A d \in Edits : edits'[d] \in {edits[d], NoEdit}
    BY <1>9 DEF RestartServer
  <2>2. flagFaults' \in 0 .. MaxFlagFaults
    BY <1>9, FlagsAssumption DEF RestartServer, StoreInv
  <2> QED
    BY <1>1, <1>9, <2>1, <2>2 DEF RestartServer, StoreInv
<1>10. CASE UNCHANGED <<flagStore, edits, editsLeft, flagFaults>>
  BY <1>10 DEF StoreInv
<1>11. ASSUME NEW s \in FlagServers, NEW f \in FlagNames,
              AskRedis(s, f) \/ CacheFlag(s, f)
       PROVE  UNCHANGED <<flagStore, edits, editsLeft, flagFaults>>
  BY <1>11 DEF AskRedis, CacheFlag
<1>12. FlagTick \/ UNCHANGED flagVars
         => UNCHANGED <<flagStore, edits, editsLeft, flagFaults>>
  BY DEF FlagTick, flagVars
<1> QED
  BY <1>4, <1>5, <1>6, <1>7, <1>8, <1>9, <1>10, <1>11, <1>12 DEF FlagsNext

\* What the three say together.
FlagsHold == FlagsInv /\ BootsFlags /\ CacheInv /\ StoreInv

\* The invariant of this part holds at first,
LEMMA FlagsInitially == FlagsInit => FlagsHold
BY FlagsAssumption, FlagsInvStarts, CacheInvStarts
DEF FlagsHold, FlagsInit, BootsFlags

\* ... every step keeps it,
LEMMA FlagsStepHolds == FlagsHold /\ [FlagsNext]_flagVars => FlagsHold'
BY FlagsInvStep, BootsFlagsStep, CacheInvStep, StoreInvStep DEF FlagsHold

\* ... and it implies what is to be shown of this part.
LEMMA FlagsConclusion ==
  FlagsHold => FlagsAreKept /\ CacheDelayIsBounded /\ FlagsTypeOK
<1> SUFFICES ASSUME FlagsHold
             PROVE  FlagsAreKept /\ CacheDelayIsBounded /\ FlagsTypeOK
  OBVIOUS
<1> USE DEF FlagsHold
<1>1. FlagsAreKept
  BY DEF FlagsInv, FlagsAreKept
<1>2. CacheDelayIsBounded
  <2> SUFFICES ASSUME NEW s \in FlagServers, NEW f \in FlagNames \ EnvFlags,
                      Cached(s, f), local[s][f].setting # flagStore[f]
               PROVE  unchanged[f] < FlagCacheLife
    BY DEF CacheDelayIsBounded
  <2>1. unchanged[f] + local[s][f].left <= FlagCacheLife
    BY DEF CacheInv
  <2>2. unchanged[f] \in Nat /\ local[s][f].left \in Nat /\ local[s][f].left > 0
        /\ FlagCacheLife \in Nat
    BY FlagsAssumption DEF CacheInv, Entry, Cached
  <2> QED
    BY <2>1, <2>2
<1>3. FlagsTypeOK
  BY DEF FlagsTypeOK, FlagsInv, BootsFlags, CacheInv, StoreInv, Entry, Lookup,
         EditRows
<1> QED
  BY <1>1, <1>2, <1>3

\* Whatever the flags, the instances and the administrators: unless edits
\* overlapped or Redis failed one, every flag is as it was last edited
\* (feature-flag.service.ts:112).
THEOREM FlagsAreKeptTheorem == FlagsSpec => []FlagsAreKept
<1>1. FlagsHold => FlagsAreKept
  BY FlagsConclusion
<1> QED
  BY <1>1, FlagsInitially, FlagsStepHolds, PTL DEF FlagsSpec
=============================================================================
