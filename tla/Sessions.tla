------------------------------- MODULE Sessions -------------------------------
(***************************************************************************)
(* The sessions of one user (src/auth, src/stellar-auth, users.service.ts): *)
(* signing in with a password or a wallet, rotating and revoking refresh    *)
(* tokens, and the token version that every request is checked against,     *)
(* through a cache in Redis.                                                *)
(***************************************************************************)
EXTENDS Integers, Sequences, FiniteSets

CONSTANTS
  SessionRequests,    \* requests under way at once
  MaxTokens,          \* bound: refresh tokens issued
  MaxVersion,         \* bound: the token version
  MaxChallenges,      \* bound: challenges issued to the wallet
  MaxSessionFaults    \* bound: requests that end between two steps

ASSUME SessionAssumption ==
  /\ IsFiniteSet(SessionRequests)
  /\ {MaxTokens, MaxVersion} \subseteq Nat \ {0}
  /\ {MaxChallenges, MaxSessionFaults} \subseteq Nat

VARIABLES
  tokenVersion,     \* users.tokenVersion
  walletToken,      \* users.refreshTokenHash: the wallet's token, or NoToken
  tokens,           \* the tokens issued, in order; a refresh_tokens row each
                    \* unless the wallet signed in
  cachedVersion,    \* tokver:<user> in Redis
  challenge,        \* siws:challenge:<wallet> in Redis, or NoToken
  usedNonces,       \* auth:used_nonces in Redis
  asking,           \* what each request is at
  lateEntry,        \* the cache entry was outdated when it was written, or its
                    \* invalidation was lost
  sessionFaults

sessionVars == <<tokenVersion, walletToken, tokens, cachedVersion, challenge,
                 usedNonces, asking, lateEntry, sessionFaults>>
rowVars == <<tokenVersion, walletToken>>
cacheVars == <<cachedVersion, lateEntry>>
nonceVars == <<challenge, usedNonces>>

-----------------------------------------------------------------------------
NoToken == 0
NoVersion == -1
Versions == 0 .. MaxVersion
TokenNos == 1 .. MaxTokens

\* late: past expiresAt; over: past absoluteExpiresAt.
RefreshToken == [version : Versions, state : {"live", "revoked"},
                 age : {"fresh", "late", "over"}, wallet : BOOLEAN]

\* then: what follows once the version has been raised.
Rest == {"end", "again", "issue"}
NotAsking == [at |-> "none"]
Asking ==
  [at : {"store"}, version : Versions, wallet : BOOLEAN]
  \cup [at : {"rotate", "close"}, token : TokenNos]
  \cup [at : {"revoke", "read"}, then : Rest, slot : BOOLEAN]
  \cup [at : {"write"}, version : Versions, then : Rest, slot : BOOLEAN]
  \cup [at : {"drop"}, version : Versions, then : Rest]
  \cup [at : {"cache", "row"}, version : Versions]
  \cup [at : {"fill"}, version : Versions]
  \cup [at : {"nonce", "wallet"}, nonce : 1 .. MaxChallenges]
  \cup [at : {"ban"}, version : Versions, hash : TokenNos \cup {NoToken}]

SessionTypeOK ==
  /\ tokenVersion \in Versions
  /\ walletToken \in TokenNos \cup {NoToken}
  /\ tokens \in UNION {[1 .. n -> RefreshToken] : n \in 0 .. MaxTokens}
  /\ cachedVersion \in Versions \cup {NoVersion}
  /\ challenge \in 0 .. MaxChallenges
  /\ usedNonces \subseteq 1 .. MaxChallenges
  /\ \A r \in SessionRequests : asking[r] \in Asking \cup {NotAsking}
  /\ lateEntry \in BOOLEAN
  /\ sessionFaults \in 0 .. MaxSessionFaults

Now(r, state) == asking' = [asking EXCEPT ![r] = state]
Answered(r) == Now(r, NotAsking)
Idle(r) == asking[r] = NotAsking
Raise(then, slot) == [at |-> "read", then |-> then, slot |-> slot]
Rows == {t \in DOMAIN tokens : ~tokens[t].wallet}
Revoked(revoked) ==
  [t \in DOMAIN tokens |-> IF t \in revoked
                           THEN [tokens[t] EXCEPT !.state = "revoked"]
                           ELSE tokens[t]]

-----------------------------------------------------------------------------
\* login, register, registerWithWallet and the second step of a 2FA login end
\* in generateTokens, which reads the version, ...
SignIn(r) ==
  /\ Idle(r) /\ Len(tokens) < MaxTokens
  /\ Now(r, [at |-> "store", version |-> tokenVersion, wallet |-> FALSE])
  /\ UNCHANGED <<rowVars, tokens, cacheVars, nonceVars, sessionFaults>>

\* ... and storeRefreshToken, or updateRefreshTokenHash for the wallet.
StoreRefreshToken(r) ==
  /\ asking[r].at = "store" /\ Len(tokens) < MaxTokens
  /\ tokens' = Append(tokens, [version |-> asking[r].version, state |-> "live",
                               age |-> "fresh", wallet |-> asking[r].wallet])
  /\ walletToken' = IF asking[r].wallet THEN Len(tokens) + 1 ELSE walletToken
  /\ Answered(r)
  /\ UNCHANGED <<tokenVersion, cacheVars, nonceVars, sessionFaults>>

\* refreshTokens: a token revoked before, or past its time, revokes them all;
\* one past the end of its session is closed; any other one is rotated.
RefreshTokens(r) ==
  /\ Idle(r)
  /\ \E t \in Rows :
       Now(r, IF tokens[t].state = "revoked" \/ tokens[t].age = "late"
              THEN [at |-> "revoke", then |-> "end", slot |-> TRUE]
              ELSE [at |-> IF tokens[t].age = "over" THEN "close" ELSE "rotate",
                    token |-> t])
  /\ UNCHANGED <<rowVars, tokens, cacheVars, nonceVars, sessionFaults>>

RotateToken(r) ==
  /\ asking[r].at \in {"rotate", "close"}
  /\ tokens' = Revoked({asking[r].token})
  /\ IF asking[r].at = "close" THEN Answered(r) ELSE Now(r, Raise("issue", FALSE))
  /\ UNCHANGED <<rowVars, cacheVars, nonceVars, sessionFaults>>

\* revokeSession: one row of the user's own.
RevokeSession(r) ==
  /\ Idle(r)
  /\ \E t \in Rows : tokens' = Revoked({t})
  /\ UNCHANGED <<rowVars, cacheVars, nonceVars, asking, sessionFaults>>

\* logout with a refresh token revokes that one; without one, and for an
\* administrator, every one is revoked.
Logout(r) ==
  /\ Idle(r)
  /\ \/ \E t \in Rows : tokens' = Revoked({t}) /\ Now(r, Raise("end", TRUE))
     \/ /\ Now(r, [at |-> "revoke", then |-> "again", slot |-> TRUE])
        /\ UNCHANGED tokens
  /\ UNCHANGED <<rowVars, cacheVars, nonceVars, sessionFaults>>

AdminRevokeUserTokens(r) ==
  /\ Idle(r)
  /\ Now(r, [at |-> "revoke", then |-> "end", slot |-> TRUE])
  /\ UNCHANGED <<rowVars, tokens, cacheVars, nonceVars, sessionFaults>>

RevokeAllUserTokens(r) ==
  /\ asking[r].at = "revoke"
  /\ tokens' = Revoked(Rows)
  /\ Now(r, Raise(asking[r].then, TRUE))
  /\ UNCHANGED <<rowVars, cacheVars, nonceVars, sessionFaults>>

-----------------------------------------------------------------------------
\* incrementTokenVersion and revokeAllSessions: the version is read, ...
ReadVersion(r) ==
  /\ asking[r].at = "read"
  /\ Now(r, [at |-> "write", version |-> tokenVersion,
             then |-> asking[r].then, slot |-> asking[r].slot])
  /\ UNCHANGED <<rowVars, tokens, cacheVars, nonceVars, sessionFaults>>

\* Mutation of WriteVersion: the cache is not invalidated.
WriteVersionOnly(r) ==
  /\ asking[r].at = "write" /\ asking[r].version < MaxVersion
  /\ tokenVersion' = asking[r].version + 1
  /\ walletToken' = IF asking[r].slot THEN NoToken ELSE walletToken
  /\ CASE asking[r].then = "end" -> Answered(r)
       [] asking[r].then = "again" -> Now(r, Raise("end", TRUE))
       [] asking[r].then = "issue" ->
            Now(r, [at |-> "store", version |-> asking[r].version + 1,
                    wallet |-> FALSE])
  /\ UNCHANGED <<tokens, cacheVars, nonceVars, sessionFaults>>

\* ... written one higher, with the wallet's token cleared by the latter, ...
WriteVersion(r) ==
  /\ asking[r].at = "write" /\ asking[r].version < MaxVersion
  /\ tokenVersion' = asking[r].version + 1
  /\ walletToken' = IF asking[r].slot THEN NoToken ELSE walletToken
  /\ Now(r, [at |-> "drop", version |-> asking[r].version + 1,
             then |-> asking[r].then])
  /\ UNCHANGED <<tokens, cacheVars, nonceVars, sessionFaults>>

\* ... and the cache is invalidated; the request goes on from there.
InvalidateVersion(r) ==
  /\ asking[r].at = "drop"
  /\ cachedVersion' = NoVersion /\ lateEntry' = FALSE
  /\ CASE asking[r].then = "end" -> Answered(r)
       [] asking[r].then = "again" -> Now(r, Raise("end", TRUE))
       [] asking[r].then = "issue" ->
            Now(r, [at |-> "store", version |-> asking[r].version,
                    wallet |-> FALSE])
  /\ UNCHANGED <<rowVars, tokens, nonceVars, sessionFaults>>

\* banUser saves the whole row it has read, the version one higher.
FindUserToBan(r) ==
  /\ Idle(r) /\ tokenVersion < MaxVersion
  /\ Now(r, [at |-> "ban", version |-> tokenVersion + 1, hash |-> walletToken])
  /\ UNCHANGED <<rowVars, tokens, cacheVars, nonceVars, sessionFaults>>

BanUser(r) ==
  /\ asking[r].at = "ban"
  /\ tokenVersion' = asking[r].version /\ walletToken' = asking[r].hash
  /\ Now(r, [at |-> "drop", version |-> asking[r].version, then |-> "end"])
  /\ UNCHANGED <<tokens, cacheVars, nonceVars, sessionFaults>>

-----------------------------------------------------------------------------
\* validate: an access token of one of the versions issued is compared with
\* the cache, ...
Validate(r) ==
  /\ Idle(r)
  /\ \E t \in DOMAIN tokens :
       Now(r, [at |-> "cache", version |-> tokens[t].version])
  /\ UNCHANGED <<rowVars, tokens, cacheVars, nonceVars, sessionFaults>>

CheckCachedVersion(r) ==
  /\ asking[r].at = "cache"
  /\ IF cachedVersion \in {NoVersion, asking[r].version}
     THEN Now(r, [asking[r] EXCEPT !.at = "row"]) ELSE Answered(r)
  /\ UNCHANGED <<rowVars, tokens, cacheVars, nonceVars, sessionFaults>>

\* ... with the row, ...
CheckVersion(r) ==
  /\ asking[r].at = "row"
  /\ IF tokenVersion = asking[r].version
     THEN Now(r, [asking[r] EXCEPT !.at = "fill"]) ELSE Answered(r)
  /\ UNCHANGED <<rowVars, tokens, cacheVars, nonceVars, sessionFaults>>

\* ... and the version read from the row is cached.
FillCache(r) ==
  /\ asking[r].at = "fill"
  /\ cachedVersion' = asking[r].version
  /\ lateEntry' = (asking[r].version # tokenVersion)
  /\ Answered(r)
  /\ UNCHANGED <<rowVars, tokens, nonceVars, sessionFaults>>

-----------------------------------------------------------------------------
\* The wallet asks for a challenge with a new nonce; it replaces the one before.
HeldNonces == {asking[r].nonce :
               r \in {q \in SessionRequests : asking[q].at \in {"nonce", "wallet"}}}

GenerateChallenge ==
  /\ \E n \in 1 .. MaxChallenges :
       /\ n \notin usedNonces \cup HeldNonces \cup {challenge}
       /\ challenge' = n
  /\ UNCHANGED <<rowVars, tokens, cacheVars, usedNonces, asking, sessionFaults>>

\* A call of Redis that answers, or one of those that do not.
RedisAnswers(up) ==
  IF up THEN UNCHANGED sessionFaults
  ELSE /\ sessionFaults < MaxSessionFaults
       /\ sessionFaults' = sessionFaults + 1

\* redis.service.ts: a Redis that is down has no members and takes none; the
\* error is caught and logged.
IsMember(up, set, x) == up /\ x \in set
AddMember(up, set, x) == IF up THEN set \cup {x} ELSE set

\* verifySignature: the challenge is the stored one, its nonce is unused, for
\* all Redis says, and the envelope is signed; the nonce is noted, ...
VerifySignature(r) ==
  /\ Idle(r) /\ challenge # NoToken
  /\ \E up \in BOOLEAN :
       ~IsMember(up, usedNonces, challenge) /\ RedisAnswers(up)
  /\ Now(r, [at |-> "nonce", nonce |-> challenge])
  /\ UNCHANGED <<rowVars, tokens, cacheVars, nonceVars>>

NoteNonce(r) ==
  /\ asking[r].at = "nonce"
  /\ \E up \in BOOLEAN :
       /\ usedNonces' = AddMember(up, usedNonces, asking[r].nonce)
       /\ RedisAnswers(up)
  /\ Now(r, [asking[r] EXCEPT !.at = "wallet"])
  /\ UNCHANGED <<rowVars, tokens, cacheVars, challenge>>

\* ... the challenge deleted and the tokens issued.
IssueToWallet(r) ==
  /\ asking[r].at = "wallet"
  /\ challenge' = NoToken
  /\ Now(r, [at |-> "store", version |-> tokenVersion, wallet |-> TRUE])
  /\ UNCHANGED <<rowVars, tokens, cacheVars, usedNonces, sessionFaults>>

\* The wallet's logout clears the token and raises the version.
LogoutWallet(r) ==
  /\ Idle(r)
  /\ walletToken' = NoToken
  /\ Now(r, Raise("end", FALSE))
  /\ UNCHANGED <<tokenVersion, tokens, cacheVars, nonceVars, sessionFaults>>

-----------------------------------------------------------------------------
\* Time: a token or its session expires, or a cache entry after 30 seconds.
SessionTimePasses ==
  \/ /\ \E t \in Rows, age \in {"late", "over"} :
          tokens[t].age = "fresh" /\ tokens' = [tokens EXCEPT ![t].age = age]
     /\ UNCHANGED <<rowVars, cacheVars, nonceVars, asking, sessionFaults>>
  \/ /\ cachedVersion # NoVersion
     /\ cachedVersion' = NoVersion /\ lateEntry' = FALSE
     /\ UNCHANGED <<rowVars, tokens, nonceVars, asking, sessionFaults>>

\* A restart, or a call that fails.
RequestDies(r) ==
  /\ ~Idle(r) /\ sessionFaults < MaxSessionFaults
  /\ sessionFaults' = sessionFaults + 1
  /\ lateEntry' = (lateEntry \/ asking[r].at = "drop")
  /\ Answered(r)
  /\ UNCHANGED <<rowVars, tokens, cachedVersion, nonceVars>>

SessionInit ==
  /\ tokenVersion = 0 /\ walletToken = NoToken /\ tokens = <<>>
  /\ cachedVersion = NoVersion /\ lateEntry = FALSE
  /\ challenge = NoToken /\ usedNonces = {}
  /\ asking = [r \in SessionRequests |-> NotAsking]
  /\ sessionFaults = 0

RaiseVersion(r) ==
  \/ ReadVersion(r) \/ WriteVersion(r) \/ InvalidateVersion(r)
  \/ FindUserToBan(r) \/ BanUser(r)
RevokeTokens(r) ==
  \/ RevokeSession(r) \/ Logout(r) \/ LogoutWallet(r)
  \/ AdminRevokeUserTokens(r) \/ RevokeAllUserTokens(r)
IssueTokens(r) ==
  \/ SignIn(r) \/ RefreshTokens(r) \/ RotateToken(r)
  \/ VerifySignature(r) \/ NoteNonce(r) \/ IssueToWallet(r)
  \/ StoreRefreshToken(r)
CheckToken(r) ==
  Validate(r) \/ CheckCachedVersion(r) \/ CheckVersion(r) \/ FillCache(r)

SessionNext ==
  \/ \E r \in SessionRequests :
       \/ RaiseVersion(r) \/ RevokeTokens(r) \/ IssueTokens(r) \/ CheckToken(r)
       \/ RequestDies(r)
  \/ GenerateChallenge \/ SessionTimePasses

SessionSpec == SessionInit /\ [][SessionNext]_sessionVars

-----------------------------------------------------------------------------
\* The cache turns nobody away without cause: an entry that differs from the
\* row's version is about to be invalidated by the request that raised the
\* version, or came from a check that overlapped one (jwt.strategy.ts:25,
\* users.service.ts:53), or its invalidation was lost.
CacheIsCurrent ==
  cachedVersion \in {NoVersion, tokenVersion}
    \/ lateEntry \/ \E r \in SessionRequests : asking[r].at = "drop"
=============================================================================
