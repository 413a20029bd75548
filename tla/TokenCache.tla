----------------------------- MODULE TokenCache -----------------------------
(***************************************************************************)
(* Authenticating the polls of one source in one replica                   *)
(* (services/remoteAuthService.ts and its use in remotePollService.ts):    *)
(* the OAuth token is fetched once, kept in the process, and put into the  *)
(* headers of a whole poll; the source's credential may be replaced while  *)
(* a poll is between its SELECT and its last page.                         *)
(*                                                                         *)
(* A credential is its version.  Polls of one source never overlap here.   *)
(***************************************************************************)
EXTENDS Integers

CONSTANTS
    Margin,       \* REFRESH_MARGIN_MS
    Lifetimes,    \* expires_in of the tokens the remote may issue
    MaxFetch,     \* a token request takes no longer (AbortSignal.timeout)
    MaxTime, MaxUpdates  \* bounds of the model

TokenAssumption ==
    /\ Margin \in Nat /\ Lifetimes \subseteq Nat \ {0}
    /\ \E ttl \in Lifetimes : \A u \in Lifetimes : u <= ttl
    /\ MaxFetch \in Nat /\ MaxTime \in Nat \ {0} /\ MaxUpdates \in Nat

VARIABLES
    now,
    stored,   \* remote_sources.auth_config: the credential, when it was set
    cache,    \* tokenCache's entry
    poll      \* the poll under way, the headers it sends, when it got them

vars == <<now, stored, cache, poll>>

Times == 0..MaxTime + 1
Token == [cred : 0..MaxUpdates, expires : Nat, ttl : Nat]
NoToken == [cred |-> 0, expires |-> 0, ttl |-> 0]
NoPoll == [pc |-> "idle", cred |-> 0, asked |-> 0, token |-> NoToken, got |-> 0]

Init ==
    /\ now = 1
    /\ stored = [cred |-> 0, since |-> 0]
    /\ cache = NoToken
    /\ poll = NoPoll

\* updateRemoteSource: a new credential; the cache is not told.
UpdateCredential ==
    /\ stored.cred < MaxUpdates
    /\ stored' = [cred |-> stored.cred + 1, since |-> now]
    /\ UNCHANGED <<now, cache, poll>>

\* getRemoteSourceForPolling.
ReadSource ==
    /\ poll.pc = "idle"
    /\ poll' = [NoPoll EXCEPT !.pc = "auth", !.cred = stored.cred]
    /\ UNCHANGED <<now, stored, cache>>

Send(token) == poll' = [poll EXCEPT !.pc = "pages", !.token = token, !.got = now]

\* Fault: a token is used until it has expired.
Fresh_NoMargin(token) == token.expires > now

Fresh(token) == token.expires - Margin > now

UseCached ==
    /\ poll.pc = "auth" /\ Fresh(cache)
    /\ Send(cache)
    /\ UNCHANGED <<now, stored, cache>>

RequestToken ==
    /\ poll.pc = "auth" /\ ~Fresh(cache)
    /\ poll' = [poll EXCEPT !.pc = "token", !.asked = now]
    /\ UNCHANGED <<now, stored, cache>>

\* fetchClientCredentialsToken, counted from the answer.
TokenArrives(ttl) ==
    LET token == [cred |-> poll.cred, expires |-> now + ttl, ttl |-> ttl] IN
    /\ poll.pc = "token"
    /\ cache' = token
    /\ Send(token)
    /\ UNCHANGED <<now, stored>>

\* Refused, unreachable or timed out: the poll fails, the old entry stays.
TokenFails ==
    /\ poll.pc = "token"
    /\ poll' = NoPoll
    /\ UNCHANGED <<now, stored, cache>>

\* The last page, or a 401 because the token did not last.
PollEnds ==
    /\ poll.pc = "pages"
    /\ poll' = NoPoll
    /\ UNCHANGED <<now, stored, cache>>

\* The backend restarts with an empty cache.
Restart ==
    /\ cache' = NoToken /\ poll' = NoPoll
    /\ UNCHANGED <<now, stored>>

Tick ==
    /\ now < MaxTime
    /\ poll.pc = "token" => now - poll.asked < MaxFetch
    /\ poll.pc # "auth"    \* from the SELECT to the request, no time passes
    /\ now' = now + 1
    /\ UNCHANGED <<stored, cache, poll>>

Next ==
    \/ UpdateCredential \/ ReadSource \/ UseCached \/ RequestToken
    \/ \E ttl \in Lifetimes : TokenArrives(ttl)
    \/ TokenFails \/ PollEnds \/ Restart \/ Tick

Spec == Init /\ [][Next]_vars

-----------------------------------------------------------------------------
(* Properties.                                                             *)

TypeOK ==
    /\ now \in 1..MaxTime
    /\ stored \in [cred : 0..MaxUpdates, since : Times]
    /\ cache \in Token
    /\ poll \in [pc : {"idle", "auth", "token", "pages"}, cred : 0..MaxUpdates,
                 asked : Times, token : Token, got : Times]

LongestLife == CHOOSE t \in Lifetimes : \A u \in Lifetimes : u <= t

\* A poll never sets out with a token about to expire (unless the remote
\* issues none that lasts), so that only a poll longer than Margin meets a 401;
\* and a token of a credential that has been replaced is out of use once the
\* longest one still being fetched at that moment has expired.
HeaderIsGood ==
    poll.pc = "pages" =>
        /\ poll.token.expires - poll.got > Margin \/ poll.token.ttl <= Margin
        /\ poll.token.cred = stored.cred
             \/ poll.got <= stored.since + MaxFetch + LongestLife
=============================================================================
