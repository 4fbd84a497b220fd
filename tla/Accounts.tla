------------------------------ MODULE Accounts ------------------------------
(***************************************************************************)
(* Who may speak to the server: the users and tokens tables, first-run     *)
(* registration, signing in with a password and a second factor, enrolling *)
(* in it, the limiter of failed sign-ins and the administrator's commands  *)
(* (crates/quarkdrive-server/src/api.rs, db.rs, main.rs).                  *)
(*                                                                         *)
(* A step is one access to the database, to the limiter or to the pending  *)
(* sign-ins; each of the three has its own mutex and no handler holds one  *)
(* across two accesses.  A secret is the number of its generation, and a   *)
(* code is right for the generation it was computed from; a password is    *)
(* right or wrong.  All attempts come from one address, so a limiter key   *)
(* is the user name a request gives, which for the second step of a        *)
(* sign-in may be another than the one it was begun under.  Time is in     *)
(* ticks of five minutes.                                                  *)
(***************************************************************************)
EXTENDS Integers, FiniteSets

CONSTANTS
    Person,             \* user names, each naming one account at most
    LoginName,          \* what a request may give for a user name
    Nobody,             \* no user name
    AuthRequests,       \* requests in flight at once
    LOGIN_MAX_FAILURES, \* of api.rs
    LOGIN_WINDOW,       \* LOGIN_WINDOW_SECS of api.rs, in ticks
    PENDING_LIFE,       \* life of a half-made sign-in, in ticks
    MaxTokens,          \* bound: tokens ever made
    MaxPending,         \* bound: half-made sign-ins ever made
    MaxSecrets,         \* bound: secrets ever made
    MaxTime             \* bound: ticks

ASSUME AccountsAssumption ==
    /\ Person \subseteq LoginName /\ Nobody \notin LoginName
    /\ LOGIN_MAX_FAILURES \in Nat \ {0}
    /\ LOGIN_WINDOW \in Nat \ {0} /\ PENDING_LIFE \in Nat
    /\ {MaxTokens, MaxPending, MaxSecrets, MaxTime} \subseteq Nat

VARIABLES
    registered, \* users: the accounts there are
    secret,     \* users.totp_secret: its generation, 0 for NULL
    enabled,    \* users.totp_enabled
    tokens,     \* tokens: [id, user, from], from the pending sign-in it came of
    failures,   \* LoginLimiter: [count, since]; a count of 0 is no entry
    pending,    \* pending_totps: [id, user, at]
    clock,      \* the time
    apc,        \* apc[r]: the next step of request r
    who,        \* who[r]: the account it is about
    name,       \* name[r]: the user name it gave, a key of the limiter
    claim,      \* claim[r]: what it read or was given: a code, a pending sign-in
    made,       \* history: how many tokens, pending sign-ins and secrets were made
    confirmed,  \* history: the secrets an authenticator has shown a code for
    wrong,      \* history: per name given, the attempts that failed, [at, nth], the nth of
                \* its tick, no more than a window ago and since the last that did not fail
    crossed     \* history: two requests with an account or a name in common have been in
                \* flight at once

accountsVars == <<registered, secret, enabled, tokens, failures, pending, clock,
                  apc, who, name, claim, made, confirmed, wrong, crossed>>

NoEntry  == [count |-> 0, since |-> 0]
NoClaim  == 0

AccountsInit ==
    /\ registered = {} /\ tokens = {} /\ pending = {} /\ clock = 0
    /\ secret    = [p \in Person |-> 0]
    /\ enabled   = [p \in Person |-> FALSE]
    /\ failures  = [n \in LoginName |-> NoEntry]
    /\ apc       = [r \in AuthRequests |-> "idle"]
    /\ who       = [r \in AuthRequests |-> Nobody]
    /\ name      = [r \in AuthRequests |-> Nobody]
    /\ claim     = [r \in AuthRequests |-> NoClaim]
    /\ made      = [token |-> 0, pending |-> 0, secret |-> 0]
    /\ confirmed = {}
    /\ wrong     = [n \in LoginName |-> {}]
    /\ crossed   = FALSE

-----------------------------------------------------------------------------
\* A window that ends a tick early.
ExpiredEarly(n) == clock - failures[n].since >= LOGIN_WINDOW - 1

\* LoginLimiter::allowed.
Expired(n) == clock - failures[n].since >= LOGIN_WINDOW
Allowed(n) == failures[n].count < LOGIN_MAX_FAILURES \/ Expired(n)

\* LoginLimiter::record_failure: a full or an expired window is replaced by a
\* new one.  (Entries twice as old are dropped first: they are expired too.)
AfterFailure(n) ==
    IF failures[n] = NoEntry \/ Expired(n) \/ failures[n].count >= LOGIN_MAX_FAILURES
    THEN [count |-> 1, since |-> clock]
    ELSE [failures[n] EXCEPT !.count = @ + 1]

\* The failures under a name no more than a window ago.
Recent(n) == {f \in wrong[n] : clock - f.at < LOGIN_WINDOW}

FailedNow(n) == [at |-> clock, nth |-> Cardinality({f \in Recent(n) : f.at = clock}) + 1]

RecordFailure(n) ==
    /\ failures' = [failures EXCEPT ![n] = AfterFailure(n)]
    /\ wrong'    = [wrong EXCEPT ![n] = Recent(n) \cup {FailedNow(n)}]

ClearFailures(n) ==
    /\ failures' = [failures EXCEPT ![n] = NoEntry]
    /\ wrong'    = [wrong EXCEPT ![n] = {}]

-----------------------------------------------------------------------------
Crossing(N)    == crossed' = (crossed \/ \E q \in AuthRequests : {who[q], name[q]} \cap N # {})
AuthIdle(r, N) == apc[r] = "idle" /\ Crossing(N)

AuthGo(r, step, p, n, c) ==
    /\ apc'   = [apc   EXCEPT ![r] = step]
    /\ who'   = [who   EXCEPT ![r] = p]
    /\ name'  = [name  EXCEPT ![r] = n]
    /\ claim' = [claim EXCEPT ![r] = c]
AuthDone(r) == AuthGo(r, "idle", Nobody, Nobody, NoClaim)

SignedIn(p) == \E t \in tokens : t.user = p

\* Db::create_token.
Mint(p, from) ==
    /\ made.token < MaxTokens
    /\ made'   = [made EXCEPT !.token = @ + 1]
    /\ tokens' = tokens \cup {[id |-> made.token + 1, user |-> p, from |-> from]}

\* register_first_user holds the connection from the count to the insertions;
\* the administrator's create-user is another process and does not.
Register(p) ==
    /\ registered = {}
    /\ registered' = {p}
    /\ Mint(p, NoClaim)
    /\ UNCHANGED <<secret, enabled, failures, pending, clock, apc, who, name, claim, confirmed, wrong, crossed>>

\* create-user, create-token and revoke-token.
CreateUser(p) ==
    /\ p \notin registered
    /\ registered' = registered \cup {p}
    /\ UNCHANGED <<secret, enabled, tokens, failures, pending, clock, apc, who, name, claim, made,
                   confirmed, wrong, crossed>>

CreateToken(p) ==
    /\ p \in registered
    /\ Mint(p, NoClaim)
    /\ UNCHANGED <<registered, secret, enabled, failures, pending, clock, apc, who, name, claim,
                   confirmed, wrong, crossed>>

RevokeToken == \E t \in tokens :
    /\ tokens' = tokens \ {t}
    /\ UNCHANGED <<registered, secret, enabled, failures, pending, clock, apc, who, name, claim, made,
                   confirmed, wrong, crossed>>

-----------------------------------------------------------------------------
(***************************************************************************)
(* POST /auth/login and /auth/login/totp.                                  *)
(***************************************************************************)
StartLogin(r, n) ==
    /\ AuthIdle(r, {n}) /\ Allowed(n)
    /\ AuthGo(r, "password", n, n, NoClaim)
    /\ UNCHANGED <<registered, secret, enabled, tokens, failures, pending, clock, made,
                   confirmed, wrong>>

\* authenticate, which holds no lock while it derives the key; then the limiter.
CheckPassword(r) ==
    /\ apc[r] = "password"
    /\ \/ /\ who[r] \in registered
          /\ ClearFailures(name[r])
          /\ AuthGo(r, "factor", who[r], name[r], NoClaim)
       \/ RecordFailure(name[r]) /\ AuthDone(r)
    /\ UNCHANGED <<registered, secret, enabled, tokens, pending, clock, made, confirmed, crossed>>

\* totp_for_user: a second factor that is on makes a pending sign-in.
AskSecondFactor(r) ==
    /\ apc[r] = "factor"
    /\ IF enabled[who[r]]
       THEN /\ made.pending < MaxPending
            /\ made' = [made EXCEPT !.pending = @ + 1]
            /\ pending' = pending \cup {[id |-> made.pending + 1, user |-> who[r], at |-> clock]}
            /\ AuthDone(r)
       ELSE AuthGo(r, "mint", who[r], name[r], NoClaim) /\ UNCHANGED <<made, pending>>
    /\ UNCHANGED <<registered, secret, enabled, tokens, failures, clock, confirmed, wrong, crossed>>

\* The pending sign-in is copied out of the map; one that is too old is removed.
\* Whose it is comes from the map, and the key of the limiter from the request.
StartCode(r, n, s) ==
    /\ AuthIdle(r, {n, s.user}) /\ Allowed(n)
    /\ IF clock - s.at > PENDING_LIFE
       THEN pending' = pending \ {s} /\ UNCHANGED <<apc, who, name, claim>>
       ELSE AuthGo(r, "code", s.user, n, s.id) /\ UNCHANGED pending
    /\ UNCHANGED <<registered, secret, enabled, tokens, failures, clock, made, confirmed, wrong>>

Spent(id)      == {s \in pending : s.id = id}
\* A handler that leaves the pending sign-in for the clock to end.
SpentLater(id) == {s \in pending : s.id = id /\ clock - s.at > PENDING_LIFE}
RemainingAll(id) == pending \ SpentLater(id)

Remaining(id) == pending \ Spent(id)

CheckCode(r) ==
    /\ apc[r] = "code"
    /\ \/ /\ ~enabled[who[r]] /\ AuthDone(r)
          /\ UNCHANGED <<failures, wrong, pending>>
       \/ /\ enabled[who[r]]
          /\ RecordFailure(name[r]) /\ AuthDone(r) /\ UNCHANGED pending
       \/ /\ enabled[who[r]]
          /\ ClearFailures(name[r])
          /\ pending' = Remaining(claim[r])
          /\ AuthGo(r, "mint", who[r], name[r], claim[r])
    /\ UNCHANGED <<registered, secret, enabled, tokens, clock, made, confirmed, crossed>>

MintToken(r) ==
    /\ apc[r] = "mint"
    /\ Mint(who[r], claim[r])
    /\ AuthDone(r)
    /\ UNCHANGED <<registered, secret, enabled, failures, pending, clock, confirmed, wrong, crossed>>

-----------------------------------------------------------------------------
(***************************************************************************)
(* Enrolling in the second factor: setup, enable, disable.                 *)
(***************************************************************************)
\* A set_totp_secret that leaves totp_enabled as it is.
EnabledAfterSetupKept(p) == enabled

EnabledAfterSetup(p) == [enabled EXCEPT ![p] = FALSE]

TotpSetup(p) ==
    /\ SignedIn(p) /\ made.secret < MaxSecrets
    /\ Crossing({p})
    /\ made'    = [made EXCEPT !.secret = @ + 1]
    /\ secret'  = [secret EXCEPT ![p] = made.secret + 1]
    /\ enabled' = EnabledAfterSetup(p)
    /\ UNCHANGED <<registered, tokens, failures, pending, clock, apc, who, name, claim, confirmed, wrong>>

\* The code shown is for the secret just read, and the UPDATE comes after.
StartEnable(r, p) ==
    /\ AuthIdle(r, {p}) /\ SignedIn(p) /\ secret[p] # 0
    /\ confirmed' = confirmed \cup {<<p, secret[p]>>}
    /\ AuthGo(r, "enable", p, Nobody, NoClaim)
    /\ UNCHANGED <<registered, secret, enabled, tokens, failures, pending, clock, made, wrong>>

Enable(r) ==
    /\ apc[r] = "enable"
    /\ enabled' = [enabled EXCEPT ![who[r]] = secret[who[r]] # 0]
    /\ AuthDone(r)
    /\ UNCHANGED <<registered, secret, tokens, failures, pending, clock, made, confirmed, wrong, crossed>>

\* A code is asked for when there is a secret; the UPDATE comes after.
StartDisable(r, p) ==
    /\ AuthIdle(r, {p}) /\ SignedIn(p)
    /\ AuthGo(r, "disable", p, Nobody, NoClaim)
    /\ UNCHANGED <<registered, secret, enabled, tokens, failures, pending, clock, made,
                   confirmed, wrong>>

Disable(r) ==
    /\ apc[r] = "disable"
    /\ secret'  = [secret  EXCEPT ![who[r]] = 0]
    /\ enabled' = [enabled EXCEPT ![who[r]] = FALSE]
    /\ AuthDone(r)
    /\ UNCHANGED <<registered, tokens, failures, pending, clock, made, confirmed, wrong, crossed>>

-----------------------------------------------------------------------------
\* Counters and pending sign-ins live in memory: a restart forgives everyone.
RestartServer ==
    /\ failures' = [n \in LoginName |-> NoEntry]
    /\ pending'  = {}
    /\ apc'      = [r \in AuthRequests |-> "idle"]
    /\ who'      = [r \in AuthRequests |-> Nobody]
    /\ name'     = [r \in AuthRequests |-> Nobody]
    /\ claim'    = [r \in AuthRequests |-> NoClaim]
    /\ wrong'    = [n \in LoginName |-> {}]
    /\ UNCHANGED <<registered, secret, enabled, tokens, clock, made, confirmed, crossed>>

Tick ==
    /\ clock < MaxTime /\ clock' = clock + 1
    /\ UNCHANGED <<registered, secret, enabled, tokens, failures, pending, apc, who, name, claim, made,
                   confirmed, wrong, crossed>>

AccountsNext ==
    \/ \E p \in Person : Register(p) \/ CreateUser(p) \/ CreateToken(p) \/ TotpSetup(p)
    \/ RevokeToken
    \/ \E r \in AuthRequests :
         \/ \E p \in Person : StartEnable(r, p) \/ StartDisable(r, p)
         \/ \E n \in LoginName : StartLogin(r, n) \/ \E s \in pending : StartCode(r, n, s)
         \/ CheckPassword(r) \/ AskSecondFactor(r) \/ CheckCode(r) \/ MintToken(r)
         \/ Enable(r) \/ Disable(r)
    \/ RestartServer \/ Tick

AccountsSpec == AccountsInit /\ [][AccountsNext]_accountsVars

-----------------------------------------------------------------------------
AccountsTypeOK ==
    /\ registered \subseteq Person
    /\ secret \in [Person -> 0 .. MaxSecrets] /\ enabled \in [Person -> BOOLEAN]
    /\ \A t \in tokens : t \in [id : 1 .. made.token, user : registered, from : 0 .. made.pending]
    /\ failures \in [LoginName -> [count : 0 .. LOGIN_MAX_FAILURES, since : 0 .. MaxTime]]
    /\ \A s \in pending : s \in [id : 1 .. made.pending, user : registered, at : 0 .. clock]
    /\ clock \in 0 .. MaxTime
    /\ apc \in [AuthRequests -> {"idle", "password", "factor", "code", "mint", "enable", "disable"}]
    /\ who \in [AuthRequests -> LoginName \cup {Nobody}]
    /\ name \in [AuthRequests -> LoginName \cup {Nobody}]
    /\ claim \in [AuthRequests -> 0 .. made.pending]

\* api.rs, totp_setup: "the account only gains 2FA after a code from the
\* authenticator checks out": whatever was set up again, switched off or
\* revoked meanwhile, a second factor that is on has the secret that the
\* authenticator knows, so it never locks its owner out.
ConfirmedSecondFactor == ~crossed => \A p \in Person : enabled[p] => <<p, secret[p]>> \in confirmed

\* A half-made sign-in is exchanged for one token at most.
OneTokenPerSignIn ==
    ~crossed => \A s, t \in tokens : s.from = t.from /\ s.from # NoClaim => s = t

\* api.rs: "five bad passwords inside ten minutes stops further attempts for
\* the rest of that window".  Failures are counted under the name a request
\* gives, and no others: the limit is one of passwords and codes sent under one
\* name since the last that was right.  Windows begin at a failure, so ten
\* minutes may see the end of one and the whole of the next: nine, never ten.
FewFailuresPerWindow ==
    ~crossed => \A n \in LoginName : Cardinality(Recent(n)) <= 2 * LOGIN_MAX_FAILURES - 1

=============================================================================
