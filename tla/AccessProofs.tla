---------------------------- MODULE AccessProofs ----------------------------
(***************************************************************************)
(* Theorems about accounts and sharing, for any users, vaults, requests,   *)
(* windows and bounds.                                                     *)
(***************************************************************************)
EXTENDS Accounts, Sharing, FiniteSetTheorems, TLAPS

-----------------------------------------------------------------------------
(***************************************************************************)
(* Accounts.                                                               *)
(***************************************************************************)
Steps == {"idle", "password", "factor", "code", "mint", "enable", "disable"}

Typed ==
    /\ AccountsTypeOK
    /\ made \in [token : Nat, pending : Nat, secret : 0 .. MaxSecrets]
    /\ crossed \in BOOLEAN

\* A request past the password is about an account, an idle one about nobody;
\* one that the limiter will hear of has given a name.
BusyOK == \A r \in AuthRequests :
    /\ apc[r] = "idle" <=> who[r] = Nobody
    /\ apc[r] \notin {"idle", "password"} => who[r] \in registered
    /\ apc[r] \in {"password", "code"} => name[r] \in LoginName

\* Until requests cross, each is alone with its account and with its name.
AloneOK == ~crossed => \A q, r \in AuthRequests : q # r =>
    /\ who[q] = who[r] => who[q] = Nobody
    /\ name[q] = name[r] => name[q] = Nobody

\* The secret being switched on is the one a code was shown for.
EnrolOK == ~crossed =>
    /\ \A p \in Person : enabled[p] => <<p, secret[p]>> \in confirmed
    /\ \A r \in AuthRequests :
         apc[r] = "enable" /\ secret[who[r]] # 0 => <<who[r], secret[who[r]]>> \in confirmed

\* A half-made sign-in is one entry of the table, of one account.
PendingOK ==
    /\ \A s, t \in pending : s.id = t.id => s = t
    /\ \A s \in pending, r \in AuthRequests : apc[r] = "code" /\ claim[r] = s.id => s.user = who[r]

\* What a half-made sign-in has become: a code being checked, a token being
\* minted, or a token.  It is never two of these, and a spent one is not pending.
SpentOK == ~crossed =>
    /\ \A t \in tokens : t.from # NoClaim =>
         /\ \A u \in tokens : u.from = t.from => u = t
         /\ \A s \in pending : s.id # t.from
         /\ \A r \in AuthRequests : apc[r] \in {"code", "mint"} => claim[r] # t.from
    /\ \A r \in AuthRequests : apc[r] \in {"code", "mint"} /\ claim[r] # NoClaim =>
         /\ \A q \in AuthRequests : q # r /\ apc[q] \in {"code", "mint"} => claim[q] # claim[r]
         /\ apc[r] = "mint" => \A s \in pending : s.id # claim[r]

AccountsInv == Typed /\ BusyOK /\ AloneOK /\ EnrolOK /\ PendingOK /\ SpentOK

-----------------------------------------------------------------------------
(***************************************************************************)
(* What a step does to each part when it only lets go of things.           *)
(***************************************************************************)
LEMMA GoFacts ==
    ASSUME Typed, NEW r \in AuthRequests, NEW step, NEW p, NEW n, NEW c, AuthGo(r, step, p, n, c)
    PROVE  /\ apc'[r] = step /\ who'[r] = p /\ name'[r] = n /\ claim'[r] = c
           /\ \A q \in AuthRequests \ {r} : apc'[q] = apc[q] /\ who'[q] = who[q] /\ name'[q] = name[q] /\ claim'[q] = claim[q]
  BY DEF AuthGo, Typed, AccountsTypeOK

LEMMA DoneFacts ==
    ASSUME Typed, NEW r \in AuthRequests, AuthDone(r)
    PROVE  /\ apc'[r] = "idle" /\ who'[r] = Nobody /\ name'[r] = Nobody /\ claim'[r] = NoClaim
           /\ \A q \in AuthRequests \ {r} : apc'[q] = apc[q] /\ who'[q] = who[q] /\ name'[q] = name[q] /\ claim'[q] = claim[q]
<1>1. AuthGo(r, "idle", Nobody, Nobody, NoClaim)
  BY DEF AuthDone
<1>2. QED
  BY <1>1, GoFacts

LEMMA GoTyped ==
    ASSUME Typed, NEW r \in AuthRequests, NEW step \in Steps, NEW c,
           NEW p \in LoginName \cup {Nobody}, NEW n \in LoginName \cup {Nobody},
           AuthGo(r, step, p, n, c), made'.pending \in Nat, made.pending =< made'.pending, c \in 0 .. made'.pending
    PROVE  /\ apc' \in [AuthRequests -> Steps] /\ who' \in [AuthRequests -> LoginName \cup {Nobody}]
           /\ name' \in [AuthRequests -> LoginName \cup {Nobody}]
           /\ claim' \in [AuthRequests -> 0 .. made'.pending]
<1>1. /\ apc \in [AuthRequests -> Steps] /\ who \in [AuthRequests -> LoginName \cup {Nobody}]
      /\ name \in [AuthRequests -> LoginName \cup {Nobody}]
  BY DEF Typed, AccountsTypeOK, Steps
<1>2. apc' \in [AuthRequests -> Steps] /\ who' \in [AuthRequests -> LoginName \cup {Nobody}] /\ name' \in [AuthRequests -> LoginName \cup {Nobody}]
  BY <1>1 DEF AuthGo
<1>3. claim \in [AuthRequests -> 0 .. made'.pending]
  BY DEF Typed, AccountsTypeOK
<1>4. claim' \in [AuthRequests -> 0 .. made'.pending]
  BY <1>3 DEF AuthGo
<1>5. QED
  BY <1>2, <1>4

LEMMA DoneTyped ==
    ASSUME Typed, NEW r \in AuthRequests, AuthDone(r), made'.pending \in Nat, made.pending =< made'.pending
    PROVE  /\ apc' \in [AuthRequests -> Steps] /\ who' \in [AuthRequests -> LoginName \cup {Nobody}]
           /\ name' \in [AuthRequests -> LoginName \cup {Nobody}]
           /\ claim' \in [AuthRequests -> 0 .. made'.pending]
<1>1. AuthGo(r, "idle", Nobody, Nobody, NoClaim) /\ NoClaim \in 0 .. made'.pending
  BY DEF AuthDone, NoClaim
<1>2. QED
  BY <1>1, GoTyped DEF Steps

LEMMA BusySheds ==
    ASSUME BusyOK, registered \subseteq registered',
           \A q \in AuthRequests : \/ apc'[q] = apc[q] /\ who'[q] = who[q] /\ name'[q] = name[q]
                                   \/ apc'[q] = "idle" /\ who'[q] = Nobody /\ name'[q] = Nobody
    PROVE  BusyOK'
  BY DEF BusyOK

LEMMA BusyJoins ==
    ASSUME Typed, BusyOK, NEW r \in AuthRequests, NEW step, NEW p \in LoginName, NEW n, NEW c,
           AuthGo(r, step, p, n, c), step # "idle", UNCHANGED registered,
           step # "password" => p \in registered,
           step \in {"password", "code"} => n \in LoginName
    PROVE  BusyOK'
<1>1. p # Nobody
  BY AccountsAssumption
<1>2. QED
  BY <1>1, GoFacts DEF BusyOK

LEMMA AloneSheds ==
    ASSUME AloneOK, crossed => crossed',
           \A q \in AuthRequests : /\ who'[q] = who[q] \/ who'[q] = Nobody
                                   /\ name'[q] = name[q] \/ name'[q] = Nobody
    PROVE  AloneOK'
  BY DEF AloneOK

LEMMA AloneJoins ==
    ASSUME Typed, AloneOK, NEW r \in AuthRequests, NEW step, NEW p, NEW n, NEW c, NEW N,
           AuthGo(r, step, p, n, c), Crossing(N), p \in N, n \in N \cup {Nobody}
    PROVE  AloneOK'
<1>. SUFFICES ASSUME ~crossed' PROVE AloneOK'
  BY DEF AloneOK
<1>1. ~crossed /\ \A q \in AuthRequests : who[q] \notin N /\ name[q] \notin N
  BY DEF Crossing
<1>2. QED
  BY <1>1, GoFacts DEF AloneOK

LEMMA EnrolKeeps ==
    ASSUME EnrolOK, crossed => crossed', UNCHANGED <<secret, enabled>>, confirmed \subseteq confirmed',
           \A q \in AuthRequests : apc'[q] = "enable" => apc[q] = "enable" /\ who'[q] = who[q]
    PROVE  EnrolOK'
  BY DEF EnrolOK

LEMMA PendingShrinks ==
    ASSUME PendingOK, pending' \subseteq pending,
           \A q \in AuthRequests : apc'[q] = "code" => apc[q] = "code" /\ claim'[q] = claim[q] /\ who'[q] = who[q]
    PROVE  PendingOK'
  BY DEF PendingOK

LEMMA SpentSheds ==
    ASSUME SpentOK, crossed => crossed', pending' \subseteq pending,
           \A t \in tokens' : t \in tokens \/ t.from = NoClaim,
           \A q \in AuthRequests : apc'[q] \in {"code", "mint"} =>
               claim'[q] = NoClaim \/ (apc[q] = apc'[q] /\ claim'[q] = claim[q])
    PROVE  SpentOK'
<1>. SUFFICES ASSUME ~crossed' PROVE SpentOK'
  BY DEF SpentOK
<1>1. ~crossed
  OBVIOUS
<1>2. ASSUME NEW t \in tokens', t.from # NoClaim
      PROVE  /\ \A u \in tokens' : u.from = t.from => u = t
             /\ \A s \in pending' : s.id # t.from
             /\ \A r \in AuthRequests : apc'[r] \in {"code", "mint"} => claim'[r] # t.from
  BY <1>1, <1>2 DEF SpentOK
<1>3. ASSUME NEW r \in AuthRequests, apc'[r] \in {"code", "mint"}, claim'[r] # NoClaim
      PROVE  /\ \A q \in AuthRequests : q # r /\ apc'[q] \in {"code", "mint"} => claim'[q] # claim'[r]
             /\ apc'[r] = "mint" => \A s \in pending' : s.id # claim'[r]
  <2>1. apc[r] = apc'[r] /\ claim[r] = claim'[r]
    BY <1>3
  <2>2. QED
    BY <1>1, <1>3, <2>1 DEF SpentOK
<1>4. QED
  BY <1>2, <1>3 DEF SpentOK

\* The tables of tokens and of pending sign-ins may only gain typed rows.
LEMMA RowsTyped ==
    ASSUME Typed, registered \subseteq registered', made' \in [token : Nat, pending : Nat, secret : 0 .. MaxSecrets],
           made.token =< made'.token, made.pending =< made'.pending
    PROVE  /\ \A t \in tokens : t \in [id : 1 .. made'.token, user : registered', from : 0 .. made'.pending]
           /\ \A s \in pending : s \in [id : 1 .. made'.pending, user : registered', at : 0 .. clock]
  BY DEF Typed, AccountsTypeOK

LEMMA MintTyped ==
    ASSUME Typed, registered \subseteq registered', NEW p \in registered', NEW c \in 0 .. made.pending, Mint(p, c)
    PROVE  /\ made' \in [token : Nat, pending : Nat, secret : 0 .. MaxSecrets]
           /\ made'.pending = made.pending /\ made.token =< made'.token
           /\ \A t \in tokens' : t \in [id : 1 .. made'.token, user : registered', from : 0 .. made'.pending]
           /\ tokens' = tokens \cup {[id |-> made.token + 1, user |-> p, from |-> c]}
<1>1. made' = [made EXCEPT !.token = @ + 1]
  BY DEF Mint
<1>2. /\ made' \in [token : Nat, pending : Nat, secret : 0 .. MaxSecrets]
      /\ made'.token = made.token + 1 /\ made'.pending = made.pending /\ made.token \in Nat
  BY <1>1 DEF Typed
<1>3. tokens' = tokens \cup {[id |-> made.token + 1, user |-> p, from |-> c]}
  BY DEF Mint
<1>4. [id |-> made.token + 1, user |-> p, from |-> c]
        \in [id : 1 .. made'.token, user : registered', from : 0 .. made'.pending]
  BY <1>2
<1>5. \A t \in tokens : t \in [id : 1 .. made'.token, user : registered', from : 0 .. made'.pending]
  BY <1>2, RowsTyped
<1>6. QED
  BY <1>2, <1>3, <1>4, <1>5

LEMMA FailuresTyped ==
    ASSUME Typed, NEW n \in LoginName, RecordFailure(n) \/ ClearFailures(n)
    PROVE  failures' \in [LoginName -> [count : 0 .. LOGIN_MAX_FAILURES, since : 0 .. MaxTime]]
<1>. DEFINE Entry == [count : 0 .. LOGIN_MAX_FAILURES, since : 0 .. MaxTime]
<1>1. failures \in [LoginName -> Entry] /\ clock \in 0 .. MaxTime
  BY DEF Typed, AccountsTypeOK
<1>2. NoEntry \in Entry
  <2>1. 0 \in 0 .. LOGIN_MAX_FAILURES /\ 0 \in 0 .. MaxTime
    BY AccountsAssumption
  <2>2. QED
    BY <2>1 DEF NoEntry
<1>3. AfterFailure(n) \in Entry
  <2>1. [count |-> 1, since |-> clock] \in Entry
    BY <1>1, AccountsAssumption
  <2>2. ASSUME failures[n].count < LOGIN_MAX_FAILURES
        PROVE  [failures[n] EXCEPT !.count = @ + 1] \in Entry
    <3>1. failures[n] \in Entry
      BY <1>1
    <3>2. failures[n].count + 1 \in 0 .. LOGIN_MAX_FAILURES
      BY <2>2, <3>1, AccountsAssumption
    <3>3. QED
      BY <3>1, <3>2
  <2>3. failures[n].count \in Nat /\ LOGIN_MAX_FAILURES \in Nat
    BY <1>1, AccountsAssumption
  <2>4. QED
    BY <2>1, <2>2, <2>3 DEF AfterFailure
<1>4. QED
  BY <1>1, <1>2, <1>3 DEF RecordFailure, ClearFailures

-----------------------------------------------------------------------------
LEMMA AccountsInitInv == AccountsInit => AccountsInv
<1>. SUFFICES ASSUME AccountsInit PROVE AccountsInv
  OBVIOUS
<1>1. /\ registered = {} /\ tokens = {} /\ pending = {} /\ clock = 0 /\ crossed = FALSE
      /\ made = [token |-> 0, pending |-> 0, secret |-> 0] /\ NoClaim = 0
  BY DEF AccountsInit, NoClaim
<1>2. /\ \A r \in AuthRequests : apc[r] = "idle" /\ who[r] = Nobody /\ name[r] = Nobody
      /\ \A p \in Person : enabled[p] = FALSE
  BY DEF AccountsInit
<1>3. Typed
  <2>1. secret \in [Person -> 0 .. MaxSecrets] /\ enabled \in [Person -> BOOLEAN]
    <3>1. 0 \in 0 .. MaxSecrets
      BY AccountsAssumption
    <3>2. QED
      BY <3>1 DEF AccountsInit
  <2>2. failures \in [LoginName -> [count : 0 .. LOGIN_MAX_FAILURES, since : 0 .. MaxTime]]
    <3>1. NoEntry \in [count : 0 .. LOGIN_MAX_FAILURES, since : 0 .. MaxTime]
      BY AccountsAssumption DEF NoEntry
    <3>2. QED
      BY <3>1 DEF AccountsInit
  <2>3. apc \in [AuthRequests -> {"idle", "password", "factor", "code", "mint", "enable", "disable"}]
    BY DEF AccountsInit
  <2>4. {who, name} \subseteq [AuthRequests -> LoginName \cup {Nobody}]
    BY DEF AccountsInit
  <2>5. made.pending = 0 /\ made \in [token : Nat, pending : Nat, secret : 0 .. MaxSecrets]
    BY <1>1, AccountsAssumption
  <2>6. claim \in [AuthRequests -> 0 .. made.pending]
    BY <1>1, <2>5 DEF AccountsInit
  <2>7. clock \in 0 .. MaxTime
    BY <1>1, AccountsAssumption
  <2>8. QED
    BY <1>1, <2>1, <2>2, <2>3, <2>4, <2>5, <2>6, <2>7 DEF Typed, AccountsTypeOK
<1>4. BusyOK /\ AloneOK /\ EnrolOK
  BY <1>2 DEF BusyOK, AloneOK, EnrolOK
<1>5. PendingOK /\ SpentOK
  BY <1>1, <1>2 DEF PendingOK, SpentOK
<1>6. QED
  BY <1>3, <1>4, <1>5 DEF AccountsInv

LEMMA RegisterInv ==
    ASSUME AccountsInv, NEW p \in Person, Register(p) \/ CreateToken(p)
    PROVE  AccountsInv'
<1>1. /\ p \in registered' /\ registered \subseteq registered' /\ registered' \subseteq Person /\ Mint(p, NoClaim)
      /\ UNCHANGED <<secret, enabled, failures, pending, clock, apc, who, name, claim, confirmed, crossed>>
  BY DEF Register, CreateToken, AccountsInv, Typed, AccountsTypeOK
<1>2. Typed /\ NoClaim \in 0 .. made.pending
  BY DEF AccountsInv, Typed, NoClaim
<1>3. /\ made' \in [token : Nat, pending : Nat, secret : 0 .. MaxSecrets]
      /\ made'.pending = made.pending /\ made.token =< made'.token
      /\ \A t \in tokens' : t \in [id : 1 .. made'.token, user : registered', from : 0 .. made'.pending]
      /\ tokens' = tokens \cup {[id |-> made.token + 1, user |-> p, from |-> NoClaim]}
  BY <1>1, <1>2, MintTyped
<1>4. Typed'
  <2>1. \A s \in pending : s \in [id : 1 .. made'.pending, user : registered', at : 0 .. clock]
    BY <1>1, <1>2, <1>3, RowsTyped DEF Typed
  <2>2. QED
    BY <1>1, <1>2, <1>3, <2>1 DEF Typed, AccountsTypeOK
<1>5. BusyOK' /\ AloneOK'
  BY <1>1, BusySheds, AloneSheds DEF AccountsInv
<1>6. EnrolOK' /\ PendingOK'
  BY <1>1, EnrolKeeps, PendingShrinks DEF AccountsInv
<1>7. SpentOK'
  <2>1. \A t \in tokens' : t \in tokens \/ t.from = NoClaim
    BY <1>3
  <2>2. QED
    BY <1>1, <2>1, SpentSheds DEF AccountsInv
<1>8. QED
  BY <1>4, <1>5, <1>6, <1>7 DEF AccountsInv

LEMMA CreateUserInv ==
    ASSUME AccountsInv, NEW p \in Person, CreateUser(p)
    PROVE  AccountsInv'
<1>1. /\ registered' = registered \cup {p}
      /\ UNCHANGED <<secret, enabled, tokens, failures, pending, clock, apc, who, name, claim, made, confirmed, crossed>>
  BY DEF CreateUser
<1>2. Typed'
  BY <1>1, RowsTyped DEF AccountsInv, Typed, AccountsTypeOK
<1>3. BusyOK' /\ AloneOK'
  BY <1>1, BusySheds, AloneSheds DEF AccountsInv
<1>4. EnrolOK' /\ PendingOK' /\ SpentOK'
  BY <1>1, EnrolKeeps, PendingShrinks, SpentSheds DEF AccountsInv
<1>5. QED
  BY <1>2, <1>3, <1>4 DEF AccountsInv

LEMMA RevokeTokenInv ==
    ASSUME AccountsInv, RevokeToken
    PROVE  AccountsInv'
<1>1. /\ tokens' \subseteq tokens
      /\ UNCHANGED <<registered, secret, enabled, failures, pending, clock, apc, who, name, claim, made,
                     confirmed, crossed>>
  BY DEF RevokeToken
<1>2. Typed'
  BY <1>1 DEF AccountsInv, Typed, AccountsTypeOK
<1>3. BusyOK' /\ AloneOK'
  BY <1>1, BusySheds, AloneSheds DEF AccountsInv
<1>4. EnrolOK' /\ PendingOK' /\ SpentOK'
  BY <1>1, EnrolKeeps, PendingShrinks, SpentSheds DEF AccountsInv
<1>5. QED
  BY <1>2, <1>3, <1>4 DEF AccountsInv

\* Begin a request about account p: nothing else changes but what the limiter,
\* the table of pending sign-ins or the authenticator hold.
LEMMA JoinTyped ==
    ASSUME Typed, NEW r \in AuthRequests, NEW step \in Steps, NEW c \in 0 .. made.pending, NEW N,
           NEW p \in LoginName, NEW n \in LoginName \cup {Nobody},
           AuthGo(r, step, p, n, c), Crossing(N) \/ UNCHANGED crossed, pending' \subseteq pending,
           failures' \in [LoginName -> [count : 0 .. LOGIN_MAX_FAILURES, since : 0 .. MaxTime]],
           UNCHANGED <<registered, secret, enabled, tokens, clock, made>>
    PROVE  Typed'
<1>1. crossed' \in BOOLEAN
  BY DEF Crossing, Typed
<1>2. p \in LoginName \cup {Nobody} /\ made'.pending \in Nat /\ made.pending =< made'.pending
      /\ c \in 0 .. made'.pending
  BY DEF Typed
<1>3. /\ apc' \in [AuthRequests -> Steps] /\ who' \in [AuthRequests -> LoginName \cup {Nobody}]
      /\ name' \in [AuthRequests -> LoginName \cup {Nobody}]
      /\ claim' \in [AuthRequests -> 0 .. made'.pending]
  BY <1>2, GoTyped
<1>4. QED
  BY <1>1, <1>3 DEF Typed, AccountsTypeOK, Steps

LEMMA StartLoginInv ==
    ASSUME AccountsInv, NEW r \in AuthRequests, NEW n \in LoginName, StartLogin(r, n)
    PROVE  AccountsInv'
<1>1. /\ AuthGo(r, "password", n, n, NoClaim) /\ Crossing({n})
      /\ UNCHANGED <<registered, secret, enabled, tokens, failures, pending, clock, made, confirmed>>
  BY DEF StartLogin, AuthIdle
<1>2. Typed /\ "password" \in Steps /\ NoClaim \in 0 .. made.pending /\ (crossed => crossed')
  BY <1>1 DEF AccountsInv, Steps, Typed, NoClaim, Crossing
<1>3. Typed'
  BY <1>1, <1>2, JoinTyped DEF Typed, AccountsTypeOK
<1>4. BusyOK' /\ AloneOK'
  BY <1>1, <1>2, BusyJoins, AloneJoins DEF AccountsInv
<1>5. \A q \in AuthRequests : apc'[q] # "password" =>
        apc'[q] = apc[q] /\ who'[q] = who[q] /\ name'[q] = name[q] /\ claim'[q] = claim[q]
  BY <1>1, <1>2, GoFacts
<1>6. EnrolOK' /\ PendingOK' /\ SpentOK'
  BY <1>1, <1>2, <1>5, EnrolKeeps, PendingShrinks, SpentSheds DEF AccountsInv
<1>7. QED
  BY <1>3, <1>4, <1>6 DEF AccountsInv

LEMMA StartDisableInv ==
    ASSUME AccountsInv, NEW r \in AuthRequests, NEW p \in Person, StartDisable(r, p)
    PROVE  AccountsInv'
<1>1. /\ AuthGo(r, "disable", p, Nobody, NoClaim) /\ Crossing({p}) /\ SignedIn(p)
      /\ UNCHANGED <<registered, secret, enabled, tokens, failures, pending, clock, made, confirmed>>
  BY DEF StartDisable, AuthIdle
<1>2. Typed /\ "disable" \in Steps /\ NoClaim \in 0 .. made.pending /\ (crossed => crossed')
      /\ p \in LoginName
  BY <1>1, AccountsAssumption DEF AccountsInv, Steps, Typed, NoClaim, Crossing
<1>3. Typed'
  BY <1>1, <1>2, JoinTyped DEF Typed, AccountsTypeOK
<1>4. p \in registered
  BY <1>1 DEF SignedIn, AccountsInv, Typed, AccountsTypeOK
<1>5. BusyOK' /\ AloneOK'
  BY <1>1, <1>2, <1>4, BusyJoins, AloneJoins DEF AccountsInv
<1>6. \A q \in AuthRequests : apc'[q] # "disable" =>
        apc'[q] = apc[q] /\ who'[q] = who[q] /\ name'[q] = name[q] /\ claim'[q] = claim[q]
  BY <1>1, <1>2, GoFacts
<1>7. EnrolOK' /\ PendingOK' /\ SpentOK'
  BY <1>1, <1>2, <1>6, EnrolKeeps, PendingShrinks, SpentSheds DEF AccountsInv
<1>8. QED
  BY <1>3, <1>5, <1>7 DEF AccountsInv

LEMMA StartEnableInv ==
    ASSUME AccountsInv, NEW r \in AuthRequests, NEW p \in Person, StartEnable(r, p)
    PROVE  AccountsInv'
<1>1. /\ AuthGo(r, "enable", p, Nobody, NoClaim) /\ Crossing({p}) /\ SignedIn(p)
      /\ confirmed' = confirmed \cup {<<p, secret[p]>>}
      /\ UNCHANGED <<registered, secret, enabled, tokens, failures, pending, clock, made>>
  BY DEF StartEnable, AuthIdle
<1>2. Typed /\ "enable" \in Steps /\ NoClaim \in 0 .. made.pending /\ (crossed => crossed')
      /\ p \in LoginName
  BY <1>1, AccountsAssumption DEF AccountsInv, Steps, Typed, NoClaim, Crossing
<1>3. Typed'
  BY <1>1, <1>2, JoinTyped DEF Typed, AccountsTypeOK
<1>4. p \in registered
  BY <1>1 DEF SignedIn, AccountsInv, Typed, AccountsTypeOK
<1>5. BusyOK' /\ AloneOK'
  BY <1>1, <1>2, <1>4, BusyJoins, AloneJoins DEF AccountsInv
<1>6. /\ \A q \in AuthRequests : q # r => apc'[q] = apc[q] /\ who'[q] = who[q] /\ name'[q] = name[q] /\ claim'[q] = claim[q]
      /\ apc'[r] = "enable" /\ who'[r] = p
  BY <1>1, <1>2, GoFacts
<1>7. EnrolOK'
  BY <1>1, <1>2, <1>6 DEF AccountsInv, EnrolOK
<1>8. PendingOK' /\ SpentOK'
  BY <1>1, <1>2, <1>6, PendingShrinks, SpentSheds DEF AccountsInv
<1>9. QED
  BY <1>3, <1>5, <1>7, <1>8 DEF AccountsInv

\* The request ends.
LEMMA DoneInv ==
    ASSUME AccountsInv, NEW r \in AuthRequests, AuthDone(r), pending' \subseteq pending,
           failures' \in [LoginName -> [count : 0 .. LOGIN_MAX_FAILURES, since : 0 .. MaxTime]],
           UNCHANGED <<registered, secret, enabled, tokens, clock, made, confirmed, crossed>>
    PROVE  AccountsInv'
<1>1. Typed
  BY DEF AccountsInv
<1>2. /\ apc' \in [AuthRequests -> Steps] /\ who' \in [AuthRequests -> LoginName \cup {Nobody}]
      /\ name' \in [AuthRequests -> LoginName \cup {Nobody}]
      /\ claim' \in [AuthRequests -> 0 .. made'.pending]
  BY <1>1, DoneTyped DEF Typed
<1>3. Typed'
  BY <1>1, <1>2 DEF Typed, AccountsTypeOK, Steps
<1>4. \A q \in AuthRequests :
        \/ apc'[q] = "idle" /\ who'[q] = Nobody /\ name'[q] = Nobody
        \/ apc'[q] = apc[q] /\ who'[q] = who[q] /\ name'[q] = name[q] /\ claim'[q] = claim[q]
  BY <1>1, DoneFacts
<1>5. BusyOK' /\ AloneOK'
  BY <1>4, BusySheds, AloneSheds DEF AccountsInv
<1>6. EnrolOK' /\ PendingOK' /\ SpentOK'
  BY <1>4, EnrolKeeps, PendingShrinks, SpentSheds DEF AccountsInv
<1>7. QED
  BY <1>3, <1>5, <1>6 DEF AccountsInv

\* The request goes on, with no half-made sign-in in hand.
LEMMA OnwardInv ==
    ASSUME AccountsInv, NEW r \in AuthRequests, NEW step \in {"factor", "mint"},
           who[r] \in registered, AuthGo(r, step, who[r], name[r], NoClaim),
           failures' \in [LoginName -> [count : 0 .. LOGIN_MAX_FAILURES, since : 0 .. MaxTime]],
           UNCHANGED <<registered, secret, enabled, tokens, pending, clock, made, confirmed, crossed>>
    PROVE  AccountsInv'
<1>1. Typed /\ step \in Steps /\ NoClaim \in 0 .. made.pending /\ who[r] \in LoginName
      /\ name[r] \in LoginName \cup {Nobody}
  BY AccountsAssumption DEF AccountsInv, Steps, Typed, AccountsTypeOK, NoClaim
<1>2. Typed'
  BY <1>1, JoinTyped
<1>3. BusyOK'
  BY <1>1, BusyJoins DEF AccountsInv
<1>4. /\ \A q \in AuthRequests : q # r => apc'[q] = apc[q] /\ who'[q] = who[q] /\ name'[q] = name[q] /\ claim'[q] = claim[q]
      /\ apc'[r] = step /\ who'[r] = who[r] /\ name'[r] = name[r] /\ claim'[r] = NoClaim
  BY <1>1, GoFacts
<1>5. AloneOK' /\ EnrolOK' /\ PendingOK' /\ SpentOK'
  BY <1>4, AloneSheds, EnrolKeeps, PendingShrinks, SpentSheds DEF AccountsInv
<1>6. QED
  BY <1>2, <1>3, <1>5 DEF AccountsInv

LEMMA CheckPasswordInv ==
    ASSUME AccountsInv, NEW r \in AuthRequests, CheckPassword(r)
    PROVE  AccountsInv'
<1>1. /\ apc[r] = "password"
      /\ \/ who[r] \in registered /\ ClearFailures(name[r]) /\ AuthGo(r, "factor", who[r], name[r], NoClaim)
         \/ RecordFailure(name[r]) /\ AuthDone(r)
      /\ UNCHANGED <<registered, secret, enabled, tokens, pending, clock, made, confirmed, crossed>>
  BY DEF CheckPassword
<1>2. Typed /\ name[r] \in LoginName
  BY <1>1 DEF AccountsInv, BusyOK
<1>3. failures' \in [LoginName -> [count : 0 .. LOGIN_MAX_FAILURES, since : 0 .. MaxTime]]
  BY <1>1, <1>2, FailuresTyped
<1>4. QED
  BY <1>1, <1>3, DoneInv, OnwardInv

\* A second factor that is on makes a pending sign-in with a number of its own.
LEMMA AskSecondFactorInv ==
    ASSUME AccountsInv, NEW r \in AuthRequests, AskSecondFactor(r)
    PROVE  AccountsInv'
<1>1. apc[r] = "factor" /\ UNCHANGED <<registered, secret, enabled, tokens, failures, clock, confirmed, crossed>>
  BY DEF AskSecondFactor
<1>2. Typed /\ who[r] \in registered
  BY <1>1 DEF AccountsInv, BusyOK
<1>3. failures' \in [LoginName -> [count : 0 .. LOGIN_MAX_FAILURES, since : 0 .. MaxTime]]
  BY <1>1, <1>2 DEF Typed, AccountsTypeOK
<1>4. CASE ~enabled[who[r]]
  BY <1>1, <1>2, <1>3, <1>4, OnwardInv DEF AskSecondFactor
<1>5. CASE enabled[who[r]]
  <2>. DEFINE new == [id |-> made.pending + 1, user |-> who[r], at |-> clock]
  <2>1. made' = [made EXCEPT !.pending = @ + 1] /\ pending' = pending \cup {new} /\ AuthDone(r)
    BY <1>5 DEF AskSecondFactor
  <2>2. /\ made' \in [token : Nat, pending : Nat, secret : 0 .. MaxSecrets]
        /\ made'.token = made.token /\ made'.pending = made.pending + 1 /\ made.pending \in Nat
    BY <1>2, <2>1 DEF Typed
  <2>3. Typed'
    <3>1. /\ apc' \in [AuthRequests -> Steps] /\ who' \in [AuthRequests -> LoginName \cup {Nobody}]
          /\ name' \in [AuthRequests -> LoginName \cup {Nobody}]
          /\ claim' \in [AuthRequests -> 0 .. made'.pending]
      BY <1>2, <2>1, <2>2, DoneTyped
    <3>2. /\ \A t \in tokens : t \in [id : 1 .. made'.token, user : registered', from : 0 .. made'.pending]
          /\ \A s \in pending : s \in [id : 1 .. made'.pending, user : registered', at : 0 .. clock]
      <4>1. made.token =< made'.token /\ made.pending =< made'.pending
        BY <1>2, <2>2 DEF Typed
      <4>2. QED
        BY <1>1, <1>2, <2>2, <4>1, RowsTyped
    <3>3. new \in [id : 1 .. made'.pending, user : registered', at : 0 .. clock]
      BY <1>1, <1>2, <2>2, AccountsAssumption DEF Typed, AccountsTypeOK
    <3>4. QED
      BY <1>1, <1>2, <2>1, <2>2, <3>1, <3>2, <3>3 DEF Typed, AccountsTypeOK, Steps
  <2>4. \A q \in AuthRequests :
          \/ apc'[q] = "idle" /\ who'[q] = Nobody /\ name'[q] = Nobody
          \/ apc'[q] = apc[q] /\ who'[q] = who[q] /\ name'[q] = name[q] /\ claim'[q] = claim[q]
    BY <1>2, <2>1, DoneFacts
  <2>5. BusyOK' /\ AloneOK' /\ EnrolOK'
    BY <1>1, <2>4, BusySheds, AloneSheds, EnrolKeeps DEF AccountsInv
  <2>6. /\ \A t \in tokens : t.from # new.id
        /\ \A s \in pending : s.id # new.id
        /\ \A q \in AuthRequests : claim[q] # new.id
    BY <1>2, <2>2 DEF Typed, AccountsTypeOK
  <2>7. PendingOK'
    BY <2>1, <2>4, <2>6 DEF AccountsInv, PendingOK
  <2>8. SpentOK'
    <3>. SUFFICES ASSUME ~crossed PROVE SpentOK'
      BY <1>1 DEF SpentOK
    <3>1. ASSUME NEW t \in tokens, t.from # NoClaim
          PROVE  /\ \A u \in tokens : u.from = t.from => u = t
                 /\ \A s \in pending' : s.id # t.from
                 /\ \A q \in AuthRequests : apc'[q] \in {"code", "mint"} => claim'[q] # t.from
      BY <2>1, <2>4, <2>6, <3>1 DEF AccountsInv, SpentOK
    <3>2. ASSUME NEW p \in AuthRequests, apc'[p] \in {"code", "mint"}, claim'[p] # NoClaim
          PROVE  /\ \A q \in AuthRequests : q # p /\ apc'[q] \in {"code", "mint"} => claim'[q] # claim'[p]
                 /\ apc'[p] = "mint" => \A s \in pending' : s.id # claim'[p]
      <4>1. apc[p] = apc'[p] /\ claim[p] = claim'[p]
        BY <2>4, <3>2
      <4>2. QED
        BY <2>1, <2>4, <2>6, <3>2, <4>1 DEF AccountsInv, SpentOK
    <3>3. QED
      BY <1>1, <3>1, <3>2 DEF SpentOK
  <2>9. QED
    BY <2>3, <2>5, <2>7, <2>8 DEF AccountsInv
<1>6. QED
  BY <1>4, <1>5

\* The account of the pending sign-in is the request's, and no other request has
\* that account while nothing has crossed, so no other has that sign-in.
LEMMA StartCodeInv ==
    ASSUME AccountsInv, NEW r \in AuthRequests, NEW n \in LoginName, NEW s \in pending, StartCode(r, n, s)
    PROVE  AccountsInv'
<1>1. /\ apc[r] = "idle" /\ Crossing({n, s.user})
      /\ UNCHANGED <<registered, secret, enabled, tokens, failures, clock, made, confirmed>>
  BY DEF StartCode, AuthIdle
<1>2. /\ Typed /\ s.user \in registered /\ s.user \in LoginName /\ s.id \in 1 .. made.pending
      /\ (crossed => crossed') /\ crossed' \in BOOLEAN
  BY <1>1, AccountsAssumption DEF AccountsInv, Typed, AccountsTypeOK, Crossing
<1>3. CASE clock - s.at > PENDING_LIFE
  <2>1. pending' = pending \ {s} /\ UNCHANGED <<apc, who, name, claim>>
    BY <1>3 DEF StartCode
  <2>2. Typed'
    BY <1>1, <1>2, <2>1 DEF Typed, AccountsTypeOK
  <2>3. BusyOK' /\ AloneOK' /\ EnrolOK' /\ PendingOK' /\ SpentOK'
    BY <1>1, <1>2, <2>1, BusySheds, AloneSheds, EnrolKeeps, PendingShrinks, SpentSheds DEF AccountsInv
  <2>4. QED
    BY <2>2, <2>3 DEF AccountsInv
<1>4. CASE ~(clock - s.at > PENDING_LIFE)
  <2>1. AuthGo(r, "code", s.user, n, s.id) /\ UNCHANGED pending
    BY <1>4 DEF StartCode
  <2>2. Typed'
    <3>1. "code" \in Steps /\ s.id \in 0 .. made.pending
      BY <1>2 DEF Steps
    <3>2. QED
      BY <1>1, <1>2, <2>1, <3>1, JoinTyped DEF Typed, AccountsTypeOK
  <2>3. BusyOK' /\ AloneOK'
    BY <1>1, <1>2, <2>1, BusyJoins, AloneJoins DEF AccountsInv
  <2>4. /\ \A q \in AuthRequests : q # r => apc'[q] = apc[q] /\ who'[q] = who[q] /\ name'[q] = name[q] /\ claim'[q] = claim[q]
        /\ apc'[r] = "code" /\ who'[r] = s.user /\ name'[r] = n /\ claim'[r] = s.id
    BY <1>2, <2>1, GoFacts
  <2>5. EnrolOK'
    BY <1>1, <1>2, <2>4, EnrolKeeps DEF AccountsInv
  <2>6. PendingOK'
    BY <2>1, <2>4 DEF AccountsInv, PendingOK
  <2>7. SpentOK'
    <3>. SUFFICES ASSUME ~crossed' PROVE SpentOK'
      BY DEF SpentOK
    <3>1. ~crossed /\ \A q \in AuthRequests : who[q] # s.user
      BY <1>1 DEF Crossing
    <3>2. /\ \A t \in tokens : t.from # NoClaim => t.from # s.id
          /\ \A q \in AuthRequests : apc[q] \in {"code", "mint"} => claim[q] # s.id
      <4>1. \A q \in AuthRequests : apc[q] = "code" => claim[q] # s.id
        BY <3>1 DEF AccountsInv, PendingOK
      <4>2. \A q \in AuthRequests : apc[q] = "mint" => claim[q] # s.id
        BY <1>2, <3>1 DEF AccountsInv, SpentOK, NoClaim
      <4>3. QED
        BY <3>1, <4>1, <4>2 DEF AccountsInv, SpentOK
    <3>3. ASSUME NEW t \in tokens, t.from # NoClaim
          PROVE  /\ \A u \in tokens : u.from = t.from => u = t
                 /\ \A v \in pending : v.id # t.from
                 /\ \A q \in AuthRequests : apc'[q] \in {"code", "mint"} => claim'[q] # t.from
      BY <2>4, <3>1, <3>2, <3>3 DEF AccountsInv, SpentOK
    <3>4. ASSUME NEW p \in AuthRequests, apc'[p] \in {"code", "mint"}, claim'[p] # NoClaim
          PROVE  /\ \A q \in AuthRequests : q # p /\ apc'[q] \in {"code", "mint"} => claim'[q] # claim'[p]
                 /\ apc'[p] = "mint" => \A v \in pending : v.id # claim'[p]
      <4>1. CASE p = r
        BY <2>4, <3>2, <4>1
      <4>2. CASE p # r
        BY <2>4, <3>1, <3>2, <3>4, <4>2 DEF AccountsInv, SpentOK
      <4>3. QED
        BY <4>1, <4>2
    <3>5. QED
      BY <1>1, <2>1, <3>3, <3>4 DEF SpentOK
  <2>8. QED
    BY <2>2, <2>3, <2>5, <2>6, <2>7 DEF AccountsInv
<1>5. QED
  BY <1>3, <1>4

\* A right code takes the pending sign-in away before its token is minted.
LEMMA CheckCodeInv ==
    ASSUME AccountsInv, NEW r \in AuthRequests, CheckCode(r)
    PROVE  AccountsInv'
<1>1. /\ apc[r] = "code"
      /\ UNCHANGED <<registered, secret, enabled, tokens, clock, made, confirmed, crossed>>
  BY DEF CheckCode
<1>2. Typed /\ who[r] \in registered /\ {who[r], name[r]} \subseteq LoginName /\ claim[r] \in 0 .. made.pending
  BY <1>1, AccountsAssumption DEF AccountsInv, Typed, AccountsTypeOK, BusyOK
<1>3. failures \in [LoginName -> [count : 0 .. LOGIN_MAX_FAILURES, since : 0 .. MaxTime]]
  BY <1>2 DEF Typed, AccountsTypeOK
<1>4. CASE AuthDone(r) /\ UNCHANGED <<failures, pending>>
  BY <1>1, <1>3, <1>4, DoneInv
<1>5. CASE RecordFailure(name[r]) /\ AuthDone(r) /\ UNCHANGED pending
  BY <1>1, <1>2, <1>5, FailuresTyped, DoneInv
<1>6. CASE /\ ClearFailures(name[r])
           /\ pending' = Remaining(claim[r])
           /\ AuthGo(r, "mint", who[r], name[r], claim[r])
  <2>1. pending' \subseteq pending /\ \A s \in pending' : s.id # claim[r]
    BY <1>6 DEF Remaining, Spent
  <2>2. Typed'
    BY <1>1, <1>2, <1>6, <2>1, FailuresTyped, JoinTyped DEF Steps
  <2>3. BusyOK'
    BY <1>1, <1>2, <1>6, BusyJoins DEF AccountsInv
  <2>4. /\ \A q \in AuthRequests : q # r => apc'[q] = apc[q]
        /\ apc'[r] = "mint" /\ \A q \in AuthRequests : who'[q] = who[q] /\ name'[q] = name[q] /\ claim'[q] = claim[q]
    BY <1>2, <1>6, GoFacts
  <2>5. AloneOK' /\ EnrolOK' /\ PendingOK'
    BY <1>1, <2>1, <2>4, AloneSheds, EnrolKeeps, PendingShrinks DEF AccountsInv
  <2>6. SpentOK'
    BY <1>1, <2>1, <2>4 DEF AccountsInv, SpentOK
  <2>7. QED
    BY <2>2, <2>3, <2>5, <2>6 DEF AccountsInv
<1>7. QED
  BY <1>4, <1>5, <1>6 DEF CheckCode

LEMMA MintTokenInv ==
    ASSUME AccountsInv, NEW r \in AuthRequests, MintToken(r)
    PROVE  AccountsInv'
<1>1. /\ apc[r] = "mint" /\ Mint(who[r], claim[r]) /\ AuthDone(r)
      /\ UNCHANGED <<registered, secret, enabled, failures, pending, clock, confirmed, crossed>>
  BY DEF MintToken
<1>2. Typed /\ who[r] \in registered' /\ claim[r] \in 0 .. made.pending
  BY <1>1 DEF AccountsInv, Typed, AccountsTypeOK, BusyOK
<1>. DEFINE new == [id |-> made.token + 1, user |-> who[r], from |-> claim[r]]
<1>3. /\ made' \in [token : Nat, pending : Nat, secret : 0 .. MaxSecrets]
      /\ made'.pending = made.pending /\ made.token =< made'.token
      /\ \A t \in tokens' : t \in [id : 1 .. made'.token, user : registered', from : 0 .. made'.pending]
      /\ tokens' = tokens \cup {new}
  BY <1>1, <1>2, MintTyped
<1>4. Typed'
  <2>1. /\ apc' \in [AuthRequests -> Steps] /\ who' \in [AuthRequests -> LoginName \cup {Nobody}]
        /\ name' \in [AuthRequests -> LoginName \cup {Nobody}]
        /\ claim' \in [AuthRequests -> 0 .. made'.pending]
    BY <1>1, <1>2, <1>3, DoneTyped DEF Typed
  <2>2. QED
    BY <1>1, <1>2, <1>3, <2>1 DEF Typed, AccountsTypeOK, Steps
<1>5. \A q \in AuthRequests :
        \/ apc'[q] = "idle" /\ who'[q] = Nobody /\ name'[q] = Nobody /\ q = r
        \/ apc'[q] = apc[q] /\ who'[q] = who[q] /\ name'[q] = name[q] /\ claim'[q] = claim[q] /\ q # r
  BY <1>1, <1>2, DoneFacts
<1>6. BusyOK' /\ AloneOK' /\ EnrolOK' /\ PendingOK'
  BY <1>1, <1>5, BusySheds, AloneSheds, EnrolKeeps, PendingShrinks DEF AccountsInv
<1>7. SpentOK'
  <2>1. CASE claim[r] = NoClaim
    BY <1>1, <1>3, <1>5, <2>1, SpentSheds DEF AccountsInv
  <2>2. CASE claim[r] # NoClaim
    <3>. SUFFICES ASSUME ~crossed PROVE SpentOK'
      BY <1>1 DEF SpentOK
    <3>1. /\ \A t \in tokens : t.from # claim[r]
          /\ \A s \in pending : s.id # claim[r]
          /\ \A q \in AuthRequests : q # r /\ apc[q] \in {"code", "mint"} => claim[q] # claim[r]
      BY <1>1, <2>2 DEF AccountsInv, SpentOK
    <3>2. ASSUME NEW t \in tokens', t.from # NoClaim
          PROVE  /\ \A u \in tokens' : u.from = t.from => u = t
                 /\ \A s \in pending : s.id # t.from
                 /\ \A q \in AuthRequests : apc'[q] \in {"code", "mint"} => claim'[q] # t.from
      <4>1. CASE t = new
        BY <1>3, <1>5, <3>1, <4>1
      <4>2. CASE t \in tokens
        BY <1>3, <1>5, <3>1, <3>2, <4>2 DEF AccountsInv, SpentOK
      <4>3. QED
        BY <1>3, <4>1, <4>2
    <3>3. ASSUME NEW p \in AuthRequests, apc'[p] \in {"code", "mint"}, claim'[p] # NoClaim
          PROVE  /\ \A q \in AuthRequests : q # p /\ apc'[q] \in {"code", "mint"} => claim'[q] # claim'[p]
                 /\ apc'[p] = "mint" => \A s \in pending : s.id # claim'[p]
      <4>1. apc'[p] = apc[p] /\ claim'[p] = claim[p]
        BY <1>5, <3>3
      <4>2. QED
        BY <1>5, <3>3, <4>1 DEF AccountsInv, SpentOK
    <3>4. QED
      BY <1>1, <3>2, <3>3 DEF SpentOK
  <2>3. QED
    BY <2>1, <2>2
<1>8. QED
  BY <1>4, <1>6, <1>7 DEF AccountsInv

\* A new secret is not the one the authenticator has, and the factor is off.
LEMMA TotpSetupInv ==
    ASSUME AccountsInv, NEW p \in Person, TotpSetup(p)
    PROVE  AccountsInv'
<1>1. /\ made.secret < MaxSecrets /\ made' = [made EXCEPT !.secret = @ + 1] /\ Crossing({p})
      /\ secret' = [secret EXCEPT ![p] = made.secret + 1]
      /\ enabled' = [enabled EXCEPT ![p] = FALSE]
      /\ UNCHANGED <<registered, tokens, failures, pending, clock, apc, who, name, claim, confirmed>>
  BY DEF TotpSetup, EnabledAfterSetup
<1>2. Typed /\ (crossed => crossed') /\ crossed' \in BOOLEAN
  BY <1>1 DEF AccountsInv, Typed, Crossing
<1>3. /\ made' \in [token : Nat, pending : Nat, secret : 0 .. MaxSecrets]
      /\ made'.token = made.token /\ made'.pending = made.pending
      /\ made.secret + 1 \in 0 .. MaxSecrets
  <2>1. made.secret \in 0 .. MaxSecrets /\ MaxSecrets \in Nat
    BY <1>2, AccountsAssumption DEF Typed
  <2>2. made.secret + 1 \in 0 .. MaxSecrets
    BY <1>1, <2>1
  <2>3. QED
    BY <1>1, <1>2, <2>2 DEF Typed
<1>4. Typed'
  <2>1. secret' \in [Person -> 0 .. MaxSecrets] /\ enabled' \in [Person -> BOOLEAN]
    BY <1>1, <1>2, <1>3 DEF Typed, AccountsTypeOK
  <2>2. QED
    BY <1>1, <1>2, <1>3, <2>1 DEF Typed, AccountsTypeOK
<1>5. BusyOK' /\ AloneOK' /\ PendingOK' /\ SpentOK'
  BY <1>1, <1>2, BusySheds, AloneSheds, PendingShrinks, SpentSheds DEF AccountsInv
<1>6. EnrolOK'
  <2>. SUFFICES ASSUME ~crossed' PROVE EnrolOK'
    BY DEF EnrolOK
  <2>1. ~crossed /\ \A q \in AuthRequests : who[q] # p
    BY <1>1 DEF Crossing
  <2>2. /\ \A x \in Person : x # p => secret'[x] = secret[x]
        /\ \A x \in Person : enabled'[x] => x # p /\ enabled[x]
    BY <1>1, <1>2 DEF Typed, AccountsTypeOK
  <2>3. ASSUME NEW x \in Person, enabled'[x] PROVE <<x, secret'[x]>> \in confirmed'
    <3>1. enabled[x] /\ secret'[x] = secret[x]
      BY <2>2, <2>3
    <3>2. <<x, secret[x]>> \in confirmed
      BY <2>1, <3>1 DEF AccountsInv, EnrolOK
    <3>3. QED
      BY <1>1, <3>1, <3>2
  <2>4. \A q \in AuthRequests : apc[q] = "enable" => who[q] \in Person /\ who[q] # p
    BY <1>2, <2>1 DEF AccountsInv, BusyOK, Typed, AccountsTypeOK
  <2>5. \A q \in AuthRequests : apc'[q] = "enable" /\ secret'[who'[q]] # 0
                                  => <<who'[q], secret'[who'[q]]>> \in confirmed'
    BY <1>1, <2>1, <2>2, <2>4 DEF AccountsInv, EnrolOK
  <2>6. QED
    BY <2>3, <2>5 DEF EnrolOK
<1>7. QED
  BY <1>4, <1>5, <1>6 DEF AccountsInv

\* Enable and Disable end by writing the row of the account they began with.
LEMMA FactorInv ==
    ASSUME AccountsInv, NEW r \in AuthRequests, Enable(r) \/ Disable(r)
    PROVE  AccountsInv'
<1>1. /\ apc[r] \in {"enable", "disable"} /\ AuthDone(r)
      /\ \/ /\ apc[r] = "enable" /\ secret' = secret
            /\ enabled' = [enabled EXCEPT ![who[r]] = secret[who[r]] # 0]
         \/ /\ secret' = [secret EXCEPT ![who[r]] = 0]
            /\ enabled' = [enabled EXCEPT ![who[r]] = FALSE]
      /\ UNCHANGED <<registered, tokens, failures, pending, clock, made, confirmed, crossed>>
  BY DEF Enable, Disable
<1>2. Typed /\ who[r] \in Person
  BY <1>1 DEF AccountsInv, Typed, AccountsTypeOK, BusyOK
<1>3. Typed'
  <2>1. secret \in [Person -> 0 .. MaxSecrets] /\ enabled \in [Person -> BOOLEAN] /\ 0 \in 0 .. MaxSecrets
    BY <1>2, AccountsAssumption DEF Typed, AccountsTypeOK
  <2>2. secret' \in [Person -> 0 .. MaxSecrets] /\ enabled' \in [Person -> BOOLEAN]
    <3>1. secret' \in [Person -> 0 .. MaxSecrets]
      BY <1>1, <2>1
    <3>2. PICK b \in BOOLEAN : enabled' = [enabled EXCEPT ![who[r]] = b]
      BY <1>1
    <3>3. enabled' \in [Person -> BOOLEAN]
      BY <2>1, <3>2
    <3>4. QED
      BY <3>1, <3>3
  <2>3. /\ apc' \in [AuthRequests -> Steps] /\ who' \in [AuthRequests -> LoginName \cup {Nobody}]
        /\ name' \in [AuthRequests -> LoginName \cup {Nobody}]
        /\ claim' \in [AuthRequests -> 0 .. made'.pending]
    BY <1>1, <1>2, DoneTyped DEF Typed
  <2>4. QED
    BY <1>1, <1>2, <2>2, <2>3 DEF Typed, AccountsTypeOK, Steps
<1>4. \A q \in AuthRequests :
        \/ apc'[q] = "idle" /\ who'[q] = Nobody /\ name'[q] = Nobody /\ q = r
        \/ apc'[q] = apc[q] /\ who'[q] = who[q] /\ name'[q] = name[q] /\ claim'[q] = claim[q] /\ q # r
  BY <1>1, <1>2, DoneFacts
<1>5. BusyOK' /\ AloneOK' /\ PendingOK' /\ SpentOK'
  BY <1>1, <1>4, BusySheds, AloneSheds, PendingShrinks, SpentSheds DEF AccountsInv
<1>6. EnrolOK'
  <2>. SUFFICES ASSUME ~crossed PROVE EnrolOK'
    BY <1>1 DEF EnrolOK
  <2>1. \A x \in Person : /\ x # who[r] => secret'[x] = secret[x] /\ enabled'[x] = enabled[x]
                          /\ enabled'[who[r]] => /\ apc[r] = "enable" /\ secret[who[r]] # 0
                                                 /\ secret'[who[r]] = secret[who[r]]
    BY <1>1, <1>2 DEF Typed, AccountsTypeOK
  <2>2. \A x \in Person : enabled'[x] => <<x, secret'[x]>> \in confirmed'
    BY <1>1, <2>1 DEF AccountsInv, EnrolOK
  <2>3. \A q \in AuthRequests : apc'[q] = "enable" => apc[q] = "enable" /\ who'[q] = who[q] /\ who[q] \in Person
                                                      /\ who[q] # who[r]
    <3>1. \A q \in AuthRequests : apc[q] = "enable" => who[q] \in Person /\ who[q] # Nobody
      BY <1>2, AccountsAssumption DEF AccountsInv, BusyOK, Typed, AccountsTypeOK
    <3>2. QED
      BY <1>4, <3>1 DEF AccountsInv, AloneOK
  <2>4. QED
    BY <1>1, <2>1, <2>2, <2>3 DEF AccountsInv, EnrolOK
<1>7. QED
  BY <1>3, <1>5, <1>6 DEF AccountsInv

LEMMA RestartServerInv ==
    ASSUME AccountsInv, RestartServer
    PROVE  AccountsInv'
<1>1. /\ failures' = [n \in LoginName |-> NoEntry] /\ pending' = {}
      /\ apc' = [r \in AuthRequests |-> "idle"]
      /\ who' = [r \in AuthRequests |-> Nobody]
      /\ name' = [r \in AuthRequests |-> Nobody]
      /\ claim' = [r \in AuthRequests |-> NoClaim]
      /\ UNCHANGED <<registered, secret, enabled, tokens, clock, made, confirmed, crossed>>
  BY DEF RestartServer
<1>2. Typed'
  <2>1. NoEntry \in [count : 0 .. LOGIN_MAX_FAILURES, since : 0 .. MaxTime]
    BY AccountsAssumption DEF NoEntry
  <2>2. NoClaim \in 0 .. made.pending
    BY DEF AccountsInv, Typed, NoClaim
  <2>3. failures' \in [LoginName -> [count : 0 .. LOGIN_MAX_FAILURES, since : 0 .. MaxTime]]
    BY <1>1, <2>1
  <2>4. /\ apc' \in [AuthRequests -> Steps] /\ who' \in [AuthRequests -> LoginName \cup {Nobody}]
        /\ name' \in [AuthRequests -> LoginName \cup {Nobody}]
        /\ claim' \in [AuthRequests -> 0 .. made.pending]
    BY <1>1, <2>2 DEF Steps
  <2>5. QED
    BY <1>1, <2>3, <2>4 DEF AccountsInv, Typed, AccountsTypeOK, Steps
<1>3. \A q \in AuthRequests : apc'[q] = "idle" /\ who'[q] = Nobody /\ name'[q] = Nobody
  BY <1>1
<1>4. BusyOK' /\ AloneOK' /\ EnrolOK' /\ PendingOK' /\ SpentOK'
  BY <1>1, <1>3, BusySheds, AloneSheds, EnrolKeeps, PendingShrinks, SpentSheds DEF AccountsInv
<1>5. QED
  BY <1>2, <1>4 DEF AccountsInv

LEMMA TickInv ==
    ASSUME AccountsInv, Tick
    PROVE  AccountsInv'
<1>1. /\ clock < MaxTime /\ clock' = clock + 1
      /\ UNCHANGED <<registered, secret, enabled, tokens, failures, pending, apc, who, name, claim, made,
                     confirmed, crossed>>
  BY DEF Tick
<1>2. Typed'
  <2>1. clock' \in 0 .. MaxTime /\ clock \in 0 .. clock' /\ clock \in Nat /\ clock' \in Nat
    BY <1>1, AccountsAssumption DEF AccountsInv, Typed, AccountsTypeOK
  <2>2. \A s \in pending : s \in [id : 1 .. made.pending, user : registered, at : 0 .. clock']
    BY <1>1, <2>1 DEF AccountsInv, Typed, AccountsTypeOK
  <2>3. QED
    BY <1>1, <2>1, <2>2 DEF AccountsInv, Typed, AccountsTypeOK
<1>3. BusyOK' /\ AloneOK' /\ EnrolOK' /\ PendingOK' /\ SpentOK'
  BY <1>1, BusySheds, AloneSheds, EnrolKeeps, PendingShrinks, SpentSheds DEF AccountsInv
<1>4. QED
  BY <1>2, <1>3 DEF AccountsInv

LEMMA AccountsNextInv == AccountsInv /\ [AccountsNext]_accountsVars => AccountsInv'
<1>. SUFFICES ASSUME AccountsInv, [AccountsNext]_accountsVars PROVE AccountsInv'
  OBVIOUS
<1>1. ASSUME NEW p \in Person, Register(p) \/ CreateUser(p) \/ CreateToken(p) \/ TotpSetup(p)
      PROVE  AccountsInv'
  BY <1>1, RegisterInv, CreateUserInv, TotpSetupInv
<1>2. CASE RevokeToken
  BY <1>2, RevokeTokenInv
<1>3. ASSUME NEW r \in AuthRequests, NEW p \in Person, StartEnable(r, p) \/ StartDisable(r, p)
      PROVE  AccountsInv'
  BY <1>3, StartEnableInv, StartDisableInv
<1>4. ASSUME NEW r \in AuthRequests, NEW n \in LoginName, StartLogin(r, n) \/ \E s \in pending : StartCode(r, n, s)
      PROVE  AccountsInv'
  BY <1>4, StartLoginInv, StartCodeInv
<1>5. ASSUME NEW r \in AuthRequests, CheckPassword(r) \/ AskSecondFactor(r) \/ CheckCode(r) \/ MintToken(r)
      PROVE  AccountsInv'
  BY <1>5, CheckPasswordInv, AskSecondFactorInv, CheckCodeInv, MintTokenInv
<1>6. ASSUME NEW r \in AuthRequests, Enable(r) \/ Disable(r) PROVE AccountsInv'
  BY <1>6, FactorInv
<1>7. CASE RestartServer \/ Tick
  BY <1>7, RestartServerInv, TickInv
<1>8. CASE UNCHANGED accountsVars
  <2>1. UNCHANGED <<registered, secret, enabled, tokens, failures, pending, clock, apc, who, name, claim, made,
                    confirmed, crossed>>
    BY <1>8 DEF accountsVars
  <2>2. Typed'
    BY <2>1 DEF AccountsInv, Typed, AccountsTypeOK
  <2>3. BusyOK' /\ AloneOK' /\ EnrolOK' /\ PendingOK' /\ SpentOK'
    BY <2>1, BusySheds, AloneSheds, EnrolKeeps, PendingShrinks, SpentSheds DEF AccountsInv
  <2>4. QED
    BY <2>2, <2>3 DEF AccountsInv
<1>9. QED
  BY <1>1, <1>2, <1>3, <1>4, <1>5, <1>6, <1>7, <1>8 DEF AccountsNext

-----------------------------------------------------------------------------
LEMMA AccountsAlwaysInv == AccountsSpec => []AccountsInv
  BY AccountsInitInv, AccountsNextInv, PTL DEF AccountsSpec

\* Type correctness of the tables, the limiter and the requests in flight; tokens
\* and pending sign-ins are of registered users.
THEOREM AccountsTypeCorrect == AccountsSpec => []AccountsTypeOK
<1>1. AccountsInv => AccountsTypeOK
  BY DEF AccountsInv, Typed
<1>2. QED
  BY <1>1, AccountsAlwaysInv, PTL

\* totp_setup, totp_enable, totp_disable: a second factor that is on has the
\* secret its owner has shown a code for, however many requests are in flight, as
\* long as no two are about one account at once.
THEOREM SecondFactorAlwaysConfirmed == AccountsSpec => []ConfirmedSecondFactor
<1>1. AccountsInv => ConfirmedSecondFactor
  BY DEF AccountsInv, EnrolOK, ConfirmedSecondFactor
<1>2. QED
  BY <1>1, AccountsAlwaysInv, PTL

\* login_totp: one sign-in, one token.
THEOREM OneTokenAlways == AccountsSpec => []OneTokenPerSignIn
<1>1. AccountsInv => OneTokenPerSignIn
  BY DEF AccountsInv, SpentOK, OneTokenPerSignIn
<1>2. QED
  BY <1>1, AccountsAlwaysInv, PTL

-----------------------------------------------------------------------------
(***************************************************************************)
(* The limiter of failed sign-ins.                                         *)
(***************************************************************************)
Since(p) == failures[p].since
Count(p) == failures[p].count

\* The failures since the window of a name began are those that it counts, the
\* first of them at its beginning; those before are of the window before, without
\* the one that it began with.
WindowOK(p) ==
    /\ IsFiniteSet(wrong[p]) /\ \A f \in wrong[p] : f.at \in 0 .. clock
    /\ Since(p) =< clock
    /\ Count(p) = 0 => failures[p] = NoEntry /\ wrong[p] = {}
    /\ Count(p) # 0 =>
         /\ \A f \in wrong[p] : f.at < Since(p) + LOGIN_WINDOW
         /\ Cardinality({f \in wrong[p] : f.at >= Since(p)}) =< Count(p)
         /\ Cardinality({f \in wrong[p] : f.at > Since(p)}) =< Count(p) - 1
         /\ Cardinality({f \in wrong[p] : f.at < Since(p)}) =< LOGIN_MAX_FAILURES - 1

\* A request that the limiter let through is still one that it would.
LimiterInv ==
    /\ wrong = [n \in LoginName |-> wrong[n]]
    /\ ~crossed =>
         /\ \A n \in LoginName : WindowOK(n)
         /\ \A r \in AuthRequests : apc[r] \in {"password", "code"} => Allowed(name[r])

\* A subset has no more elements, and one element is at most one more.
LEMMA FewerOrOneMore ==
    ASSUME NEW S, IsFiniteSet(S), NEW T, NEW x
    PROVE  /\ Cardinality(S) \in Nat
           /\ T \subseteq S => IsFiniteSet(T) /\ Cardinality(T) \in Nat /\ Cardinality(T) =< Cardinality(S)
           /\ T \subseteq S \cup {x} => IsFiniteSet(T) /\ Cardinality(T) \in Nat
                                        /\ Cardinality(T) =< Cardinality(S) + 1
<1>1. Cardinality(S) \in Nat
  BY FS_CardinalityType
<1>2. ASSUME T \subseteq S PROVE IsFiniteSet(T) /\ Cardinality(T) \in Nat /\ Cardinality(T) =< Cardinality(S)
  BY <1>2, FS_Subset, FS_CardinalityType
<1>3. ASSUME T \subseteq S \cup {x}
      PROVE  IsFiniteSet(T) /\ Cardinality(T) \in Nat /\ Cardinality(T) =< Cardinality(S) + 1
  <2>1. IsFiniteSet(S \cup {x}) /\ Cardinality(S \cup {x}) =< Cardinality(S) + 1
    BY <1>1, FS_AddElement
  <2>2. IsFiniteSet(T) /\ Cardinality(T) =< Cardinality(S \cup {x}) /\ Cardinality(T) \in Nat
    BY <1>3, <2>1, FS_Subset, FS_CardinalityType
  <2>3. Cardinality(S \cup {x}) \in Nat
    BY <2>1, FS_CardinalityType
  <2>4. QED
    BY <1>1, <2>1, <2>2, <2>3
<1>4. QED
  BY <1>1, <1>2, <1>3

LEMMA RecordFailureWindow ==
    ASSUME Typed, NEW p \in LoginName, WindowOK(p), Allowed(p), RecordFailure(p), clock' = clock,
           wrong = [q \in LoginName |-> wrong[q]]
    PROVE  WindowOK(p)'
<1>. DEFINE now == FailedNow(p)
            kept == Recent(p)
            old == {f \in wrong[p] : f.at < Since(p)}
            new == {f \in wrong[p] : f.at >= Since(p)}
            later == {f \in wrong[p] : f.at > Since(p)}
<1>1. /\ failures'[p] = AfterFailure(p) /\ wrong'[p] = kept \cup {now}
      /\ now.at = clock
  BY DEF RecordFailure, FailedNow, Typed, AccountsTypeOK
<1>2. /\ clock \in Nat /\ Since(p) \in Nat /\ Count(p) \in Nat /\ Count(p) =< LOGIN_MAX_FAILURES
      /\ LOGIN_WINDOW \in Nat /\ LOGIN_WINDOW >= 1 /\ LOGIN_MAX_FAILURES \in Nat /\ LOGIN_MAX_FAILURES >= 1
      /\ failures[p] \in [count : 0 .. LOGIN_MAX_FAILURES, since : 0 .. MaxTime]
  BY AccountsAssumption DEF Typed, AccountsTypeOK, Since, Count
<1>3. /\ \A f \in kept : f \in wrong[p] /\ f.at \in Nat /\ f.at =< clock /\ clock - f.at < LOGIN_WINDOW
      /\ IsFiniteSet(wrong[p]) /\ kept \subseteq wrong[p]
  BY <1>2 DEF Recent, WindowOK
<1>4. IsFiniteSet(wrong'[p]) /\ \A f \in wrong'[p] : f.at \in 0 .. clock
  <2>. HIDE DEF now, kept
  <2>1. IsFiniteSet(kept)
    BY <1>3, FS_Subset
  <2>2. QED
    BY <1>1, <1>2, <1>3, <2>1, FS_AddElement
<1>5. CASE failures[p] = NoEntry \/ Expired(p) \/ Count(p) >= LOGIN_MAX_FAILURES
  <2>1. failures'[p] = [count |-> 1, since |-> clock]
    BY <1>1, <1>5 DEF AfterFailure, Count
  <2>2. /\ \A f \in kept : f.at < clock
        /\ Cardinality(kept) =< LOGIN_MAX_FAILURES - 1
    <3>1. CASE Count(p) = 0
      <4>1. kept = {}
        BY <1>3, <3>1 DEF WindowOK
      <4>2. QED
        BY <1>2, <4>1, FS_EmptySet
    <3>2. CASE Count(p) # 0
      <4>1. clock - Since(p) >= LOGIN_WINDOW
        BY <1>2, <1>5, <3>2 DEF Allowed, Expired, Count, Since, NoEntry
      <4>2. \A f \in kept : f.at < Since(p) + LOGIN_WINDOW /\ f.at > Since(p)
        BY <1>2, <1>3, <3>2, <4>1 DEF WindowOK
      <4>3. \A f \in kept : f.at < clock
        BY <1>2, <1>3, <4>1, <4>2
      <4>4. Cardinality(later) =< Count(p) - 1 /\ later \subseteq wrong[p]
        BY <3>2 DEF WindowOK
      <4>5. kept \subseteq later
        BY <1>3, <4>2
      <4>. HIDE DEF later, kept
      <4>6. /\ IsFiniteSet(later) /\ Cardinality(kept) =< Cardinality(later)
            /\ Cardinality(kept) \in Nat /\ Cardinality(later) \in Nat
        BY <1>3, <4>4, <4>5, FS_Subset, FS_CardinalityType
      <4>7. QED
        BY <1>2, <4>3, <4>4, <4>6
    <3>3. QED
      BY <3>1, <3>2
  <2>. HIDE DEF now, kept
  <2>3. {f \in wrong'[p] : f.at >= clock} = {now}
    BY <1>1, <1>2, <1>3, <2>2
  <2>4. {f \in wrong'[p] : f.at > clock} = {}
    BY <1>1, <1>2, <1>3, <2>2
  <2>5. {f \in wrong'[p] : f.at < clock} = kept
    BY <1>1, <1>2, <1>3, <2>2
  <2>6. Cardinality({now}) = 1 /\ Cardinality({}) = 0
    BY FS_Singleton, FS_EmptySet
  <2>7. \A f \in wrong'[p] : f.at < clock + LOGIN_WINDOW
    BY <1>2, <1>4
  <2>8. Count(p)' = 1 /\ Since(p)' = clock
    BY <2>1 DEF Count, Since
  <2>9. /\ Cardinality({f \in wrong'[p] : f.at >= clock}) = 1
        /\ Cardinality({f \in wrong'[p] : f.at > clock}) = 0
        /\ Cardinality({f \in wrong'[p] : f.at < clock}) =< LOGIN_MAX_FAILURES - 1
    BY <2>2, <2>3, <2>4, <2>5, <2>6
  <2>10. WindowOK(p)' <=>
           /\ IsFiniteSet(wrong'[p]) /\ \A f \in wrong'[p] : f.at \in 0 .. clock
           /\ clock =< clock
           /\ \A f \in wrong'[p] : f.at < clock + LOGIN_WINDOW
           /\ Cardinality({f \in wrong'[p] : f.at >= clock}) =< 1
           /\ Cardinality({f \in wrong'[p] : f.at > clock}) =< 1 - 1
           /\ Cardinality({f \in wrong'[p] : f.at < clock}) =< LOGIN_MAX_FAILURES - 1
    BY <2>8 DEF WindowOK
  <2>11. QED
    BY <1>2, <1>4, <2>7, <2>9, <2>10
<1>6. CASE ~(failures[p] = NoEntry \/ Expired(p) \/ Count(p) >= LOGIN_MAX_FAILURES)
  <2>1. failures'[p] = [failures[p] EXCEPT !.count = @ + 1]
    BY <1>1, <1>6 DEF AfterFailure, Count
  <2>2. Count(p)' = Count(p) + 1 /\ Since(p)' = Since(p)
    BY <1>2, <2>1 DEF Count, Since
  <2>3. Count(p) # 0 /\ clock < Since(p) + LOGIN_WINDOW /\ Count(p) < LOGIN_MAX_FAILURES /\ Since(p) =< clock
    BY <1>2, <1>6 DEF WindowOK, Expired, Since
  <2>4. /\ Cardinality(new) =< Count(p) /\ Cardinality(later) =< Count(p) - 1
        /\ Cardinality(old) =< LOGIN_MAX_FAILURES - 1
        /\ \A f \in wrong[p] : f.at < Since(p) + LOGIN_WINDOW
    BY <2>3 DEF WindowOK
  <2>5. {f \in wrong'[p] : f.at >= Since(p)} \subseteq new \cup {now}
    BY <1>1, <1>3
  <2>6. {f \in wrong'[p] : f.at > Since(p)} \subseteq later \cup {now}
    BY <1>1, <1>3
  <2>7. {f \in wrong'[p] : f.at < Since(p)} \subseteq old
    BY <1>1, <1>2, <1>3, <2>3
  <2>8. IsFiniteSet(new) /\ IsFiniteSet(later) /\ IsFiniteSet(old)
    BY <1>3, FS_Subset
  <2>. HIDE DEF new, later, old, now, kept
  <2>9. /\ Cardinality({f \in wrong'[p] : f.at >= Since(p)}) =< Count(p) + 1
        /\ Cardinality({f \in wrong'[p] : f.at > Since(p)}) =< Count(p)
        /\ Cardinality({f \in wrong'[p] : f.at < Since(p)}) =< LOGIN_MAX_FAILURES - 1
    <3>1. Cardinality({f \in wrong'[p] : f.at >= Since(p)}) \in Nat /\ Cardinality(new) \in Nat
          /\ Cardinality({f \in wrong'[p] : f.at >= Since(p)}) =< Cardinality(new) + 1
      BY <2>5, <2>8, FewerOrOneMore
    <3>2. Cardinality({f \in wrong'[p] : f.at > Since(p)}) \in Nat /\ Cardinality(later) \in Nat
          /\ Cardinality({f \in wrong'[p] : f.at > Since(p)}) =< Cardinality(later) + 1
      BY <2>6, <2>8, FewerOrOneMore
    <3>3. Cardinality({f \in wrong'[p] : f.at < Since(p)}) \in Nat /\ Cardinality(old) \in Nat
          /\ Cardinality({f \in wrong'[p] : f.at < Since(p)}) =< Cardinality(old)
      BY <2>7, <2>8, FewerOrOneMore
    <3>4. QED
      BY <1>2, <2>4, <3>1, <3>2, <3>3
  <2>10. \A f \in wrong'[p] : f.at < Since(p) + LOGIN_WINDOW
    BY <1>1, <1>3, <2>3, <2>4
  <2>11. QED
    BY <1>2, <1>4, <2>2, <2>3, <2>9, <2>10 DEF WindowOK
<1>7. QED
  BY <1>5, <1>6

\* A name's window is forgotten when a sign-in does not fail.
LEMMA ForgottenWindow ==
    ASSUME NEW p, failures'[p] = NoEntry, wrong'[p] = {}, clock' \in Nat
    PROVE  WindowOK(p)'
  BY FS_EmptySet DEF WindowOK, NoEntry, Count, Since

LEMMA SameWindow ==
    ASSUME NEW p, WindowOK(p), failures'[p] = failures[p], wrong'[p] = wrong[p],
           clock \in Nat, clock' \in Nat, clock =< clock', failures[p].since \in Nat
    PROVE  WindowOK(p)'
  BY DEF WindowOK, Count, Since

LEMMA StillAllowed ==
    ASSUME NEW p, Allowed(p), failures'[p] = failures[p], clock \in Nat, clock' \in Nat, clock =< clock',
           failures[p].since \in Nat, LOGIN_WINDOW \in Nat
    PROVE  Allowed(p)'
  BY DEF Allowed, Expired

\* An answer to the limiter, of a request that it has let through.
LEMMA AnswerLimiter ==
    ASSUME AccountsInv, LimiterInv, NEW r \in AuthRequests, apc[r] \in {"password", "code"},
           UNCHANGED <<clock, crossed>>,
           RecordFailure(name[r]) \/ ClearFailures(name[r]),
           apc'[r] \notin {"password", "code"},
           \A q \in AuthRequests \ {r} : apc'[q] = apc[q] /\ name'[q] = name[q]
    PROVE  LimiterInv'
<1>1. PICK p \in LoginName : p = name[r]
  BY DEF AccountsInv, BusyOK
<1>2. clock \in Nat /\ failures \in [LoginName -> [count : 0 .. LOGIN_MAX_FAILURES, since : 0 .. MaxTime]]
  BY DEF AccountsInv, Typed, AccountsTypeOK, BusyOK
<1>3. /\ wrong' = [q \in LoginName |-> wrong'[q]]
      /\ \A q \in LoginName \ {p} : failures'[q] = failures[q] /\ wrong'[q] = wrong[q]
  <2>1. PICK w : wrong = [q \in LoginName |-> wrong[q]] /\ wrong' = [wrong EXCEPT ![p] = w]
    BY <1>1 DEF LimiterInv, RecordFailure, ClearFailures
  <2>2. PICK e : failures' = [failures EXCEPT ![p] = e]
    BY <1>1 DEF RecordFailure, ClearFailures
  <2>3. QED
    BY <1>2, <2>1, <2>2
<1>. SUFFICES ASSUME ~crossed
              PROVE  /\ \A q \in LoginName : WindowOK(q)'
                     /\ \A q \in AuthRequests : (apc[q] \in {"password", "code"} => Allowed(name[q]))'
  BY <1>3 DEF LimiterInv
<1>4. WindowOK(p) /\ Allowed(p)
  BY <1>1 DEF LimiterInv
<1>5. WindowOK(p)'
  <2>1. CASE RecordFailure(p)
    BY <1>2, <1>4, <2>1, RecordFailureWindow DEF AccountsInv, LimiterInv
  <2>2. CASE ClearFailures(p)
    <3>1. failures'[p] = NoEntry /\ wrong'[p] = {}
      BY <1>2, <2>2 DEF ClearFailures, LimiterInv
    <3>2. QED
      BY <1>2, <3>1, ForgottenWindow
  <2>3. QED
    BY <1>1, <2>1, <2>2
<1>6. ASSUME NEW q \in LoginName, q # p PROVE WindowOK(q)'
  BY <1>2, <1>3, <1>6, SameWindow DEF LimiterInv
<1>7. ASSUME NEW q \in AuthRequests, apc'[q] \in {"password", "code"} PROVE Allowed(name[q])'
  <2>1. q # r /\ apc'[q] = apc[q] /\ name'[q] = name[q]
    BY <1>7
  <2>2. name[q] \in LoginName /\ name[q] # p
    BY <1>1, <1>7, <2>1, AccountsAssumption DEF AccountsInv, BusyOK, AloneOK
  <2>3. Allowed(name[q])
    BY <1>7, <2>1 DEF LimiterInv
  <2>4. failures'[name'[q]] = failures[name[q]]
    BY <1>3, <2>1, <2>2
  <2>5. QED
    BY <2>1, <2>3, <2>4 DEF Allowed, Expired
<1>8. QED
  BY <1>5, <1>6, <1>7

\* A step that leaves the limiter alone and lets through nobody that it would not.
LEMMA LimiterAside ==
    ASSUME AccountsInv, LimiterInv, UNCHANGED <<failures, wrong>>,
           clock' \in Nat, clock =< clock', crossed => crossed',
           \A q \in AuthRequests : \/ apc'[q] \notin {"password", "code"}
                                   \/ apc'[q] = apc[q] /\ name'[q] = name[q]
                                   \/ name'[q] \in LoginName /\ Allowed(name'[q])
    PROVE  LimiterInv'
<1>1. /\ clock \in Nat /\ LOGIN_WINDOW \in Nat
      /\ \A n \in LoginName : failures[n].since \in Nat
  BY AccountsAssumption DEF AccountsInv, Typed, AccountsTypeOK
<1>. SUFFICES ASSUME ~crossed
              PROVE  /\ \A n \in LoginName : WindowOK(n)'
                     /\ \A q \in AuthRequests : (apc[q] \in {"password", "code"} => Allowed(name[q]))'
  BY DEF LimiterInv
<1>2. ASSUME NEW n \in LoginName PROVE WindowOK(n)'
  BY <1>1, SameWindow DEF LimiterInv
<1>3. ASSUME NEW q \in AuthRequests, apc'[q] \in {"password", "code"} PROVE Allowed(name[q])'
  <2>1. name'[q] \in LoginName /\ Allowed(name'[q])
    BY <1>3 DEF LimiterInv, AccountsInv, BusyOK
  <2>2. failures'[name'[q]] = failures[name'[q]] /\ failures[name'[q]].since \in Nat
    BY <1>1, <2>1
  <2>3. QED
    BY <1>1, <2>1, <2>2 DEF Allowed, Expired
<1>4. QED
  BY <1>2, <1>3

LEMMA CheckPasswordLimiter ==
    ASSUME AccountsInv, LimiterInv, NEW r \in AuthRequests, CheckPassword(r)
    PROVE  LimiterInv'
<1>1. apc[r] = "password" /\ UNCHANGED <<clock, crossed>>
  BY DEF CheckPassword
<1>2. CASE ClearFailures(name[r]) /\ AuthGo(r, "factor", who[r], name[r], NoClaim)
  BY <1>1, <1>2, GoFacts, AnswerLimiter DEF AccountsInv
<1>3. CASE RecordFailure(name[r]) /\ AuthDone(r)
  BY <1>1, <1>3, DoneFacts, AnswerLimiter DEF AccountsInv
<1>4. QED
  BY <1>2, <1>3 DEF CheckPassword

LEMMA CheckCodeLimiter ==
    ASSUME AccountsInv, LimiterInv, NEW r \in AuthRequests, CheckCode(r)
    PROVE  LimiterInv'
<1>1. apc[r] = "code" /\ UNCHANGED <<clock, crossed>> /\ clock \in Nat
  BY DEF CheckCode, AccountsInv, Typed, AccountsTypeOK
<1>2. CASE ClearFailures(name[r]) /\ AuthGo(r, "mint", who[r], name[r], claim[r])
  BY <1>1, <1>2, GoFacts, AnswerLimiter DEF AccountsInv
<1>3. CASE RecordFailure(name[r]) /\ AuthDone(r)
  BY <1>1, <1>3, DoneFacts, AnswerLimiter DEF AccountsInv
<1>4. CASE AuthDone(r) /\ UNCHANGED <<failures, wrong>>
  BY <1>1, <1>4, DoneFacts, LimiterAside DEF AccountsInv
<1>5. QED
  BY <1>2, <1>3, <1>4 DEF CheckCode

LEMMA LetThroughLimiter ==
    ASSUME AccountsInv, LimiterInv, NEW r \in AuthRequests, NEW n \in LoginName,
           StartLogin(r, n) \/ \E s \in pending : StartCode(r, n, s)
    PROVE  LimiterInv'
<1>1. /\ UNCHANGED <<failures, wrong, clock>> /\ (crossed => crossed') /\ clock \in Nat
      /\ Allowed(n)
  BY DEF StartLogin, StartCode, AuthIdle, Crossing, AccountsInv, Typed, AccountsTypeOK
<1>2. CASE UNCHANGED <<apc, who, name>>
  BY <1>1, <1>2, LimiterAside
<1>3. ASSUME NEW step, NEW p, NEW c, AuthGo(r, step, p, n, c) PROVE LimiterInv'
  BY <1>1, <1>3, GoFacts, LimiterAside DEF AccountsInv
<1>4. QED
  BY <1>2, <1>3 DEF StartLogin, StartCode

LEMMA RestartLimiter ==
    ASSUME AccountsInv, LimiterInv, RestartServer
    PROVE  LimiterInv'
<1>1. /\ failures' = [n \in LoginName |-> NoEntry] /\ wrong' = [n \in LoginName |-> {}]
      /\ apc' = [r \in AuthRequests |-> "idle"] /\ clock' \in Nat
  BY DEF RestartServer, AccountsInv, Typed, AccountsTypeOK
<1>2. ASSUME NEW n \in LoginName PROVE WindowOK(n)'
  BY <1>1, ForgottenWindow
<1>3. wrong' = [n \in LoginName |-> wrong'[n]] /\ \A r \in AuthRequests : apc'[r] = "idle"
  BY <1>1
<1>4. QED
  BY <1>2, <1>3 DEF LimiterInv

LEMMA OthersLimiter ==
    ASSUME AccountsInv, LimiterInv,
           \/ \E p \in Person : Register(p) \/ CreateUser(p) \/ CreateToken(p) \/ TotpSetup(p)
           \/ RevokeToken \/ Tick \/ UNCHANGED accountsVars
           \/ \E r \in AuthRequests : \/ \E p \in Person : StartEnable(r, p) \/ StartDisable(r, p)
                                      \/ AskSecondFactor(r) \/ MintToken(r) \/ Enable(r) \/ Disable(r)
    PROVE  LimiterInv'
<1>1. clock \in Nat
  BY DEF AccountsInv, Typed, AccountsTypeOK
<1>2. CASE \E p \in Person : Register(p) \/ CreateUser(p) \/ CreateToken(p) \/ TotpSetup(p)
  <2>1. UNCHANGED <<failures, wrong, clock, apc, who, name>>
    BY <1>2 DEF Register, CreateUser, CreateToken, TotpSetup
  <2>2. crossed' = crossed \/ \E N : Crossing(N)
    BY <1>2 DEF Register, CreateUser, CreateToken, TotpSetup
  <2>3. crossed => crossed'
    BY <2>2 DEF Crossing
  <2>4. QED
    BY <1>1, <2>1, <2>3, LimiterAside
<1>3. CASE RevokeToken \/ UNCHANGED accountsVars \/ Tick
  <2>1. UNCHANGED <<failures, wrong, apc, who, name, crossed>> /\ clock' \in {clock, clock + 1}
    BY <1>3 DEF RevokeToken, accountsVars, Tick
  <2>2. QED
    BY <1>1, <2>1, LimiterAside
<1>4. ASSUME NEW r \in AuthRequests,
             \/ \E p \in Person : StartEnable(r, p) \/ StartDisable(r, p)
             \/ AskSecondFactor(r) \/ MintToken(r) \/ Enable(r) \/ Disable(r)
      PROVE  LimiterInv'
  <2>1. UNCHANGED <<failures, wrong, clock>>
    BY <1>4 DEF StartEnable, StartDisable, AskSecondFactor, MintToken, Enable, Disable
  <2>2. crossed' = crossed \/ \E N : Crossing(N)
    BY <1>4 DEF StartEnable, StartDisable, AuthIdle, AskSecondFactor, MintToken, Enable, Disable
  <2>3. crossed => crossed'
    BY <2>2 DEF Crossing
  <2>4. PICK step \in {"idle", "enable", "disable", "mint"} : \E p, n, c : AuthGo(r, step, p, n, c)
    BY <1>4 DEF StartEnable, StartDisable, AskSecondFactor, MintToken, Enable, Disable, AuthDone
  <2>5. /\ apc'[r] = step
        /\ \A q \in AuthRequests \ {r} : apc'[q] = apc[q] /\ name'[q] = name[q]
    BY <2>4, GoFacts DEF AccountsInv
  <2>6. QED
    BY <1>1, <2>1, <2>3, <2>4, <2>5, LimiterAside
<1>5. QED
  BY <1>2, <1>3, <1>4

LEMMA LimiterNextInv == AccountsInv /\ LimiterInv /\ [AccountsNext]_accountsVars => LimiterInv'
<1>. SUFFICES ASSUME AccountsInv, LimiterInv, [AccountsNext]_accountsVars PROVE LimiterInv'
  OBVIOUS
<1>1. ASSUME NEW r \in AuthRequests, CheckPassword(r) \/ CheckCode(r) PROVE LimiterInv'
  BY <1>1, CheckPasswordLimiter, CheckCodeLimiter
<1>2. ASSUME NEW r \in AuthRequests, NEW n \in LoginName, StartLogin(r, n) \/ \E s \in pending : StartCode(r, n, s)
      PROVE  LimiterInv'
  BY <1>2, LetThroughLimiter
<1>3. CASE RestartServer
  BY <1>3, RestartLimiter
<1>4. QED
  BY <1>1, <1>2, <1>3, OthersLimiter DEF AccountsNext

LEMMA LimiterInitInv == AccountsInit => LimiterInv
<1>. SUFFICES ASSUME AccountsInit PROVE LimiterInv
  OBVIOUS
<1>1. /\ failures = [n \in LoginName |-> NoEntry] /\ wrong = [n \in LoginName |-> {}] /\ clock = 0
      /\ apc = [r \in AuthRequests |-> "idle"]
  BY DEF AccountsInit
<1>2. \A n \in LoginName : WindowOK(n)
  BY <1>1, FS_EmptySet DEF WindowOK, NoEntry, Count, Since
<1>3. QED
  BY <1>1, <1>2 DEF LimiterInv

\* LoginLimiter, "five bad passwords inside ten minutes stops further attempts": in no
\* span of a window's length do 2 * LOGIN_MAX_FAILURES passwords and codes sent under
\* one name fail, since the last that was right, while requests do not cross.
THEOREM FewFailuresAlways == AccountsSpec => []FewFailuresPerWindow
<1>1. ASSUME AccountsInv, LimiterInv PROVE FewFailuresPerWindow
  <2>. SUFFICES ASSUME ~crossed, NEW p \in LoginName
                PROVE  Cardinality(Recent(p)) <= 2 * LOGIN_MAX_FAILURES - 1
    BY DEF FewFailuresPerWindow
  <2>. DEFINE old == {f \in wrong[p] : f.at < Since(p)}
              new == {f \in wrong[p] : f.at >= Since(p)}
  <2>1. WindowOK(p) /\ LOGIN_MAX_FAILURES \in Nat /\ LOGIN_MAX_FAILURES >= 1
        /\ Count(p) \in Nat /\ Count(p) =< LOGIN_MAX_FAILURES /\ Since(p) \in Nat
    BY <1>1, AccountsAssumption DEF LimiterInv, AccountsInv, Typed, AccountsTypeOK, Count, Since
  <2>2. Recent(p) \subseteq wrong[p] /\ IsFiniteSet(wrong[p]) /\ \A f \in wrong[p] : f.at \in Nat
    BY <2>1 DEF Recent, WindowOK
  <2>3. CASE Count(p) = 0
    <3>1. Recent(p) = {}
      BY <2>1, <2>2, <2>3 DEF WindowOK
    <3>2. QED
      BY <2>1, <3>1, FS_EmptySet
  <2>4. CASE Count(p) # 0
    <3>1. Cardinality(old) =< LOGIN_MAX_FAILURES - 1 /\ Cardinality(new) =< LOGIN_MAX_FAILURES
      <4>1. Cardinality(old) =< LOGIN_MAX_FAILURES - 1 /\ Cardinality(new) =< Count(p)
        BY <2>1, <2>4 DEF WindowOK
      <4>2. Cardinality(new) \in Nat
        BY <2>2, FS_Subset, FS_CardinalityType
      <4>. HIDE DEF old, new
      <4>3. QED
        BY <2>1, <4>1, <4>2
    <3>2. IsFiniteSet(old) /\ IsFiniteSet(new) /\ Recent(p) \subseteq old \cup new
      BY <2>1, <2>2, FS_Subset
    <3>. HIDE DEF old, new
    <3>3. /\ IsFiniteSet(old \cup new) /\ Cardinality(old) \in Nat /\ Cardinality(new) \in Nat
          /\ Cardinality(old \cap new) \in Nat
          /\ Cardinality(old \cup new) = Cardinality(old) + Cardinality(new) - Cardinality(old \cap new)
      BY <3>2, FS_Union, FS_Intersection, FS_CardinalityType
    <3>4. Cardinality(Recent(p)) =< Cardinality(old \cup new) /\ Cardinality(Recent(p)) \in Nat
      BY <3>2, <3>3, FS_Subset, FS_CardinalityType
    <3>5. QED
      BY <2>1, <3>1, <3>3, <3>4
  <2>5. QED
    BY <2>3, <2>4
<1>2. AccountsSpec => []LimiterInv
  BY AccountsAlwaysInv, LimiterInitInv, LimiterNextInv, PTL DEF AccountsSpec
<1>3. QED
  BY <1>1, <1>2, AccountsAlwaysInv, PTL

-----------------------------------------------------------------------------
(***************************************************************************)
(* Sharing.                                                                *)
(***************************************************************************)
\* What a request in flight has been asked.
Asks == [user : User \cup {NoUser}, vault : Vault \cup {NoUser}, target : User \cup {NoUser},
         role : VaultRole, link : Nat, as : VaultRole]

AskOK == ask \in [ShareRequests -> Asks]

\* A share that waits to be written was checked against an owner who cannot
\* change; every other request in flight names a vault.
AskedOK ==
    \A r \in ShareRequests :
        /\ spc[r] # "idle" => ask[r].vault \in Vault
        /\ spc[r] = "share" =>
               /\ ask[r].target \in User /\ ask[r].role \in SharedRole
               /\ owner[ask[r].vault] # NoUser /\ owner[ask[r].vault] # ask[r].target

\* The table's primary key: one row for a vault and a user.
OneRowEach ==
    \A s, t \in shares : s.vault = t.vault /\ s.user = t.user => s = t

\* Nobody has a share of the vault they own, and every shared vault has an owner.
SharedByOthers ==
    \A s \in shares : owner[s.vault] # NoUser /\ owner[s.vault] # s.user

SharingInv == SharingTypeOK /\ AskOK /\ AskedOK /\ OneRowEach /\ SharedByOthers

-----------------------------------------------------------------------------
LEMMA NoAskOK == NoAsk \in Asks
  BY DEF NoAsk, Asks, VaultRole, SharedRole

LEMMA SharingInitInv == SharingInit => SharingInv
  BY NoAskOK, SharingAssumption
  DEF SharingInit, SharingInv, SharingTypeOK, AskOK, AskedOK, OneRowEach, SharedByOthers

\* What ShareRole finds: the role of a row, or that there is none.
LEMMA ShareRoleOf ==
    ASSUME SharingInv, NEW v \in Vault, NEW u \in User
    PROVE  /\ ShareRows(v, u) = {} => ShareRole(v, u) = "none"
           /\ \A s \in ShareRows(v, u) : ShareRole(v, u) = s.role
           /\ ShareRole(v, u) \in SharedRole \cup {"none"}
<1>1. CASE ShareRows(v, u) = {}
  BY <1>1 DEF ShareRole
<1>2. CASE ShareRows(v, u) # {}
  <2>1. PICK s \in ShareRows(v, u) : TRUE
    BY <1>2
  <2>2. \A t \in ShareRows(v, u) : t = s
    BY <2>1 DEF SharingInv, OneRowEach, ShareRows
  <2>3. (CHOOSE t \in ShareRows(v, u) : TRUE) = s
    BY <2>1, <2>2
  <2>4. s.role \in SharedRole
    BY <2>1 DEF SharingInv, SharingTypeOK, ShareRows
  <2>5. QED
    BY <1>2, <2>2, <2>3, <2>4 DEF ShareRole
<1>3. QED
  BY <1>1, <1>2

LEMMA GrantedIsARole ==
    ASSUME SharingInv, NEW v \in Vault, NEW u \in User
    PROVE  Granted(v, u) \in VaultRole
  BY ShareRoleOf DEF Granted, VaultRole, SharedRole

-----------------------------------------------------------------------------
\* Beginning a request disturbs only its own row of spc and ask.
LEMMA GoKeepsInv ==
    ASSUME SharingInv, NEW r \in ShareRequests, NEW step \in {"share", "unshare", "link", "unlink"},
           NEW what \in Asks, what.vault \in Vault, CanWrite(what.as),
           step = "share" =>
             /\ what.target \in User /\ what.role \in SharedRole
             /\ owner[what.vault] # NoUser /\ owner[what.vault] # what.target,
           ShareGo(r, step, what),
           UNCHANGED <<owner, sealed, shares, links, linksMade>>
    PROVE  SharingInv'
<1>1. /\ spc' = [spc EXCEPT ![r] = step] /\ ask' = [ask EXCEPT ![r] = what]
      /\ spc \in [ShareRequests -> {"idle", "share", "unshare", "link", "unlink"}]
      /\ AskOK
  BY DEF ShareGo, SharingInv, SharingTypeOK
<1>2. spc' \in [ShareRequests -> {"idle", "share", "unshare", "link", "unlink"}] /\ AskOK'
  BY <1>1 DEF AskOK
<1>3. \A q \in ShareRequests :
        IF q = r THEN spc'[q] = step /\ ask'[q] = what
                 ELSE spc'[q] = spc[q] /\ ask'[q] = ask[q]
  BY <1>1 DEF AskOK
<1>4. \A q \in ShareRequests : spc'[q] # "idle" => CanWrite(ask'[q].as)
  <2>1. \A q \in ShareRequests : spc[q] # "idle" => CanWrite(ask[q].as)
    BY DEF SharingInv, SharingTypeOK
  <2>2. QED
    BY <1>3, <2>1
<1>5. SharingTypeOK'
  BY <1>2, <1>4 DEF SharingInv, SharingTypeOK
<1>6. AskedOK'
  BY <1>3 DEF SharingInv, AskedOK
<1>7. OneRowEach' /\ SharedByOthers'
  BY DEF SharingInv, OneRowEach, SharedByOthers
<1>8. QED
  BY <1>2, <1>5, <1>6, <1>7 DEF SharingInv

\* Ending a request frees it and keeps what is said of the others.
LEMMA DoneKeepsAsks ==
    ASSUME SharingInv, NEW r \in ShareRequests, ShareDone(r), UNCHANGED owner
    PROVE  /\ spc' \in [ShareRequests -> {"idle", "share", "unshare", "link", "unlink"}]
           /\ (\A q \in ShareRequests : spc[q] # "idle" => CanWrite(ask[q].as))'
           /\ AskOK' /\ AskedOK'
<1>1. /\ spc' = [spc EXCEPT ![r] = "idle"] /\ ask' = [ask EXCEPT ![r] = NoAsk]
      /\ spc \in [ShareRequests -> {"idle", "share", "unshare", "link", "unlink"}]
      /\ AskOK
  BY DEF ShareDone, ShareGo, SharingInv, SharingTypeOK
<1>2. \A q \in ShareRequests :
        IF q = r THEN spc'[q] = "idle" ELSE spc'[q] = spc[q] /\ ask'[q] = ask[q]
  BY <1>1 DEF AskOK
<1>3. AskOK' /\ spc' \in [ShareRequests -> {"idle", "share", "unshare", "link", "unlink"}]
  BY <1>1, NoAskOK DEF AskOK
<1>4. (\A q \in ShareRequests : spc[q] # "idle" => CanWrite(ask[q].as))'
  BY <1>2 DEF SharingInv, SharingTypeOK, CanWrite
<1>5. AskedOK'
  BY <1>2 DEF SharingInv, AskedOK
<1>6. QED
  BY <1>3, <1>4, <1>5

-----------------------------------------------------------------------------
LEMMA CreateVaultInv ==
    ASSUME SharingInv, NEW u \in User, NEW v \in Vault, NEW encrypted \in BOOLEAN,
           CreateVault(u, v, encrypted)
    PROVE  SharingInv'
<1>1. /\ owner[v] = NoUser /\ owner' = [owner EXCEPT ![v] = u]
      /\ sealed' = [sealed EXCEPT ![v] = encrypted]
      /\ UNCHANGED <<shares, links, linksMade, spc, ask>>
  BY DEF CreateVault
<1>2. owner \in [Vault -> User \cup {NoUser}] /\ sealed \in [Vault -> BOOLEAN]
  BY DEF SharingInv, SharingTypeOK
<1>3. \A w \in Vault : owner[w] # NoUser => owner'[w] = owner[w]
  BY <1>1, <1>2
<1>4. SharingTypeOK'
  BY <1>1, <1>2 DEF SharingInv, SharingTypeOK, CanWrite
<1>5. AskedOK'
  BY <1>1, <1>3 DEF SharingInv, AskedOK
<1>6. OneRowEach' /\ AskOK'
  BY <1>1 DEF SharingInv, OneRowEach, AskOK
<1>7. SharedByOthers'
  BY <1>1, <1>3 DEF SharingInv, SharingTypeOK, SharedByOthers
<1>8. QED
  BY <1>4, <1>5, <1>6, <1>7 DEF SharingInv

LEMMA StartShareInv ==
    ASSUME SharingInv, NEW r \in ShareRequests, NEW u \in User, NEW v \in Vault,
           NEW target \in User, NEW role \in SharedRole, StartShare(r, u, v, target, role)
    PROVE  SharingInv'
<1>. DEFINE what == [NoAsk EXCEPT !.user = u, !.vault = v, !.target = target, !.role = role,
                                  !.as = "owner"]
<1>1. owner[v] = u
  <2>1. Granted(v, u) = "owner"
    BY DEF StartShare, MayShare
  <2>2. QED
    BY <2>1, ShareRoleOf DEF Granted, SharedRole
<1>2. /\ what \in Asks /\ what.vault = v /\ what.target = target
      /\ what.role = role /\ what.as = "owner"
  BY DEF NoAsk, Asks, VaultRole
<1>3. owner[v] # NoUser /\ owner[v] # target /\ CanWrite("owner")
  BY <1>1, SharingAssumption DEF StartShare, MayShare, CanWrite
<1>4. ShareGo(r, "share", what) /\ UNCHANGED <<owner, sealed, shares, links, linksMade>>
  BY DEF StartShare
<1>5. QED
  BY <1>2, <1>3, <1>4, GoKeepsInv

LEMMA StartUnshareInv ==
    ASSUME SharingInv, NEW r \in ShareRequests, NEW u \in User, NEW v \in Vault,
           NEW target \in User, StartUnshare(r, u, v, target)
    PROVE  SharingInv'
<1>. DEFINE what == [NoAsk EXCEPT !.user = u, !.vault = v, !.target = target, !.as = "owner"]
<1>1. what \in Asks /\ what.vault = v /\ what.as = "owner"
  BY DEF NoAsk, Asks, VaultRole
<1>2. /\ ShareGo(r, "unshare", what) /\ CanWrite("owner")
      /\ UNCHANGED <<owner, sealed, shares, links, linksMade>>
  BY DEF StartUnshare, CanWrite
<1>3. QED
  BY <1>1, <1>2, GoKeepsInv

LEMMA StartLinkInv ==
    ASSUME SharingInv, NEW r \in ShareRequests, NEW u \in User, NEW v \in Vault,
           StartLink(r, u, v)
    PROVE  SharingInv'
<1>. DEFINE what == [NoAsk EXCEPT !.user = u, !.vault = v, !.as = Granted(v, u)]
<1>1. what \in Asks /\ what.vault = v /\ what.as = Granted(v, u)
  BY GrantedIsARole DEF NoAsk, Asks, VaultRole
<1>2. /\ ShareGo(r, "link", what) /\ CanWrite(Granted(v, u))
      /\ UNCHANGED <<owner, sealed, shares, links, linksMade>>
  BY DEF StartLink
<1>3. QED
  BY <1>1, <1>2, GoKeepsInv

LEMMA StartUnlinkInv ==
    ASSUME SharingInv, NEW r \in ShareRequests, NEW u \in User, NEW v \in Vault,
           StartUnlink(r, u, v)
    PROVE  SharingInv'
<1>. DEFINE what(id) == [NoAsk EXCEPT !.user = u, !.vault = v, !.link = id, !.as = Granted(v, u)]
<1>1. PICK id \in 1 .. linksMade :
        /\ ShareGo(r, "unlink", what(id)) /\ CanWrite(Granted(v, u))
        /\ UNCHANGED <<owner, sealed, shares, links, linksMade>>
  BY DEF StartUnlink
<1>2. id \in Nat
  BY <1>1 DEF SharingInv, SharingTypeOK
<1>3. what(id) \in Asks /\ what(id).vault = v /\ what(id).as = Granted(v, u)
  BY <1>2, GrantedIsARole DEF NoAsk, Asks, VaultRole
<1>4. QED
  BY <1>1, <1>3, GoKeepsInv

LEMMA WriteShareInv ==
    ASSUME SharingInv, NEW r \in ShareRequests, WriteShare(r)
    PROVE  SharingInv'
<1>. DEFINE v == ask[r].vault
            u == ask[r].target
            row == [vault |-> v, user |-> u, role |-> ask[r].role]
<1>1. /\ ShareDone(r) /\ UNCHANGED <<owner, sealed, links, linksMade>>
      /\ shares' = {s \in shares : s.vault # v \/ s.user # u} \cup {row}
  BY DEF WriteShare, WithShare
<1>2. /\ v \in Vault /\ u \in User /\ ask[r].role \in SharedRole
      /\ owner[v] # NoUser /\ owner[v] # u
  BY DEF WriteShare, SharingInv, AskedOK
<1>3. row \in [vault : Vault, user : User, role : SharedRole]
  BY <1>2
<1>4. SharingTypeOK' /\ AskOK' /\ AskedOK'
  BY <1>1, <1>3, DoneKeepsAsks DEF SharingInv, SharingTypeOK
<1>5. OneRowEach'
  BY <1>1 DEF SharingInv, OneRowEach
<1>6. SharedByOthers'
  BY <1>1, <1>2 DEF SharingInv, SharedByOthers
<1>7. QED
  BY <1>4, <1>5, <1>6 DEF SharingInv

LEMMA DropShareInv ==
    ASSUME SharingInv, NEW r \in ShareRequests, DropShare(r)
    PROVE  SharingInv'
<1>1. /\ ShareDone(r) /\ UNCHANGED <<owner, sealed, links, linksMade>>
      /\ shares' \subseteq shares
  BY DEF DropShare
<1>2. SharingTypeOK' /\ AskOK' /\ AskedOK'
  BY <1>1, DoneKeepsAsks DEF SharingInv, SharingTypeOK
<1>3. OneRowEach' /\ SharedByOthers'
  BY <1>1 DEF SharingInv, OneRowEach, SharedByOthers
<1>4. QED
  BY <1>2, <1>3 DEF SharingInv

LEMMA WriteLinkInv ==
    ASSUME SharingInv, NEW r \in ShareRequests, WriteLink(r)
    PROVE  SharingInv'
<1>. DEFINE new == [id |-> linksMade + 1, vault |-> ask[r].vault]
<1>1. /\ ShareDone(r) /\ UNCHANGED <<owner, sealed, shares>>
      /\ linksMade < MaxLinks /\ linksMade' = linksMade + 1 /\ links' = links \cup {new}
  BY DEF WriteLink
<1>2. linksMade \in 0 .. MaxLinks /\ \A l \in links : l \in [id : 1 .. linksMade, vault : Vault]
  BY DEF SharingInv, SharingTypeOK
<1>3. linksMade' \in 0 .. MaxLinks /\ 1 .. linksMade \subseteq 1 .. linksMade'
  BY <1>1, <1>2, SharingAssumption
<1>4. new \in [id : 1 .. linksMade', vault : Vault]
  BY <1>1, <1>2, SharingAssumption DEF WriteLink, SharingInv, AskedOK
<1>5. \A l \in links' : l \in [id : 1 .. linksMade', vault : Vault]
  BY <1>1, <1>2, <1>3, <1>4
<1>6. SharingTypeOK' /\ AskOK' /\ AskedOK'
  BY <1>1, <1>3, <1>5, DoneKeepsAsks DEF SharingInv, SharingTypeOK
<1>7. OneRowEach' /\ SharedByOthers'
  BY <1>1 DEF SharingInv, OneRowEach, SharedByOthers
<1>8. QED
  BY <1>6, <1>7 DEF SharingInv

LEMMA DropLinkInv ==
    ASSUME SharingInv, NEW r \in ShareRequests, DropLink(r)
    PROVE  SharingInv'
<1>1. /\ ShareDone(r) /\ UNCHANGED <<owner, sealed, shares, linksMade>> /\ links' \subseteq links
  BY DEF DropLink
<1>2. SharingTypeOK' /\ AskOK' /\ AskedOK'
  BY <1>1, DoneKeepsAsks DEF SharingInv, SharingTypeOK
<1>3. OneRowEach' /\ SharedByOthers'
  BY <1>1 DEF SharingInv, OneRowEach, SharedByOthers
<1>4. QED
  BY <1>2, <1>3 DEF SharingInv

LEMMA SharingNextInv == SharingInv /\ [SharingNext]_sharingVars => SharingInv'
<1>. SUFFICES ASSUME SharingInv, [SharingNext]_sharingVars PROVE SharingInv'
  OBVIOUS
<1>1. CASE SharingNext
  BY <1>1, CreateVaultInv, StartShareInv, StartUnshareInv, StartLinkInv, StartUnlinkInv,
     WriteShareInv, DropShareInv, WriteLinkInv, DropLinkInv DEF SharingNext
<1>2. CASE UNCHANGED sharingVars
  BY <1>2 DEF sharingVars, SharingInv, SharingTypeOK, AskOK, AskedOK, OneRowEach,
     SharedByOthers, CanWrite
<1>3. QED
  BY <1>1, <1>2

LEMMA SharingSpecInv == SharingSpec => []SharingInv
  BY SharingInitInv, SharingNextInv, PTL DEF SharingSpec

-----------------------------------------------------------------------------
\* Every reachable state of the tables is typed, and a request in flight was
\* begun by somebody who could write the vault at that moment (api.rs).
THEOREM SharingTypeCorrect == SharingSpec => []SharingTypeOK
<1>1. SharingInv => SharingTypeOK
  BY DEF SharingInv
<1>2. QED
  BY <1>1, SharingSpecInv, PTL

\* The vaults a user is shown are those AppState::vault opens for them, with
\* the same role: what list_vaults joins and what vault() asks agree.
THEOREM ListedAlwaysGranted == SharingSpec => []ListedIsGranted
<1>1. SharingInv => ListedIsGranted
  <2>. SUFFICES ASSUME SharingInv, NEW u \in User
       PROVE  Listed(u) = {<<v, Granted(v, u)>> : v \in {w \in Vault : Granted(w, u) # "none"}}
    BY DEF ListedIsGranted
  <2>. DEFINE Opened == {<<v, Granted(v, u)>> : v \in {w \in Vault : Granted(w, u) # "none"}}
  <2>1. ASSUME NEW v \in Owned(u)
        PROVE  <<v, "owner">> \in Opened
    <3>1. v \in Vault /\ Granted(v, u) = "owner"
      BY DEF Owned, Granted
    <3>2. QED
      BY <3>1
  <2>2. ASSUME NEW s \in SharedWith(u)
        PROVE  <<s.vault, s.role>> \in Opened
    <3>1. s \in shares /\ s.user = u /\ s.vault \in Vault /\ s.role \in SharedRole
      BY DEF SharedWith, SharingInv, SharingTypeOK
    <3>2. owner[s.vault] # u /\ s \in ShareRows(s.vault, u)
      BY <3>1 DEF SharingInv, SharedByOthers, ShareRows
    <3>3. Granted(s.vault, u) = s.role
      BY <3>1, <3>2, ShareRoleOf DEF Granted
    <3>4. s.role # "none"
      BY <3>1 DEF SharedRole
    <3>5. QED
      BY <3>1, <3>3, <3>4
  <2>3. ASSUME NEW v \in Vault, Granted(v, u) # "none"
        PROVE  <<v, Granted(v, u)>> \in Listed(u)
    <3>1. CASE owner[v] = u
      BY <3>1 DEF Granted, Listed, Owned
    <3>2. CASE owner[v] # u
      <4>1. Granted(v, u) = ShareRole(v, u)
        BY <3>2 DEF Granted
      <4>2. ShareRows(v, u) # {}
        BY <4>1, <2>3, ShareRoleOf
      <4>3. PICK s \in ShareRows(v, u) : TRUE
        BY <4>2
      <4>4. s \in SharedWith(u) /\ s.vault = v /\ Granted(v, u) = s.role
        BY <4>1, <4>3, ShareRoleOf DEF ShareRows, SharedWith
      <4>5. QED
        BY <4>4 DEF Listed
    <3>3. QED
      BY <3>1, <3>2
  <2>4. Listed(u) \subseteq Opened
    BY <2>1, <2>2 DEF Listed
  <2>5. Opened \subseteq Listed(u)
    BY <2>3
  <2>6. QED
    BY <2>4, <2>5
<1>2. QED
  BY <1>1, SharingSpecInv, PTL

\* A link comes and goes only by a request on its own vault whose caller could
\* write there when it began (api.rs create_link and delete_link, db.rs
\* link_delete), however the requests of any users are interleaved.
THEOREM LinksAlwaysBelong == SharingSpec => LinksBelongToWriters
<1>1. SharingInv /\ [SharingNext]_sharingVars =>
        [\A l \in (links \cup links') :
            (l \in links) # (l \in links') =>
              \E r \in ShareRequests :
                 /\ spc[r] \in {"link", "unlink"} /\ spc'[r] = "idle"
                 /\ ask[r].vault = l.vault /\ CanWrite(ask[r].as)]_sharingVars
  <2>. SUFFICES ASSUME SharingInv, SharingNext, NEW l \in links \cup links',
                       (l \in links) # (l \in links')
       PROVE  \E r \in ShareRequests :
                 /\ spc[r] \in {"link", "unlink"} /\ spc'[r] = "idle"
                 /\ ask[r].vault = l.vault /\ CanWrite(ask[r].as)
    OBVIOUS
  <2>1. PICK r \in ShareRequests : WriteLink(r) \/ DropLink(r)
    BY DEF SharingNext, CreateVault, StartShare, StartUnshare, StartLink, StartUnlink,
       WriteShare, DropShare
  <2>2. spc[r] \in {"link", "unlink"} /\ ShareDone(r)
    BY <2>1 DEF WriteLink, DropLink
  <2>3. spc'[r] = "idle" /\ CanWrite(ask[r].as)
    BY <2>2 DEF ShareDone, ShareGo, SharingInv, SharingTypeOK
  <2>4. ask[r].vault = l.vault
    <3>1. CASE WriteLink(r)
      <4>1. l = [id |-> linksMade + 1, vault |-> ask[r].vault]
        BY <3>1 DEF WriteLink
      <4>2. QED
        BY <4>1
    <3>2. CASE DropLink(r)
      BY <3>2 DEF DropLink, Named
    <3>3. QED
      BY <2>1, <3>1, <3>2
  <2>5. QED
    BY <2>2, <2>3, <2>4
<1>2. QED
  BY <1>1, SharingSpecInv, PTL DEF SharingSpec, LinksBelongToWriters

=============================================================================
