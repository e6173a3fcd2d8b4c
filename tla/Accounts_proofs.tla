--------------------------- MODULE Accounts_proofs ---------------------------
(* Theorems about Accounts, for any requests, addresses, preferences and bounds. *)
EXTENDS Accounts, FiniteSetTheorems, TLAPS

-----------------------------------------------------------------------------
(* The inductive invariants *)

HasAccount(e) == e \in Email /\ user[e] # "none"

\* Every table has a row or none for each of its keys.
Tables ==
    /\ user \in [Email -> {"none", "active", "disabled"}]
    /\ DOMAIN profile = Email /\ DOMAIN token = Token
    /\ plans \in [Email -> Seq(Plan)] /\ \A e \in Email : Len(plans[e]) <= MaxPlans
    /\ issued \in 0 .. MaxTokens /\ embedded \in [Email -> Preference] /\ DOMAIN req = Request

Profiles ==
    \A e \in Email : IF user[e] = "none" THEN profile[e] = NoRow ELSE profile[e] \in Preference

\* A token that was issued and has no row any more; it will not have one again.
Gone(s) == s \in Token /\ s <= issued /\ ~Live(s)

\* A token's row is of its kind, and the tokens it came of are gone.
Tokens ==
    \A t \in Token : Live(t) =>
        /\ token[t] \in TokenRow /\ HasAccount(token[t].owner) /\ t <= issued
        /\ \A s \in token[t].line : Gone(s)

\* What a request has read is of its kind and, but for what a commit may take back,
\* still so.
Reads(r) ==
    /\ req[r].phase = "registering" => req[r].email \in Email
    /\ req[r].phase \in {"login", "updating", "announcing", "unannounced", "listing", "cloning"} =>
         HasAccount(req[r].email)
    /\ req[r].phase = "updating" => req[r].body \in Body
    /\ req[r].phase = "cloning" => req[r].original \in Plan
    /\ req[r].phase = "logout" => req[r].token \in Token
    /\ req[r].phase = "refreshing" =>
         /\ req[r].token \in Token /\ req[r].token <= issued
         /\ HasAccount(req[r].owner) /\ \A s \in req[r].line : Gone(s)

Invariant == Tables /\ Profiles /\ Tokens /\ \A r \in Request : Reads(r)

\* An account without a profile has had no embedding.
Announced ==
    /\ \A e \in Email : user[e] = "none" => embedded[e] = NoWishes
    /\ ChangedPreferencesAnnounced

\* A client that reads on has seen what lies before the next page.
PagesSeen(r) ==
    /\ req[r].phase = "listed" => req[r].wanted \subseteq req[r].seen
    /\ req[r].phase = "listing" =>
         /\ req[r].page \in Nat \ {0} /\ req[r].wanted \subseteq DOMAIN plans[req[r].email]
         /\ \A i \in req[r].wanted :
              Len(plans[req[r].email]) - i < Offset(req[r].page) => i \in req[r].seen

-----------------------------------------------------------------------------
(* Steps of requests *)

LEMMA Moved ==
    ASSUME Tables, NEW r \in Request, NEW record, Becomes(r, record)
    PROVE  /\ DOMAIN req' = Request /\ req'[r] = record
           /\ \A q \in Request : q # r => req'[q] = req[q]
BY DEF Tables, Becomes

\* Accounts are not deleted, tokens are numbered as they are issued, and the row of one
\* that was issued stays what it is or goes.
Grows ==
    /\ \A e \in Email : user[e] # "none" => user'[e] # "none"
    /\ issued <= issued'
    /\ \A t \in Token : t <= issued /\ Live(t)' => Live(t) /\ token'[t].line = token[t].line

LEMMA StaysGone ==
    ASSUME Grows, BoundAssumption, issued \in 0 .. MaxTokens, issued' \in 0 .. MaxTokens, NEW s, Gone(s)
    PROVE  Gone(s)'
BY DEF Grows, Gone, Token

LEMMA ReadsKept ==
    ASSUME Invariant, Tables', Grows, NEW q \in Request, req'[q] = req[q]
    PROVE  Reads(q)'
<1>1. Reads(q)
  BY DEF Invariant
<1>2. \A e : HasAccount(e) => HasAccount(e)'
  BY DEF Grows, HasAccount
<1>3. issued \in Nat /\ issued' \in Nat /\ issued <= issued'
  BY BoundAssumption DEF Grows, Invariant, Tables
<1>4. ASSUME req[q].phase = "refreshing"
      PROVE  /\ req[q].token \in Token /\ req[q].token <= issued'
             /\ HasAccount(req[q].owner)' /\ \A s \in req[q].line : Gone(s)'
  <2>1. /\ req[q].token \in Token /\ req[q].token <= issued
        /\ HasAccount(req[q].owner) /\ \A s \in req[q].line : Gone(s)
    BY <1>1, <1>4 DEF Reads
  <2>2. req[q].token <= issued'
    BY <1>3, <2>1, BoundAssumption DEF Token
  <2>3. \A s \in req[q].line : Gone(s)'
    BY <2>1, StaysGone, BoundAssumption DEF Invariant, Tables
  <2> QED
    BY <1>2, <2>1, <2>2, <2>3
<1> QED
  BY <1>1, <1>2, <1>4 DEF Reads

LEMMA Commits ==
    ASSUME Invariant, NEW r \in Request, NEW record, Becomes(r, record),
           Tables', Profiles', Tokens', Grows, Reads(r)'
    PROVE  Invariant'
<1>1. \A q \in Request : q # r => req'[q] = req[q]
  BY Moved DEF Invariant
<1> QED
  BY <1>1, ReadsKept DEF Invariant

\* A statement that only reads.
LEMMA ReadOnly ==
    ASSUME Invariant, NEW r \in Request, NEW record, Becomes(r, record),
           UNCHANGED <<database, embedded>>, Reads(r)'
    PROVE  Invariant'
<1>1. Tables'
  BY Moved DEF Invariant, Tables, database
<1>2. Profiles'
  BY DEF Invariant, Profiles, database
<1>3. Tokens'
  BY DEF Invariant, Tokens, Gone, Live, HasAccount, database
<1>4. Grows
  BY BoundAssumption DEF Grows, Live, database, Invariant, Tables
<1> QED
  BY <1>1, <1>2, <1>3, <1>4, Commits

LEMMA Answered ==
    ASSUME Invariant, NEW r \in Request, NEW outcome, Answer(r, outcome)
    PROVE  Becomes(r, [phase |-> "answered", outcome |-> outcome]) /\ Reads(r)'
<1>1. req'[r] = [phase |-> "answered", outcome |-> outcome]
  BY Moved DEF Invariant, Answer
<1> QED
  BY <1>1 DEF Reads, Answer

LEMMA Refused ==
    ASSUME Invariant, NEW r \in Request, NEW outcome, Refuse(r, outcome)
    PROVE  Invariant'
BY Answered, ReadOnly DEF Refuse

LEMMA AccountsKept ==
    ASSUME UNCHANGED database, NEW e PROVE HasAccount(e)' <=> HasAccount(e)
BY DEF HasAccount, database

LEMMA SendRegisterStep ==
    ASSUME Invariant, NEW r \in Request, NEW e \in Email, SendRegister(r, e) PROVE Invariant'
<1>1. CASE Refuse(r, "refused")
  BY <1>1, Refused
<1>2. CASE Becomes(r, [phase |-> "registering", email |-> e]) /\ UNCHANGED <<database, embedded>>
  <2>1. req'[r] = [phase |-> "registering", email |-> e]
    BY <1>2, Moved DEF Invariant
  <2>2. Reads(r)'
    BY <2>1 DEF Reads
  <2> QED
    BY <1>2, <2>2, ReadOnly
<1> QED
  BY <1>1, <1>2 DEF SendRegister

LEMMA SendLoginStep ==
    ASSUME Invariant, NEW r \in Request, NEW e \in Email, SendLogin(r, e) PROVE Invariant'
<1>1. CASE Refuse(r, "refused")
  BY <1>1, Refused
<1>2. CASE /\ user[e] = "active" /\ Becomes(r, [phase |-> "login", email |-> e])
           /\ UNCHANGED <<database, embedded>>
  <2>1. req'[r] = [phase |-> "login", email |-> e]
    BY <1>2, Moved DEF Invariant
  <2>2. HasAccount(e)'
    BY <1>2, AccountsKept DEF HasAccount
  <2>3. Reads(r)'
    BY <2>1, <2>2 DEF Reads, HasAccount
  <2> QED
    BY <1>2, <2>3, ReadOnly
<1> QED
  BY <1>1, <1>2 DEF SendLogin

LEMMA SendRefreshStep ==
    ASSUME Invariant, NEW r \in Request, NEW t \in Token, SendRefresh(r, t) PROVE Invariant'
<1>1. CASE Refuse(r, "refused")
  BY <1>1, Refused
<1> DEFINE record == [phase |-> "refreshing", token |-> t, owner |-> token[t].owner,
                      line |-> token[t].line]
<1>2. CASE Live(t) /\ Becomes(r, record) /\ UNCHANGED <<database, embedded>>
  <2>1. req'[r] = record
    BY <1>2, Moved DEF Invariant
  <2>2. /\ token[t] \in TokenRow /\ HasAccount(token[t].owner) /\ t <= issued
        /\ \A s \in token[t].line : Gone(s)
    BY <1>2 DEF Invariant, Tokens
  <2>3. token' = token /\ issued' = issued /\ HasAccount(token[t].owner)'
    BY <1>2, <2>2, AccountsKept DEF database
  <2>4. Reads(r)'
    BY <2>1, <2>2, <2>3 DEF Reads, TokenRow, Live, Gone
  <2> QED
    BY <1>2, <2>4, ReadOnly
<1> QED
  BY <1>1, <1>2 DEF SendRefresh

LEMMA SendLogoutStep ==
    ASSUME Invariant, NEW r \in Request, NEW t \in Token, SendLogout(r, t) PROVE Invariant'
<1>1. CASE Answer(r, "ok")
  BY <1>1, Refused DEF Refuse, SendLogout
<1>2. CASE Becomes(r, [phase |-> "logout", token |-> t])
  <2>1. req'[r] = [phase |-> "logout", token |-> t]
    BY <1>2, Moved DEF Invariant
  <2>2. Reads(r)'
    BY <2>1 DEF Reads, Token
  <2> QED
    BY <1>2, <2>2, ReadOnly DEF SendLogout
<1> QED
  BY <1>1, <1>2 DEF SendLogout

\* A request of an authenticated user.
LEMMA EnterStep ==
    ASSUME Invariant, NEW r \in Request, NEW e \in Email, NEW record, Enter(r, e, record),
           HasAccount(e) /\ req'[r] = record => Reads(r)'
    PROVE  Invariant'
<1>1. CASE Refuse(r, "refused")
  BY <1>1, Refused
<1>2. CASE Authenticated(e) /\ Becomes(r, record) /\ UNCHANGED <<database, embedded>>
  <2>1. req'[r] = record /\ HasAccount(e)
    BY <1>2, Moved DEF Invariant, Authenticated, HasAccount
  <2> QED
    BY <1>2, <2>1, ReadOnly
<1> QED
  BY <1>1, <1>2 DEF Enter

LEMMA EnterKeeps ==
    ASSUME Invariant, NEW r \in Request, NEW e \in Email, NEW record, Enter(r, e, record)
    PROVE  UNCHANGED <<database, embedded>>
BY DEF Enter, Refuse

LEMMA SendUpdateStep ==
    ASSUME Invariant, NEW r \in Request, NEW e \in Email, NEW body \in Body, SendUpdate(r, e, body)
    PROVE  Invariant'
<1> DEFINE record == [phase |-> "updating", email |-> e, body |-> body, loaded |-> profile[e]]
<1>1. Enter(r, e, record)
  BY DEF SendUpdate
<1>2. ASSUME HasAccount(e), req'[r] = record PROVE Reads(r)'
  <2>1. HasAccount(e)'
    BY <1>1, <1>2, EnterKeeps, AccountsKept
  <2>2. Body' = Body
    BY DEF Body
  <2> QED
    BY <1>2, <2>1, <2>2 DEF Reads
<1> QED
  BY <1>1, <1>2, EnterStep

LEMMA SendListStep ==
    ASSUME Invariant, NEW r \in Request, NEW e \in Email, SendList(r, e) PROVE Invariant'
<1> DEFINE record == [phase |-> "listing", email |-> e, page |-> 1, seen |-> {},
                      wanted |-> DOMAIN plans[e]]
<1>1. Enter(r, e, record)
  BY DEF SendList
<1>2. ASSUME HasAccount(e), req'[r] = record PROVE Reads(r)'
  <2>1. HasAccount(e)'
    BY <1>1, <1>2, EnterKeeps, AccountsKept
  <2> QED
    BY <1>2, <2>1 DEF Reads
<1> QED
  BY <1>1, <1>2, EnterStep

LEMMA SendCloneStep ==
    ASSUME Invariant, NEW r \in Request, NEW e \in Email, NEW i \in DOMAIN plans[e], SendClone(r, e, i)
    PROVE  Invariant'
<1> DEFINE record == [phase |-> "cloning", email |-> e, original |-> plans[e][i]]
<1>1. Enter(r, e, record)
  BY DEF SendClone
<1>2. ASSUME HasAccount(e), req'[r] = record PROVE Reads(r)'
  <2>1. HasAccount(e)'
    BY <1>1, <1>2, EnterKeeps, AccountsKept
  <2>2. plans[e][i] \in Plan
    BY DEF Invariant, Tables
  <2> QED
    BY <1>2, <2>1, <2>2 DEF Reads
<1> QED
  BY <1>1, <1>2, EnterStep

LEMMA ReadStep ==
    ASSUME Invariant, NEW r \in Request, NEW e \in Email, Read(r, e) \/ GetProfile(r, e) \/ Detail(r, e)
    PROVE  Invariant'
BY Refused DEF Read, GetProfile, Detail

LEMMA ListPageStep ==
    ASSUME Invariant, NEW r \in Request, ListPage(r) PROVE Invariant'
<1> DEFINE rows == Rows(req[r].email, req[r].page)
           next == [req[r] EXCEPT !.page = @ + 1, !.seen = req[r].seen \cup rows]
           last == [phase |-> "listed", seen |-> req[r].seen \cup rows, wanted |-> req[r].wanted]
<1>1. req[r].phase = "listing" /\ HasAccount(req[r].email) /\ UNCHANGED <<database, embedded>>
  BY DEF ListPage, Invariant, Reads
<1>2. HasAccount(req[r].email)'  <=> req'[r].email \in Email /\ user[req'[r].email] # "none"
  BY <1>1 DEF HasAccount, database
<1>3. CASE Becomes(r, next)
  <2>1. req'[r] = next
    BY <1>3, Moved DEF Invariant
  <2>2. req'[r].phase = req[r].phase /\ req'[r].email = req[r].email
    BY <2>1
  <2>3. Reads(r)'
    BY <1>1, <2>2 DEF Reads, HasAccount, database
  <2> QED
    BY <1>1, <1>3, <2>3, ReadOnly
<1>4. CASE Becomes(r, last)
  <2>1. req'[r] = last
    BY <1>4, Moved DEF Invariant
  <2>2. Reads(r)'
    BY <2>1 DEF Reads
  <2> QED
    BY <1>1, <1>4, <2>2, ReadOnly
<1> QED
  BY <1>3, <1>4 DEF ListPage

LEMMA DropStep ==
    ASSUME Invariant, NEW r \in Request, Drop(r) PROVE Invariant'
<1>1. UNCHANGED <<database, embedded>>
  BY DEF Drop
<1>2. CASE Becomes(r, [phase |-> "dropped"])
  <2>1. req'[r] = [phase |-> "dropped"]
    BY <1>2, Moved DEF Invariant
  <2>2. Reads(r)'
    BY <2>1 DEF Reads
  <2> QED
    BY <1>1, <1>2, <2>2, ReadOnly
<1>3. CASE req[r].phase = "announcing" /\ Becomes(r, [phase |-> "unannounced", email |-> req[r].email])
  <2>1. req'[r] = [phase |-> "unannounced", email |-> req[r].email]
    BY <1>3, Moved DEF Invariant
  <2>2. HasAccount(req[r].email)
    BY <1>3 DEF Invariant, Reads
  <2>3. Reads(r)'
    BY <1>1, <2>1, <2>2 DEF Reads, HasAccount, database
  <2> QED
    BY <1>1, <1>3, <2>3, ReadOnly
<1> QED
  BY <1>2, <1>3 DEF Drop

-----------------------------------------------------------------------------
(* Commits *)

\* A token table after create_refresh_token.
LEMMA TokenAdded ==
    ASSUME Invariant, issued < MaxTokens, issued' = issued + 1,
           NEW rows, DOMAIN rows = Token,
           \A t \in Token : rows[t] \in {token[t], NoToken},
           NEW owner, NEW line, token' = WithToken(rows, owner, line)
    PROVE  /\ DOMAIN token' = Token /\ issued' \in 0 .. MaxTokens /\ issued' \in Token
           /\ token'[issued'] = [owner |-> owner, line |-> line, expired |-> FALSE]
           /\ \A t \in Token : t # issued' => token'[t] = rows[t]
           /\ issued <= issued' /\ \A t \in Token : t <= issued => t # issued'
<1>1. issued \in 0 .. MaxTokens /\ MaxTokens \in Nat
  BY BoundAssumption DEF Invariant, Tables
<1>2. issued + 1 \in Token /\ issued + 1 \in 0 .. MaxTokens /\ issued <= issued + 1
      /\ \A t \in Token : t <= issued => t # issued + 1
  BY <1>1 DEF Token
<1> QED
  BY <1>2 DEF WithToken

LEMMA TokensAdded ==
    ASSUME Invariant, issued < MaxTokens, issued' = issued + 1,
           NEW rows, DOMAIN rows = Token,
           \A t \in Token : rows[t] \in {token[t], NoToken},
           NEW owner, NEW line, token' = WithToken(rows, owner, line),
           owner \in Email, user'[owner] # "none", \A s \in line : s \in Token /\ s <= issued /\ rows[s] = NoToken,
           \A e \in Email : user[e] # "none" => user'[e] # "none"
    PROVE  Tokens' /\ Grows
<1>1. /\ issued' \in Token /\ token'[issued'] = [owner |-> owner, line |-> line, expired |-> FALSE]
      /\ \A t \in Token : t # issued' => token'[t] = rows[t]
      /\ issued <= issued' /\ \A t \in Token : t <= issued => t # issued'
  BY TokenAdded
<1>2. issued \in Nat /\ issued' \in Nat /\ MaxTokens \in Nat
  BY BoundAssumption DEF Invariant, Tables
<1>3. ASSUME NEW t \in Token, token'[t] # NoToken
      PROVE  /\ token'[t] \in TokenRow /\ t <= issued' /\ \A s \in token'[t].line : Gone(s)'
             /\ token'[t].owner \in Email /\ user'[token'[t].owner] # "none"
  <2>1. CASE t = issued'
    <3>1. token'[t] = [owner |-> owner, line |-> line, expired |-> FALSE]
      BY <1>1, <2>1
    <3>2. token'[t] \in TokenRow
      BY <3>1 DEF TokenRow
    <3>3. \A s \in line : Gone(s)'
      BY <1>1, <1>2 DEF Gone, Live, Token
    <3> QED
      BY <1>2, <2>1, <3>1, <3>2, <3>3
  <2>2. CASE t # issued'
    <3>1. token'[t] = token[t] /\ token[t] # NoToken
      BY <1>1, <1>3, <2>2
    <3>2. /\ token[t] \in TokenRow /\ HasAccount(token[t].owner) /\ t <= issued
          /\ \A s \in token[t].line : Gone(s)
      BY <3>1 DEF Invariant, Tokens, Live
    <3>3. token[t].owner \in Email /\ user'[token[t].owner] # "none"
      BY <3>2 DEF HasAccount
    <3>4. t <= issued'
      BY <1>1, <1>2, <3>2 DEF Token
    <3>5. \A s \in token[t].line : Gone(s)'
      BY <1>1, <1>2, <3>2 DEF Gone, Live, Token
    <3> QED
      BY <3>1, <3>2, <3>3, <3>4, <3>5
  <2> QED
    BY <2>1, <2>2
<1>4. Tokens'
  BY <1>3 DEF Tokens, Live, Token, TokenRow, HasAccount
<1>5. ASSUME NEW t \in Token, t <= issued, Live(t)'
      PROVE  Live(t) /\ token'[t].line = token[t].line
  <2>1. token'[t] = token[t]
    BY <1>1, <1>5 DEF Live
  <2> QED
    BY <1>5, <2>1 DEF Live
<1>6. Grows
  BY <1>1, <1>5 DEF Grows
<1> QED
  BY <1>6, <1>4

LEMMA RegisterStep ==
    ASSUME Invariant, NEW r \in Request, Register(r) PROVE Invariant'
<1> DEFINE e == req[r].email
<1>1. e \in Email
  BY DEF Register, Invariant, Reads
<1>2. CASE Refuse(r, "error")
  BY <1>2, Refused
<1>3. CASE /\ user[e] = "none" /\ issued < MaxTokens
           /\ user' = [user EXCEPT ![e] = "active"] /\ profile' = [profile EXCEPT ![e] = NoWishes]
           /\ token' = WithToken(token, e, {}) /\ issued' = issued + 1
           /\ Answer(r, "ok") /\ UNCHANGED <<plans, embedded>>
  <2> HIDE DEF e
  <2>1. issued' \in 0 .. MaxTokens /\ DOMAIN token' = Token /\ issued + 1 \in Token
    BY <1>3, TokenAdded DEF Invariant, Tables
  <2>2. user' \in [Email -> {"none", "active", "disabled"}] /\ DOMAIN profile' = Email
    BY <1>3 DEF Invariant, Tables
  <2>3. DOMAIN req' = Request
    BY <1>3, Answered, Moved DEF Invariant
  <2>4. Tables'
    BY <1>3, <2>1, <2>2, <2>3 DEF Invariant, Tables
  <2>5. \A d \in Email : /\ user'[d] = IF d = e THEN "active" ELSE user[d]
                         /\ profile'[d] = IF d = e THEN NoWishes ELSE profile[d]
    BY <1>3 DEF Invariant, Tables
  <2>6. Profiles'
    BY <2>5, WishAssumption DEF Invariant, Profiles
  <2>7. e \in Email /\ user'[e] # "none" /\ \A d \in Email : user[d] # "none" => user'[d] # "none"
    BY <1>1, <2>5
  <2>8. DOMAIN token = Token /\ \A t \in Token : token[t] \in {token[t], NoToken}
    BY DEF Invariant, Tables
  <2>9. \A s \in {} : s \in Token /\ s <= issued /\ token[s] = NoToken
    OBVIOUS
  <2>10. Tokens' /\ Grows
    BY <1>3, <2>7, <2>8, <2>9, TokensAdded
  <2> QED
    BY <1>3, <2>4, <2>6, <2>10, Answered, Commits
<1> QED
  BY <1>2, <1>3 DEF Register

\* A commit that adds a token and touches no account.
LEMMA TokenCommit ==
    ASSUME Invariant, NEW r \in Request, issued < MaxTokens, issued' = issued + 1,
           NEW rows, DOMAIN rows = Token,
           \A t \in Token : rows[t] \in {token[t], NoToken},
           NEW owner, NEW line, token' = WithToken(rows, owner, line),
           HasAccount(owner), \A s \in line : s \in Token /\ s <= issued /\ rows[s] = NoToken,
           Answer(r, "ok"), UNCHANGED <<user, profile, plans, embedded>>
    PROVE  Invariant'
<1>1. issued' \in 0 .. MaxTokens /\ DOMAIN token' = Token
  BY TokenAdded
<1>2. DOMAIN req' = Request
  BY Answered, Moved DEF Invariant
<1>3. Tables'
  BY <1>1, <1>2 DEF Invariant, Tables
<1>4. Profiles'
  BY DEF Invariant, Profiles
<1>5. Tokens' /\ Grows
  BY TokensAdded DEF HasAccount
<1> QED
  BY <1>3, <1>4, <1>5, Answered, Commits

LEMMA LoginStep ==
    ASSUME Invariant, NEW r \in Request, Login(r) PROVE Invariant'
<1>1. HasAccount(req[r].email) /\ DOMAIN token = Token
  BY DEF Login, Invariant, Reads, Tables
<1> QED
  BY <1>1, TokenCommit DEF Login

LEMMA RefreshStep ==
    ASSUME Invariant, NEW r \in Request, Refresh(r) PROVE Invariant'
<1> DEFINE old == req[r].token
           rows == [token EXCEPT ![old] = NoToken]
           line == req[r].line \cup {old}
<1>1. /\ issued < MaxTokens /\ issued' = issued + 1 /\ token' = WithToken(rows, req[r].owner, line)
      /\ Answer(r, "ok") /\ UNCHANGED <<user, profile, plans, embedded>>
  BY DEF Refresh
<1>2. /\ old \in Token /\ old <= issued /\ HasAccount(req[r].owner)
      /\ \A s \in req[r].line : Gone(s)
  BY DEF Refresh, Invariant, Reads
<1>3. DOMAIN rows = Token /\ \A t \in Token : rows[t] = IF t = old THEN NoToken ELSE token[t]
  BY DEF Invariant, Tables
<1>4. \A s \in line : s \in Token /\ s <= issued /\ rows[s] = NoToken
  BY <1>2, <1>3 DEF Gone, Live
<1>5. \A t \in Token : rows[t] \in {token[t], NoToken}
  BY <1>3
<1> HIDE DEF rows, line
<1> QED
  BY <1>1, <1>2, <1>3, <1>4, <1>5, TokenCommit

\* A commit that leaves the accounts and the tokens.
LEMMA OtherCommit ==
    ASSUME Invariant, NEW r \in Request, NEW record, Becomes(r, record),
           UNCHANGED <<user, token, issued>>, DOMAIN profile' = Email, Profiles',
           plans' \in [Email -> Seq(Plan)], \A e \in Email : Len(plans'[e]) <= MaxPlans,
           embedded' \in [Email -> Preference], Reads(r)'
    PROVE  Invariant'
<1>1. Tables'
  BY Moved DEF Invariant, Tables
<1>2. Tokens'
  BY DEF Invariant, Tokens, Gone, Live, HasAccount
<1>3. Grows
  BY BoundAssumption DEF Grows, Live, Invariant, Tables
<1> QED
  BY <1>1, <1>2, <1>3, Commits

LEMMA LogoutStep ==
    ASSUME Invariant, NEW r \in Request, Logout(r) PROVE Invariant'
<1>1. DOMAIN token' = Token /\ \A t \in Token : token'[t] \in {token[t], NoToken}
  BY DEF Logout, Invariant, Tables
<1>2. DOMAIN req' = Request
  BY Answered, Moved DEF Invariant, Logout
<1>3. Tables'
  BY <1>1, <1>2 DEF Logout, Invariant, Tables
<1>4. Profiles'
  BY DEF Logout, Invariant, Profiles
<1>5. Tokens'
  BY <1>1 DEF Logout, Invariant, Tokens, Gone, Live, HasAccount
<1>6. Grows
  BY <1>1, BoundAssumption DEF Logout, Grows, Live, Invariant, Tables
<1> QED
  BY <1>3, <1>4, <1>5, <1>6, Answered, Commits DEF Logout

LEMMA UpdateStep ==
    ASSUME Invariant, NEW r \in Request, Update(r) PROVE Invariant'
<1> DEFINE e == req[r].email
<1>1. HasAccount(e) /\ req[r].body \in Body
  BY DEF Update, Invariant, Reads
<1>2. UNCHANGED <<user, token, issued, plans, embedded>>
  BY DEF Update
<1>3. \/ profile' = profile
      \/ req[r].body \in Preference /\ profile' = [profile EXCEPT ![e] = req[r].body]
  BY <1>1 DEF Update, Body
<1>4. DOMAIN profile' = Email /\ Profiles'
  BY <1>1, <1>2, <1>3 DEF Invariant, Tables, Profiles, HasAccount
<1>5. CASE Becomes(r, [phase |-> "announcing", email |-> e])
  <2>1. req'[r] = [phase |-> "announcing", email |-> e]
    BY <1>5, Moved DEF Invariant
  <2>2. Reads(r)'
    BY <1>1, <1>2, <2>1 DEF Reads, HasAccount
  <2> QED
    BY <1>2, <1>4, <1>5, <2>2, OtherCommit DEF Invariant, Tables
<1>6. CASE Answer(r, "ok")
  BY <1>2, <1>4, <1>6, Answered, OtherCommit DEF Invariant, Tables
<1> QED
  BY <1>5, <1>6 DEF Update

LEMMA AnnounceStep ==
    ASSUME Invariant, NEW r \in Request, Announce(r) PROVE Invariant'
<1> DEFINE e == req[r].email
<1>1. HasAccount(e) /\ UNCHANGED database
  BY DEF Announce, Invariant, Reads
<1>2. profile[e] \in Preference
  BY <1>1 DEF Invariant, Profiles, HasAccount
<1>3. embedded' \in [Email -> Preference]
  BY <1>2 DEF Announce, Invariant, Tables
<1>4. Profiles' /\ UNCHANGED <<user, token, issued, plans, profile>>
  BY <1>1 DEF Invariant, Profiles, database
<1>5. CASE Answer(r, "ok")
  BY <1>3, <1>4, <1>5, Answered, OtherCommit DEF Invariant, Tables
<1>6. CASE Becomes(r, [phase |-> "unannounced", email |-> e])
  <2>1. req'[r] = [phase |-> "unannounced", email |-> e]
    BY <1>6, Moved DEF Invariant
  <2>2. Reads(r)'
    BY <1>1, <1>4, <2>1 DEF Reads, HasAccount
  <2> QED
    BY <1>3, <1>4, <1>6, <2>2, OtherCommit DEF Invariant, Tables
<1> QED
  BY <1>5, <1>6 DEF Announce

LEMMA CloneStep ==
    ASSUME Invariant, NEW r \in Request, Clone(r) PROVE Invariant'
<1> DEFINE e == req[r].email
           copy == [slots |-> req[r].original.slots, booked |-> {}]
<1>1. e \in Email /\ copy \in Plan
  BY DEF Clone, Invariant, Reads, HasAccount, Plan
<1>2. Len(plans[e]) < MaxPlans /\ plans' = [plans EXCEPT ![e] = Append(plans[e], copy)]
  BY <1>1 DEF Clone, Invariant, Tables
<1> HIDE DEF e, copy
<1>3. plans[e] \in Seq(Plan)
  BY <1>1 DEF Invariant, Tables
<1>4. Append(plans[e], copy) \in Seq(Plan) /\ Len(Append(plans[e], copy)) = Len(plans[e]) + 1
  BY <1>1, <1>3
<1>5. Len(plans[e]) + 1 <= MaxPlans
  BY <1>2, <1>3, BoundAssumption
<1>6. plans' \in [Email -> Seq(Plan)] /\ \A d \in Email : Len(plans'[d]) <= MaxPlans
  BY <1>1, <1>2, <1>4, <1>5 DEF Invariant, Tables
<1>7. Profiles' /\ UNCHANGED <<user, token, issued, profile, embedded>> /\ Answer(r, "ok")
  BY DEF Invariant, Profiles, Clone
<1> QED
  BY <1>6, <1>7, Answered, OtherCommit DEF Invariant, Tables

\* Steps that are no request's.
LEMMA WorldStep ==
    ASSUME Invariant, req' = req, Tables', Profiles', Tokens', Grows PROVE Invariant'
BY ReadsKept DEF Invariant

LEMMA TokenExpiresStep ==
    ASSUME Invariant, NEW t \in Token, TokenExpires(t) PROVE Invariant'
<1>1. token' = [token EXCEPT ![t].expired = TRUE]
      /\ UNCHANGED <<user, profile, issued, plans, embedded, req>> /\ Live(t)
  BY DEF TokenExpires
<1>2. DOMAIN token' = Token /\ \A s \in Token : s # t => token'[s] = token[s]
  BY <1>1 DEF Invariant, Tables
<1>3. token[t] \in TokenRow /\ DOMAIN token = Token
  BY <1>1 DEF Invariant, Tables, Tokens
<1>4. token'[t] = [token[t] EXCEPT !.expired = TRUE]
  BY <1>1, <1>3
<1>5. token'[t] \in TokenRow /\ token'[t].owner = token[t].owner /\ token'[t].line = token[t].line
  BY <1>3, <1>4 DEF TokenRow
<1>6. Tables' /\ Profiles'
  BY <1>1, <1>2 DEF Invariant, Tables, Profiles
<1>7. \A e : HasAccount(e)' <=> HasAccount(e)
  BY <1>1 DEF HasAccount
<1>8. Tokens'
  BY <1>1, <1>2, <1>5, <1>7 DEF Invariant, Tokens, Gone, Live, HasAccount
<1>9. Grows
  BY <1>1, <1>2, <1>5, BoundAssumption DEF Grows, Live, Invariant, Tables
<1> QED
  BY <1>1, <1>6, <1>8, <1>9, WorldStep

LEMMA DisableStep ==
    ASSUME Invariant, NEW e \in Email, Disable(e) PROVE Invariant'
<1>1. user' = [user EXCEPT ![e] = "disabled"] /\ user[e] = "active"
      /\ UNCHANGED <<profile, token, issued, plans, embedded, req>>
  BY DEF Disable
<1>2. /\ user' \in [Email -> {"none", "active", "disabled"}]
      /\ \A d \in Email : user'[d] = "none" <=> user[d] = "none"
  BY <1>1 DEF Invariant, Tables
<1>3. Tables' /\ Profiles'
  BY <1>1, <1>2 DEF Invariant, Tables, Profiles
<1>4. Tokens'
  BY <1>1, <1>2 DEF Invariant, Tokens, Gone, Live, HasAccount
<1>5. Grows
  BY <1>1, <1>2, BoundAssumption DEF Grows, Live, Invariant, Tables
<1> QED
  BY <1>1, <1>3, <1>4, <1>5, WorldStep

LEMMA InvariantStep == Invariant /\ [Next]_vars => Invariant'
<1> SUFFICES ASSUME Invariant, [Next]_vars PROVE Invariant'
  OBVIOUS
<1>1. ASSUME NEW r \in Request, Auth(r) PROVE Invariant'
  BY <1>1, SendRegisterStep, SendLoginStep, SendRefreshStep, SendLogoutStep, RegisterStep, LoginStep,
     RefreshStep, LogoutStep DEF Auth
<1>2. ASSUME NEW r \in Request, UserCentre(r) PROVE Invariant'
  BY <1>2, ReadStep, SendListStep, SendUpdateStep, SendCloneStep, UpdateStep, AnnounceStep,
     ListPageStep, CloneStep DEF UserCentre
<1>3. CASE UNCHANGED vars
  <2>1. Tables' /\ Profiles'
    BY <1>3 DEF vars, Invariant, Tables, Profiles
  <2>2. Tokens' /\ Grows
    BY <1>3, BoundAssumption DEF vars, Invariant, Tables, Tokens, Gone, Live, HasAccount, Grows
  <2> QED
    BY <1>3, <2>1, <2>2, WorldStep DEF vars
<1> QED
  BY <1>1, <1>2, <1>3, DropStep, TokenExpiresStep, DisableStep DEF Next

LEMMA InvariantInit == Init => Invariant
<1> SUFFICES ASSUME Init PROVE Invariant
  OBVIOUS
<1> DEFINE n == Cardinality(Email)
<1>1. n \in Nat /\ n <= MaxTokens /\ issued = n
  BY EmailAssumption, FS_CardinalityType DEF Init
<1> HIDE DEF n
<1>2. PICK over \in BOOLEAN, first \in FirstTokens :
         token = [t \in Token |->
                    IF \E e \in Email : first[e] = t /\ user[e] # "none"
                    THEN [owner |-> CHOOSE e \in Email : first[e] = t, line |-> {}, expired |-> over]
                    ELSE NoToken]
  BY DEF Init
<1>3. first \in [Email -> 1 .. n] /\ \A e, d \in Email : first[e] = first[d] => e = d
  BY DEF FirstTokens, n
<1>4. SavedPlan \in Plan
  BY DEF SavedPlan, Plan, Slot
<1>5. plans \in [Email -> Seq(Plan)] /\ \A e \in Email : Len(plans[e]) <= MaxPlans
  <2>1. <<SavedPlan>> \in Seq(Plan) /\ Len(<<SavedPlan>>) = 1 /\ << >> \in Seq(Plan) /\ Len(<< >>) = 0
    BY <1>4
  <2>2. 1 <= MaxPlans /\ 0 <= MaxPlans
    BY BoundAssumption
  <2> QED
    BY <2>1, <2>2 DEF Init
<1>6. Tables
  BY <1>1, <1>2, <1>5, BoundAssumption, WishAssumption DEF Init, Tables
<1>7. Profiles
  BY WishAssumption DEF Init, Profiles
<1>8. ASSUME NEW t \in Token, Live(t)
      PROVE  /\ token[t] \in TokenRow /\ HasAccount(token[t].owner) /\ t <= issued
             /\ \A s \in token[t].line : Gone(s)
  <2>1. PICK e \in Email : first[e] = t /\ user[e] # "none"
    BY <1>2, <1>8 DEF Live
  <2>2. token[t] = [owner |-> CHOOSE d \in Email : first[d] = t, line |-> {}, expired |-> over]
    BY <1>2, <2>1
  <2>3. (CHOOSE d \in Email : first[d] = t) = e
    BY <1>3, <2>1
  <2>4. t <= issued
    BY <1>1, <1>3, <2>1
  <2> QED
    BY <1>2, <2>1, <2>2, <2>3, <2>4 DEF TokenRow, HasAccount
<1>9. \A r \in Request : Reads(r)
  BY DEF Init, Reads
<1> QED
  BY <1>6, <1>7, <1>8, <1>9 DEF Invariant, Tokens

\* The inductive invariant: the tables agree with each other, and what a request
\* has read still holds when it commits.
THEOREM InvariantHolds == Spec => []Invariant
BY InvariantInit, InvariantStep, PTL DEF Spec

\* Every table and every request of the account endpoints keeps its type, whatever
\* commits fall between a request's statements.
THEOREM TypeCorrect == Spec => []TypeOK
<1>1. Invariant => TypeOK
  BY DEF Invariant, Tables, Profiles, Tokens, HasAccount, TypeOK
<1> QED
  BY <1>1, InvariantHolds, PTL

-----------------------------------------------------------------------------
(* Sessions *)

\* A token that was exchanged is never live beside one that came of it, however many
\* refreshes and logouts read its row before (auth.refresh, revoke_refresh_token).
THEOREM ExchangedTokensAreGoneHolds == Spec => []ExchangedTokensAreGone
<1>1. Invariant => ExchangedTokensAreGone
  BY DEF Invariant, Tokens, Gone, ExchangedTokensAreGone
<1> QED
  BY <1>1, InvariantHolds, PTL

\* Where a live token, and a refresh that is to commit, may come from.
Continues ==
    /\ issued <= issued'
    /\ \A t \in Token : Live(t)' =>
         \/ Live(t) /\ token'[t].line = token[t].line
         \/ t = issued + 1 /\ token'[t].line = {}
         \/ t = issued + 1 /\ \E r \in Request :
              req[r].phase = "refreshing" /\ token'[t].line = req[r].line \cup {req[r].token}
    /\ \A r \in Request : req'[r].phase = "refreshing" =>
         \/ req'[r] = req[r]
         \/ Live(req'[r].token) /\ req'[r].token \in Token /\ req'[r].line = token[req'[r].token].line

LEMMA ContinuesEnded ==
    ASSUME Tables, Tables', Continues, NEW s \in Token, Ended(s) PROVE Ended(s)'
<1>1. issued \in Nat /\ issued' \in Nat /\ s \in Nat /\ s <= issued /\ issued <= issued'
  BY BoundAssumption DEF Tables, Continues, Ended, Token
<1>2. s # issued + 1
  BY <1>1
<1>3. ASSUME NEW t \in Token, Live(t)' PROVE s # t /\ s \notin token'[t].line
  BY <1>2, <1>3 DEF Continues, Ended
<1>4. ASSUME NEW r \in Request, req'[r].phase = "refreshing"
      PROVE  s # req'[r].token /\ s \notin req'[r].line
  BY <1>4 DEF Continues, Ended
<1>5. s <= issued'
  BY <1>1
<1> QED
  BY <1>3, <1>4, <1>5 DEF Ended, Token, Live

\* A step that issues no token and begins no refresh.
LEMMA ContinuesFewer ==
    ASSUME Tables, issued' = issued,
           \A t \in Token : Live(t)' => Live(t) /\ token'[t].line = token[t].line,
           \A q \in Request : req'[q] = req[q] \/ req'[q].phase # "refreshing"
    PROVE  Continues
BY BoundAssumption DEF Tables, Continues

\* The request that commits a token is answered.
LEMMA ContinuesAdded ==
    ASSUME Invariant, NEW r \in Request, Answer(r, "ok"), issued < MaxTokens, issued' = issued + 1,
           NEW rows, DOMAIN rows = Token,
           \A t \in Token : rows[t] \in {token[t], NoToken},
           NEW owner, NEW line, token' = WithToken(rows, owner, line),
           line = {} \/ (req[r].phase = "refreshing" /\ line = req[r].line \cup {req[r].token})
    PROVE  Continues
<1>1. /\ token'[issued'] = [owner |-> owner, line |-> line, expired |-> FALSE] /\ issued <= issued'
      /\ \A t \in Token : t # issued' => token'[t] = rows[t]
  BY TokenAdded
<1>2. \A q \in Request : req'[q] = req[q] \/ req'[q].phase # "refreshing"
  BY Moved DEF Answer, Invariant
<1> QED
  BY <1>1, <1>2 DEF Continues, Live

LEMMA ContinuesStep ==
    ASSUME Invariant, [Next]_vars PROVE Continues
<1> DEFINE Others == \A q \in Request : req'[q] = req[q] \/ req'[q].phase # "refreshing"
<1>1. ASSUME NEW record, NEW r \in Request, Becomes(r, record), record.phase # "refreshing" PROVE Others
  BY <1>1, Moved DEF Invariant
<1>2. ASSUME NEW r \in Request, NEW outcome, Answer(r, outcome) PROVE Others
  BY <1>1, <1>2 DEF Answer
<1>3. ASSUME UNCHANGED <<token, issued>>, Others PROVE Continues
  BY <1>3, ContinuesFewer DEF Live, Invariant
<1>4. ASSUME NEW r \in Request, NEW outcome, Refuse(r, outcome) PROVE Continues
  BY <1>2, <1>3, <1>4 DEF Refuse, database
<1>5. ASSUME NEW r \in Request, NEW record, NEW e \in Email, Enter(r, e, record), record.phase # "refreshing"
      PROVE  Continues
  BY <1>1, <1>3, <1>4, <1>5 DEF Enter, database
<1> HIDE DEF Others
<1>6. ASSUME NEW r \in Request, Auth(r) PROVE Continues
  <2>1. DOMAIN token = Token /\ \A t \in Token : token[t] \in {token[t], NoToken}
    BY DEF Invariant, Tables
  <2>2. CASE Register(r)
    <3>1. CASE Refuse(r, "error")
      BY <1>4, <3>1
    <3>2. CASE ~Refuse(r, "error")
      <4>1. /\ token' = WithToken(token, req[r].email, {}) /\ issued < MaxTokens
            /\ issued' = issued + 1 /\ Answer(r, "ok")
        BY <2>2, <3>2 DEF Register
      <4> QED
        BY <2>1, <4>1, ContinuesAdded
    <3> QED
      BY <3>1, <3>2
  <2>3. CASE Login(r)
    <3>1. /\ token' = WithToken(token, req[r].email, {}) /\ issued < MaxTokens
          /\ issued' = issued + 1 /\ Answer(r, "ok")
      BY <2>3 DEF Login
    <3> QED
      BY <2>1, <3>1, ContinuesAdded
  <2>4. CASE Refresh(r)
    <3> DEFINE rows == [token EXCEPT ![req[r].token] = NoToken]
    <3>1. DOMAIN rows = Token /\ \A t \in Token : rows[t] \in {token[t], NoToken}
      BY <2>1
    <3>2. /\ token' = WithToken(rows, req[r].owner, req[r].line \cup {req[r].token})
          /\ req[r].phase = "refreshing" /\ issued < MaxTokens /\ issued' = issued + 1 /\ Answer(r, "ok")
      BY <2>4 DEF Refresh
    <3> HIDE DEF rows
    <3> QED
      BY <3>1, <3>2, ContinuesAdded
  <2>5. CASE Logout(r)
    <3>1. \A t \in Token : token'[t] \in {token[t], NoToken}
      BY <2>1, <2>5 DEF Logout
    <3>2. Others /\ issued' = issued
      BY <1>2, <2>5 DEF Logout
    <3> QED
      BY <3>1, <3>2, ContinuesFewer DEF Live, Others, Invariant
  <2>6. ASSUME NEW e \in Email, SendRegister(r, e) \/ SendLogin(r, e) PROVE Continues
    BY <1>1, <1>3, <1>4, <2>6 DEF SendRegister, SendLogin, database
  <2>7. ASSUME NEW t \in Token, SendLogout(r, t) PROVE Continues
    BY <1>1, <1>2, <1>3, <2>7 DEF SendLogout, database
  <2>8. ASSUME NEW t \in Token, SendRefresh(r, t) PROVE Continues
    <3> DEFINE record == [phase |-> "refreshing", token |-> t, owner |-> token[t].owner,
                          line |-> token[t].line]
    <3>1. CASE Refuse(r, "refused")
      BY <1>4, <3>1
    <3>2. CASE Live(t) /\ Becomes(r, record) /\ UNCHANGED <<database, embedded>>
      <4>1. /\ req'[r] = record /\ \A q \in Request : q # r => req'[q] = req[q]
        BY <3>2, Moved DEF Invariant
      <4>2. token' = token /\ issued' = issued /\ issued <= issued
        BY <3>2, BoundAssumption DEF database, Invariant, Tables
      <4> QED
        BY <3>2, <4>1, <4>2 DEF Continues, Live
    <3> QED
      BY <2>8, <3>1, <3>2 DEF SendRefresh
  <2> QED
    BY <1>6, <2>2, <2>3, <2>4, <2>5, <2>6, <2>7, <2>8 DEF Auth
<1>7. ASSUME NEW r \in Request, UserCentre(r) PROVE Continues
  <2>1. ASSUME NEW e \in Email, Read(r, e) \/ GetProfile(r, e) \/ Detail(r, e) PROVE Continues
    BY <1>4, <2>1 DEF Read, GetProfile, Detail
  <2>2. ASSUME NEW e \in Email, SendList(r, e) PROVE Continues
    BY <1>5, <2>2 DEF SendList
  <2>3. ASSUME NEW e \in Email, NEW body \in Body, SendUpdate(r, e, body) PROVE Continues
    BY <1>5, <2>3 DEF SendUpdate
  <2>4. ASSUME NEW e \in Email, NEW i \in DOMAIN plans[e], SendClone(r, e, i) PROVE Continues
    BY <1>5, <2>4 DEF SendClone
  <2>5. CASE Update(r)
    BY <1>1, <1>2, <1>3, <2>5 DEF Update
  <2>6. CASE Announce(r)
    BY <1>1, <1>2, <1>3, <2>6 DEF Announce, database
  <2>7. CASE ListPage(r)
    <3>1. req[r].phase = "listing"
      BY <2>7 DEF ListPage
    <3>2. PICK seen :
            \/ Becomes(r, [req[r] EXCEPT !.page = @ + 1, !.seen = seen])
            \/ Becomes(r, [phase |-> "listed", seen |-> seen, wanted |-> req[r].wanted])
      BY <2>7 DEF ListPage
    <3>3. PICK record : Becomes(r, record) /\ record.phase # "refreshing"
      <4>1. [req[r] EXCEPT !.page = @ + 1, !.seen = seen].phase = "listing"
        BY <3>1
      <4>2. [phase |-> "listed", seen |-> seen, wanted |-> req[r].wanted].phase = "listed"
        OBVIOUS
      <4> QED
        BY <3>2, <4>1, <4>2
    <3>4. Others
      BY <1>1, <3>3
    <3> QED
      BY <1>3, <2>7, <3>4 DEF ListPage, database
  <2>8. CASE Clone(r)
    BY <1>2, <1>3, <2>8 DEF Clone
  <2> QED
    BY <1>7, <2>1, <2>2, <2>3, <2>4, <2>5, <2>6, <2>7, <2>8 DEF UserCentre
<1>8. ASSUME NEW r \in Request, Drop(r) PROVE Continues
  BY <1>1, <1>3, <1>8 DEF Drop, database
<1>9. ASSUME NEW t \in Token, TokenExpires(t) PROVE Continues
  <2>1. /\ token' = [token EXCEPT ![t].expired = TRUE] /\ DOMAIN token = Token
        /\ token[t] \in TokenRow /\ Live(t) /\ UNCHANGED <<issued, req>>
    BY <1>9 DEF TokenExpires, Invariant, Tables, Tokens
  <2>2. \A s \in Token : s # t => token'[s] = token[s]
    BY <2>1
  <2>3. token'[t] = [token[t] EXCEPT !.expired = TRUE]
    BY <2>1
  <2>4. token'[t].line = token[t].line
    BY <2>1, <2>3 DEF TokenRow
  <2> QED
    BY <2>1, <2>2, <2>4, ContinuesFewer DEF Live, Invariant
<1>10. ASSUME UNCHANGED <<token, issued, req>> PROVE Continues
  BY <1>3, <1>10 DEF Others
<1> QED
  BY <1>6, <1>7, <1>8, <1>9, <1>10 DEF Next, Disable, vars

\* What an ended session lacks, a live token and a refresh under way, no step gives it:
\* only such a token or refresh leads to another (verify_refresh_token, auth.refresh).
THEOREM EndedSessionsStayEndedHolds == Spec => EndedSessionsStayEnded
<1>1. Invariant /\ Invariant' /\ [Next]_vars => [\A s \in Token : Ended(s) => Ended(s)']_vars
  BY ContinuesStep, ContinuesEnded DEF Invariant
<1> QED
  BY <1>1, InvariantHolds, PTL DEF EndedSessionsStayEnded, Spec

-----------------------------------------------------------------------------
(* The first statement of a request *)

Sends(r) ==
    \/ \E e \in Email : SendRegister(r, e) \/ SendLogin(r, e)
    \/ \E t \in Token : SendRefresh(r, t) \/ SendLogout(r, t)
    \/ \E e \in Email : Read(r, e) \/ GetProfile(r, e) \/ Detail(r, e)
    \/ \E e \in Email : \E body \in Body : SendUpdate(r, e, body)
    \/ \E e \in Email : \E i \in DOMAIN plans[e] : SendClone(r, e, i)

LEMMA SendsOnly ==
    ASSUME Invariant, NEW r \in Request, Sends(r)
    PROVE  /\ req[r].phase = "unsent" /\ UNCHANGED <<database, embedded>>
           /\ \A q \in Request : q # r => req'[q] = req[q]
           /\ req'[r].phase \notin {"listing", "listed"}
<1>1. ASSUME NEW e \in Email, NEW record, Enter(r, e, record),
             record.phase \notin {"listing", "listed"}
      PROVE  /\ req[r].phase = "unsent" /\ UNCHANGED <<database, embedded>>
             /\ \A q \in Request : q # r => req'[q] = req[q]
             /\ req'[r].phase \notin {"listing", "listed"}
  BY <1>1, Moved DEF Enter, Refuse, Answer, Invariant
<1>2. ASSUME NEW record, Becomes(r, record), record.phase \notin {"listing", "listed"}
      PROVE  /\ \A q \in Request : q # r => req'[q] = req[q]
             /\ req'[r].phase \notin {"listing", "listed"}
  BY <1>2, Moved DEF Invariant
<1>3. ASSUME NEW e \in Email, SendRegister(r, e)
      PROVE  \E record : Becomes(r, record) /\ record.phase \notin {"listing", "listed"}
                         /\ req[r].phase = "unsent" /\ UNCHANGED <<database, embedded>>
  BY <1>3 DEF SendRegister, Refuse, Answer
<1>4. ASSUME NEW e \in Email, SendLogin(r, e)
      PROVE  \E record : Becomes(r, record) /\ record.phase \notin {"listing", "listed"}
                         /\ req[r].phase = "unsent" /\ UNCHANGED <<database, embedded>>
  BY <1>4 DEF SendLogin, Refuse, Answer
<1>5. ASSUME NEW t \in Token, SendRefresh(r, t)
      PROVE  \E record : Becomes(r, record) /\ record.phase \notin {"listing", "listed"}
                         /\ req[r].phase = "unsent" /\ UNCHANGED <<database, embedded>>
  BY <1>5 DEF SendRefresh, Refuse, Answer
<1>6. ASSUME NEW t \in Token, SendLogout(r, t)
      PROVE  \E record : Becomes(r, record) /\ record.phase \notin {"listing", "listed"}
                         /\ req[r].phase = "unsent" /\ UNCHANGED <<database, embedded>>
  BY <1>6 DEF SendLogout, Answer
<1>7. ASSUME NEW e \in Email, Read(r, e) \/ GetProfile(r, e) \/ Detail(r, e)
      PROVE  \E record : Becomes(r, record) /\ record.phase \notin {"listing", "listed"}
                         /\ req[r].phase = "unsent" /\ UNCHANGED <<database, embedded>>
  BY <1>7 DEF Read, GetProfile, Detail, Refuse, Answer
<1> QED
  BY <1>1, <1>2, <1>3, <1>4, <1>5, <1>6, <1>7 DEF Sends, SendUpdate, SendClone

\* What a request does after its first statement.
LEMMA NextCases ==
    ASSUME Next
    PROVE  \/ \E r \in Request :
                \/ Sends(r) \/ \E e \in Email : SendList(r, e)
                \/ Register(r) \/ Login(r) \/ Refresh(r) \/ Logout(r)
                \/ Update(r) \/ Announce(r) \/ ListPage(r) \/ Clone(r) \/ Drop(r)
           \/ \E t \in Token : TokenExpires(t)
           \/ \E e \in Email : Disable(e)
BY DEF Next, Auth, UserCentre, Sends

-----------------------------------------------------------------------------
(* Announcements *)

Announcing == {"announcing", "unannounced"}

\* A step that leaves the accounts, the profiles and the announcements.
LEMMA AnnouncedKept ==
    ASSUME Announced, UNCHANGED <<profile, embedded>>,
           \A e \in Email : user'[e] = "none" <=> user[e] = "none",
           \A q \in Request : req[q].phase \in Announcing =>
                req'[q].phase \in Announcing /\ req'[q].email = req[q].email
    PROVE  Announced'
BY DEF Announced, ChangedPreferencesAnnounced, Announcing

\* A step of a request that has nothing to announce.
LEMMA AnnouncedOther ==
    ASSUME Announced, UNCHANGED <<user, profile, embedded>>, NEW r \in Request,
           req[r].phase \notin Announcing, \A q \in Request : q # r => req'[q] = req[q]
    PROVE  Announced'
BY AnnouncedKept DEF Announcing

LEMMA Only ==
    ASSUME Invariant, NEW r \in Request, NEW record, Becomes(r, record)
    PROVE  req'[r] = record /\ \A q \in Request : q # r => req'[q] = req[q]
BY Moved DEF Invariant

LEMMA AnnouncedRegister ==
    ASSUME Invariant, Announced, NEW r \in Request, Register(r) PROVE Announced'
<1>1. req[r].phase \notin Announcing /\ \A q \in Request : q # r => req'[q] = req[q]
  BY Only DEF Register, Refuse, Answer, Announcing
<1>2. CASE UNCHANGED <<database, embedded>>
  BY <1>1, <1>2, AnnouncedOther DEF database
<1>3. CASE /\ user[req[r].email] = "none"
           /\ user' = [user EXCEPT ![req[r].email] = "active"]
           /\ profile' = [profile EXCEPT ![req[r].email] = NoWishes] /\ embedded' = embedded
  <2>1. \A e \in Email : e # req[r].email => user'[e] = user[e] /\ profile'[e] = profile[e]
    BY <1>3 DEF Invariant, Tables
  <2>2. req[r].email \in Email
    BY DEF Register, Invariant, Reads
  <2>3. profile'[req[r].email] = NoWishes /\ embedded[req[r].email] = NoWishes
    BY <1>3, <2>2 DEF Invariant, Tables, Announced
  <2>4. user'[req[r].email] # "none"
    BY <1>3, <2>2 DEF Invariant, Tables
  <2>5. \A e \in Email : user'[e] = "none" => embedded'[e] = NoWishes
    BY <1>3, <2>1, <2>4 DEF Announced
  <2>6. ASSUME NEW e \in Email, user'[e] # "none", profile'[e] # embedded'[e]
        PROVE  \E q \in Request : req'[q].phase \in Announcing /\ req'[q].email = e
    <3>1. e # req[r].email /\ user[e] # "none" /\ profile[e] # embedded[e]
      BY <1>3, <2>1, <2>3, <2>6
    <3>2. PICK q \in Request : req[q].phase \in Announcing /\ req[q].email = e
      BY <3>1 DEF Announced, ChangedPreferencesAnnounced, Announcing
    <3>3. req'[q] = req[q]
      BY <1>1, <3>2
    <3> QED
      BY <3>2, <3>3
  <2> QED
    BY <2>5, <2>6 DEF Announced, ChangedPreferencesAnnounced, Announcing
<1> QED
  BY <1>2, <1>3 DEF Register, Refuse

\* A profile that is changed is announced next.
LEMMA AnnouncedUpdate ==
    ASSUME Invariant, Announced, NEW r \in Request, Update(r) PROVE Announced'
<1> DEFINE e == req[r].email
<1>1. req[r].phase \notin Announcing /\ UNCHANGED <<user, embedded>>
  BY DEF Update, Announcing
<1>2. CASE PrefsChanged(r)
  <2>1. Becomes(r, [phase |-> "announcing", email |-> e])
    BY <1>2 DEF Update
  <2>2. /\ req'[r].phase \in Announcing /\ req'[r].email = e
        /\ \A q \in Request : q # r => req'[q] = req[q]
    BY <2>1, Only DEF Announcing
  <2>3. \A d \in Email : d # e => profile'[d] = profile[d]
    BY DEF Update, Invariant, Tables
  <2> HIDE DEF e
  <2>4. ASSUME NEW d \in Email, user'[d] # "none", profile'[d] # embedded'[d]
        PROVE  \E q \in Request : req'[q].phase \in Announcing /\ req'[q].email = d
    <3>1. CASE d = e
      BY <2>2, <3>1
    <3>2. CASE d # e
      <4>1. PICK q \in Request : req[q].phase \in Announcing /\ req[q].email = d
        BY <1>1, <2>3, <2>4, <3>2 DEF Announced, ChangedPreferencesAnnounced, Announcing
      <4> QED
        BY <1>1, <2>2, <4>1
    <3> QED
      BY <3>1, <3>2
  <2> QED
    BY <1>1, <2>4 DEF Announced, ChangedPreferencesAnnounced, Announcing
<1>3. CASE ~PrefsChanged(r)
  <2>1. Answer(r, "ok") /\ profile' = profile
    BY <1>3 DEF Update, PrefsChanged
  <2>2. \A q \in Request : q # r => req'[q] = req[q]
    BY <2>1, Only DEF Answer
  <2> QED
    BY <1>1, <2>1, <2>2, AnnouncedOther
<1> QED
  BY <1>2, <1>3

LEMMA AnnouncedAnnounce ==
    ASSUME Invariant, Announced, NEW r \in Request, Announce(r) PROVE Announced'
<1> DEFINE e == req[r].email
<1>1. UNCHANGED <<user, profile>> /\ req[r].phase = "announcing"
  BY DEF Announce, database
<1>2. HasAccount(e)
  BY <1>1 DEF Invariant, Reads
<1>3. CASE Becomes(r, [phase |-> "unannounced", email |-> e]) /\ embedded' = embedded
  <2>1. req'[r] = [phase |-> "unannounced", email |-> e] /\ \A q \in Request : q # r => req'[q] = req[q]
    BY <1>3, Only
  <2> QED
    BY <1>1, <1>3, <2>1, AnnouncedKept DEF Announcing
<1>4. CASE Answer(r, "ok") /\ embedded' = [embedded EXCEPT ![e] = profile[e]]
  <2>1. \A q \in Request : q # r => req'[q] = req[q]
    BY <1>4, Only DEF Answer
  <2>2. embedded'[e] = profile[e] /\ \A d \in Email : d # e => embedded'[d] = embedded[d]
    BY <1>2, <1>4 DEF Invariant, Tables, HasAccount
  <2> HIDE DEF e
  <2>3. \A d \in Email : user'[d] = "none" => embedded'[d] = NoWishes
    BY <1>1, <1>2, <2>2 DEF Announced, HasAccount
  <2>4. ASSUME NEW d \in Email, user'[d] # "none", profile'[d] # embedded'[d]
        PROVE  \E q \in Request : req'[q].phase \in Announcing /\ req'[q].email = d
    <3>1. d # e
      BY <1>1, <2>2, <2>4
    <3>2. PICK q \in Request : req[q].phase \in Announcing /\ req[q].email = d
      BY <1>1, <2>2, <2>4, <3>1 DEF Announced, ChangedPreferencesAnnounced, Announcing
    <3> QED
      BY <2>1, <3>1, <3>2 DEF e
  <2> QED
    BY <2>3, <2>4 DEF Announced, ChangedPreferencesAnnounced, Announcing
<1> QED
  BY <1>3, <1>4 DEF Announce

LEMMA AnnouncedStep ==
    ASSUME Invariant, Announced, [Next]_vars PROVE Announced'
<1>1. ASSUME NEW r \in Request, Sends(r) PROVE Announced'
  BY <1>1, SendsOnly, AnnouncedOther DEF database, Announcing
<1>2. ASSUME NEW r \in Request, NEW e \in Email, SendList(r, e) PROVE Announced'
  BY <1>2, Only, AnnouncedOther DEF SendList, Enter, Refuse, Answer, database, Announcing
<1>3. ASSUME NEW r \in Request, Login(r) \/ Refresh(r) \/ Logout(r) \/ Clone(r) PROVE Announced'
  BY <1>3, Only, AnnouncedOther DEF Login, Refresh, Logout, Clone, Answer, Announcing
<1>4. ASSUME NEW r \in Request, ListPage(r) PROVE Announced'
  BY <1>4, Only, AnnouncedOther DEF ListPage, database, Announcing
<1>5. ASSUME NEW r \in Request, Drop(r) PROVE Announced'
  <2>1. UNCHANGED <<user, profile, embedded>> /\ InProgress(r)
    BY <1>5 DEF Drop, database
  <2>2. CASE req[r].phase = "announcing"
    <3>1. /\ req'[r] = [phase |-> "unannounced", email |-> req[r].email]
          /\ \A q \in Request : q # r => req'[q] = req[q]
      BY <1>5, <2>2, Only DEF Drop
    <3> QED
      BY <2>1, <2>2, <3>1, AnnouncedKept DEF Announcing
  <2>3. CASE req[r].phase # "announcing"
    <3>1. \A q \in Request : q # r => req'[q] = req[q]
      BY <1>5, Only DEF Drop
    <3> QED
      BY <2>1, <2>3, <3>1, AnnouncedOther DEF InProgress, Announcing
  <2> QED
    BY <2>2, <2>3
<1>6. ASSUME NEW t \in Token, TokenExpires(t) PROVE Announced'
  BY <1>6, AnnouncedKept DEF TokenExpires
<1>7. ASSUME NEW e \in Email, Disable(e) PROVE Announced'
  <2>1. \A d \in Email : user'[d] = "none" <=> user[d] = "none"
    BY <1>7 DEF Disable, Invariant, Tables
  <2> QED
    BY <1>7, <2>1, AnnouncedKept DEF Disable
<1>8. CASE UNCHANGED vars
  BY <1>8, AnnouncedKept DEF vars
<1> QED
  BY <1>1, <1>2, <1>3, <1>4, <1>5, <1>6, <1>7, <1>8, NextCases,
     AnnouncedRegister, AnnouncedUpdate, AnnouncedAnnounce

\* Preferences that no embedding task knows of belong to a request that will queue one
\* or could not, with any number of updates of one profile at once (update_profile).
THEOREM ChangedPreferencesAnnouncedHolds == Spec => []ChangedPreferencesAnnounced
<1>1. Init => Announced
  BY DEF Init, Announced, ChangedPreferencesAnnounced
<1>2. Invariant /\ Announced /\ [Next]_vars => Announced'
  BY AnnouncedStep
<1>3. Announced => ChangedPreferencesAnnounced
  BY DEF Announced
<1> QED
  BY <1>1, <1>2, <1>3, InvariantHolds, PTL DEF Spec

-----------------------------------------------------------------------------
(* Pages *)

\* A plan more moves the rows back, not forward.
LEMMA PagesKept ==
    ASSUME Invariant, NEW q \in Request, PagesSeen(q), req'[q] = req[q],
           \A e \in Email : plans'[e] \in Seq(Plan) /\ Len(plans[e]) <= Len(plans'[e])
    PROVE  PagesSeen(q)'
<1>1. CASE req[q].phase # "listing"
  BY <1>1 DEF PagesSeen
<1>2. CASE req[q].phase = "listing"
  <2> DEFINE e == req[q].email  n == Len(plans[e])  m == Len(plans'[e])  off == Offset(req[q].page)
  <2>1. e \in Email
    BY <1>2 DEF Invariant, Reads, HasAccount
  <2>2. n \in Nat /\ m \in Nat /\ n <= m /\ DOMAIN plans[e] = 1 .. n /\ DOMAIN plans'[e] = 1 .. m
    BY <2>1 DEF Invariant, Tables
  <2>3. /\ req[q].page \in Nat \ {0} /\ req[q].wanted \subseteq DOMAIN plans[e]
        /\ \A i \in req[q].wanted : n - i < off => i \in req[q].seen
    BY <1>2 DEF PagesSeen
  <2>4. off \in Int /\ Offset(req[q].page)' = off
    BY <2>3, PageAssumption DEF Offset
  <2> HIDE DEF n, m, off
  <2>5. req[q].wanted \subseteq 1 .. m
    BY <2>2, <2>3
  <2>6. \A i \in req[q].wanted : m - i < off => i \in req[q].seen
    BY <2>2, <2>3, <2>4
  <2> QED
    BY <1>2, <2>2, <2>3, <2>4, <2>5, <2>6 DEF PagesSeen, m
<1> QED
  BY <1>1, <1>2

\* A step that reads no page and clones nothing.
LEMMA PagesOther ==
    ASSUME Invariant, \A q \in Request : PagesSeen(q), plans' = plans,
           \A q \in Request : req'[q] = req[q] \/ req'[q].phase \notin {"listing", "listed"}
    PROVE  \A q \in Request : PagesSeen(q)'
<1>1. \A e \in Email : plans'[e] \in Seq(Plan) /\ Len(plans[e]) <= Len(plans'[e])
  BY DEF Invariant, Tables
<1>2. ASSUME NEW q \in Request PROVE PagesSeen(q)'
  <2>1. CASE req'[q] = req[q]
    BY <1>1, <2>1, PagesKept
  <2>2. CASE req'[q].phase \notin {"listing", "listed"}
    BY <2>2 DEF PagesSeen
  <2> QED
    BY <2>1, <2>2
<1> QED
  BY <1>2

LEMMA PagesSendList ==
    ASSUME Invariant, \A q \in Request : PagesSeen(q), NEW r \in Request, NEW e \in Email, SendList(r, e)
    PROVE  \A q \in Request : PagesSeen(q)'
<1> DEFINE record == [phase |-> "listing", email |-> e, page |-> 1, seen |-> {},
                      wanted |-> DOMAIN plans[e]]
<1>1. plans' = plans
  BY DEF SendList, Enter, Refuse, database
<1>2. CASE Refuse(r, "refused")
  BY <1>1, <1>2, Only, PagesOther DEF Refuse, Answer
<1>3. CASE Becomes(r, record)
  <2>1. req'[r] = record /\ \A q \in Request : q # r => req'[q] = req[q]
    BY <1>3, Only
  <2>2. DOMAIN plans[e] = 1 .. Len(plans[e]) /\ Len(plans[e]) \in Nat
    BY DEF Invariant, Tables
  <2>3. Offset(1) = 0 /\ 1 \in Nat \ {0}
    BY PageAssumption DEF Offset
  <2>4. \A i \in DOMAIN plans[e] : ~(Len(plans[e]) - i < 0)
    BY <2>2
  <2>5. PagesSeen(r)'
    BY <1>1, <2>1, <2>3, <2>4 DEF PagesSeen, Offset
  <2>6. \A d \in Email : plans'[d] \in Seq(Plan) /\ Len(plans[d]) <= Len(plans'[d])
    BY <1>1 DEF Invariant, Tables
  <2> QED
    BY <2>1, <2>5, <2>6, PagesKept
<1> QED
  BY <1>2, <1>3 DEF SendList, Enter

\* A page covers the places from its offset to the next page's; one that is not full is
\* the last.
LEMMA PageCovers ==
    ASSUME Invariant, NEW e \in Email, NEW page \in Nat \ {0}, NEW i \in DOMAIN plans[e]
    PROVE  LET n == Len(plans[e]) IN
           /\ ~(n - i < Offset(page)) /\ n - i < Offset(page + 1) => i \in Rows(e, page)
           /\ ~(n - i < Offset(page + 1)) => Cardinality(Rows(e, page)) = PageSize
<1> DEFINE n == Len(plans[e])  off == Offset(page)
<1>1. n \in Nat /\ DOMAIN plans[e] = 1 .. n /\ i \in 1 .. n
  BY DEF Invariant, Tables
<1>2. PageSize \in Nat \ {0}
  BY PageAssumption
<1>3. off \in Nat /\ Offset(page + 1) = off + PageSize
  BY <1>2 DEF Offset
<1>4. Rows(e, page) = {j \in 1 .. n : off <= n - j /\ n - j < off + PageSize}
  BY <1>1 DEF Rows
<1> HIDE DEF n, off
<1>5. ~(n - i < off) /\ n - i < off + PageSize => i \in Rows(e, page)
  BY <1>1, <1>2, <1>3, <1>4
<1>6. ASSUME ~(n - i < off + PageSize) PROVE Cardinality(Rows(e, page)) = PageSize
  <2> DEFINE a == n - off - PageSize + 1  b == n - off
  <2>1. a \in Int /\ b \in Int /\ 1 <= a /\ b <= n /\ b - a + 1 = PageSize /\ ~(a > b)
    BY <1>1, <1>2, <1>3, <1>6
  <2>2. \A j \in Int : j \in a .. b <=> j \in 1 .. n /\ off <= n - j /\ n - j < off + PageSize
    BY <1>1, <1>2, <1>3, <2>1
  <2>3. Rows(e, page) = a .. b
    BY <1>4, <2>2
  <2>4. Cardinality(a .. b) = b - a + 1
    BY <2>1, FS_Interval
  <2> QED
    BY <2>1, <2>3, <2>4
<1> QED
  BY <1>3, <1>5, <1>6 DEF n, off

LEMMA PagesListPage ==
    ASSUME Invariant, \A q \in Request : PagesSeen(q), NEW r \in Request, ListPage(r)
    PROVE  \A q \in Request : PagesSeen(q)'
<1> DEFINE e == req[r].email  n == Len(plans[e])  page == req[r].page
           rows == Rows(e, page)  seen == req[r].seen \cup rows
           next == [req[r] EXCEPT !.page = @ + 1, !.seen = seen]
           last == [phase |-> "listed", seen |-> seen, wanted |-> req[r].wanted]
<1>1. plans' = plans /\ req[r].phase = "listing"
  BY DEF ListPage, database
<1>2. e \in Email
  BY <1>1 DEF Invariant, Reads, HasAccount
<1>3. /\ page \in Nat \ {0} /\ req[r].wanted \subseteq DOMAIN plans[e]
      /\ \A i \in req[r].wanted : n - i < Offset(page) => i \in req[r].seen
  BY <1>1 DEF PagesSeen
<1>4. \A i \in req[r].wanted : n - i < Offset(page + 1) => i \in seen
  BY <1>2, <1>3, PageCovers
<1>5. Cardinality(rows) # PageSize => \A i \in req[r].wanted : n - i < Offset(page + 1)
  BY <1>2, <1>3, PageCovers
<1>6. PagesSeen(r)' /\ \A q \in Request : q # r => req'[q] = req[q]
  <2>1. CASE Cardinality(rows) = PageSize /\ Becomes(r, next)
    <3>1. req'[r] = next /\ \A q \in Request : q # r => req'[q] = req[q]
      BY <2>1, Only
    <3>2. req'[r].phase = "listing" => /\ req'[r].email = e /\ req'[r].wanted = req[r].wanted
                                       /\ req'[r].page = page + 1 /\ req'[r].seen = seen
      BY <1>1, <3>1
    <3>3. req'[r].phase = "listing"
      BY <1>1, <3>1
    <3>4. page + 1 \in Nat \ {0}
      BY <1>3
    <3> HIDE DEF e, page, seen, next, rows
    <3> QED
      BY <1>1, <1>3, <1>4, <3>1, <3>2, <3>3, <3>4 DEF PagesSeen, Offset
  <2>2. CASE Cardinality(rows) # PageSize /\ Becomes(r, last)
    <3>1. req'[r] = last /\ \A q \in Request : q # r => req'[q] = req[q]
      BY <2>2, Only
    <3> QED
      BY <1>4, <1>5, <2>2, <3>1 DEF PagesSeen
  <2> QED
    BY <2>1, <2>2 DEF ListPage
<1>7. \A d \in Email : plans'[d] \in Seq(Plan) /\ Len(plans[d]) <= Len(plans'[d])
  BY <1>1 DEF Invariant, Tables
<1> QED
  BY <1>6, <1>7, PagesKept

LEMMA PagesClone ==
    ASSUME Invariant, \A q \in Request : PagesSeen(q), NEW r \in Request, Clone(r)
    PROVE  \A q \in Request : PagesSeen(q)'
<1> DEFINE e == req[r].email
           copy == [slots |-> req[r].original.slots, booked |-> {}]
<1>1. e \in Email /\ copy \in Plan
  BY DEF Clone, Invariant, Reads, HasAccount, Plan
<1>2. plans' = [plans EXCEPT ![e] = Append(plans[e], copy)]
  BY <1>1 DEF Clone, Invariant, Tables
<1>3. \A q \in Request : q # r => req'[q] = req[q]
  BY Only DEF Clone, Answer
<1>4. req'[r].phase = "answered"
  BY Only DEF Clone, Answer
<1> HIDE DEF e, copy
<1>5. plans[e] \in Seq(Plan)
  BY <1>1 DEF Invariant, Tables
<1>6. Append(plans[e], copy) \in Seq(Plan) /\ Len(plans[e]) <= Len(Append(plans[e], copy))
  BY <1>1, <1>5
<1>7. \A d \in Email : plans'[d] \in Seq(Plan) /\ Len(plans[d]) <= Len(plans'[d])
  BY <1>1, <1>2, <1>6 DEF Invariant, Tables
<1>8. PagesSeen(r)'
  BY <1>4 DEF PagesSeen
<1> QED
  BY <1>3, <1>7, <1>8, PagesKept

LEMMA PagesStep ==
    ASSUME Invariant, \A q \in Request : PagesSeen(q), [Next]_vars
    PROVE  \A q \in Request : PagesSeen(q)'
<1> DEFINE Seen == \A q \in Request : PagesSeen(q)'
<1>1. ASSUME NEW r \in Request, Sends(r) PROVE Seen
  BY <1>1, SendsOnly, PagesOther DEF database
<1>2. ASSUME NEW r \in Request, Register(r) \/ Login(r) \/ Refresh(r) \/ Logout(r) \/ Update(r) \/ Announce(r)
      PROVE  Seen
  <2>1. plans' = plans
    BY <1>2 DEF Register, Login, Refresh, Logout, Update, Announce, Refuse, database
  <2>2. \A q \in Request : req'[q] = req[q] \/ req'[q].phase \notin {"listing", "listed"}
    BY <1>2, Only DEF Register, Login, Refresh, Logout, Update, Announce, Refuse, Answer
  <2> QED
    BY <2>1, <2>2, PagesOther
<1>3. ASSUME NEW r \in Request, Drop(r) PROVE Seen
  <2>1. plans' = plans
    BY <1>3 DEF Drop, database
  <2>2. \A q \in Request : req'[q] = req[q] \/ req'[q].phase \notin {"listing", "listed"}
    BY <1>3, Only DEF Drop
  <2> QED
    BY <2>1, <2>2, PagesOther
<1>4. CASE req' = req /\ plans' = plans
  BY <1>4, PagesOther
<1> QED
  BY <1>1, <1>2, <1>3, <1>4, NextCases, PagesSendList, PagesListPage, PagesClone
  DEF TokenExpires, Disable, vars

\* A client that reads page after page up to the first short one has seen every plan
\* there was when it began, whatever is cloned meanwhile (list_plans).
THEOREM PagingMissesNothingHolds == Spec => []PagingMissesNothing
<1>1. Init => \A q \in Request : PagesSeen(q)
  BY DEF Init, PagesSeen
<1>2. Invariant /\ (\A q \in Request : PagesSeen(q)) /\ [Next]_vars => (\A q \in Request : PagesSeen(q))'
  BY PagesStep
<1>3. (\A q \in Request : PagesSeen(q)) => PagingMissesNothing
  BY DEF PagesSeen, PagingMissesNothing
<1> QED
  BY <1>1, <1>2, <1>3, InvariantHolds, PTL DEF Spec
=============================================================================
