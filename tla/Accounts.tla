------------------------------ MODULE Accounts ------------------------------
(***************************************************************************)
(* The gateway's account endpoints, api/v1/auth.py and api/v1/user.py,     *)
(* served concurrently: each request is a coroutine with a database        *)
(* session of its own (get_db), whose statements the others' commits fall  *)
(* between.  PostgreSQL runs at READ COMMITTED, SQLAlchemy's default: a    *)
(* statement sees what is committed when it starts, and what a transaction *)
(* has flushed is nobody else's until it commits.                          *)
(*                                                                         *)
(* External: the isolation of the database, the client that reads a list   *)
(* page by page, the operator who disables an account, the broker.         *)
(***************************************************************************)
EXTENDS Naturals, FiniteSets, Sequences

CONSTANTS
    Request,    \* requests, each served once
    Email,      \* addresses accounts may have
    Preference, \* values of a profile's preferences
    NoWishes,   \* the preferences a profile starts with
    MaxTokens,  \* bound: refresh tokens ever issued
    MaxPlans,   \* bound: plans of an account
    PageSize    \* page_size of a list request

ASSUME BoundAssumption == MaxTokens \in Nat /\ MaxPlans \in Nat \ {0}
ASSUME EmailAssumption == IsFiniteSet(Email) /\ Cardinality(Email) <= MaxTokens
ASSUME WishAssumption == NoWishes \in Preference
ASSUME PageAssumption == PageSize \in Nat \ {0}

VARIABLES
    user,      \* table users: none, active or disabled, per address
    profile,   \* table user_profiles: the preferences; nothing depends on its other columns
    token,     \* table refresh_tokens
    issued,    \* how many refresh tokens have been committed
    plans,     \* table plans with plan_slots, per address, oldest first
    embedded,  \* preferences when the last embedding task was queued
    req        \* each request: what it is, where it is, what it has read

vars == <<user, profile, token, issued, plans, embedded, req>>
database == <<user, profile, token, issued, plans>>

Token == 1 .. MaxTokens
NoRow == "no row"
NoToken == [kind |-> "no row"]
\* line, a history variable: the tokens exchanged one for the next up to this one.
TokenRow == [owner : Email, line : SUBSET Token, expired : BOOLEAN]
Slot == {1, 2}
Plan == [slots : SUBSET Slot, booked : SUBSET Slot]

SavedPlan == [slots |-> Slot, booked |-> {1}]

\* The tokens of the sessions the accounts begin with.
FirstTokens ==
    {f \in [Email -> 1 .. Cardinality(Email)] : \A e, d \in Email : f[e] = f[d] => e = d}

\* A database in which an address has no account, or one with a session, which
\* may be over, and a saved plan.
Init ==
    /\ user \in [Email -> {"none", "active"}]
    /\ profile = [e \in Email |-> IF user[e] = "none" THEN NoRow ELSE NoWishes]
    /\ embedded = [e \in Email |-> NoWishes]
    /\ plans = [e \in Email |-> IF user[e] = "none" THEN <<>> ELSE <<SavedPlan>>]
    /\ \E over \in BOOLEAN, first \in FirstTokens :
         token = [t \in Token |->
                    IF \E e \in Email : first[e] = t /\ user[e] # "none"
                    THEN [owner |-> CHOOSE e \in Email : first[e] = t, line |-> {}, expired |-> over]
                    ELSE NoToken]
    /\ issued = Cardinality(Email)
    /\ req = [r \in Request |-> [phase |-> "unsent"]]

-----------------------------------------------------------------------------
(* Requests *)

Live(t) == token[t] # NoToken

\* The request's next phase, with what it has read since.
Becomes(r, record) == req' = [req EXCEPT ![r] = record]
Answer(r, outcome) == Becomes(r, [phase |-> "answered", outcome |-> outcome])

\* A request that raises HTTPException: get_db rolls back.
Refuse(r, outcome) == Answer(r, outcome) /\ UNCHANGED <<database, embedded>>

\* create_refresh_token: a row for a fresh random token, committed with the request.
WithToken(rows, owner, line) ==
    [rows EXCEPT ![issued + 1] = [owner |-> owner, line |-> line, expired |-> FALSE]]

\* register: the address must be free.
SendRegister(r, e) ==
    /\ req[r].phase = "unsent"
    /\ IF user[e] # "none"
       THEN Refuse(r, "refused")
       ELSE /\ Becomes(r, [phase |-> "registering", email |-> e])
            /\ UNCHANGED <<database, embedded>>

\* Mutant: the user is committed before the profile is inserted.
RegisterInTwoCommits(r) ==
    /\ req[r].phase = "registering"
    /\ user[req[r].email] = "none"
    /\ user' = [user EXCEPT ![req[r].email] = "active"]
    /\ Becomes(r, [req[r] EXCEPT !.phase = "profiling"])
    /\ UNCHANGED <<profile, token, issued, plans, embedded>>

\* It inserts user, profile and token in one transaction; a committed row of the
\* same address fails the insert by its unique index.
Register(r) ==
    /\ req[r].phase = "registering"
    /\ LET e == req[r].email IN
       IF user[e] # "none"
       THEN Refuse(r, "error")
       ELSE /\ issued < MaxTokens
            /\ user' = [user EXCEPT ![e] = "active"]
            /\ profile' = [profile EXCEPT ![e] = NoWishes]
            /\ token' = WithToken(token, e, {})
            /\ issued' = issued + 1
            /\ Answer(r, "ok")
            /\ UNCHANGED <<plans, embedded>>

\* login: an active account whose password fits.
SendLogin(r, e) ==
    /\ req[r].phase = "unsent"
    /\ \/ Refuse(r, "refused")
       \/ /\ user[e] = "active"
          /\ Becomes(r, [phase |-> "login", email |-> e])
          /\ UNCHANGED <<database, embedded>>

Login(r) ==
    /\ req[r].phase = "login"
    /\ issued < MaxTokens
    /\ token' = WithToken(token, req[r].email, {})
    /\ issued' = issued + 1
    /\ Answer(r, "ok")
    /\ UNCHANGED <<user, profile, plans, embedded>>

\* Mutant: a row that is not there is not refused.
SendRefreshUnchecked(r, t) ==
    /\ req[r].phase = "unsent" /\ t <= issued
    /\ \E e \in Email :
         /\ user[e] # "none"
         /\ Becomes(r, [phase |-> "refreshing", token |-> t, owner |-> e, line |-> {}])
    /\ UNCHANGED <<database, embedded>>

\* verify_refresh_token: an expired row is deleted, and the deletion is undone
\* by the rollback of the 401 it leads to.
SendRefresh(r, t) ==
    /\ req[r].phase = "unsent"
    /\ IF ~Live(t) \/ (Live(t) /\ token[t].expired)
       THEN Refuse(r, "refused")
       ELSE /\ Becomes(r, [phase |-> "refreshing", token |-> t, owner |-> token[t].owner,
                           line |-> token[t].line])
            /\ UNCHANGED <<database, embedded>>

\* Mutant: the old token's row stays.
RefreshKeepingOld(r) ==
    /\ req[r].phase = "refreshing"
    /\ issued < MaxTokens
    /\ token' = WithToken(token, req[r].owner, req[r].line \cup {req[r].token})
    /\ issued' = issued + 1
    /\ Answer(r, "ok")
    /\ UNCHANGED <<user, profile, plans, embedded>>

\* refresh: the new row in, the old one out, one commit.  A row another request
\* has deleted since it was read is no error, the DELETE finds no row: two
\* refreshes that read one row each leave a token, and one that read it before a
\* logout leaves one all the same.
Refresh(r) ==
    /\ req[r].phase = "refreshing"
    /\ issued < MaxTokens
    /\ token' = WithToken([token EXCEPT ![req[r].token] = NoToken],
                          req[r].owner, req[r].line \cup {req[r].token})
    /\ issued' = issued + 1
    /\ Answer(r, "ok")
    /\ UNCHANGED <<user, profile, plans, embedded>>

\* logout reads the row, deletes it if there was one, and answers the same.
SendLogout(r, t) ==
    /\ req[r].phase = "unsent"
    /\ IF Live(t)
       THEN Becomes(r, [phase |-> "logout", token |-> t])
       ELSE Answer(r, "ok")
    /\ UNCHANGED <<database, embedded>>

Logout(r) ==
    /\ req[r].phase = "logout"
    /\ token' = [token EXCEPT ![req[r].token] = NoToken]
    /\ Answer(r, "ok")
    /\ UNCHANGED <<user, profile, issued, plans, embedded>>

-----------------------------------------------------------------------------
(* Endpoints of an authenticated user *)

Authenticated(e) == user[e] = "active"

\* get_current_user, then the request's own first statement: a bad or expired
\* access token, or an account that is gone or disabled, is refused.
Enter(r, e, record) ==
    /\ req[r].phase = "unsent"
    /\ \/ Refuse(r, "refused")
       \/ /\ Authenticated(e)
          /\ Becomes(r, record)
          /\ UNCHANGED <<database, embedded>>

\* me reads the profile, and answers without it where there is none.
Read(r, e) ==
    /\ req[r].phase = "unsent"
    /\ \/ Refuse(r, "refused")
       \/ Authenticated(e) /\ Refuse(r, "ok")

\* get_profile answers 404 where there is none.
GetProfile(r, e) ==
    /\ req[r].phase = "unsent"
    /\ \/ Refuse(r, "refused")
       \/ Authenticated(e) /\ profile[e] # NoRow /\ Refuse(r, "ok")

\* update_profile has loaded the profile; the body names preferences or not.
Body == Preference \cup {NoRow}

SendUpdate(r, e, body) ==
    Enter(r, e, [phase |-> "updating", email |-> e, body |-> body, loaded |-> profile[e]])

\* Mutant: compared with what was loaded once that has been overwritten.
PrefsChangedNever(r) == req[r].body # req[r].body

PrefsChanged(r) == req[r].body # NoRow /\ req[r].body # req[r].loaded

\* The flush writes a column that was set to another value than was loaded.
Update(r) ==
    /\ req[r].phase = "updating"
    /\ LET e == req[r].email
           dirty == req[r].body \notin {NoRow, req[r].loaded}
       IN profile' = IF dirty THEN [profile EXCEPT ![e] = req[r].body] ELSE profile
    /\ IF PrefsChanged(r)
       THEN Becomes(r, [phase |-> "announcing", email |-> req[r].email])
       ELSE Answer(r, "ok")
    /\ UNCHANGED <<user, token, issued, plans, embedded>>

\* trigger_preference_embedding_update: after the commit; a broker that refuses
\* is not an error.
Announce(r) ==
    /\ req[r].phase = "announcing"
    /\ LET e == req[r].email IN
       \/ /\ embedded' = [embedded EXCEPT ![e] = profile[e]]
          /\ Answer(r, "ok")
       \/ /\ Becomes(r, [phase |-> "unannounced", email |-> e])
          /\ UNCHANGED embedded
    /\ UNCHANGED database

\* list_plans of page 1; the client takes the pages in order.
SendList(r, e) ==
    Enter(r, e, [phase |-> "listing", email |-> e, page |-> 1, seen |-> {},
                 wanted |-> DOMAIN plans[e]])

\* Mutant: offset = page * page_size.
OffsetFromOne(page) == page * PageSize

Offset(page) == (page - 1) * PageSize

\* ORDER BY created_at DESC OFFSET .. LIMIT ..: the positions of a page's rows.
Rows(e, page) ==
    {i \in DOMAIN plans[e] :
        LET place == Len(plans[e]) - i IN Offset(page) <= place /\ place < Offset(page) + PageSize}

\* One page; a full one is followed by the next.
ListPage(r) ==
    /\ req[r].phase = "listing"
    /\ LET rows == Rows(req[r].email, req[r].page)
           seen == req[r].seen \cup rows
       IN IF Cardinality(rows) = PageSize
          THEN Becomes(r, [req[r] EXCEPT !.page = @ + 1, !.seen = seen])
          ELSE Becomes(r, [phase |-> "listed", seen |-> seen, wanted |-> req[r].wanted])
    /\ UNCHANGED <<database, embedded>>

\* clone_plan has loaded one of the user's plans with its slots; get_plan_detail
\* reads the same and answers.
SendClone(r, e, i) ==
    Enter(r, e, [phase |-> "cloning", email |-> e, original |-> plans[e][i]])

Detail(r, e) == Read(r, e)

\* The copy and its slots, all tentative and without booking, in one commit.
Clone(r) ==
    /\ req[r].phase = "cloning"
    /\ LET e == req[r].email IN
       /\ Len(plans[e]) < MaxPlans
       /\ plans' = [plans EXCEPT ![e] =
                      Append(@, [slots |-> req[r].original.slots, booked |-> {}])]
    /\ Answer(r, "ok")
    /\ UNCHANGED <<user, profile, token, issued, embedded>>

-----------------------------------------------------------------------------
(* Everything else *)

InProgress(r) == req[r].phase \notin {"unsent", "answered", "unannounced", "listed", "dropped"}

\* The client disconnects or the gateway dies: what is not committed is undone.
Drop(r) ==
    /\ InProgress(r)
    /\ Becomes(r, IF req[r].phase = "announcing"
                  THEN [phase |-> "unannounced", email |-> req[r].email]
                  ELSE [phase |-> "dropped"])
    /\ UNCHANGED <<database, embedded>>

\* A token's expires_at passes.
TokenExpires(t) ==
    /\ Live(t) /\ ~token[t].expired
    /\ token' = [token EXCEPT ![t].expired = TRUE]
    /\ UNCHANGED <<user, profile, issued, plans, embedded, req>>

\* is_active is set by hand: no endpoint does.
Disable(e) ==
    /\ user[e] = "active"
    /\ user' = [user EXCEPT ![e] = "disabled"]
    /\ UNCHANGED <<profile, token, issued, plans, embedded, req>>

Auth(r) ==
    \/ \E e \in Email : SendRegister(r, e) \/ SendLogin(r, e)
    \/ \E t \in Token : SendRefresh(r, t) \/ SendLogout(r, t)
    \/ Register(r) \/ Login(r) \/ Refresh(r) \/ Logout(r)

UserCentre(r) ==
    \/ \E e \in Email : Read(r, e) \/ GetProfile(r, e) \/ Detail(r, e) \/ SendList(r, e)
    \/ \E e \in Email : \E body \in Body : SendUpdate(r, e, body)
    \/ \E e \in Email : \E i \in DOMAIN plans[e] : SendClone(r, e, i)
    \/ Update(r) \/ Announce(r) \/ ListPage(r) \/ Clone(r)

Next ==
    \/ \E r \in Request : Auth(r) \/ UserCentre(r) \/ Drop(r)
    \/ \E t \in Token : TokenExpires(t)
    \/ \E e \in Email : Disable(e)

Spec == Init /\ [][Next]_vars

-----------------------------------------------------------------------------
(* Properties *)

\* Every table holds rows of its kind, a user has a profile, and a token an owner.
TypeOK ==
    /\ user \in [Email -> {"none", "active", "disabled"}]
    /\ \A e \in Email : IF user[e] = "none" THEN profile[e] = NoRow ELSE profile[e] \in Preference
    /\ \A t \in Token : Live(t) => token[t] \in TokenRow /\ t <= issued /\ user[token[t].owner] # "none"
    /\ issued \in 0 .. MaxTokens
    /\ \A e \in Email : Len(plans[e]) <= MaxPlans /\ \A i \in DOMAIN plans[e] : plans[e][i] \in Plan
    /\ embedded \in [Email -> Preference]
    /\ DOMAIN req = Request

\* A token that was exchanged is gone, whatever refreshes and logouts read its row
\* before: it is never live beside one that came of it.  Two refreshes that read
\* one row leave two tokens of the login, of which neither came of the other.
ExchangedTokensAreGone ==
    \A t \in Token : Live(t) => \A s \in token[t].line : ~Live(s)

\* What came of a token: nothing live, and nothing on its way.
Ended(s) ==
    /\ s <= issued
    /\ \A t \in Token : Live(t) => s # t /\ s \notin token[t].line
    /\ \A r \in Request :
         req[r].phase = "refreshing" => s # req[r].token /\ s \notin req[r].line

\* A session that is logged out, by all the tokens it has, stays so: but for a
\* refresh that had read a row before the logout deleted it, nothing gives it a
\* token again, nor lets a request begin to.
EndedSessionsStayEnded == [][\A s \in Token : Ended(s) => Ended(s)']_vars

\* Preferences no embedding task knows of are those of a request that is about
\* to queue one, or that could not.
ChangedPreferencesAnnounced ==
    \A e \in Email :
        user[e] # "none" /\ profile[e] # embedded[e] =>
            \E r \in Request :
                req[r].phase \in {"announcing", "unannounced"} /\ req[r].email = e

\* A client that has read the pages up to the first short one has seen every plan
\* there was when it began, whatever was cloned meanwhile.
PagingMissesNothing ==
    \A r \in Request : req[r].phase = "listed" => req[r].wanted \subseteq req[r].seen

=============================================================================
