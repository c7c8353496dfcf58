------------------------------ MODULE Sessions ------------------------------
(* Refresh tokens: auth.controller.ts, auth.service.ts, token.service.ts.    *)
(*                                                                           *)
(* A token is a JWT with an id, the user and the millisecond it was made in. *)
(* Redis keeps a key per live token (its value says whether the cookie       *)
(* outlives the browser) and, per user, the set of the ids of his tokens.    *)
(* Every command to Redis is a step of its own, so requests interleave.      *)
EXTENDS Naturals, FiniteSets

CONSTANTS
  Users,        \* e-mail addresses, each standing for the account it may get
  Requests,     \* requests that can be under way at once
  None,         \* no user, no token
  LastMoment,   \* bound on the clock, in milliseconds
  MaxStarted,   \* bound on requests
  MaxEverywhere,\* bound on those that log out from all devices
  MaxFailures   \* bound on requests that die half way

SessionsAssumption ==
  /\ LastMoment \in Nat /\ MaxStarted \in Nat
  /\ MaxEverywhere \in Nat /\ MaxFailures \in Nat
  /\ None \notin Users
  /\ IsFiniteSet(Requests)

Token == Users \X (0..LastMoment)
Flag == {"persistent", "session"}

VARIABLES
  now,        \* Date.now()
  accounts,   \* rows of the users table
  key,        \* refresh_token:<user>:<id>, "none" where there is no such key
  listed,     \* the ids in all the sets user_sessions:<user>
  cookie,     \* the tokens that were handed to browsers
  run,        \* the requests under way
  started, failures, everywhere,
  \* History, read by no guard: how often a token was made, which tokens a
  \* finished refresh or logout was to end, which ones a logout dropped from the
  \* list and left alive, the logins, and the refreshes that were let in with a
  \* token another refresh had been let in with.
  made, ended, unlisted, logins, doubled

counts == <<failures, everywhere>>
history == <<made, ended, unlisted, logins, doubled>>
vars == <<now, accounts, key, listed, cookie, run, started, counts, history>>

Idle == [pc |-> "idle", user |-> None, flag |-> "session", token |-> None,
         ids |-> {}, ends |-> {}]

Run == [pc : {"idle", "hash", "make", "set", "sadd", "answer", "take", "untake",
              "account", "del", "srem", "delAll", "delSet"},
        user : Users \cup {None}, flag : Flag, token : Token \cup {None},
        ids : SUBSET Token, ends : SUBSET Token]

TypeOK ==
  /\ now \in 0..LastMoment
  /\ accounts \in SUBSET Users
  /\ key \in [Token -> Flag \cup {"none"}]
  /\ listed \in SUBSET Token /\ cookie \in SUBSET Token
  /\ run \in [Requests -> Run]
  /\ started \in 0..MaxStarted /\ failures \in 0..MaxFailures
  /\ everywhere \in 0..MaxEverywhere
  /\ made \in [Token -> Nat] /\ ended \in SUBSET Token /\ unlisted \in SUBSET Token
  /\ logins \in [Users -> Nat] /\ doubled \in [Users -> Nat]

Init ==
  /\ now = 0 /\ accounts = {} /\ listed = {} /\ cookie = {} /\ ended = {}
  /\ unlisted = {}
  /\ key = [t \in Token |-> "none"]
  /\ run = [r \in Requests |-> Idle]
  /\ started = 0 /\ failures = 0 /\ everywhere = 0
  /\ made = [t \in Token |-> 0]
  /\ logins = [u \in Users |-> 0] /\ doubled = [u \in Users |-> 0]

Of(u) == {t \in Token : t[1] = u}
At(r, pc) == run[r].pc = pc
Goes(r, pc) == run' = [run EXCEPT ![r].pc = pc]
Ends(r) == run' = [run EXCEPT ![r] = Idle]

\* An idle slot takes the next request.
Starts(r, fields) ==
  /\ At(r, "idle") /\ started < MaxStarted
  /\ started' = started + 1
  /\ run' = [run EXCEPT ![r] = fields]

-----------------------------------------------------------------------------
(* Registration and login                                                   *)

\* findByEmail finds nobody; the password is hashed next.
RegisterLooks(r, u) ==
  /\ u \notin accounts
  /\ Starts(r, [Idle EXCEPT !.pc = "hash", !.user = u, !.flag = "persistent"])
  /\ UNCHANGED <<now, accounts, key, listed, cookie, counts, history>>

\* usersRepository.create; the unique index on the address decides between two
\* registrations, and the loser's error becomes a 409.
RegisterCreates(r) ==
  /\ At(r, "hash")
  /\ IF run[r].user \in accounts
       THEN Ends(r) /\ UNCHANGED <<accounts, logins>>
       ELSE /\ accounts' = accounts \cup {run[r].user}
            /\ logins' = [logins EXCEPT ![run[r].user] = @ + 1]
            /\ Goes(r, "make")
  /\ UNCHANGED <<now, key, listed, cookie, started, counts, made, ended,
                 unlisted, doubled>>

\* findByEmail finds the account and bcrypt.compare accepts the password.
Login(r, u, flag) ==
  /\ u \in accounts
  /\ logins' = [logins EXCEPT ![u] = @ + 1]
  /\ Starts(r, [Idle EXCEPT !.pc = "make", !.user = u, !.flag = flag])
  /\ UNCHANGED <<now, accounts, key, listed, cookie, counts, made, ended, unlisted,
                 doubled>>

-----------------------------------------------------------------------------
(* generateTokens                                                           *)

\* The id is the user and the time of day: two calls within a millisecond make
\* the same token.
Makes(r) ==
  /\ At(r, "make")
  /\ LET t == <<run[r].user, now>> IN
       /\ run' = [run EXCEPT ![r].pc = "set", ![r].token = t]
       /\ made' = [made EXCEPT ![t] = @ + 1]
  /\ UNCHANGED <<now, accounts, key, listed, cookie, started, counts,
                 ended, unlisted, logins, doubled>>

Sets(r) ==
  /\ At(r, "set")
  /\ key' = [key EXCEPT ![run[r].token] = run[r].flag]
  /\ Goes(r, "sadd")
  /\ UNCHANGED <<now, accounts, listed, cookie, started, counts, history>>

Lists(r) ==
  /\ At(r, "sadd")
  /\ listed' = listed \cup {run[r].token}
  /\ Goes(r, "answer")
  /\ UNCHANGED <<now, accounts, key, cookie, started, counts, history>>

\* The set's expiry is renewed and the token goes into the cookie of the answer.
AnswersToken(r) ==
  /\ At(r, "answer")
  /\ cookie' = cookie \cup {run[r].token}
  /\ ended' = ended \cup run[r].ends
  /\ Ends(r)
  /\ UNCHANGED <<now, accounts, key, listed, started, counts,
                 made, unlisted, logins, doubled>>

-----------------------------------------------------------------------------
(* Refresh                                                                  *)

\* The signature is good and the key is there: this request may go on, and so
\* may any other that reads the key before it is deleted.
RefreshGets(r, t) ==
  /\ t \in cookie /\ key[t] # "none"
  /\ Starts(r, [Idle EXCEPT !.pc = "take", !.user = t[1], !.token = t, !.ends = {t},
                  !.flag = IF key[t] = "session" THEN "session" ELSE "persistent"])
  /\ doubled' = IF \E q \in Requests : At(q, "take") /\ run[q].token = t
                THEN [doubled EXCEPT ![t[1]] = @ + 1] ELSE doubled
  /\ UNCHANGED <<now, accounts, key, listed, cookie, counts, made, ended, unlisted,
                 logins>>

RefreshDeletes(r) ==
  /\ At(r, "take")
  /\ key' = [key EXCEPT ![run[r].token] = "none"]
  /\ Goes(r, "untake")
  /\ UNCHANGED <<now, accounts, listed, cookie, started, counts, history>>

RefreshUnlists(r) ==
  /\ At(r, "untake")
  /\ listed' = listed \ {run[r].token}
  /\ Goes(r, "account")
  /\ UNCHANGED <<now, accounts, key, cookie, started, counts, history>>

\* Accounts are never deleted, so the user of a token is found.
RefreshFindsAccount(r) ==
  /\ At(r, "account") /\ run[r].user \in accounts
  /\ Goes(r, "make")
  /\ UNCHANGED <<now, accounts, key, listed, cookie, started, counts, history>>

-----------------------------------------------------------------------------
(* Logout                                                                   *)

\* From one device: the cookie's token must be the caller's own.
LogoutStarts(r, t) ==
  /\ t \in cookie
  /\ Starts(r, [Idle EXCEPT !.pc = "del", !.user = t[1], !.token = t, !.ends = {t}])
  /\ UNCHANGED <<now, accounts, key, listed, cookie, counts, history>>

LogoutDeletes(r) ==
  /\ At(r, "del")
  /\ key' = [key EXCEPT ![run[r].token] = "none"]
  /\ Goes(r, "srem")
  /\ UNCHANGED <<now, accounts, listed, cookie, started, counts, history>>

LogoutUnlists(r) ==
  /\ At(r, "srem")
  /\ listed' = listed \ {run[r].token}
  /\ ended' = ended \cup run[r].ends
  /\ Ends(r)
  /\ UNCHANGED <<now, accounts, key, cookie, started, counts, made, unlisted, logins,
                 doubled>>

\* From all devices: what is listed now is deleted next, then the list.
EverywhereLists(r, u) ==
  /\ everywhere < MaxEverywhere
  /\ cookie \cap Of(u) # {}
  /\ everywhere' = everywhere + 1
  /\ Starts(r, [Idle EXCEPT !.pc = IF listed \cap Of(u) = {} THEN "delSet" ELSE "delAll",
                  !.user = u, !.ids = listed \cap Of(u), !.ends = cookie \cap Of(u)])
  /\ UNCHANGED <<now, accounts, key, listed, cookie, failures, history>>

\* Variant: the keys are left to expire.
EverywhereDeletesNot(r) ==
  /\ At(r, "delAll")
  /\ Goes(r, "delSet")
  /\ UNCHANGED <<now, accounts, key, listed, cookie, started, counts, history>>

EverywhereDeletes(r) ==
  /\ At(r, "delAll")
  /\ key' = [t \in Token |-> IF t \in run[r].ids THEN "none" ELSE key[t]]
  /\ Goes(r, "delSet")
  /\ UNCHANGED <<now, accounts, listed, cookie, started, counts, history>>

EverywhereDropsList(r) ==
  /\ At(r, "delSet")
  /\ listed' = listed \ Of(run[r].user)
  /\ unlisted' = unlisted \cup ((listed \cap Of(run[r].user)) \ run[r].ids)
  /\ ended' = ended \cup run[r].ends
  /\ Ends(r)
  /\ UNCHANGED <<now, accounts, key, cookie, started, counts, made, logins, doubled>>

-----------------------------------------------------------------------------
(* A request that dies (no answer from Redis or PostgreSQL), and the clock. *)

Dies(r) ==
  /\ ~At(r, "idle") /\ failures < MaxFailures
  /\ failures' = failures + 1
  /\ Ends(r)
  /\ UNCHANGED <<now, accounts, key, listed, cookie, started, everywhere, history>>

Tick ==
  /\ now < LastMoment
  /\ now' = now + 1
  /\ UNCHANGED <<accounts, key, listed, cookie, run, started, counts, history>>

Next ==
  \/ \E r \in Requests :
       \/ \E u \in Users : RegisterLooks(r, u) \/ EverywhereLists(r, u)
       \/ \E u \in Users, flag \in Flag : Login(r, u, flag)
       \/ \E t \in Token : RefreshGets(r, t) \/ LogoutStarts(r, t)
       \/ RegisterCreates(r) \/ Makes(r) \/ Sets(r) \/ Lists(r) \/ AnswersToken(r)
       \/ RefreshDeletes(r) \/ RefreshUnlists(r) \/ RefreshFindsAccount(r)
       \/ LogoutDeletes(r) \/ LogoutUnlists(r)
       \/ EverywhereDeletes(r) \/ EverywhereDropsList(r) \/ Dies(r)
  \/ Tick

Spec == Init /\ [][Next]_vars

-----------------------------------------------------------------------------
(* Properties                                                               *)

\* A token made once is dead. (Two tokens of one millisecond are one token.)
Dead(t) == made[t] = 1 => key[t] = "none"

\* A token that a finished refresh or logout was to end opens nothing any more,
\* whatever ran beside it, unless an earlier logout from all devices dropped it
\* from the list without deleting its key.
EndedIsDead == \A t \in ended \ unlisted : Dead(t)

\* auth/dto/logout.dto.ts:7: a logout from all devices ends all the sessions of
\* the user. So whatever was in a cookie when it began is dead when it has ended.
EverywhereEndsAll == \A t \in ended : Dead(t)

\* A session is continued by one successor: a user has no more live tokens,
\* counting those on their way from a refresh, than he logged in, except for one
\* per refresh that read its token between another's read and delete of it.
Underway(u) == {r \in Requests : run[r].user = u
                  /\ run[r].pc \in {"untake", "account", "make", "set"}}

SessionsDoNotMultiply ==
  \A u \in Users :
    Cardinality({t \in Of(u) : key[t] # "none"}) + Cardinality(Underway(u))
      <= logins[u] + doubled[u]
=============================================================================
