---------------------------- MODULE SessionsProofs ----------------------------
(* Refresh tokens, for every value of Sessions' constants: any number of      *)
(* logins, refreshes and logouts between the commands of Redis.               *)
EXTENDS Sessions, FiniteSetTheorems, TLAPS

-----------------------------------------------------------------------------
(* The inductive invariant                                                    *)

\* Nobody is about to store the key of this token for the first time.
Settled(t) ==
  /\ made[t] >= 1
  /\ made[t] = 1 => ~\E x \in Requests : run[x].pc = "set" /\ run[x].token = t

\* A token that needs no ending, and one that a logout from all devices ends.
Gone(t) == t \in unlisted \/ Dead(t)
Found(t) == Gone(t) \/ t \in listed

\* What a request has in hand: the token it works on, those it is to end, and
\* the ids it has read from the list.
RequestOK(q) ==
  /\ q.pc \in {"hash", "take", "untake", "account", "make"} => q.user \in Users
  /\ q.pc \in {"set", "sadd", "answer", "take", "untake", "del", "srem"} =>
       q.token \in Token /\ made[q.token] >= 1
  /\ q.pc \in {"sadd", "answer"} => Settled(q.token)
  /\ q.pc = "answer" => Found(q.token)
  /\ q.pc \in {"take", "untake", "del", "srem"} => q.ends = {q.token}
  /\ q.pc = "hash" => q.ends = {}
  /\ q.ends \subseteq cookie
  /\ \A t \in q.ids : Settled(t)
  /\ q.pc = "delAll" => \A t \in q.ends : t \in q.ids \/ Gone(t)
  /\ q.pc \in {"untake", "account", "make", "set", "sadd", "answer", "srem", "delSet"} =>
       \A t \in q.ends : Gone(t)
  /\ q.pc = "delSet" => \A t \in q.ids : Gone(t)

RequestsSound == \A x \in Requests : RequestOK(run[x])

\* Two that are about to store one key have both made it.
SettersAgree ==
  \A x, y \in Requests :
    x # y /\ run[x].pc = "set" /\ run[y].pc = "set" /\ run[x].token = run[y].token
      => made[run[x].token] >= 2

TokensSound ==
  /\ \A t \in cookie \cup listed : Settled(t)
  /\ \A t \in cookie : Found(t)
  /\ ended \subseteq cookie
  /\ \A t \in ended : Gone(t)

SInv == TypeOK /\ RequestsSound /\ SettersAgree /\ TokensSound

-----------------------------------------------------------------------------
(* One request moves                                                          *)

LEMMA IdleIsSound ==
  /\ Idle \in Run /\ Idle.pc = "idle" /\ Idle.ends = {} /\ Idle.ids = {}
  /\ RequestOK(Idle) /\ RequestOK(Idle)'
<1>1. Idle \in Run /\ Idle.pc = "idle" /\ Idle.ends = {} /\ Idle.ids = {}
  BY DEF Idle, Run, Flag
<1> QED
  BY <1>1 DEF RequestOK

LEMMA InitHolds == ASSUME SessionsAssumption, Init PROVE SInv
<1>1. \A x \in Requests : run[x] = Idle
  BY DEF Init
<1>2. TypeOK
  <2>1. run \in [Requests -> Run]
    BY IdleIsSound DEF Init
  <2> QED
    BY <2>1 DEF Init, TypeOK, SessionsAssumption
<1>3. RequestsSound /\ SettersAgree
  BY <1>1, IdleIsSound DEF RequestsSound, SettersAgree
<1>4. TokensSound
  BY DEF Init, TokensSound
<1> QED
  BY <1>2, <1>3, <1>4 DEF SInv

\* What the others know of a settled token stays so.
Keeps ==
  /\ cookie \subseteq cookie'
  /\ \A t \in Token :
       /\ made[t] <= made'[t]
       /\ Settled(t) =>
            /\ Settled(t)'
            /\ Gone(t) => Gone(t)'
            /\ Found(t) => Found(t)'

LEMMA RequestStays ==
  ASSUME SInv, TypeOK', Keeps, NEW x \in Requests, run'[x] = run[x]
  PROVE  RequestOK(run[x])'
<1>1. RequestOK(run[x]) /\ run[x].ends \subseteq Token /\ run[x].ids \subseteq Token
  BY DEF SInv, RequestsSound, TypeOK, Run
<1>2. \A t \in run[x].ends : Settled(t)
  BY <1>1 DEF RequestOK, SInv, TokensSound
<1>3. \A t \in Token : made[t] \in Nat /\ made'[t] \in Nat
  BY DEF SInv, TypeOK
<1>4. run[x].token \in Token /\ made[run[x].token] >= 1 => made'[run[x].token] >= 1
  BY <1>3 DEF Keeps
<1>5. /\ \A t \in run[x].ids : Settled(t)'
      /\ \A t \in run[x].ids \cup run[x].ends : Gone(t) => Gone(t)'
  BY <1>1, <1>2 DEF Keeps, RequestOK
<1>6. run[x].token \in Token /\ Settled(run[x].token) =>
        Settled(run[x].token)' /\ (Found(run[x].token) => Found(run[x].token)')
  BY DEF Keeps
<1>7. run[x].ends \subseteq cookie'
  BY <1>1 DEF RequestOK, Keeps
<1> QED
  BY <1>1, <1>4, <1>5, <1>6, <1>7 DEF RequestOK

LEMMA RequestMoves ==
  ASSUME SInv, TypeOK', Keeps, NEW r \in Requests, NEW q \in Run,
         run' = [run EXCEPT ![r] = q], RequestOK(q)',
         q.pc = "set" => \A x \in Requests \ {r} :
           run[x].pc = "set" /\ run[x].token = q.token => made'[q.token] >= 2,
         TokensSound'
  PROVE  SInv'
<1>1. run'[r] = q /\ \A x \in Requests \ {r} : run'[x] = run[x]
  BY DEF SInv, TypeOK
<1>2. RequestsSound'
  <2>1. RequestOK(run[r])'
    BY <1>1
  <2>2. ASSUME NEW x \in Requests \ {r} PROVE RequestOK(run[x])'
    BY <1>1, RequestStays
  <2> QED
    BY <2>1, <2>2 DEF RequestsSound
<1>3. SettersAgree'
  <2> SUFFICES ASSUME NEW x \in Requests, NEW y \in Requests, x # y,
                      run'[x].pc = "set", run'[y].pc = "set", run'[x].token = run'[y].token
               PROVE  made'[run'[x].token] >= 2
    BY DEF SettersAgree
  <2>1. CASE x = r \/ y = r
    BY <1>1, <2>1
  <2>2. CASE x # r /\ y # r
    <3>1. run[x].token \in Token /\ made[run[x].token] >= 2
      BY <1>1, <2>2 DEF SInv, SettersAgree, RequestsSound, RequestOK
    <3>2. made[run[x].token] \in Nat /\ made'[run[x].token] \in Nat
          /\ made[run[x].token] <= made'[run[x].token]
      BY <3>1 DEF Keeps, SInv, TypeOK
    <3> QED
      BY <1>1, <2>2, <3>1, <3>2
  <2> QED
    BY <2>1, <2>2
<1> QED
  BY <1>2, <1>3 DEF SInv

\* No key, no list and no token is touched, and r stores nothing next.
LEMMA StillKnown ==
  ASSUME SInv, NEW r \in Requests, NEW q, run' = [run EXCEPT ![r] = q], q.pc # "set",
         cookie \subseteq cookie', UNCHANGED <<key, listed, made, unlisted>>
  PROVE  /\ Keeps
         /\ \A t \in Token : /\ Settled(t) => Settled(t)'
                             /\ Gone(t)' <=> Gone(t)
                             /\ Found(t)' <=> Found(t)
<1>1. run'[r] = q /\ \A x \in Requests \ {r} : run'[x] = run[x]
  BY DEF SInv, TypeOK
<1>2. ASSUME NEW t \in Token, Settled(t) PROVE Settled(t)'
  BY <1>1, <1>2 DEF Settled
<1>3. \A t \in Token : (Gone(t)' <=> Gone(t)) /\ (Found(t)' <=> Found(t))
  BY DEF Gone, Found, Dead
<1>4. \A t \in Token : made[t] <= made'[t]
  BY DEF SInv, TypeOK
<1> QED
  BY <1>2, <1>3, <1>4 DEF Keeps

LEMMA PlainStep ==
  ASSUME SInv, TypeOK', NEW r \in Requests, NEW q \in Run,
         run' = [run EXCEPT ![r] = q], q.pc # "set", RequestOK(q),
         UNCHANGED <<key, listed, cookie, made, ended, unlisted>>
  PROVE  SInv'
<1>1. Keeps
  BY StillKnown
<1>2. /\ \A t \in Token : Settled(t) => Settled(t)'
      /\ \A t \in Token : (Gone(t)' <=> Gone(t)) /\ (Found(t)' <=> Found(t))
  BY StillKnown
<1>3. TokensSound'
  <2>1. cookie \subseteq Token /\ listed \subseteq Token /\ ended \subseteq Token
    BY DEF SInv, TypeOK
  <2> QED
    BY <1>2, <2>1 DEF SInv, TokensSound
<1>4. RequestOK(q)'
  <2>1. q.ends \subseteq Token /\ q.ids \subseteq Token
    BY DEF Run
  <2> QED
    BY <1>2, <2>1 DEF RequestOK
<1> QED
  BY <1>1, <1>3, <1>4, RequestMoves

-----------------------------------------------------------------------------
(* The actions that touch no token                                            *)

\* What a token in a cookie is known to be.
LEMMA InCookie ==
  ASSUME SInv, NEW t \in cookie
  PROVE  /\ t \in Token /\ t[1] \in Users /\ made[t] >= 1 /\ Settled(t) /\ Found(t)
BY DEF SInv, TypeOK, TokensSound, Settled, Token

LEMMA Enters ==
  ASSUME SessionsAssumption, SInv, NEW r \in Requests, NEW q \in Run, Starts(r, q),
         RequestOK(q), q.pc # "set", everywhere' \in 0..MaxEverywhere,
         logins' \in [Users -> Nat], doubled' \in [Users -> Nat],
         UNCHANGED <<now, accounts, key, listed, cookie, failures, made, ended, unlisted>>
  PROVE  SInv'
<1>1. started' \in 0..MaxStarted
  BY DEF Starts, SInv, TypeOK, SessionsAssumption
<1>2. run' = [run EXCEPT ![r] = q]
  BY DEF Starts
<1>3. run' \in [Requests -> Run]
  BY <1>2 DEF SInv, TypeOK
<1>4. TypeOK'
  BY <1>1, <1>3 DEF SInv, TypeOK
<1> QED
  BY <1>2, <1>4, PlainStep

LEMMA EntersKeep ==
  ASSUME SessionsAssumption, SInv, NEW r \in Requests,
         \/ \E u \in Users : RegisterLooks(r, u) \/ EverywhereLists(r, u)
         \/ \E u \in Users, flag \in Flag : Login(r, u, flag)
         \/ \E t \in Token : RefreshGets(r, t) \/ LogoutStarts(r, t)
  PROVE  SInv'
<1>1. ASSUME NEW u \in Users, RegisterLooks(r, u) PROVE SInv'
  <2> DEFINE q == [Idle EXCEPT !.pc = "hash", !.user = u, !.flag = "persistent"]
  <2>1. q \in Run /\ q.pc = "hash" /\ q.user = u /\ q.ends = {} /\ q.ids = {}
    BY DEF Idle, Run, Flag
  <2>2. RequestOK(q)
    BY <2>1 DEF RequestOK
  <2>3. Starts(r, q)
        /\ UNCHANGED <<now, accounts, key, listed, cookie, failures, made, ended, unlisted>>
    BY <1>1 DEF RegisterLooks, counts, history
  <2>4. everywhere' \in 0..MaxEverywhere /\ logins' \in [Users -> Nat]
        /\ doubled' \in [Users -> Nat]
    BY <1>1 DEF RegisterLooks, counts, history, SInv, TypeOK, SessionsAssumption
  <2> HIDE DEF q
  <2> QED
    BY <2>1, <2>2, <2>3, <2>4, Enters
<1>2. ASSUME NEW u \in Users, EverywhereLists(r, u) PROVE SInv'
  <2> DEFINE q == [Idle EXCEPT !.pc = IF listed \cap Of(u) = {} THEN "delSet" ELSE "delAll",
                          !.user = u, !.ids = listed \cap Of(u), !.ends = cookie \cap Of(u)]
  <2>1. q \in Run /\ q.pc \in {"delSet", "delAll"} /\ q.ids = listed \cap Of(u)
        /\ q.ends = cookie \cap Of(u) /\ (q.pc = "delSet" => listed \cap Of(u) = {})
    BY DEF Idle, Run, Flag, SInv, TypeOK
  <2>2. /\ \A t \in q.ids : Settled(t)
        /\ \A t \in q.ends : t \in q.ids \/ Gone(t)
    BY <2>1 DEF SInv, TokensSound, Found
  <2>3. RequestOK(q)
    BY <2>1, <2>2 DEF RequestOK
  <2>4. Starts(r, q)
        /\ UNCHANGED <<now, accounts, key, listed, cookie, failures, made, ended, unlisted>>
    BY <1>2 DEF EverywhereLists, history
  <2>5. everywhere' \in 0..MaxEverywhere /\ logins' \in [Users -> Nat]
        /\ doubled' \in [Users -> Nat]
    <3>1. /\ everywhere < MaxEverywhere /\ everywhere' = everywhere + 1
          /\ UNCHANGED <<logins, doubled>>
      BY <1>2 DEF EverywhereLists, history
    <3>2. everywhere \in Nat /\ MaxEverywhere \in Nat /\ logins \in [Users -> Nat]
          /\ doubled \in [Users -> Nat]
      BY DEF SInv, TypeOK, SessionsAssumption
    <3> QED
      BY <3>1, <3>2
  <2> HIDE DEF q
  <2> QED
    BY <2>1, <2>3, <2>4, <2>5, Enters
<1>3. ASSUME NEW u \in Users, NEW flag \in Flag, Login(r, u, flag) PROVE SInv'
  <2> DEFINE q == [Idle EXCEPT !.pc = "make", !.user = u, !.flag = flag]
  <2>1. q \in Run /\ q.pc = "make" /\ q.user = u /\ q.ends = {} /\ q.ids = {}
    BY DEF Idle, Run
  <2>2. RequestOK(q)
    BY <2>1 DEF RequestOK
  <2>3. Starts(r, q)
        /\ UNCHANGED <<now, accounts, key, listed, cookie, failures, made, ended, unlisted>>
    BY <1>3 DEF Login, counts
  <2>4. everywhere' \in 0..MaxEverywhere /\ logins' \in [Users -> Nat]
        /\ doubled' \in [Users -> Nat]
    <3>1. logins' = [logins EXCEPT ![u] = @ + 1] /\ UNCHANGED <<everywhere, doubled>>
      BY <1>3 DEF Login, counts
    <3> QED
      BY <3>1 DEF SInv, TypeOK
  <2> HIDE DEF q
  <2> QED
    BY <2>1, <2>2, <2>3, <2>4, Enters
<1>4. ASSUME NEW t \in Token, RefreshGets(r, t) PROVE SInv'
  <2> DEFINE q == [Idle EXCEPT !.pc = "take", !.user = t[1], !.token = t, !.ends = {t},
                     !.flag = IF key[t] = "session" THEN "session" ELSE "persistent"]
  <2>1. t \in cookie /\ t[1] \in Users /\ made[t] >= 1
    BY <1>4, InCookie DEF RefreshGets
  <2>2. q \in Run /\ q.pc = "take" /\ q.user = t[1] /\ q.token = t /\ q.ends = {t}
        /\ q.ids = {}
    BY <2>1 DEF Idle, Run, Flag
  <2>3. RequestOK(q)
    BY <2>1, <2>2 DEF RequestOK
  <2>4. Starts(r, q)
        /\ UNCHANGED <<now, accounts, key, listed, cookie, failures, made, ended, unlisted>>
    BY <1>4 DEF RefreshGets, counts
  <2>5. everywhere' \in 0..MaxEverywhere /\ logins' \in [Users -> Nat]
        /\ doubled' \in [Users -> Nat]
    <3>1. doubled' \in {doubled, [doubled EXCEPT ![t[1]] = @ + 1]}
          /\ UNCHANGED <<everywhere, logins>>
      BY <1>4 DEF RefreshGets, counts
    <3> QED
      BY <2>1, <3>1 DEF SInv, TypeOK
  <2> HIDE DEF q
  <2> QED
    BY <2>2, <2>3, <2>4, <2>5, Enters
<1>5. ASSUME NEW t \in Token, LogoutStarts(r, t) PROVE SInv'
  <2> DEFINE q == [Idle EXCEPT !.pc = "del", !.user = t[1], !.token = t, !.ends = {t}]
  <2>1. t \in cookie /\ t[1] \in Users /\ made[t] >= 1
    BY <1>5, InCookie DEF LogoutStarts
  <2>2. q \in Run /\ q.pc = "del" /\ q.token = t /\ q.ends = {t} /\ q.ids = {}
    BY <2>1 DEF Idle, Run, Flag
  <2>3. RequestOK(q)
    BY <2>1, <2>2 DEF RequestOK
  <2>4. Starts(r, q)
        /\ UNCHANGED <<now, accounts, key, listed, cookie, failures, made, ended, unlisted>>
    BY <1>5 DEF LogoutStarts, counts, history
  <2>5. everywhere' \in 0..MaxEverywhere /\ logins' \in [Users -> Nat]
        /\ doubled' \in [Users -> Nat]
    BY <1>5 DEF LogoutStarts, counts, history, SInv, TypeOK, SessionsAssumption
  <2> HIDE DEF q
  <2> QED
    BY <2>2, <2>3, <2>4, <2>5, Enters
<1> QED
  BY <1>1, <1>2, <1>3, <1>4, <1>5

LEMMA OnlyMoves ==
  ASSUME SInv, NEW r \in Requests, NEW pc
  PROVE  LET q == [run[r] EXCEPT !.pc = pc] IN
         /\ q.pc = pc /\ q.user = run[r].user /\ q.token = run[r].token
         /\ q.ends = run[r].ends /\ q.ids = run[r].ids
         /\ pc \in {"idle", "hash", "make", "set", "sadd", "answer", "take", "untake",
                    "account", "del", "srem", "delAll", "delSet"} => q \in Run
BY DEF SInv, TypeOK, Run

\* Requests that go on, or end, without a word to Redis.
LEMMA QuietKeeps ==
  ASSUME SessionsAssumption, SInv, NEW r \in Requests,
         RegisterCreates(r) \/ RefreshFindsAccount(r) \/ Dies(r)
  PROVE  SInv'
<1>1. RequestOK(run[r]) /\ run[r] \in Run /\ run \in [Requests -> Run]
  BY DEF SInv, RequestsSound, TypeOK
<1>2. ASSUME Ends(r), UNCHANGED <<now, accounts, key, listed, cookie, started, everywhere,
                                  made, ended, unlisted, logins, doubled>>,
             failures' \in 0..MaxFailures
      PROVE  SInv'
  <2>1. run' \in [Requests -> Run] /\ run' = [run EXCEPT ![r] = Idle]
    BY <1>1, <1>2, IdleIsSound DEF Ends
  <2>2. TypeOK'
    BY <1>2, <2>1 DEF SInv, TypeOK
  <2> QED
    BY <1>2, <2>1, <2>2, IdleIsSound, PlainStep
<1>3. CASE Dies(r)
  <2>1. failures < MaxFailures /\ failures' = failures + 1 /\ Ends(r)
        /\ UNCHANGED <<now, accounts, key, listed, cookie, started, everywhere, history>>
    BY <1>3 DEF Dies
  <2>2. failures' \in 0..MaxFailures
    BY <2>1 DEF SInv, TypeOK, SessionsAssumption
  <2> QED
    BY <1>2, <2>1, <2>2 DEF history
<1> DEFINE q == [run[r] EXCEPT !.pc = "make"]
<1>4. q \in Run /\ q.pc = "make" /\ q.user = run[r].user /\ q.ends = run[r].ends
      /\ q.ids = run[r].ids
  BY OnlyMoves
<1>5. CASE RegisterCreates(r)
  <2>1. run[r].pc = "hash" /\ run[r].user \in Users /\ run[r].ends = {}
    BY <1>1, <1>5 DEF RegisterCreates, At, RequestOK
  <2>2. UNCHANGED <<now, key, listed, cookie, started, failures, everywhere, made, ended,
                    unlisted, doubled>>
    BY <1>5 DEF RegisterCreates, counts
  <2>3. CASE run[r].user \in accounts
    <3>1. Ends(r) /\ UNCHANGED <<accounts, logins>> /\ failures' \in 0..MaxFailures
      BY <1>5, <2>2, <2>3 DEF RegisterCreates, SInv, TypeOK
    <3> QED
      BY <1>2, <2>2, <3>1
  <2>4. CASE run[r].user \notin accounts
    <3>1. accounts' = accounts \cup {run[r].user} /\ run' = [run EXCEPT ![r] = q]
          /\ logins' = [logins EXCEPT ![run[r].user] = @ + 1]
      BY <1>5, <2>4 DEF RegisterCreates, Goes
    <3>2. RequestOK(q)
      BY <1>1, <1>4, <2>1 DEF RequestOK
    <3>3. TypeOK'
      <4>1. logins' \in [Users -> Nat] /\ accounts' \in SUBSET Users
        BY <2>1, <3>1 DEF SInv, TypeOK
      <4>2. run' \in [Requests -> Run]
        BY <1>1, <1>4, <3>1
      <4> QED
        BY <2>2, <4>1, <4>2 DEF SInv, TypeOK
    <3> HIDE DEF q
    <3> QED
      BY <1>4, <2>2, <3>1, <3>2, <3>3, PlainStep
  <2> QED
    BY <2>3, <2>4
<1>6. CASE RefreshFindsAccount(r)
  <2>1. run[r].pc = "account" /\ run[r].user \in Users /\ run' = [run EXCEPT ![r] = q]
    BY <1>1, <1>6 DEF RefreshFindsAccount, At, Goes, RequestOK
  <2>2. UNCHANGED <<now, accounts, key, listed, cookie, started, failures, everywhere, made,
                    ended, unlisted, logins, doubled>>
    BY <1>6 DEF RefreshFindsAccount, counts, history
  <2>3. RequestOK(q)
    BY <1>1, <1>4, <2>1 DEF RequestOK
  <2>4. TypeOK'
    <3>1. run' \in [Requests -> Run]
      BY <1>1, <1>4, <2>1
    <3> QED
      BY <2>2, <3>1 DEF SInv, TypeOK
  <2> HIDE DEF q
  <2> QED
    BY <1>4, <2>1, <2>2, <2>3, <2>4, PlainStep
<1> QED
  BY <1>3, <1>5, <1>6

\* Nothing of what the invariant is about but the clock.
LEMMA RestKeeps ==
  ASSUME SInv, TypeOK', UNCHANGED <<key, listed, cookie, run, made, ended, unlisted>>
  PROVE  SInv'
<1>1. /\ \A t : Settled(t)' <=> Settled(t)
      /\ \A t : (Gone(t)' <=> Gone(t)) /\ (Found(t)' <=> Found(t))
  BY DEF Settled, Gone, Found, Dead
<1>2. RequestsSound'
  BY <1>1 DEF SInv, RequestsSound, RequestOK
<1>3. SettersAgree' /\ TokensSound'
  BY <1>1 DEF SInv, SettersAgree, TokensSound
<1> QED
  BY <1>2, <1>3 DEF SInv

-----------------------------------------------------------------------------
(* A token is made, stored, listed and handed out                             *)

LEMMA MakesKeeps ==
  ASSUME SessionsAssumption, SInv, NEW r \in Requests, Makes(r)
  PROVE  SInv'
<1>1. RequestOK(run[r]) /\ run[r] \in Run /\ run \in [Requests -> Run]
      /\ made \in [Token -> Nat]
  BY DEF SInv, RequestsSound, TypeOK
<1>2. PICK t \in Token : t = <<run[r].user, now>>
  BY <1>1 DEF Makes, At, RequestOK, Token, SInv, TypeOK
<1>0. PICK q \in Run : q = [run[r] EXCEPT !.pc = "set", !.token = t]
  BY <1>1, <1>2 DEF Run
<1>3. /\ run[r].pc = "make" /\ run' = [run EXCEPT ![r] = q]
      /\ made' = [made EXCEPT ![t] = @ + 1]
      /\ UNCHANGED <<now, accounts, key, listed, cookie, started, failures, everywhere,
                     ended, unlisted, logins, doubled>>
  BY <1>0, <1>1, <1>2 DEF Makes, At, counts
<1>4. q \in Run /\ q.pc = "set" /\ q.token = t /\ q.ends = run[r].ends /\ q.ids = run[r].ids
  BY <1>0, <1>1, <1>2 DEF Run
<1>5. /\ made' \in [Token -> Nat] /\ made'[t] = made[t] + 1 /\ made'[t] >= 1
      /\ \A u \in Token \ {t} : made'[u] = made[u]
      /\ \A u \in Token : made[u] \in Nat /\ made[u] <= made'[u]
  BY <1>1, <1>3
<1>6. run'[r] = q /\ \A x \in Requests \ {r} : run'[x] = run[x]
  BY <1>1, <1>3
<1>7. \A u \in Token : Settled(u) => Settled(u)'
  <2> SUFFICES ASSUME NEW u \in Token, Settled(u) PROVE Settled(u)'
    OBVIOUS
  <2>1. CASE u = t
    BY <1>5, <2>1 DEF Settled
  <2>2. CASE u # t
    BY <1>4, <1>5, <1>6, <2>2 DEF Settled
  <2> QED
    BY <2>1, <2>2
<1>8. \A u \in Token : Settled(u) => /\ Gone(u) => Gone(u)'
                                     /\ Found(u) => Found(u)'
  <2> SUFFICES ASSUME NEW u \in Token, Settled(u), Dead(u) PROVE Dead(u)'
    BY <1>3 DEF Gone, Found
  <2>1. made'[u] = 1 => made[u] = 1
    BY <1>5 DEF Settled
  <2> QED
    BY <1>3, <2>1 DEF Dead
<1>9. Keeps
  BY <1>3, <1>5, <1>7, <1>8 DEF Keeps
<1>10. TypeOK'
  <2>1. run' \in [Requests -> Run]
    BY <1>1, <1>3, <1>4
  <2> QED
    BY <1>3, <1>5, <2>1 DEF SInv, TypeOK
<1>11. cookie \subseteq Token /\ listed \subseteq Token /\ run[r].ends \subseteq cookie
       /\ run[r].ids \subseteq Token
  BY <1>1 DEF SInv, TypeOK, RequestOK, Run
<1>12. TokensSound'
  BY <1>3, <1>7, <1>8, <1>11 DEF SInv, TokensSound
<1>13. RequestOK(q)'
  <2>1. \A u \in q.ids : Settled(u)'
    BY <1>1, <1>4, <1>7, <1>11 DEF RequestOK
  <2>2. \A u \in q.ends : Gone(u)'
    <3>1. \A u \in run[r].ends : Gone(u) /\ Settled(u) /\ u \in Token
      BY <1>1, <1>3, <1>11 DEF RequestOK, SInv, TokensSound
    <3> QED
      BY <1>4, <1>8, <3>1
  <2>3. q.token \in Token /\ made'[q.token] >= 1 /\ q.ends \subseteq cookie'
    <3>1. made'[q.token] >= 1
      BY <1>4, <1>5
    <3> QED
      BY <1>3, <1>4, <1>11, <3>1
  <2> QED
    BY <1>4, <2>1, <2>2, <2>3 DEF RequestOK
<1>14. ASSUME NEW x \in Requests \ {r}, run[x].pc = "set", run[x].token = q.token
       PROVE  made'[q.token] >= 2
  <2>1. made[t] >= 1
    BY <1>4, <1>14 DEF SInv, RequestsSound, RequestOK
  <2>2. made[t] \in Nat /\ made'[t] = made[t] + 1
    BY <1>5
  <2>3. made'[t] >= 2
    BY <2>1, <2>2
  <2> QED
    BY <1>4, <2>3
<1> QED
  BY <1>3, <1>4, <1>9, <1>10, <1>12, <1>13, <1>14, RequestMoves

LEMMA SetsKeeps ==
  ASSUME SessionsAssumption, SInv, NEW r \in Requests, Sets(r)
  PROVE  SInv'
<1>1. RequestOK(run[r]) /\ run[r] \in Run /\ run \in [Requests -> Run]
      /\ made \in [Token -> Nat] /\ key \in [Token -> Flag \cup {"none"}]
  BY DEF SInv, RequestsSound, TypeOK
<1>2. PICK t \in Token : t = run[r].token
  BY <1>1 DEF Sets, At, RequestOK
<1>3. PICK q \in Run : q = [run[r] EXCEPT !.pc = "sadd"]
  BY OnlyMoves
<1>4. /\ run[r].pc = "set" /\ run' = [run EXCEPT ![r] = q]
      /\ key' = [key EXCEPT ![t] = run[r].flag]
      /\ UNCHANGED <<now, accounts, listed, cookie, started, failures, everywhere, made,
                     ended, unlisted, logins, doubled>>
  BY <1>2, <1>3 DEF Sets, At, Goes, counts, history
<1>5. q.pc = "sadd" /\ q.token = t /\ q.ends = run[r].ends /\ q.ids = run[r].ids
  BY <1>2, <1>3, OnlyMoves
<1>6. run'[r] = q /\ \A x \in Requests \ {r} : run'[x] = run[x]
  BY <1>1, <1>4
<1>7. made[t] >= 1 /\ ~(Settled(t) /\ made[t] = 1)
  BY <1>1, <1>2, <1>4 DEF RequestOK, Settled
<1>8. \A u \in Token : (Settled(u) => Settled(u)')
  BY <1>4, <1>5, <1>6 DEF Settled
<1>9. Settled(t)'
  <2>1. ASSUME NEW x \in Requests, run'[x].pc = "set", run'[x].token = t, made[t] = 1
        PROVE  FALSE
    <3>1. x # r /\ run[x].pc = "set" /\ run[x].token = t
      BY <1>5, <1>6, <2>1
    <3>2. made[t] >= 2
      BY <1>2, <1>4, <3>1 DEF SInv, SettersAgree
    <3> QED
      BY <2>1, <3>2
  <2> QED
    BY <1>4, <1>7, <2>1 DEF Settled
<1>10. \A u \in Token : Settled(u) => /\ Gone(u) => Gone(u)'
                                      /\ Found(u) => Found(u)'
  <2> SUFFICES ASSUME NEW u \in Token, Settled(u), Dead(u) PROVE Dead(u)'
    BY <1>4 DEF Gone, Found
  <2>1. CASE u = t
    BY <1>4, <1>7, <2>1 DEF Dead
  <2>2. CASE u # t
    BY <1>1, <1>4, <2>2 DEF Dead
  <2> QED
    BY <2>1, <2>2
<1>11. Keeps
  BY <1>1, <1>4, <1>8, <1>10 DEF Keeps
<1>12. TypeOK'
  <2>1. run' \in [Requests -> Run] /\ run[r].flag \in Flag
    BY <1>1, <1>4 DEF Run
  <2>2. key' \in [Token -> Flag \cup {"none"}]
    BY <1>1, <1>4, <2>1
  <2> QED
    BY <1>4, <2>1, <2>2 DEF SInv, TypeOK
<1>13. cookie \subseteq Token /\ listed \subseteq Token /\ run[r].ends \subseteq cookie
       /\ run[r].ids \subseteq Token
  BY <1>1 DEF SInv, TypeOK, RequestOK, Run
<1>14. TokensSound'
  BY <1>4, <1>8, <1>10, <1>13 DEF SInv, TokensSound
<1>15. RequestOK(q)'
  <2>1. \A u \in q.ids : Settled(u)'
    BY <1>1, <1>5, <1>8, <1>13 DEF RequestOK
  <2>2. \A u \in q.ends : Gone(u)'
    <3>1. \A u \in run[r].ends : Gone(u) /\ Settled(u) /\ u \in Token
      BY <1>1, <1>4, <1>13 DEF RequestOK, SInv, TokensSound
    <3> QED
      BY <1>5, <1>10, <3>1
  <2>3. q.ends \subseteq cookie' /\ made'[q.token] >= 1
    BY <1>4, <1>5, <1>7, <1>13
  <2> QED
    BY <1>5, <1>9, <2>1, <2>2, <2>3 DEF RequestOK
<1> QED
  BY <1>4, <1>5, <1>11, <1>12, <1>14, <1>15, RequestMoves

LEMMA ListsKeeps ==
  ASSUME SessionsAssumption, SInv, NEW r \in Requests, Lists(r)
  PROVE  SInv'
<1>1. RequestOK(run[r]) /\ run[r] \in Run /\ run \in [Requests -> Run]
  BY DEF SInv, RequestsSound, TypeOK
<1>2. PICK t \in Token : t = run[r].token
  BY <1>1 DEF Lists, At, RequestOK
<1>3. PICK q \in Run : q = [run[r] EXCEPT !.pc = "answer"]
  BY OnlyMoves
<1>4. /\ run[r].pc = "sadd" /\ run' = [run EXCEPT ![r] = q] /\ listed' = listed \cup {t}
      /\ UNCHANGED <<now, accounts, key, cookie, started, failures, everywhere, made,
                     ended, unlisted, logins, doubled>>
  BY <1>2, <1>3 DEF Lists, At, Goes, counts, history
<1>5. q.pc = "answer" /\ q.token = t /\ q.ends = run[r].ends /\ q.ids = run[r].ids
  BY <1>2, <1>3, OnlyMoves
<1>6. run'[r] = q /\ \A x \in Requests \ {r} : run'[x] = run[x]
  BY <1>1, <1>4
<1>7. \A u \in Token : /\ Settled(u) => Settled(u)'
                       /\ Gone(u) => Gone(u)'
                       /\ Found(u) => Found(u)'
  BY <1>4, <1>5, <1>6 DEF Settled, Gone, Found, Dead
<1>8. Settled(t) /\ Found(t)' /\ made[t] >= 1
  BY <1>1, <1>2, <1>4 DEF RequestOK, Found
<1>9. Keeps
  BY <1>4, <1>7 DEF Keeps, SInv, TypeOK
<1>10. TypeOK'
  <2>1. run' \in [Requests -> Run]
    BY <1>1, <1>4
  <2> QED
    BY <1>4, <2>1 DEF SInv, TypeOK
<1>11. cookie \subseteq Token /\ listed \subseteq Token /\ run[r].ends \subseteq cookie
       /\ run[r].ids \subseteq Token
  BY <1>1 DEF SInv, TypeOK, RequestOK, Run
<1>12. TokensSound'
  BY <1>4, <1>7, <1>8, <1>11 DEF SInv, TokensSound
<1>13. RequestOK(q)'
  <2>1. \A u \in q.ids : Settled(u)'
    BY <1>1, <1>5, <1>7, <1>11 DEF RequestOK
  <2>2. \A u \in q.ends : Gone(u)'
    BY <1>1, <1>4, <1>5, <1>7, <1>11 DEF RequestOK
  <2> QED
    BY <1>4, <1>5, <1>7, <1>8, <1>11, <2>1, <2>2 DEF RequestOK
<1> QED
  BY <1>4, <1>5, <1>9, <1>10, <1>12, <1>13, RequestMoves

-----------------------------------------------------------------------------
(* Keys and entries go                                                        *)

\* Keys are deleted; an entry goes only where the key has gone or the token is
\* given up; a token is handed out only if it can be found.
Shrinks ==
  /\ made' = made /\ listed' \subseteq listed /\ unlisted \subseteq unlisted'
  /\ \A t \in Token : key'[t] \in {key[t], "none"}
  /\ \A t \in listed \ listed' : Gone(t)'
  /\ cookie \subseteq cookie'
  /\ \A t \in cookie' \ cookie : Settled(t) /\ Found(t)

LEMMA ShrinkKeeps ==
  ASSUME SInv, NEW r \in Requests, NEW q \in Run, run' = [run EXCEPT ![r] = q],
         q.pc # "set", Shrinks
  PROVE  /\ Keeps
         /\ \A t \in Token : /\ Settled(t) => Settled(t)'
                             /\ Gone(t) => Gone(t)'
                             /\ Found(t) => Found(t)'
<1>1. run'[r] = q /\ \A x \in Requests \ {r} : run'[x] = run[x]
  BY DEF SInv, TypeOK
<1>2. ASSUME NEW t \in Token, Settled(t) PROVE Settled(t)'
  BY <1>1, <1>2 DEF Settled, Shrinks
<1>3. ASSUME NEW t \in Token, Gone(t) PROVE Gone(t)'
  BY <1>3 DEF Gone, Dead, Shrinks
<1>4. ASSUME NEW t \in Token, Found(t) PROVE Found(t)'
  BY <1>3, <1>4 DEF Found, Shrinks
<1>5. \A t \in Token : made[t] <= made'[t]
  BY DEF SInv, TypeOK, Shrinks
<1> QED
  BY <1>2, <1>3, <1>4, <1>5 DEF Keeps, Shrinks

LEMMA ShrinkStep ==
  ASSUME SInv, TypeOK', NEW r \in Requests, NEW q \in Run, run' = [run EXCEPT ![r] = q],
         q.pc # "set", Shrinks, RequestOK(q)',
         ended' \subseteq ended \cup {t \in cookie : Gone(t)'}
  PROVE  SInv'
<1>1. Keeps /\ \A t \in Token : /\ Settled(t) => Settled(t)'
                                /\ Gone(t) => Gone(t)'
                                /\ Found(t) => Found(t)'
  BY ShrinkKeeps
<1>2. cookie' \subseteq Token /\ listed' \subseteq Token /\ ended' \subseteq Token
  BY DEF TypeOK
<1>3. TokensSound'
  BY <1>1, <1>2 DEF SInv, TokensSound, TypeOK, Shrinks
<1> QED
  BY <1>1, <1>3, RequestMoves

\* What r had read and was to end stays read and to be ended.
LEMMA HandStays ==
  ASSUME SInv, NEW r \in Requests, NEW q \in Run, run' = [run EXCEPT ![r] = q],
         q.pc # "set", Shrinks, q.ends = run[r].ends, q.ids = run[r].ids
  PROVE  /\ q.ends \subseteq cookie' /\ q.ends \subseteq Token /\ q.ids \subseteq Token
         /\ \A t \in q.ids : Settled(t)'
         /\ \A t \in q.ends \cup q.ids : Gone(t) => Gone(t)'
<1>1. RequestOK(run[r]) /\ run[r] \in Run
  BY DEF SInv, RequestsSound, TypeOK
<1>2. q.ends \subseteq cookie /\ q.ids \subseteq Token /\ cookie \subseteq Token
  BY <1>1 DEF RequestOK, SInv, TypeOK, Run
<1>3. \A t \in Token : (Settled(t) => Settled(t)') /\ (Gone(t) => Gone(t)')
  BY ShrinkKeeps
<1> QED
  BY <1>1, <1>2, <1>3 DEF RequestOK, Shrinks

LEMMA AnswersKeeps ==
  ASSUME SessionsAssumption, SInv, NEW r \in Requests, AnswersToken(r)
  PROVE  SInv'
<1>1. RequestOK(run[r]) /\ run \in [Requests -> Run]
  BY DEF SInv, RequestsSound, TypeOK
<1>2. PICK t \in Token : t = run[r].token
  BY <1>1 DEF AnswersToken, At, RequestOK
<1>3. /\ run[r].pc = "answer" /\ run' = [run EXCEPT ![r] = Idle]
      /\ cookie' = cookie \cup {t} /\ ended' = ended \cup run[r].ends
      /\ UNCHANGED <<now, accounts, key, listed, started, failures, everywhere, made,
                     unlisted, logins, doubled>>
  BY <1>2 DEF AnswersToken, At, Ends, counts
<1>4. Settled(t) /\ Found(t) /\ run[r].ends \subseteq cookie /\ \A u \in run[r].ends : Gone(u)
  BY <1>1, <1>2, <1>3 DEF RequestOK
<1>5. Shrinks
  BY <1>3, <1>4 DEF Shrinks
<1>6. TypeOK'
  <2>1. run' \in [Requests -> Run] /\ ended' \in SUBSET Token /\ cookie' \in SUBSET Token
    BY <1>1, <1>3, <1>4, IdleIsSound DEF SInv, TypeOK
  <2> QED
    BY <1>3, <2>1 DEF SInv, TypeOK
<1>7. \A u \in run[r].ends : Gone(u)'
  BY <1>3, <1>4 DEF Gone, Dead
<1> QED
  BY <1>3, <1>4, <1>5, <1>6, <1>7, IdleIsSound, ShrinkStep

\* A refresh or a logout deletes the key of its token.
LEMMA DeletesKeep ==
  ASSUME SessionsAssumption, SInv, NEW r \in Requests, RefreshDeletes(r) \/ LogoutDeletes(r)
  PROVE  SInv'
<1>1. RequestOK(run[r]) /\ run[r] \in Run /\ run \in [Requests -> Run]
      /\ key \in [Token -> Flag \cup {"none"}]
  BY DEF SInv, RequestsSound, TypeOK
<1>2. PICK t \in Token : t = run[r].token
  BY <1>1 DEF RefreshDeletes, LogoutDeletes, At, RequestOK
<1>3. PICK q \in Run : q = [run[r] EXCEPT !.pc = IF run[r].pc = "take" THEN "untake" ELSE "srem"]
  BY OnlyMoves
<1>4. /\ run[r].pc \in {"take", "del"} /\ run' = [run EXCEPT ![r] = q]
      /\ key' = [key EXCEPT ![t] = "none"]
      /\ UNCHANGED <<now, accounts, listed, cookie, started, failures, everywhere, made,
                     ended, unlisted, logins, doubled>>
  BY <1>2, <1>3 DEF RefreshDeletes, LogoutDeletes, At, Goes, counts, history
<1>5. /\ q.pc \in {"untake", "srem"} /\ (q.pc = "untake" => run[r].pc = "take")
      /\ q.token = t /\ q.ends = run[r].ends /\ q.ids = run[r].ids /\ q.user = run[r].user
  BY <1>2, <1>3, <1>4, OnlyMoves
<1>6. Shrinks
  BY <1>1, <1>4 DEF Shrinks
<1>7. TypeOK'
  <2>1. run' \in [Requests -> Run] /\ key' \in [Token -> Flag \cup {"none"}]
    BY <1>1, <1>4
  <2> QED
    BY <1>4, <2>1 DEF SInv, TypeOK
<1>8. q.ends = {t} /\ made[t] >= 1 /\ Gone(t)'
  BY <1>1, <1>2, <1>4, <1>5 DEF RequestOK, Gone, Dead
<1>9. q.ends \subseteq cookie' /\ \A u \in q.ids : Settled(u)'
  BY <1>4, <1>5, <1>6, HandStays
<1>10. RequestOK(q)'
  BY <1>1, <1>4, <1>5, <1>8, <1>9 DEF RequestOK
<1> QED
  BY <1>4, <1>5, <1>6, <1>7, <1>10, ShrinkStep

\* Then it takes the entry from the list.
LEMMA UnlistsKeep ==
  ASSUME SessionsAssumption, SInv, NEW r \in Requests, RefreshUnlists(r) \/ LogoutUnlists(r)
  PROVE  SInv'
<1>1. RequestOK(run[r]) /\ run[r] \in Run /\ run \in [Requests -> Run]
  BY DEF SInv, RequestsSound, TypeOK
<1>2. PICK t \in Token : t = run[r].token
  BY <1>1 DEF RefreshUnlists, LogoutUnlists, At, RequestOK
<1>3. /\ run[r].pc \in {"untake", "srem"} /\ listed' = listed \ {t}
      /\ UNCHANGED <<now, accounts, key, cookie, started, failures, everywhere, made,
                     unlisted, logins, doubled>>
  BY <1>2 DEF RefreshUnlists, LogoutUnlists, At, counts, history
<1>4. run[r].ends = {t} /\ Gone(t) /\ t \in cookie
  BY <1>1, <1>2, <1>3 DEF RequestOK
<1>5. Gone(t)' /\ Shrinks
  BY <1>3, <1>4 DEF Gone, Dead, Shrinks
<1>6. CASE RefreshUnlists(r)
  <2>1. PICK q \in Run : q = [run[r] EXCEPT !.pc = "account"]
    BY OnlyMoves
  <2>2. run' = [run EXCEPT ![r] = q] /\ ended' = ended /\ run[r].pc = "untake"
    BY <1>6, <2>1 DEF RefreshUnlists, Goes, At, history
  <2>3. q.pc = "account" /\ q.ends = {t} /\ q.ids = run[r].ids /\ q.user = run[r].user
    BY <1>4, <2>1, OnlyMoves
  <2>4. TypeOK'
    <3>1. run' \in [Requests -> Run] /\ listed' \in SUBSET Token
      BY <1>1, <1>3, <2>2 DEF SInv, TypeOK
    <3> QED
      BY <1>3, <2>2, <3>1 DEF SInv, TypeOK
  <2>5. q.ends \subseteq cookie' /\ \A u \in q.ids : Settled(u)'
    BY <1>4, <1>5, <2>2, <2>3, HandStays
  <2>6. RequestOK(q)'
    BY <1>1, <1>5, <2>2, <2>3, <2>5 DEF RequestOK
  <2> QED
    BY <1>5, <2>2, <2>3, <2>4, <2>6, ShrinkStep
<1>7. CASE LogoutUnlists(r)
  <2>1. run' = [run EXCEPT ![r] = Idle] /\ ended' = ended \cup {t}
    BY <1>4, <1>7 DEF LogoutUnlists, Ends
  <2>2. TypeOK'
    <3>1. run' \in [Requests -> Run] /\ listed' \in SUBSET Token /\ ended' \in SUBSET Token
      BY <1>1, <1>3, <2>1, IdleIsSound DEF SInv, TypeOK
    <3> QED
      BY <1>3, <3>1 DEF SInv, TypeOK
  <2> QED
    BY <1>4, <1>5, <2>1, <2>2, IdleIsSound, ShrinkStep
<1> QED
  BY <1>6, <1>7

LEMMA EverywhereDeletesKeeps ==
  ASSUME SessionsAssumption, SInv, NEW r \in Requests, EverywhereDeletes(r)
  PROVE  SInv'
<1>1. RequestOK(run[r]) /\ run[r] \in Run /\ run \in [Requests -> Run]
      /\ key \in [Token -> Flag \cup {"none"}]
  BY DEF SInv, RequestsSound, TypeOK
<1>2. PICK q \in Run : q = [run[r] EXCEPT !.pc = "delSet"]
  BY OnlyMoves
<1>3. /\ run[r].pc = "delAll" /\ run' = [run EXCEPT ![r] = q]
      /\ key' = [t \in Token |-> IF t \in run[r].ids THEN "none" ELSE key[t]]
      /\ UNCHANGED <<now, accounts, listed, cookie, started, failures, everywhere, made,
                     ended, unlisted, logins, doubled>>
  BY <1>2 DEF EverywhereDeletes, At, Goes, counts, history
<1>4. q.pc = "delSet" /\ q.ends = run[r].ends /\ q.ids = run[r].ids
  BY <1>2, OnlyMoves
<1>5. Shrinks
  BY <1>3 DEF Shrinks
<1>6. TypeOK'
  <2>1. run' \in [Requests -> Run]
    BY <1>1, <1>3
  <2>2. key' \in [Token -> Flag \cup {"none"}]
    BY <1>1, <1>3
  <2> QED
    BY <1>3, <2>1, <2>2 DEF SInv, TypeOK
<1>7. /\ q.ends \subseteq cookie' /\ q.ids \subseteq Token
      /\ \A u \in q.ids : Settled(u)'
      /\ \A u \in q.ends : Gone(u) => Gone(u)'
  BY <1>3, <1>4, <1>5, HandStays
<1>8. \A u \in q.ids : Gone(u)'
  BY <1>3, <1>4, <1>7 DEF Gone, Dead
<1>9. \A u \in q.ends : Gone(u)'
  BY <1>1, <1>3, <1>4, <1>7, <1>8 DEF RequestOK
<1>10. RequestOK(q)'
  BY <1>4, <1>7, <1>8, <1>9 DEF RequestOK
<1> QED
  BY <1>3, <1>4, <1>5, <1>6, <1>10, ShrinkStep

\* The list goes, and with it entries of sessions it was not asked about.
LEMMA EverywhereDropsKeeps ==
  ASSUME SessionsAssumption, SInv, NEW r \in Requests, EverywhereDropsList(r)
  PROVE  SInv'
<1>1. RequestOK(run[r]) /\ run \in [Requests -> Run]
  BY DEF SInv, RequestsSound, TypeOK
<1> DEFINE mine == listed \cap Of(run[r].user)
<1>2. /\ run[r].pc = "delSet" /\ run' = [run EXCEPT ![r] = Idle]
      /\ listed' = listed \ Of(run[r].user) /\ unlisted' = unlisted \cup (mine \ run[r].ids)
      /\ ended' = ended \cup run[r].ends
      /\ UNCHANGED <<now, accounts, key, cookie, started, failures, everywhere, made,
                     logins, doubled>>
  BY DEF EverywhereDropsList, At, Ends, counts
<1>3. run[r].ends \subseteq cookie /\ \A t \in run[r].ends \cup run[r].ids : Gone(t)
  BY <1>1, <1>2 DEF RequestOK
<1>4. \A t : Gone(t) => Gone(t)'
  BY <1>2 DEF Gone, Dead
<1>5. Shrinks
  <2>1. \A t \in listed \ listed' : Gone(t)'
    BY <1>2, <1>3, <1>4 DEF Gone
  <2> QED
    BY <1>2, <2>1 DEF Shrinks
<1>6. TypeOK'
  <2>1. run' \in [Requests -> Run] /\ listed' \in SUBSET Token /\ ended' \in SUBSET Token
        /\ unlisted' \in SUBSET Token
    BY <1>1, <1>2, <1>3, IdleIsSound DEF SInv, TypeOK
  <2> QED
    BY <1>2, <2>1 DEF SInv, TypeOK
<1> QED
  BY <1>2, <1>3, <1>4, <1>5, <1>6, IdleIsSound, ShrinkStep

-----------------------------------------------------------------------------
(* The theorem                                                                *)

LEMMA StepKeeps == ASSUME SessionsAssumption, SInv, [Next]_vars PROVE SInv'
<1>1. CASE UNCHANGED vars
  <2>1. TypeOK'
    BY <1>1 DEF vars, counts, history, SInv, TypeOK
  <2> QED
    BY <1>1, <2>1, RestKeeps DEF vars, counts, history
<1>2. CASE Tick
  <2>1. UNCHANGED <<accounts, key, listed, cookie, run, started, failures, everywhere, made,
                    ended, unlisted, logins, doubled>>
        /\ now' \in 0..LastMoment
    BY <1>2 DEF Tick, counts, history, SInv, TypeOK, SessionsAssumption
  <2>2. TypeOK'
    BY <2>1 DEF SInv, TypeOK
  <2> QED
    BY <2>1, <2>2, RestKeeps
<1>3. CASE Next /\ ~Tick
  BY <1>3, EntersKeep, QuietKeeps, MakesKeeps, SetsKeeps, ListsKeeps, AnswersKeeps,
     DeletesKeep, UnlistsKeep, EverywhereDeletesKeeps, EverywhereDropsKeeps DEF Next
<1> QED
  BY <1>1, <1>2, <1>3

\* token.service.ts: a token that a refresh or a logout was to end opens nothing
\* any more once that request has answered, whatever ran beside it, but for the
\* tokens an earlier logout from all devices has dropped from the list.
THEOREM EndedTokensAreDead ==
  ASSUME SessionsAssumption
  PROVE  Spec => [](TypeOK /\ EndedIsDead)
<1>1. Init => SInv
  BY InitHolds
<1>2. SInv /\ [Next]_vars => SInv'
  BY StepKeeps
<1>3. SInv => TypeOK /\ EndedIsDead
  BY DEF SInv, TokensSound, Gone, EndedIsDead
<1> QED
  BY <1>1, <1>2, <1>3, PTL DEF Spec

-----------------------------------------------------------------------------
(* How many sessions a user has                                               *)

\* A live token that no refresh has read, and the requests that hold a session
\* between two tokens or are about to end the one they have read: together the
\* user's claims, each of which a login brought or a doubled refresh.
Taken(t) == \E x \in Requests : run[x].pc = "take" /\ run[x].token = t
Free(u) == {t \in Of(u) : key[t] # "none" /\ ~Taken(t)}
Bears(q, u) == q.user = u /\ q.pc \in {"take", "untake", "account", "make", "set"}
Heirs(u) == {x \in Requests : Bears(run[x], u)}

OwnersKnown ==
  \A x \in Requests : run[x].pc \in {"take", "set"} =>
    run[x].user \in Users /\ run[x].token \in Of(run[x].user)

ClaimsCounted ==
  \A u \in Users : Cardinality(Free(u)) + Cardinality(Heirs(u)) <= logins[u] + doubled[u]

CountInv == OwnersKnown /\ ClaimsCounted

LEMMA ClaimsAreFinite ==
  ASSUME SessionsAssumption, NEW u \in Users
  PROVE  /\ IsFiniteSet(Of(u))
         /\ IsFiniteSet(Free(u)) /\ Cardinality(Free(u)) \in Nat
         /\ IsFiniteSet(Heirs(u)) /\ Cardinality(Heirs(u)) \in Nat
<1>1. IsFiniteSet({u} \X (0..LastMoment))
  <2>1. IsFiniteSet({u})
    BY FS_Singleton
  <2>2. 0 \in Int /\ LastMoment \in Int
    BY DEF SessionsAssumption
  <2>3. IsFiniteSet(0..LastMoment)
    BY <2>2, FS_Interval
  <2> QED
    BY <2>1, <2>3, FS_Product
<1>2. Of(u) \subseteq {u} \X (0..LastMoment)
  BY DEF Of, Token
<1>3. IsFiniteSet(Of(u)) /\ Free(u) \subseteq Of(u) /\ Heirs(u) \subseteq Requests
  BY <1>1, <1>2, FS_Subset DEF Free, Heirs
<1>4. IsFiniteSet(Free(u)) /\ IsFiniteSet(Heirs(u))
  BY <1>3, FS_Subset DEF SessionsAssumption
<1> QED
  BY <1>3, <1>4, FS_CardinalityType

LEMMA ClaimsAreFiniteNext ==
  ASSUME SessionsAssumption, NEW u \in Users
  PROVE  /\ IsFiniteSet(Free(u)') /\ Cardinality(Free(u)') \in Nat
         /\ IsFiniteSet(Heirs(u)') /\ Cardinality(Heirs(u)') \in Nat
<1>1. IsFiniteSet(Of(u)) /\ Free(u)' \subseteq Of(u) /\ Heirs(u)' \subseteq Requests
  BY ClaimsAreFinite DEF Free, Heirs, Of
<1>2. IsFiniteSet(Free(u)') /\ IsFiniteSet(Heirs(u)')
  BY <1>1, FS_Subset DEF SessionsAssumption
<1> QED
  BY <1>2, FS_CardinalityType

\* The arithmetic of one more and one less.
LEMMA OneMore ==
  ASSUME NEW S, IsFiniteSet(S), NEW T, NEW x, T \subseteq S \cup {x}
  PROVE  Cardinality(T) <= Cardinality(S) + 1
<1>1. /\ IsFiniteSet(S \cup {x}) /\ Cardinality(S) \in Nat
      /\ Cardinality(S \cup {x}) \in {Cardinality(S), Cardinality(S) + 1}
  BY FS_AddElement, FS_CardinalityType
<1>2. IsFiniteSet(T) /\ Cardinality(T) <= Cardinality(S \cup {x})
  BY <1>1, FS_Subset
<1>3. Cardinality(T) \in Nat
  BY <1>2, FS_CardinalityType
<1> QED
  BY <1>1, <1>2, <1>3

LEMMA OneLess ==
  ASSUME NEW S, IsFiniteSet(S), NEW T, NEW x \in S, T \subseteq S \ {x}
  PROVE  Cardinality(T) + 1 <= Cardinality(S)
<1>1. /\ IsFiniteSet(S \ {x}) /\ Cardinality(S) \in Nat
      /\ Cardinality(S \ {x}) = Cardinality(S) - 1
  BY FS_RemoveElement, FS_CardinalityType
<1>2. IsFiniteSet(T) /\ Cardinality(T) <= Cardinality(S \ {x})
  BY <1>1, FS_Subset
<1>3. Cardinality(T) \in Nat
  BY <1>2, FS_CardinalityType
<1> QED
  BY <1>1, <1>2, <1>3

\* What becomes of a user's claims when nothing is added to them, when a session
\* passes from a token to a request or back, and when one begins.
ClaimsPass(u) ==
  \/ /\ Free(u)' \subseteq Free(u) /\ Heirs(u)' \subseteq Heirs(u)
     /\ logins'[u] + doubled'[u] >= logins[u] + doubled[u]
  \/ /\ \E t \in Free(u) : Free(u)' \subseteq Free(u) \ {t}
     /\ \E x : Heirs(u)' \subseteq Heirs(u) \cup {x}
     /\ logins'[u] + doubled'[u] >= logins[u] + doubled[u]
  \/ /\ \E t : Free(u)' \subseteq Free(u) \cup {t}
     /\ \E x \in Heirs(u) : Heirs(u)' \subseteq Heirs(u) \ {x}
     /\ logins'[u] + doubled'[u] >= logins[u] + doubled[u]
  \/ /\ Free(u)' \subseteq Free(u)
     /\ \E x : Heirs(u)' \subseteq Heirs(u) \cup {x}
     /\ logins'[u] + doubled'[u] >= logins[u] + doubled[u] + 1

LEMMA ClaimsStayCounted ==
  ASSUME SessionsAssumption, TypeOK, TypeOK', ClaimsCounted,
         \A u \in Users : ClaimsPass(u)
  PROVE  ClaimsCounted'
<1> SUFFICES ASSUME NEW u \in Users
             PROVE  Cardinality(Free(u)') + Cardinality(Heirs(u)') <= logins'[u] + doubled'[u]
  BY DEF ClaimsCounted
<1> DEFINE f == Cardinality(Free(u))    h == Cardinality(Heirs(u))
           f2 == Cardinality(Free(u)')  h2 == Cardinality(Heirs(u)')
           b == logins[u] + doubled[u]  b2 == logins'[u] + doubled'[u]
<1>1. f \in Nat /\ h \in Nat /\ f2 \in Nat /\ h2 \in Nat /\ f + h <= b
  BY ClaimsAreFinite, ClaimsAreFiniteNext DEF ClaimsCounted
<1>2. b \in Nat /\ b2 \in Nat
  BY DEF TypeOK
<1>3. IsFiniteSet(Free(u)) /\ IsFiniteSet(Heirs(u))
  BY ClaimsAreFinite
<1>4. CASE /\ Free(u)' \subseteq Free(u) /\ Heirs(u)' \subseteq Heirs(u)
           /\ b2 >= b
  <2>1. f2 <= f /\ h2 <= h
    BY <1>3, <1>4, FS_Subset
  <2> HIDE DEF f, h, f2, h2, b, b2
  <2>2. f2 + h2 <= b2
    BY <1>1, <1>2, <1>4, <2>1
  <2> QED
    BY <2>2 DEF f2, h2, b2
<1>5. CASE /\ \E t \in Free(u) : Free(u)' \subseteq Free(u) \ {t}
           /\ \E x : Heirs(u)' \subseteq Heirs(u) \cup {x}
           /\ b2 >= b
  <2>1. f2 + 1 <= f /\ h2 <= h + 1
    BY <1>3, <1>5, OneMore, OneLess
  <2> HIDE DEF f, h, f2, h2, b, b2
  <2>2. f2 + h2 <= b2
    BY <1>1, <1>2, <1>5, <2>1
  <2> QED
    BY <2>2 DEF f2, h2, b2
<1>6. CASE /\ \E t : Free(u)' \subseteq Free(u) \cup {t}
           /\ \E x \in Heirs(u) : Heirs(u)' \subseteq Heirs(u) \ {x}
           /\ b2 >= b
  <2>1. f2 <= f + 1 /\ h2 + 1 <= h
    BY <1>3, <1>6, OneMore, OneLess
  <2> HIDE DEF f, h, f2, h2, b, b2
  <2>2. f2 + h2 <= b2
    BY <1>1, <1>2, <1>6, <2>1
  <2> QED
    BY <2>2 DEF f2, h2, b2
<1>7. CASE /\ Free(u)' \subseteq Free(u)
           /\ \E x : Heirs(u)' \subseteq Heirs(u) \cup {x}
           /\ b2 >= b + 1
  <2>1. f2 <= f /\ h2 <= h + 1
    BY <1>3, <1>7, FS_Subset, OneMore
  <2> HIDE DEF f, h, f2, h2, b, b2
  <2>2. f2 + h2 <= b2
    BY <1>1, <1>2, <1>7, <2>1
  <2> QED
    BY <2>2 DEF f2, h2, b2
<1> QED
  BY <1>4, <1>5, <1>6, <1>7 DEF ClaimsPass

-----------------------------------------------------------------------------
(* Every step passes claims on                                                *)

LEMMA OthersBear ==
  ASSUME TypeOK, NEW r \in Requests, NEW q, run' = [run EXCEPT ![r] = q]
  PROVE  /\ run'[r] = q /\ \A x \in Requests \ {r} : run'[x] = run[x]
         /\ \A u : Heirs(u)' \subseteq Heirs(u) \cup {r}
         /\ \A u : ~Bears(q, u) => Heirs(u)' \subseteq Heirs(u) \ {r}
         /\ \A u : Bears(run[r], u) => Heirs(u)' \subseteq Heirs(u)
<1>1. run'[r] = q /\ \A x \in Requests \ {r} : run'[x] = run[x]
  BY DEF TypeOK
<1> QED
  BY <1>1 DEF Heirs, Bears

\* A request that neither begins a session nor reads or has read a token.
LEMMA CalmKeeps ==
  ASSUME SessionsAssumption, TypeOK, TypeOK', CountInv, NEW r \in Requests, NEW q,
         run' = [run EXCEPT ![r] = q], run[r].pc # "take", q.pc # "take",
         \A t \in Token : key'[t] # "none" => key[t] # "none",
         \A u : Bears(q, u) => Bears(run[r], u),
         q.pc = "set" => q.user \in Users /\ q.token \in Of(q.user),
         \A u \in Users : logins'[u] >= logins[u] /\ doubled'[u] >= doubled[u]
  PROVE  CountInv'
<1>1. /\ run'[r] = q /\ \A x \in Requests \ {r} : run'[x] = run[x]
      /\ \A u : ~Bears(q, u) => Heirs(u)' \subseteq Heirs(u) \ {r}
      /\ \A u : Bears(run[r], u) => Heirs(u)' \subseteq Heirs(u)
  BY OthersBear
<1>2. OwnersKnown'
  BY <1>1 DEF CountInv, OwnersKnown, Of
<1>3. \A t : Taken(t)' <=> Taken(t)
  BY <1>1 DEF Taken
<1>4. ASSUME NEW u \in Users PROVE ClaimsPass(u)
  <2>1. Free(u)' \subseteq Free(u)
    BY <1>3 DEF Free, Of
  <2>2. Heirs(u)' \subseteq Heirs(u)
    BY <1>1
  <2>3. logins'[u] + doubled'[u] >= logins[u] + doubled[u]
    BY DEF TypeOK
  <2> QED
    BY <2>1, <2>2, <2>3 DEF ClaimsPass
<1> QED
  BY <1>2, <1>4, ClaimsStayCounted DEF CountInv

\* A login or a registration begins one.
LEMMA BeginsKeeps ==
  ASSUME SessionsAssumption, TypeOK, TypeOK', CountInv, NEW r \in Requests, NEW q,
         NEW u \in Users, run' = [run EXCEPT ![r] = q], run[r].pc # "take",
         q.pc = "make", q.user = u,
         UNCHANGED <<key, doubled>>, logins' = [logins EXCEPT ![u] = @ + 1]
  PROVE  CountInv'
<1>1. /\ run'[r] = q /\ \A x \in Requests \ {r} : run'[x] = run[x]
      /\ \A w : Heirs(w)' \subseteq Heirs(w) \cup {r}
      /\ \A w : ~Bears(q, w) => Heirs(w)' \subseteq Heirs(w) \ {r}
  BY OthersBear
<1>2. OwnersKnown'
  BY <1>1 DEF CountInv, OwnersKnown, Of
<1>3. \A t : Taken(t)' <=> Taken(t)
  BY <1>1 DEF Taken
<1>4. ASSUME NEW w \in Users PROVE ClaimsPass(w)
  <2>1. Free(w)' \subseteq Free(w)
    BY <1>3 DEF Free, Of
  <2>2. CASE w = u
    <3>1. logins'[w] + doubled'[w] >= logins[w] + doubled[w] + 1
      BY <2>2 DEF TypeOK
    <3> QED
      BY <1>1, <2>1, <3>1 DEF ClaimsPass
  <2>3. CASE w # u
    <3>1. logins'[w] + doubled'[w] >= logins[w] + doubled[w]
      BY <2>3 DEF TypeOK
    <3>2. Heirs(w)' \subseteq Heirs(w)
      BY <1>1, <2>3 DEF Bears
    <3> QED
      BY <2>1, <3>1, <3>2 DEF ClaimsPass
  <2> QED
    BY <2>2, <2>3
<1> QED
  BY <1>2, <1>4, ClaimsStayCounted DEF CountInv

\* A refresh reads a token: the session is now its own, and where another had
\* read the token before, there are two.
LEMMA GetsKeeps ==
  ASSUME SessionsAssumption, TypeOK, TypeOK', CountInv, NEW r \in Requests,
         NEW t \in Token, RefreshGets(r, t)
  PROVE  CountInv'
<1> DEFINE q == [Idle EXCEPT !.pc = "take", !.user = t[1], !.token = t, !.ends = {t},
                   !.flag = IF key[t] = "session" THEN "session" ELSE "persistent"]
<1>1. /\ run[r].pc = "idle" /\ run' = [run EXCEPT ![r] = q] /\ key[t] # "none"
      /\ UNCHANGED <<key, logins>>
      /\ doubled' = IF Taken(t) THEN [doubled EXCEPT ![t[1]] = @ + 1] ELSE doubled
  BY DEF RefreshGets, Starts, At, Taken
<1>2. q.pc = "take" /\ q.user = t[1] /\ q.token = t /\ t[1] \in Users /\ t \in Of(t[1])
  BY DEF Idle, Token, Of
<1> HIDE DEF q
<1>3. /\ run'[r] = q /\ \A x \in Requests \ {r} : run'[x] = run[x]
      /\ \A w : Heirs(w)' \subseteq Heirs(w) \cup {r}
      /\ \A w : ~Bears(q, w) => Heirs(w)' \subseteq Heirs(w) \ {r}
  BY <1>1, OthersBear
<1>4. OwnersKnown'
  BY <1>2, <1>3 DEF CountInv, OwnersKnown, Of
<1>5. Taken(t)' /\ \A s : Taken(s) => Taken(s)'
  BY <1>1, <1>2, <1>3 DEF Taken
<1>6. ASSUME NEW w \in Users PROVE ClaimsPass(w)
  <2>1. Free(w)' \subseteq Free(w) \ {t}
    BY <1>1, <1>5 DEF Free, Of
  <2>2. /\ logins'[w] + doubled'[w] >= logins[w] + doubled[w]
        /\ w = t[1] /\ Taken(t) => logins'[w] + doubled'[w] >= logins[w] + doubled[w] + 1
    BY <1>1, <1>2 DEF TypeOK
  <2>3. CASE w # t[1]
    <3>1. Heirs(w)' \subseteq Heirs(w)
      BY <1>2, <1>3, <2>3 DEF Bears
    <3> QED
      BY <2>1, <2>2, <3>1 DEF ClaimsPass
  <2>4. CASE w = t[1] /\ Taken(t)
    BY <1>3, <2>1, <2>2, <2>4 DEF ClaimsPass
  <2>5. CASE w = t[1] /\ ~Taken(t)
    <3>1. t \in Free(w)
      BY <1>1, <1>2, <2>5 DEF Free
    <3> QED
      BY <1>3, <2>1, <2>2, <3>1 DEF ClaimsPass
  <2> QED
    BY <2>3, <2>4, <2>5
<1> QED
  BY <1>4, <1>6, ClaimsStayCounted DEF CountInv

\* It deletes the token, or dies before and leaves it as it was.
LEMMA TakesKeeps ==
  ASSUME SessionsAssumption, TypeOK, TypeOK', CountInv, NEW r \in Requests,
         RefreshDeletes(r) \/ (Dies(r) /\ run[r].pc = "take")
  PROVE  CountInv'
<1>1. PICK t \in Token : t = run[r].token /\ t \in Of(run[r].user) /\ run[r].user \in Users
  BY DEF RefreshDeletes, At, CountInv, OwnersKnown, Of
<1>2. PICK q : /\ q = IF RefreshDeletes(r) THEN [run[r] EXCEPT !.pc = "untake"] ELSE Idle
  OBVIOUS
<1>3. /\ run[r].pc = "take" /\ run' = [run EXCEPT ![r] = q] /\ UNCHANGED <<logins, doubled>>
      /\ \/ key' = [key EXCEPT ![t] = "none"] /\ q = [run[r] EXCEPT !.pc = "untake"]
         \/ key' = key /\ q = Idle
  BY <1>1, <1>2 DEF RefreshDeletes, At, Dies, Goes, Ends, history
<1>4. /\ q.pc \in {"untake", "idle"} /\ (q.pc = "untake" => q.user = run[r].user)
      /\ (key'[t] # "none" => q.pc = "idle")
      /\ \A s \in Token : key'[s] # "none" => key[s] # "none"
  BY <1>3 DEF TypeOK, Run, Idle
<1>5. /\ run'[r] = q /\ \A x \in Requests \ {r} : run'[x] = run[x]
      /\ \A w : ~Bears(q, w) => Heirs(w)' \subseteq Heirs(w) \ {r}
      /\ \A w : Bears(run[r], w) => Heirs(w)' \subseteq Heirs(w)
  BY <1>3, OthersBear
<1>6. OwnersKnown'
  BY <1>4, <1>5 DEF CountInv, OwnersKnown, Of
<1>7. \A s : s # t /\ Taken(s) => Taken(s)'
  BY <1>1, <1>5 DEF Taken
<1>8. ASSUME NEW w \in Users PROVE ClaimsPass(w)
  <2>1. Free(w)' \subseteq Free(w) \cup {t}
    BY <1>4, <1>7 DEF Free, Of
  <2>2. logins'[w] + doubled'[w] >= logins[w] + doubled[w]
    BY <1>3 DEF TypeOK
  <2>3. w # run[r].user \/ q.pc = "untake" => Free(w)' \subseteq Free(w)
    BY <1>1, <1>4, <2>1 DEF Free, Of
  <2>4. CASE w # run[r].user
    <3>1. Heirs(w)' \subseteq Heirs(w)
      BY <1>4, <1>5, <2>4 DEF Bears
    <3> QED
      BY <2>2, <2>3, <2>4, <3>1 DEF ClaimsPass
  <2>5. CASE w = run[r].user /\ q.pc = "untake"
    <3>1. Heirs(w)' \subseteq Heirs(w)
      BY <1>3, <1>5, <2>5 DEF Bears
    <3> QED
      BY <2>2, <2>3, <2>5, <3>1 DEF ClaimsPass
  <2>6. CASE w = run[r].user /\ q.pc = "idle"
    <3>1. r \in Heirs(w) /\ Heirs(w)' \subseteq Heirs(w) \ {r}
      BY <1>3, <1>5, <2>6 DEF Bears, Heirs
    <3> QED
      BY <2>1, <2>2, <3>1 DEF ClaimsPass
  <2> QED
    BY <1>4, <2>4, <2>5, <2>6
<1> QED
  BY <1>6, <1>8, ClaimsStayCounted DEF CountInv

\* The key of the new token is stored: the session is the token's again.
LEMMA StoresKeeps ==
  ASSUME SessionsAssumption, TypeOK, TypeOK', CountInv, NEW r \in Requests, Sets(r)
  PROVE  CountInv'
<1>1. PICK t \in Token : t = run[r].token /\ t \in Of(run[r].user) /\ run[r].user \in Users
  BY DEF Sets, At, CountInv, OwnersKnown, Of
<1>2. PICK q : q = [run[r] EXCEPT !.pc = "sadd"]
  OBVIOUS
<1>3. /\ run[r].pc = "set" /\ run' = [run EXCEPT ![r] = q] /\ UNCHANGED <<logins, doubled>>
      /\ key' = [key EXCEPT ![t] = run[r].flag]
  BY <1>1, <1>2 DEF Sets, At, Goes, history
<1>4. q.pc = "sadd" /\ \A s \in Token \ {t} : key'[s] = key[s]
  BY <1>2, <1>3 DEF TypeOK, Run
<1>5. /\ run'[r] = q /\ \A x \in Requests \ {r} : run'[x] = run[x]
      /\ \A w : ~Bears(q, w) => Heirs(w)' \subseteq Heirs(w) \ {r}
  BY <1>3, OthersBear
<1>6. OwnersKnown'
  BY <1>4, <1>5 DEF CountInv, OwnersKnown, Of
<1>7. \A s : Taken(s)' <=> Taken(s)
  BY <1>3, <1>4, <1>5 DEF Taken
<1>8. ASSUME NEW w \in Users PROVE ClaimsPass(w)
  <2>1. Free(w)' \subseteq Free(w) \cup {t}
    BY <1>4, <1>7 DEF Free, Of
  <2>2. logins'[w] + doubled'[w] >= logins[w] + doubled[w]
    BY <1>3 DEF TypeOK
  <2>3. Heirs(w)' \subseteq Heirs(w) \ {r}
    BY <1>4, <1>5 DEF Bears
  <2>4. CASE w # run[r].user
    <3>1. Free(w)' \subseteq Free(w)
      BY <1>1, <2>1, <2>4 DEF Free, Of
    <3> QED
      BY <2>2, <2>3, <3>1 DEF ClaimsPass
  <2>5. CASE w = run[r].user
    <3>1. r \in Heirs(w)
      BY <1>3, <2>5 DEF Heirs, Bears
    <3> QED
      BY <2>1, <2>2, <2>3, <3>1 DEF ClaimsPass
  <2> QED
    BY <2>4, <2>5
<1> QED
  BY <1>6, <1>8, ClaimsStayCounted DEF CountInv

LEMMA BeginningsCount ==
  ASSUME SessionsAssumption, SInv, TypeOK', CountInv, NEW r \in Requests,
         \/ \E u \in Users : RegisterLooks(r, u) \/ EverywhereLists(r, u)
         \/ \E u \in Users, flag \in Flag : Login(r, u, flag)
         \/ \E t \in Token : RefreshGets(r, t) \/ LogoutStarts(r, t)
  PROVE  CountInv'
<1>0. TypeOK /\ \A u \in Users : logins[u] \in Nat /\ doubled[u] \in Nat
  BY DEF SInv, TypeOK
<1>1. ASSUME NEW q, Starts(r, q), q.pc \in {"hash", "del", "delSet", "delAll"},
             UNCHANGED <<key, history>>
      PROVE  CountInv'
  <2>1. run[r].pc = "idle" /\ run' = [run EXCEPT ![r] = q]
    BY <1>1 DEF Starts, At
  <2>2. \A u : ~Bears(q, u)
    BY <1>1 DEF Bears
  <2>3. \A u \in Users : logins'[u] >= logins[u] /\ doubled'[u] >= doubled[u]
    BY <1>0, <1>1 DEF history
  <2>4. \A t \in Token : key'[t] # "none" => key[t] # "none"
    BY <1>1
  <2> QED
    BY <1>0, <1>1, <2>1, <2>2, <2>3, <2>4, CalmKeeps
<1>2. ASSUME NEW u \in Users, RegisterLooks(r, u) PROVE CountInv'
  <2> DEFINE q == [Idle EXCEPT !.pc = "hash", !.user = u, !.flag = "persistent"]
  <2>1. q.pc = "hash" /\ Starts(r, q) /\ UNCHANGED <<key, history>>
    BY <1>2 DEF RegisterLooks, Idle
  <2> QED
    BY <1>1, <2>1
<1>3. ASSUME NEW u \in Users, EverywhereLists(r, u) PROVE CountInv'
  <2> DEFINE q == [Idle EXCEPT !.pc = IF listed \cap Of(u) = {} THEN "delSet" ELSE "delAll",
                          !.user = u, !.ids = listed \cap Of(u), !.ends = cookie \cap Of(u)]
  <2>1. q.pc \in {"delSet", "delAll"} /\ Starts(r, q) /\ UNCHANGED <<key, history>>
    BY <1>3 DEF EverywhereLists, Idle
  <2> QED
    BY <1>1, <2>1
<1>4. ASSUME NEW t \in Token, LogoutStarts(r, t) PROVE CountInv'
  <2> DEFINE q == [Idle EXCEPT !.pc = "del", !.user = t[1], !.token = t, !.ends = {t}]
  <2>1. q.pc = "del" /\ Starts(r, q) /\ UNCHANGED <<key, history>>
    BY <1>4 DEF LogoutStarts, Idle
  <2> QED
    BY <1>1, <2>1
<1>5. ASSUME NEW u \in Users, NEW flag \in Flag, Login(r, u, flag) PROVE CountInv'
  <2> DEFINE q == [Idle EXCEPT !.pc = "make", !.user = u, !.flag = flag]
  <2>1. /\ q.pc = "make" /\ q.user = u /\ run[r].pc = "idle"
        /\ run' = [run EXCEPT ![r] = q] /\ UNCHANGED <<key, doubled>>
        /\ logins' = [logins EXCEPT ![u] = @ + 1]
    BY <1>5 DEF Login, Starts, At, Idle
  <2> HIDE DEF q
  <2> QED
    BY <1>0, <2>1, BeginsKeeps
<1> QED
  BY <1>0, <1>2, <1>3, <1>4, <1>5, GetsKeeps

LEMMA RestCounts ==
  ASSUME SessionsAssumption, SInv, TypeOK', CountInv, NEW r \in Requests,
         \/ RegisterCreates(r) \/ Makes(r) \/ Lists(r) \/ AnswersToken(r)
         \/ RefreshUnlists(r) \/ RefreshFindsAccount(r) \/ LogoutDeletes(r)
         \/ LogoutUnlists(r) \/ EverywhereDeletes(r) \/ EverywhereDropsList(r)
         \/ (Dies(r) /\ run[r].pc # "take")
  PROVE  CountInv'
<1>0. /\ TypeOK /\ run[r] \in Run /\ RequestOK(run[r])
      /\ \A u \in Users : logins[u] \in Nat /\ doubled[u] \in Nat
  BY DEF SInv, TypeOK, RequestsSound
<1>1. ASSUME NEW q, run' = [run EXCEPT ![r] = q], run[r].pc # "take",
             q.pc \notin {"take", "set"}, UNCHANGED <<logins, doubled>>,
             \A t \in Token : key'[t] # "none" => key[t] # "none",
             \A u : Bears(q, u) => Bears(run[r], u)
      PROVE  CountInv'
  <2>1. \A u \in Users : logins'[u] >= logins[u] /\ doubled'[u] >= doubled[u]
    BY <1>0, <1>1
  <2> QED
    BY <1>0, <1>1, <2>1, CalmKeeps
<1>2. ASSUME run[r].pc # "take", Ends(r), UNCHANGED <<key, logins, doubled>>
      PROVE  CountInv'
  <2>1. Idle.pc = "idle" /\ \A u : ~Bears(Idle, u)
    BY DEF Idle, Bears
  <2> QED
    BY <1>1, <1>2, <2>1 DEF Ends
<1>3. CASE RegisterCreates(r)
  <2>1. run[r].pc = "hash" /\ run[r].user \in Users /\ UNCHANGED <<key, doubled>>
    BY <1>0, <1>3 DEF RegisterCreates, At, RequestOK
  <2>2. CASE run[r].user \in accounts
    BY <1>2, <1>3, <2>1, <2>2 DEF RegisterCreates
  <2>3. CASE run[r].user \notin accounts
    <3>1. PICK q : q = [run[r] EXCEPT !.pc = "make"]
      OBVIOUS
    <3>2. q.pc = "make" /\ q.user = run[r].user
      BY <1>0, <3>1 DEF Run
    <3>3. run' = [run EXCEPT ![r] = q] /\ logins' = [logins EXCEPT ![run[r].user] = @ + 1]
      BY <1>3, <2>3, <3>1 DEF RegisterCreates, Goes
    <3> QED
      BY <1>0, <2>1, <3>2, <3>3, BeginsKeeps
  <2> QED
    BY <2>2, <2>3
<1>4. CASE Makes(r)
  <2>1. PICK t \in Token : t = <<run[r].user, now>> /\ t \in Of(run[r].user)
                           /\ run[r].user \in Users
    BY <1>0, <1>4 DEF Makes, At, RequestOK, Token, Of, SInv, TypeOK
  <2>2. PICK q : q = [run[r] EXCEPT !.pc = "set", !.token = t]
    OBVIOUS
  <2>3. /\ run[r].pc = "make" /\ run' = [run EXCEPT ![r] = q]
        /\ UNCHANGED <<key, logins, doubled>>
    BY <1>4, <2>1, <2>2 DEF Makes, At
  <2>4. q.pc = "set" /\ q.user = run[r].user /\ q.token = t
    BY <1>0, <2>2 DEF Run
  <2>5. \A u : Bears(q, u) => Bears(run[r], u)
    BY <2>3, <2>4 DEF Bears
  <2>6. \A u \in Users : logins'[u] >= logins[u] /\ doubled'[u] >= doubled[u]
    BY <1>0, <2>3
  <2>7. \A s \in Token : key'[s] # "none" => key[s] # "none"
    BY <2>3
  <2>8. run[r].pc # "take" /\ q.pc # "take" /\ q.user \in Users /\ q.token \in Of(q.user)
    BY <2>1, <2>3, <2>4
  <2> QED
    BY <1>0, <2>3, <2>5, <2>6, <2>7, <2>8, CalmKeeps
<1>5. CASE AnswersToken(r) \/ LogoutUnlists(r) \/ EverywhereDropsList(r)
           \/ (Dies(r) /\ run[r].pc # "take")
  <2>1. run[r].pc # "take" /\ Ends(r) /\ UNCHANGED <<key, logins, doubled>>
    BY <1>5 DEF AnswersToken, LogoutUnlists, EverywhereDropsList, Dies, At, history
  <2> QED
    BY <1>2, <2>1
<1>6. ASSUME NEW pc, run' = [run EXCEPT ![r].pc = pc], run[r].pc # "take",
             pc \in {"answer", "account", "make", "srem", "delSet"},
             UNCHANGED <<logins, doubled>>,
             \A t \in Token : key'[t] # "none" => key[t] # "none",
             pc \in {"account", "make"} => run[r].pc \in {"untake", "account"}
      PROVE  CountInv'
  <2>1. PICK q : q = [run[r] EXCEPT !.pc = pc]
    OBVIOUS
  <2>2. q.pc = pc /\ q.user = run[r].user /\ run' = [run EXCEPT ![r] = q]
    BY <1>0, <1>6, <2>1 DEF Run
  <2>3. \A u : Bears(q, u) => Bears(run[r], u)
    BY <1>6, <2>2 DEF Bears
  <2>4. q.pc \notin {"take", "set"}
    BY <1>6, <2>2
  <2> QED
    BY <1>1, <1>6, <2>2, <2>3, <2>4
<1>7. CASE Lists(r) \/ RefreshUnlists(r) \/ RefreshFindsAccount(r)
  <2>1. UNCHANGED <<key, logins, doubled>>
    BY <1>7 DEF Lists, RefreshUnlists, RefreshFindsAccount, history
  <2> QED
    BY <1>6, <1>7, <2>1 DEF Lists, RefreshUnlists, RefreshFindsAccount, At, Goes
<1>8. CASE LogoutDeletes(r) \/ EverywhereDeletes(r)
  <2>1. UNCHANGED <<logins, doubled>>
    BY <1>8 DEF LogoutDeletes, EverywhereDeletes, history
  <2>2. \A t \in Token : key'[t] # "none" => key[t] # "none"
    BY <1>0, <1>8 DEF LogoutDeletes, EverywhereDeletes, TypeOK
  <2> QED
    BY <1>6, <1>8, <2>1, <2>2 DEF LogoutDeletes, EverywhereDeletes, At, Goes
<1> QED
  BY <1>3, <1>4, <1>5, <1>7, <1>8

LEMMA CountHolds == ASSUME SessionsAssumption, Init PROVE CountInv
<1>1. \A x \in Requests : run[x].pc = "idle"
  BY DEF Init, Idle
<1>2. OwnersKnown
  BY <1>1 DEF OwnersKnown
<1>3. ASSUME NEW u \in Users
      PROVE  Cardinality(Free(u)) + Cardinality(Heirs(u)) <= logins[u] + doubled[u]
  <2>1. Free(u) = {} /\ Heirs(u) = {} /\ logins[u] = 0 /\ doubled[u] = 0
    BY <1>1 DEF Init, Free, Of, Heirs, Bears
  <2>2. Cardinality({}) = 0
    BY FS_EmptySet
  <2> QED
    BY <2>1, <2>2
<1> QED
  BY <1>2, <1>3 DEF CountInv, ClaimsCounted

LEMMA CountStays ==
  ASSUME SessionsAssumption, SInv, TypeOK', CountInv, [Next]_vars
  PROVE  CountInv'
<1>1. CASE UNCHANGED vars \/ Tick
  <2>1. UNCHANGED <<key, run, logins, doubled>>
    BY <1>1 DEF vars, Tick, history
  <2> QED
    BY <2>1 DEF CountInv, OwnersKnown, ClaimsCounted, Of, Free, Taken, Heirs
<1>2. CASE Next /\ ~Tick
  <2>1. TypeOK
    BY DEF SInv
  <2> QED
    BY <1>2, <2>1, BeginningsCount, RestCounts, StoresKeeps, TakesKeeps DEF Next
<1> QED
  BY <1>1, <1>2

-----------------------------------------------------------------------------
(* The claims are at least the sessions                                       *)

LEMMA SessionsAreClaims ==
  ASSUME SessionsAssumption, TypeOK, CountInv
  PROVE  SessionsDoNotMultiply
<1> SUFFICES ASSUME NEW u \in Users
             PROVE  Cardinality({t \in Of(u) : key[t] # "none"}) + Cardinality(Underway(u))
                      <= logins[u] + doubled[u]
  BY DEF SessionsDoNotMultiply
<1> DEFINE live == {t \in Of(u) : key[t] # "none"}
           spent == {t \in Of(u) : key[t] # "none" /\ Taken(t)}
           readers == {x \in Requests : run[x].user = u /\ run[x].pc = "take"}
<1>1. /\ IsFiniteSet(Of(u))
      /\ IsFiniteSet(Free(u)) /\ Cardinality(Free(u)) \in Nat
      /\ IsFiniteSet(Heirs(u)) /\ Cardinality(Heirs(u)) \in Nat
  BY ClaimsAreFinite
<1>2. /\ IsFiniteSet(spent) /\ Cardinality(spent) \in Nat
      /\ IsFiniteSet(readers) /\ Cardinality(readers) \in Nat
      /\ IsFiniteSet(Underway(u)) /\ Cardinality(Underway(u)) \in Nat
  <2>1. spent \subseteq Of(u) /\ readers \subseteq Requests /\ Underway(u) \subseteq Requests
    BY DEF Underway
  <2> QED
    BY <1>1, <2>1, FS_Subset, FS_CardinalityType DEF SessionsAssumption
\* Each token that a refresh has read has a reader of its own.
<1>3. Cardinality(spent) <= Cardinality(readers)
  <2>1. \A t \in spent : \E x \in readers : run[x].token = t
    BY DEF Taken, CountInv, OwnersKnown, Of, Token
  <2> DEFINE reader == [t \in spent |-> CHOOSE x \in readers : run[x].token = t]
  <2>2. \A t \in spent : reader[t] \in readers /\ run[reader[t]].token = t
    BY <2>1
  <2>3. reader \in [spent -> readers] /\ DOMAIN reader = spent
    BY <2>2
  <2> HIDE DEF spent, readers, reader
  <2>4. reader \in Injection(spent, readers)
    BY <2>2, <2>3 DEF Injection, IsInjective
  <2> QED
    BY <1>2, <2>4, FS_Injection
<1>4. Cardinality(live) = Cardinality(Free(u)) + Cardinality(spent)
  <2>1. live = Free(u) \cup spent /\ Free(u) \cap spent = {}
    BY DEF Free
  <2>2. Cardinality(Free(u) \cup spent)
          = Cardinality(Free(u)) + Cardinality(spent) - Cardinality(Free(u) \cap spent)
    BY <1>1, <1>2, FS_Union
  <2>3. Cardinality(Free(u) \cap spent) = 0 /\ Cardinality(live) = Cardinality(Free(u) \cup spent)
    BY <2>1, FS_EmptySet
  <2> HIDE DEF spent, live
  <2> QED
    BY <1>1, <1>2, <2>1, <2>2, <2>3
<1>5. Cardinality(Heirs(u)) = Cardinality(readers) + Cardinality(Underway(u))
  <2>1. Heirs(u) = readers \cup Underway(u) /\ readers \cap Underway(u) = {}
    BY DEF Heirs, Bears, Underway
  <2>2. Cardinality(readers \cup Underway(u))
          = Cardinality(readers) + Cardinality(Underway(u)) - Cardinality(readers \cap Underway(u))
    BY <1>2, FS_Union
  <2>3. /\ Cardinality(readers \cap Underway(u)) = 0
        /\ Cardinality(Heirs(u)) = Cardinality(readers \cup Underway(u))
    BY <2>1, FS_EmptySet
  <2> HIDE DEF readers
  <2> QED
    BY <1>2, <2>1, <2>2, <2>3
<1>6. /\ logins[u] \in Nat /\ doubled[u] \in Nat
      /\ Cardinality(Free(u)) + Cardinality(Heirs(u)) <= logins[u] + doubled[u]
  BY DEF TypeOK, CountInv, ClaimsCounted
<1> HIDE DEF live, spent, readers
<1>7. Cardinality(live) + Cardinality(Underway(u)) <= logins[u] + doubled[u]
  BY <1>1, <1>2, <1>3, <1>4, <1>5, <1>6
<1> QED
  BY <1>7 DEF live

\* token.service.ts: a refresh puts one token in the place of another, so a user has
\* no more live tokens, and requests about to store one, than he logged in, but for
\* one per refresh that read a token another had read and not yet deleted.
THEOREM SessionsNeverMultiply ==
  ASSUME SessionsAssumption
  PROVE  Spec => []SessionsDoNotMultiply
<1>1. Init => SInv /\ CountInv
  BY InitHolds, CountHolds
<1>2. SInv /\ CountInv /\ [Next]_vars => SInv' /\ CountInv'
  <2>1. SInv' => TypeOK'
    BY DEF SInv
  <2> QED
    BY <2>1, StepKeeps, CountStays
<1>3. SInv /\ CountInv => SessionsDoNotMultiply
  BY SessionsAreClaims DEF SInv
<1> QED
  BY <1>1, <1>2, <1>3, PTL DEF Spec
=============================================================================
