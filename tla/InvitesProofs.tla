---------------------------- MODULE InvitesProofs ----------------------------
(* Temporary invites, for every value of Invites' constants: any number of  *)
(* redeems, lists, errors and deaths between the commands of Redis.         *)
EXTENDS Invites, FiniteSetTheorems, TLAPS

-----------------------------------------------------------------------------
(* The inductive invariant                                                  *)

\* A request that makes a link, that has taken a token, or that will put one
\* into Redis.
Makes(q) == q.pc \in {"save", "count", "insert"}
Holding(q) == q.pc = "unlist" \/ (q.taken /\ q.pc \in {"add", "restore"})
InHand(q) == q.pc = "save" \/ Holding(q)

\* A token whose end is known.
Accounted(t) == Used(t) \/ t \in lost \/ t \in crossed

\* Each request is where it can be, and names the link it is about.  Who found
\* no life for his token knows that it has ended.
RequestOK(q) ==
  /\ q.pc \in {"idle", "smembers", "get", "srem"} <=> q.link = None
  /\ q.link # None => q.link \in everMade
  /\ InHand(q) => q.link \in Tokens
  /\ q.pc \in {"count", "insert"} => q.link \in Links
  /\ q.pc \in {"ttl", "getdel", "unlist", "find", "add"} => q.user \in Users
  /\ q.taken => q.pc \in {"add", "restore"}
  /\ q.pc = "restore" => q.taken
  /\ q.pc = "getdel" \/ Holding(q) =>
       q.lives \/ q.link \notin Tokens \/ Accounted(q.link)

RequestsSound == \A r \in Requests : RequestOK(run[r])

\* A link that is being made is nobody else's.
MakersAlone ==
  \A x, y \in Requests : x # y /\ Makes(run[x]) => run[y].link # run[x].link

\* A token is in Redis or in one hand.
OnePlace ==
  /\ \A x \in Requests : InHand(run[x]) => run[x].link \notin keys
  /\ \A x, y \in Requests :
       x # y /\ InHand(run[x]) /\ InHand(run[y]) => run[x].link # run[y].link

\* A token in its place has made no member but those nobody was told of.
Unused ==
  /\ \A t \in Tokens : t \in keys \/ t \notin everMade => admitted[t] <= doubt[t]
  /\ \A x \in Requests : InHand(run[x]) => admitted[run[x].link] <= doubt[run[x].link]

VInv ==
  /\ TypeOK /\ keys \subseteq everMade
  /\ RequestsSound /\ MakersAlone /\ OnePlace /\ Unused
  /\ OneTimeAdmitsOne /\ NoInviteVanishes /\ WorkingInviteIsListed

\* No list knows of a token before its create has answered; so one that it found
\* without a key has one again only if a redeem gave it back.
ListOK(q) ==
  /\ \A t \in q.left \cup q.stale : Known(t)
  /\ q.stale \cap keys \subseteq givenBack

LInv ==
  /\ \A t \in index : Known(t)
  /\ \A r \in Requests : ListOK(run[r])

\* ASSUME InvitesAssumption stands in every lemma: Invites states it, and those
\* who give its constants values check it.

-----------------------------------------------------------------------------
(* One request moves                                                        *)

LEMMA IdleIsSound == ASSUME InvitesAssumption PROVE
  /\ Idle \in Run /\ Idle.link = None /\ Idle.pc = "idle" /\ Idle.taken = FALSE
  /\ RequestOK(Idle) /\ ~InHand(Idle) /\ ~Makes(Idle)
<1>1. Idle \in Run
  BY DEF Idle, Run
<1>2. Idle.link = None /\ Idle.pc = "idle" /\ Idle.taken = FALSE
  BY DEF Idle
<1>3. ~InHand(Idle) /\ ~Holding(Idle) /\ ~Makes(Idle)
  BY <1>2 DEF InHand, Holding, Makes
<1> QED
  BY <1>1, <1>2, <1>3 DEF RequestOK

LEMMA InitHolds == ASSUME InvitesAssumption, Init PROVE VInv
<1>1. \A r \in Requests : run[r] = Idle
  BY DEF Init
<1>2. TypeOK
  <2>1. run \in [Requests -> Run]
    BY IdleIsSound DEF Init
  <2>2. /\ admitted \in [Tokens -> Nat] /\ doubt \in [Tokens -> Nat]
        /\ started \in 0..MaxStarted /\ failures \in 0..MaxFailures
    BY DEF Init, InvitesAssumption
  <2> QED
    BY <2>1, <2>2 DEF Init, TypeOK
<1>3. \A t \in Tokens : t \notin everMade /\ t \notin keys /\ admitted[t] = 0 /\ doubt[t] = 0
  BY DEF Init
<1>4. RequestsSound /\ MakersAlone /\ OnePlace
  BY <1>1, IdleIsSound DEF RequestsSound, MakersAlone, OnePlace
<1>5. Unused /\ OneTimeAdmitsOne
  BY <1>1, <1>3, IdleIsSound DEF Unused, OneTimeAdmitsOne
<1>6. NoInviteVanishes /\ WorkingInviteIsListed /\ keys \subseteq everMade
  BY <1>3 DEF NoInviteVanishes, WorkingInviteIsListed, Known, Init
<1> QED
  BY <1>2, <1>4, <1>5, <1>6 DEF VInv

\* What has been made, admitted, expired or lost stays so.
Grows ==
  /\ everMade \subseteq everMade' /\ expired \subseteq expired'
  /\ lost \subseteq lost' /\ crossed \subseteq crossed'
  /\ \A t \in Tokens : admitted[t] <= admitted'[t]

LEMMA RequestStays ==
  ASSUME VInv, TypeOK', Grows, NEW x \in Requests, run'[x] = run[x]
  PROVE  RequestOK(run[x])'
<1>1. RequestOK(run[x])
  BY DEF VInv, RequestsSound
<1>2. run[x].link \in Tokens /\ Accounted(run[x].link) => Accounted(run[x].link)'
  <2> SUFFICES ASSUME run[x].link \in Tokens, Accounted(run[x].link)
               PROVE  Accounted(run[x].link)'
    OBVIOUS
  <2>1. admitted[run[x].link] \in Nat /\ admitted'[run[x].link] \in Nat
        /\ admitted[run[x].link] <= admitted'[run[x].link]
    BY DEF VInv, TypeOK, Grows
  <2> QED
    BY <2>1 DEF Accounted, Used, Grows
<1> QED
  BY <1>1, <1>2 DEF RequestOK, Grows, InHand, Holding

\* The part of the invariant that is about who is doing what.
LEMMA RequestsStay ==
  ASSUME VInv, TypeOK', Grows, NEW r \in Requests, NEW q \in Run,
         run' = [run EXCEPT ![r] = q], RequestOK(q)'
  PROVE  RequestsSound' /\ run'[r] = q /\ \A x \in Requests \ {r} : run'[x] = run[x]
<1>1. run'[r] = q /\ \A x \in Requests \ {r} : run'[x] = run[x]
  BY DEF VInv, TypeOK
<1>2. RequestOK(run[r])'
  BY <1>1
<1>3. ASSUME NEW x \in Requests \ {r} PROVE RequestOK(run[x])'
  BY <1>1, RequestStays
<1> QED
  BY <1>1, <1>2, <1>3 DEF RequestsSound

\* A link a request turns to is new, or known, and none that is being made.
TurnsTo(r, q) ==
  \/ q.link = None /\ ~Makes(q)
  \/ q.link = run[r].link /\ (Makes(q) => Makes(run[r]))
  \/ ~Makes(q) /\ Known(q.link)
  \/ q.link \notin everMade /\ q.link # None

LEMMA MakersStay ==
  ASSUME InvitesAssumption, VInv, NEW r \in Requests, NEW q \in Run, TurnsTo(r, q),
         run'[r] = q, \A x \in Requests \ {r} : run'[x] = run[x]
  PROVE  MakersAlone'
<1> SUFFICES ASSUME NEW x \in Requests, NEW y \in Requests, x # y, Makes(run'[x])
             PROVE  run'[y].link # run'[x].link
  BY DEF MakersAlone
<1>1. \A z \in Requests : Makes(run[z]) => run[z].link # None /\ run[z].link \in everMade
  BY DEF VInv, RequestsSound, RequestOK, Makes
<1>2. \A z \in Requests : run[z].link = None \/ run[z].link \in everMade
  BY DEF VInv, RequestsSound, RequestOK
<1>3. MakersAlone
  BY DEF VInv
<1>4. CASE x = r
  <2>1. run'[x] = q /\ run'[y] = run[y]
    BY <1>4
  <2> QED
    BY <1>2, <1>3, <1>4, <2>1 DEF TurnsTo, MakersAlone
<1>5. CASE y = r
  <2>1. run'[y] = q /\ run'[x] = run[x]
    BY <1>5
  <2>2. Makes(run[x]) /\ run[x].link # None /\ run[x].link \in everMade
    BY <1>1, <2>1
  <2>3. q.link = run[r].link => q.link # run[x].link
    BY <1>3, <1>5, <2>2 DEF MakersAlone
  <2>4. Known(q.link) => q.link # run[x].link
    BY <2>2 DEF Known, Creating, Makes
  <2> QED
    BY <2>1, <2>2, <2>3, <2>4 DEF TurnsTo
<1>6. CASE x # r /\ y # r
  BY <1>3, <1>6 DEF MakersAlone
<1> QED
  BY <1>4, <1>5, <1>6

\* Whoever is known had been made, and by nobody any more.
LEMMA KnownToken ==
  ASSUME InvitesAssumption, VInv, NEW t \in Tokens
  PROVE  Known(t) <=> /\ t \in everMade
                      /\ \A x \in Requests : run[x].pc = "save" => run[x].link # t
<1>1. \A x \in Requests : run[x].pc \in {"count", "insert"} => run[x].link # t
  BY DEF InvitesAssumption, VInv, RequestsSound, RequestOK
<1> QED
  BY <1>1 DEF Known, Creating

LEMMA HeldToken ==
  ASSUME NEW t PROVE Held(t) <=> \E x \in Requests : Holding(run[x]) /\ run[x].link = t
BY DEF Held, Taken, Holding, At

-----------------------------------------------------------------------------
(* A request without a token in its hand                                    *)

LEMMA QuietStep ==
  ASSUME InvitesAssumption, VInv, TypeOK', Grows, NEW r \in Requests, NEW q \in Run,
         run' = [run EXCEPT ![r] = q], RequestOK(q)', TurnsTo(r, q),
         ~InHand(run[r]), ~InHand(q),
         UNCHANGED <<keys, everMade, admitted, doubt>>, WorkingInviteIsListed'
  PROVE  VInv'
<1>1. RequestsSound' /\ run'[r] = q /\ \A x \in Requests \ {r} : run'[x] = run[x]
  BY RequestsStay
<1>2. MakersAlone'
  BY <1>1, MakersStay
<1>3. \A x \in Requests : InHand(run'[x]) => x # r /\ run'[x] = run[x] /\ InHand(run[x])
  BY <1>1
<1>4. OnePlace'
  BY <1>3 DEF VInv, OnePlace
<1>5. Unused' /\ OneTimeAdmitsOne' /\ (keys \subseteq everMade)'
  BY <1>3 DEF VInv, Unused, OneTimeAdmitsOne
<1>6. NoInviteVanishes'
  <2> SUFFICES ASSUME NEW t \in Tokens, Known(t)'
               PROVE  (t \in keys \/ Used(t) \/ Held(t) \/ t \in lost \/ t \in crossed)'
    BY DEF NoInviteVanishes
  <2>1. Known(t)
    <3>1. \A x \in Requests : run[x].pc = "save" => x # r /\ run'[x] = run[x]
      BY <1>1 DEF InHand
    <3>2. t \in everMade /\ \A x \in Requests : run'[x].pc = "save" => run'[x].link # t
      BY DEF Known, Creating
    <3> QED
      BY <3>1, <3>2, KnownToken
  <2>2. t \in keys \/ Used(t) \/ Held(t) \/ t \in lost \/ t \in crossed
    BY <2>1 DEF VInv, NoInviteVanishes
  <2>3. Held(t) => Held(t)'
    <3>1. \A x \in Requests : Holding(run[x]) => x # r /\ run'[x] = run[x]
      BY <1>1 DEF InHand
    <3> QED
      BY <3>1 DEF Held, Taken, Holding, At
  <2>4. Used(t) => Used(t)'
    BY DEF Used, Grows
  <2> QED
    BY <2>2, <2>3, <2>4 DEF Grows
<1> QED
  BY <1>1, <1>2, <1>4, <1>5, <1>6 DEF VInv

-----------------------------------------------------------------------------
(* A request that has a token in its hand, or takes it                      *)

LEMMA HandMoves ==
  ASSUME InvitesAssumption, VInv, TypeOK', Grows, NEW r \in Requests, NEW q \in Run,
         NEW t \in Tokens,
         run[r].link = t, InHand(run[r]) \/ (t \in keys /\ ~Makes(run[r])),
         run' = [run EXCEPT ![r] = q], RequestOK(q)', q.link \in {t, None}, ~Makes(q),
         everMade' = everMade, keys' \ {t} = keys \ {t},
         \A u \in Tokens \ {t} : admitted'[u] = admitted[u] /\ doubt'[u] = doubt[u],
         InHand(q) => t \notin keys',
         admitted'[t] <= 1 + doubt'[t],
         t \in keys' \/ InHand(q) => admitted'[t] <= doubt'[t],
         t \in keys' \/ Holding(q) \/ Accounted(t)',
         WorkingInviteIsListed'
  PROVE  VInv'
<1>1. RequestsSound' /\ run'[r] = q /\ \A x \in Requests \ {r} : run'[x] = run[x]
  BY RequestsStay
<1>2. MakersAlone'
  BY <1>1, MakersStay DEF TurnsTo
<1>3. t \in everMade /\ t # None
  BY DEF VInv, RequestsSound, RequestOK, InvitesAssumption
<1>4. \A x \in Requests \ {r} : InHand(run[x]) => run[x].link \in Tokens \ {t}
  BY DEF VInv, OnePlace, RequestsSound, RequestOK
<1>5. InHand(q) => q.link = t
  BY DEF RequestOK, InHand, Holding, InvitesAssumption
<1>6. keys' \subseteq everMade'
  BY <1>3 DEF VInv
<1>7. \A x \in Requests : InHand(run'[x]) =>
        \/ x = r /\ run'[x].link = t
        \/ x # r /\ run'[x] = run[x] /\ InHand(run[x]) /\ run[x].link \in Tokens \ {t}
  BY <1>1, <1>4, <1>5
<1>8. OnePlace'
  BY <1>1, <1>7 DEF VInv, OnePlace
<1>9. OneTimeAdmitsOne' /\ Unused'
  <2>1. \A u \in Tokens : admitted'[u] <= 1 + doubt'[u]
    BY DEF VInv, OneTimeAdmitsOne
  <2>2. \A u \in Tokens : u \in keys' \/ u \notin everMade' => admitted'[u] <= doubt'[u]
    BY <1>3 DEF VInv, Unused
  <2>3. \A x \in Requests :
          InHand(run'[x]) => admitted'[run'[x].link] <= doubt'[run'[x].link]
    BY <1>1, <1>7 DEF VInv, Unused
  <2> QED
    BY <2>1, <2>2, <2>3 DEF Unused, OneTimeAdmitsOne
<1>10. NoInviteVanishes'
  <2> SUFFICES ASSUME NEW u \in Tokens, Known(u)'
               PROVE  (u \in keys \/ Used(u) \/ Held(u) \/ u \in lost \/ u \in crossed)'
    BY DEF NoInviteVanishes
  <2>1. CASE u = t
    <3>1. Holding(q) => Held(t)'
      BY <1>1, <1>5 DEF Held, Taken, Holding, At, InHand
    <3> QED
      BY <2>1, <3>1 DEF Accounted
  <2>2. CASE u # t
    <3>1. \A x \in Requests : run[x].pc = "save" /\ run[x].link = u => run'[x] = run[x]
      BY <1>1, <2>2
    <3>2. u \in everMade /\ \A x \in Requests : run'[x].pc = "save" => run'[x].link # u
      BY DEF Known, Creating
    <3>3. Known(u)
      BY <3>1, <3>2, KnownToken
    <3>4. u \in keys \/ Used(u) \/ Held(u) \/ u \in lost \/ u \in crossed
      BY <3>3 DEF VInv, NoInviteVanishes
    <3>5. Held(u) => Held(u)'
      BY <1>1, <2>2 DEF Held, Taken, Holding, At
    <3>6. Used(u) => Used(u)'
      BY <2>2 DEF Used, Grows
    <3> QED
      BY <2>2, <3>4, <3>5, <3>6 DEF Grows
  <2> QED
    BY <2>1, <2>2
<1> QED
  BY <1>1, <1>2, <1>6, <1>8, <1>9, <1>10 DEF VInv

-----------------------------------------------------------------------------
(* Types                                                                    *)

\* What an action does to a request keeps its type.
LEMMA RunTypes ==
  ASSUME VInv, NEW r \in Requests
  PROVE  /\ run[r] \in Run
         /\ \A pc \in {"idle", "save", "count", "insert", "revoke", "smembers", "get",
                       "srem", "ttl", "getdel", "unlist", "find", "add", "restore"} :
              /\ [run[r] EXCEPT !.pc = pc] \in Run
              /\ [run[r] EXCEPT !.pc = pc].pc = pc
              /\ \A f \in {"user", "link", "lives", "taken", "left", "stale"} :
                   [run[r] EXCEPT !.pc = pc][f] = run[r][f]
<1>1. run[r] \in Run
  BY DEF VInv, TypeOK
<1>2. ASSUME NEW pc \in {"idle", "save", "count", "insert", "revoke", "smembers", "get",
                     "srem", "ttl", "getdel", "unlist", "find", "add", "restore"}
      PROVE  /\ [run[r] EXCEPT !.pc = pc] \in Run
             /\ [run[r] EXCEPT !.pc = pc].pc = pc
             /\ \A f \in {"user", "link", "lives", "taken", "left", "stale"} :
                  [run[r] EXCEPT !.pc = pc][f] = run[r][f]
  <2>1. [run[r] EXCEPT !.pc = pc] \in Run
    BY <1>1 DEF Run
  <2>2. [run[r] EXCEPT !.pc = pc].pc = pc
    BY <1>1 DEF Run
  <2>3. \A f \in {"user", "link", "lives", "taken", "left", "stale"} :
          [run[r] EXCEPT !.pc = pc][f] = run[r][f]
    BY <1>1 DEF Run
  <2> QED
    BY <2>1, <2>2, <2>3
<1> QED
  BY <1>1, <1>2

\* What everything but one request leaves as it is.
Rest == <<exists, members, links, keys, index, started, failures, everMade, admitted,
          doubt, expired, lost, crossed, givenBack, dropped>>

LEMMA TypesStay ==
  ASSUME VInv, run' \in [Requests -> Run], started' \in 0..MaxStarted,
         failures' \in 0..MaxFailures, exists' \in BOOLEAN, members' \in SUBSET Users,
         links' \in SUBSET Links, keys' \in SUBSET Tokens, index' \in SUBSET Tokens,
         everMade' \in SUBSET (Links \cup Tokens),
         admitted' \in [Tokens -> Nat], doubt' \in [Tokens -> Nat],
         expired' \in SUBSET Tokens, lost' \in SUBSET Tokens,
         crossed' \in SUBSET Tokens, givenBack' \in SUBSET Tokens,
         dropped' \in SUBSET Tokens
  PROVE  TypeOK'
BY DEF TypeOK

-----------------------------------------------------------------------------
(* What leaves Redis alone                                                  *)

\* Rows and counters after a step.
RowsTyped ==
  /\ exists \in BOOLEAN /\ members \in SUBSET Users /\ links \in SUBSET Links
  /\ started \in 0..MaxStarted /\ failures \in 0..MaxFailures

LEMMA PlainStep ==
  ASSUME InvitesAssumption, VInv, NEW r \in Requests, NEW q \in Run,
         run' = [run EXCEPT ![r] = q], RequestOK(q), TurnsTo(r, q),
         ~InHand(run[r]), ~InHand(q), UNCHANGED <<redis, history>>, RowsTyped'
  PROVE  VInv'
<1>1. UNCHANGED <<keys, index, everMade, admitted, doubt, expired, lost, crossed, givenBack, dropped>>
  BY DEF redis, history
<1>2. run' \in [Requests -> Run]
  BY DEF VInv, TypeOK
<1>3. TypeOK'
  BY <1>1, <1>2 DEF VInv, TypeOK, RowsTyped
<1>4. Grows
  BY <1>1 DEF Grows, VInv, TypeOK
<1>5. RequestOK(q)'
  BY <1>1 DEF RequestOK, InHand, Holding, Accounted, Used
<1>6. WorkingInviteIsListed'
  BY <1>1 DEF VInv, WorkingInviteIsListed
<1> QED
  BY <1>1, <1>3, <1>4, <1>5, <1>6, QuietStep

\* The fields of a request that only moves on.
LEMMA OnlyMoves ==
  ASSUME VInv, NEW r \in Requests, NEW pc
  PROVE  LET q == [run[r] EXCEPT !.pc = pc] IN
         /\ q.pc = pc /\ q.user = run[r].user /\ q.link = run[r].link
         /\ q.lives = run[r].lives /\ q.taken = run[r].taken
         /\ q.left = run[r].left /\ q.stale = run[r].stale
         /\ pc \in {"idle", "save", "count", "insert", "revoke", "smembers", "get",
                    "srem", "ttl", "getdel", "unlist", "find", "add", "restore"}
              => q \in Run
BY DEF VInv, TypeOK, Run

\* A request ends.
LEMMA EndsPlainly ==
  ASSUME InvitesAssumption, VInv, NEW r \in Requests, Ends(r), ~InHand(run[r]),
         UNCHANGED <<redis, history>>, RowsTyped'
  PROVE  VInv'
<1>1. TurnsTo(r, Idle)
  BY IdleIsSound DEF TurnsTo
<1> QED
  BY <1>1, IdleIsSound, PlainStep DEF Ends

\* A request starts.
LEMMA StartsPlainly ==
  ASSUME InvitesAssumption, VInv, NEW r \in Requests, NEW q \in Run, Starts(r, q),
         RequestOK(q), ~InHand(q), ~Makes(q), q.link = None \/ Known(q.link),
         UNCHANGED <<rows, redis, failures, history>>
  PROVE  VInv'
<1>1. RowsTyped'
  BY DEF VInv, TypeOK, RowsTyped, Starts, rows, InvitesAssumption
<1>2. ~InHand(run[r])
  <2>1. run[r].pc = "idle" /\ ~run[r].taken
    BY DEF VInv, RequestsSound, RequestOK, Starts, At
  <2> QED
    BY <2>1 DEF InHand, Holding
<1>3. TurnsTo(r, q)
  BY DEF TurnsTo
<1> QED
  BY <1>1, <1>2, <1>3, PlainStep DEF Starts

LEMMA RowsStay ==
  ASSUME VInv, UNCHANGED <<rows, started, failures>>
  PROVE  RowsTyped'
BY DEF VInv, TypeOK, RowsTyped, rows

-----------------------------------------------------------------------------
(* The actions that leave the tokens alone                                  *)

LEMMA ListKeeps ==
  ASSUME InvitesAssumption, VInv, LInv, NEW r \in Requests,
         \/ ListAsked(r) \/ ListReadsIndex(r) \/ ListDropsStale(r)
         \/ \E t \in Tokens : ListReadsToken(r, t)
  PROVE  VInv'
<1>1. RequestOK(run[r]) /\ run[r] \in Run /\ run \in [Requests -> Run]
  BY DEF VInv, RequestsSound, TypeOK
<1>2. CASE ListAsked(r)
  <2> DEFINE q == [Idle EXCEPT !.pc = "smembers"]
  <2>1. q \in Run /\ q.pc = "smembers" /\ q.link = None /\ ~q.taken
    BY DEF Idle, Run
  <2>2. RequestOK(q) /\ ~InHand(q) /\ ~Makes(q)
    BY <2>1 DEF RequestOK, InHand, Holding, Makes
  <2> QED
    BY <1>2, <2>1, <2>2, StartsPlainly DEF ListAsked
<1>3. CASE ListReadsIndex(r)
  <2>1. run[r].pc = "smembers" /\ run[r].link = None /\ ~run[r].taken /\ ~InHand(run[r])
    BY <1>1, <1>3 DEF ListReadsIndex, At, RequestOK, InHand, Holding
  <2>2. CASE index = {}
    BY <1>3, <2>1, <2>2, EndsPlainly, RowsStay DEF ListReadsIndex
  <2>3. CASE index # {}
    <3> DEFINE q == [run[r] EXCEPT !.pc = "get", !.left = index]
    <3>1. index \in SUBSET Tokens
      BY DEF VInv, TypeOK
    <3>2. q \in Run /\ q.pc = "get" /\ q.link = None /\ ~q.taken
      BY <1>1, <2>1, <3>1 DEF Run
    <3>3. RequestOK(q) /\ ~InHand(q) /\ TurnsTo(r, q)
      BY <3>2 DEF RequestOK, InHand, Holding, TurnsTo, Makes
    <3>4. run' = [run EXCEPT ![r] = q]
      BY <1>3, <2>3 DEF ListReadsIndex
    <3>5. UNCHANGED <<redis, history>> /\ RowsTyped'
      BY <1>3, RowsStay DEF ListReadsIndex
    <3> QED
      BY <2>1, <3>2, <3>3, <3>4, <3>5, PlainStep
  <2> QED
    BY <2>2, <2>3
<1>4. ASSUME NEW t \in Tokens, ListReadsToken(r, t) PROVE VInv'
  <2>1. run[r].pc = "get" /\ run[r].link = None /\ ~run[r].taken /\ ~InHand(run[r])
    BY <1>1, <1>4 DEF ListReadsToken, At, RequestOK, InHand, Holding
  <2> DEFINE q == [run[r] EXCEPT !.left = @ \ {t},
                                 !.stale = IF t \in keys THEN @ ELSE @ \cup {t},
                                 !.pc = IF run[r].left = {t} THEN "srem" ELSE "get"]
  <2>2. q \in Run /\ q.pc \in {"srem", "get"} /\ q.link = None /\ ~q.taken
    BY <1>1, <2>1 DEF Run
  <2>3. RequestOK(q) /\ ~InHand(q) /\ TurnsTo(r, q)
    BY <2>2 DEF RequestOK, InHand, Holding, TurnsTo, Makes
  <2>4. run' = [run EXCEPT ![r] = q]
    BY <1>1, <1>4 DEF ListReadsToken
  <2>5. UNCHANGED <<redis, history>> /\ RowsTyped'
    BY <1>4, RowsStay DEF ListReadsToken
  <2> QED
    BY <2>1, <2>2, <2>3, <2>4, <2>5, PlainStep
<1>5. CASE ListDropsStale(r)
  <2>1. ~InHand(run[r])
    BY <1>1, <1>5 DEF ListDropsStale, At, RequestOK, InHand, Holding
  <2>2. /\ index' = index \ run[r].stale
        /\ dropped' = dropped \cup (run[r].stale \cap keys \cap givenBack)
        /\ run' = [run EXCEPT ![r] = Idle]
        /\ UNCHANGED <<exists, members, links, keys, started, failures, everMade,
                       admitted, doubt, expired, lost, crossed, givenBack>>
    BY <1>5 DEF ListDropsStale, Ends, rows
  <2>3. TypeOK'
    BY <2>2, IdleIsSound DEF VInv, TypeOK
  <2>4. Grows
    BY <2>2 DEF Grows, VInv, TypeOK
  <2>5. WorkingInviteIsListed'
    BY <2>2 DEF VInv, LInv, ListOK, WorkingInviteIsListed
  <2>6. RequestOK(Idle)'
    BY IdleIsSound, <2>2 DEF RequestOK, InHand, Holding, Accounted, Used
  <2>7. TurnsTo(r, Idle)
    BY IdleIsSound DEF TurnsTo
  <2> QED
    BY <2>1, <2>2, <2>3, <2>4, <2>5, <2>6, <2>7, IdleIsSound, QuietStep
<1> QED
  BY <1>2, <1>3, <1>4, <1>5

LEMMA LinksKeep ==
  ASSUME InvitesAssumption, VInv, NEW r \in Requests,
         \/ CountsLinks(r) \/ InsertsLink(r) \/ Revokes(r)
         \/ \E x \in Tokens \cup Links :
              RevokeAsked(r, x) \/ \E u \in Users : RedeemAsked(r, u, x)
  PROVE  VInv'
<1>1. RequestOK(run[r]) /\ run[r] \in Run /\ run \in [Requests -> Run]
  BY DEF VInv, RequestsSound, TypeOK
<1>2. CASE CountsLinks(r)
  <2>1. run[r].pc = "count" /\ ~run[r].taken /\ ~InHand(run[r]) /\ run[r].link \in Links
    BY <1>1, <1>2 DEF CountsLinks, At, RequestOK, InHand, Holding
  <2>2. CASE BelowLimit
    <3> DEFINE q == [run[r] EXCEPT !.pc = "insert"]
    <3>1. q \in Run /\ q.pc = "insert" /\ q.link = run[r].link /\ ~q.taken
      BY <2>1, OnlyMoves
    <3>2. RequestOK(q) /\ ~InHand(q) /\ TurnsTo(r, q)
      BY <1>1, <2>1, <3>1 DEF RequestOK, InHand, Holding, TurnsTo, Makes
    <3> QED
      BY <1>2, <2>1, <2>2, <3>1, <3>2, PlainStep, RowsStay DEF CountsLinks, Goes
  <2>3. CASE ~BelowLimit
    BY <1>2, <2>1, <2>3, EndsPlainly, RowsStay DEF CountsLinks
  <2> QED
    BY <2>2, <2>3
<1>3. CASE InsertsLink(r)
  <2>1. ~InHand(run[r]) /\ run[r].link \in Links
    BY <1>1, <1>3 DEF InsertsLink, At, RequestOK, InHand, Holding
  <2>2. RowsTyped'
    BY <1>3, <2>1 DEF InsertsLink, RowsTyped, VInv, TypeOK
  <2> QED
    BY <1>3, <2>1, <2>2, EndsPlainly DEF InsertsLink
<1>4. CASE Revokes(r)
  <2>1. ~InHand(run[r])
    BY <1>1, <1>4 DEF Revokes, At, RequestOK, InHand, Holding
  <2>2. RowsTyped'
    BY <1>4 DEF Revokes, RowsTyped, VInv, TypeOK
  <2> QED
    BY <1>4, <2>1, <2>2, EndsPlainly DEF Revokes
<1>5. ASSUME NEW x \in Tokens \cup Links, RevokeAsked(r, x) PROVE VInv'
  <2> DEFINE q == [Idle EXCEPT !.pc = "revoke", !.link = x]
  <2>1. q \in Run /\ q.pc = "revoke" /\ q.link = x /\ ~q.taken
    BY DEF Idle, Run
  <2>2. Known(x) /\ x \in everMade /\ x # None
    BY <1>5 DEF RevokeAsked, Known, InvitesAssumption
  <2>3. RequestOK(q) /\ ~InHand(q) /\ ~Makes(q)
    BY <2>1, <2>2 DEF RequestOK, InHand, Holding, Makes
  <2> QED
    BY <1>5, <2>1, <2>2, <2>3, StartsPlainly DEF RevokeAsked
<1>6. ASSUME NEW x \in Tokens \cup Links, NEW u \in Users, RedeemAsked(r, u, x)
      PROVE  VInv'
  <2> DEFINE q == [Idle EXCEPT !.pc = "ttl", !.user = u, !.link = x]
  <2>1. q \in Run /\ q.pc = "ttl" /\ q.link = x /\ q.user = u /\ ~q.taken
    BY DEF Idle, Run
  <2>2. Known(x) /\ x \in everMade /\ x # None
    BY <1>6 DEF RedeemAsked, Known, InvitesAssumption
  <2>3. RequestOK(q) /\ ~InHand(q) /\ ~Makes(q)
    BY <2>1, <2>2 DEF RequestOK, InHand, Holding, Makes
  <2> QED
    BY <1>6, <2>1, <2>2, <2>3, StartsPlainly DEF RedeemAsked
<1> QED
  BY <1>2, <1>3, <1>4, <1>5, <1>6

-----------------------------------------------------------------------------
(* A token is made                                                          *)

LEMMA CreateKeeps ==
  ASSUME InvitesAssumption, VInv, NEW r \in Requests, NEW x \in Tokens \cup Links,
         CreateAsked(r, x \in Tokens, x)
  PROVE  VInv'
<1> DEFINE start == [Idle EXCEPT !.pc = IF x \in Tokens THEN "save" ELSE "count",
                                 !.link = x]
<1>1. /\ exists /\ x \notin everMade /\ run[r].pc = "idle" /\ everMade' = everMade \cup {x}
      /\ started' = started + 1 /\ started < MaxStarted
      /\ run' = [run EXCEPT ![r] = start]
      /\ UNCHANGED <<exists, members, links, keys, index, failures, admitted, doubt,
                     expired, lost, crossed, givenBack, dropped>>
  BY DEF CreateAsked, Starts, At, rows, redis
<1>2. PICK q \in Run : q = start
  <2>1. start \in Run
    BY DEF Idle, Run
  <2> QED
    BY <2>1
<1>3. /\ q.pc = (IF x \in Tokens THEN "save" ELSE "count") /\ q.link = x /\ ~q.taken
      /\ run' = [run EXCEPT ![r] = q]
  BY <1>1, <1>2 DEF Idle
<1> HIDE DEF start
<1>4. x # None /\ (x \in Tokens => x \notin Links) /\ Makes(q)
      /\ (InHand(q) <=> x \in Tokens) /\ ~Holding(q)
  BY <1>3 DEF InvitesAssumption, Makes, InHand, Holding
<1>5. run[r].link = None /\ ~run[r].taken /\ ~InHand(run[r]) /\ ~Holding(run[r])
  BY <1>1 DEF VInv, RequestsSound, RequestOK, InHand, Holding
<1>6. TypeOK'
  BY <1>1, <1>3 DEF VInv, TypeOK, InvitesAssumption
<1>7. Grows
  BY <1>1 DEF Grows, VInv, TypeOK
<1>8. RequestOK(q)'
  BY <1>1, <1>3, <1>4 DEF RequestOK, InHand, Holding
<1>9. RequestsSound' /\ run'[r] = q /\ \A z \in Requests \ {r} : run'[z] = run[z]
  BY <1>3, <1>6, <1>7, <1>8, RequestsStay
<1>10. MakersAlone'
  BY <1>1, <1>3, <1>4, <1>9, MakersStay DEF TurnsTo
<1>11. \A z \in Requests \ {r} : InHand(run[z]) => run[z].link \in everMade
  BY DEF VInv, RequestsSound, RequestOK, InvitesAssumption
<1>12. OnePlace'
  <2>1. \A z \in Requests : InHand(run'[z]) =>
          \/ z = r /\ run'[z].link = x /\ x \notin keys'
          \/ z # r /\ run'[z] = run[z] /\ InHand(run[z]) /\ run[z].link # x
    BY <1>1, <1>3, <1>9, <1>11 DEF VInv
  <2> QED
    BY <1>1, <2>1 DEF VInv, OnePlace
<1>13. Unused' /\ OneTimeAdmitsOne' /\ keys' \subseteq everMade'
  <2>1. \A z \in Requests : InHand(run'[z]) =>
          \/ run'[z].link \in Tokens /\ run'[z].link \notin everMade
          \/ run'[z] = run[z] /\ InHand(run[z])
    BY <1>1, <1>3, <1>4, <1>9
  <2> QED
    BY <1>1, <2>1 DEF VInv, Unused, OneTimeAdmitsOne
<1>14. NoInviteVanishes'
  <2> SUFFICES ASSUME NEW t \in Tokens, Known(t)'
               PROVE  (t \in keys \/ Used(t) \/ Held(t) \/ t \in lost \/ t \in crossed)'
    BY DEF NoInviteVanishes
  <2>1. t \in everMade' /\ \A z \in Requests : run'[z].pc = "save" => run'[z].link # t
    BY DEF Known, Creating
  <2>2. t # x
    BY <1>3, <1>4, <1>9, <2>1
  <2>3. Known(t)
    BY <1>1, <1>9, <2>1, <2>2, KnownToken
  <2>4. t \in keys \/ Used(t) \/ Held(t) \/ t \in lost \/ t \in crossed
    BY <2>3 DEF VInv, NoInviteVanishes
  <2>5. Held(t) => Held(t)'
    BY <1>5, <1>9 DEF Held, Taken, Holding, At
  <2>6. Used(t) => Used(t)'
    BY <1>1 DEF Used
  <2> QED
    BY <1>1, <2>4, <2>5, <2>6
<1>15. WorkingInviteIsListed'
  BY <1>1 DEF VInv, WorkingInviteIsListed
<1> QED
  BY <1>6, <1>9, <1>10, <1>12, <1>13, <1>14, <1>15 DEF VInv

\* save and restore put a token into Redis, with its entry in the index.
LEMMA SaveKeeps ==
  ASSUME InvitesAssumption, VInv, NEW r \in Requests, InHand(run[r]),
         Save(run[r].link), Ends(r),
         UNCHANGED <<rows, started, failures, everMade, admitted, doubt, expired, lost,
                     crossed>>,
         givenBack' \in SUBSET Tokens, dropped' \in SUBSET Tokens,
         dropped \subseteq dropped' \cup {run[r].link}
  PROVE  VInv'
<1> DEFINE t == run[r].link
<1>1. t \in Tokens /\ t \in everMade /\ admitted[t] <= doubt[t]
  BY DEF VInv, RequestsSound, RequestOK, Unused, InvitesAssumption
<1>2. /\ keys' = keys \cup {t} /\ index' = index \cup {t} /\ run' = [run EXCEPT ![r] = Idle]
      /\ UNCHANGED <<exists, members, links, started, failures, everMade, admitted, doubt,
                     expired, lost, crossed>>
      /\ dropped \subseteq dropped' \cup {t}
  BY DEF Save, Ends, rows
<1>3. TypeOK'
  BY <1>1, <1>2, IdleIsSound DEF VInv, TypeOK
<1>4. Grows /\ admitted[t] \in Nat /\ doubt[t] \in Nat
  BY <1>1, <1>2 DEF Grows, VInv, TypeOK
<1>5. RequestOK(Idle)'
  BY IdleIsSound DEF RequestOK, InHand, Holding
<1>6. WorkingInviteIsListed'
  BY <1>2 DEF VInv, WorkingInviteIsListed
<1>7. PICK u \in Tokens : u = t
  BY <1>1
<1>8. /\ run[r].link = u /\ keys' = keys \cup {u} /\ u \in keys'
      /\ keys' \ {u} = keys \ {u} /\ admitted' = admitted /\ doubt' = doubt
      /\ admitted'[u] <= doubt'[u] /\ admitted'[u] <= 1 + doubt'[u]
  BY <1>1, <1>2, <1>4, <1>7
<1> HIDE DEF t
<1> QED
  BY <1>2, <1>3, <1>4, <1>5, <1>6, <1>8, IdleIsSound, HandMoves

-----------------------------------------------------------------------------
(* A token is taken                                                         *)

\* Who asks for the life of a token finds it in Redis, or knows its end, or
\* meets the one who holds it.
LEMMA TtlKeeps ==
  ASSUME InvitesAssumption, VInv, NEW r \in Requests, ConsumeReadsTtl(r)
  PROVE  VInv'
<1>1. RequestOK(run[r]) /\ run[r] \in Run /\ run \in [Requests -> Run]
      /\ run[r].pc = "ttl" /\ ~run[r].taken /\ run[r].link # None
      /\ run[r].link \in everMade /\ ~InHand(run[r])
  BY DEF VInv, RequestsSound, TypeOK, ConsumeReadsTtl, At, RequestOK, InHand, Holding
<1>2. PICK t \in Tokens \cup Links : t = run[r].link
  BY <1>1 DEF Run
<1> DEFINE moved == [run[r] EXCEPT !.pc = "getdel", !.lives = run[r].link \in keys]
<1>3. moved \in Run /\ moved.pc = "getdel" /\ moved.link = t /\ ~moved.taken
      /\ moved.user = run[r].user /\ moved.lives = (t \in keys)
  <2>1. (run[r].link \in keys) \in BOOLEAN
    OBVIOUS
  <2>2. moved \in Run
    BY <1>1, <2>1 DEF Run
  <2> QED
    BY <1>1, <1>2, <2>2 DEF Run
<1>4. PICK q \in Run : q = moved
  BY <1>3
<1>5. /\ run' = [run EXCEPT ![r] = q]
      /\ crossed' = IF Held(t) THEN crossed \cup {t} ELSE crossed
      /\ UNCHANGED <<exists, members, links, keys, index, started, failures, everMade,
                     admitted, doubt, expired, lost, givenBack, dropped>>
  BY <1>2, <1>4 DEF ConsumeReadsTtl, rows, redis
<1>6. q.pc = "getdel" /\ q.link = t /\ ~q.taken /\ q.user \in Users /\ (q.lives <=> t \in keys)
  BY <1>1, <1>3, <1>4 DEF RequestOK
<1> HIDE DEF moved
<1>7. t \in Tokens => t \in keys \/ Used(t) \/ Held(t) \/ t \in lost \/ t \in crossed
  <2> SUFFICES ASSUME t \in Tokens PROVE Known(t)
    BY DEF VInv, NoInviteVanishes
  <2>1. \A x \in Requests : run[x].pc = "save" => x # r /\ Makes(run[x])
    BY <1>1 DEF Makes
  <2> QED
    BY <1>1, <1>2, <2>1, KnownToken DEF VInv, MakersAlone
<1>8. t \in Tokens => t \in keys \/ Accounted(t)'
  <2>1. Used(t) => Used(t)'
    BY <1>5 DEF Used
  <2>2. Held(t) => t \in crossed'
    BY <1>5
  <2> QED
    BY <1>5, <1>7, <2>1, <2>2 DEF Accounted
<1>9. RequestOK(q)' /\ ~InHand(q)
  BY <1>1, <1>2, <1>5, <1>6, <1>8 DEF RequestOK, InHand, Holding
<1>10. TypeOK'
  <2>1. Held(t) => t \in Tokens
    BY DEF Held, Taken, At, VInv, RequestsSound, RequestOK, InHand, Holding
  <2> QED
    BY <1>5, <2>1 DEF VInv, TypeOK
<1>11. Grows /\ WorkingInviteIsListed'
  BY <1>5 DEF Grows, VInv, TypeOK, WorkingInviteIsListed
<1>12. TurnsTo(r, q)
  BY <1>2, <1>6 DEF TurnsTo, Makes
<1> QED
  BY <1>1, <1>5, <1>9, <1>10, <1>11, <1>12, QuietStep

LEMMA TakeKeeps ==
  ASSUME InvitesAssumption, VInv, NEW r \in Requests, ConsumeTakes(r)
  PROVE  VInv'
<1>1. RequestOK(run[r]) /\ run[r].pc = "getdel" /\ ~run[r].taken
      /\ run[r].link # None /\ run[r].link \in everMade /\ ~InHand(run[r])
      /\ run[r].user \in Users /\ ~Makes(run[r])
  BY DEF VInv, RequestsSound, ConsumeTakes, At, RequestOK, InHand, Holding, Makes
<1>2. CASE run[r].link \notin keys
  <2> DEFINE q == [run[r] EXCEPT !.pc = "find"]
  <2>1. q \in Run /\ q.pc = "find" /\ q.link = run[r].link /\ ~q.taken
        /\ q.user \in Users
    BY <1>1, OnlyMoves
  <2>2. RequestOK(q) /\ ~InHand(q) /\ TurnsTo(r, q)
    BY <1>1, <2>1 DEF RequestOK, InHand, Holding, TurnsTo, Makes
  <2>3. keys' = keys
    BY <1>2 DEF ConsumeTakes
  <2>4. UNCHANGED <<redis, history>> /\ run' = [run EXCEPT ![r] = q]
    BY <1>2, <2>3 DEF ConsumeTakes, Goes, redis
  <2> QED
    BY <1>1, <2>1, <2>2, <2>4, PlainStep, RowsStay DEF ConsumeTakes
<1>3. CASE run[r].link \in keys
  <2>1. PICK t \in Tokens : t = run[r].link
    BY <1>3 DEF VInv, TypeOK
  <2>2. PICK q \in Run : q = [run[r] EXCEPT !.pc = "unlist"]
    BY OnlyMoves
  <2>3. q.pc = "unlist" /\ q.link = t /\ ~q.taken /\ q.user \in Users
        /\ q.lives = run[r].lives
    BY <1>1, <2>1, <2>2, OnlyMoves
  <2>4. /\ run' = [run EXCEPT ![r] = q] /\ keys' = keys \ {t}
        /\ UNCHANGED <<exists, members, links, index, started, failures, everMade,
                       admitted, doubt, expired, lost, crossed, givenBack, dropped>>
    BY <1>3, <2>1, <2>2 DEF ConsumeTakes, Goes, rows, history
  <2>5. TypeOK'
    BY <2>4 DEF VInv, TypeOK
  <2>6. Grows /\ WorkingInviteIsListed'
    BY <2>4 DEF Grows, VInv, TypeOK, WorkingInviteIsListed
  <2>7. admitted[t] <= doubt[t] /\ admitted[t] \in Nat /\ doubt[t] \in Nat
    BY <1>3, <2>1 DEF VInv, Unused, TypeOK
  <2>8. q.lives \/ Accounted(t)
    BY <1>1, <2>1, <2>3 DEF RequestOK
  <2>9. RequestOK(q)'
    BY <1>1, <2>1, <2>3, <2>4, <2>8
       DEF RequestOK, InHand, Holding, Accounted, Used, InvitesAssumption
  <2>10. InHand(q) /\ Holding(q) /\ ~Makes(q)
    BY <2>3 DEF InHand, Holding, Makes
  <2>11. keys' \ {t} = keys \ {t} /\ t \notin keys' /\ t \in keys
         /\ admitted'[t] <= doubt'[t] /\ admitted'[t] <= 1 + doubt'[t]
    BY <1>3, <2>1, <2>4, <2>7
  <2> QED
    BY <1>1, <2>1, <2>3, <2>4, <2>5, <2>6, <2>9, <2>10, <2>11, HandMoves
<1> QED
  BY <1>2, <1>3

-----------------------------------------------------------------------------
(* What happens to a token in the hand                                      *)

\* Facts about a token that a request holds.
LEMMA TokenInHand ==
  ASSUME InvitesAssumption, VInv, NEW r \in Requests, InHand(run[r])
  PROVE  LET t == run[r].link IN
         /\ t \in Tokens /\ t \in everMade /\ t \notin keys /\ t # None
         /\ admitted[t] \in Nat /\ doubt[t] \in Nat /\ admitted[t] <= doubt[t]
         /\ Holding(run[r]) => run[r].lives \/ Accounted(t)
<1>1. RequestOK(run[r]) /\ run[r].link \notin keys
      /\ admitted[run[r].link] <= doubt[run[r].link]
  BY DEF VInv, RequestsSound, OnePlace, Unused
<1>2. run[r].link \in Tokens /\ run[r].link # None /\ run[r].link \in everMade
      /\ (Holding(run[r]) => run[r].lives \/ Accounted(run[r].link))
  BY <1>1 DEF RequestOK, InvitesAssumption
<1> QED
  BY <1>1, <1>2 DEF VInv, TypeOK

\* It is let go, and its end is known.
LEMMA HandEnds ==
  ASSUME InvitesAssumption, VInv, TypeOK', Grows, NEW r \in Requests, InHand(run[r]),
         Ends(r), UNCHANGED <<keys, index, everMade, dropped>>,
         \A u \in Tokens \ {run[r].link} : admitted'[u] = admitted[u] /\ doubt'[u] = doubt[u],
         admitted'[run[r].link] <= 1 + doubt'[run[r].link],
         \/ Used(run[r].link) \/ run[r].link \in lost' \/ run[r].link \in crossed
         \/ admitted'[run[r].link] > 0
  PROVE  VInv'
<1>1. PICK t \in Tokens : t = run[r].link
  BY TokenInHand
<1>2. t \notin keys'
  BY <1>1, TokenInHand
<1>3. Accounted(t)'
  <2>1. admitted[t] \in Nat /\ admitted'[t] \in Nat /\ admitted[t] <= admitted'[t]
    BY DEF VInv, TypeOK, Grows
  <2> QED
    BY <1>1, <2>1 DEF Accounted, Used, Grows
<1>4. RequestOK(Idle)' /\ Idle \in Run /\ ~InHand(Idle) /\ ~Makes(Idle) /\ Idle.link = None
  BY IdleIsSound DEF RequestOK, InHand, Holding
<1>5. WorkingInviteIsListed'
  BY DEF VInv, WorkingInviteIsListed
<1>6. run' = [run EXCEPT ![r] = Idle] /\ keys' \ {t} = keys \ {t}
      /\ admitted'[t] <= 1 + doubt'[t]
      /\ \A u \in Tokens \ {t} : admitted'[u] = admitted[u] /\ doubt'[u] = doubt[u]
  BY <1>1 DEF Ends
<1> QED
  BY <1>1, <1>2, <1>3, <1>4, <1>5, <1>6, HandMoves

\* It stays in the hand.
LEMMA HandStays ==
  ASSUME InvitesAssumption, VInv, TypeOK', Grows, NEW r \in Requests, InHand(run[r]),
         NEW q \in Run, run' = [run EXCEPT ![r] = q], Holding(q), q.link = run[r].link,
         Holding(run[r]), q.lives = run[r].lives,
         q.pc \in {"add", "restore"}, q.pc = "add" => q.user \in Users,
         UNCHANGED <<keys, everMade, dropped>>,
         index' \cup {run[r].link} = index \cup {run[r].link},
         \A u \in Tokens \ {run[r].link} : admitted'[u] = admitted[u] /\ doubt'[u] = doubt[u],
         admitted'[run[r].link] <= doubt'[run[r].link]
  PROVE  VInv'
<1>1. PICK t \in Tokens : t = run[r].link
  BY TokenInHand
<1>2. t \notin keys' /\ t \in everMade /\ t # None /\ (q.lives \/ Accounted(t))
  BY <1>1, TokenInHand
<1>3. Accounted(t) => Accounted(t)'
  <2>1. admitted[t] \in Nat /\ admitted'[t] \in Nat /\ admitted[t] <= admitted'[t]
    BY DEF VInv, TypeOK, Grows
  <2> QED
    BY <2>1 DEF Accounted, Used, Grows
<1>4. q.taken /\ q.link = t
  BY <1>1 DEF Holding
<1>5. RequestOK(q)' /\ ~Makes(q)
  BY <1>2, <1>3, <1>4 DEF RequestOK, InHand, Holding, Makes
<1>6. WorkingInviteIsListed'
  <2>1. \A u \in keys' : u \in keys /\ u # t
    BY <1>2
  <2> QED
    BY <1>1, <2>1 DEF VInv, WorkingInviteIsListed
<1>7. keys' \ {t} = keys \ {t} /\ InHand(q) /\ t \notin keys'
      /\ admitted'[t] <= doubt'[t] /\ admitted'[t] <= 1 + doubt'[t]
      /\ \A u \in Tokens \ {t} : admitted'[u] = admitted[u] /\ doubt'[u] = doubt[u]
  <2>1. admitted'[t] \in Nat /\ doubt'[t] \in Nat
    BY DEF TypeOK
  <2> QED
    BY <1>1, <1>2, <2>1 DEF InHand
<1> QED
  BY <1>1, <1>4, <1>5, <1>6, <1>7, HandMoves

LEMMA UnlistKeeps ==
  ASSUME InvitesAssumption, VInv, NEW r \in Requests, run[r].pc = "unlist",
         run' = [run EXCEPT ![r].pc = "add", ![r].taken = TRUE],
         index' \in {index, index \ {run[r].link}}, failures' \in 0..MaxFailures,
         UNCHANGED <<rows, keys, started, history>>
  PROVE  VInv'
<1>1. InHand(run[r]) /\ Holding(run[r]) /\ run[r].user \in Users /\ run[r] \in Run
  BY DEF InHand, Holding, VInv, RequestsSound, RequestOK, TypeOK
<1> DEFINE q == [run[r] EXCEPT !.pc = "add", !.taken = TRUE]
<1>2. q \in Run /\ q.pc = "add" /\ q.taken /\ q.link = run[r].link
      /\ q.user = run[r].user /\ q.lives = run[r].lives
  BY <1>1 DEF Run
<1>3. run' = [run EXCEPT ![r] = q]
  BY DEF VInv, TypeOK
<1>4. UNCHANGED <<exists, members, links, keys, started, everMade, admitted, doubt,
                  expired, lost, crossed, givenBack, dropped>>
  BY DEF rows, history
<1>5. TypeOK' /\ Grows
  <2>1. index' \in SUBSET Tokens /\ run' \in [Requests -> Run]
    BY <1>2, <1>3 DEF VInv, TypeOK
  <2> QED
    BY <1>4, <2>1 DEF VInv, TypeOK, Grows
<1>6. admitted'[run[r].link] <= doubt'[run[r].link]
  BY <1>1, <1>4, TokenInHand
<1>7. Holding(q)
  BY <1>2 DEF Holding
<1> HIDE DEF q
<1> QED
  BY <1>1, <1>2, <1>3, <1>4, <1>5, <1>6, <1>7, HandStays

\* addMemberViaInvite was refused, or failed after it had made the member.
LEMMA AddFailsKeeps ==
  ASSUME InvitesAssumption, VInv, NEW r \in Requests, run[r].pc = "add", AddFails(r),
         failures' \in 0..MaxFailures,
         UNCHANGED <<exists, links, redis, started, everMade, expired, lost, crossed,
                     givenBack, dropped>>,
         \/ UNCHANGED <<members, admitted, doubt>>
         \/ /\ Joins(r)
            /\ doubt' = IF run[r].taken THEN [doubt EXCEPT ![run[r].link] = @ + 1]
                        ELSE doubt
  PROVE  VInv'
<1>1. run[r].user \in Users /\ run[r] \in Run
  BY DEF VInv, RequestsSound, RequestOK, TypeOK
<1>2. members' \in SUBSET Users
  BY <1>1 DEF Joins, VInv, TypeOK
<1>3. CASE ~run[r].taken
  <2>1. ~InHand(run[r])
    BY <1>3 DEF InHand, Holding
  <2>2. RowsTyped' /\ UNCHANGED <<redis, history>>
    BY <1>2, <1>3 DEF RowsTyped, VInv, TypeOK, history, Joins
  <2>3. Ends(r)
    BY <1>3 DEF AddFails
  <2> QED
    BY <2>1, <2>2, <2>3, EndsPlainly
<1>4. CASE run[r].taken
  <2>1. InHand(run[r]) /\ Holding(run[r])
    BY <1>4 DEF InHand, Holding
  <2> DEFINE t == run[r].link  q == [run[r] EXCEPT !.pc = "restore"]
  <2>2. t \in Tokens /\ admitted[t] \in Nat /\ doubt[t] \in Nat /\ admitted[t] <= doubt[t]
    BY <2>1, TokenInHand
  <2>3. q \in Run /\ q.pc = "restore" /\ q.taken /\ q.link = t /\ q.lives = run[r].lives
    BY <1>4, OnlyMoves
  <2>4. run' = [run EXCEPT ![r] = q]
    BY <1>4 DEF AddFails, Goes
  <2>5. \/ UNCHANGED <<admitted, doubt>>
        \/ admitted' = [admitted EXCEPT ![t] = @ + 1] /\ doubt' = [doubt EXCEPT ![t] = @ + 1]
    BY <1>4 DEF Joins
  <2>6. /\ admitted' \in [Tokens -> Nat] /\ doubt' \in [Tokens -> Nat]
        /\ admitted'[t] <= doubt'[t]
        /\ \A u \in Tokens : admitted[u] <= admitted'[u]
        /\ \A u \in Tokens \ {t} : admitted'[u] = admitted[u] /\ doubt'[u] = doubt[u]
    BY <2>2, <2>5 DEF VInv, TypeOK
  <2>7. TypeOK'
    <3>1. run' \in [Requests -> Run]
      BY <2>3, <2>4 DEF VInv, TypeOK
    <3> QED
      BY <1>2, <2>6, <3>1 DEF VInv, TypeOK, redis
  <2>8. Grows
    BY <2>6 DEF Grows
  <2>9. Holding(q)
    BY <2>3 DEF Holding
  <2> HIDE DEF q
  <2> QED
    BY <2>1, <2>3, <2>4, <2>6, <2>7, <2>8, <2>9, HandStays DEF redis
<1> QED
  BY <1>3, <1>4

LEMMA AddKeeps ==
  ASSUME InvitesAssumption, VInv, NEW r \in Requests, AddsMember(r)
  PROVE  VInv'
<1>1. run[r].pc = "add" /\ run[r].user \in Users /\ run[r] \in Run
  BY DEF VInv, RequestsSound, RequestOK, TypeOK, AddsMember, At
<1>2. UNCHANGED <<exists, links, redis, started, failures, everMade, doubt, expired,
                  lost, crossed, givenBack, dropped>>
  BY DEF AddsMember
<1>3. CASE ~CanJoin(run[r].user)
  <2>1. AddFails(r) /\ UNCHANGED <<members, admitted>> /\ failures' \in 0..MaxFailures
    BY <1>2, <1>3 DEF AddsMember, VInv, TypeOK
  <2> QED
    BY <1>1, <1>2, <2>1, AddFailsKeeps
<1>4. CASE CanJoin(run[r].user)
  <2>1. Joins(r) /\ Ends(r) /\ members' \in SUBSET Users
    BY <1>1, <1>4 DEF AddsMember, Joins, VInv, TypeOK
  <2>2. CASE ~run[r].taken
    <3>1. ~InHand(run[r])
      BY <1>1, <2>2 DEF InHand, Holding
    <3>2. RowsTyped' /\ UNCHANGED <<redis, history>>
      BY <1>2, <2>1, <2>2 DEF RowsTyped, VInv, TypeOK, history, Joins
    <3> QED
      BY <2>1, <3>1, <3>2, EndsPlainly
  <2>3. CASE run[r].taken
    <3> DEFINE t == run[r].link
    <3>1. InHand(run[r])
      BY <1>1, <2>3 DEF InHand, Holding
    <3>2. t \in Tokens /\ admitted[t] \in Nat /\ doubt[t] \in Nat /\ admitted[t] <= doubt[t]
      BY <3>1, TokenInHand
    <3>3. admitted' = [admitted EXCEPT ![t] = @ + 1] /\ doubt' = doubt
      BY <1>2, <2>1, <2>3 DEF Joins
    <3>4. /\ admitted' \in [Tokens -> Nat] /\ admitted'[t] > 0 /\ admitted'[t] <= 1 + doubt'[t]
          /\ \A u \in Tokens : admitted[u] <= admitted'[u]
          /\ \A u \in Tokens \ {t} : admitted'[u] = admitted[u] /\ doubt'[u] = doubt[u]
      BY <3>2, <3>3 DEF VInv, TypeOK
    <3>5. TypeOK'
      BY <1>2, <2>1, <3>4, IdleIsSound DEF VInv, TypeOK, redis, Ends
    <3>6. Grows
      BY <1>2, <3>4 DEF Grows
    <3> QED
      BY <1>2, <2>1, <3>1, <3>4, <3>5, <3>6, HandEnds DEF redis
  <2> QED
    BY <2>2, <2>3
<1> QED
  BY <1>3, <1>4

\* A request without a token goes on to look for a permanent link.
LEMMA FallsBack ==
  ASSUME InvitesAssumption, VInv, NEW r \in Requests, run[r].pc \in {"ttl", "getdel"},
         Goes(r, "find"), UNCHANGED <<redis, history>>, RowsTyped'
  PROVE  VInv'
<1> DEFINE q == [run[r] EXCEPT !.pc = "find"]
<1>1. RequestOK(run[r]) /\ ~run[r].taken /\ ~InHand(run[r]) /\ run[r].link # None
  BY DEF VInv, RequestsSound, RequestOK, InHand, Holding
<1>2. q \in Run /\ q.pc = "find" /\ q.link = run[r].link /\ ~q.taken
      /\ q.user = run[r].user
  BY <1>1, OnlyMoves
<1>3. RequestOK(q) /\ ~InHand(q) /\ TurnsTo(r, q)
  BY <1>1, <1>2 DEF RequestOK, InHand, Holding, TurnsTo, Makes
<1> QED
  BY <1>1, <1>2, <1>3, PlainStep DEF Goes

LEMMA FindKeeps ==
  ASSUME InvitesAssumption, VInv, NEW r \in Requests, FindsLink(r)
  PROVE  VInv'
<1>1. run[r].pc = "find" /\ ~run[r].taken /\ ~InHand(run[r]) /\ RequestOK(run[r])
      /\ run[r].link # None
  BY DEF FindsLink, At, VInv, RequestsSound, RequestOK, InHand, Holding
<1>2. CASE run[r].link \in links
  <2> DEFINE q == [run[r] EXCEPT !.pc = "add"]
  <2>1. q \in Run /\ q.pc = "add" /\ q.link = run[r].link /\ ~q.taken
        /\ q.user = run[r].user
    BY <1>1, OnlyMoves
  <2>2. RequestOK(q) /\ ~InHand(q) /\ TurnsTo(r, q)
    BY <1>1, <2>1 DEF RequestOK, InHand, Holding, TurnsTo, Makes
  <2> QED
    BY <1>1, <1>2, <2>1, <2>2, PlainStep, RowsStay DEF FindsLink, Goes
<1>3. CASE run[r].link \notin links
  BY <1>1, <1>3, EndsPlainly, RowsStay DEF FindsLink
<1> QED
  BY <1>2, <1>3

LEMMA RestoreKeeps ==
  ASSUME InvitesAssumption, VInv, NEW r \in Requests, Restores(r)
  PROVE  VInv'
<1>1. InHand(run[r]) /\ Holding(run[r])
  BY DEF Restores, At, VInv, RequestsSound, RequestOK, InHand, Holding
<1>2. CASE run[r].lives
  <2>1. run[r].link \in Tokens
    BY <1>1, TokenInHand
  <2>2. givenBack' \in SUBSET Tokens /\ dropped' \in SUBSET Tokens
        /\ dropped \subseteq dropped' \cup {run[r].link}
    BY <1>2, <2>1 DEF Restores, VInv, TypeOK
  <2> QED
    BY <1>1, <1>2, <2>2, SaveKeeps DEF Restores
<1>3. CASE ~run[r].lives
  <2>1. Accounted(run[r].link) /\ admitted[run[r].link] \in Nat
        /\ doubt[run[r].link] \in Nat /\ admitted[run[r].link] <= doubt[run[r].link]
    BY <1>1, <1>3, TokenInHand
  <2>2. /\ UNCHANGED <<exists, members, links, keys, index, started, failures, everMade,
                       admitted, doubt, expired, lost, crossed, givenBack, dropped>>
        /\ Ends(r)
    BY <1>3 DEF Restores, rows, redis, history
  <2>3. TypeOK' /\ Grows
    BY <2>2, IdleIsSound DEF VInv, TypeOK, Ends, Grows
  <2>4. admitted'[run[r].link] <= 1 + doubt'[run[r].link]
    BY <2>1, <2>2
  <2> QED
    BY <1>1, <2>1, <2>2, <2>3, <2>4, HandEnds DEF Accounted
<1> QED
  BY <1>2, <1>3

\* A token is lost with the hand that held it.
LEMMA LostKeeps ==
  ASSUME InvitesAssumption, VInv, NEW r \in Requests, InHand(run[r]), Ends(r),
         lost' = lost \cup {run[r].link}, failures' \in 0..MaxFailures,
         UNCHANGED <<rows, redis, started, everMade, admitted, doubt, expired,
                     crossed, givenBack, dropped>>
  PROVE  VInv'
<1>1. run[r].link \in Tokens /\ admitted[run[r].link] \in Nat
      /\ doubt[run[r].link] \in Nat /\ admitted[run[r].link] <= doubt[run[r].link]
  BY TokenInHand
<1>2. TypeOK' /\ Grows
  BY <1>1, IdleIsSound DEF VInv, TypeOK, Ends, Grows, rows, redis
<1>3. admitted'[run[r].link] <= 1 + doubt'[run[r].link] /\ run[r].link \in lost'
  BY <1>1
<1> QED
  BY <1>2, <1>3, HandEnds DEF redis

LEMMA FailureKeeps ==
  ASSUME InvitesAssumption, VInv, NEW r \in Requests,
         DatabaseFails(r) \/ RedisFails(r) \/ Dies(r)
  PROVE  VInv'
<1>1. failures' \in 0..MaxFailures
  BY DEF DatabaseFails, RedisFails, Dies, Fails, VInv, TypeOK, InvitesAssumption
<1>2. RequestOK(run[r]) /\ run[r] \in Run /\ None \notin Tokens
  BY DEF VInv, RequestsSound, TypeOK, InvitesAssumption
<1>3. CASE DatabaseFails(r)
  BY <1>1, <1>3, AddFailsKeeps DEF DatabaseFails, At
<1>4. CASE RedisFails(r)
  <2>1. UNCHANGED <<rows, index, started, everMade, admitted, doubt, expired, crossed,
                    givenBack, dropped>>
    BY <1>4 DEF RedisFails
  <2>2. RowsTyped'
    BY <1>1, <2>1 DEF RowsTyped, rows, VInv, TypeOK
  <2>3. ASSUME run[r].pc \in {"save", "restore"}, Ends(r), UNCHANGED keys,
               lost' = IF run[r].link \in Tokens THEN lost \cup {run[r].link} ELSE lost
        PROVE  VInv'
    <3>1. InHand(run[r])
      BY <1>2, <2>3 DEF RequestOK, InHand, Holding
    <3>2. lost' = lost \cup {run[r].link}
      BY <2>3, <3>1, TokenInHand
    <3> QED
      BY <1>1, <2>1, <2>3, <3>1, <3>2, LostKeeps DEF redis
  <2>4. ASSUME run[r].pc \in {"smembers", "srem"}, Ends(r), UNCHANGED keys,
               lost' = IF run[r].link \in Tokens THEN lost \cup {run[r].link} ELSE lost
        PROVE  VInv'
    <3>1. ~InHand(run[r]) /\ run[r].link = None
      BY <1>2, <2>4 DEF RequestOK, InHand, Holding
    <3>2. UNCHANGED <<redis, history>>
      BY <1>2, <2>1, <2>4, <3>1 DEF redis, history
    <3> QED
      BY <2>2, <2>4, <3>1, <3>2, EndsPlainly
  <2>5. ASSUME run[r].pc \in {"ttl", "getdel"}, Goes(r, "find"), UNCHANGED <<keys, lost>>
        PROVE  VInv'
    <3>1. UNCHANGED <<redis, history>>
      BY <2>1, <2>5 DEF redis, history
    <3> QED
      BY <2>2, <2>5, <3>1, FallsBack
  <2>6. ASSUME run[r].pc = "getdel", Goes(r, "find"), run[r].link \in keys,
               keys' = keys \ {run[r].link}, lost' = lost \cup {run[r].link}
        PROVE  VInv'
    <3>1. PICK t \in Tokens : t = run[r].link
      BY <2>6 DEF VInv, TypeOK
    <3>2. PICK q \in Run : q = [run[r] EXCEPT !.pc = "find"]
      BY OnlyMoves
    <3>3. q.pc = "find" /\ q.link = t /\ ~q.taken /\ q.user = run[r].user
      BY <1>2, <2>6, <3>1, <3>2, OnlyMoves DEF RequestOK
    <3>4. UNCHANGED <<exists, members, links, index, started, everMade, admitted, doubt,
                      expired, crossed, givenBack, dropped>>
          /\ run' = [run EXCEPT ![r] = q]
      BY <2>1, <2>6, <3>2 DEF rows, Goes
    <3>5. TypeOK' /\ Grows /\ WorkingInviteIsListed'
      BY <1>1, <2>6, <3>1, <3>4 DEF VInv, TypeOK, Grows, WorkingInviteIsListed
    <3>6. RequestOK(q)' /\ ~InHand(q) /\ ~Makes(q) /\ ~Makes(run[r])
      BY <1>2, <2>6, <3>1, <3>3, <3>4 DEF RequestOK, InHand, Holding, Makes
    <3>7. admitted'[t] <= doubt'[t] /\ admitted'[t] <= 1 + doubt'[t] /\ t \in keys
          /\ keys' \ {t} = keys \ {t} /\ t \notin keys' /\ Accounted(t)'
      <4>1. admitted[t] <= doubt[t] /\ admitted[t] \in Nat /\ doubt[t] \in Nat
        BY <2>6, <3>1 DEF VInv, Unused, TypeOK
      <4> QED
        BY <2>6, <3>1, <3>4, <4>1 DEF Accounted
    <3> QED
      BY <3>1, <3>3, <3>4, <3>5, <3>6, <3>7, HandMoves
  <2>7. ASSUME run[r].pc = "unlist", UNCHANGED <<keys, lost>>,
               run' = [run EXCEPT ![r].pc = "add", ![r].taken = TRUE]
        PROVE  VInv'
    BY <1>1, <2>1, <2>7, UnlistKeeps DEF history
  <2> QED
    BY <1>4, <2>3, <2>4, <2>5, <2>6, <2>7 DEF RedisFails, At
<1>5. CASE Dies(r)
  <2>1. Taken(r) <=> Holding(run[r])
    BY DEF Taken, Holding, At
  <2>2. CASE InHand(run[r])
    <3>1. lost' = lost \cup {run[r].link}
      BY <1>5, <2>1, <2>2 DEF Dies, InHand, At
    <3> QED
      BY <1>1, <1>5, <2>2, <3>1, LostKeeps DEF Dies
  <2>3. CASE ~InHand(run[r])
    <3>1. lost' = lost
      BY <1>5, <2>1, <2>3 DEF Dies, InHand, At
    <3>2. RowsTyped' /\ UNCHANGED <<redis, history>>
      BY <1>1, <1>5, <3>1 DEF Dies, RowsTyped, rows, history, VInv, TypeOK
    <3> QED
      BY <1>5, <2>3, <3>2, EndsPlainly DEF Dies
  <2> QED
    BY <2>2, <2>3
<1> QED
  BY <1>3, <1>4, <1>5

-----------------------------------------------------------------------------
(* Time, and the rest of the program                                        *)

LEMMA ExpireKeeps ==
  ASSUME InvitesAssumption, VInv, NEW t \in Tokens, Expires(t)
  PROVE  VInv'
<1>1. /\ t \in keys /\ keys' = keys \ {t} /\ expired' = expired \cup {t}
      /\ UNCHANGED <<exists, members, links, index, run, started, failures, everMade,
                     admitted, doubt, lost, crossed, givenBack, dropped>>
  BY DEF Expires, rows
<1>2. TypeOK' /\ keys' \subseteq everMade'
  BY <1>1 DEF VInv, TypeOK
<1>3. Grows
  BY <1>1 DEF Grows, VInv, TypeOK
<1>4. RequestsSound'
  BY <1>1, <1>2, <1>3, RequestStays DEF RequestsSound
<1>5. MakersAlone' /\ OnePlace' /\ OneTimeAdmitsOne' /\ WorkingInviteIsListed'
  BY <1>1 DEF VInv, MakersAlone, OnePlace, OneTimeAdmitsOne, WorkingInviteIsListed
<1>6. Unused'
  BY <1>1 DEF VInv, Unused
<1>7. NoInviteVanishes'
  <2> SUFFICES ASSUME NEW x \in Tokens, Known(x)'
               PROVE  x \in keys' \/ Used(x)' \/ Held(x)' \/ x \in lost' \/ x \in crossed'
    BY DEF NoInviteVanishes
  <2>1. Known(x) /\ (Held(x) <=> Held(x)') /\ (Used(x) => Used(x)')
    BY <1>1 DEF Known, Creating, Held, Taken, At, Used
  <2>2. x = t => Used(x)'
    BY <1>1 DEF Used
  <2> QED
    BY <1>1, <2>1, <2>2 DEF VInv, NoInviteVanishes
<1> QED
  BY <1>2, <1>4, <1>5, <1>6, <1>7 DEF VInv

\* The members and the workspace come and go as they like.
LEMMA RestKeeps ==
  ASSUME InvitesAssumption, VInv, RowsTyped', UNCHANGED <<redis, run, history>>
  PROVE  VInv'
<1>1. UNCHANGED <<keys, index, run, everMade, admitted, doubt, expired, lost, crossed,
                  givenBack, dropped>>
  BY DEF redis, history
<1>2. TypeOK' /\ keys' \subseteq everMade'
  BY <1>1 DEF VInv, TypeOK, RowsTyped
<1>3. RequestsSound'
  BY <1>1 DEF VInv, RequestsSound, RequestOK, InHand, Holding, Accounted, Used
<1>4. MakersAlone' /\ OnePlace' /\ OneTimeAdmitsOne' /\ WorkingInviteIsListed' /\ Unused'
  BY <1>1 DEF VInv, MakersAlone, OnePlace, OneTimeAdmitsOne, WorkingInviteIsListed, Unused
<1>5. NoInviteVanishes'
  BY <1>1 DEF VInv, NoInviteVanishes, Known, Creating, Held, Taken, At, Used
<1> QED
  BY <1>2, <1>3, <1>4, <1>5 DEF VInv

LEMMA MembersKeep ==
  ASSUME InvitesAssumption, VInv, MembersChange
  PROVE  VInv'
<1>1. RowsTyped' /\ UNCHANGED <<redis, run, history>>
  BY DEF MembersChange, RowsTyped, VInv, TypeOK
<1> QED
  BY <1>1, RestKeeps

LEMMA RequestKeeps ==
  ASSUME InvitesAssumption, VInv, NEW r \in Requests,
         \/ \E t \in Tokens : CreateAsked(r, TRUE, t)
         \/ \E l \in Links : CreateAsked(r, FALSE, l)
         \/ Saves(r) \/ ConsumeUnlists(r)
  PROVE  VInv'
<1>1. ASSUME NEW t \in Tokens, CreateAsked(r, TRUE, t) PROVE VInv'
  <2>1. (t \in Tokens) = TRUE
    OBVIOUS
  <2>2. CreateAsked(r, t \in Tokens, t)
    BY <1>1, <2>1
  <2> QED
    BY <2>2, CreateKeeps
<1>2. ASSUME NEW l \in Links, CreateAsked(r, FALSE, l) PROVE VInv'
  <2>1. (l \in Tokens) = FALSE
    BY DEF InvitesAssumption
  <2>2. CreateAsked(r, l \in Tokens, l)
    BY <1>2, <2>1
  <2> QED
    BY <2>2, CreateKeeps
<1>3. CASE Saves(r)
  <2>1. InHand(run[r])
    BY <1>3 DEF Saves, At, InHand
  <2>2. givenBack' \in SUBSET Tokens /\ dropped' \in SUBSET Tokens
        /\ dropped \subseteq dropped' \cup {run[r].link}
    BY <1>3 DEF Saves, history, VInv, TypeOK
  <2> QED
    BY <1>3, <2>1, <2>2, SaveKeeps DEF Saves, history
<1>4. CASE ConsumeUnlists(r)
  <2>1. failures' \in 0..MaxFailures
    BY <1>4 DEF ConsumeUnlists, VInv, TypeOK
  <2> QED
    BY <1>4, <2>1, UnlistKeeps DEF ConsumeUnlists, At
<1> QED
  BY <1>1, <1>2, <1>3, <1>4

LEMMA StepKeeps == ASSUME InvitesAssumption, VInv, LInv, [Next]_vars PROVE VInv'
<1>1. CASE UNCHANGED vars
  <2>1. RowsTyped' /\ UNCHANGED <<redis, run, history>>
    BY <1>1, RowsStay DEF vars
  <2> QED
    BY <2>1, RestKeeps
<1>2. CASE Next
  <2>1. ASSUME NEW r \in Requests,
               \/ \E t \in Tokens : CreateAsked(r, TRUE, t) \/ ListReadsToken(r, t)
               \/ \E l \in Links : CreateAsked(r, FALSE, l)
               \/ \E x \in Tokens \cup Links :
                    RevokeAsked(r, x) \/ \E u \in Users : RedeemAsked(r, u, x)
               \/ Saves(r) \/ CountsLinks(r) \/ InsertsLink(r) \/ Revokes(r)
               \/ ListAsked(r) \/ ListReadsIndex(r) \/ ListDropsStale(r)
               \/ ConsumeReadsTtl(r) \/ ConsumeTakes(r) \/ ConsumeUnlists(r)
               \/ FindsLink(r) \/ AddsMember(r) \/ Restores(r)
               \/ DatabaseFails(r) \/ RedisFails(r) \/ Dies(r)
        PROVE  VInv'
    BY <2>1, RequestKeeps, ListKeeps, LinksKeep, TtlKeeps, TakeKeeps, FindKeeps,
       AddKeeps, RestoreKeeps, FailureKeeps
  <2>2. (\E t \in Tokens : Expires(t)) => VInv'
    BY ExpireKeeps
  <2> QED
    BY <1>2, <2>1, <2>2, MembersKeep DEF Next
<1> QED
  BY <1>1, <1>2

-----------------------------------------------------------------------------
(* What the lists know                                                      *)

\* What one step does to the tokens, the index and the lists under way.
ListsPass ==
  /\ \A t \in Tokens : Known(t) => Known(t)'
  /\ \A t \in index' \ index : Known(t)'
  /\ \A t \in keys' \ keys : t \in givenBack' \/ ~Known(t)
  /\ givenBack \subseteq givenBack'
  /\ \A r \in Requests :
       /\ run'[r].left \subseteq run[r].left \cup index
       /\ run'[r].stale \subseteq run[r].stale \cup (run[r].left \ keys')

LEMMA PassKeepsLists == ASSUME VInv, VInv', LInv, ListsPass PROVE LInv'
<1>1. /\ index \subseteq Tokens /\ index' \subseteq Tokens
      /\ \A r \in Requests : /\ run[r].left \subseteq Tokens /\ run[r].stale \subseteq Tokens
                             /\ run'[r].left \subseteq Tokens /\ run'[r].stale \subseteq Tokens
  BY DEF VInv, TypeOK, Run
<1>2. \A t \in index' : Known(t)'
  BY <1>1 DEF LInv, ListsPass
<1>3. ASSUME NEW r \in Requests PROVE ListOK(run[r])'
  <2>1. ListOK(run[r]) /\ \A t \in index : Known(t)
    BY DEF LInv
  <2>2. ASSUME NEW t \in run'[r].left \cup run'[r].stale PROVE Known(t)'
    <3>1. t \in Tokens /\ t \in run[r].left \cup run[r].stale \cup index
      BY <1>1 DEF ListsPass
    <3> QED
      BY <2>1, <3>1 DEF ListOK, ListsPass
  <2>3. ASSUME NEW t \in run'[r].stale, t \in keys' PROVE t \in givenBack'
    <3>1. t \in run[r].stale
      BY <2>3 DEF ListsPass
    <3>2. Known(t) /\ (t \in keys => t \in givenBack)
      BY <2>1, <3>1 DEF ListOK
    <3> QED
      BY <2>3, <3>2 DEF ListsPass
  <2> QED
    BY <2>2, <2>3 DEF ListOK
<1> QED
  BY <1>2, <1>3 DEF LInv

\* A step of one request that puts nothing into Redis.
LEMMA NothingListed ==
  ASSUME VInv, VInv', NEW r \in Requests, NEW q \in Run, run' = [run EXCEPT ![r] = q],
         q.pc # "save" \/ q.link \notin everMade,
         q.left \subseteq run[r].left \cup index,
         q.stale \subseteq run[r].stale \cup (run[r].left \ keys'),
         everMade \subseteq everMade', index' \subseteq index, keys' \subseteq keys,
         givenBack \subseteq givenBack', InvitesAssumption
  PROVE  ListsPass
<1>1. \A x \in Requests : run'[x] = IF x = r THEN q ELSE run[x]
  BY DEF VInv, TypeOK
<1>2. ASSUME NEW t \in Tokens, Known(t) PROVE Known(t)'
  <2>1. t \in everMade /\ \A x \in Requests : run[x].pc = "save" => run[x].link # t
    BY <1>2, KnownToken
  <2>2. \A x \in Requests : run'[x].pc \in {"count", "insert"} => run'[x].link # t
    BY DEF InvitesAssumption, VInv, RequestsSound, RequestOK
  <2>3. \A x \in Requests : run'[x].pc = "save" => run'[x].link # t
    BY <1>1, <2>1
  <2> QED
    BY <2>1, <2>2, <2>3 DEF Known, Creating
<1> QED
  BY <1>1, <1>2 DEF ListsPass

LEMMA NothingKnown == ASSUME InvitesAssumption, Init PROVE LInv
<1>1. \A r \in Requests : run[r].left = {} /\ run[r].stale = {}
  BY DEF Init, Idle
<1>2. index = {}
  BY DEF Init
<1> QED
  BY <1>1, <1>2 DEF LInv, ListOK

\* save puts a token into the index that only its maker knew, restore one that a
\* redeem has held.
LEMMA SavePasses ==
  ASSUME InvitesAssumption, VInv, VInv', NEW r \in Requests, InHand(run[r]),
         Save(run[r].link), Ends(r), everMade' = everMade,
         givenBack \subseteq givenBack', run[r].pc = "save" \/ run[r].link \in givenBack'
  PROVE  ListsPass
<1>0. run[r].link \in Tokens /\ run[r].link \in everMade
  BY TokenInHand
<1>1. PICK t \in Tokens : t = run[r].link /\ t \in everMade
  BY <1>0
<1>2. \A x \in Requests : run'[x] = IF x = r THEN Idle ELSE run[x]
  BY DEF VInv, TypeOK, Ends
<1>3. Idle.pc = "idle" /\ Idle.left = {} /\ Idle.stale = {}
  BY DEF Idle
<1>4. ASSUME NEW u \in Tokens, Known(u) PROVE Known(u)'
  BY <1>2, <1>3, <1>4 DEF Known, Creating
<1>5. Known(t)'
  <2>1. \A x \in Requests \ {r} : run[x].pc = "save" => run[x].link # t
    BY <1>1 DEF VInv, OnePlace, InHand
  <2>2. \A x \in Requests : run[x].pc \in {"count", "insert"} => run[x].link # t
    BY <1>1 DEF InvitesAssumption, VInv, RequestsSound, RequestOK
  <2> QED
    BY <1>1, <1>2, <1>3, <2>1, <2>2 DEF Known, Creating
<1>6. run[r].pc = "save" => ~Known(t)
  BY <1>1 DEF Known, Creating
<1>7. keys' = keys \cup {t} /\ index' = index \cup {t}
  BY <1>1 DEF Save
<1> QED
  BY <1>1, <1>2, <1>3, <1>4, <1>5, <1>6, <1>7 DEF ListsPass

LEMMA StepPassesLists ==
  ASSUME InvitesAssumption, VInv, VInv', [Next]_vars
  PROVE  ListsPass
<1> USE DEF rows, redis, history
<1>0. index \in SUBSET Tokens /\ \A r \in Requests : run[r] \in Run
  BY DEF VInv, TypeOK
<1>1. Idle \in Run /\ Idle.pc # "save" /\ Idle.left = {} /\ Idle.stale = {}
  BY IdleIsSound DEF Idle
<1>2. ASSUME NEW r \in Requests, Ends(r), everMade' = everMade, index' \subseteq index,
             keys' \subseteq keys, givenBack' = givenBack
      PROVE  ListsPass
  BY <1>1, <1>2, NothingListed DEF Ends
<1>3. ASSUME NEW r \in Requests, NEW q, q \in Run, Starts(r, q),
             q.pc # "save" \/ q.link \notin everMade, q.left = {}, q.stale = {},
             everMade \subseteq everMade', UNCHANGED <<redis, givenBack>>
      PROVE  ListsPass
  BY <1>3, NothingListed DEF Starts
<1>4. ASSUME NEW r \in Requests,
             NEW pc \in {"insert", "find", "add", "restore", "unlist"}, Goes(r, pc),
             everMade' = everMade, index' \subseteq index, keys' \subseteq keys,
             givenBack' = givenBack
      PROVE  ListsPass
  <2>1. PICK q : q = [run[r] EXCEPT !.pc = pc]
    OBVIOUS
  <2>2. q \in Run /\ q.pc = pc /\ q.left = run[r].left /\ q.stale = run[r].stale
    BY <2>1, OnlyMoves
  <2>3. run' = [run EXCEPT ![r] = q]
    BY <1>4, <2>1 DEF Goes
  <2> QED
    BY <1>4, <2>2, <2>3, NothingListed
<1>5. ASSUME NEW r \in Requests, NEW x \in Tokens \cup Links,
             CreateAsked(r, TRUE, x) \/ CreateAsked(r, FALSE, x)
      PROVE  ListsPass
  <2>1. PICK pc \in {"save", "count"} : Starts(r, [Idle EXCEPT !.pc = pc, !.link = x])
    BY <1>5 DEF CreateAsked
  <2>2. PICK q : q = [Idle EXCEPT !.pc = pc, !.link = x]
    OBVIOUS
  <2>3. q \in Run /\ q.link = x /\ q.left = {} /\ q.stale = {}
    BY <2>2 DEF Idle, Run
  <2>4. x \notin everMade /\ everMade \subseteq everMade' /\ UNCHANGED <<redis, givenBack>>
    BY <1>5 DEF CreateAsked
  <2> QED
    BY <1>3, <2>1, <2>2, <2>3, <2>4
<1>6. ASSUME NEW r \in Requests, NEW x \in Tokens \cup Links, NEW u \in Users,
             RedeemAsked(r, u, x)
      PROVE  ListsPass
  <2>1. PICK q : q = [Idle EXCEPT !.pc = "ttl", !.user = u, !.link = x]
    OBVIOUS
  <2>2. q \in Run /\ q.pc # "save" /\ q.left = {} /\ q.stale = {}
    BY <2>1 DEF Idle, Run
  <2>3. Starts(r, q) /\ UNCHANGED <<redis, history>>
    BY <1>6, <2>1 DEF RedeemAsked
  <2> QED
    BY <1>3, <2>2, <2>3
<1>7. ASSUME NEW r \in Requests, NEW x \in Tokens \cup Links, RevokeAsked(r, x)
      PROVE  ListsPass
  <2>1. PICK q : q = [Idle EXCEPT !.pc = "revoke", !.link = x]
    OBVIOUS
  <2>2. q \in Run /\ q.pc # "save" /\ q.left = {} /\ q.stale = {}
    BY <2>1 DEF Idle, Run
  <2>3. Starts(r, q) /\ UNCHANGED <<redis, history>>
    BY <1>7, <2>1 DEF RevokeAsked
  <2> QED
    BY <1>3, <2>2, <2>3
<1>8. ASSUME NEW r \in Requests, ListAsked(r) PROVE ListsPass
  <2>1. PICK q : q = [Idle EXCEPT !.pc = "smembers"]
    OBVIOUS
  <2>2. q \in Run /\ q.pc # "save" /\ q.left = {} /\ q.stale = {}
    BY <2>1 DEF Idle, Run
  <2>3. Starts(r, q) /\ UNCHANGED <<redis, history>>
    BY <1>8, <2>1 DEF ListAsked
  <2> QED
    BY <1>3, <2>2, <2>3
<1>9. ASSUME NEW r \in Requests, ListReadsIndex(r) PROVE ListsPass
  <2>1. UNCHANGED <<redis, history>>
    BY <1>9 DEF ListReadsIndex
  <2>2. CASE index = {}
    BY <1>2, <1>9, <2>1, <2>2 DEF ListReadsIndex
  <2>3. CASE index # {}
    <3>1. PICK q : q = [run[r] EXCEPT !.pc = "get", !.left = index]
      OBVIOUS
    <3>2. q \in Run /\ q.pc = "get" /\ q.left = index /\ q.stale = run[r].stale
      BY <1>0, <3>1 DEF Run
    <3>3. run' = [run EXCEPT ![r] = q]
      BY <1>9, <2>3, <3>1 DEF ListReadsIndex
    <3> QED
      BY <2>1, <3>2, <3>3, NothingListed
  <2> QED
    BY <2>2, <2>3
<1>10. ASSUME NEW r \in Requests, NEW t \in Tokens, ListReadsToken(r, t) PROVE ListsPass
  <2>1. PICK q : q = [run[r] EXCEPT !.left = @ \ {t},
                          !.stale = IF t \in keys THEN @ ELSE @ \cup {t},
                          !.pc = IF run[r].left = {t} THEN "srem" ELSE "get"]
    OBVIOUS
  <2>2. run[r] \in Run /\ t \in run[r].left /\ UNCHANGED <<redis, history>>
    BY <1>10 DEF ListReadsToken, VInv, TypeOK
  <2>3. /\ q \in Run /\ q.pc \in {"get", "srem"} /\ q.left = run[r].left \ {t}
        /\ q.stale = IF t \in keys THEN run[r].stale ELSE run[r].stale \cup {t}
    BY <2>1, <2>2 DEF Run
  <2>4. run' = [run EXCEPT ![r] = q]
    BY <1>10, <2>1 DEF ListReadsToken, VInv, TypeOK
  <2> QED
    BY <2>2, <2>3, <2>4, NothingListed
<1>11. ASSUME NEW r \in Requests, ConsumeReadsTtl(r) PROVE ListsPass
  <2>1. PICK q : q = [run[r] EXCEPT !.pc = "getdel", !.lives = run[r].link \in keys]
    OBVIOUS
  <2>2. q \in Run /\ q.pc = "getdel" /\ q.left = run[r].left /\ q.stale = run[r].stale
    <3>1. (run[r].link \in keys) \in BOOLEAN
      OBVIOUS
    <3> QED
      BY <1>0, <2>1, <3>1 DEF Run
  <2>3. run' = [run EXCEPT ![r] = q] /\ UNCHANGED <<redis, everMade, givenBack>>
    BY <1>11, <2>1 DEF ConsumeReadsTtl
  <2> QED
    BY <2>2, <2>3, NothingListed
<1>12. ASSUME NEW r \in Requests, run' = [run EXCEPT ![r].pc = "add", ![r].taken = TRUE],
              everMade' = everMade, index' \subseteq index, keys' \subseteq keys,
              givenBack' = givenBack
       PROVE  ListsPass
  <2>1. PICK q : q = [run[r] EXCEPT !.pc = "add", !.taken = TRUE]
    OBVIOUS
  <2>2. q \in Run /\ q.pc = "add" /\ q.left = run[r].left /\ q.stale = run[r].stale
    BY <1>0, <2>1 DEF Run
  <2>3. run' = [run EXCEPT ![r] = q]
    BY <1>12, <2>1
  <2> QED
    BY <1>12, <2>2, <2>3, NothingListed
<1>13. ASSUME NEW r \in Requests, Saves(r) \/ Restores(r) PROVE ListsPass
  <2>1. CASE Saves(r)
    BY <1>13, <2>1, SavePasses DEF Saves, At, InHand
  <2>2. CASE Restores(r) /\ run[r].lives
    <3>1. InHand(run[r]) /\ run[r].link \in Tokens
      <4>1. InHand(run[r])
        BY <2>2 DEF Restores, At, VInv, RequestsSound, RequestOK, InHand, Holding
      <4> QED
        BY <4>1, TokenInHand
    <3> QED
      BY <2>2, <3>1, SavePasses DEF Restores
  <2>3. CASE Restores(r) /\ ~run[r].lives
    BY <1>2, <2>3 DEF Restores
  <2> QED
    BY <1>13, <2>1, <2>2, <2>3
<1>14. ASSUME NEW r \in Requests,
              InsertsLink(r) \/ Revokes(r) \/ ListDropsStale(r) \/ Dies(r)
       PROVE  ListsPass
  BY <1>2, <1>14 DEF InsertsLink, Revokes, ListDropsStale, Dies
<1>15. ASSUME NEW r \in Requests,
              \/ CountsLinks(r) \/ ConsumeTakes(r) \/ FindsLink(r)
              \/ AddsMember(r) \/ DatabaseFails(r)
       PROVE  ListsPass
  <2>1. everMade' = everMade /\ index' = index /\ keys' \subseteq keys
        /\ givenBack' = givenBack
    BY <1>15 DEF CountsLinks, ConsumeTakes, FindsLink, AddsMember, DatabaseFails
  <2>2. Ends(r) \/ \E pc \in {"insert", "find", "add", "restore", "unlist"} : Goes(r, pc)
    BY <1>15 DEF CountsLinks, ConsumeTakes, FindsLink, AddsMember, DatabaseFails, AddFails
  <2> QED
    BY <1>2, <1>4, <2>1, <2>2
<1>16. ASSUME NEW r \in Requests, RedisFails(r) \/ ConsumeUnlists(r) PROVE ListsPass
  <2>1. everMade' = everMade /\ index' \subseteq index /\ keys' \subseteq keys
        /\ givenBack' = givenBack
    BY <1>16 DEF RedisFails, ConsumeUnlists
  <2>2. \/ Ends(r) \/ Goes(r, "find")
        \/ run' = [run EXCEPT ![r].pc = "add", ![r].taken = TRUE]
    BY <1>16 DEF RedisFails, ConsumeUnlists
  <2> QED
    BY <1>2, <1>4, <1>12, <2>1, <2>2
<1>17. ASSUME \/ MembersChange \/ UNCHANGED vars \/ \E t \in Tokens : Expires(t)
       PROVE  ListsPass
  <2>1. UNCHANGED <<run, everMade, index, givenBack>> /\ keys' \subseteq keys
    BY <1>17 DEF MembersChange, vars, Expires
  <2>2. \A t : Known(t) => Known(t)'
    BY <2>1 DEF Known, Creating
  <2> QED
    BY <2>1, <2>2 DEF ListsPass
<1> QED
  BY <1>5, <1>6, <1>7, <1>8, <1>9, <1>10, <1>11, <1>13, <1>14, <1>15, <1>16, <1>17
   DEF Next

LEMMA ListsStay == ASSUME InvitesAssumption, VInv, LInv, [Next]_vars PROVE LInv'
BY StepKeeps, StepPassesLists, PassKeepsLists

-----------------------------------------------------------------------------
(* The theorem                                                              *)

\* However the redeems and lists of workspace-invite-redeem.service.ts and
\* temporary-invite.store.ts overlap, expire, fail and die: a temporary link
\* makes one member, is not lost to a refused redeem, and stays in the list, but for
\* one that a redeem gave back while a list took it for stale.
THEOREM TemporaryInvitesHold ==
  ASSUME InvitesAssumption
  PROVE  Spec => [](TypeOK /\ OneTimeAdmitsOne /\ NoInviteVanishes
                      /\ WorkingInviteIsListed)
<1>1. Init => VInv /\ LInv
  BY InitHolds, NothingKnown
<1>2. VInv /\ LInv /\ [Next]_vars => VInv' /\ LInv'
  BY StepKeeps, ListsStay
<1>3. VInv => TypeOK /\ OneTimeAdmitsOne /\ NoInviteVanishes /\ WorkingInviteIsListed
  BY DEF VInv
<1> QED
  BY <1>1, <1>2, <1>3, PTL DEF Spec

-----------------------------------------------------------------------------
(* The limit of permanent links                                               *)

Inserting == {r \in Requests : At(r, "insert")}

\* What one step does to the links and to those who have counted them.
LimitPass ==
  \/ links' \subseteq links /\ Inserting' \subseteq Inserting
  \/ /\ \E x : links' \subseteq links \cup {x}
     /\ \E r \in Inserting : Inserting' \subseteq Inserting \ {r}
  \/ links' = links /\ BelowLimit

LEMMA StepPasses == ASSUME TypeOK, [Next]_vars PROVE LimitPass
<1> USE DEF rows, redis, history
<1>1. ASSUME NEW r \in Requests, NEW q, run' = [run EXCEPT ![r] = q], q.pc # "insert"
      PROVE  Inserting' \subseteq Inserting \ {r}
  BY <1>1 DEF TypeOK, Inserting, At
<1>2. Idle.pc # "insert"
  BY DEF Idle
<1>3. ASSUME NEW r \in Requests, NEW q, Starts(r, q), q.pc # "insert", links' = links
      PROVE  LimitPass
  BY <1>1, <1>3 DEF Starts, LimitPass
<1>4. ASSUME NEW r \in Requests, Ends(r), links' \subseteq links PROVE LimitPass
  BY <1>1, <1>2, <1>4 DEF Ends, LimitPass
<1>5. ASSUME NEW r \in Requests, NEW pc, Goes(r, pc), pc # "insert", links' = links
      PROVE  LimitPass
  <2>1. PICK q : q = [run[r] EXCEPT !.pc = pc]
    OBVIOUS
  <2>2. run[r] \in Run
    BY DEF TypeOK
  <2>3. q.pc # "insert" /\ run' = [run EXCEPT ![r] = q]
    BY <1>5, <2>1, <2>2 DEF Goes, Run
  <2> QED
    BY <1>1, <1>5, <2>3 DEF LimitPass
<1>6. ASSUME NEW r \in Requests, CountsLinks(r) PROVE LimitPass
  <2>1. CASE BelowLimit
    BY <1>6, <2>1 DEF CountsLinks, LimitPass
  <2>2. CASE ~BelowLimit
    BY <1>4, <1>6, <2>2 DEF CountsLinks
  <2> QED
    BY <2>1, <2>2
<1>7. ASSUME NEW r \in Requests, InsertsLink(r) PROVE LimitPass
  <2>1. r \in Inserting /\ Inserting' \subseteq Inserting \ {r}
    BY <1>1, <1>2, <1>7 DEF InsertsLink, Ends, Inserting
  <2>2. links' \subseteq links \cup {run[r].link}
    BY <1>7 DEF InsertsLink
  <2> QED
    BY <2>1, <2>2 DEF LimitPass
<1>8. ASSUME NEW r \in Requests, NEW x, CreateAsked(r, TRUE, x) \/ CreateAsked(r, FALSE, x)
      PROVE  LimitPass
  <2>1. PICK pc \in {"save", "count"} : Starts(r, [Idle EXCEPT !.pc = pc, !.link = x])
    BY <1>8 DEF CreateAsked
  <2>2. links' = links
    BY <1>8 DEF CreateAsked
  <2>3. [Idle EXCEPT !.pc = pc, !.link = x].pc # "insert"
    BY DEF Idle
  <2> QED
    BY <1>3, <2>1, <2>2, <2>3
<1>9. ASSUME NEW r \in Requests, NEW x, NEW u,
             RevokeAsked(r, x) \/ RedeemAsked(r, u, x) \/ ListAsked(r)
      PROVE  LimitPass
  <2>1. links' = links \/ ListAsked(r)
    BY <1>9 DEF RevokeAsked, RedeemAsked
  <2>2. CASE RevokeAsked(r, x)
    <3>1. [Idle EXCEPT !.pc = "revoke", !.link = x].pc # "insert"
      BY DEF Idle
    <3> QED
      BY <1>3, <2>2, <3>1 DEF RevokeAsked
  <2>3. CASE RedeemAsked(r, u, x)
    <3>1. [Idle EXCEPT !.pc = "ttl", !.user = u, !.link = x].pc # "insert"
      BY DEF Idle
    <3> QED
      BY <1>3, <2>3, <3>1 DEF RedeemAsked
  <2>4. CASE ListAsked(r)
    <3>1. [Idle EXCEPT !.pc = "smembers"].pc # "insert"
      BY DEF Idle
    <3> QED
      BY <1>3, <2>4, <3>1 DEF ListAsked
  <2> QED
    BY <1>9, <2>2, <2>3, <2>4
<1>10. ASSUME NEW r \in Requests,
              \/ ListReadsIndex(r) \/ ConsumeReadsTtl(r) \/ ConsumeUnlists(r)
              \/ \E t \in Tokens : ListReadsToken(r, t)
       PROVE  LimitPass
  <2>1. PICK q : run' = [run EXCEPT ![r] = q] /\ q.pc # "insert"
    <3>0. run[r] \in Run
      BY DEF TypeOK
    <3>1. CASE ListReadsIndex(r)
      <4>1. CASE index = {}
        BY <1>2, <3>1, <4>1 DEF ListReadsIndex, Ends
      <4>2. CASE index # {}
        <5>1. PICK q : q = [run[r] EXCEPT !.pc = "get", !.left = index]
          OBVIOUS
        <5>2. q.pc # "insert" /\ run' = [run EXCEPT ![r] = q]
          BY <3>0, <3>1, <4>2, <5>1 DEF ListReadsIndex, Run
        <5> QED
          BY <5>2
      <4> QED
        BY <4>1, <4>2
    <3>2. CASE ConsumeReadsTtl(r)
      <4>1. PICK q : q = [run[r] EXCEPT !.pc = "getdel", !.lives = run[r].link \in keys]
        OBVIOUS
      <4>2. q.pc # "insert" /\ run' = [run EXCEPT ![r] = q]
        BY <3>0, <3>2, <4>1 DEF ConsumeReadsTtl, Run
      <4> QED
        BY <4>2
    <3>3. CASE ConsumeUnlists(r)
      <4>1. PICK q : q = [run[r] EXCEPT !.pc = "add", !.taken = TRUE]
        OBVIOUS
      <4>2. q.pc # "insert" /\ run' = [run EXCEPT ![r] = q]
        BY <3>0, <3>3, <4>1 DEF ConsumeUnlists, Run
      <4> QED
        BY <4>2
    <3>4. ASSUME NEW t \in Tokens, ListReadsToken(r, t)
          PROVE  \E q : run' = [run EXCEPT ![r] = q] /\ q.pc # "insert"
      <4>1. PICK q : q = [run[r] EXCEPT !.left = @ \ {t},
                              !.stale = IF t \in keys THEN @ ELSE @ \cup {t},
                              !.pc = IF run[r].left = {t} THEN "srem" ELSE "get"]
        OBVIOUS
      <4>2. q.pc # "insert"
        BY <3>0, <4>1 DEF Run
      <4>3. run' = [run EXCEPT ![r] = q]
        BY <3>4, <4>1 DEF ListReadsToken
      <4> QED
        BY <4>2, <4>3
    <3> QED
      BY <1>10, <3>1, <3>2, <3>3, <3>4
  <2>2. links' = links
    BY <1>10 DEF ListReadsIndex, ConsumeReadsTtl, ConsumeUnlists, ListReadsToken
  <2> QED
    BY <1>1, <2>1, <2>2 DEF LimitPass
<1>11. ASSUME NEW r \in Requests,
              Saves(r) \/ Revokes(r) \/ ListDropsStale(r) \/ Restores(r) \/ Dies(r)
       PROVE  LimitPass
  <2>1. Ends(r) /\ links' \subseteq links
    BY <1>11 DEF Saves, Revokes, ListDropsStale, Restores, Dies
  <2> QED
    BY <1>4, <2>1
<1>12. ASSUME NEW r \in Requests, ConsumeTakes(r) \/ FindsLink(r) PROVE LimitPass
  <2>1. links' = links
    BY <1>12 DEF ConsumeTakes, FindsLink
  <2>2. Ends(r) \/ \E pc \in {"unlist", "find", "add"} : Goes(r, pc)
    BY <1>12 DEF ConsumeTakes, FindsLink
  <2> QED
    BY <1>4, <1>5, <2>1, <2>2
<1>13. ASSUME NEW r \in Requests, AddsMember(r) \/ DatabaseFails(r) PROVE LimitPass
  <2>1. links' = links
    BY <1>13 DEF AddsMember, DatabaseFails
  <2>2. Ends(r) \/ Goes(r, "restore")
    BY <1>13 DEF AddsMember, DatabaseFails, AddFails
  <2> QED
    BY <1>4, <1>5, <2>1, <2>2
<1>14. ASSUME NEW r \in Requests, RedisFails(r) PROVE LimitPass
  <2>1. links' = links
    BY <1>14 DEF RedisFails
  <2>2. \/ Ends(r) \/ Goes(r, "find")
        \/ run' = [run EXCEPT ![r].pc = "add", ![r].taken = TRUE]
    BY <1>14 DEF RedisFails
  <2>3. CASE run' = [run EXCEPT ![r].pc = "add", ![r].taken = TRUE]
    <3>1. PICK q : q = [run[r] EXCEPT !.pc = "add", !.taken = TRUE]
      OBVIOUS
    <3>2. run[r] \in Run
      BY DEF TypeOK
    <3>3. q.pc # "insert" /\ run' = [run EXCEPT ![r] = q]
      BY <2>3, <3>1, <3>2 DEF Run
    <3> QED
      BY <1>1, <2>1, <3>3 DEF LimitPass
  <2> QED
    BY <1>4, <1>5, <2>1, <2>2, <2>3
<1>15. ASSUME \/ MembersChange \/ UNCHANGED vars \/ \E t \in Tokens : Expires(t)
       PROVE  LimitPass
  <2>1. run' = run /\ links' \subseteq links
    BY <1>15 DEF MembersChange, Expires, vars
  <2> QED
    BY <2>1 DEF LimitPass, Inserting, At
<1> QED
  BY <1>6, <1>7, <1>8, <1>9, <1>10, <1>11, <1>12, <1>13, <1>14, <1>15 DEF Next

LEMMA LimitStays ==
  ASSUME InvitesAssumption, TypeOK, TypeOK', LimitPass, LinkLimitHoldsButForOverlap
  PROVE  LinkLimitHoldsButForOverlap'
<1> DEFINE n == Cardinality(links)    i == Cardinality(Inserting)
           n2 == Cardinality(links')  i2 == Cardinality(Inserting')
           most == MaxLinks + Cardinality(Requests) - 1
<1>1. /\ IsFiniteSet(links) /\ n \in Nat /\ IsFiniteSet(links') /\ n2 \in Nat
      /\ IsFiniteSet(Inserting) /\ i \in Nat /\ IsFiniteSet(Inserting') /\ i2 \in Nat
      /\ i2 <= Cardinality(Requests) /\ Cardinality(Requests) \in Nat
  <2>1. links \subseteq Links /\ links' \subseteq Links
    BY DEF TypeOK
  <2>2. Inserting \subseteq Requests /\ Inserting' \subseteq Requests
    BY DEF Inserting
  <2> QED
    BY <2>1, <2>2, FS_Subset, FS_CardinalityType DEF InvitesAssumption
<1>2. links # {} \/ Inserting # {} => n + i <= most
  BY DEF LinkLimitHoldsButForOverlap, Inserting
<1>3. SUFFICES ASSUME links' # {} \/ Inserting' # {} PROVE n2 + i2 <= most
  BY DEF LinkLimitHoldsButForOverlap, Inserting
<1>4. CASE links' \subseteq links /\ Inserting' \subseteq Inserting
  <2>1. n2 <= n /\ i2 <= i
    BY <1>1, <1>4, FS_Subset
  <2>2. n + i <= most
    BY <1>2, <1>3, <1>4
  <2> HIDE DEF n, i, n2, i2
  <2> QED
    BY <1>1, <2>1, <2>2 DEF InvitesAssumption
<1>5. CASE /\ \E x : links' \subseteq links \cup {x}
           /\ \E r \in Inserting : Inserting' \subseteq Inserting \ {r}
  <2>1. PICK x : links' \subseteq links \cup {x}
    BY <1>5
  <2>2. PICK r \in Inserting : Inserting' \subseteq Inserting \ {r}
    BY <1>5
  <2>3. n2 <= n + 1
    <3>1. /\ IsFiniteSet(links \cup {x})
          /\ Cardinality(links \cup {x}) \in {n, n + 1}
      BY <1>1, FS_AddElement
    <3>2. n2 <= Cardinality(links \cup {x})
      BY <2>1, <3>1, FS_Subset
    <3> QED
      BY <1>1, <3>1, <3>2
  <2>4. i2 + 1 <= i
    <3>1. /\ IsFiniteSet(Inserting \ {r}) /\ Cardinality(Inserting \ {r}) = i - 1
      BY <1>1, FS_RemoveElement
    <3>2. i2 <= Cardinality(Inserting \ {r})
      BY <2>2, <3>1, FS_Subset
    <3> QED
      BY <1>1, <3>1, <3>2
  <2>5. n + i <= most
    BY <1>2, <2>2
  <2> HIDE DEF n, i, n2, i2
  <2> QED
    BY <1>1, <2>3, <2>4, <2>5 DEF InvitesAssumption
<1>6. CASE links' = links /\ BelowLimit
  <2>1. n2 < MaxLinks
    BY <1>6 DEF BelowLimit
  <2> HIDE DEF n2, i2
  <2> QED
    BY <1>1, <2>1 DEF InvitesAssumption
<1> QED
  BY <1>4, <1>5, <1>6 DEF LimitPass

\* assertInviteLimitNotReached counts before the insert: a workspace has more permanent
\* links than the limit only by creates that run at the same time, one for each.
THEOREM LinkLimitHolds ==
  ASSUME InvitesAssumption
  PROVE  Spec => []LinkLimitHoldsButForOverlap
<1>1. Init => TypeOK /\ LinkLimitHoldsButForOverlap
  <2>1. Init => LinkLimitHoldsButForOverlap
    BY DEF Init, LinkLimitHoldsButForOverlap, At, Idle
  <2> QED
    BY <2>1, InitHolds DEF VInv
<1>2. TypeOK /\ TypeOK' /\ LinkLimitHoldsButForOverlap /\ [Next]_vars
        => LinkLimitHoldsButForOverlap'
  BY StepPasses, LimitStays
<1>3. Spec => []TypeOK
  BY TemporaryInvitesHold, PTL
<1> QED
  BY <1>1, <1>2, <1>3, PTL DEF Spec
=============================================================================
