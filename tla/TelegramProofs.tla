--------------------------- MODULE TelegramProofs ---------------------------
(* The link of a user and a chat, for every value of Telegram's constants.  *)
EXTENDS Telegram, TLAPS

-----------------------------------------------------------------------------
(* The inductive invariant                                                  *)

RunType == [pc : {"idle", "delete", "insert", "claim"} \cup InTransaction,
            user : Users \cup {None}, code : Codes \cup {None},
            chat : Chats \cup {None},
            found : SUBSET Users, cleared : SUBSET Users, overtaken : BOOLEAN]
CodeType == [user : Users, state : {"open", "expired", "used", "deleted"}]

\* What a request names, and when.
NamesItsRows(q) ==
  /\ q.pc \in {"delete", "insert"} \cup InTransaction => q.user \in Users
  /\ q.pc \in {"claim"} \cup InTransaction => q.code \in Codes /\ q.chat \in Chats

\* Between its last update and its commit nobody but those a transaction clears
\* has the chat it gives away: the index saw to it, and nobody else may give the
\* same chat meanwhile.
HasTheIndex(q) ==
  q.pc = "commit" => \A u \in Users \ (q.cleared \cup {q.user}) : chat[u] # q.chat

\* A code is never taken out of the table, and nobody else writes to one that a
\* transaction has claimed.
KnowsItsCode(q) ==
  /\ q.pc \in {"claim"} \cup InTransaction => codes[q.code] # NoCode
  /\ q.pc \in InTransaction => codes[q.code].state = "open"

\* A transaction has found, and then cleared, whoever has its chat, unless another
\* one has linked that chat since.
KnowsTheOwner(q) ==
  /\ q.pc = "wait" =>
       \A u \in Users : chat[u] = q.chat => u \in q.found \/ q.overtaken
  /\ q.pc = "set" =>
       \A u \in Users : chat[u] = q.chat => u \in q.cleared \/ q.overtaken

RunIsSound(q) ==
  NamesItsRows(q) /\ KnowsItsCode(q) /\ HasTheIndex(q) /\ KnowsTheOwner(q)
RunsAreSound == \A r \in Requests : RunIsSound(run[r])

OneGivesAChat ==
  \A q, r \in Requests :
    q # r /\ At(q, "commit") /\ At(r, "commit") => run[q].chat # run[r].chat

OneClaimsACode ==
  \A q, r \in Requests :
    q # r /\ run[q].pc \in InTransaction /\ run[r].pc \in InTransaction
      => run[q].code # run[r].code

TInv == TypeOK /\ RunsAreSound /\ OneGivesAChat /\ OneClaimsACode /\ ChatHasOneUser
          /\ CodeLinksOnce

-----------------------------------------------------------------------------
(* Steps                                                                    *)

LEMMA IdleIsARun ==
  Idle \in RunType /\ RunIsSound(Idle) /\ Idle.pc = "idle"
BY DEF Idle, RunType, RunIsSound, NamesItsRows, KnowsItsCode, HasTheIndex, KnowsTheOwner,
       InTransaction

\* What TInv says of one request.
LEMMA RunOf ==
  ASSUME TInv, NEW r \in Requests
  PROVE  run[r] \in RunType /\ RunIsSound(run[r])
BY DEF TInv, TypeOK, RunType, RunsAreSound

LEMMA InitHolds == ASSUME TelegramAssumption, Init PROVE TInv
<1>1. TypeOK
  <2>1. run \in [Requests -> RunType]
    BY IdleIsARun DEF Init
  <2>2. codes \in [Codes -> CodeType \cup {NoCode}]
    BY DEF Init
  <2> QED
    BY <2>1, <2>2 DEF Init, TypeOK, RunType, CodeType, TelegramAssumption
<1>2. RunsAreSound /\ OneGivesAChat /\ OneClaimsACode
  BY IdleIsARun DEF Init, RunsAreSound, OneGivesAChat, OneClaimsACode, At, InTransaction
<1>3. ChatHasOneUser /\ CodeLinksOnce
  BY DEF Init, ChatHasOneUser, CodeLinksOnce, NoCode
<1> QED
  BY <1>1, <1>2, <1>3 DEF TInv

\* What a step of r may do to the codes: nothing to one that another transaction
\* has claimed, nothing at all while r has claimed one, and no code becomes used.
LeavesCodes(r, q) ==
  /\ codes' \in [Codes -> CodeType \cup {NoCode}]
  /\ \A c \in Codes :
       /\ (codes'[c].state = "used") <=> (codes[c].state = "used")
       /\ codes[c] # NoCode => codes'[c] # NoCode
       /\ \A s \in Others(r) : HoldsCode(s, c) => codes'[c] = codes[c]
  /\ q.pc \in InTransaction =>
       codes' = codes /\ \A s \in Others(r) : ~HoldsCode(s, q.code)

\* A request comes, goes on or ends; nobody's chat changes.
LEMMA RunStep ==
  ASSUME TInv, NEW r \in Requests, NEW q \in RunType,
         run' = [run EXCEPT ![r] = q], RunIsSound(q), LeavesCodes(r, q),
         q.pc = "claim" => codes' = codes,
         q.pc = "commit" => \A s \in Requests \ {r} : At(s, "commit") => run[s].chat # q.chat,
         UNCHANGED <<chat, redeemed>>,
         started' \in 0..MaxStarted, failures' \in 0..MaxFailures,
         doubled' \in SUBSET Users
  PROVE  TInv'
<1>1. \A s \in Requests : run'[s] = IF s = r THEN q ELSE run[s]
  BY DEF TInv, TypeOK
<1>2. TypeOK'
  BY DEF TInv, TypeOK, RunType, CodeType, LeavesCodes
<1>3. RunsAreSound'
  <2> SUFFICES ASSUME NEW s \in Requests PROVE RunIsSound(run[s])'
    BY DEF RunsAreSound
  <2>1. RunIsSound(run'[s])
    BY <1>1, RunOf
  <2>2. run'[s].pc \in {"claim"} \cup InTransaction => run'[s].code \in Codes
    BY <2>1 DEF RunIsSound, NamesItsRows
  <2>3. run'[s].pc \in InTransaction => codes'[run'[s].code] = codes[run'[s].code]
    BY <1>1, <2>2 DEF LeavesCodes, HoldsCode, Others
  <2>4. run'[s].pc = "claim" => codes'[run'[s].code] # NoCode
    BY <2>1, <2>2 DEF LeavesCodes, RunIsSound, KnowsItsCode
  <2> QED
    BY <2>1, <2>3, <2>4
       DEF RunIsSound, NamesItsRows, KnowsItsCode, HasTheIndex, KnowsTheOwner
<1>4. OneGivesAChat'
  BY <1>1 DEF TInv, OneGivesAChat, At
<1>5. OneClaimsACode'
  BY <1>1 DEF TInv, OneClaimsACode, LeavesCodes, HoldsCode, Others
<1>6. CodeLinksOnce'
  BY DEF TInv, CodeLinksOnce, LeavesCodes
<1> QED
  BY <1>2, <1>3, <1>4, <1>5, <1>6 DEF TInv, ChatHasOneUser

\* The steps that only move a request on.
LEMMA QuietStep ==
  ASSUME TelegramAssumption, TInv, NEW r \in Requests,
         \/ \E u \in Users : CodeAsked(r, u)
         \/ \E c \in Codes, from \in Chats : StartCommand(r, c, from)
         \/ Claims(r) \/ ClearFinds(r) \/ Clears(r)
         \/ Refused(r) \/ DeadlockEnds(r) \/ Fails(r)
  PROVE  TInv'
<1>1. run[r] \in RunType /\ RunIsSound(run[r])
  BY RunOf
<1>2. /\ UNCHANGED <<chat, codes, redeemed>>
      /\ started' \in 0..MaxStarted /\ failures' \in 0..MaxFailures
      /\ doubled' \in SUBSET Users
  <2>1. /\ started \in 0..MaxStarted /\ failures \in 0..MaxFailures
        /\ doubled \in SUBSET Users /\ MaxStarted \in Nat /\ MaxFailures \in Nat
    BY DEF TInv, TypeOK, TelegramAssumption
  <2>2. CASE \/ \E u \in Users : CodeAsked(r, u)
             \/ \E c \in Codes, from \in Chats : StartCommand(r, c, from)
    <3>1. /\ UNCHANGED <<chat, codes, redeemed, failures>>
          /\ started < MaxStarted /\ started' = started + 1
          /\ doubled' = doubled \/ \E u \in Users : doubled' = doubled \cup {u}
      BY <2>2 DEF CodeAsked, StartCommand, Begins
    <3>2. doubled' \in SUBSET Users
      BY <2>1, <3>1
    <3> QED
      BY <2>1, <3>1, <3>2
  <2>3. CASE Claims(r) \/ ClearFinds(r) \/ Clears(r)
    BY <2>1, <2>3 DEF Claims, ClearFinds, Clears
  <2>4. CASE Refused(r) \/ DeadlockEnds(r) \/ Fails(r)
    BY <2>1, <2>4 DEF Refused, DeadlockEnds, Fails, RollsBack
  <2> QED
    BY <2>2, <2>3, <2>4
<1>3. ASSUME NEW q \in RunType, q.pc \in InTransaction =>
                                  \A s \in Others(r) : ~HoldsCode(s, q.code)
      PROVE  LeavesCodes(r, q)
  BY <1>2, <1>3 DEF LeavesCodes, TInv, TypeOK, CodeType
<1>4. ASSUME NEW q \in RunType, run' = [run EXCEPT ![r] = q],
             RunIsSound(q), q.pc # "commit",
             q.pc \in InTransaction => \A s \in Others(r) : ~HoldsCode(s, q.code)
      PROVE  TInv'
  BY <1>2, <1>3, <1>4, RunStep
<1>5. CASE Ends(r)
  BY <1>4, <1>5, IdleIsARun DEF Ends, InTransaction
<1>6. ASSUME NEW u \in Users, CodeAsked(r, u) PROVE TInv'
  <2> DEFINE q == [Idle EXCEPT !.pc = "delete", !.user = u]
  <2>1. q \in RunType /\ RunIsSound(q) /\ q.pc \notin InTransaction
    BY DEF RunType, RunIsSound, KnowsItsCode, NamesItsRows, HasTheIndex, KnowsTheOwner,
           InTransaction, Idle
  <2>2. run' = [run EXCEPT ![r] = q]
    BY <1>6 DEF CodeAsked, Begins
  <2> HIDE DEF q
  <2> QED
    BY <1>4, <2>1, <2>2 DEF InTransaction
<1>7. ASSUME NEW c \in Codes, NEW from \in Chats, StartCommand(r, c, from) PROVE TInv'
  <2> DEFINE q == [Idle EXCEPT !.pc = "claim", !.code = c, !.chat = from]
  <2>1. q \in RunType /\ RunIsSound(q) /\ q.pc \notin InTransaction
    BY <1>7 DEF StartCommand, RunType, RunIsSound, KnowsItsCode, NamesItsRows, HasTheIndex,
                KnowsTheOwner, InTransaction, Idle
  <2>2. run' = [run EXCEPT ![r] = q]
    BY <1>7 DEF StartCommand, Begins
  <2> HIDE DEF q
  <2> QED
    BY <1>4, <2>1, <2>2 DEF InTransaction
<1>8. CASE Claims(r) /\ ~Ends(r)
  <2> DEFINE c == run[r].code
             q == [run[r] EXCEPT !.pc = "clear", !.user = codes[c].user]
  <2>1. c \in Codes /\ run[r].chat \in Chats /\ codes[c].state = "open"
        /\ \A s \in Others(r) : ~HoldsCode(s, c)
    BY <1>1, <1>8 DEF RunIsSound, NamesItsRows, Claims, At
  <2>2. codes[c].user \in Users /\ codes[c] # NoCode
    BY <2>1 DEF TInv, TypeOK, NoCode
  <2>3. q \in RunType /\ q.pc = "clear" /\ q.user = codes[c].user /\ q.code = c
        /\ q.chat = run[r].chat
    BY <1>1, <2>2 DEF RunType, InTransaction
  <2>4. run' = [run EXCEPT ![r] = q]
    BY <1>8 DEF Claims, TInv, TypeOK
  <2> HIDE DEF q
  <2>5. RunIsSound(q)
    BY <2>1, <2>2, <2>3
       DEF RunIsSound, KnowsItsCode, NamesItsRows, HasTheIndex, KnowsTheOwner, InTransaction
  <2> QED
    BY <1>4, <2>1, <2>3, <2>4, <2>5
<1>9. run[r].pc \in InTransaction => \A s \in Others(r) : ~HoldsCode(s, run[r].code)
  BY DEF TInv, OneClaimsACode, Others, HoldsCode
<1>10. CASE ClearFinds(r)
  <2> DEFINE q == [run[r] EXCEPT !.pc = "wait", !.found = {u \in Users : chat[u] = run[r].chat}]
  <2>1. At(r, "clear")
    BY <1>10 DEF ClearFinds
  <2>2. q \in RunType /\ q.pc = "wait" /\ q.user = run[r].user /\ q.code = run[r].code
        /\ q.chat = run[r].chat /\ q.found = {u \in Users : chat[u] = run[r].chat}
    BY <1>1 DEF RunType, InTransaction
  <2>3. run' = [run EXCEPT ![r] = q]
    BY <1>10 DEF ClearFinds, TInv, TypeOK
  <2> HIDE DEF q
  <2>4. RunIsSound(q)
    BY <1>1, <2>1, <2>2
       DEF RunIsSound, KnowsItsCode, NamesItsRows, HasTheIndex, KnowsTheOwner, InTransaction, At
  <2> QED
    BY <1>4, <1>9, <2>1, <2>2, <2>3, <2>4 DEF At, InTransaction
<1>11. CASE Clears(r)
  <2> DEFINE q == [run[r] EXCEPT !.pc = "set",
                                 !.cleared = {u \in run[r].found : chat[u] = run[r].chat}]
  <2>1. At(r, "wait")
    BY <1>11 DEF Clears
  <2>2. q \in RunType /\ q.pc = "set" /\ q.user = run[r].user /\ q.code = run[r].code
        /\ q.chat = run[r].chat /\ q.overtaken = run[r].overtaken
        /\ q.cleared = {u \in run[r].found : chat[u] = run[r].chat}
    BY <1>1 DEF RunType, InTransaction
  <2>3. run' = [run EXCEPT ![r] = q]
    BY <1>11 DEF Clears, TInv, TypeOK
  <2> HIDE DEF q
  <2>4. RunIsSound(q)
    BY <1>1, <2>1, <2>2
       DEF RunIsSound, KnowsItsCode, NamesItsRows, HasTheIndex, KnowsTheOwner, InTransaction, At
  <2> QED
    BY <1>4, <1>9, <2>1, <2>2, <2>3, <2>4 DEF At, InTransaction
<1> QED
  BY <1>5, <1>6, <1>7, <1>8, <1>10, <1>11 DEF Refused, DeadlockEnds, Fails, RollsBack

\* A transaction that gets past the index has the chat to itself: who else has
\* set it is waited for, who else has it is refused.
LEMMA SetsKeeps == ASSUME TInv, NEW r \in Requests, Sets(r) PROVE TInv'
<1> DEFINE q == [run[r] EXCEPT !.pc = "commit"]
<1>1. run[r] \in RunType /\ RunIsSound(run[r]) /\ At(r, "set")
  BY RunOf DEF Sets
<1>2. q \in RunType /\ q.pc = "commit" /\ q.user = run[r].user /\ q.code = run[r].code
      /\ q.chat = run[r].chat /\ q.cleared = run[r].cleared
  BY <1>1 DEF RunType, InTransaction
<1>3. run' = [run EXCEPT ![r] = q]
  BY DEF Sets, Goes
<1> HIDE DEF q
<1>4. HasTheIndex(q)
  BY <1>2 DEF HasTheIndex, Sets, IndexRefuses
<1>5. RunIsSound(q)
  BY <1>1, <1>2, <1>4
     DEF RunIsSound, KnowsItsCode, NamesItsRows, KnowsTheOwner, InTransaction, At
<1>6. \A s \in Requests \ {r} : At(s, "commit") => run[s].chat # q.chat
  BY <1>2 DEF Sets, SetWaitsFor, Others
<1>7. started' \in 0..MaxStarted /\ failures' \in 0..MaxFailures
      /\ doubled' \in SUBSET Users /\ UNCHANGED <<chat, codes, redeemed>>
  BY DEF Sets, TInv, TypeOK
<1>8. \A s \in Others(r) : ~HoldsCode(s, q.code)
  BY <1>1, <1>2 DEF TInv, OneClaimsACode, Others, HoldsCode, At, InTransaction
<1>9. LeavesCodes(r, q)
  BY <1>7, <1>8 DEF LeavesCodes, TInv, TypeOK, CodeType
<1> QED
  BY <1>2, <1>3, <1>5, <1>6, <1>7, <1>9, RunStep

\* The calls that write codes.
LEMMA CodesKeep ==
  ASSUME TInv, NEW r \in Requests,
         DeletesUnused(r) \/ \E c \in Codes : InsertsCode(r, c)
  PROVE  TInv'
<1>1. run[r] \in RunType /\ RunIsSound(run[r]) /\ codes \in [Codes -> CodeType \cup {NoCode}]
  BY RunOf DEF TInv, TypeOK, CodeType
<1>2. run[r].user \in Users
  BY <1>1 DEF DeletesUnused, InsertsCode, At, RunIsSound, NamesItsRows
<1>3. started' \in 0..MaxStarted /\ failures' \in 0..MaxFailures
      /\ doubled' \in SUBSET Users /\ UNCHANGED <<chat, redeemed>>
  BY DEF DeletesUnused, InsertsCode, TInv, TypeOK
<1>4. CASE DeletesUnused(r)
  <2> DEFINE q == [run[r] EXCEPT !.pc = "insert"]
             gone == Deleted(run[r].user)
  <2>1. q \in RunType /\ q.pc = "insert" /\ q.user = run[r].user
    BY <1>1 DEF RunType
  <2>2. run' = [run EXCEPT ![r] = q]
    BY <1>4 DEF DeletesUnused, Goes
  <2>3. \A s \in Others(r), c \in gone : ~HoldsCode(s, c)
    BY <1>4 DEF DeletesUnused
  <2> HIDE DEF q
  <2>4. RunIsSound(q)
    BY <1>2, <2>1 DEF RunIsSound, NamesItsRows, KnowsItsCode, HasTheIndex, KnowsTheOwner,
                      InTransaction
  <2>5. \A c \in gone : codes[c] \in CodeType /\ codes[c].state \in {"open", "expired"}
    BY <1>1, <1>2 DEF Deleted, NoCode
  <2>6. codes' = [c \in Codes |-> IF c \in gone THEN [codes[c] EXCEPT !.state = "deleted"]
                                  ELSE codes[c]]
    BY <1>4 DEF DeletesUnused
  <2>7. \A c \in Codes :
          /\ codes'[c] \in CodeType \cup {NoCode}
          /\ (codes'[c].state = "used") <=> (codes[c].state = "used")
          /\ codes[c] # NoCode => codes'[c] # NoCode
          /\ c \notin gone => codes'[c] = codes[c]
    <3> SUFFICES ASSUME NEW c \in Codes
                 PROVE  /\ codes'[c] \in CodeType \cup {NoCode}
                        /\ (codes'[c].state = "used") <=> (codes[c].state = "used")
                        /\ codes[c] # NoCode => codes'[c] # NoCode
                        /\ c \notin gone => codes'[c] = codes[c]
      OBVIOUS
    <3>1. CASE c \in gone
      BY <2>5, <2>6, <3>1 DEF NoCode, CodeType
    <3>2. CASE c \notin gone
      BY <1>1, <2>6, <3>2
    <3> QED
      BY <3>1, <3>2
  <2>8. codes' \in [Codes -> CodeType \cup {NoCode}]
    BY <2>6, <2>7
  <2> HIDE DEF gone
  <2>9. LeavesCodes(r, q)
    BY <2>1, <2>3, <2>7, <2>8 DEF LeavesCodes, InTransaction
  <2> QED
    BY <1>3, <2>1, <2>2, <2>4, <2>9, RunStep
<1>5. ASSUME NEW c \in Codes, InsertsCode(r, c) PROVE TInv'
  <2>1. codes' = [codes EXCEPT ![c] = [user |-> run[r].user, state |-> "open"]]
        /\ run' = [run EXCEPT ![r] = Idle] /\ codes[c] = NoCode
    BY <1>5 DEF InsertsCode, Ends
  <2>2. codes' \in [Codes -> CodeType \cup {NoCode}]
    BY <1>1, <1>2, <2>1 DEF CodeType
  <2>3. \A s \in Requests : ~HoldsCode(s, c)
    BY <2>1, RunOf DEF HoldsCode, RunIsSound, KnowsItsCode, InTransaction
  <2>4. \A d \in Codes :
          /\ (codes'[d].state = "used") <=> (codes[d].state = "used")
          /\ codes[d] # NoCode => codes'[d] # NoCode
          /\ d # c => codes'[d] = codes[d]
    BY <1>1, <2>1 DEF NoCode
  <2>5. LeavesCodes(r, Idle)
    BY <2>2, <2>3, <2>4, IdleIsARun DEF LeavesCodes, InTransaction, Others
  <2> QED
    BY <1>3, <2>1, <2>5, IdleIsARun, RunStep
<1> QED
  BY <1>4, <1>5

\* The user takes his link back, or a code gets too old.
LEMMA OutsideKeeps ==
  ASSUME TelegramAssumption, TInv,
         (\E u \in Users : Disconnects(u)) \/ (\E c \in Codes : Expires(c))
  PROVE  TInv'
<1>1. ASSUME NEW u \in Users, Disconnects(u) PROVE TInv'
  <2>1. chat' = [chat EXCEPT ![u] = None]
        /\ UNCHANGED <<codes, run, started, failures, redeemed, doubled>>
    BY <1>1 DEF Disconnects
  <2>2. \A v \in Users : chat'[v] = chat[v] \/ chat'[v] = None
    BY <2>1 DEF TInv, TypeOK
  <2>3. TypeOK'
    BY <2>1 DEF TInv, TypeOK
  <2>4. RunsAreSound'
    <3> SUFFICES ASSUME NEW r \in Requests PROVE RunIsSound(run[r])'
      BY DEF RunsAreSound
    <3>1. RunIsSound(run[r])
      BY RunOf
    <3>2. run[r].pc \in InTransaction => run[r].chat # None
      BY <3>1 DEF RunIsSound, NamesItsRows, TelegramAssumption
    <3> QED
      BY <2>1, <2>2, <3>1, <3>2
         DEF RunIsSound, NamesItsRows, KnowsItsCode, HasTheIndex, KnowsTheOwner, InTransaction
  <2>5. ChatHasOneUser'
    BY <2>2 DEF TInv, ChatHasOneUser
  <2> QED
    BY <2>1, <2>3, <2>4, <2>5 DEF TInv, OneGivesAChat, OneClaimsACode, At, CodeLinksOnce
<1>2. ASSUME NEW c \in Codes, Expires(c) PROVE TInv'
  <2>1. codes' = [codes EXCEPT ![c].state = "expired"] /\ codes[c].state = "open"
        /\ UNCHANGED <<chat, run, started, failures, redeemed, doubled>>
        /\ \A q \in Requests : ~HoldsCode(q, c)
    BY <1>2 DEF Expires
  <2>2. codes \in [Codes -> CodeType \cup {NoCode}] /\ codes[c] \in CodeType
    BY <2>1 DEF TInv, TypeOK, NoCode, CodeType
  <2>3. TypeOK'
    <3>1. codes' \in [Codes -> CodeType \cup {NoCode}]
      BY <2>1, <2>2 DEF CodeType
    <3> QED
      BY <2>1, <3>1 DEF TInv, TypeOK, CodeType
  <2>4. \A d \in Codes :
          /\ (codes'[d].state = "used") <=> (codes[d].state = "used")
          /\ codes[d] # NoCode => codes'[d] # NoCode
          /\ d # c => codes'[d] = codes[d]
    BY <2>1, <2>2 DEF NoCode, CodeType
  <2>5. RunsAreSound'
    <3> SUFFICES ASSUME NEW r \in Requests PROVE RunIsSound(run[r])'
      BY DEF RunsAreSound
    <3>1. RunIsSound(run[r])
      BY RunOf
    <3>2. /\ run[r].pc \in {"claim"} \cup InTransaction => run[r].code \in Codes
          /\ run[r].pc \in InTransaction => run[r].code # c
      BY <2>1, <3>1 DEF RunIsSound, NamesItsRows, HoldsCode
    <3>3. KnowsItsCode(run[r])'
      BY <2>1, <2>4, <3>1, <3>2 DEF RunIsSound, KnowsItsCode
    <3> QED
      BY <2>1, <3>1, <3>3 DEF RunIsSound, NamesItsRows, HasTheIndex, KnowsTheOwner
  <2> QED
    BY <2>1, <2>3, <2>4, <2>5
       DEF TInv, OneGivesAChat, OneClaimsACode, At, ChatHasOneUser, CodeLinksOnce
<1> QED
  BY <1>1, <1>2

\* The commit gives the chat away and takes it from whom it has cleared; nobody
\* else has it, no other transaction near its commit means the same chat, and those
\* that have looked for its owner already are overtaken.
LEMMA CommitKeeps ==
  ASSUME TelegramAssumption, TInv, NEW r \in Requests, Commits(r)
  PROVE  TInv'
<1> DEFINE u == run[r].user  c == run[r].code
<1>1. run[r] \in RunType /\ RunIsSound(run[r]) /\ run[r].pc = "commit"
  BY RunOf DEF Commits, At
<1>2. /\ u \in Users /\ c \in Codes /\ run[r].chat \in Chats
      /\ codes[c] # NoCode /\ codes[c].state = "open"
  BY <1>1 DEF RunIsSound, KnowsItsCode, NamesItsRows, InTransaction
<1>3. codes \in [Codes -> CodeType \cup {NoCode}] /\ codes[c] \in CodeType
  BY <1>2 DEF TInv, TypeOK, CodeType
<1>4. /\ chat' = [x \in Users |-> IF x = u THEN run[r].chat
                                  ELSE IF x \in run[r].cleared THEN None ELSE chat[x]]
      /\ codes' = [codes EXCEPT ![c].state = "used"]
      /\ redeemed' = [redeemed EXCEPT ![c] = @ + 1]
      /\ UNCHANGED <<started, failures, doubled>>
  BY DEF Commits, Linked
<1>5. \A s \in Requests :
        run'[s] = IF s = r THEN Idle
                  ELSE IF Overtakes(r, s) THEN [run[s] EXCEPT !.overtaken = TRUE] ELSE run[s]
  BY DEF Commits
<1>6. \A x \in Users : x # u => chat'[x] = None
                              \/ (chat'[x] = chat[x] /\ chat[x] # run[r].chat)
  BY <1>1, <1>4 DEF RunIsSound, HasTheIndex
<1>7. chat'[u] = run[r].chat
  BY <1>2, <1>4
<1>8. \A d \in Codes : codes'[d] = IF d = c THEN [codes[c] EXCEPT !.state = "used"]
                                   ELSE codes[d]
  BY <1>3, <1>4
\* A request other than r keeps all but the mark.
<1>9. ASSUME NEW s \in Requests \ {r}
      PROVE  /\ run'[s] \in RunType
             /\ run'[s].pc = run[s].pc /\ run'[s].user = run[s].user
             /\ run'[s].code = run[s].code /\ run'[s].chat = run[s].chat
             /\ run'[s].found = run[s].found /\ run'[s].cleared = run[s].cleared
             /\ run'[s].overtaken = (run[s].overtaken \/ Overtakes(r, s))
  <2>1. run[s] \in RunType
    BY RunOf
  <2>2. CASE Overtakes(r, s)
    <3>1. run'[s] = [run[s] EXCEPT !.overtaken = TRUE]
      BY <1>5, <2>2
    <3> QED
      BY <2>1, <2>2, <3>1 DEF RunType
  <2>3. CASE ~Overtakes(r, s)
    <3>1. run'[s] = run[s]
      BY <1>5, <2>3
    <3>2. run[s].overtaken \in BOOLEAN
      BY <2>1 DEF RunType
    <3> QED
      BY <2>1, <2>3, <3>1, <3>2
  <2> QED
    BY <2>2, <2>3
<1>10. TypeOK'
  <2>1. chat' \in [Users -> Chats \cup {None}]
    BY <1>2, <1>4 DEF TInv, TypeOK
  <2>2. codes' \in [Codes -> CodeType \cup {NoCode}]
    <3>1. [codes[c] EXCEPT !.state = "used"] \in CodeType
      BY <1>3 DEF CodeType
    <3> QED
      BY <1>3, <1>4, <3>1
  <2>3. run' \in [Requests -> RunType]
    <3>1. \A s \in Requests : run'[s] \in RunType
      BY <1>5, <1>9, IdleIsARun
    <3>2. run' = [s \in Requests |-> run'[s]]
      BY DEF Commits
    <3> QED
      BY <3>1, <3>2
  <2>4. redeemed' \in [Codes -> Nat]
    BY <1>2, <1>4 DEF TInv, TypeOK
  <2> QED
    BY <1>4, <2>1, <2>2, <2>3, <2>4 DEF TInv, TypeOK, RunType, CodeType
<1>11. RunsAreSound'
  <2> SUFFICES ASSUME NEW s \in Requests PROVE RunIsSound(run[s])'
    BY DEF RunsAreSound
  <2>1. CASE s = r
    BY <1>5, <2>1, IdleIsARun
       DEF RunIsSound, NamesItsRows, KnowsItsCode, HasTheIndex, KnowsTheOwner, InTransaction
  <2>2. CASE s # r
    <3>1. RunIsSound(run[s])
      BY RunOf
    <3>2. NamesItsRows(run[s])'
      BY <1>9, <2>2, <3>1 DEF RunIsSound, NamesItsRows
    <3>3. run[s].pc \in InTransaction => run[s].code # c /\ run[s].chat # None
      BY <1>1, <2>2, <3>1
         DEF TInv, OneClaimsACode, RunIsSound, NamesItsRows, InTransaction, TelegramAssumption
    <3>4. KnowsItsCode(run[s])'
      <4>1. run[s].pc \in {"claim"} \cup InTransaction
              => run[s].code \in Codes /\ codes[run[s].code] # NoCode
        BY <3>1 DEF RunIsSound, NamesItsRows, KnowsItsCode
      <4>2. codes'[c] # NoCode
        BY <1>3, <1>8, <1>2 DEF CodeType, NoCode
      <4> QED
        BY <1>8, <1>9, <2>2, <3>1, <3>3, <4>1, <4>2 DEF RunIsSound, KnowsItsCode
    <3>5. HasTheIndex(run[s])'
      <4>1. run[s].pc = "commit" => run[s].chat # run[r].chat
        BY <1>1, <2>2 DEF TInv, OneGivesAChat, At
      <4> QED
        BY <1>6, <1>7, <1>9, <2>2, <3>1, <3>3, <4>1
           DEF RunIsSound, HasTheIndex, InTransaction
    <3>6. KnowsTheOwner(run[s])'
      <4>1. CASE Overtakes(r, s)
        <5>1. run'[s].overtaken = TRUE
          BY <1>9, <2>2, <4>1
        <5> QED
          BY <5>1 DEF KnowsTheOwner
      <4>2. CASE ~Overtakes(r, s)
        <5>1. run[s].pc \in {"wait", "set"} => run[s].chat # run[r].chat
          BY <4>2 DEF Overtakes
        <5>2. run[s].pc \in {"wait", "set"} =>
                \A x \in Users : chat'[x] = run[s].chat => chat[x] = run[s].chat
          BY <1>6, <1>7, <3>3, <5>1 DEF InTransaction
        <5>3. run'[s] = run[s]
          BY <1>5, <2>2, <4>2
        <5> QED
          BY <3>1, <5>2, <5>3 DEF RunIsSound, KnowsTheOwner
      <4> QED
        BY <4>1, <4>2
    <3> QED
      BY <3>2, <3>4, <3>5, <3>6 DEF RunIsSound
  <2> QED
    BY <2>1, <2>2
<1>12. OneGivesAChat' /\ OneClaimsACode'
  <2>1. run'[r].pc = "idle"
    BY <1>5, IdleIsARun
  <2> QED
    BY <1>9, <2>1 DEF TInv, OneGivesAChat, OneClaimsACode, At, InTransaction
<1>13. ChatHasOneUser'
  BY <1>2, <1>6, <1>7 DEF TInv, ChatHasOneUser, TelegramAssumption
<1>14. CodeLinksOnce'
  <2>1. \A d \in Codes : redeemed'[d] = IF d = c THEN redeemed[c] + 1 ELSE redeemed[d]
    BY <1>2, <1>4 DEF TInv, TypeOK
  <2>2. redeemed[c] = 0 /\ codes'[c].state = "used"
    BY <1>2, <1>3, <1>8 DEF TInv, CodeLinksOnce, CodeType
  <2> QED
    BY <1>8, <2>1, <2>2 DEF TInv, CodeLinksOnce
<1> QED
  BY <1>10, <1>11, <1>12, <1>13, <1>14 DEF TInv

LEMMA StepKeeps == ASSUME TelegramAssumption, TInv, [Next]_vars PROVE TInv'
<1>1. CASE UNCHANGED vars
  <2>1. UNCHANGED <<chat, codes, run, started, failures, redeemed, doubled>>
    BY <1>1 DEF vars
  <2>2. TypeOK' /\ ChatHasOneUser' /\ CodeLinksOnce'
    BY <2>1 DEF TInv, TypeOK, ChatHasOneUser, CodeLinksOnce
  <2>3. RunsAreSound'
    BY <2>1 DEF TInv, RunsAreSound, RunIsSound, NamesItsRows, KnowsItsCode, HasTheIndex,
                KnowsTheOwner
  <2>4. OneGivesAChat' /\ OneClaimsACode'
    BY <2>1 DEF TInv, OneGivesAChat, OneClaimsACode, At
  <2> QED
    BY <2>2, <2>3, <2>4 DEF TInv
<1>2. CASE Next
  BY <1>2, QuietStep, SetsKeeps, CodesKeep, OutsideKeeps, CommitKeeps DEF Next
<1> QED
  BY <1>1, <1>2

-----------------------------------------------------------------------------
(* One code works                                                           *)

Asking(q) == q.pc \in {"delete", "insert"}

\* Who is about to insert a code has deleted the ones before, and nobody else makes
\* one for that user, but for two made at once.
OneCode ==
  /\ OneCodeWorksButForOverlap
  /\ \A r \in Requests, c \in Codes :
       At(r, "insert") /\ codes[c].state = "open" /\ codes[c].user = run[r].user
         => run[r].user \in doubled
  /\ \A q, r \in Requests :
       Asking(run[q]) /\ Asking(run[r]) /\ run[q].user = run[r].user
         => q = r \/ run[r].user \in doubled

\* No code is made, no request begins to make one.
LEMMA NothingOpens ==
  ASSUME OneCode, doubled' = doubled,
         \A c \in Codes : codes'[c].state = "open"
                            => codes[c].state = "open" /\ codes'[c].user = codes[c].user,
         \A q \in Requests : Asking(run'[q])
                               => run'[q].pc = run[q].pc /\ run'[q].user = run[q].user
  PROVE  OneCode'
BY DEF OneCode, OneCodeWorksButForOverlap, Asking, At

LEMMA OneCodeKeeps == ASSUME TInv, OneCode, [Next]_vars PROVE OneCode'
<1>1. /\ run \in [Requests -> RunType] /\ codes \in [Codes -> CodeType \cup {NoCode}]
      /\ \A r \in Requests : NamesItsRows(run[r]) /\ KnowsItsCode(run[r])
  BY DEF TInv, TypeOK, RunType, CodeType, RunsAreSound, RunIsSound
<1>2. CASE UNCHANGED vars
  BY <1>2, NothingOpens DEF vars
<1>3. ASSUME NEW r \in Requests, NEW u \in Users, CodeAsked(r, u) PROVE OneCode'
  <2> DEFINE q == [Idle EXCEPT !.pc = "delete", !.user = u]
  <2>1. /\ run' = [run EXCEPT ![r] = q] /\ codes' = codes
        /\ doubled' = IF \E o \in Others(r) : run[o].user = u /\ Asking(run[o])
                        THEN doubled \cup {u} ELSE doubled
    BY <1>3 DEF CodeAsked, Begins, Asking
  <2>2. q.pc = "delete" /\ q.user = u
    BY DEF Idle
  <2> HIDE DEF q
  <2>3. \A o \in Requests : run'[o] = IF o = r THEN q ELSE run[o]
    BY <1>1, <2>1
  <2>4. doubled \subseteq doubled'
        /\ \A o \in Requests \ {r} : Asking(run[o]) /\ run[o].user = u => u \in doubled'
    BY <2>1 DEF Others
  <2> QED
    BY <2>1, <2>2, <2>3, <2>4 DEF OneCode, OneCodeWorksButForOverlap, Asking, At
<1>4. ASSUME NEW r \in Requests, DeletesUnused(r) PROVE OneCode'
  <2> DEFINE q == [run[r] EXCEPT !.pc = "insert"]
  <2>1. /\ run[r].pc = "delete" /\ run' = [run EXCEPT ![r] = q] /\ doubled' = doubled
        /\ codes' = [c \in Codes |-> IF c \in Deleted(run[r].user)
                                       THEN [codes[c] EXCEPT !.state = "deleted"] ELSE codes[c]]
    BY <1>4 DEF DeletesUnused, Goes, At
  <2>2. q.pc = "insert" /\ q.user = run[r].user
    BY <1>1 DEF RunType
  <2> HIDE DEF q
  <2>3. \A o \in Requests : run'[o] = IF o = r THEN q ELSE run[o]
    BY <1>1, <2>1
  <2>4. ASSUME NEW c \in Codes, codes'[c].state = "open"
        PROVE  codes'[c] = codes[c] /\ codes[c].user # run[r].user
    <3>1. CASE c \in Deleted(run[r].user)
      <4>1. codes[c] \in CodeType
        BY <1>1, <3>1 DEF Deleted, NoCode
      <4> QED
        BY <2>1, <2>4, <3>1, <4>1 DEF CodeType
    <3>2. CASE c \notin Deleted(run[r].user)
      BY <2>1, <2>4, <3>2 DEF Deleted
    <3> QED
      BY <3>1, <3>2
  <2> QED
    <3>1. OneCodeWorksButForOverlap'
      BY <2>1, <2>4 DEF OneCode, OneCodeWorksButForOverlap
    <3>2. ASSUME NEW o \in Requests, NEW c \in Codes, run'[o].pc = "insert",
                 codes'[c].state = "open", codes'[c].user = run'[o].user
          PROVE  run'[o].user \in doubled'
      <4>1. codes'[c] = codes[c] /\ codes[c].user # run[r].user
        BY <2>4, <3>2
      <4>2. o # r
        BY <2>2, <2>3, <3>2, <4>1
      <4> QED
        BY <2>1, <2>3, <3>2, <4>1, <4>2 DEF OneCode, At
    <3>3. ASSUME NEW o \in Requests, NEW x \in Requests, Asking(run'[o]), Asking(run'[x]),
                 run'[o].user = run'[x].user
          PROVE  o = x \/ run'[x].user \in doubled'
      <4>1. \A y \in Requests : Asking(run'[y]) => Asking(run[y]) /\ run'[y].user = run[y].user
        BY <2>1, <2>2, <2>3 DEF Asking
      <4> QED
        BY <2>1, <3>3, <4>1 DEF OneCode
    <3> QED
      BY <3>1, <3>2, <3>3 DEF OneCode, At
<1>5. ASSUME NEW r \in Requests, NEW c \in Codes, InsertsCode(r, c) PROVE OneCode'
  <2>1. /\ run[r].pc = "insert" /\ run' = [run EXCEPT ![r] = Idle] /\ doubled' = doubled
        /\ codes' = [codes EXCEPT ![c] = [user |-> run[r].user, state |-> "open"]]
    BY <1>5 DEF InsertsCode, Ends, At
  <2>2. /\ \A o \in Requests : run'[o] = IF o = r THEN Idle ELSE run[o]
        /\ \A d \in Codes : codes'[d] = IF d = c THEN [user |-> run[r].user, state |-> "open"]
                                        ELSE codes[d]
    BY <1>1, <2>1
  <2> QED
    BY <2>1, <2>2, IdleIsARun DEF OneCode, OneCodeWorksButForOverlap, Asking, At
<1>6. ASSUME NEW r \in Requests,
             \/ \E c \in Codes, from \in Chats : StartCommand(r, c, from)
             \/ Claims(r) \/ ClearFinds(r) \/ Clears(r) \/ Sets(r)
             \/ Refused(r) \/ DeadlockEnds(r) \/ Fails(r)
      PROVE  OneCode'
  <2>1. codes' = codes /\ doubled' = doubled
    BY <1>6 DEF StartCommand, Claims, ClearFinds, Clears, Sets, Refused, DeadlockEnds, Fails,
                RollsBack
  <2>2. \A q \in Requests : Asking(run'[q]) => run'[q] = run[q]
    <3>1. CASE \E c \in Codes, from \in Chats : StartCommand(r, c, from)
      BY <1>1, <3>1 DEF StartCommand, Begins, Idle, Asking
    <3>2. CASE Ends(r)
      BY <1>1, <3>2, IdleIsARun DEF Ends, Asking
    <3>3. CASE Claims(r) /\ ~Ends(r)
      BY <1>1, <3>3 DEF Claims, Asking, RunType
    <3>4. CASE ClearFinds(r) \/ Clears(r)
      BY <1>1, <3>4 DEF ClearFinds, Clears, Asking, RunType
    <3>5. CASE Sets(r)
      BY <1>1, <3>5 DEF Sets, Goes, Asking, RunType
    <3> QED
      BY <1>6, <3>1, <3>2, <3>3, <3>4, <3>5 DEF Refused, DeadlockEnds, Fails, RollsBack
  <2> QED
    BY <2>1, <2>2, NothingOpens
<1>7. ASSUME NEW r \in Requests, Commits(r) PROVE OneCode'
  <2>1. /\ codes' = [codes EXCEPT ![run[r].code].state = "used"] /\ doubled' = doubled
        /\ run[r].pc = "commit"
        /\ run' = [q \in Requests |->
             IF q = r THEN Idle
             ELSE IF Overtakes(r, q) THEN [run[q] EXCEPT !.overtaken = TRUE] ELSE run[q]]
    BY <1>7 DEF Commits, At
  <2>2. run[r].code \in Codes /\ codes[run[r].code] \in CodeType
    BY <1>1, <2>1 DEF NamesItsRows, KnowsItsCode, InTransaction
  <2>3. \A c \in Codes : codes'[c].state = "open" => codes'[c] = codes[c]
    BY <1>1, <2>1, <2>2 DEF CodeType
  <2>4. \A q \in Requests : Asking(run'[q]) => run'[q] = run[q]
    BY <1>1, <2>1, IdleIsARun DEF Asking, Overtakes, RunType
  <2> QED
    BY <2>1, <2>3, <2>4, NothingOpens
<1>8. ASSUME NEW u \in Users, Disconnects(u) PROVE OneCode'
  BY <1>8, NothingOpens DEF Disconnects
<1>9. ASSUME NEW c \in Codes, Expires(c) PROVE OneCode'
  <2>1. /\ codes' = [codes EXCEPT ![c].state = "expired"] /\ codes[c].state = "open"
        /\ UNCHANGED <<run, doubled>>
    BY <1>9 DEF Expires
  <2>2. codes[c] \in CodeType
    BY <1>1, <2>1 DEF NoCode
  <2>3. \A d \in Codes : codes'[d].state = "open" => codes'[d] = codes[d]
    BY <1>1, <2>1, <2>2 DEF CodeType
  <2> QED
    BY <2>1, <2>3, NothingOpens
<1> QED
  BY <1>2, <1>3, <1>4, <1>5, <1>6, <1>7, <1>8, <1>9 DEF Next

-----------------------------------------------------------------------------
(* The theorems                                                             *)

\* One chat, one user; a start command is refused only if another one from its
\* chat was committed after it had looked for the chat's owner; and a code makes
\* one link, however the transactions of redeemCode (telegram.repository.ts)
\* overlap.
THEOREM ChatHasOneUserAlways ==
  ASSUME TelegramAssumption
  PROVE  Spec => [](TypeOK /\ ChatHasOneUser /\ OnlyARaceIsRefused /\ CodeLinksOnce)
<1>1. Init => TInv
  BY InitHolds
<1>2. TInv /\ [Next]_vars => TInv'
  BY StepKeeps
<1>3. TInv => TypeOK /\ ChatHasOneUser /\ OnlyARaceIsRefused /\ CodeLinksOnce
  BY DEF TInv, OnlyARaceIsRefused, IndexRefuses, RunsAreSound, RunIsSound, KnowsTheOwner, At
<1> QED
  BY <1>1, <1>2, <1>3, PTL DEF Spec

\* A user has one code that works, the last, whoever asks for codes and redeems
\* them meanwhile, but for two that were made at once (createConnectCode deletes
\* the unused ones and inserts the new one in two calls).
THEOREM OneCodeWorks ==
  ASSUME TelegramAssumption
  PROVE  Spec => []OneCodeWorksButForOverlap
<1>1. Init => TInv /\ OneCode
  BY InitHolds, IdleIsARun
     DEF Init, OneCode, OneCodeWorksButForOverlap, At, Asking, NoCode
<1>2. TInv /\ OneCode /\ [Next]_vars => TInv' /\ OneCode'
  BY StepKeeps, OneCodeKeeps
<1>3. OneCode => OneCodeWorksButForOverlap
  BY DEF OneCode
<1> QED
  BY <1>1, <1>2, <1>3, PTL DEF Spec
=============================================================================
