------------------------------- MODULE Telegram -------------------------------
(* The link between a user and a Telegram chat: telegram.service.ts, its     *)
(* repository and its webhook.                                               *)
(*                                                                           *)
(* A code is made by two calls, the delete of the unused ones and the insert.*)
(* It is redeemed in one transaction of three updates under READ COMMITTED:  *)
(* a row another transaction has written is waited for, what that one has    *)
(* written is seen once it commits, and the unique index on telegramChatId   *)
(* refuses a chat that has an owner.  PostgreSQL ends one of a ring of       *)
(* transactions that wait for each other.                                    *)
EXTENDS Naturals, FiniteSets

CONSTANTS
  Users, Chats, Codes, None, Requests,
  MaxStarted,    \* bound on requests
  MaxFailures    \* bound on transactions and requests that fail by themselves

TelegramAssumption ==
  /\ None \notin Users \cup Chats \cup Codes
  /\ MaxStarted \in Nat /\ MaxFailures \in Nat

VARIABLES
  chat,       \* users.telegramChatId
  codes,      \* rows of telegram_connect_codes
  run, started, failures,
  \* History: how many links a code has made; users for whom two codes were being
  \* made at once.
  redeemed, doubled

vars == <<chat, codes, run, started, failures, redeemed, doubled>>

NoCode == [user |-> None, state |-> "none"]
Idle == [pc |-> "idle", user |-> None, code |-> None, chat |-> None,
         found |-> {}, cleared |-> {},
         overtaken |-> FALSE]  \* another has linked the chat since it was looked up
InTransaction == {"clear", "wait", "set", "commit"}

TypeOK ==
  /\ chat \in [Users -> Chats \cup {None}]
  /\ codes \in [Codes -> [user : Users, state : {"open", "expired", "used", "deleted"}]
                         \cup {NoCode}]
  /\ run \in [Requests -> [pc : {"idle", "delete", "insert", "claim"} \cup InTransaction,
                           user : Users \cup {None}, code : Codes \cup {None},
                           chat : Chats \cup {None},
                           found : SUBSET Users, cleared : SUBSET Users,
                           overtaken : BOOLEAN]]
  /\ started \in 0..MaxStarted /\ failures \in 0..MaxFailures
  /\ redeemed \in [Codes -> Nat] /\ doubled \in SUBSET Users

\* Users may have been linked before.
Init ==
  /\ chat \in [Users -> Chats \cup {None}]
  /\ \A u, v \in Users : chat[u] = chat[v] /\ chat[u] # None => u = v
  /\ codes = [c \in Codes |-> NoCode]
  /\ run = [r \in Requests |-> Idle] /\ started = 0 /\ failures = 0
  /\ redeemed = [c \in Codes |-> 0] /\ doubled = {}

At(r, pc) == run[r].pc = pc
Goes(r, pc) == run' = [run EXCEPT ![r].pc = pc]
Ends(r) == run' = [run EXCEPT ![r] = Idle]

\* The rows a transaction has written: its code, the users it has cleared, and
\* its user.
HoldsCode(q, c) == run[q].pc \in InTransaction /\ run[q].code = c
HoldsUser(q, u) ==
  run[q].pc \in InTransaction
    /\ (u \in run[q].cleared \/ (At(q, "commit") /\ u = run[q].user))
Others(r) == Requests \ {r}

-----------------------------------------------------------------------------
(* createConnectCode and disconnect                                         *)

Begins(r, new) ==
  /\ At(r, "idle") /\ started < MaxStarted /\ started' = started + 1
  /\ run' = [run EXCEPT ![r] = new]

CodeAsked(r, u) ==
  /\ Begins(r, [Idle EXCEPT !.pc = "delete", !.user = u])
  /\ doubled' = IF \E q \in Others(r) : run[q].user = u /\ run[q].pc \in {"delete", "insert"}
                  THEN doubled \cup {u} ELSE doubled
  /\ UNCHANGED <<chat, codes, failures, redeemed>>

\* deleteUnusedCodesByUser: usedAt is null.
Deleted(u) == {c \in Codes : codes[c].user = u /\ codes[c].state \in {"open", "expired"}}

\* A code that is being redeemed is waited for.
DeletesUnused(r) ==
  LET gone == Deleted(run[r].user) IN
  /\ At(r, "delete") /\ \A q \in Others(r), c \in gone : ~HoldsCode(q, c)
  /\ codes' = [c \in Codes |-> IF c \in gone THEN [codes[c] EXCEPT !.state = "deleted"]
                               ELSE codes[c]]
  /\ Goes(r, "insert")
  /\ UNCHANGED <<chat, started, failures, redeemed, doubled>>

InsertsCode(r, c) ==
  /\ At(r, "insert") /\ codes[c] = NoCode
  /\ codes' = [codes EXCEPT ![c] = [user |-> run[r].user, state |-> "open"]]
  /\ Ends(r)
  /\ UNCHANGED <<chat, started, failures, redeemed, doubled>>

\* disconnectUser is one UPDATE.
Disconnects(u) ==
  /\ chat[u] # None /\ \A q \in Requests : ~HoldsUser(q, u)
  /\ chat' = [chat EXCEPT ![u] = None]
  /\ UNCHANGED <<codes, run, started, failures, redeemed, doubled>>

Expires(c) ==
  /\ codes[c].state = "open" /\ \A q \in Requests : ~HoldsCode(q, c)
  /\ codes' = [codes EXCEPT ![c].state = "expired"]
  /\ UNCHANGED <<chat, run, started, failures, redeemed, doubled>>

-----------------------------------------------------------------------------
(* handleUpdate and redeemCode                                              *)

\* /start with a code, sent from a chat; Telegram may send an update again.
StartCommand(r, c, from) ==
  /\ codes[c] # NoCode
  /\ Begins(r, [Idle EXCEPT !.pc = "claim", !.code = c, !.chat = from])
  /\ UNCHANGED <<chat, codes, failures, redeemed, doubled>>

\* Who waited for the code sees what became of it; a code that is used up, too
\* old or gone is answered with a refusal.
Claims(r) ==
  LET c == run[r].code IN
  /\ At(r, "claim") /\ \A q \in Others(r) : ~HoldsCode(q, c)
  /\ IF codes[c].state = "open"
       THEN run' = [run EXCEPT ![r].pc = "clear", ![r].user = codes[c].user]
       ELSE Ends(r)
  /\ UNCHANGED <<chat, codes, started, failures, redeemed, doubled>>

\* The snapshot of the UPDATE that takes the chat from its owner ...
ClearFinds(r) ==
  /\ At(r, "clear")
  /\ run' = [run EXCEPT ![r].pc = "wait",
       ![r].found = {u \in Users : chat[u] = run[r].chat}]
  /\ UNCHANGED <<chat, codes, started, failures, redeemed, doubled>>

\* Variant: the chat stays with its owner too.
ClearsNobody(r) ==
  /\ At(r, "wait") /\ Goes(r, "set")
  /\ UNCHANGED <<chat, codes, started, failures, redeemed, doubled>>

\* ... which waits for the rows it found and looks at them again.
Clears(r) ==
  /\ At(r, "wait") /\ \A q \in Others(r), u \in run[r].found : ~HoldsUser(q, u)
  /\ run' = [run EXCEPT ![r].pc = "set",
       ![r].cleared = {u \in run[r].found : chat[u] = run[r].chat}]
  /\ UNCHANGED <<chat, codes, started, failures, redeemed, doubled>>

\* The user's row, or another transaction that is giving the same chat away.
SetWaitsFor(r, q) ==
  HoldsUser(q, run[r].user) \/ (At(q, "commit") /\ run[q].chat = run[r].chat)

\* The unique index on telegramChatId.
IndexRefuses(r) ==
  \E u \in Users \ (run[r].cleared \cup {run[r].user}) : chat[u] = run[r].chat

Sets(r) ==
  /\ At(r, "set") /\ \A q \in Others(r) : ~SetWaitsFor(r, q)
  /\ ~IndexRefuses(r) /\ Goes(r, "commit")
  /\ UNCHANGED <<chat, codes, started, failures, redeemed, doubled>>

\* The chats as the two updates have left them.
Linked(r) ==
  [u \in Users |-> IF u = run[r].user THEN run[r].chat
                   ELSE IF u \in run[r].cleared THEN None ELSE chat[u]]

\* Those who have looked up the chat's owner do not know of the new one.
Overtakes(r, q) == run[q].pc \in {"wait", "set"} /\ run[q].chat = run[r].chat

Commits(r) ==
  /\ At(r, "commit")
  /\ run' = [q \in Requests |->
       IF q = r THEN Idle
       ELSE IF Overtakes(r, q) THEN [run[q] EXCEPT !.overtaken = TRUE] ELSE run[q]]
  /\ chat' = Linked(r)
  /\ codes' = [codes EXCEPT ![run[r].code].state = "used"]
  /\ redeemed' = [redeemed EXCEPT ![run[r].code] = @ + 1]
  /\ UNCHANGED <<started, failures, doubled>>

WaitsFor(r) ==
  {q \in Others(r) :
     \/ At(r, "wait") /\ \E u \in run[r].found : HoldsUser(q, u)
     \/ At(r, "set") /\ SetWaitsFor(r, q)}
Deadlocked(r) ==
  \E ring \in SUBSET Requests :
    r \in ring /\ \A q \in ring : WaitsFor(q) \cap ring # {}

\* The webhook logs the error and answers 200 all the same, so that Telegram does
\* not send the update again.
RollsBack(r) ==
  /\ Ends(r) /\ UNCHANGED <<chat, codes, started, redeemed, doubled>>

Refused(r) ==
  /\ At(r, "set") /\ \A q \in Others(r) : ~SetWaitsFor(r, q)
  /\ IndexRefuses(r) /\ RollsBack(r) /\ UNCHANGED failures

DeadlockEnds(r) == Deadlocked(r) /\ RollsBack(r) /\ UNCHANGED failures

\* The database fails, or the server dies.
Fails(r) ==
  /\ failures < MaxFailures /\ failures' = failures + 1
  /\ \/ run[r].pc \in InTransaction /\ RollsBack(r)
     \/ At(r, "insert") /\ Ends(r) /\ UNCHANGED <<chat, codes, started, redeemed, doubled>>

Next ==
  \/ \E r \in Requests :
       \/ \E u \in Users : CodeAsked(r, u)
       \/ \E c \in Codes, from \in Chats : StartCommand(r, c, from)
       \/ DeletesUnused(r)
       \/ \E c \in Codes : InsertsCode(r, c)
       \/ Claims(r) \/ ClearFinds(r) \/ Clears(r) \/ Sets(r) \/ Commits(r)
       \/ Refused(r) \/ DeadlockEnds(r) \/ Fails(r)
  \/ \E u \in Users : Disconnects(u)
  \/ \E c \in Codes : Expires(c)

Spec == Init /\ [][Next]_vars

-----------------------------------------------------------------------------

\* Reminders of two users never go to one chat.  This is the unique index; that
\* it seldom has to refuse anybody is the code:
ChatHasOneUser ==
  \A u, v \in Users : chat[u] = chat[v] /\ chat[u] # None => u = v

\* the first update takes the chat from whoever has it, so that a start command is
\* refused only if another one from the same chat was committed after the owner
\* had been looked up.
OnlyARaceIsRefused ==
  \A r \in Requests : At(r, "set") /\ IndexRefuses(r) => run[r].overtaken

\* A code makes one link, however many redeem it at once, and is used up by that
\* link only: where the transaction fails, the code works again.
CodeLinksOnce ==
  \A c \in Codes : redeemed[c] = IF codes[c].state = "used" THEN 1 ELSE 0

\* A user has one code that works, the last, but for two made at once.
OneCodeWorksButForOverlap ==
  \A c, d \in Codes :
    codes[c].state = "open" /\ codes[d].state = "open" /\ codes[c].user = codes[d].user
      => c = d \/ codes[c].user \in doubled
=============================================================================
