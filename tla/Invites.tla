-------------------------------- MODULE Invites --------------------------------
(* Invite links of one workspace: workspace-invites.service.ts,              *)
(* workspace-invite-redeem.service.ts, temporary-invite.store.ts.            *)
(*                                                                           *)
(* A temporary link is a key in Redis that one person may use; a set per     *)
(* workspace lists the keys.  A permanent link is a row anybody may use      *)
(* until it is revoked.  Redeeming takes the key first and gives it back if  *)
(* the membership could not be made.                                         *)
EXTENDS Naturals, FiniteSets

CONSTANTS
  Users, Tokens, Links, Requests, None,
  MaxLinks,      \* MAX_INVITES_PER_WORKSPACE
  MaxStarted,    \* bound on requests
  MaxFailures    \* bound on errors of Redis and the database, and on deaths

InvitesAssumption ==
  /\ MaxLinks \in Nat /\ MaxStarted \in Nat /\ MaxFailures \in Nat
  /\ None \notin Users \cup Tokens \cup Links
  /\ Tokens \cap Links = {}
  /\ IsFiniteSet(Requests) /\ IsFiniteSet(Links)

VARIABLES
  exists,    \* the workspace's row
  members,   \* users with a membership
  links,     \* rows of workspace_invites
  keys,      \* the live keys workspace_invite:<token>
  index,     \* the set workspace_invite_index:<workspace>
  run, started, failures,
  \* History: links and tokens ever made; for a token the members it made, the
  \* answers lost after it had made one, and what else may have ended it; tokens
  \* a redeem has given back, and those of them that a list has dropped since.
  everMade, admitted, doubt, expired, lost, crossed, givenBack, dropped

redis == <<keys, index>>
rows == <<exists, members, links>>
history == <<everMade, admitted, doubt, expired, lost, crossed, givenBack, dropped>>
vars == <<rows, redis, run, started, failures, history>>

Idle == [pc |-> "idle", user |-> None, link |-> None, lives |-> FALSE,
         taken |-> FALSE, left |-> {}, stale |-> {}]

Run == [pc : {"idle", "save", "count", "insert", "revoke", "smembers", "get",
              "srem", "ttl", "getdel", "unlist", "find", "add", "restore"},
        user : Users \cup {None}, link : Tokens \cup Links \cup {None},
        lives : BOOLEAN, taken : BOOLEAN,
        left : SUBSET Tokens, stale : SUBSET Tokens]

TypeOK ==
  /\ exists \in BOOLEAN /\ members \in SUBSET Users
  /\ links \in SUBSET Links /\ keys \in SUBSET Tokens /\ index \in SUBSET Tokens
  /\ run \in [Requests -> Run]
  /\ started \in 0..MaxStarted /\ failures \in 0..MaxFailures
  /\ everMade \in SUBSET (Links \cup Tokens)
  /\ admitted \in [Tokens -> Nat] /\ doubt \in [Tokens -> Nat]
  /\ \A s \in {expired, lost, crossed, givenBack, dropped} : s \in SUBSET Tokens

Init ==
  /\ exists = TRUE /\ members = {} /\ links = {} /\ keys = {} /\ index = {}
  /\ run = [r \in Requests |-> Idle] /\ started = 0 /\ failures = 0
  /\ everMade = {}
  /\ admitted = [t \in Tokens |-> 0] /\ doubt = admitted
  /\ expired = {} /\ lost = {} /\ crossed = {} /\ givenBack = {} /\ dropped = {}

At(r, pc) == run[r].pc = pc
Goes(r, pc) == run' = [run EXCEPT ![r].pc = pc]
Ends(r) == run' = [run EXCEPT ![r] = Idle]
Starts(r, fields) ==
  /\ At(r, "idle") /\ started < MaxStarted
  /\ started' = started + 1
  /\ run' = [run EXCEPT ![r] = fields]
Fails == failures < MaxFailures /\ failures' = failures + 1

\* Nobody knows a link before the answer of the create.
Creating(x) ==
  \E r \in Requests : run[r].link = x /\ run[r].pc \in {"save", "count", "insert"}
Known(x) == x \in everMade /\ ~Creating(x)

-----------------------------------------------------------------------------
(* create, list and revoke, for those who manage members                    *)

\* assertCanManageMembers lets a manager in as long as there is a workspace.
CreateAsked(r, temporary, x) ==
  /\ exists /\ x \notin everMade
  /\ temporary <=> x \in Tokens
  /\ Starts(r, [Idle EXCEPT !.pc = IF temporary THEN "save" ELSE "count",
                            !.link = x])
  /\ everMade' = everMade \cup {x}
  /\ UNCHANGED <<rows, redis, failures, admitted, doubt, expired, lost,
                 crossed, givenBack, dropped>>

\* Variant: the token is not put into the index.
SaveKeyOnly(t) == keys' = keys \cup {t} /\ UNCHANGED index

\* save and restore: MULTI, SET EX, SADD.  EXPIRE GT never shortens the life of
\* the index: to a set that has no expiry it gives none.
Save(t) == keys' = keys \cup {t} /\ index' = index \cup {t}

Saves(r) ==
  /\ At(r, "save") /\ Save(run[r].link) /\ Ends(r)
  /\ UNCHANGED <<rows, started, failures, history>>

\* assertInviteLimitNotReached
BelowLimit == Cardinality(links) < MaxLinks

CountsLinks(r) ==
  /\ At(r, "count")
  /\ IF BelowLimit THEN Goes(r, "insert") ELSE Ends(r)
  /\ UNCHANGED <<rows, redis, started, failures, history>>

\* The foreign key refuses a link to a workspace that is gone.
InsertsLink(r) ==
  /\ At(r, "insert")
  /\ links' = IF exists THEN links \cup {run[r].link} ELSE links
  /\ Ends(r)
  /\ UNCHANGED <<exists, members, redis, started, failures, history>>

\* revoke takes the id of a row, so it never finds a temporary link.
RevokeAsked(r, x) ==
  /\ exists /\ Known(x)
  /\ Starts(r, [Idle EXCEPT !.pc = "revoke", !.link = x])
  /\ UNCHANGED <<rows, redis, failures, history>>

Revokes(r) ==
  /\ At(r, "revoke") /\ links' = links \ {run[r].link} /\ Ends(r)
  /\ UNCHANGED <<exists, members, redis, started, failures, history>>

ListAsked(r) ==
  /\ exists /\ Starts(r, [Idle EXCEPT !.pc = "smembers"])
  /\ UNCHANGED <<rows, redis, failures, history>>

ListReadsIndex(r) ==
  /\ At(r, "smembers")
  /\ IF index = {} THEN Ends(r)
     ELSE run' = [run EXCEPT ![r].pc = "get", ![r].left = index]
  /\ UNCHANGED <<rows, redis, started, failures, history>>

\* One token after the other; what has no key is stale.
ListReadsToken(r, t) ==
  /\ At(r, "get") /\ t \in run[r].left
  /\ run' = [run EXCEPT ![r].left = @ \ {t},
                        ![r].stale = IF t \in keys THEN @ ELSE @ \cup {t},
                        ![r].pc = IF run[r].left = {t} THEN "srem" ELSE "get"]
  /\ UNCHANGED <<rows, redis, started, failures, history>>

\* dropStale
ListDropsStale(r) ==
  /\ At(r, "srem")
  /\ index' = index \ run[r].stale
  /\ dropped' = dropped \cup (run[r].stale \cap keys \cap givenBack)
  /\ Ends(r)
  /\ UNCHANGED <<rows, keys, started, failures, everMade, admitted, doubt,
                 expired, lost, crossed, givenBack>>

-----------------------------------------------------------------------------
(* redeem                                                                   *)

RedeemAsked(r, u, x) ==
  /\ Known(x)
  /\ Starts(r, [Idle EXCEPT !.pc = "ttl", !.user = u, !.link = x])
  /\ UNCHANGED <<rows, redis, failures, history>>

Taken(r) == At(r, "unlist") \/ (run[r].taken /\ run[r].pc \in {"add", "restore"})
Held(t) == \E r \in Requests : run[r].link = t /\ Taken(r)

ConsumeReadsTtl(r) ==
  /\ At(r, "ttl")
  /\ run' = [run EXCEPT ![r].pc = "getdel", ![r].lives = run[r].link \in keys]
  /\ crossed' = IF Held(run[r].link) THEN crossed \cup {run[r].link} ELSE crossed
  /\ UNCHANGED <<rows, redis, started, failures, everMade, admitted, doubt,
                 expired, lost, givenBack, dropped>>

\* Variant: the key is read and stays.
ConsumeGets(r) ==
  /\ At(r, "getdel")
  /\ Goes(r, IF run[r].link \in keys THEN "unlist" ELSE "find")
  /\ UNCHANGED <<rows, redis, started, failures, history>>

ConsumeTakes(r) ==
  /\ At(r, "getdel")
  /\ keys' = keys \ {run[r].link}
  /\ Goes(r, IF run[r].link \in keys THEN "unlist" ELSE "find")
  /\ UNCHANGED <<rows, index, started, failures, history>>

ConsumeUnlists(r) ==
  /\ At(r, "unlist")
  /\ index' = index \ {run[r].link}
  /\ run' = [run EXCEPT ![r].pc = "add", ![r].taken = TRUE]
  /\ UNCHANGED <<rows, keys, started, failures, history>>

\* No key: a permanent link, or a 404.
FindsLink(r) ==
  /\ At(r, "find")
  /\ IF run[r].link \in links THEN Goes(r, "add") ELSE Ends(r)
  /\ UNCHANGED <<rows, redis, started, failures, history>>

\* The rows take the member: there is a workspace, and he is not one yet.
CanJoin(u) == exists /\ u \notin members

Joins(r) ==
  /\ members' = members \cup {run[r].user}
  /\ admitted' = IF run[r].taken THEN [admitted EXCEPT ![run[r].link] = @ + 1]
                 ELSE admitted

\* redeem's catch
AddFails(r) == IF run[r].taken THEN Goes(r, "restore") ELSE Ends(r)

\* addMemberViaInvite: a member already is a 409, no workspace a 404.
AddsMember(r) ==
  /\ At(r, "add")
  /\ IF CanJoin(run[r].user) THEN Joins(r) /\ Ends(r)
     ELSE AddFails(r) /\ UNCHANGED <<members, admitted>>
  /\ UNCHANGED <<exists, links, redis, started, failures, everMade, doubt,
                 expired, lost, crossed, givenBack, dropped>>

\* A token whose life was not known when it was taken is not put back.
Restores(r) ==
  /\ At(r, "restore")
  /\ IF run[r].lives
       THEN /\ Save(run[r].link)
            /\ givenBack' = givenBack \cup {run[r].link}
            /\ dropped' = dropped \ {run[r].link}
       ELSE UNCHANGED <<redis, givenBack, dropped>>
  /\ Ends(r)
  /\ UNCHANGED <<rows, started, failures, everMade, admitted, doubt, expired, lost,
                 crossed>>

-----------------------------------------------------------------------------
(* Time, errors, and the rest of the program                                *)

\* EX: the key goes, the index keeps its entry.
Expires(t) ==
  /\ t \in keys
  /\ keys' = keys \ {t} /\ expired' = expired \cup {t}
  /\ UNCHANGED <<rows, index, run, started, failures, everMade, admitted, doubt,
                 lost, crossed, givenBack, dropped>>

\* The database answers with an error, before or after the commit.
DatabaseFails(r) ==
  /\ At(r, "add") /\ Fails
  /\ \/ UNCHANGED <<members, admitted, doubt>>
     \/ /\ CanJoin(run[r].user) /\ Joins(r)
        /\ doubt' = IF run[r].taken THEN [doubt EXCEPT ![run[r].link] = @ + 1]
                    ELSE doubt
  /\ AddFails(r)
  /\ UNCHANGED <<exists, links, redis, started, everMade, expired, lost,
                 crossed, givenBack, dropped>>

\* An error of Redis: save and list give up, consume falls back to the rows,
\* dropStale and restore only log it.
RedisFails(r) ==
  /\ Fails
  /\ \/ /\ run[r].pc \in {"save", "smembers", "srem", "restore"} /\ Ends(r)
        /\ lost' = IF run[r].link \in Tokens THEN lost \cup {run[r].link} ELSE lost
        /\ UNCHANGED keys
     \/ /\ run[r].pc \in {"ttl", "getdel"} /\ Goes(r, "find")
        /\ \/ UNCHANGED <<keys, lost>>
           \/ /\ At(r, "getdel") /\ run[r].link \in keys
              /\ keys' = keys \ {run[r].link}
              /\ lost' = lost \cup {run[r].link}
     \/ /\ At(r, "unlist")
        /\ run' = [run EXCEPT ![r].pc = "add", ![r].taken = TRUE]
        /\ UNCHANGED <<keys, lost>>
  /\ UNCHANGED <<rows, index, started, everMade, admitted, doubt, expired,
                 crossed, givenBack, dropped>>

Dies(r) ==
  /\ ~At(r, "idle") /\ Fails /\ Ends(r)
  /\ lost' = IF Taken(r) \/ At(r, "save") THEN lost \cup {run[r].link} ELSE lost
  /\ UNCHANGED <<rows, redis, started, everMade, admitted, doubt, expired,
                 crossed, givenBack, dropped>>

\* The handlers of module Workspaces, as far as links can tell.
MembersChange ==
  /\ \/ \E u \in Users :
          /\ exists /\ members' \in {members \cup {u}, members \ {u}}
          /\ UNCHANGED <<exists, links>>
     \/ exists' = FALSE /\ members' = {} /\ links' = {}
  /\ UNCHANGED <<redis, run, started, failures, history>>

Next ==
  \/ \E r \in Requests :
       \/ \E t \in Tokens : CreateAsked(r, TRUE, t) \/ ListReadsToken(r, t)
       \/ \E l \in Links : CreateAsked(r, FALSE, l)
       \/ \E x \in Tokens \cup Links :
            RevokeAsked(r, x) \/ \E u \in Users : RedeemAsked(r, u, x)
       \/ Saves(r) \/ CountsLinks(r) \/ InsertsLink(r) \/ Revokes(r)
       \/ ListAsked(r) \/ ListReadsIndex(r) \/ ListDropsStale(r)
       \/ ConsumeReadsTtl(r) \/ ConsumeTakes(r) \/ ConsumeUnlists(r)
       \/ FindsLink(r) \/ AddsMember(r) \/ Restores(r)
       \/ DatabaseFails(r) \/ RedisFails(r) \/ Dies(r)
  \/ \E t \in Tokens : Expires(t)
  \/ MembersChange

Spec == Init /\ [][Next]_vars

-----------------------------------------------------------------------------
(* Properties                                                               *)

\* A temporary link makes one member, however many redeem it at once, but for
\* each answer of the database lost after its commit.
OneTimeAdmitsOne == \A t \in Tokens : admitted[t] <= 1 + doubt[t]

\* A temporary link is never lost to a refused redeem: it can be used, has been
\* used, has expired, or is held by a redeem under way, unless a process or an
\* answer of Redis was lost, or one redeem asked for its life while another held
\* it.
Used(t) == admitted[t] > 0 \/ t \in expired

NoInviteVanishes ==
  \A t \in Tokens :
    ~Known(t) \/ t \in keys \/ Used(t) \/ Held(t) \/ t \in lost \/ t \in crossed

\* A temporary link that works is in the list its managers see.  Only one that a
\* refused redeem has given back can be missing, and only from the time a list that
\* had read the index before drops it as stale until it is given back again: no
\* list, however long it takes, hides a link that nobody has tried to use.
WorkingInviteIsListed ==
  \A t \in keys : t \in index \/ t \in dropped

\* Permanent links exceed their limit only by creates that run at the same time.
LinkLimitHoldsButForOverlap ==
  LET inserting == {r \in Requests : At(r, "insert")} IN
    links # {} \/ inserting # {} =>
      Cardinality(links) + Cardinality(inserting)
        <= MaxLinks + Cardinality(Requests) - 1
=============================================================================
