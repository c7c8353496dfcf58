------------------------------ MODULE MCAccounts ------------------------------
(* What users have beside pages, in one run: workspaces and their members,   *)
(* invites, refresh sessions, the Telegram chat, generated texts, and the    *)
(* search.  part is chosen at the start and only that component moves.       *)
EXTENDS Workspaces, TLC

CONSTANTS
  SessionUsers, LastSecond, MaxSessionRequests, MaxEverywhere, MaxSessionFailures,
  InviteUsers, Tokens, Links, MaxLinks, MaxInviteRequests, MaxInviteFailures,
  Chats, Codes, MaxTelegramRequests, MaxTelegramFailures,
  Authors, Replies, MaxGenerations,
  FoundPages, FoundProjects, TitleMatches, TextMatches, Moments, Bounds, DAY,
  LIMIT, PATH_MAX_DEPTH, MaxChanges

VARIABLES
  part,
  clock, accounts, key, listed, cookie, sessionRun, sessionStarted, sessionFailures,
  everywhere, made, ended, unlisted, logins, doubledRefreshes,
  exists, members, links, keys, index, inviteRun, inviteStarted, inviteFailures,
  everMade, admitted, doubt, expired, lost, invitesCrossed,
  givenBack, dropped,
  chat, codes, telegramRun, telegramStarted, telegramFailures, redeemed, doubled,
  inFlightUserIds, generations, answer, generationsStarted,
  project, trashed, updatedAt, parent, asked, found, projectPath, pagePath, changes,
  movedPages, shifted

\* A value of Replies that a .cfg cannot write down.
SomeReplies == {<<"delta", "delta", "noise">>, <<"delta", "error">>, <<"noise">>}

Ss == INSTANCE SessionsProofs WITH
        Users <- SessionUsers, LastMoment <- LastSecond,
        MaxStarted <- MaxSessionRequests, MaxFailures <- MaxSessionFailures,
        now <- clock, run <- sessionRun, started <- sessionStarted,
        failures <- sessionFailures, doubled <- doubledRefreshes
In == INSTANCE InvitesProofs WITH
        Users <- InviteUsers, MaxStarted <- MaxInviteRequests,
        MaxFailures <- MaxInviteFailures, run <- inviteRun, started <- inviteStarted,
        failures <- inviteFailures, crossed <- invitesCrossed
Tg == INSTANCE TelegramProofs WITH
        Users <- InviteUsers, MaxStarted <- MaxTelegramRequests,
        MaxFailures <- MaxTelegramFailures,
        run <- telegramRun, started <- telegramStarted, failures <- telegramFailures
Gn == INSTANCE Generation WITH
        Users <- Authors, MaxStarted <- MaxGenerations, run <- generations,
        started <- generationsStarted
Sr == INSTANCE Search WITH
        Pages <- FoundPages, Projects <- FoundProjects, rows <- found,
        crossed <- movedPages

ASSUME AccountsAssumption ==
  /\ Ss!SessionsAssumption /\ In!InvitesAssumption /\ Tg!TelegramAssumption
  /\ Gn!GenerationAssumption /\ Sr!SearchAssumption

ssVars == <<clock, accounts, key, listed, cookie, sessionRun, sessionStarted,
            sessionFailures, everywhere, made, ended, unlisted, logins,
            doubledRefreshes>>
inVars == <<exists, members, links, keys, index, inviteRun, inviteStarted,
            inviteFailures, everMade, admitted, doubt, expired, lost, invitesCrossed,
            givenBack, dropped>>
tgVars == <<chat, codes, telegramRun, telegramStarted, telegramFailures, redeemed,
            doubled>>
gnVars == <<inFlightUserIds, generations, answer, generationsStarted>>
srVars == <<project, trashed, updatedAt, parent, asked, found, projectPath, pagePath,
            changes, movedPages, shifted>>

\* Where a component does not move, its first state does not matter.
AccountsInit ==
  /\ part \in {"workspaces", "sessions", "invites", "telegram", "generation", "search"}
  /\ Init /\ Ss!Init /\ In!Init /\ Tg!Init /\ Gn!Init /\ Sr!Init
  /\ part # "telegram" => \A u \in InviteUsers : chat[u] = None
  /\ part # "search" =>
       /\ \A p, q \in FoundPages : project[p] = project[q]
       /\ \A p \in FoundPages, m \in Moments : updatedAt[p] <= m
       /\ \A g \in FoundProjects : parent[g] = None

WorkspacesMove ==
  /\ part = "workspaces" /\ Next
  /\ UNCHANGED <<part, ssVars, inVars, tgVars, gnVars, srVars>>
SessionsMove ==
  /\ part = "sessions" /\ Ss!Next
  /\ UNCHANGED <<part, vars, inVars, tgVars, gnVars, srVars>>
InvitesMove ==
  /\ part = "invites" /\ In!Next
  /\ UNCHANGED <<part, vars, ssVars, tgVars, gnVars, srVars>>
TelegramMoves ==
  /\ part = "telegram" /\ Tg!Next
  /\ UNCHANGED <<part, vars, ssVars, inVars, gnVars, srVars>>
GenerationMoves ==
  /\ part = "generation" /\ Gn!Next
  /\ UNCHANGED <<part, vars, ssVars, inVars, tgVars, srVars>>
SearchMoves ==
  /\ part = "search" /\ Sr!Next
  /\ UNCHANGED <<part, vars, ssVars, inVars, tgVars, gnVars>>

Accounts ==
  AccountsInit
    /\ [][\/ WorkspacesMove \/ SessionsMove \/ InvitesMove \/ TelegramMoves
          \/ GenerationMoves \/ SearchMoves
         ]_<<part, vars, ssVars, inVars, tgVars, gnVars, srVars>>

\* Requests are interchangeable, and so are workspaces, codes and projects.
Symmetry ==
  Permutations(Requests) \cup Permutations(Workspaces) \cup Permutations(Codes)
    \cup Permutations(FoundProjects)

\* The properties of the components, looked at where they move.

\* A limit is counted before the row is inserted, so it can be exceeded, but only
\* by creates that run at the same time: of workspaces per user and of links per
\* workspace.
LimitsHoldButForOverlap ==
  /\ LimitHoldsButForOverlap
  /\ part = "invites" => In!LinkLimitHoldsButForOverlap

\* No cookie that was ended opens anything again, and no refresh makes two
\* sessions of one, but where refreshes overlap.
SessionsEnd ==
  part = "sessions" => Ss!EndedIsDead /\ Ss!SessionsDoNotMultiply

\* auth/dto/logout.dto.ts:7: a logout from all devices ends all sessions.
EverywhereEndsAll == part = "sessions" => Ss!EverywhereEndsAll

\* A one-time link admits one user, and is not lost without admitting anybody.
OneTimeAdmitsOne ==
  part = "invites" => In!OneTimeAdmitsOne /\ In!NoInviteVanishes

\* A temporary link that works is one its workspace lists, unless a redeem has given
\* it back while a list took it for stale.
WorkingInviteIsListed == part = "invites" => In!WorkingInviteIsListed

\* A start command with a code that works links the chat, whoever had it, unless
\* another one from that chat came in between; a code makes one link, and a user
\* has one that works.
StartLinksTheChat ==
  part = "telegram" =>
    /\ Tg!OnlyARaceIsRefused
    /\ Tg!CodeLinksOnce
    /\ Tg!OneCodeWorksButForOverlap

\* A user has one generation at a time, and his place is taken while he has one.
OneGenerationAtATime == part = "generation" => Gn!OneGenerationAtATime

\* What a user is sent is the reply of the provider, however it was cut up.
AnswerFitsReply == part = "generation" => Gn!AnswerFitsReply

\* A result of the search lies where its path says, shows what was looked for,
\* and is of the days that were asked for.
FoundIsWhereItSays ==
  part = "search" => Sr!PathLeadsToPage /\ Sr!ResultShowsTheMatch /\ Sr!DayIsWhole
=============================================================================
