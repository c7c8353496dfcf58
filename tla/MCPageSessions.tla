--------------------------- MODULE MCPageSessions ---------------------------
(* PageSessions from two sides in one run: two sockets that meet on a page,  *)
(* and one that goes between two pages.  part is chosen at the start and     *)
(* bounds what the clients do, never what the server does.                   *)
EXTENDS PageSessions

CONSTANTS Page, Bystander

ASSUME BystanderAssumption == Page \in Pages /\ Bystander \in Sockets

VARIABLE part

OneUser == [s \in Sockets |-> "u"]

\* On the one page a socket has one event waiting at most, and the bystander
\* only joins and leaves; beside two pages he does nothing.
WithinPart ==
  \A s \in Sockets :
    /\ ClientSends(s) =>
         IF part = "two_pages" THEN s # Bystander
         ELSE LET event == Last(queue'[s]) IN
              /\ queue[s] = <<>> /\ event.page = Page
              /\ s = Bystander => event.kind \in {"join", "leave"}
    /\ Disconnects(s) => part = "one_page" \/ s # Bystander

MeetingsInit == part \in {"one_page", "two_pages"} /\ Init
SessionsMove == Next /\ WithinPart /\ UNCHANGED part

\* Fairness asks nothing of clients, so the bounds do not stand in its way.
Meetings == MeetingsInit /\ [][SessionsMove]_<<vars, part>> /\ Fairness
=============================================================================
