------------------------------ MODULE Generation ------------------------------
(* Texts from the AI provider: ai.controller.ts and ai.service.ts.           *)
(*                                                                           *)
(* A reply is a sequence of lines and comes in chunks that may end anywhere: *)
(* in a line, before its line break, or at the end of the reply, which needs *)
(* no line break.  A line is three pieces here, its first half, its second   *)
(* half and the break.  A timer of AI_IDLE_TIMEOUT_MS, armed again with each *)
(* chunk, and the client's going away abort the request to the provider.     *)
EXTENDS Naturals, Sequences, FiniteSets

CONSTANTS
  Users, Requests, None,
  Replies,      \* sequences of lines: a "delta", an "error" of the provider, or
                \* "noise", a payload without content or [DONE]
  MaxStarted    \* bound on requests

GenerationAssumption ==
  /\ Replies \subseteq Seq({"delta", "noise", "error"})
  /\ None \notin Users /\ MaxStarted \in Nat

VARIABLES
  inFlightUserIds,
  run,        \* the requests under way
  answer,     \* how the last one of a request slot ended, and why
  started

vars == <<inFlightUserIds, run, answer, started>>

\* got and parsed count pieces; text is the lines whose delta the client has.
Idle == [pc |-> "idle", user |-> None, reply |-> <<>>, got |-> 0, text |-> {},
         timer |-> "off", gone |-> FALSE]
NoAnswer == [kind |-> "none", reply |-> <<>>, text |-> {}, cause |-> FALSE]
Pieces(reply) == 3 * Len(reply)

Run == [pc : {"idle", "open", "read"}, user : Users \cup {None},
        reply : Replies \cup {<<>>}, got : Nat, text : SUBSET Nat,
        timer : {"off", "armed", "fired"}, gone : BOOLEAN]
Answer == [kind : {"none", "done", "error"}, reply : Replies \cup {<<>>},
           text : SUBSET Nat, cause : BOOLEAN]

TypeOK ==
  /\ inFlightUserIds \subseteq Users
  /\ run \in [Requests -> Run] /\ answer \in [Requests -> Answer]
  /\ started \in 0..MaxStarted

Init ==
  /\ inFlightUserIds = {} /\ run = [r \in Requests |-> Idle]
  /\ answer = [r \in Requests |-> NoAnswer] /\ started = 0

At(r, pc) == run[r].pc = pc
Running(r) == run[r].pc \in {"open", "read"}

-----------------------------------------------------------------------------

\* Variant: the finally of the handler covers beginGeneration as well.
AfterRefusalReleased(u) == inFlightUserIds \ {u}

AfterRefusal(u) == inFlightUserIds

\* beginGeneration answers 409 to who has a generation under way.
beginGeneration(r, u, reply) ==
  /\ At(r, "idle") /\ started < MaxStarted /\ started' = started + 1
  /\ IF u \in inFlightUserIds
       THEN inFlightUserIds' = AfterRefusal(u) /\ UNCHANGED <<run, answer>>
       ELSE /\ inFlightUserIds' = inFlightUserIds \cup {u}
            /\ run' = [run EXCEPT ![r] = [Idle EXCEPT !.pc = "open", !.user = u,
                 !.reply = reply, !.timer = "armed"]]
            /\ answer' = [answer EXCEPT ![r] = NoAnswer]

\* The answer of either kind, JSON or the last event of the stream, and what the
\* finally of the handler and of the generator do.
Answers(r, kind, text, cause) ==
  /\ answer' = [answer EXCEPT ![r] =
       [kind |-> kind, reply |-> run[r].reply, text |-> text, cause |-> cause]]
  /\ run' = [run EXCEPT ![r] = Idle]
  /\ inFlightUserIds' = inFlightUserIds \ {run[r].user}

Aborted(r) == run[r].timer = "fired" \/ run[r].gone

\* Variant: the timer covers the opening only.
OpensAndCancels(r) ==
  /\ At(r, "open") /\ ~Aborted(r)
  /\ run' = [run EXCEPT ![r].pc = "read", ![r].timer = "off"]
  /\ UNCHANGED <<inFlightUserIds, answer, started>>

Opens(r) ==
  /\ At(r, "open") /\ ~Aborted(r)
  /\ run' = [run EXCEPT ![r].pc = "read", ![r].timer = "armed"]
  /\ UNCHANGED <<inFlightUserIds, answer, started>>

\* No key, no connection, an error status, or a connection that breaks.
ProviderFails(r) ==
  /\ Running(r) /\ Answers(r, "error", run[r].text, TRUE)
  /\ UNCHANGED started

\* A client that is gone gets no answer, whoever still waits gets a 504 or 502.
AbortEnds(r) ==
  /\ Running(r) /\ Aborted(r) /\ Answers(r, "error", run[r].text, TRUE)
  /\ UNCHANGED started

\* Variant: a line is handled as far as it has come.
LinesBegun(reply, from, to, done) ==
  {i \in DOMAIN reply : 3 * i > from /\ 3 * (i - 1) < to}

\* The lines a chunk completes: those whose break has come, and at the end what
\* is left in the buffer.
Lines(reply, from, to, done) ==
  {i \in DOMAIN reply :
     3 * i > from /\ (3 * i <= to \/ (done /\ 3 * (i - 1) < to))}

\* A half line does not parse.
Parses(reply, to, i) == reply[i] # "error" /\ to >= 3 * i - 1

\* The next chunk, or the end of the stream, which the provider may reach early
\* and which need not bring anything.  The deltas before a line that does not
\* parse have been told.
Reads(r, to, done) ==
  LET reply == run[r].reply
      lines == Lines(reply, run[r].got, to, done)
      bad == {i \in lines : ~Parses(reply, to, i)}
      text == run[r].text \cup
        {i \in lines : reply[i] = "delta" /\ \A j \in bad : i < j}
      early == done /\ to < Pieces(reply) - 1
  IN  /\ At(r, "read") /\ ~Aborted(r)
      /\ to \in run[r].got..Pieces(reply) /\ (to > run[r].got \/ done)
      /\ IF bad # {}
           THEN Answers(r, "error", text, early \/ \E i \in bad : reply[i] = "error")
         ELSE IF ~done
           THEN /\ run' = [run EXCEPT ![r].got = to, ![r].text = text,
                                      ![r].timer = "armed"]
                /\ UNCHANGED <<inFlightUserIds, answer>>
         ELSE Answers(r, IF text = {} THEN "error" ELSE "done", text,
                early \/ \A i \in DOMAIN reply : reply[i] # "delta")
      /\ UNCHANGED started

TimerFires(r) ==
  /\ run[r].timer = "armed" /\ run' = [run EXCEPT ![r].timer = "fired"]
  /\ UNCHANGED <<inFlightUserIds, answer, started>>

ClientCloses(r) ==
  /\ Running(r) /\ ~run[r].gone /\ run' = [run EXCEPT ![r].gone = TRUE]
  /\ UNCHANGED <<inFlightUserIds, answer, started>>

Next ==
  \E r \in Requests :
    \/ \E u \in Users, reply \in Replies : beginGeneration(r, u, reply)
    \/ Opens(r) \/ ProviderFails(r) \/ AbortEnds(r)
    \/ \E to \in 0..Pieces(run[r].reply), done \in BOOLEAN : Reads(r, to, done)
    \/ TimerFires(r) \/ ClientCloses(r)

Spec == Init /\ [][Next]_vars

\* A timer that is armed fires if nothing disarms it, and an aborted fetch or read
\* rejects; what the provider sends and the client does is up to them.
Fairness == \A r \in Requests : WF_vars(TimerFires(r)) /\ WF_vars(AbortEnds(r))

LiveSpec == Spec /\ Fairness

-----------------------------------------------------------------------------

\* A user has one generation under way and the set knows of it, whatever requests
\* are refused meanwhile.
OneGenerationAtATime ==
  /\ \A q, r \in Requests :
       Running(q) /\ Running(r) /\ run[q].user = run[r].user => q = r
  /\ inFlightUserIds = {run[r].user : r \in {q \in Requests : Running(q)}}

\* However a reply is cut into chunks, who is told it is done has all of it, unless
\* the provider ended the stream early (which the code takes for the end: it does
\* not ask for [DONE]); and an error has a cause outside the service.
AnswerFitsReply ==
  \A r \in Requests :
    LET a == answer[r] IN
    /\ a.kind = "done" /\ ~a.cause =>
         a.text = {i \in DOMAIN a.reply : a.reply[i] = "delta"}
    /\ a.kind = "error" => a.cause

\* A user is never locked out: the generation that holds his place ends, wherever
\* the provider stops sending and whatever the client does.  Each chunk sets the
\* idle timer again, so this is about replies that are finite.
PlaceIsReleased ==
  \A u \in Users : u \in inFlightUserIds ~> u \notin inFlightUserIds
=============================================================================
