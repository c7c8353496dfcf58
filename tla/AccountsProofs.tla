--------------------------- MODULE AccountsProofs ---------------------------
(* What users have beside pages, for every value of the constants.  Each     *)
(* component is proved by itself and then as a part of Accounts, the         *)
(* composition the run checks.                                               *)
EXTENDS MCAccounts, Sequences, Integers, FiniteSetTheorems, WellFoundedInduction, TLAPS

-----------------------------------------------------------------------------
(* Workspaces and their members: the rules hold although each is checked on  *)
(* rows read before the write.                                               *)

MemberKinds == {"add", "change", "remove"}

\* Each kind of request is where it can be, and names what it acts on.
RequestOK(q) ==
  /\ q.role # "OWNER"
  /\ q.pc # "idle" => q.actor \in Users
  /\ q.pc \notin {"idle", "create"} => q.ws \in Workspaces
  /\ q.pc \in {"target", "owner"} => q.kind \in MemberKinds
  /\ q.pc = "target" => q.kind # "add"
  /\ q.pc = "commit" => q.kind \in MemberKinds \cup {"update", "delete"}
  /\ q.pc = "announce" => q.kind \in {"change", "remove"}
  /\ q.pc # "idle" /\ q.kind \in MemberKinds => q.target \in Users

\* What its reads have told a request is still so: a workspace has no owner but
\* its founder, so nobody becomes or ceases to be one.
ChecksHold(q) ==
  /\ q.pc \in {"owner", "commit"} /\ q.kind \in {"change", "remove"}
       => owner[q.ws] # q.target
  /\ q.pc = "commit" /\ q.kind \in {"add", "change"} /\ q.role = "ADMIN"
       => owner[q.ws] \in {q.actor, None}

\* What a request has written and has to announce is still in the row, unless
\* another one has written it since.
Wrote(q) == IF q.kind = "change" THEN q.role ELSE "none"
PendingOK(q) ==
  q.pc = "announce" /\ owner[q.ws] # None =>
    <<q.ws, q.target>> \in crossed \/ role[q.ws][q.target] = Wrote(q)

NobodyInGone == \A w \in Workspaces, u \in Users : owner[w] = None => role[w][u] = "none"

Requested ==
  \A r \in Requests : RequestOK(run[r]) /\ ChecksHold(run[r]) /\ PendingOK(run[r])

WInv == TypeOK /\ NobodyInGone /\ OneOwner /\ OwnerMakesAdmins /\ Requested
          /\ PagesKnowTheRole

-----------------------------------------------------------------------------
(* Steps                                                                    *)

LEMMA InitHolds == Init => WInv
BY WorkspacesAssumption
   DEF Init, WInv, TypeOK, NobodyInGone, OneOwner, OwnerMakesAdmins, Requested,
       RequestOK, ChecksHold, PendingOK, PagesKnowTheRole, Idle, Run, Role, MemberKinds

\* A request comes, reads on, or ends without a write.
LEMMA QuietStep ==
  ASSUME WInv, NEW r \in Requests, NEW q \in Run,
         run' = [run EXCEPT ![r] = q], UNCHANGED <<rows, told, madeBy, crossed>>,
         started' \in 0..MaxStarted,
         RequestOK(q), ChecksHold(q), q.pc # "announce", ~At(r, "announce")
  PROVE  WInv'
<1>1. TypeOK'
  BY DEF WInv, TypeOK, rows
<1>2. Requested'
  <2> SUFFICES ASSUME NEW s \in Requests
               PROVE  (RequestOK(run[s]) /\ ChecksHold(run[s]) /\ PendingOK(run[s]))'
    BY DEF Requested
  <2>1. run'[s] = IF s = r THEN q ELSE run[s]
    BY DEF WInv, TypeOK
  <2>2. RequestOK(run[s]) /\ ChecksHold(run[s]) /\ PendingOK(run[s])
    BY DEF WInv, Requested
  <2> QED
    BY <2>1, <2>2 DEF RequestOK, ChecksHold, PendingOK, rows
<1>3. PagesKnowTheRole'
  <2> SUFFICES ASSUME NEW w \in Workspaces, NEW u \in Users, owner[w] # None,
                      told[w][u] # role[w][u], <<w, u>> \notin crossed
               PROVE  \E s \in Requests : run'[s].pc = "announce"
                                          /\ run'[s].ws = w /\ run'[s].target = u
    BY DEF PagesKnowTheRole, At, rows
  <2>1. PICK s \in Requests : At(s, "announce") /\ run[s].ws = w /\ run[s].target = u
    BY DEF WInv, PagesKnowTheRole
  <2>2. run'[s] = run[s]
    BY <2>1 DEF WInv, TypeOK, At
  <2> QED
    BY <2>1, <2>2 DEF At
<1> QED
  BY <1>1, <1>2, <1>3
     DEF WInv, NobodyInGone, OneOwner, OwnerMakesAdmins, rows

LEMMA CountKeeps ==
  ASSUME WInv, NEW r \in Requests, NEW u \in Users, CreateCounts(r, u)
  PROVE  WInv'
<1> DEFINE q == [Idle EXCEPT !.pc = "create", !.kind = "create", !.actor = u]
<1>1. q \in Run /\ RequestOK(q) /\ ChecksHold(q) /\ q.pc # "announce"
  BY DEF Idle, Run, Role, RequestOK, ChecksHold, MemberKinds
<1> HIDE DEF q
<1>2. run' = [run EXCEPT ![r] = q] /\ started' \in 0..MaxStarted /\ ~At(r, "announce")
  BY WorkspacesAssumption DEF WInv, TypeOK, CreateCounts, Starts, At, q
<1> QED
  BY <1>1, <1>2, QuietStep DEF CreateCounts

LEMMA AskedKeeps ==
  ASSUME WInv, NEW r \in Requests, NEW u \in Users, NEW w \in Workspaces
  PROVE  /\ \A kind \in {"update", "delete"} : OwnerAsks(r, u, w, kind) => WInv'
         /\ \A kind \in {"add", "change", "remove"}, t \in Users, p \in Role :
              MemberAsks(r, kind, u, w, t, p) => WInv'
<1>1. started \in 0..MaxStarted /\ MaxStarted \in Nat
  BY WorkspacesAssumption DEF WInv, TypeOK
<1>3. ASSUME NEW kind \in {"update", "delete"}, OwnerAsks(r, u, w, kind)
      PROVE  WInv'
  <2> DEFINE q == [Idle EXCEPT !.pc = "commit", !.kind = kind, !.actor = u, !.ws = w]
  <2>1. q \in Run /\ RequestOK(q) /\ ChecksHold(q) /\ q.pc # "announce"
    BY DEF Idle, Run, Role, RequestOK, ChecksHold, MemberKinds
  <2> HIDE DEF q
  <2>2. run' = [run EXCEPT ![r] = q] /\ started' \in 0..MaxStarted /\ ~At(r, "announce")
    BY <1>1, <1>3 DEF OwnerAsks, Starts, At, q
  <2> QED
    BY <1>3, <2>1, <2>2, QuietStep DEF OwnerAsks
<1>4. ASSUME NEW kind \in {"add", "change", "remove"}, NEW t \in Users, NEW p \in Role,
             MemberAsks(r, kind, u, w, t, p)
      PROVE  WInv'
  <2> DEFINE q == [pc |-> IF kind # "add" THEN "target"
                          ELSE IF p = "ADMIN" THEN "owner" ELSE "commit",
                   kind |-> kind, actor |-> u, ws |-> w, target |-> t, role |-> p,
                   actorRole |-> role[w][u]]
  <2>1. role[w][u] \in Role
    BY <1>4 DEF MemberAsks, CanManage, Managers, Role
  <2>2. q \in Run
    BY <2>1 DEF Run
  <2>3. RequestOK(q) /\ ChecksHold(q) /\ q.pc # "announce"
    BY <1>4 DEF MemberAsks, RequestOK, ChecksHold, MemberKinds
  <2> HIDE DEF q
  <2>4. run' = [run EXCEPT ![r] = q] /\ started' \in 0..MaxStarted /\ ~At(r, "announce")
    BY <1>1, <1>4 DEF MemberAsks, Starts, At, q
  <2> QED
    BY <1>4, <2>2, <2>3, <2>4, QuietStep DEF MemberAsks
<1> QED
  BY <1>3, <1>4

LEMMA ReadsKeep ==
  ASSUME WInv, NEW r \in Requests, TargetRead(r) \/ OwnerRead(r)
  PROVE  WInv'
<1>1. run[r] \in Run /\ RequestOK(run[r]) /\ ChecksHold(run[r])
  BY DEF WInv, TypeOK, Requested
<1>2. started' \in 0..MaxStarted /\ UNCHANGED <<rows, told, madeBy, crossed>>
      /\ ~At(r, "announce")
  BY DEF WInv, TypeOK, TargetRead, OwnerRead, At
<1>3. CASE Ends(r)
  <2>1. Idle \in Run /\ RequestOK(Idle) /\ ChecksHold(Idle) /\ Idle.pc # "announce"
    BY DEF Idle, Run, Role, RequestOK, ChecksHold, MemberKinds
  <2> QED
    BY <1>2, <1>3, <2>1, QuietStep DEF Ends
<1>4. ASSUME NEW pc \in {"owner", "commit"}, Goes(r, pc),
             ChecksHold([run[r] EXCEPT !.pc = pc])
      PROVE  WInv'
  <2> DEFINE q == [run[r] EXCEPT !.pc = pc]
  <2>1. q \in Run /\ q.pc # "announce"
    BY <1>1 DEF Run
  <2>2. run[r].pc \in {"target", "owner"}
    BY DEF TargetRead, OwnerRead, At
  <2>3. RequestOK(q)
    BY <1>1, <2>2 DEF RequestOK, MemberKinds, Run
  <2>4. run' = [run EXCEPT ![r] = q]
    BY <1>4 DEF Goes
  <2> HIDE DEF q
  <2>5. ChecksHold(q)
    BY <1>4 DEF q
  <2> QED
    BY <1>2, <2>1, <2>3, <2>4, <2>5, QuietStep
<1>5. CASE TargetRead(r) /\ ~Ends(r)
  <2> DEFINE w == run[r].ws
             pc == IF run[r].kind = "change" /\ run[r].role = "ADMIN"
                   THEN "owner" ELSE "commit"
  <2>1. Goes(r, pc) /\ role[w][run[r].target] # "OWNER"
    BY <1>5 DEF TargetRead, CanChange
  <2>2. w \in Workspaces /\ run[r].target \in Users /\ run[r].kind \in {"change", "remove"}
    BY <1>1, <1>5 DEF RequestOK, TargetRead, At, MemberKinds
  <2>3. owner[w] # run[r].target
    BY <2>1, <2>2 DEF WInv, OneOwner
  <2>4. ChecksHold([run[r] EXCEPT !.pc = pc])
    BY <1>1, <2>2, <2>3 DEF ChecksHold, Run
  <2> QED
    BY <1>4, <2>1, <2>4
<1>6. CASE OwnerRead(r) /\ ~Ends(r)
  <2>1. Goes(r, "commit") /\ role[run[r].ws][run[r].actor] = "OWNER" /\ run[r].pc = "owner"
    BY <1>6 DEF OwnerRead, IsOwner, At
  <2>2. run[r].ws \in Workspaces /\ run[r].actor \in Users
    BY <1>1, <2>1 DEF RequestOK
  <2>3. owner[run[r].ws] = run[r].actor
    BY <2>1, <2>2 DEF WInv, OneOwner
  <2>4. ChecksHold([run[r] EXCEPT !.pc = "commit"])
    BY <1>1, <2>1, <2>3 DEF ChecksHold, Run
  <2> QED
    BY <1>4, <2>1, <2>4
<1> QED
  BY <1>3, <1>5, <1>6

\* A commit makes role p of u in w; it is announced later, or told at once to a
\* member nobody knew.
LEMMA WriteStep ==
  ASSUME WInv, NEW r \in Requests, NEW w \in Workspaces, NEW u \in Users,
         NEW p \in Role \cup {"none"}, NEW q \in Run,
         Writes(r, w, u, p), run' = [run EXCEPT ![r] = q],
         UNCHANGED <<owner, public, started>>,
         owner[w] \notin {None, u}, p # "OWNER", p = "ADMIN" => run[r].actor = owner[w],
         run[r].actor \in Users, ~At(r, "announce"), RequestOK(q), ChecksHold(q),
         \/ q.pc = "idle" /\ told' = [told EXCEPT ![w][u] = p]
         \/ /\ q.pc = "announce" /\ q.ws = w /\ q.target = u /\ Wrote(q) = p
            /\ told' = told
  PROVE  WInv'
<1> USE DEF Writes
<1>1. TypeOK'
  <2>1. role' \in [Workspaces -> [Users -> Role \cup {"none"}]]
    BY DEF WInv, TypeOK
  <2>2. madeBy' \in [Workspaces -> [Users -> Users \cup {None}]]
    BY DEF WInv, TypeOK
  <2>3. told' \in [Workspaces -> [Users -> Role \cup {"none"}]]
    <3>1. told \in [Workspaces -> [Users -> Role \cup {"none"}]]
      BY DEF WInv, TypeOK
    <3>2. CASE told' = told
      BY <3>1, <3>2
    <3>3. CASE told' = [told EXCEPT ![w][u] = p]
      BY <3>1, <3>3
    <3> QED
      BY <3>2, <3>3
  <2>4. crossed' \in SUBSET (Workspaces \X Users)
    BY DEF WInv, TypeOK
  <2>5. run' \in [Requests -> Run]
    BY DEF WInv, TypeOK
  <2> QED
    BY <2>1, <2>2, <2>3, <2>4, <2>5 DEF WInv, TypeOK
<1>2. ASSUME NEW v \in Workspaces, NEW x \in Users
      PROVE  /\ role'[v][x] = IF v = w /\ x = u THEN p ELSE role[v][x]
             /\ madeBy'[v][x] = IF v = w /\ x = u THEN run[r].actor ELSE madeBy[v][x]
             /\ ~(v = w /\ x = u) => told'[v][x] = told[v][x]
  BY DEF WInv, TypeOK
<1>3. NobodyInGone' /\ OneOwner'
  BY <1>2 DEF WInv, NobodyInGone, OneOwner
<1>4. OwnerMakesAdmins'
  BY <1>2 DEF WInv, OwnerMakesAdmins
<1>5. \A s \in Requests : run'[s] = IF s = r THEN q ELSE run[s]
  BY DEF WInv, TypeOK
<1>6. crossed \subseteq crossed'
  OBVIOUS
<1>7. Requested'
  <2> SUFFICES ASSUME NEW s \in Requests
               PROVE  (RequestOK(run[s]) /\ ChecksHold(run[s]) /\ PendingOK(run[s]))'
    BY DEF Requested
  <2>1. RequestOK(run[s]) /\ ChecksHold(run[s]) /\ PendingOK(run[s])
    BY DEF WInv, Requested
  <2>2. (RequestOK(run[s]) /\ ChecksHold(run[s]))'
    BY <1>5, <2>1 DEF RequestOK, ChecksHold
  <2>3. PendingOK(run[s])'
    <3> SUFFICES ASSUME run'[s].pc = "announce", owner[run'[s].ws] # None,
                        <<run'[s].ws, run'[s].target>> \notin crossed'
                 PROVE  role'[run'[s].ws][run'[s].target] = Wrote(run'[s])
      BY DEF PendingOK, Wrote
    <3>1. CASE s = r
      BY <1>2, <1>5, <3>1
    <3>2. CASE s # r
      <4>1. run'[s] = run[s] /\ run[s].ws \in Workspaces /\ run[s].target \in Users
        BY <1>5, <2>1, <3>2 DEF RequestOK, MemberKinds
      <4>2. ~(run[s].ws = w /\ run[s].target = u)
        BY <3>2, <4>1 DEF Crosses, At
      <4>3. role'[run[s].ws][run[s].target] = role[run[s].ws][run[s].target]
        BY <1>2, <4>1, <4>2
      <4> QED
        BY <1>6, <2>1, <4>1, <4>3 DEF PendingOK
    <3> QED
      BY <3>1, <3>2
  <2> QED
    BY <2>2, <2>3
<1>8. PagesKnowTheRole'
  <2> SUFFICES ASSUME NEW v \in Workspaces, NEW x \in Users, owner[v] # None,
                      told'[v][x] # role'[v][x], <<v, x>> \notin crossed'
               PROVE  \E s \in Requests : run'[s].pc = "announce"
                                          /\ run'[s].ws = v /\ run'[s].target = x
    BY DEF PagesKnowTheRole, At
  <2>1. CASE v = w /\ x = u
    <3>1. role'[v][x] = p
      BY <1>2, <2>1
    <3>2. told' = [told EXCEPT ![w][u] = p] => told'[v][x] = p
      BY <2>1 DEF WInv, TypeOK
    <3> QED
      BY <1>5, <2>1, <3>1, <3>2
  <2>2. CASE ~(v = w /\ x = u)
    <3>1. told[v][x] # role[v][x] /\ <<v, x>> \notin crossed
      BY <1>2, <1>6, <2>2
    <3>2. PICK s \in Requests : At(s, "announce") /\ run[s].ws = v /\ run[s].target = x
      BY <3>1 DEF WInv, PagesKnowTheRole
    <3> QED
      BY <1>5, <3>2 DEF At
  <2> QED
    BY <2>1, <2>2
<1> QED
  BY <1>1, <1>3, <1>4, <1>7, <1>8 DEF WInv

LEMMA AddKeeps == ASSUME WInv, NEW r \in Requests, AddCommits(r) PROVE WInv'
<1> DEFINE w == run[r].ws  t == run[r].target
<1>1. run[r] \in Run /\ RequestOK(run[r]) /\ ChecksHold(run[r]) /\ ~At(r, "announce")
  BY DEF WInv, TypeOK, Requested, AddCommits, At
<1>2. w \in Workspaces /\ t \in Users /\ run[r].actor \in Users
      /\ run[r].role \in Role /\ run[r].role # "OWNER"
  BY <1>1 DEF RequestOK, AddCommits, At, MemberKinds, Run
<1>3. Idle \in Run /\ RequestOK(Idle) /\ ChecksHold(Idle) /\ Idle.pc = "idle"
  BY DEF Idle, Run, Role, RequestOK, ChecksHold, MemberKinds
<1>4. CASE owner[w] # None /\ role[w][t] = "none"
  <2>1. owner[w] # t
    BY <1>2, <1>4 DEF WInv, OneOwner
  <2>2. run[r].role = "ADMIN" => run[r].actor = owner[w]
    BY <1>1, <1>4 DEF ChecksHold, AddCommits, At
  <2>3. Writes(r, w, t, run[r].role) /\ told' = [told EXCEPT ![w][t] = run[r].role]
    BY <1>4 DEF AddCommits
  <2> QED
    BY <1>1, <1>2, <1>3, <1>4, <2>1, <2>2, <2>3, WriteStep DEF AddCommits, Ends
<1>5. CASE ~(owner[w] # None /\ role[w][t] = "none")
  <2>1. UNCHANGED <<rows, told, madeBy, crossed>> /\ started' \in 0..MaxStarted
    BY <1>5 DEF AddCommits, rows, WInv, TypeOK
  <2> QED
    BY <1>1, <1>3, <2>1, QuietStep DEF AddCommits, Ends
<1> QED
  BY <1>4, <1>5

LEMMA ChangeKeeps == ASSUME WInv, NEW r \in Requests, ChangeCommits(r) PROVE WInv'
<1> DEFINE w == run[r].ws  t == run[r].target
           p == IF run[r].kind = "change" THEN run[r].role ELSE "none"
<1>1. run[r] \in Run /\ RequestOK(run[r]) /\ ChecksHold(run[r]) /\ ~At(r, "announce")
      /\ run[r].pc = "commit" /\ run[r].kind \in {"change", "remove"}
  BY DEF WInv, TypeOK, Requested, ChangeCommits, At
<1>2. w \in Workspaces /\ t \in Users /\ run[r].actor \in Users
      /\ p \in Role \cup {"none"} /\ p # "OWNER"
  BY <1>1 DEF RequestOK, MemberKinds, Run
<1>3. CASE role[w][t] = "none"
  <2>1. Idle \in Run /\ RequestOK(Idle) /\ ChecksHold(Idle) /\ Idle.pc = "idle"
    BY DEF Idle, Run, Role, RequestOK, ChecksHold, MemberKinds
  <2>2. UNCHANGED <<rows, told, madeBy, crossed>> /\ started' \in 0..MaxStarted
        /\ run' = [run EXCEPT ![r] = Idle]
    BY <1>3 DEF ChangeCommits, Ends, rows, WInv, TypeOK
  <2> QED
    BY <1>1, <2>1, <2>2, QuietStep
<1>4. CASE role[w][t] # "none"
  <2> DEFINE q == [run[r] EXCEPT !.pc = "announce"]
  <2>1. owner[w] \notin {None, t}
    BY <1>1, <1>2, <1>4 DEF WInv, NobodyInGone, ChecksHold
  <2>2. p = "ADMIN" => run[r].actor = owner[w]
    BY <1>1, <2>1 DEF ChecksHold
  <2>3. Writes(r, w, t, p) /\ run' = [run EXCEPT ![r] = q]
        /\ UNCHANGED <<owner, public, started, told>>
    BY <1>4 DEF ChangeCommits, Goes
  <2>4. q \in Run /\ q.pc = "announce" /\ q.ws = w /\ q.target = t /\ Wrote(q) = p
    BY <1>1 DEF Run, Wrote
  <2>5. RequestOK(q) /\ ChecksHold(q)
    BY <1>1 DEF RequestOK, ChecksHold, MemberKinds, Run
  <2> HIDE DEF q
  <2> QED
    BY <1>1, <1>2, <2>1, <2>2, <2>3, <2>4, <2>5, WriteStep
<1> QED
  BY <1>3, <1>4

\* The name of a workspace that has gone is used again only when no request
\* holds it.
LEMMA CreateKeeps ==
  ASSUME WInv, NEW r \in Requests, NEW w \in Workspaces, CreateCommits(r, w)
  PROVE  WInv'
<1> DEFINE u == run[r].actor
           first == [x \in Users |-> IF x = u THEN "OWNER" ELSE "none"]
<1>1. u \in Users /\ owner[w] = None /\ \A q \in Requests : run[q].ws # w
  BY DEF WInv, Requested, RequestOK, CreateCommits, At
<1>2. /\ owner' = [owner EXCEPT ![w] = u] /\ role' = [role EXCEPT ![w] = first]
      /\ told' = [told EXCEPT ![w] = first] /\ madeBy' = [madeBy EXCEPT ![w][u] = u]
      /\ public' = [public EXCEPT ![w] = FALSE]
      /\ crossed' = {c \in crossed : c[1] # w}
      /\ run' = [run EXCEPT ![r] = Idle] /\ started' = started
  BY DEF CreateCommits, Ends
<1>3. first \in [Users -> Role \cup {"none"}]
      /\ \A x \in Users : first[x] = IF x = u THEN "OWNER" ELSE "none"
  BY DEF Role
<1> HIDE DEF first
<1>4. Idle \in Run /\ RequestOK(Idle) /\ Idle.pc = "idle"
  BY DEF Idle, Run, Role, RequestOK, MemberKinds
<1>5. TypeOK'
  <2>1. owner' \in [Workspaces -> Users \cup {None}]
    BY <1>1, <1>2 DEF WInv, TypeOK
  <2>2. role' \in [Workspaces -> [Users -> Role \cup {"none"}]]
        /\ told' \in [Workspaces -> [Users -> Role \cup {"none"}]]
    BY <1>2, <1>3 DEF WInv, TypeOK
  <2>3. madeBy' \in [Workspaces -> [Users -> Users \cup {None}]]
    BY <1>1, <1>2 DEF WInv, TypeOK
  <2>4. public' \in [Workspaces -> BOOLEAN] /\ crossed' \in SUBSET (Workspaces \X Users)
        /\ run' \in [Requests -> Run] /\ started' \in 0..MaxStarted
    BY <1>2, <1>4 DEF WInv, TypeOK
  <2> QED
    BY <2>1, <2>2, <2>3, <2>4 DEF TypeOK
<1>6. \A v \in Workspaces : v # w => owner'[v] = owner[v] /\ role'[v] = role[v]
                                      /\ told'[v] = told[v] /\ madeBy'[v] = madeBy[v]
  BY <1>2 DEF WInv, TypeOK
<1>7. owner'[w] = u /\ role'[w] = first /\ told'[w] = first
  BY <1>2 DEF WInv, TypeOK
<1>8. NobodyInGone' /\ OneOwner'
  BY <1>1, <1>3, <1>6, <1>7, WorkspacesAssumption DEF WInv, NobodyInGone, OneOwner
<1>9. OwnerMakesAdmins'
  BY <1>3, <1>6, <1>7 DEF WInv, OwnerMakesAdmins
<1>10. \A s \in Requests : run'[s] = IF s = r THEN Idle ELSE run[s]
  BY <1>2 DEF WInv, TypeOK
<1>11. Requested'
  <2> SUFFICES ASSUME NEW s \in Requests
               PROVE  (RequestOK(run[s]) /\ ChecksHold(run[s]) /\ PendingOK(run[s]))'
    BY DEF Requested
  <2>1. CASE s = r
    BY <1>4, <1>10, <2>1 DEF RequestOK, ChecksHold, PendingOK
  <2>2. CASE s # r
    <3>1. run'[s] = run[s] /\ run[s].ws # w
          /\ RequestOK(run[s]) /\ ChecksHold(run[s]) /\ PendingOK(run[s])
      BY <1>1, <1>10, <2>2 DEF WInv, Requested
    <3>2. RequestOK(run[s])'
      BY <3>1 DEF RequestOK
    <3>3. run[s].pc \notin {"idle", "create"}
            => owner'[run[s].ws] = owner[run[s].ws] /\ role'[run[s].ws] = role[run[s].ws]
      BY <1>6, <3>1 DEF RequestOK
    <3>4. ChecksHold(run[s])'
      BY <3>1, <3>3 DEF ChecksHold
    <3>5. PendingOK(run[s])'
      BY <1>2, <3>1, <3>3 DEF PendingOK, Wrote
    <3> QED
      BY <3>2, <3>4, <3>5
  <2> QED
    BY <2>1, <2>2
<1>12. PagesKnowTheRole'
  <2> SUFFICES ASSUME NEW v \in Workspaces, NEW x \in Users, owner'[v] # None,
                      told'[v][x] # role'[v][x], <<v, x>> \notin crossed'
               PROVE  \E s \in Requests : run'[s].pc = "announce"
                                          /\ run'[s].ws = v /\ run'[s].target = x
    BY DEF PagesKnowTheRole, At
  <2>1. v # w
    BY <1>7
  <2>2. told[v][x] # role[v][x] /\ <<v, x>> \notin crossed /\ owner[v] # None
    BY <1>2, <1>6, <2>1
  <2>3. PICK s \in Requests : At(s, "announce") /\ run[s].ws = v /\ run[s].target = x
    BY <2>2 DEF WInv, PagesKnowTheRole
  <2>4. s # r
    BY <2>3 DEF At, CreateCommits
  <2> QED
    BY <1>10, <2>3, <2>4 DEF At
<1> QED
  BY <1>5, <1>8, <1>9, <1>11, <1>12 DEF WInv

\* The owner's own commits: the settings, and the end of the workspace.
LEMMA OwnerKeeps ==
  ASSUME WInv, NEW r \in Requests, UpdateCommits(r) \/ DeleteCommits(r)
  PROVE  WInv'
<1> DEFINE w == run[r].ws
           gone == [x \in Users |-> "none"]
<1>1. w \in Workspaces /\ run[r].pc = "commit"
      /\ run' = [run EXCEPT ![r] = Idle] /\ UNCHANGED <<started, told, madeBy, crossed>>
  BY DEF WInv, Requested, RequestOK, UpdateCommits, DeleteCommits, At, Ends
<1>2. Idle \in Run /\ RequestOK(Idle) /\ Idle.pc = "idle"
  BY DEF Idle, Run, Role, RequestOK, MemberKinds
<1>3. \A s \in Requests : run'[s] = IF s = r THEN Idle ELSE run[s]
  BY <1>1 DEF WInv, TypeOK
<1>4. public' \in [Workspaces -> BOOLEAN]
  BY <1>1 DEF WInv, TypeOK, UpdateCommits, DeleteCommits
<1>5. \/ UNCHANGED <<owner, role>>
      \/ owner' = [owner EXCEPT ![w] = None] /\ role' = [role EXCEPT ![w] = gone]
  BY DEF UpdateCommits, DeleteCommits
<1>6. /\ owner' \in [Workspaces -> Users \cup {None}]
      /\ role' \in [Workspaces -> [Users -> Role \cup {"none"}]]
  <2>1. gone \in [Users -> Role \cup {"none"}]
    OBVIOUS
  <2> HIDE DEF gone
  <2>2. CASE UNCHANGED <<owner, role>>
    BY <2>2 DEF WInv, TypeOK
  <2>3. CASE owner' = [owner EXCEPT ![w] = None] /\ role' = [role EXCEPT ![w] = gone]
    BY <1>1, <2>1, <2>3 DEF WInv, TypeOK
  <2> QED
    BY <1>5, <2>2, <2>3
<1>7. TypeOK'
  BY <1>1, <1>2, <1>4, <1>6 DEF WInv, TypeOK
<1>8. \A v \in Workspaces :
        \/ owner'[v] = owner[v] /\ role'[v] = role[v]
        \/ owner'[v] = None /\ \A x \in Users : role'[v][x] = "none"
  BY <1>1, <1>5 DEF WInv, TypeOK
<1>9. NobodyInGone' /\ OneOwner'
  BY <1>8, WorkspacesAssumption DEF WInv, NobodyInGone, OneOwner
<1>10. OwnerMakesAdmins'
  BY <1>1, <1>8 DEF WInv, OwnerMakesAdmins
<1>11. Requested'
  <2> SUFFICES ASSUME NEW s \in Requests
               PROVE  (RequestOK(run[s]) /\ ChecksHold(run[s]) /\ PendingOK(run[s]))'
    BY DEF Requested
  <2>1. CASE s = r
    BY <1>2, <1>3, <2>1 DEF RequestOK, ChecksHold, PendingOK
  <2>2. CASE s # r
    <3>1. run'[s] = run[s]
          /\ RequestOK(run[s]) /\ ChecksHold(run[s]) /\ PendingOK(run[s])
      BY <1>3, <2>2 DEF WInv, Requested
    <3>2. RequestOK(run[s])'
      BY <3>1 DEF RequestOK
    <3>3. ChecksHold(run[s])'
      <4>1. run[s].pc \in {"owner", "commit"} /\ run[s].kind \in {"change", "remove"}
              => run[s].target \in Users /\ run[s].ws \in Workspaces
        BY <3>1 DEF RequestOK, MemberKinds
      <4> QED
        BY <1>8, <3>1, <4>1, WorkspacesAssumption DEF ChecksHold, RequestOK
    <3>4. PendingOK(run[s])'
      <4> SUFFICES ASSUME run[s].pc = "announce", owner'[run[s].ws] # None
                   PROVE  \/ <<run[s].ws, run[s].target>> \in crossed
                          \/ role'[run[s].ws][run[s].target] = Wrote(run[s])
        BY <1>1, <3>1 DEF PendingOK, Wrote
      <4>1. run[s].ws \in Workspaces
        BY <3>1 DEF RequestOK
      <4> QED
        BY <1>8, <3>1, <4>1 DEF PendingOK
    <3> QED
      BY <3>2, <3>3, <3>4
  <2> QED
    BY <2>1, <2>2
<1>12. PagesKnowTheRole'
  <2> SUFFICES ASSUME NEW v \in Workspaces, NEW x \in Users, owner'[v] # None,
                      told[v][x] # role'[v][x], <<v, x>> \notin crossed
               PROVE  \E s \in Requests : run'[s].pc = "announce"
                                          /\ run'[s].ws = v /\ run'[s].target = x
    BY <1>1 DEF PagesKnowTheRole, At
  <2>1. PICK s \in Requests : At(s, "announce") /\ run[s].ws = v /\ run[s].target = x
    BY <1>8 DEF WInv, PagesKnowTheRole
  <2> QED
    BY <1>1, <1>3, <2>1 DEF At
<1> QED
  BY <1>7, <1>9, <1>10, <1>11, <1>12 DEF WInv

\* An announcement tells the pages what its request wrote.
LEMMA AnnounceKeeps == ASSUME WInv, NEW r \in Requests, Announces(r) PROVE WInv'
<1> DEFINE w == run[r].ws  t == run[r].target
<1>1. run[r] \in Run /\ RequestOK(run[r]) /\ PendingOK(run[r]) /\ run[r].pc = "announce"
  BY DEF WInv, TypeOK, Requested, Announces, At
<1>2. w \in Workspaces /\ t \in Users /\ Wrote(run[r]) \in Role \cup {"none"}
  BY <1>1 DEF RequestOK, MemberKinds, Run, Wrote
<1>3. told' = [told EXCEPT ![w][t] = Wrote(run[r])] /\ run' = [run EXCEPT ![r] = Idle]
      /\ UNCHANGED <<owner, role, public, started, madeBy, crossed>>
  BY DEF Announces, Ends, rows, Wrote
<1>4. Idle \in Run /\ RequestOK(Idle) /\ Idle.pc = "idle"
  BY DEF Idle, Run, Role, RequestOK, MemberKinds
<1>5. TypeOK'
  <2>1. told' \in [Workspaces -> [Users -> Role \cup {"none"}]]
    BY <1>2, <1>3 DEF WInv, TypeOK
  <2> QED
    BY <1>3, <1>4, <2>1 DEF WInv, TypeOK
<1>6. \A s \in Requests : run'[s] = IF s = r THEN Idle ELSE run[s]
  BY <1>3 DEF WInv, TypeOK
<1>7. Requested'
  BY <1>3, <1>4, <1>6
     DEF WInv, Requested, RequestOK, ChecksHold, PendingOK, Wrote
<1>8. PagesKnowTheRole'
  <2> SUFFICES ASSUME NEW v \in Workspaces, NEW x \in Users, owner[v] # None,
                      told'[v][x] # role[v][x], <<v, x>> \notin crossed
               PROVE  \E s \in Requests : run'[s].pc = "announce"
                                          /\ run'[s].ws = v /\ run'[s].target = x
    BY <1>3 DEF PagesKnowTheRole, At
  <2>1. CASE v = w /\ x = t
    <3>1. told'[v][x] = Wrote(run[r])
      BY <1>2, <1>3, <2>1 DEF WInv, TypeOK
    <3> QED
      BY <1>1, <2>1, <3>1 DEF PendingOK
  <2>2. CASE ~(v = w /\ x = t)
    <3>1. told'[v][x] = told[v][x]
      BY <1>2, <1>3, <2>2 DEF WInv, TypeOK
    <3>2. PICK s \in Requests : At(s, "announce") /\ run[s].ws = v /\ run[s].target = x
      BY <3>1 DEF WInv, PagesKnowTheRole
    <3>3. s # r
      BY <2>2, <3>2
    <3> QED
      BY <1>6, <3>2, <3>3 DEF At
  <2> QED
    BY <2>1, <2>2
<1> QED
  BY <1>3, <1>5, <1>7, <1>8 DEF WInv, NobodyInGone, OneOwner, OwnerMakesAdmins

LEMMA StepKeeps == ASSUME WInv, [Next]_vars PROVE WInv'
<1>1. CASE UNCHANGED vars
  BY <1>1 DEF vars, rows, WInv, TypeOK, NobodyInGone, OneOwner, OwnerMakesAdmins,
              Requested, RequestOK, ChecksHold, PendingOK, Wrote, PagesKnowTheRole, At
<1>2. CASE Next
  <2>1. PICK r \in Requests :
          \/ \E u \in Users : CreateCounts(r, u)
          \/ \E w \in Workspaces : CreateCommits(r, w)
          \/ \E u \in Users, w \in Workspaces :
               \/ \E kind \in {"update", "delete"} : OwnerAsks(r, u, w, kind)
               \/ \E kind \in {"add", "change", "remove"}, t \in Users, p \in Role :
                    MemberAsks(r, kind, u, w, t, p)
          \/ UpdateCommits(r) \/ DeleteCommits(r) \/ TargetRead(r) \/ OwnerRead(r)
          \/ AddCommits(r) \/ ChangeCommits(r) \/ Announces(r)
    BY <1>2 DEF Next
  <2>2. ASSUME NEW u \in Users, CreateCounts(r, u) PROVE WInv'
    BY <2>2, CountKeeps
  <2>3. ASSUME NEW w \in Workspaces, CreateCommits(r, w) PROVE WInv'
    BY <2>3, CreateKeeps
  <2>4. ASSUME NEW u \in Users, NEW w \in Workspaces,
               \/ \E kind \in {"update", "delete"} : OwnerAsks(r, u, w, kind)
               \/ \E kind \in {"add", "change", "remove"}, t \in Users, p \in Role :
                    MemberAsks(r, kind, u, w, t, p)
        PROVE  WInv'
    BY <2>4, AskedKeeps
  <2>5. CASE UpdateCommits(r) \/ DeleteCommits(r)
    BY <2>5, OwnerKeeps
  <2>6. CASE TargetRead(r) \/ OwnerRead(r)
    BY <2>6, ReadsKeep
  <2>7. CASE AddCommits(r)
    BY <2>7, AddKeeps
  <2>8. CASE ChangeCommits(r)
    BY <2>8, ChangeKeeps
  <2>9. CASE Announces(r)
    BY <2>9, AnnounceKeeps
  <2> QED
    BY <2>1, <2>2, <2>3, <2>4, <2>5, <2>6, <2>7, <2>8, <2>9
<1> QED
  BY <1>1, <1>2

-----------------------------------------------------------------------------
(* The theorems                                                             *)

\* What the requests have read about owners stays true until they commit, and
\* what they have still to announce is what the database holds: the inductive
\* invariant of workspaces.service.ts and workspace-members.service.ts.
THEOREM WorkspacesInvariant == Spec => []WInv
BY InitHolds, StepKeeps, PTL DEF Spec

\* Every variable has its type.
THEOREM WorkspacesTyped == Spec => []TypeOK
<1>1. WInv => TypeOK
  BY DEF WInv
<1> QED
  BY <1>1, WorkspacesInvariant, PTL

\* A workspace keeps exactly one OWNER, its founder, whatever role changes and
\* removals run against each other on roles read earlier
\* (assertCanChangeRole and assertNotSelf of workspace-members.service.ts).
THEOREM FounderStaysOwner == Spec => []OneOwner
<1>1. WInv => OneOwner
  BY DEF WInv
<1> QED
  BY <1>1, WorkspacesInvariant, PTL

\* Every ADMIN was made one by the owner, although assertOwner reads the actor's
\* role a query before the write.
THEOREM AdminsComeFromOwner == Spec => []OwnerMakesAdmins
<1>1. WInv => OwnerMakesAdmins
  BY DEF WInv
<1> QED
  BY <1>1, WorkspacesInvariant, PTL

\* applyMembership was last called with the role in the database, once every
\* change is announced, unless two changes of one membership crossed.
THEOREM PagesAreTold == Spec => []PagesKnowTheRole
<1>1. WInv => PagesKnowTheRole
  BY DEF WInv
<1> QED
  BY <1>1, WorkspacesInvariant, PTL

-----------------------------------------------------------------------------
(* The limit of workspaces: it is counted before the row is made               *)

\* What one step does to the workspaces of a user and to his creates.
LimitPass(u) ==
  \/ Owned(u)' \subseteq Owned(u) /\ Creating(u)' \subseteq Creating(u)
  \/ /\ \E w : Owned(u)' \subseteq Owned(u) \cup {w}
     /\ \E r \in Creating(u) : Creating(u)' \subseteq Creating(u) \ {r}
  \/ Owned(u)' = Owned(u) /\ BelowLimit(u)

LEMMA StepPasses == ASSUME TypeOK, [Next]_vars, NEW u \in Users PROVE LimitPass(u)
<1> USE DEF rows
<1>0. None \notin Users
  BY WorkspacesAssumption
<1>1. ASSUME NEW r \in Requests, NEW q, run' = [run EXCEPT ![r] = q],
             q.pc # "create" \/ q.actor # u
      PROVE  Creating(u)' \subseteq Creating(u) \ {r}
  BY <1>1 DEF TypeOK, Creating, At
<1>2. Idle.pc # "create"
  BY DEF Idle
<1>3. ASSUME NEW r \in Requests, NEW q, run' = [run EXCEPT ![r] = q], q.pc # "create",
             Owned(u)' \subseteq Owned(u)
      PROVE  LimitPass(u)
  BY <1>1, <1>3 DEF LimitPass
<1>4. ASSUME NEW r \in Requests, NEW v \in Users, CreateCounts(r, v) PROVE LimitPass(u)
  <2> DEFINE q == [Idle EXCEPT !.pc = "create", !.kind = "create", !.actor = v]
  <2>1. q.actor = v /\ run' = [run EXCEPT ![r] = q] /\ owner' = owner
    BY <1>4 DEF CreateCounts, Starts, Idle
  <2>2. Owned(u)' = Owned(u)
    BY <2>1 DEF Owned
  <2>3. CASE v = u
    BY <1>4, <2>2, <2>3 DEF CreateCounts, LimitPass
  <2>4. CASE v # u
    <3> HIDE DEF q
    <3> QED
      BY <1>1, <2>1, <2>2, <2>4 DEF LimitPass
  <2> QED
    BY <2>3, <2>4
<1>5. ASSUME NEW r \in Requests, NEW w \in Workspaces, CreateCommits(r, w)
      PROVE  LimitPass(u)
  <2>1. /\ At(r, "create") /\ run' = [run EXCEPT ![r] = Idle]
        /\ owner' = [owner EXCEPT ![w] = run[r].actor]
    BY <1>5 DEF CreateCommits, Ends
  <2>2. Creating(u)' \subseteq Creating(u) \ {r}
    BY <1>1, <1>2, <2>1
  <2>3. CASE run[r].actor = u
    <3>1. r \in Creating(u)
      BY <2>1, <2>3 DEF Creating
    <3>2. Owned(u)' \subseteq Owned(u) \cup {w}
      BY <2>1 DEF Owned, TypeOK
    <3> QED
      BY <2>2, <3>1, <3>2 DEF LimitPass
  <2>4. CASE run[r].actor # u
    <3>1. Owned(u)' \subseteq Owned(u)
      BY <2>1, <2>4 DEF Owned, TypeOK
    <3> QED
      BY <2>2, <3>1 DEF LimitPass
  <2> QED
    BY <2>3, <2>4
<1>6. ASSUME NEW r \in Requests, NEW v \in Users, NEW w \in Workspaces,
             NEW kind \in {"update", "delete"}, OwnerAsks(r, v, w, kind)
      PROVE  LimitPass(u)
  <2> DEFINE q == [Idle EXCEPT !.pc = "commit", !.kind = kind, !.actor = v, !.ws = w]
  <2>1. q.pc # "create" /\ run' = [run EXCEPT ![r] = q] /\ owner' = owner
    BY <1>6 DEF OwnerAsks, Starts, Idle
  <2> HIDE DEF q
  <2> QED
    BY <1>3, <2>1 DEF Owned
<1>7. ASSUME NEW r \in Requests, NEW v \in Users, NEW w \in Workspaces, NEW t \in Users,
             NEW kind \in {"add", "change", "remove"}, NEW p \in Role,
             MemberAsks(r, kind, v, w, t, p)
      PROVE  LimitPass(u)
  <2> DEFINE q == [pc |-> IF kind # "add" THEN "target"
                          ELSE IF p = "ADMIN" THEN "owner" ELSE "commit",
                   kind |-> kind, actor |-> v, ws |-> w, target |-> t, role |-> p,
                   actorRole |-> role[w][v]]
  <2>1. q.pc # "create" /\ run' = [run EXCEPT ![r] = q] /\ owner' = owner
    BY <1>7 DEF MemberAsks, Starts
  <2> HIDE DEF q
  <2> QED
    BY <1>3, <2>1 DEF Owned
<1>8. ASSUME NEW r \in Requests,
             UpdateCommits(r) \/ DeleteCommits(r) \/ AddCommits(r) \/ Announces(r)
      PROVE  LimitPass(u)
  <2>1. run' = [run EXCEPT ![r] = Idle]
        /\ (owner' = owner \/ owner' = [owner EXCEPT ![run[r].ws] = None])
    BY <1>8 DEF UpdateCommits, DeleteCommits, AddCommits, Announces, Ends
  <2>2. Owned(u)' \subseteq Owned(u)
    BY <1>0, <2>1 DEF Owned, TypeOK
  <2> QED
    BY <1>2, <1>3, <2>1, <2>2
<1>9. ASSUME NEW r \in Requests, TargetRead(r) \/ OwnerRead(r) \/ ChangeCommits(r)
      PROVE  LimitPass(u)
  <2>1. owner' = owner /\ (Ends(r) \/ \E pc \in {"owner", "commit", "announce"} : Goes(r, pc))
    BY <1>9 DEF TargetRead, OwnerRead, ChangeCommits
  <2>2. Owned(u)' = Owned(u)
    BY <2>1 DEF Owned
  <2>3. CASE Ends(r)
    BY <1>2, <1>3, <2>2, <2>3 DEF Ends
  <2>4. ASSUME NEW pc \in {"owner", "commit", "announce"}, Goes(r, pc) PROVE LimitPass(u)
    <3>1. PICK q : q = [run[r] EXCEPT !.pc = pc]
      OBVIOUS
    <3>2. run[r] \in Run
      BY DEF TypeOK
    <3>3. q.pc # "create" /\ run' = [run EXCEPT ![r] = q]
      BY <2>4, <3>1, <3>2 DEF Goes, Run
    <3> QED
      BY <1>3, <2>2, <3>3
  <2> QED
    BY <2>1, <2>3, <2>4
<1>10. CASE UNCHANGED vars
  BY <1>10 DEF vars, LimitPass, Owned, Creating, At
<1> QED
  BY <1>4, <1>5, <1>6, <1>7, <1>8, <1>9, <1>10 DEF Next

LEMMA LimitStays ==
  ASSUME LimitHoldsButForOverlap, \A u \in Users : LimitPass(u)
  PROVE  LimitHoldsButForOverlap'
<1> SUFFICES ASSUME NEW u \in Users, Owned(u)' # {} \/ Creating(u)' # {}
             PROVE  Cardinality(Owned(u)') + Cardinality(Creating(u)')
                      <= MaxWorkspaces + Cardinality(Requests) - 1
  BY DEF LimitHoldsButForOverlap
<1> DEFINE n == Cardinality(Owned(u))    i == Cardinality(Creating(u))
           n2 == Cardinality(Owned(u)')  i2 == Cardinality(Creating(u)')
           all == Cardinality(Requests)
<1>1. /\ IsFiniteSet(Owned(u)) /\ n \in Nat /\ IsFiniteSet(Owned(u)') /\ n2 \in Nat
      /\ IsFiniteSet(Creating(u)) /\ i \in Nat /\ IsFiniteSet(Creating(u)') /\ i2 \in Nat
      /\ i2 <= all /\ all \in Nat /\ MaxWorkspaces \in Nat
  <2>1. Owned(u) \subseteq Workspaces /\ Owned(u)' \subseteq Workspaces
    BY DEF Owned
  <2>2. Creating(u) \subseteq Requests /\ Creating(u)' \subseteq Requests
    BY DEF Creating
  <2> QED
    BY <2>1, <2>2, FS_Subset, FS_CardinalityType, WorkspacesAssumption
<1>2. Owned(u) # {} \/ Creating(u) # {} => n + i <= MaxWorkspaces + all - 1
  BY DEF LimitHoldsButForOverlap
<1>3. CASE Owned(u)' \subseteq Owned(u) /\ Creating(u)' \subseteq Creating(u)
  <2>1. n2 <= n /\ i2 <= i
    BY <1>1, <1>3, FS_Subset
  <2>2. n + i <= MaxWorkspaces + all - 1
    BY <1>2, <1>3
  <2> HIDE DEF n, i, n2, i2, all
  <2>3. n2 + i2 <= MaxWorkspaces + all - 1
    BY <1>1, <2>1, <2>2
  <2> QED
    BY <2>3 DEF n2, i2, all
<1>4. CASE /\ \E w : Owned(u)' \subseteq Owned(u) \cup {w}
           /\ \E r \in Creating(u) : Creating(u)' \subseteq Creating(u) \ {r}
  <2>1. PICK w : Owned(u)' \subseteq Owned(u) \cup {w}
    BY <1>4
  <2>2. PICK r \in Creating(u) : Creating(u)' \subseteq Creating(u) \ {r}
    BY <1>4
  <2>3. n2 <= n + 1
    <3>1. /\ IsFiniteSet(Owned(u) \cup {w})
          /\ Cardinality(Owned(u) \cup {w}) \in {n, n + 1}
      BY <1>1, FS_AddElement
    <3>2. n2 <= Cardinality(Owned(u) \cup {w})
      BY <2>1, <3>1, FS_Subset
    <3> QED
      BY <1>1, <3>1, <3>2
  <2>4. i2 + 1 <= i
    <3>1. /\ IsFiniteSet(Creating(u) \ {r}) /\ Cardinality(Creating(u) \ {r}) = i - 1
      BY <1>1, FS_RemoveElement
    <3>2. i2 <= Cardinality(Creating(u) \ {r})
      BY <2>2, <3>1, FS_Subset
    <3> QED
      BY <1>1, <3>1, <3>2
  <2>5. n + i <= MaxWorkspaces + all - 1
    BY <1>2, <2>2
  <2> HIDE DEF n, i, n2, i2, all
  <2>6. n2 + i2 <= MaxWorkspaces + all - 1
    BY <1>1, <2>3, <2>4, <2>5
  <2> QED
    BY <2>6 DEF n2, i2, all
<1>5. CASE Owned(u)' = Owned(u) /\ BelowLimit(u)
  <2>1. n2 < MaxWorkspaces
    BY <1>5 DEF BelowLimit
  <2> HIDE DEF n2, i2, all
  <2>2. n2 + i2 <= MaxWorkspaces + all - 1
    BY <1>1, <2>1
  <2> QED
    BY <2>2 DEF n2, i2, all
<1> QED
  BY <1>3, <1>4, <1>5 DEF LimitPass

\* WorkspacesService.create counts before it inserts: a user has more workspaces than
\* MAX_WORKSPACES_PER_USER only by creates of his that run at the same time.
LEMMA WorkspaceLimitHolds == Spec => []LimitHoldsButForOverlap
<1>1. Init => LimitHoldsButForOverlap
  <2> SUFFICES ASSUME Init, NEW u \in Users PROVE Owned(u) = {} /\ Creating(u) = {}
    BY DEF LimitHoldsButForOverlap
  <2> QED
    BY WorkspacesAssumption DEF Init, Owned, Creating, At, Idle
<1>2. TypeOK /\ LimitHoldsButForOverlap /\ [Next]_vars => LimitHoldsButForOverlap'
  BY StepPasses, LimitStays
<1>3. Spec => []TypeOK
  BY WorkspacesTyped
<1> QED
  BY <1>1, <1>2, <1>3, PTL DEF Spec

-----------------------------------------------------------------------------
(* Generated texts, each a request of its own beside the set of users          *)

\* A request that reads has handled the lines that have come whole, and nothing else.
Handled(q) ==
  /\ q.text = {i \in DOMAIN q.reply : q.reply[i] = "delta" /\ 3 * i <= q.got}
  /\ \A i \in DOMAIN q.reply : 3 * i <= q.got => q.reply[i] # "error"
GenerationOK(q) ==
  q.pc # "idle" => /\ q.user \in Authors /\ q.reply \in Replies
                   /\ q.got <= Gn!Pieces(q.reply) /\ Handled(q)
                   /\ q.pc = "open" => q.got = 0

AnswerOK(a) ==
  /\ a.kind = "done" /\ ~a.cause =>
       a.text = {i \in DOMAIN a.reply : a.reply[i] = "delta"}
  /\ a.kind = "error" => a.cause

GInv ==
  /\ Gn!TypeOK
  /\ \A r \in Requests : GenerationOK(generations[r]) /\ AnswerOK(answer[r])
  /\ Gn!OneGenerationAtATime

LEMMA GenerationConstants ==
  /\ None \notin Authors /\ MaxGenerations \in Nat
  /\ \A reply \in Replies : reply \in Seq({"delta", "noise", "error"})
BY AccountsAssumption DEF Gn!GenerationAssumption

LEMMA GenerationIdle ==
  /\ Gn!Idle \in Gn!Run /\ Gn!Idle.pc = "idle" /\ GenerationOK(Gn!Idle)
  /\ Gn!NoAnswer \in Gn!Answer /\ AnswerOK(Gn!NoAnswer)
BY DEF Gn!Idle, Gn!NoAnswer, Gn!Run, Gn!Answer, GenerationOK, AnswerOK

LEMMA GenerationInit == ASSUME Gn!Init PROVE GInv
<1>1. \A r \in Requests : generations[r] = Gn!Idle /\ answer[r] = Gn!NoAnswer
  BY DEF Gn!Init
<1>2. Gn!TypeOK
  BY GenerationIdle, GenerationConstants DEF Gn!Init, Gn!TypeOK
<1>3. Gn!OneGenerationAtATime
  <2>1. \A r \in Requests : ~Gn!Running(r)
    BY <1>1, GenerationIdle DEF Gn!Running
  <2> QED
    BY <2>1 DEF Gn!OneGenerationAtATime, Gn!Init
<1> QED
  BY <1>1, <1>2, <1>3, GenerationIdle DEF GInv

\* A request goes on, keeps its user, and so his place.
LEMMA GenerationGoesOn ==
  ASSUME GInv, NEW r \in Requests, NEW q \in Gn!Run, Gn!Running(r),
         generations' = [generations EXCEPT ![r] = q],
         q.pc \in {"open", "read"}, q.user = generations[r].user, GenerationOK(q),
         UNCHANGED <<inFlightUserIds, answer, generationsStarted>>
  PROVE  GInv'
<1>1. generations'[r] = q /\ \A x \in Requests \ {r} : generations'[x] = generations[x]
  BY DEF GInv, Gn!TypeOK
<1>2. Gn!TypeOK'
  BY DEF GInv, Gn!TypeOK
<1>3. \A x \in Requests : /\ Gn!Running(x)' <=> Gn!Running(x)
                          /\ generations'[x].user = generations[x].user
  BY <1>1 DEF Gn!Running
<1>4. Gn!OneGenerationAtATime'
  BY <1>3 DEF GInv, Gn!OneGenerationAtATime
<1> QED
  BY <1>1, <1>2, <1>4 DEF GInv, GenerationOK, AnswerOK, Handled, Gn!Pieces

\* It answers: its place is free, and nobody else's.
LEMMA GenerationAnswers ==
  ASSUME GInv, NEW r \in Requests, Gn!Running(r), NEW kind \in {"done", "error"},
         NEW text \in SUBSET Nat, NEW cause \in BOOLEAN,
         Gn!Answers(r, kind, text, cause), UNCHANGED generationsStarted,
         kind = "error" => cause,
         kind = "done" /\ ~cause =>
           text = {i \in DOMAIN generations[r].reply : generations[r].reply[i] = "delta"}
  PROVE  GInv'
<1> DEFINE a == [kind |-> kind, reply |-> generations[r].reply, text |-> text,
                 cause |-> cause]
           u == generations[r].user
<1>1. /\ answer' = [answer EXCEPT ![r] = a]
      /\ generations' = [generations EXCEPT ![r] = Gn!Idle]
      /\ inFlightUserIds' = inFlightUserIds \ {u}
  BY DEF Gn!Answers
<1>2. generations[r] \in Gn!Run /\ generations \in [Requests -> Gn!Run]
      /\ answer \in [Requests -> Gn!Answer]
  BY DEF GInv, Gn!TypeOK
<1>3. a \in Gn!Answer /\ AnswerOK(a)
  BY <1>2 DEF Gn!Run, Gn!Answer, AnswerOK
<1> HIDE DEF a
<1>4. /\ generations'[r] = Gn!Idle /\ answer'[r] = a
      /\ \A x \in Requests \ {r} : generations'[x] = generations[x] /\ answer'[x] = answer[x]
  BY <1>1, <1>2
<1>5. Gn!TypeOK'
  <2>1. generations' \in [Requests -> Gn!Run] /\ answer' \in [Requests -> Gn!Answer]
    BY <1>1, <1>2, <1>3, GenerationIdle
  <2> QED
    BY <1>1, <2>1 DEF GInv, Gn!TypeOK
<1>6. \A x \in Requests :
        (GenerationOK(generations[x]) /\ AnswerOK(answer[x]))'
  <2> SUFFICES ASSUME NEW x \in Requests
               PROVE  GenerationOK(generations'[x]) /\ AnswerOK(answer'[x])
    BY DEF GenerationOK, AnswerOK, Handled, Gn!Pieces
  <2>1. CASE x = r
    BY <1>3, <1>4, <2>1, GenerationIdle
  <2>2. CASE x # r
    BY <1>4, <2>2 DEF GInv
  <2> QED
    BY <2>1, <2>2
<1>7. \A x \in Requests : /\ Gn!Running(x)' <=> x # r /\ Gn!Running(x)
                          /\ x # r => generations'[x].user = generations[x].user
  BY <1>4, GenerationIdle DEF Gn!Running
<1>8. Gn!OneGenerationAtATime'
  BY <1>1, <1>7 DEF GInv, Gn!OneGenerationAtATime
<1> QED
  BY <1>5, <1>6, <1>8 DEF GInv

LEMMA GenerationBegins ==
  ASSUME GInv, NEW r \in Requests, NEW u \in Authors, NEW reply \in Replies,
         Gn!beginGeneration(r, u, reply)
  PROVE  GInv'
<1> DEFINE q == [Gn!Idle EXCEPT !.pc = "open", !.user = u, !.reply = reply,
                                !.timer = "armed"]
<1>0. /\ generations[r].pc = "idle" /\ generationsStarted < MaxGenerations
      /\ generationsStarted' = generationsStarted + 1
  BY DEF Gn!beginGeneration, Gn!At
<1>1. generationsStarted' \in 0..MaxGenerations
  BY <1>0, GenerationConstants DEF GInv, Gn!TypeOK
<1>2. CASE u \in inFlightUserIds
  <2>1. UNCHANGED <<inFlightUserIds, generations, answer>>
    BY <1>2 DEF Gn!beginGeneration, Gn!AfterRefusal
  <2>2. Gn!TypeOK'
    BY <1>1, <2>1 DEF GInv, Gn!TypeOK
  <2> QED
    BY <2>1, <2>2 DEF GInv, Gn!OneGenerationAtATime, Gn!Running, GenerationOK, AnswerOK,
                      Handled, Gn!Pieces
<1>3. CASE u \notin inFlightUserIds
  <2>1. /\ inFlightUserIds' = inFlightUserIds \cup {u}
        /\ generations' = [generations EXCEPT ![r] = q]
        /\ answer' = [answer EXCEPT ![r] = Gn!NoAnswer]
    BY <1>3 DEF Gn!beginGeneration
  <2>2. /\ q \in Gn!Run /\ q.pc = "open" /\ q.user = u /\ q.reply = reply
        /\ q.got = 0 /\ q.text = {}
    BY DEF Gn!Idle, Gn!Run
  <2>3. GenerationOK(q)
    <3>1. reply \in Seq({"delta", "noise", "error"})
      BY GenerationConstants
    <3>2. \A i \in DOMAIN reply : i \in Nat /\ ~(3 * i <= 0)
      BY <3>1
    <3>3. Gn!Pieces(reply) \in Nat
      BY <3>1 DEF Gn!Pieces
    <3> QED
      BY <2>2, <3>2, <3>3 DEF GenerationOK, Handled
  <2> HIDE DEF q
  <2>4. /\ generations'[r] = q /\ answer'[r] = Gn!NoAnswer
        /\ \A x \in Requests \ {r} : generations'[x] = generations[x] /\ answer'[x] = answer[x]
    BY <2>1 DEF GInv, Gn!TypeOK
  <2>5. Gn!TypeOK'
    <3>1. generations' \in [Requests -> Gn!Run] /\ answer' \in [Requests -> Gn!Answer]
      BY <2>1, <2>2, GenerationIdle DEF GInv, Gn!TypeOK
    <3> QED
      BY <1>1, <2>1, <3>1 DEF GInv, Gn!TypeOK
  <2>6. \A x \in Requests : (GenerationOK(generations[x]) /\ AnswerOK(answer[x]))'
    <3> SUFFICES ASSUME NEW x \in Requests
                 PROVE  GenerationOK(generations'[x]) /\ AnswerOK(answer'[x])
      BY DEF GenerationOK, AnswerOK, Handled, Gn!Pieces
    <3>1. CASE x = r
      BY <2>3, <2>4, <3>1, GenerationIdle
    <3>2. CASE x # r
      BY <2>4, <3>2 DEF GInv
    <3> QED
      BY <3>1, <3>2
  <2>7. ~Gn!Running(r) /\ Gn!Running(r)' /\ generations'[r].user = u
        /\ \A x \in Requests \ {r} : /\ Gn!Running(x)' <=> Gn!Running(x)
                                     /\ generations'[x].user = generations[x].user
    BY <1>0, <2>2, <2>4 DEF Gn!Running
  <2>8. \A x \in Requests : Gn!Running(x) => generations[x].user # u
    BY <1>3 DEF GInv, Gn!OneGenerationAtATime
  <2>9. Gn!OneGenerationAtATime'
    <3>1. inFlightUserIds = {generations[x].user : x \in {y \in Requests : Gn!Running(y)}}
      BY DEF GInv, Gn!OneGenerationAtATime
    <3>2. inFlightUserIds' = {generations'[x].user : x \in {y \in Requests : Gn!Running(y)'}}
      BY <2>1, <2>7, <3>1
    <3>3. \A x, y \in Requests :
            Gn!Running(x)' /\ Gn!Running(y)' /\ generations'[x].user = generations'[y].user
              => x = y
      BY <2>7, <2>8 DEF GInv, Gn!OneGenerationAtATime
    <3> QED
      BY <3>2, <3>3 DEF Gn!OneGenerationAtATime
  <2> QED
    BY <2>5, <2>6, <2>9 DEF GInv
<1> QED
  BY <1>2, <1>3

\* However the stream is cut, the next chunk leaves handled what has come whole.
LEMMA GenerationReads ==
  ASSUME GInv, NEW r \in Requests, NEW to \in Nat, NEW done \in BOOLEAN,
         Gn!Reads(r, to, done)
  PROVE  GInv'
<1> DEFINE q == generations[r]
           reply == q.reply
           n == Len(reply)
           lines == Gn!Lines(reply, q.got, to, done)
           bad == {i \in lines : ~Gn!Parses(reply, to, i)}
           text == q.text \cup {i \in lines : reply[i] = "delta" /\ \A j \in bad : i < j}
           early == done /\ to < Gn!Pieces(reply) - 1
           cause == early \/ \E i \in bad : reply[i] = "error"
           cause2 == early \/ \A i \in DOMAIN reply : reply[i] # "delta"
<1>1. /\ q \in Gn!Run /\ q.pc = "read" /\ GenerationOK(q) /\ Gn!Running(r)
      /\ to \in q.got..Gn!Pieces(reply) /\ UNCHANGED generationsStarted
  BY DEF GInv, Gn!TypeOK, Gn!Reads, Gn!At, Gn!Running
<1>2. /\ reply \in Seq({"delta", "noise", "error"}) /\ n \in Nat /\ DOMAIN reply = 1..n
      /\ Gn!Pieces(reply) = 3 * n /\ q.got \in Nat /\ Handled(q) /\ q.text \subseteq Nat
  BY <1>1, GenerationConstants DEF GenerationOK, Gn!Run, Gn!Pieces
<1>3. \A i \in 1..n :
        i \in lines <=> 3 * i > q.got /\ (3 * i <= to \/ (done /\ 3 * (i - 1) < to))
  BY <1>2 DEF Gn!Lines
<1>4. lines \subseteq 1..n /\ bad \subseteq lines /\ text \subseteq Nat
  BY <1>2 DEF Gn!Lines
<1>5. CASE bad # {}
  <2>1. Gn!Answers(r, "error", text, cause)
    BY <1>5 DEF Gn!Reads
  <2>2. cause = TRUE
    <3>1. PICK i \in bad : TRUE
      BY <1>5
    <3>2. i \in 1..n /\ (reply[i] = "error" \/ ~(to >= 3 * i - 1))
      BY <1>4, <3>1 DEF Gn!Parses
    <3>3. CASE ~(to >= 3 * i - 1)
      <4>1. done /\ 3 * (i - 1) < to
        BY <1>3, <1>4, <3>1, <3>2, <3>3
      <4>2. to < 3 * n - 1
        BY <1>2, <3>2, <3>3
      <4> QED
        BY <1>2, <4>1, <4>2
    <3> QED
      BY <3>1, <3>2, <3>3
  <2> HIDE DEF text, cause
  <2> QED
    BY <1>1, <1>4, <2>1, <2>2, GenerationAnswers
<1>6. CASE bad = {} /\ ~done
  <2>1. PICK p : p = [q EXCEPT !.got = to, !.text = text, !.timer = "armed"]
    OBVIOUS
  <2>2. generations' = [generations EXCEPT ![r] = p]
        /\ UNCHANGED <<inFlightUserIds, answer, generationsStarted>>
    BY <1>6, <2>1 DEF Gn!Reads
  <2>3. /\ p.pc = "read" /\ p.user = q.user /\ p.reply = reply /\ p.got = to
        /\ p.text = text /\ p \in Gn!Run
    BY <1>1, <1>4, <2>1 DEF Gn!Run
  <2>4. \A i \in lines : reply[i] # "error"
    BY <1>6 DEF Gn!Parses
  <2>5. \A i \in 1..n : i \in lines <=> 3 * i > q.got /\ 3 * i <= to
    BY <1>3, <1>6
  <2>6. \A i \in 1..n : 3 * i <= to <=> 3 * i <= q.got \/ i \in lines
    BY <1>1, <1>2, <2>5
  <2>7. text = {i \in DOMAIN reply : reply[i] = "delta" /\ 3 * i <= to}
    <3>1. text = q.text \cup {i \in lines : reply[i] = "delta"}
      BY <1>6
    <3> QED
      BY <1>2, <1>4, <2>6, <3>1 DEF Handled
  <2>8. \A i \in DOMAIN reply : 3 * i <= to => reply[i] # "error"
    BY <1>2, <2>4, <2>6 DEF Handled
  <2>9. GenerationOK(p)
    <3>1. Handled(p)
      BY <2>3, <2>7, <2>8 DEF Handled
    <3>2. to <= Gn!Pieces(reply)
      BY <1>1, <1>2
    <3> QED
      BY <1>1, <2>3, <3>1, <3>2 DEF GenerationOK
  <2> QED
    BY <1>1, <2>2, <2>3, <2>9, GenerationGoesOn
<1>7. CASE bad = {} /\ done
  <2> DEFINE kind == IF text = {} THEN "error" ELSE "done"
  <2>1. Gn!Answers(r, kind, text, cause2)
    BY <1>7 DEF Gn!Reads
  <2>2. ~early => text = {i \in DOMAIN reply : reply[i] = "delta"}
    <3> SUFFICES ASSUME ~early
                 PROVE  text = {i \in DOMAIN reply : reply[i] = "delta"}
      OBVIOUS
    <3>a. ~(to < 3 * n - 1)
      BY <1>2, <1>7
    <3>b. ASSUME NEW m \in Nat, NEW i \in 1..m, ~(to < 3 * m - 1) PROVE 3 * (i - 1) < to
      BY <3>b
    <3>c. \A i \in 1..n : 3 * (i - 1) < to
      BY <1>2, <3>a, <3>b
    <3>1. ASSUME NEW i \in 1..n PROVE 3 * i <= q.got \/ i \in lines
      <4>1. i \in lines <=> 3 * i > q.got
        BY <1>3, <1>7, <3>c
      <4>2. i \in Nat /\ q.got \in Nat
        BY <1>2
      <4> QED
        BY <4>1, <4>2
    <3>2. text = q.text \cup {i \in lines : reply[i] = "delta"}
      BY <1>7
    <3> QED
      BY <1>2, <1>4, <3>1, <3>2 DEF Handled
  <2>3. kind = "error" => cause2
    BY <2>2
  <2>4. kind = "done" /\ ~cause2 => text = {i \in DOMAIN reply : reply[i] = "delta"}
    BY <2>2
  <2>5. kind \in {"done", "error"} /\ cause2 \in BOOLEAN
    OBVIOUS
  <2> HIDE DEF text, cause2, kind
  <2> QED
    BY <1>1, <1>4, <2>1, <2>3, <2>4, <2>5, GenerationAnswers
<1> QED
  BY <1>5, <1>6, <1>7

LEMMA GenerationSteps == ASSUME GInv, [Gn!Next]_Gn!vars PROVE GInv'
<1>0. generations \in [Requests -> Gn!Run]
  BY DEF GInv, Gn!TypeOK
<1>1. ASSUME NEW r \in Requests, Gn!Opens(r) PROVE GInv'
  <2>1. PICK q : q = [generations[r] EXCEPT !.pc = "read", !.timer = "armed"]
    OBVIOUS
  <2>2. /\ generations[r].pc = "open" /\ generations' = [generations EXCEPT ![r] = q]
        /\ UNCHANGED <<inFlightUserIds, answer, generationsStarted>>
    BY <1>0, <1>1, <2>1 DEF Gn!Opens, Gn!At
  <2>3. /\ q \in Gn!Run /\ q.pc = "read" /\ q.user = generations[r].user
        /\ q.reply = generations[r].reply /\ q.got = generations[r].got
        /\ q.text = generations[r].text
    BY <1>0, <2>1 DEF Gn!Run
  <2>4. GenerationOK(q) /\ Gn!Running(r)
    BY <2>2, <2>3 DEF GInv, GenerationOK, Handled, Gn!Running
  <2> QED
    BY <2>2, <2>3, <2>4, GenerationGoesOn
<1>2. ASSUME NEW r \in Requests, Gn!ProviderFails(r) \/ Gn!AbortEnds(r) PROVE GInv'
  <2>1. /\ Gn!Running(r) /\ Gn!Answers(r, "error", generations[r].text, TRUE)
        /\ UNCHANGED generationsStarted
    BY <1>2 DEF Gn!ProviderFails, Gn!AbortEnds
  <2>2. generations[r].text \subseteq Nat
    BY <1>0 DEF Gn!Run
  <2> QED
    BY <2>1, <2>2, GenerationAnswers
<1>3. ASSUME NEW r \in Requests, Gn!TimerFires(r) \/ Gn!ClientCloses(r) PROVE GInv'
  <2>1. PICK q : q = IF Gn!TimerFires(r) THEN [generations[r] EXCEPT !.timer = "fired"]
                                         ELSE [generations[r] EXCEPT !.gone = TRUE]
    OBVIOUS
  <2>2. /\ generations' = [generations EXCEPT ![r] = q]
        /\ UNCHANGED <<inFlightUserIds, answer, generationsStarted>>
    BY <1>0, <1>3, <2>1 DEF Gn!TimerFires, Gn!ClientCloses
  <2>3. /\ q \in Gn!Run /\ q.pc = generations[r].pc /\ q.user = generations[r].user
        /\ q.reply = generations[r].reply /\ q.got = generations[r].got
        /\ q.text = generations[r].text
    BY <1>0, <2>1 DEF Gn!Run
  <2>4. GenerationOK(q)
    BY <2>3 DEF GInv, GenerationOK, Handled
  <2>5. CASE Gn!Running(r)
    BY <2>2, <2>3, <2>4, <2>5, GenerationGoesOn DEF Gn!Running
  <2>6. CASE ~Gn!Running(r)
    <3>1. /\ \A x \in Requests : /\ generations'[x].pc = generations[x].pc
                                 /\ generations'[x].user = generations[x].user
          /\ \A x \in Requests : GenerationOK(generations'[x])
      BY <1>0, <2>2, <2>3, <2>4 DEF GInv
    <3>2. Gn!TypeOK' /\ Gn!OneGenerationAtATime'
      BY <2>2, <2>3, <3>1 DEF GInv, Gn!TypeOK, Gn!OneGenerationAtATime, Gn!Running
    <3> QED
      BY <2>2, <3>1, <3>2 DEF GInv, GenerationOK, AnswerOK, Handled, Gn!Pieces
  <2> QED
    BY <2>5, <2>6
<1>4. CASE UNCHANGED Gn!vars
  BY <1>4 DEF Gn!vars, GInv, Gn!TypeOK, Gn!OneGenerationAtATime, Gn!Running, GenerationOK,
              AnswerOK, Handled, Gn!Pieces
<1>5. ASSUME NEW r \in Requests, NEW to \in 0..Gn!Pieces(generations[r].reply),
             NEW done \in BOOLEAN, Gn!Reads(r, to, done)
      PROVE  GInv'
  <2>1. to \in Nat
    OBVIOUS
  <2> QED
    BY <1>5, <2>1, GenerationReads
<1> QED
  BY <1>1, <1>2, <1>3, <1>4, <1>5, GenerationBegins DEF Gn!Next

LEMMA GenerationInvariant == Gn!Spec => []GInv
BY GenerationInit, GenerationSteps, PTL DEF Gn!Spec

-----------------------------------------------------------------------------
(* Search: the rows, the chains of projects and the chains of pages are read *)
(* apart, so a row says where its page was when it was found.               *)

LEMMA LeastNumber ==
  ASSUME NEW T \in SUBSET Nat, T # {}
  PROVE  \E n \in T : \A m \in T : n <= m
<1> DEFINE R == {q \in Nat \X Nat : q[1] < q[2]}
<1>1. IsWellFoundedOn(R, Nat)
  BY NatLessThanWellFounded, Zenon DEF OpToRel
<1> HIDE DEF R
<1>2. PICK n \in T : \A m \in T : <<m, n>> \notin R
  BY <1>1, WFMin
<1>3. ASSUME NEW m \in T PROVE n <= m
  <2>1. m \in Nat /\ n \in Nat
    OBVIOUS
  <2>2. m < n => <<m, n>> \in R
    BY <2>1 DEF R
  <2> QED
    BY <1>2, <2>1, <2>2
<1> QED
  BY <1>3

LEMMA SearchConstants ==
  /\ IsFiniteSet(FoundPages) /\ None \notin FoundProjects
  /\ TitleMatches \cup TextMatches \subseteq FoundPages
  /\ Moments \cup Bounds \subseteq Nat /\ DAY \in Nat \ {0}
  /\ LIMIT \in Nat \ {0} /\ PATH_MAX_DEPTH \in Nat
<1>1. \A S : Sr!IsFiniteSet(S) = IsFiniteSet(S)
  BY DEF Sr!IsFiniteSet, IsFiniteSet
<1> QED
  BY <1>1, AccountsAssumption DEF Sr!SearchAssumption

Parent(g) == IF g = None THEN None ELSE parent[g]

\* f climbs from g to depth n.
ClimbsTo(f, g, n) ==
  /\ f \in [0..n -> FoundProjects \cup {None}] /\ f[0] = g
  /\ \A d \in 1..n : f[d] = Parent(f[d - 1])

LEMMA CanClimb ==
  ASSUME parent \in [FoundProjects -> FoundProjects \cup {None}], NEW g \in FoundProjects,
         NEW n \in Nat
  PROVE  \E f : ClimbsTo(f, g, n)
<1> DEFINE T == {m \in Nat : ~\E f : ClimbsTo(f, g, m)}
<1>1. SUFFICES ASSUME T # {} PROVE FALSE
  BY DEF T
<1>2. PICK m \in T : \A k \in T : m <= k
  <2>1. T \in SUBSET Nat
    BY DEF T
  <2> HIDE DEF T
  <2> QED
    BY <1>1, <2>1, LeastNumber
<1>3. m # 0
  <2>1. ClimbsTo([d \in 0..0 |-> g], g, 0)
    BY DEF ClimbsTo
  <2> QED
    BY <1>2, <2>1 DEF T
<1>4. m - 1 \in Nat /\ m - 1 \notin T
  BY <1>2, <1>3 DEF T
<1>5. PICK f : ClimbsTo(f, g, m - 1)
  BY <1>4 DEF T
<1> DEFINE h == [d \in 0..m |-> IF d = m THEN Parent(f[m - 1]) ELSE f[d]]
<1>6. m \in Nat
  BY <1>2 DEF T
<1>7. f[m - 1] \in FoundProjects \cup {None}
  BY <1>4, <1>5 DEF ClimbsTo
<1>8. Parent(f[m - 1]) \in FoundProjects \cup {None}
  BY <1>7 DEF Parent
<1>9. h \in [0..m -> FoundProjects \cup {None}] /\ h[0] = g
  BY <1>3, <1>4, <1>5, <1>6, <1>8 DEF ClimbsTo
<1>10. ASSUME NEW d \in 1..m PROVE h[d] = Parent(h[d - 1])
  BY <1>4, <1>5, <1>6 DEF ClimbsTo
<1>11. ClimbsTo(h, g, m)
  BY <1>9, <1>10 DEF ClimbsTo
<1> QED
  BY <1>2, <1>11 DEF T

LEMMA UpClimbs ==
  ASSUME parent \in [FoundProjects -> FoundProjects \cup {None}], NEW g \in FoundProjects
  PROVE  ClimbsTo(Sr!Up(g), g, PATH_MAX_DEPTH)
<1> DEFINE Is(up) ==
      up = [d \in 0..PATH_MAX_DEPTH |->
              IF d = 0 THEN g
              ELSE IF up[d - 1] = None THEN None ELSE parent[up[d - 1]]]
<1>1. PATH_MAX_DEPTH \in Nat
  BY SearchConstants
<1>2. PICK f : ClimbsTo(f, g, PATH_MAX_DEPTH)
  BY <1>1, CanClimb
<1>3. Is(f)
  BY <1>1, <1>2 DEF ClimbsTo, Parent
<1>4. Sr!Up(g) = CHOOSE up : Is(up)
  BY DEF Sr!Up
<1>5. Is(Sr!Up(g))
  <2> HIDE DEF Is
  <2> QED
  BY <1>3, <1>4
<1> DEFINE u == Sr!Up(g)
           T == {d \in 0..PATH_MAX_DEPTH : u[d] # f[d]}
<1>6. /\ u[0] = g
      /\ \A d \in 1..PATH_MAX_DEPTH :
           u[d] = IF u[d - 1] = None THEN None ELSE parent[u[d - 1]]
  BY <1>1, <1>5
<1>7. ASSUME T # {} PROVE FALSE
  <2>1. T \in SUBSET Nat
    BY <1>1
  <2>2. PICK m \in T : \A k \in T : m <= k
    <3> HIDE DEF T
    <3> QED
      BY <1>7, <2>1, LeastNumber
  <2>3. m # 0
    BY <1>2, <1>6, <2>2 DEF ClimbsTo
  <2>4. m \in 1..PATH_MAX_DEPTH /\ m - 1 \in 0..PATH_MAX_DEPTH /\ m - 1 \notin T
    BY <1>1, <2>2, <2>3
  <2>5. u[m - 1] = f[m - 1]
    BY <2>4
  <2>6. u[m] # f[m]
    BY <2>2
  <2> HIDE DEF u, T
  <2> QED
    BY <1>2, <1>6, <2>4, <2>5, <2>6 DEF ClimbsTo, Parent
<1>8. \A d \in 0..PATH_MAX_DEPTH : u[d] = f[d]
  BY <1>7
<1>9. u = f
  BY <1>2, <1>5, <1>8 DEF ClimbsTo
<1> QED
  BY <1>2, <1>9

\* The chain climbs as long as it has a project.
LEMMA ClimbEnds ==
  ASSUME parent \in [FoundProjects -> FoundProjects \cup {None}], NEW g \in FoundProjects
  PROVE  /\ Sr!Height(g) \in 1..(PATH_MAX_DEPTH + 1)
         /\ \A d \in 0..PATH_MAX_DEPTH : Sr!Up(g)[d] # None <=> d < Sr!Height(g)
<1> DEFINE u == Sr!Up(g)
           ends == {d \in 0..PATH_MAX_DEPTH : u[d] = None}
           climbed == {d \in 0..PATH_MAX_DEPTH : u[d] # None}
<1>1. PATH_MAX_DEPTH \in Nat /\ None \notin FoundProjects
  BY SearchConstants
<1>2. ClimbsTo(u, g, PATH_MAX_DEPTH)
  BY UpClimbs
<1>3. \A S : Sr!Cardinality(S) = Cardinality(S)
  BY DEF Sr!Cardinality, Cardinality, Sr!IsFiniteSet, IsFiniteSet
<1>4. Sr!Height(g) = Cardinality(climbed)
  BY <1>3 DEF Sr!Height
<1> HIDE DEF u
<1>5. CASE ends = {}
  <2>1. climbed = 0..PATH_MAX_DEPTH
    BY <1>5
  <2>2. Cardinality(0..PATH_MAX_DEPTH) = PATH_MAX_DEPTH + 1
    BY <1>1, FS_Interval
  <2>3. Sr!Height(g) = PATH_MAX_DEPTH + 1
    BY <1>4, <2>1, <2>2
  <2>4. \A d \in 0..PATH_MAX_DEPTH : u[d] # None
    BY <1>5
  <2>5. \A d \in 0..PATH_MAX_DEPTH : d < PATH_MAX_DEPTH + 1
    BY <1>1
  <2> QED
    BY <1>1, <2>3, <2>4, <2>5 DEF u
<1>6. CASE ends # {}
  <2>1. ends \in SUBSET Nat
    BY <1>1
  <2>2. PICK n \in ends : \A d \in ends : n <= d
    <3> HIDE DEF ends
    <3> QED
      BY <1>6, <2>1, LeastNumber
  <2>3. n \in 1..PATH_MAX_DEPTH
    BY <1>1, <1>2, <2>2 DEF ClimbsTo
  <2> DEFINE again == {d \in (n + 1)..PATH_MAX_DEPTH : u[d] # None}
  <2>4. ASSUME again # {} PROVE FALSE
    <3>1. again \in SUBSET Nat
      BY <2>3
    <3>2. PICK m \in again : \A d \in again : m <= d
      <4> HIDE DEF again
      <4> QED
        BY <2>4, <3>1, LeastNumber
    <3>3. m \in 1..PATH_MAX_DEPTH /\ u[m] # None /\ m > n
      BY <1>1, <2>3, <3>2
    <3>4. u[m - 1] = None
      <4>1. CASE m - 1 = n
        BY <2>2, <4>1
      <4>2. CASE m - 1 # n
        <5>1. m - 1 \in (n + 1)..PATH_MAX_DEPTH /\ ~(m <= m - 1)
          BY <1>1, <2>3, <3>3, <4>2
        <5> QED
          BY <3>2, <5>1
      <4> QED
        BY <4>1, <4>2
    <3> QED
      BY <1>2, <3>3, <3>4 DEF ClimbsTo, Parent
  <2>5. climbed = 0..(n - 1)
    BY <1>1, <2>2, <2>3, <2>4
  <2>6. Cardinality(0..(n - 1)) = n
    BY <2>3, FS_Interval
  <2>7. Sr!Height(g) = n
    BY <1>4, <2>5, <2>6
  <2> QED
    BY <1>1, <2>3, <2>5, <2>7 DEF u
<1> QED
  BY <1>5, <1>6

\* c is a path of projects that leads to g.
LeadsTo(c, g) ==
  /\ c \in Seq(FoundProjects) /\ Len(c) \in 1..(PATH_MAX_DEPTH + 1) /\ c[Len(c)] = g
  /\ Sr!IsRoot(c[1]) \/ Len(c) = PATH_MAX_DEPTH + 1
  /\ \A k \in 1..(Len(c) - 1) : parent[c[k + 1]] = c[k]

LEMMA ChainLeads ==
  ASSUME parent \in [FoundProjects -> FoundProjects \cup {None}], NEW g \in FoundProjects
  PROVE  LeadsTo(Sr!ProjectChain(g), g)
<1> DEFINE h == Sr!Height(g)
           u == Sr!Up(g)
           c == Sr!ProjectChain(g)
<1>1. PATH_MAX_DEPTH \in Nat /\ None \notin FoundProjects
  BY SearchConstants
<1>2. /\ u \in [0..PATH_MAX_DEPTH -> FoundProjects \cup {None}] /\ u[0] = g
      /\ \A d \in 1..PATH_MAX_DEPTH : u[d] = Parent(u[d - 1])
  BY UpClimbs DEF ClimbsTo
<1>3. /\ h \in 1..(PATH_MAX_DEPTH + 1)
      /\ \A d \in 0..PATH_MAX_DEPTH : u[d] # None <=> d < h
  BY ClimbEnds
<1>4. c = [i \in 1..h |-> u[h - i]]
  BY DEF Sr!ProjectChain
<1> HIDE DEF h, u, c
<1>5. \A i \in 1..h : h - i \in 0..PATH_MAX_DEPTH /\ u[h - i] \in FoundProjects
  BY <1>1, <1>2, <1>3
<1>6. c \in Seq(FoundProjects) /\ Len(c) = h
  <2>1. h \in Nat
    BY <1>1, <1>3
  <2>2. c \in [1..h -> FoundProjects]
    BY <1>4, <1>5
  <2> QED
    BY <2>1, <2>2
<1>7. c[h] = g
  BY <1>1, <1>2, <1>3, <1>4
<1>8. Sr!IsRoot(c[1]) \/ h = PATH_MAX_DEPTH + 1
  <2>1. SUFFICES ASSUME h # PATH_MAX_DEPTH + 1 PROVE parent[c[1]] = None
    BY DEF Sr!IsRoot
  <2>2. h \in 1..PATH_MAX_DEPTH /\ h \in 0..PATH_MAX_DEPTH
    BY <1>1, <1>3, <2>1
  <2>3. u[h] = None /\ u[h] = Parent(u[h - 1])
    BY <1>2, <1>3, <2>2
  <2>4. c[1] = u[h - 1] /\ u[h - 1] \in FoundProjects
    BY <1>3, <1>4, <1>5
  <2> QED
    BY <1>1, <2>3, <2>4 DEF Parent
<1>9. ASSUME NEW k \in 1..(h - 1) PROVE parent[c[k + 1]] = c[k]
  <2>1. k \in 1..h /\ k + 1 \in 1..h /\ h - k \in 1..PATH_MAX_DEPTH
    BY <1>1, <1>3
  <2>2. c[k] = u[h - k] /\ c[k + 1] = u[h - (k + 1)]
    BY <1>4, <2>1
  <2>3. h - (k + 1) = (h - k) - 1
    BY <1>1, <1>3
  <2>4. u[h - k] = Parent(u[(h - k) - 1])
    BY <1>2, <2>1
  <2>5. u[h - (k + 1)] \in FoundProjects
    BY <1>5, <2>1
  <2> QED
    BY <1>1, <2>2, <2>3, <2>4, <2>5 DEF Parent
<1> QED
  BY <1>3, <1>6, <1>7, <1>8, <1>9 DEF LeadsTo, h, c
-----------------------------------------------------------------------------
(* The state of a search, and that every step keeps it                      *)

SearchTyped ==
  /\ project \in [FoundPages -> FoundProjects] /\ trashed \subseteq FoundPages
  /\ updatedAt \in [FoundPages -> Moments]
  /\ parent \in [FoundProjects -> FoundProjects \cup {None}]
  /\ asked \in Sr!Query \cup {Sr!NotAsked} /\ changes \in Nat /\ shifted \in BOOLEAN
  /\ found \in Seq([page : FoundPages, projectId : FoundProjects])
  /\ asked = Sr!NotAsked => found = <<>> /\ projectPath = None /\ pagePath = None

\* What was found matches, and is where it was found unless it was moved since.
RowsHold ==
  \A i \in DOMAIN found :
    /\ found[i].page \in Sr!Matches(asked)
    /\ asked.to # 0 => Sr!updatedBefore(updatedAt[found[i].page], asked.to)
    /\ \/ found[i].page \in movedPages
       \/ /\ found[i].page \notin trashed
          /\ project[found[i].page] = found[i].projectId

\* c is a path of projects to g; it led down from its root when it was read.
LedTo(c, g) ==
  /\ c \in Seq(FoundProjects) /\ Len(c) \in 1..(PATH_MAX_DEPTH + 1) /\ c[Len(c)] = g
  /\ shifted \/ LeadsTo(c, g)

PathsHold ==
  /\ projectPath # None =>
       \A p \in Sr!Found \ movedPages : LedTo(projectPath[p], project[p])
  /\ pagePath # None => \A p \in Sr!Found \ movedPages : pagePath[p] = <<p>>

\* Below the limit, all that is searched for is found.
AllHitsFound ==
  asked # Sr!NotAsked /\ changes = 0 /\ Cardinality(Sr!Found) < LIMIT
    => Sr!Hits(asked) \subseteq Sr!Found

SearchInv == SearchTyped /\ RowsHold /\ PathsHold /\ AllHitsFound

LEMMA SearchInit == ASSUME Sr!Init PROVE SearchInv
<1>1. SearchTyped
  <2>1. found \in Seq([page : FoundPages, projectId : FoundProjects])
    BY DEF Sr!Init
  <2>2. asked \in Sr!Query \cup {Sr!NotAsked} /\ asked = Sr!NotAsked
    BY DEF Sr!Init
  <2>3. changes \in Nat /\ shifted \in BOOLEAN /\ trashed \subseteq FoundPages
    BY DEF Sr!Init
  <2> QED
    BY <2>1, <2>2, <2>3 DEF Sr!Init, SearchTyped
<1>2. found = <<>> /\ projectPath = None /\ pagePath = None /\ asked = Sr!NotAsked
  BY DEF Sr!Init
<1> QED
  BY <1>1, <1>2 DEF SearchInv, RowsHold, PathsHold, AllHitsFound

LEMMA FoundAre ==
  ASSUME SearchTyped
  PROVE  /\ Sr!Found \subseteq FoundPages
         /\ \A i \in DOMAIN found : found[i].page \in Sr!Found
         /\ \A p \in Sr!Found : \E i \in DOMAIN found : p = found[i].page
<1> DEFINE Row == [page : FoundPages, projectId : FoundProjects]
<1>1. \A i \in DOMAIN found : found[i] \in Row
  <2>1. found \in Seq(Row)
    BY DEF SearchTyped
  <2> HIDE DEF Row
  <2> QED
    BY <2>1
<1> QED
  BY <1>1 DEF Sr!Found

\* A row is unmoved where its page is.
LEMMA UncrossedStay ==
  ASSUME SearchInv, NEW p \in Sr!Found, p \notin movedPages
  PROVE  p \notin trashed /\ p \in FoundPages /\ project[p] \in FoundProjects
<1>1. PICK i \in DOMAIN found : p = found[i].page
  BY FoundAre DEF SearchInv
<1>2. p \in FoundPages
  BY FoundAre DEF SearchInv
<1> QED
  BY <1>1, <1>2 DEF SearchInv, RowsHold, SearchTyped

LEMMA ChainIsRead == ASSUME SearchInv, Sr!loadProjectChain PROVE SearchInv'
<1> USE DEF Sr!loadProjectChain
<1>1. SearchTyped'
  BY DEF SearchInv, SearchTyped
<1>2. RowsHold' /\ AllHitsFound'
  BY DEF SearchInv, RowsHold, AllHitsFound, Sr!Hits, Sr!Matches, Sr!Found, Sr!updatedBefore
<1>3. ASSUME NEW p \in Sr!Found, p \notin movedPages
      PROVE  LedTo(projectPath'[p], project[p])
  <2>1. project[p] \in FoundProjects /\ projectPath'[p] = Sr!ProjectChain(project[p])
    BY <1>3, UncrossedStay
  <2>2. LeadsTo(projectPath'[p], project[p])
    BY <2>1, ChainLeads DEF SearchInv, SearchTyped
  <2> QED
    BY <2>2 DEF LedTo, LeadsTo
<1>4. \A c, g : LedTo(c, g) => LedTo(c, g)'
  BY DEF LedTo, LeadsTo, Sr!IsRoot
<1>5. PathsHold'
  BY <1>3, <1>4 DEF SearchInv, PathsHold, Sr!Found
<1> QED
  BY <1>1, <1>2, <1>5 DEF SearchInv

LEMMA PageIsRead == ASSUME SearchInv, Sr!loadPageChain PROVE SearchInv'
<1> USE DEF Sr!loadPageChain
<1>1. SearchTyped'
  BY DEF SearchInv, SearchTyped
<1>2. RowsHold' /\ AllHitsFound'
  BY DEF SearchInv, RowsHold, AllHitsFound, Sr!Hits, Sr!Matches, Sr!Found, Sr!updatedBefore
<1>3. ASSUME NEW p \in Sr!Found, p \notin movedPages PROVE pagePath'[p] = <<p>>
  BY <1>3, UncrossedStay
<1>4. \A c, g : LedTo(c, g) => LedTo(c, g)'
  BY DEF LedTo, LeadsTo, Sr!IsRoot
<1>5. PathsHold'
  BY <1>3, <1>4 DEF SearchInv, PathsHold, Sr!Found
<1> QED
  BY <1>1, <1>2, <1>5 DEF SearchInv

LEMMA SearchQuiet == ASSUME SearchInv, UNCHANGED Sr!vars PROVE SearchInv'
<1> USE DEF Sr!vars
<1>1. SearchTyped'
  BY DEF SearchInv, SearchTyped
<1>2. RowsHold' /\ AllHitsFound'
  BY DEF SearchInv, RowsHold, AllHitsFound, Sr!Hits, Sr!Matches, Sr!Found, Sr!updatedBefore
<1>3. PathsHold'
  BY DEF SearchInv, PathsHold, Sr!Found, LedTo, LeadsTo, Sr!IsRoot
<1> QED
  BY <1>1, <1>2, <1>3 DEF SearchInv

\* What is not one of the pages found may move, and one that is counts as moved.
LEMMA PageGoes ==
  ASSUME SearchInv, NEW p \in FoundPages, Sr!Changes,
         project' \in [FoundPages -> FoundProjects], trashed' \subseteq FoundPages,
         \A q \in FoundPages : q # p => project'[q] = project[q],
         \A q \in trashed' : q = p \/ q \in trashed,
         movedPages' = movedPages \cup ({p} \cap Sr!Found), UNCHANGED <<parent, shifted>>
  PROVE  SearchInv'
<1> USE DEF Sr!Changes
<1>1. SearchTyped'
  BY FoundAre DEF SearchInv, SearchTyped
<1>2. \A q \in Sr!Found \ movedPages' :
        q \in FoundPages /\ q \notin movedPages /\ q # p /\ project'[q] = project[q]
          /\ (q \in trashed' => q \in trashed)
  BY FoundAre DEF SearchInv
<1>3. \A q \in movedPages : q \in movedPages'
  OBVIOUS
<1>4. RowsHold'
  <2> SUFFICES ASSUME NEW i \in DOMAIN found
      PROVE /\ found[i].page \in Sr!Matches(asked)
            /\ asked.to # 0 => Sr!updatedBefore(updatedAt[found[i].page], asked.to)
            /\ \/ found[i].page \in movedPages'
               \/ /\ found[i].page \notin trashed'
                  /\ project'[found[i].page] = found[i].projectId
    BY DEF RowsHold, Sr!Matches, Sr!updatedBefore
  <2>1. found[i].page \in Sr!Found
    BY FoundAre DEF SearchInv
  <2> QED
    BY <1>2, <1>3, <2>1 DEF SearchInv, RowsHold
<1>5. \A c, g : LedTo(c, g) => LedTo(c, g)'
  BY DEF LedTo, LeadsTo, Sr!IsRoot
<1>6. PathsHold'
  BY <1>2, <1>5 DEF SearchInv, PathsHold, Sr!Found
<1>7. changes' # 0
  BY DEF SearchInv, SearchTyped
<1>8. AllHitsFound'
  BY <1>7 DEF AllHitsFound
<1> QED
  BY <1>1, <1>4, <1>6, <1>8 DEF SearchInv

LEMMA ProjectGoes ==
  ASSUME SearchInv, NEW g \in FoundProjects, NEW h \in FoundProjects \cup {None},
         Sr!ProjectMoves(g, h)
  PROVE  SearchInv'
<1> USE DEF Sr!ProjectMoves, Sr!Changes
<1>1. SearchTyped'
  BY DEF SearchInv, SearchTyped
<1>2. RowsHold'
  BY DEF SearchInv, RowsHold, Sr!Matches, Sr!updatedBefore
<1>3. ASSUME projectPath # None, NEW c, NEW q, LedTo(c, q) PROVE LedTo(c, q)'
  <2>1. shifted'
    BY <1>3
  <2> QED
    BY <1>3, <2>1 DEF LedTo
<1>4. PathsHold'
  BY <1>3 DEF SearchInv, PathsHold, Sr!Found
<1>5. changes' # 0
  BY DEF SearchInv, SearchTyped
<1>6. AllHitsFound'
  BY <1>5 DEF AllHitsFound
<1> QED
  BY <1>1, <1>2, <1>4, <1>6 DEF SearchInv

\* As many rows as there are hits, or as the limit allows.
LEMMA SearchFinds ==
  ASSUME SearchInv, NEW q \in Sr!Query, Sr!Searches(q)
  PROVE  SearchInv'
<1> DEFINE hits == Sr!Hits(q)
           n == IF Cardinality(hits) < LIMIT THEN Cardinality(hits) ELSE LIMIT
<1>1. \A S : Sr!Cardinality(S) = Cardinality(S)
  BY DEF Sr!Cardinality, Cardinality, Sr!IsFiniteSet, IsFiniteSet
<1>2. hits \subseteq FoundPages /\ IsFiniteSet(hits) /\ Cardinality(hits) \in Nat
  <2>1. hits \subseteq FoundPages
    BY SearchConstants DEF Sr!Hits, Sr!Matches
  <2> QED
    BY <2>1, SearchConstants, FS_Subset, FS_CardinalityType
<1>3. n \in Nat
  BY <1>2, SearchConstants
<1>4. PICK s \in Sr!Orderings(q) :
        found' = [i \in DOMAIN s |-> [page |-> s[i], projectId |-> project[s[i]]]]
  BY DEF Sr!Searches
<1>5. s \in [1..n -> hits] /\ \A i, j \in 1..n : i < j => s[i] # s[j]
  BY <1>1, <1>4 DEF Sr!Orderings
<1> HIDE DEF n, hits
<1>6. /\ found' = [i \in 1..n |-> [page |-> s[i], projectId |-> project[s[i]]]]
      /\ \A i \in 1..n : s[i] \in hits /\ s[i] \in FoundPages
      /\ asked' = q /\ projectPath' = None /\ pagePath' = None
      /\ UNCHANGED <<project, trashed, updatedAt, parent, changes, movedPages, shifted>>
  BY <1>2, <1>4, <1>5 DEF Sr!Searches, SearchInv, SearchTyped
<1>7. SearchTyped'
  <2> DEFINE Row == [page : FoundPages, projectId : FoundProjects]
  <2>1. \A i \in 1..n : [page |-> s[i], projectId |-> project[s[i]]] \in Row
    BY <1>6 DEF SearchInv, SearchTyped
  <2>2. found' \in [1..n -> Row]
    <3> HIDE DEF Row
    <3> QED
      BY <1>6, <2>1
  <2>3. found' \in Seq(Row)
    <3> HIDE DEF Row
    <3> QED
      BY <1>3, <2>2
  <2>4. q # Sr!NotAsked
    BY DEF Sr!Query, Sr!NotAsked
  <2> HIDE DEF Row
  <2> QED
    BY <1>6, <2>3, <2>4 DEF SearchInv, SearchTyped, Row
<1>8. RowsHold'
  <2> SUFFICES ASSUME NEW i \in 1..n
      PROVE /\ s[i] \in Sr!Matches(q)
            /\ q.to # 0 => Sr!updatedBefore(updatedAt[s[i]], q.to)
            /\ s[i] \notin trashed /\ project[s[i]] = found'[i].projectId
    BY <1>6 DEF RowsHold, Sr!Matches, Sr!updatedBefore
  <2> QED
    BY <1>6 DEF hits, Sr!Hits
<1>9. PathsHold'
  BY <1>6 DEF PathsHold
<1>10. Sr!Found' = {s[i] : i \in 1..n}
  BY <1>6 DEF Sr!Found
<1>11. ASSUME Cardinality(Sr!Found') < LIMIT PROVE hits = Sr!Found'
  <2>1. s \in Bijection(1..n, Sr!Found')
    BY <1>5, <1>10, <1>3 DEF Bijection, Injection, Surjection, IsInjective
  <2>2. IsFiniteSet(1..n) /\ Cardinality(1..n) = n
    BY <1>3, FS_Interval
  <2>3. Cardinality(Sr!Found') = n
    BY <2>1, <2>2, FS_Bijection DEF ExistsBijection
  <2>4. n = Cardinality(hits)
    BY <1>2, <1>11, <2>3, SearchConstants DEF n
  <2>5. Sr!Found' \in SUBSET hits
    BY <1>6, <1>10
  <2> QED
    BY <1>2, <2>3, <2>4, <2>5, FS_Subset
<1>12. Sr!Hits(q)' = hits
  BY <1>6 DEF hits, Sr!Hits, Sr!Matches, Sr!updatedBefore
<1>13. AllHitsFound'
  <2>1. Sr!Hits(asked)' = hits
    BY <1>6, <1>12 DEF hits, Sr!Hits, Sr!Matches, Sr!updatedBefore
  <2> QED
    BY <1>11, <2>1 DEF AllHitsFound
<1> QED
  BY <1>7, <1>8, <1>9, <1>13 DEF SearchInv

LEMMA SearchSteps == ASSUME SearchInv, [Sr!Next]_Sr!vars PROVE SearchInv'
<1>1. CASE UNCHANGED Sr!vars
  BY <1>1, SearchQuiet
<1>2. ASSUME NEW q \in Sr!Query, Sr!Searches(q) PROVE SearchInv'
  BY <1>2, SearchFinds
<1>3. CASE Sr!loadProjectChain \/ Sr!loadPageChain
  BY <1>3, ChainIsRead, PageIsRead
<1>4. ASSUME NEW p \in FoundPages, Sr!PageIsTrashed(p) PROVE SearchInv'
  BY <1>4, PageGoes DEF Sr!PageIsTrashed, SearchInv, SearchTyped
<1>5. ASSUME NEW p \in FoundPages, NEW g \in FoundProjects, Sr!PageMoves(p, g)
      PROVE SearchInv'
  BY <1>5, PageGoes DEF Sr!PageMoves, SearchInv, SearchTyped
<1>6. ASSUME NEW g \in FoundProjects, NEW h \in FoundProjects \cup {None},
             Sr!ProjectMoves(g, h)
      PROVE SearchInv'
  BY <1>6, ProjectGoes
<1> QED
  BY <1>1, <1>2, <1>3, <1>4, <1>5, <1>6 DEF Sr!Next

LEMMA SearchInvariant == Sr!Spec => []SearchInv
<1>1. Sr!Init => SearchInv
  BY SearchInit
<1>2. SearchInv /\ [Sr!Next]_Sr!vars => SearchInv'
  BY SearchSteps
<1> QED
  BY <1>1, <1>2, PTL DEF Sr!Spec

-----------------------------------------------------------------------------
(* What the state says of the results                                       *)

\* Moments within one day, of any length.
LEMMA DivIsDiv ==
  ASSUME NEW d \in Nat \ {0}, NEW m \in Nat
  PROVE  m = d * (m \div d) + (m % d) /\ m % d \in 0..(d-1) /\ m \div d \in Nat
<1>1. d \in Int /\ d > 0 /\ m \in Int
  OBVIOUS
<1>2. m % d \in 0..(d-1)
  BY <1>1
<1>3. m \div d \in Int
  BY <1>1
<1>4. m = d * (m \div d) + (m % d)
  BY <1>1, Z3
<1>5. ASSUME m \div d < 0 PROVE FALSE
  <2>1. PICK c \in Nat : m \div d = -1 - c
    <3>1. -1 - (m \div d) \in Nat /\ m \div d = -1 - (-1 - (m \div d))
      BY <1>3, <1>5
    <3> QED
      BY <3>1
  <2>2. d * (-1 - c) = -d - d * c /\ d * c \in Nat
    OBVIOUS
  <2> QED
    BY <1>1, <1>2, <1>4, <2>1, <2>2
<1> QED
  BY <1>2, <1>3, <1>4, <1>5

LEMMA LaterByADay ==
  ASSUME NEW d \in Nat \ {0}, NEW a \in Nat, NEW b \in Nat, a > b
  PROVE  d * a >= d * b + d
<1>1. PICK c \in Nat : a = b + 1 + c
  <2>1. a - b - 1 \in Nat /\ a = b + 1 + (a - b - 1)
    OBVIOUS
  <2> QED
    BY <2>1
<1>2. d * (b + 1 + c) = d * b + d + d * c
  OBVIOUS
<1>3. d * c \in Nat /\ d * b \in Nat
  OBVIOUS
<1> QED
  BY <1>1, <1>2, <1>3

\* The end of the day of t is the first moment of the next one.
LEMMA DayEnds ==
  ASSUME NEW d \in Nat \ {0}, NEW m \in Nat, NEW t \in Nat, t % d = 0
  PROVE  m < t + d <=> ~(m \div d > t \div d)
<1>1. m = d * (m \div d) + (m % d) /\ m % d \in 0..(d-1) /\ m \div d \in Nat
  BY DivIsDiv
<1>2. t = d * (t \div d) /\ t \div d \in Nat
  BY DivIsDiv
<1> DEFINE a == m \div d  b == t \div d
<1>3. a > b => d * a >= d * b + d
  BY <1>1, <1>2, LaterByADay
<1>4. a < b => d * b >= d * a + d
  BY <1>1, <1>2, LaterByADay
<1>5. a \in Nat /\ b \in Nat /\ d * a \in Nat /\ d * b \in Nat
  BY <1>1, <1>2
<1> HIDE DEF a, b
<1>6. ASSUME a > b PROVE ~(m < t + d)
  BY <1>1, <1>2, <1>3, <1>5, <1>6 DEF a, b
<1>7. ASSUME a = b PROVE m < t + d
  BY <1>1, <1>2, <1>5, <1>7 DEF a, b
<1>8. ASSUME a < b PROVE m < t + d
  BY <1>1, <1>2, <1>4, <1>5, <1>8 DEF a, b
<1> QED
  BY <1>5, <1>6, <1>7, <1>8 DEF a, b

LEMMA PathsLead == ASSUME SearchInv PROVE Sr!PathLeadsToPage
<1> SUFFICES ASSUME Sr!Answered, NEW i \in DOMAIN found, found[i].page \notin movedPages
             PROVE LET path == Sr!Result(found[i]).path
                       n == Len(path) - 1
                   IN  /\ n \in 1..(PATH_MAX_DEPTH + 1)
                       /\ path[n + 1] = found[i].page /\ path[n] = found[i].projectId
                       /\ shifted \/ /\ Sr!IsRoot(path[1]) \/ n = PATH_MAX_DEPTH + 1
                                     /\ \A k \in 1..(n - 1) : parent[path[k + 1]] = path[k]
  BY DEF Sr!PathLeadsToPage
<1> DEFINE p == found[i].page
           c == projectPath[p]
           path == Sr!Result(found[i]).path
           All == FoundProjects \cup FoundPages
<1>1. p \in Sr!Found \ movedPages
  BY FoundAre DEF SearchInv
<1>2. LedTo(c, project[p]) /\ pagePath[p] = <<p>>
  BY <1>1 DEF SearchInv, PathsHold, Sr!Answered
<1>3. project[p] = found[i].projectId /\ p \in FoundPages
  BY <1>1, FoundAre DEF SearchInv, RowsHold
<1>4. path = c \o <<p>>
  BY <1>2 DEF Sr!Result
<1>5. c \in Seq(All) /\ <<p>> \in Seq(All) /\ Len(<<p>>) = 1
  BY <1>2, <1>3 DEF LedTo
<1>6. Len(c) \in 1..(PATH_MAX_DEPTH + 1) /\ Len(c) \in Nat
  BY <1>2, SearchConstants DEF LedTo
<1> HIDE DEF p, c, path, All
<1>7. Len(path) = Len(c) + 1 /\ path[Len(c) + 1] = p
  BY <1>4, <1>5, <1>6
<1>8. \A k \in 1..Len(c) : path[k] = c[k]
  BY <1>4, <1>5, <1>6
<1>9. c[Len(c)] = project[p] /\ (shifted \/ LeadsTo(c, project[p]))
  BY <1>2 DEF LedTo
<1>10. Len(path) - 1 = Len(c)
  BY <1>6, <1>7
<1>11. path[1] = c[1] /\ path[Len(c)] = found[i].projectId
  BY <1>3, <1>6, <1>8, <1>9
<1>12. LeadsTo(c, project[p]) =>
         /\ Sr!IsRoot(path[1]) \/ Len(c) = PATH_MAX_DEPTH + 1
         /\ \A k \in 1..(Len(c) - 1) : parent[path[k + 1]] = path[k]
  BY <1>6, <1>8, <1>11 DEF LeadsTo
<1> QED
  BY <1>6, <1>7, <1>9, <1>10, <1>11, <1>12 DEF p, path

LEMMA MatchesShow == ASSUME SearchInv PROVE Sr!ResultShowsTheMatch
<1> SUFFICES ASSUME NEW i \in DOMAIN found
             PROVE IF Sr!Result(found[i]).matchedIn = "content"
                   THEN Sr!Result(found[i]).snippet ELSE found[i].page \in TitleMatches
  BY DEF Sr!ResultShowsTheMatch
<1> DEFINE p == found[i].page
<1>1. p \in Sr!Matches(asked) /\ asked # Sr!NotAsked
  BY DEF SearchInv, RowsHold, SearchTyped
<1>2. asked.type \in {"all", "documents", "content"}
  BY <1>1 DEF SearchInv, SearchTyped, Sr!Query
<1>3. /\ Sr!Result(found[i]).matchedIn
           = (IF Sr!MatchedInTitle(asked.type, p) THEN "title" ELSE "content")
      /\ Sr!Result(found[i]).snippet = Sr!HasContentMatch(asked.type, p)
  BY DEF Sr!Result
<1> QED
  BY <1>1, <1>2, <1>3 DEF Sr!Matches, Sr!MatchedInTitle, Sr!HasContentMatch

LEMMA DaysAreWhole == ASSUME SearchInv PROVE Sr!DayIsWhole
<1> SUFFICES ASSUME asked # Sr!NotAsked, asked.to # 0, asked.to % DAY = 0
             PROVE /\ \A p \in Sr!Found : ~(updatedAt[p] \div DAY > asked.to \div DAY)
                   /\ changes = 0 /\ asked.projectId = None /\ asked.from = 0
                        /\ Cardinality(Sr!Found) < LIMIT
                        => \A p \in Sr!Matches(asked) \ trashed :
                             updatedAt[p] \div DAY = asked.to \div DAY => p \in Sr!Found
  <2>1. \A S : Sr!Cardinality(S) = Cardinality(S)
    BY DEF Sr!Cardinality, Cardinality, Sr!IsFiniteSet, IsFiniteSet
  <2> QED
    BY <2>1 DEF Sr!DayIsWhole
<1>1. asked \in Sr!Query /\ asked.to \in Nat /\ DAY \in Nat \ {0}
  BY SearchConstants DEF SearchInv, SearchTyped, Sr!Query
<1>2. \A p \in FoundPages : updatedAt[p] \in Nat
  BY SearchConstants DEF SearchInv, SearchTyped
<1>3. \A p \in FoundPages :
        Sr!updatedBefore(updatedAt[p], asked.to)
          <=> ~(updatedAt[p] \div DAY > asked.to \div DAY)
  BY <1>1, <1>2, DayEnds DEF Sr!updatedBefore
<1>4. ASSUME NEW p \in Sr!Found PROVE ~(updatedAt[p] \div DAY > asked.to \div DAY)
  BY <1>3, FoundAre DEF SearchInv, RowsHold
<1>5. ASSUME changes = 0, asked.projectId = None, asked.from = 0,
             Cardinality(Sr!Found) < LIMIT, NEW p \in Sr!Matches(asked) \ trashed,
             updatedAt[p] \div DAY = asked.to \div DAY
      PROVE  p \in Sr!Found
  <2>1. p \in FoundPages
    BY SearchConstants DEF Sr!Matches
  <2>2. updatedAt[p] \div DAY \in Nat /\ asked.to \div DAY \in Nat
    BY <1>1, <1>2, <2>1, DivIsDiv
  <2>3. Sr!updatedBefore(updatedAt[p], asked.to)
    BY <1>3, <1>5, <2>1, <2>2
  <2>4. p \in Sr!Hits(asked)
    BY <1>5, <2>3 DEF Sr!Hits
  <2> QED
    BY <1>5, <2>4 DEF SearchInv, AllHitsFound
<1> QED
  BY <1>4, <1>5

-----------------------------------------------------------------------------
(* The parts of the composition: whatever moves, each component takes one of *)
(* its steps or stands still, so that what is proved of it alone holds here. *)

AccountsMoves ==
  \/ WorkspacesMove \/ SessionsMove \/ InvitesMove \/ TelegramMoves
  \/ GenerationMoves \/ SearchMoves

accountsVars == <<part, vars, ssVars, inVars, tgVars, gnVars, srVars>>

LEMMA AccountsSteps ==
  /\ [AccountsMoves]_accountsVars => [Next]_vars
  /\ [AccountsMoves]_accountsVars => [Ss!Next]_Ss!vars
  /\ [AccountsMoves]_accountsVars => [Gn!Next]_Gn!vars
  /\ [AccountsMoves]_accountsVars => [In!Next]_In!vars
  /\ [AccountsMoves]_accountsVars => [Tg!Next]_Tg!vars
  /\ [AccountsMoves]_accountsVars => [Sr!Next]_Sr!vars
<1> USE DEF AccountsMoves, accountsVars, WorkspacesMove, SessionsMove, InvitesMove,
            TelegramMoves, GenerationMoves, SearchMoves
<1>1. [AccountsMoves]_accountsVars => [In!Next]_In!vars
  BY DEF inVars, In!vars, In!rows, In!redis, In!history
<1>2. [AccountsMoves]_accountsVars => [Tg!Next]_Tg!vars
  BY DEF tgVars, Tg!vars
<1>3. [AccountsMoves]_accountsVars => [Ss!Next]_Ss!vars
  BY DEF ssVars, Ss!vars, Ss!counts, Ss!history
<1>4. [AccountsMoves]_accountsVars => [Next]_vars
  OBVIOUS
<1>5. [AccountsMoves]_accountsVars => [Gn!Next]_Gn!vars
  BY DEF gnVars, Gn!vars
<1>6. [AccountsMoves]_accountsVars => [Sr!Next]_Sr!vars
  BY DEF srVars, Sr!vars
<1> QED
  BY <1>1, <1>2, <1>3, <1>4, <1>5, <1>6

LEMMA AccountsParts ==
  Accounts => Spec /\ Ss!Spec /\ In!Spec /\ Tg!Spec /\ Gn!Spec /\ Sr!Spec
<1>1. AccountsInit => Init /\ Ss!Init /\ In!Init /\ Tg!Init /\ Gn!Init /\ Sr!Init
  BY DEF AccountsInit
<1> QED
  BY <1>1, AccountsSteps, PTL
     DEF Accounts, AccountsMoves, accountsVars,
         Spec, Ss!Spec, In!Spec, Tg!Spec, Gn!Spec, Sr!Spec

\* The limits of workspaces per user and of permanent links per workspace, though each
\* is counted before the row is made, are exceeded only by creates that overlap.
THEOREM LimitsAlwaysHold == Accounts => []LimitsHoldButForOverlap
<1>1. In!InvitesAssumption
  BY AccountsAssumption
<1>2. LimitHoldsButForOverlap /\ In!LinkLimitHoldsButForOverlap => LimitsHoldButForOverlap
  BY DEF LimitsHoldButForOverlap
<1> QED
  BY <1>1, <1>2, AccountsParts, WorkspaceLimitHolds, In!LinkLimitHolds, PTL

\* token.service.ts: what a refresh or a logout was to end is dead when it has answered,
\* and a refresh puts one session in the place of one, but for refreshes that read a
\* token before either deletes it and for tokens that a logout from all devices dropped
\* from the list.
THEOREM SessionsAlwaysEnd == Accounts => []SessionsEnd
<1>1. Ss!SessionsAssumption
  BY AccountsAssumption
<1>2. Ss!EndedIsDead /\ Ss!SessionsDoNotMultiply => SessionsEnd
  BY DEF SessionsEnd
<1> QED
  BY <1>1, <1>2, AccountsParts, Ss!EndedTokensAreDead, Ss!SessionsNeverMultiply, PTL

\* A one-time link makes one member and is not lost to a refused redeem
\* (consume and redeem of workspace-invite-redeem.service.ts), but for what the
\* histories name: an answer lost, a process that died, two redeems crossed.
THEOREM OneTimeAlwaysAdmitsOne == Accounts => []OneTimeAdmitsOne
<1>1. In!InvitesAssumption
  BY AccountsAssumption
<1>2. In!OneTimeAdmitsOne /\ In!NoInviteVanishes => OneTimeAdmitsOne
  BY DEF OneTimeAdmitsOne
<1> QED
  BY <1>1, <1>2, AccountsParts, In!TemporaryInvitesHold, PTL

\* A temporary link that works is in the list its managers see, but for one that a
\* redeem has given back and a list has dropped as stale since (redeem of
\* workspace-invite-redeem.service.ts, dropStale of temporary-invite.store.ts).
THEOREM WorkingInviteAlwaysListed == Accounts => []WorkingInviteIsListed
<1>1. In!InvitesAssumption
  BY AccountsAssumption
<1>2. In!WorkingInviteIsListed => WorkingInviteIsListed
  BY DEF WorkingInviteIsListed
<1> QED
  BY <1>1, <1>2, AccountsParts, In!TemporaryInvitesHold, PTL

\* A start command is refused only after another one from its chat came in between,
\* a code makes one link, and the last code of a user is the one that works, however
\* the transactions of redeemCode and the calls of createConnectCode overlap.
THEOREM StartAlwaysLinksTheChat == Accounts => []StartLinksTheChat
<1>1. Tg!TelegramAssumption
  BY AccountsAssumption
<1>2. Tg!OnlyARaceIsRefused /\ Tg!CodeLinksOnce /\ Tg!OneCodeWorksButForOverlap
        => StartLinksTheChat
  BY DEF StartLinksTheChat
<1> QED
  BY <1>1, <1>2, AccountsParts, Tg!ChatHasOneUserAlways, Tg!OneCodeWorks, PTL

\* ai.service.ts: a user has one generation under way and holds his place while he has
\* it, however requests are refused, aborted, timed out or answered beside it.
THEOREM GenerationsNeverOverlap == Accounts => []OneGenerationAtATime
<1>1. GInv => OneGenerationAtATime
  BY DEF GInv, OneGenerationAtATime
<1> QED
  BY <1>1, AccountsParts, GenerationInvariant, PTL

\* readDeltas: whatever the provider sends and however its stream is cut into chunks,
\* who is told that it is done has the whole text, unless the stream ended early, and
\* every error has a cause outside the service.
THEOREM AnswerAlwaysFitsReply == Accounts => []AnswerFitsReply
<1>1. GInv => AnswerFitsReply
  BY DEF GInv, AnswerOK, AnswerFitsReply, Gn!AnswerFitsReply
<1> QED
  BY <1>1, AccountsParts, GenerationInvariant, PTL

\* pages-search.repository.ts: though rows, project chains and page chains are read by
\* three statements, the path of a result leads to the project its row names, unless
\* the page was moved or deleted since; a result shows the words where it says they
\* are; and a day searched for is found whole and is all that is found.
THEOREM FoundIsAlwaysThere == Accounts => []FoundIsWhereItSays
<1>1. SearchInv => FoundIsWhereItSays
  BY PathsLead, MatchesShow, DaysAreWhole DEF FoundIsWhereItSays
<1> QED
  BY <1>1, AccountsParts, SearchInvariant, PTL
=============================================================================
