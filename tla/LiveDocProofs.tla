--------------------------- MODULE LiveDocProofs ---------------------------
(* Theorems about LiveDoc, for every value of its constants.                *)
EXTENDS LiveDoc, SequenceTheorems, FiniteSetTheorems, TLAPS

-----------------------------------------------------------------------------
(* The inductive invariant                                                  *)

\* What the phase says of the chain and the save: nothing is saved before the
\* text is read, a seeding entry saves outside the chain, and afterwards the
\* chain is occupied exactly while its head's save is.
ChainShape(e) == e.chain = <<>> <=> e.save.stage = "none"

PhaseShape(e) ==
  /\ e.phase \in {"free", "reading", "read"} => e.chain = <<>> /\ e.save.stage = "none"
  /\ e.phase = "seeding" => e.chain = <<>> /\ e.save.stage # "none"
  /\ e.phase \in {"live", "gone"} => ChainShape(e)
  /\ e.phase = "gone" => e.chain # <<>>

\* CleanMeansStored for one entry, from the moment its text is read; `mine`
\* says that nobody else has written or read the row since this entry did.
Saved(e, mine, json) ==
  e.phase \notin {"free", "reading"} /\ ~e.dirty =>
    /\ e.save.stage \in {"sent", "stored"} => e.save.doc = e.doc
    /\ e.save.stage # "sent" /\ mine => json = e.doc

\* An entry as the invariant wants it.
Sound(i, e) == e \in Entry /\ PhaseShape(e) /\ Saved(e, rowSeenBy = i, row.json)

InMemory == {"reading", "read", "seeding", "live"}

\* TypeOK, the entries and the rest of the state apart.
EntriesOK ==
  /\ entry \in [Incarnations -> Entry]
  /\ current \in Incarnations \cup {NoEntry}
  /\ \A i \in Incarnations : i = current <=> entry[i].phase \in InMemory

OthersOK ==
  /\ row \in Row
  /\ rowSeenBy \in Incarnations \cup {NoEntry}
  /\ versions \in SUBSET Texts
  /\ holder \in [Holders -> {"out", "opening", "in", "closing"}]
  /\ accepted \in SUBSET Edits
  /\ rest \in [pc : {"idle", "sent"}, text : Texts]
  /\ restore \in [pc : {"idle", "flushing", "tx", "committed", "replacing"},
                  text : Texts]
  /\ failures \in 0..MaxFailures
  /\ crashes \in 0..MaxCrashes

EntriesSound == \A i \in Incarnations : Sound(i, entry[i])

IInv ==
  /\ OthersOK
  /\ EntriesOK
  /\ EntriesSound
  /\ StateMatchesJson

-----------------------------------------------------------------------------
(* The operations on one entry                                              *)

LEMMA BlankType == Blank \in Entry /\ NoSave \in Save
BY DEF Blank, Entry, NoSave, Save, Texts, Phases, Waiters

\* The tail of a sequence of two or more is a sequence of one or more.
LEMMA TailOfLonger ==
  ASSUME NEW S, NEW s \in Seq(S), Len(s) > 1
  PROVE  Tail(s) \in Seq(S) /\ Tail(s) # <<>>
<1>1. s # <<>>
  BY EmptySeq
<1>2. Tail(s) \in Seq(S) /\ Len(Tail(s)) = Len(s) - 1
  BY <1>1, HeadTailProperties
<1>3. ASSUME Tail(s) = <<>> PROVE FALSE
  <2>1. Len(Tail(s)) = 0
    BY <1>3, EmptySeq
  <2>2. Len(s) \in Nat /\ Len(s) > 1
    BY LenProperties
  <2>3. \A m, n : m = n - 1 /\ m = 0 /\ n \in Nat => ~(n > 1)
    OBVIOUS
  <2>4. Len(Tail(s)) = Len(s) - 1
    BY <1>2
  <2> QED
    BY <2>1, <2>2, <2>3, <2>4, Zenon
<1> QED
  BY <1>2, <1>3

\* A new chain, or a new chain and save, and nothing else.
LEMMA ChainFacts ==
  ASSUME NEW e \in Entry, NEW chain \in Seq(Waiters), NEW save \in Save
  PROVE  /\ [e EXCEPT !.chain = chain] \in Entry
         /\ [e EXCEPT !.chain = chain].phase = e.phase
         /\ [e EXCEPT !.chain = chain].doc = e.doc
         /\ [e EXCEPT !.chain = chain].dirty = e.dirty
         /\ [e EXCEPT !.chain = chain].byUser = e.byUser
         /\ [e EXCEPT !.chain = chain].timer = e.timer
         /\ [e EXCEPT !.chain = chain].refs = e.refs
         /\ [e EXCEPT !.chain = chain].chain = chain
         /\ [e EXCEPT !.chain = chain].save = e.save
         /\ [e EXCEPT !.chain = chain, !.save = save] \in Entry
BY DEF Entry

\* Persist changes `dirty` and `save` only, and leaves the entry clean.
LEMMA PersistFacts ==
  ASSUME NEW e \in Entry
  PROVE  /\ Persist(e) \in Entry
         /\ Persist(e).phase = e.phase /\ Persist(e).doc = e.doc
         /\ Persist(e).chain = e.chain /\ Persist(e).refs = e.refs
         /\ Persist(e).timer = e.timer /\ Persist(e).byUser = e.byUser
         /\ ~Persist(e).dirty
         /\ e.dirty => /\ Persist(e).save.stage = "sent"
                       /\ Persist(e).save.doc = e.doc
         /\ ~e.dirty => Persist(e).save = e.save
BY DEF Persist, Entry, Save

\* Flush queues behind a save under way, starts one for a dirty entry, and does
\* nothing but clear the timer otherwise.
LEMMA FlushFacts ==
  ASSUME NEW e \in Entry, NEW w \in Waiters
  PROVE  /\ Flush(e, w) \in Entry
         /\ Flush(e, w).phase = e.phase /\ Flush(e, w).doc = e.doc
         /\ Flush(e, w).refs = e.refs /\ Flush(e, w).byUser = e.byUser
         /\ ~Flush(e, w).timer
         /\ e.chain # <<>> =>
              /\ Flush(e, w).chain = Append(e.chain, w)
              /\ Flush(e, w).dirty = e.dirty /\ Flush(e, w).save = e.save
         /\ e.chain = <<>> /\ e.dirty =>
              /\ Flush(e, w).chain = <<w>>
              /\ ~Flush(e, w).dirty
              /\ Flush(e, w).save.stage = "sent" /\ Flush(e, w).save.doc = e.doc
         /\ e.chain = <<>> /\ ~e.dirty =>
              /\ Flush(e, w).chain = <<>>
              /\ ~Flush(e, w).dirty /\ Flush(e, w).save = e.save
<1> DEFINE f == [e EXCEPT !.timer = FALSE]
<1>1. /\ f \in Entry /\ f.phase = e.phase /\ f.doc = e.doc /\ f.refs = e.refs
      /\ f.byUser = e.byUser /\ f.chain = e.chain /\ f.dirty = e.dirty
      /\ f.save = e.save /\ ~f.timer
  BY DEF Entry
<1>2. e.chain \in Seq(Waiters) /\ Append(e.chain, w) \in Seq(Waiters)
      /\ <<w>> \in Seq(Waiters)
  BY DEF Entry
<1>3. Flush(e, w) = IF f.chain # <<>> THEN [f EXCEPT !.chain = Append(e.chain, w)]
                    ELSE IF f.dirty THEN [Persist(f) EXCEPT !.chain = <<w>>]
                    ELSE f
  BY <1>1 DEF Flush
<1> HIDE DEF f
<1>4. CASE e.chain # <<>>
  <2>1. Flush(e, w) = [f EXCEPT !.chain = Append(e.chain, w)]
    BY <1>1, <1>3, <1>4
  <2>2. /\ [f EXCEPT !.chain = Append(e.chain, w)] \in Entry
        /\ [f EXCEPT !.chain = Append(e.chain, w)].phase = f.phase
        /\ [f EXCEPT !.chain = Append(e.chain, w)].doc = f.doc
        /\ [f EXCEPT !.chain = Append(e.chain, w)].dirty = f.dirty
        /\ [f EXCEPT !.chain = Append(e.chain, w)].byUser = f.byUser
        /\ [f EXCEPT !.chain = Append(e.chain, w)].timer = f.timer
        /\ [f EXCEPT !.chain = Append(e.chain, w)].refs = f.refs
        /\ [f EXCEPT !.chain = Append(e.chain, w)].chain = Append(e.chain, w)
        /\ [f EXCEPT !.chain = Append(e.chain, w)].save = f.save
    BY <1>1, <1>2, ChainFacts, BlankType
  <2> QED
    BY <1>1, <1>4, <2>1, <2>2
<1>5. CASE e.chain = <<>> /\ e.dirty
  <2>1. Flush(e, w) = [Persist(f) EXCEPT !.chain = <<w>>]
    BY <1>1, <1>3, <1>5
  <2>2. Persist(f) \in Entry
    BY <1>1, PersistFacts
  <2>3. /\ [Persist(f) EXCEPT !.chain = <<w>>] \in Entry
        /\ [Persist(f) EXCEPT !.chain = <<w>>].phase = Persist(f).phase
        /\ [Persist(f) EXCEPT !.chain = <<w>>].doc = Persist(f).doc
        /\ [Persist(f) EXCEPT !.chain = <<w>>].dirty = Persist(f).dirty
        /\ [Persist(f) EXCEPT !.chain = <<w>>].byUser = Persist(f).byUser
        /\ [Persist(f) EXCEPT !.chain = <<w>>].timer = Persist(f).timer
        /\ [Persist(f) EXCEPT !.chain = <<w>>].refs = Persist(f).refs
        /\ [Persist(f) EXCEPT !.chain = <<w>>].chain = <<w>>
        /\ [Persist(f) EXCEPT !.chain = <<w>>].save = Persist(f).save
    BY <1>2, <2>2, ChainFacts, BlankType
  <2>4. /\ Persist(f).phase = f.phase /\ Persist(f).doc = f.doc
        /\ Persist(f).refs = f.refs /\ Persist(f).byUser = f.byUser
        /\ Persist(f).timer = f.timer /\ ~Persist(f).dirty
        /\ Persist(f).save.stage = "sent" /\ Persist(f).save.doc = f.doc
    BY <1>1, <1>5, PersistFacts
  <2> QED
    BY <1>1, <1>5, <2>1, <2>3, <2>4
<1>6. CASE e.chain = <<>> /\ ~e.dirty
  BY <1>1, <1>3, <1>6
<1> QED
  BY <1>4, <1>5, <1>6

\* Advance starts the next persist of the chain or empties it.
LEMMA AdvanceFacts ==
  ASSUME NEW e \in Entry
  PROVE  /\ Advance(e) \in Entry
         /\ Advance(e).phase = e.phase /\ Advance(e).doc = e.doc
         /\ Advance(e).refs = e.refs /\ Advance(e).timer = e.timer
         /\ Advance(e).byUser = e.byUser
         /\ StartsNext(e) =>
              /\ Advance(e).chain = Tail(e.chain) /\ Advance(e).chain # <<>>
              /\ ~Advance(e).dirty
              /\ Advance(e).save.stage = "sent" /\ Advance(e).save.doc = e.doc
         /\ ~StartsNext(e) =>
              /\ Advance(e).chain = <<>> /\ Advance(e).save = NoSave
              /\ Advance(e).dirty = e.dirty
<1>1. CASE StartsNext(e)
  <2>1. e.chain \in Seq(Waiters) /\ Len(e.chain) > 1 /\ e.dirty
    BY <1>1 DEF StartsNext, Entry
  <2>2. Tail(e.chain) \in Seq(Waiters) /\ Tail(e.chain) # <<>>
    BY <2>1, TailOfLonger
  <2>3. Persist(e) \in Entry /\ Persist(e).chain = e.chain
    BY PersistFacts
  <2>4. Advance(e) = [Persist(e) EXCEPT !.chain = Tail(e.chain)]
    BY <1>1, <2>3 DEF Advance
  <2>5. /\ [Persist(e) EXCEPT !.chain = Tail(e.chain)] \in Entry
        /\ [Persist(e) EXCEPT !.chain = Tail(e.chain)].phase = Persist(e).phase
        /\ [Persist(e) EXCEPT !.chain = Tail(e.chain)].doc = Persist(e).doc
        /\ [Persist(e) EXCEPT !.chain = Tail(e.chain)].dirty = Persist(e).dirty
        /\ [Persist(e) EXCEPT !.chain = Tail(e.chain)].byUser = Persist(e).byUser
        /\ [Persist(e) EXCEPT !.chain = Tail(e.chain)].timer = Persist(e).timer
        /\ [Persist(e) EXCEPT !.chain = Tail(e.chain)].refs = Persist(e).refs
        /\ [Persist(e) EXCEPT !.chain = Tail(e.chain)].chain = Tail(e.chain)
        /\ [Persist(e) EXCEPT !.chain = Tail(e.chain)].save = Persist(e).save
    BY <2>2, <2>3, ChainFacts, BlankType
  <2>6. /\ Persist(e).phase = e.phase /\ Persist(e).doc = e.doc
        /\ Persist(e).refs = e.refs /\ Persist(e).byUser = e.byUser
        /\ Persist(e).timer = e.timer /\ ~Persist(e).dirty
        /\ Persist(e).save.stage = "sent" /\ Persist(e).save.doc = e.doc
    BY <2>1, PersistFacts
  <2> QED
    BY <1>1, <2>2, <2>4, <2>5, <2>6
<1>2. CASE ~StartsNext(e)
  <2>1. Advance(e) = [e EXCEPT !.chain = <<>>, !.save = NoSave]
    BY <1>2 DEF Advance
  <2>2. Advance(e) \in Entry
    <3>1. <<>> \in Seq(Waiters) /\ NoSave \in Save
      BY EmptySeq, BlankType
    <3>2. \A chain \in Seq(Waiters), save \in Save :
            [e EXCEPT !.chain = chain, !.save = save] \in Entry
      BY ChainFacts
    <3> QED
      BY <2>1, <3>1, <3>2, Zenon
  <2> QED
    BY <1>2, <2>1, <2>2 DEF Entry
<1> QED
  BY <1>1, <1>2

\* A flush of a live entry keeps its shape and what Saved says of it.
LEMMA FlushKeeps ==
  ASSUME NEW e \in Entry, NEW w \in Waiters, NEW mine \in BOOLEAN, NEW json,
         ChainShape(e), Saved(e, mine, json)
  PROVE  ChainShape(Flush(e, w)) /\ Saved(Flush(e, w), mine, json)
<1>1. Append(e.chain, w) # <<>> /\ <<w>> # <<>>
  <2>1. e.chain \in Seq(Waiters) /\ w \in Waiters
    BY DEF Entry
  <2> QED
    BY <2>1, AppendProperties
<1> DEFINE f == Flush(e, w)
<1>2. /\ f.phase = e.phase /\ f.doc = e.doc
      /\ e.chain # <<>> => f.chain # <<>> /\ f.dirty = e.dirty /\ f.save = e.save
      /\ e.chain = <<>> /\ e.dirty => f.chain # <<>> /\ f.save.stage = "sent"
                                    /\ f.save.doc = e.doc
      /\ e.chain = <<>> /\ ~e.dirty => f.chain = <<>> /\ ~f.dirty /\ f.save = e.save
  BY <1>1, FlushFacts
<1> HIDE DEF f
<1>3. ChainShape(f)
  BY <1>2 DEF ChainShape
<1>4. Saved(f, mine, json)
  BY <1>2 DEF Saved
<1> QED
  BY <1>3, <1>4 DEF f

\* So does the end of the chain's head, once the entry of a write that was not
\* answered is dirty again.
LEMMA AdvanceKeeps ==
  ASSUME NEW e \in Entry, NEW mine \in BOOLEAN, NEW json,
         e.phase \in {"live", "gone"},
         e.save.stage = "sent" => e.dirty, Saved(e, mine, json)
  PROVE  ChainShape(Advance(e)) /\ Saved(Advance(e), mine, json)
<1> DEFINE f == Advance(e)
<1>1. /\ f.phase = e.phase /\ f.doc = e.doc
      /\ StartsNext(e) => f.chain # <<>> /\ f.save.stage = "sent"
                        /\ f.save.doc = e.doc
      /\ ~StartsNext(e) => f.chain = <<>> /\ f.save = NoSave /\ f.dirty = e.dirty
  BY AdvanceFacts
<1>2. NoSave.stage = "none"
  BY DEF NoSave
<1> HIDE DEF f
<1>3. ChainShape(f)
  BY <1>1, <1>2 DEF ChainShape
<1>4. Saved(f, mine, json)
  BY <1>1, <1>2 DEF Saved
<1> QED
  BY <1>3, <1>4 DEF f

\* Whoever goes on after a flush leaves a sound entry behind, in memory under
\* its page exactly if it was and is not unloaded.
LEMMA SettledKeeps ==
  ASSUME NEW i \in Incarnations, NEW e \in Entry, NEW done,
         NEW mine \in BOOLEAN, NEW json,
         ChainShape(e), Saved(e, mine, json),
         e.phase \in {"live", "gone"}, current = i <=> e.phase = "live"
  PROVE  LET s == Settled(i, e, done) IN
         /\ s \in Entry /\ PhaseShape(s) /\ Saved(s, mine, json)
         /\ s.phase \in InMemory <=> current = i /\ ~Unloads(i, e, done)
<1> DEFINE s == Settled(i, e, done)
<1> SUFFICES /\ s \in Entry /\ PhaseShape(s) /\ Saved(s, mine, json)
             /\ s.phase \in InMemory <=> current = i /\ ~Unloads(i, e, done)
  OBVIOUS
<1>1. CASE s = Blank
  <2>1. s.phase = "free" /\ s.chain = <<>> /\ s.save.stage = "none"
    BY <1>1 DEF Blank, NoSave
  <2>2. s \in Entry
    BY <1>1, BlankType
  <2>3. ~(current = i /\ ~Unloads(i, e, done))
    <3>1. SUFFICES ASSUME current = i, ~Unloads(i, e, done) PROVE FALSE
      OBVIOUS
    <3>2. s = [e EXCEPT !.timer = TRUE] \/ s = e
      BY <3>1 DEF Settled
    <3>3. s.phase = "live"
      BY <3>1, <3>2 DEF Entry
    <3> QED
      BY <2>1, <3>3
  <2> HIDE DEF s
  <2> QED
    BY <2>1, <2>2, <2>3 DEF PhaseShape, Saved, InMemory
<1>2. CASE s # Blank /\ Unloads(i, e, done)
  <2>1. e.chain # <<>> /\ s = [e EXCEPT !.phase = "gone", !.timer = FALSE]
    BY <1>2 DEF Settled
  <2>2. /\ s \in Entry /\ s.phase = "gone" /\ s.chain = e.chain /\ s.doc = e.doc
        /\ s.save = e.save /\ s.dirty = e.dirty
    BY <2>1 DEF Entry, Phases
  <2> HIDE DEF s
  <2> QED
    BY <1>2, <2>1, <2>2 DEF PhaseShape, ChainShape, Saved, InMemory
<1>3. CASE s # Blank /\ ~Unloads(i, e, done)
  <2>1. (s = [e EXCEPT !.timer = TRUE] /\ current = i) \/ s = e
    BY <1>3 DEF Settled, Reschedules
  <2>2. s = e => current = i \/ e.chain # <<>>
    BY <1>3 DEF Settled, Reschedules
  <2>3. /\ s \in Entry /\ s.phase = e.phase /\ s.chain = e.chain /\ s.doc = e.doc
        /\ s.save = e.save /\ s.dirty = e.dirty
    BY <2>1 DEF Entry
  <2>4. e.phase = "gone" => e.chain # <<>>
    BY <2>1, <2>2
  <2> HIDE DEF s
  <2> QED
    BY <1>3, <2>3, <2>4 DEF PhaseShape, ChainShape, Saved, InMemory
<1> QED
  BY <1>1, <1>2, <1>3

\* An entry somebody else's write comes after owes nothing to the row.
LEMMA ForgottenIsSaved ==
  ASSUME NEW e, NEW mine, NEW json, NEW other, Saved(e, mine, json)
  PROVE  Saved(e, FALSE, other)
BY DEF Saved

-----------------------------------------------------------------------------
(* Steps that change one entry and not the row                              *)

\* Every text the program starts with is a text, and so is a longer one.
LEMMA TextsAreTexts ==
  /\ {} \in Texts
  /\ StoredBodies \subseteq Texts /\ RestBodies \subseteq Texts
  /\ VersionBodies \subseteq Texts
  /\ \A text \in Texts, x \in Edits : text \cup {x} \in Texts
<1>1. \A text \in StoredBodies \cup RestBodies \cup VersionBodies : text \in Texts
  BY DEF Texts
<1> QED
  BY <1>1 DEF Texts

\* A sound new value for one entry, in memory exactly if it is the page's,
\* keeps all entries sound.
LEMMA OneEntryChanges ==
  ASSUME EntriesOK, EntriesSound, UNCHANGED <<row, rowSeenBy>>,
         NEW i \in Incarnations, NEW e, Sound(i, e),
         entry' = [entry EXCEPT ![i] = e],
         current' \in Incarnations \cup {NoEntry},
         i = current' <=> e.phase \in InMemory,
         \A j \in Incarnations \ {i} : j = current' <=> j = current
  PROVE  EntriesOK' /\ EntriesSound'
<1>1. /\ entry \in [Incarnations -> Entry]
      /\ \A j \in Incarnations : j = current <=> entry[j].phase \in InMemory
  BY DEF EntriesOK
<1>2. e \in Entry
  BY DEF Sound
<1>3. /\ entry' \in [Incarnations -> Entry] /\ entry'[i] = e
      /\ \A j \in Incarnations \ {i} : entry'[j] = entry[j]
  BY <1>1, <1>2
<1>4. \A j \in Incarnations : j = current' <=> entry'[j].phase \in InMemory
  BY <1>1, <1>3
<1>5. EntriesSound'
  <2> SUFFICES ASSUME NEW j \in Incarnations PROVE Sound(j, entry[j])'
    BY DEF EntriesSound
  <2>1. Sound(j, entry'[j])
    BY <1>3 DEF EntriesSound
  <2> QED
    BY <2>1 DEF Sound
<1> QED
  BY <1>3, <1>4, <1>5 DEF EntriesOK

\* Whatever a flush or the end of a save leaves behind is settled soundly.
LEMMA SettleKeeps ==
  ASSUME EntriesOK, EntriesSound, UNCHANGED <<row, rowSeenBy>>,
         NEW i \in Incarnations, NEW e \in Entry, NEW done, Settle(i, e, done),
         ChainShape(e), Saved(e, rowSeenBy = i, row.json),
         e.phase \in {"live", "gone"}, current = i <=> e.phase = "live"
  PROVE  EntriesOK' /\ EntriesSound'
<1> DEFINE s == Settled(i, e, done)
<1>1. /\ s \in Entry /\ PhaseShape(s) /\ Saved(s, rowSeenBy = i, row.json)
      /\ s.phase \in InMemory <=> current = i /\ ~Unloads(i, e, done)
  BY SettledKeeps
<1>2. /\ entry' = [entry EXCEPT ![i] = s]
      /\ current' = IF Unloads(i, e, done) THEN NoEntry ELSE current
  BY DEF Settle
<1>3. Unloads(i, e, done) => current = i
  BY DEF Unloads
<1> HIDE DEF s
<1>4. Sound(i, s)
  BY <1>1 DEF Sound
<1>5. /\ current' \in Incarnations \cup {NoEntry}
      /\ i = current' <=> s.phase \in InMemory
      /\ \A j \in Incarnations \ {i} : j = current' <=> j = current
  BY <1>1, <1>2, <1>3, NamesAssumption DEF EntriesOK
<1> QED
  BY <1>2, <1>4, <1>5, OneEntryChanges

\* What the live entry looks like.
LEMMA LiveEntry ==
  ASSUME EntriesOK, EntriesSound, Live
  PROVE  /\ current \in Incarnations /\ entry[current] \in Entry
         /\ entry[current].phase = "live" /\ ChainShape(entry[current])
         /\ Saved(entry[current], rowSeenBy = current, row.json)
<1>1. current \in Incarnations /\ entry[current].phase = "live"
  BY DEF EntriesOK, Live
<1>2. Sound(current, entry[current])
  BY <1>1 DEF EntriesSound
<1> QED
  BY <1>1, <1>2 DEF Sound, PhaseShape

\* A flush of the live document, after a change of its count, timer or text.
LEMMA FlushStep ==
  ASSUME EntriesOK, EntriesSound, UNCHANGED <<row, rowSeenBy>>, Live,
         NEW e \in Entry, NEW w \in Waiters, NEW done,
         e.phase = "live", ChainShape(e), Saved(e, rowSeenBy = current, row.json),
         Settle(current, Flush(e, w), done)
  PROVE  EntriesOK' /\ EntriesSound'
<1>1. current \in Incarnations
  BY LiveEntry
<1>2. Flush(e, w) \in Entry /\ Flush(e, w).phase = "live"
  BY FlushFacts
<1>3. ChainShape(Flush(e, w)) /\ Saved(Flush(e, w), rowSeenBy = current, row.json)
  BY FlushKeeps
<1> QED
  BY <1>1, <1>2, <1>3, SettleKeeps

\* The entry that reads or writes the row answers for the row; the others no
\* longer do.
LEMMA RowChanges ==
  ASSUME EntriesOK, EntriesSound, NEW i \in Incarnations, NEW e \in Entry,
         PhaseShape(e), Saved(e, TRUE, row'.json),
         entry' = [entry EXCEPT ![i] = e], UNCHANGED current, rowSeenBy' = i,
         e.phase \in InMemory <=> entry[i].phase \in InMemory
  PROVE  EntriesOK' /\ EntriesSound'
<1>1. /\ entry \in [Incarnations -> Entry]
      /\ \A j \in Incarnations : j = current <=> entry[j].phase \in InMemory
      /\ current \in Incarnations \cup {NoEntry}
  BY DEF EntriesOK
<1>2. /\ entry' \in [Incarnations -> Entry] /\ entry'[i] = e
      /\ \A j \in Incarnations \ {i} : entry'[j] = entry[j]
  BY <1>1
<1>3. EntriesOK'
  BY <1>1, <1>2 DEF EntriesOK
<1>4. EntriesSound'
  <2> SUFFICES ASSUME NEW j \in Incarnations PROVE Sound(j, entry[j])'
    BY DEF EntriesSound
  <2>1. CASE j = i
    <3>1. Saved(e, rowSeenBy' = j, row'.json)
      BY <2>1 DEF Saved
    <3> QED
      BY <1>2, <2>1, <3>1 DEF Sound
  <2>2. CASE j # i
    <3>1. Sound(j, entry[j]) /\ entry'[j] = entry[j] /\ (rowSeenBy' = j) = FALSE
      BY <1>2, <2>2 DEF EntriesSound
    <3>2. Saved(entry'[j], rowSeenBy' = j, row'.json)
      BY <3>1 DEF Sound, Saved
    <3> QED
      BY <3>1, <3>2 DEF Sound
  <2> QED
    BY <2>1, <2>2
<1> QED
  BY <1>3, <1>4

\* Somebody who is no entry writes the row, or nobody does.
LEMMA EntriesStay ==
  ASSUME EntriesOK, EntriesSound, UNCHANGED <<entry, current>>,
         rowSeenBy' = NoEntry \/ UNCHANGED <<row, rowSeenBy>>
  PROVE  EntriesOK' /\ EntriesSound'
<1>1. EntriesOK'
  BY DEF EntriesOK
<1>2. EntriesSound'
  <2> SUFFICES ASSUME NEW j \in Incarnations PROVE Sound(j, entry[j])'
    BY DEF EntriesSound
  <2>1. Sound(j, entry[j]) /\ entry'[j] = entry[j]
    BY DEF EntriesSound
  <2>2. CASE UNCHANGED <<row, rowSeenBy>>
    BY <2>1, <2>2 DEF Sound
  <2>3. CASE rowSeenBy' = NoEntry
    <3>1. rowSeenBy' # j
      BY <2>3, NamesAssumption
    <3>2. Saved(entry'[j], rowSeenBy' = j, row'.json)
      BY <2>1, <3>1 DEF Sound, Saved
    <3> QED
      BY <2>1, <3>2 DEF Sound
  <2> QED
    BY <2>2, <2>3
<1> QED
  BY <1>1, <1>2

\* The head of a live or discarded entry's chain, or its first save, ends.
LEMMA HeadStep ==
  ASSUME EntriesOK, EntriesSound, OthersOK, UNCHANGED <<row, rowSeenBy>>,
         NEW i \in Incarnations, NEW e \in Entry, HeadEnds(i, e),
         e.phase = entry[i].phase, e.phase \in {"seeding", "live", "gone"},
         e.save.stage = "sent" => e.dirty, Saved(e, rowSeenBy = i, row.json),
         e.chain = entry[i].chain
  PROVE  /\ EntriesOK' /\ EntriesSound'
         /\ holder' \in [Holders -> {"out", "opening", "in", "closing"}]
         /\ restore' \in [pc : {"idle", "flushing", "tx", "committed", "replacing"},
                          text : Texts]
<1>0. holder \in [Holders -> {"out", "opening", "in", "closing"}]
      /\ restore \in [pc : {"idle", "flushing", "tx", "committed", "replacing"},
                      text : Texts]
  BY DEF OthersOK
<1>1. CASE e.phase = "seeding"
  <2> DEFINE f == Opened([e EXCEPT !.save = NoSave])
  <2>1. /\ entry' = [entry EXCEPT ![i] = f]
        /\ holder' = OpenHolders /\ UNCHANGED <<current, restore>>
    BY <1>1 DEF HeadEnds
  <2>2. Cardinality(Opening) \in Nat
    <3>1. Opening \subseteq Holders
      BY DEF Opening
    <3> QED
      BY <3>1, HoldersAssumption, FS_Subset, FS_CardinalityType
  <2>3. /\ f \in Entry /\ f.phase = "live" /\ f.chain = e.chain /\ f.doc = e.doc
        /\ f.dirty = e.dirty /\ f.save = NoSave
    BY <2>2, BlankType DEF Opened, Entry, Phases
  <2>4. e.chain = <<>>
    BY <1>1 DEF EntriesSound, Sound, PhaseShape
  <2>5. i = current
    BY <1>1 DEF EntriesOK, InMemory
  <2>6. NoSave.stage = "none"
    BY DEF NoSave
  <2> HIDE DEF f
  <2>7. PhaseShape(f)
    BY <2>3, <2>4, <2>6 DEF PhaseShape, ChainShape
  <2>8. Saved(f, rowSeenBy = i, row.json)
    BY <1>1, <2>3, <2>6 DEF Saved
  <2>9. EntriesOK' /\ EntriesSound'
    <3>1. Sound(i, f)
      BY <2>3, <2>7, <2>8 DEF Sound
    <3>2. i = current' <=> f.phase \in InMemory
      BY <2>1, <2>3, <2>5 DEF InMemory
    <3>3. current' \in Incarnations \cup {NoEntry}
          /\ \A j \in Incarnations \ {i} : j = current' <=> j = current
      BY <2>1 DEF EntriesOK
    <3> QED
      BY <2>1, <3>1, <3>2, <3>3, OneEntryChanges
  <2> QED
    BY <1>0, <2>1, <2>9 DEF OpenHolders
<1>2. CASE e.phase \in {"live", "gone"}
  <2>1. /\ Settle(i, Advance(e), Returned(e))
        /\ holder' = HoldersAfter(Returned(e))
        /\ restore' = RestoreAfter(Returned(e))
    BY <1>2 DEF HeadEnds
  <2>2. Advance(e) \in Entry /\ Advance(e).phase = e.phase
    BY AdvanceFacts
  <2>3. ChainShape(Advance(e)) /\ Saved(Advance(e), rowSeenBy = i, row.json)
    <3> DEFINE mine == rowSeenBy = i
    <3>1. mine \in BOOLEAN /\ Saved(e, mine, row.json)
      OBVIOUS
    <3> HIDE DEF mine
    <3>2. ChainShape(Advance(e)) /\ Saved(Advance(e), mine, row.json)
      BY <1>2, <3>1, AdvanceKeeps
    <3> QED
      BY <3>2 DEF mine
  <2>4. current = i <=> e.phase = "live"
    BY <1>2 DEF EntriesOK, InMemory
  <2>5. EntriesOK' /\ EntriesSound'
    BY <1>2, <2>1, <2>2, <2>3, <2>4, SettleKeeps
  <2>6. restore' \in [pc : {"idle", "flushing", "tx", "committed", "replacing"},
                      text : Texts]
    BY <1>0, <2>1, TextsAreTexts DEF RestoreAfter, Idle
  <2> QED
    BY <1>0, <2>1, <2>5, <2>6 DEF HoldersAfter
<1> QED
  BY <1>1, <1>2

-----------------------------------------------------------------------------
(* The invariant is inductive                                               *)

\* The program starts with a row that tells one story and nothing in memory.
LEMMA InitSound == Init => IInv
<1> SUFFICES ASSUME Init PROVE IInv
  OBVIOUS
<1>1. OthersOK
  <2>1. row \in Row
    BY TextsAreTexts DEF Init, Row
  <2>2. rest \in [pc : {"idle", "sent"}, text : Texts]
    BY TextsAreTexts DEF Init, Idle
  <2>3. restore \in [pc : {"idle", "flushing", "tx", "committed", "replacing"},
                    text : Texts]
    BY TextsAreTexts DEF Init, Idle
  <2>4. failures \in 0..MaxFailures /\ crashes \in 0..MaxCrashes
    BY BoundsAssumption DEF Init
  <2> QED
    BY <2>1, <2>2, <2>3, <2>4, TextsAreTexts DEF Init, OthersOK
<1>2. Blank.phase = "free" /\ Blank.chain = <<>> /\ Blank.save.stage = "none"
  BY DEF Blank, NoSave
<1>3. EntriesOK
  BY <1>2, BlankType, NamesAssumption DEF Init, EntriesOK, InMemory
<1>4. EntriesSound
  BY <1>2, BlankType DEF Init, EntriesSound, Sound, PhaseShape, Saved
<1>5. StateMatchesJson
  BY DEF Init, StateMatchesJson
<1> QED
  BY <1>1, <1>3, <1>4, <1>5 DEF IInv

\* Opening the page: acquire, the read, the first answer, a failed read.
LEMMA OpeningKeeps ==
  ASSUME IInv,
         \/ \E c \in Holders : Acquire(c)
         \/ \E i \in Incarnations : Load(i)
  PROVE  IInv'
<1>0. OthersOK /\ EntriesOK /\ EntriesSound /\ StateMatchesJson
  BY DEF IInv
<1>1. ASSUME NEW c \in Holders, AcquireLoaded(c) PROVE IInv'
  <2>1. /\ current \in Incarnations /\ entry[current] \in Entry
        /\ entry[current].phase = "live" /\ ChainShape(entry[current])
        /\ Saved(entry[current], rowSeenBy = current, row.json)
    BY <1>0, <1>1, LiveEntry DEF AcquireLoaded
  <2> DEFINE f == [entry[current] EXCEPT !.refs = @ + 1]
  <2>2. entry' = [entry EXCEPT ![current] = f]
    BY <1>1 DEF AcquireLoaded
  <2>3. /\ f \in Entry /\ f.phase = "live" /\ f.chain = entry[current].chain
        /\ f.doc = entry[current].doc /\ f.dirty = entry[current].dirty
        /\ f.save = entry[current].save
    BY <2>1 DEF Entry
  <2> HIDE DEF f
  <2>4. PhaseShape(f) /\ Saved(f, rowSeenBy = current, row.json)
    BY <2>1, <2>3 DEF PhaseShape, ChainShape, Saved
  <2>5. UNCHANGED <<row, rowSeenBy, current>>
    BY <1>1 DEF AcquireLoaded
  <2>6. EntriesOK' /\ EntriesSound'
    <3>1. Sound(current, f)
      BY <2>3, <2>4 DEF Sound
    <3>2. current = current' <=> f.phase \in InMemory
      BY <2>3, <2>5 DEF InMemory
    <3> QED
      BY <1>0, <2>1, <2>2, <2>5, <3>1, <3>2, OneEntryChanges
  <2> QED
    BY <1>0, <1>1, <2>6 DEF AcquireLoaded, IInv, OthersOK, StateMatchesJson
<1>2. ASSUME NEW c \in Holders, AcquireShared(c) PROVE IInv'
  <2>1. EntriesOK' /\ EntriesSound'
    BY <1>0, <1>2, EntriesStay DEF AcquireShared
  <2> QED
    BY <1>0, <1>2, <2>1 DEF AcquireShared, IInv, OthersOK, StateMatchesJson
<1>3. ASSUME NEW c \in Holders, AcquireLoads(c) PROVE IInv'
  <2>1. PICK i \in Incarnations :
          /\ entry[i].phase = "free"
          /\ entry' = [entry EXCEPT ![i].phase = "reading"]
          /\ current' = i
    BY <1>3 DEF AcquireLoads
  <2> DEFINE f == [entry[i] EXCEPT !.phase = "reading"]
  <2>2. entry' = [entry EXCEPT ![i] = f]
    BY <2>1
  <2>3. Sound(i, entry[i])
    BY <1>0 DEF EntriesSound
  <2>4. /\ f \in Entry /\ f.phase = "reading" /\ f.chain = entry[i].chain
        /\ f.save = entry[i].save
    BY <2>3 DEF Sound, Entry, Phases
  <2> HIDE DEF f
  <2>5. Sound(i, f)
    BY <2>1, <2>3, <2>4 DEF Sound, PhaseShape, Saved
  <2>6. /\ UNCHANGED <<row, rowSeenBy>> /\ current = NoEntry
        /\ i = current' <=> f.phase \in InMemory
        /\ \A j \in Incarnations \ {i} : j = current' <=> j = current
    BY <1>3, <2>1, <2>4, NamesAssumption DEF AcquireLoads, InMemory
  <2>7. EntriesOK' /\ EntriesSound'
    BY <1>0, <2>1, <2>2, <2>5, <2>6, OneEntryChanges
  <2> QED
    BY <1>0, <1>3, <2>7 DEF AcquireLoads, IInv, OthersOK, StateMatchesJson
<1>4. ASSUME NEW i \in Incarnations, LoadReads(i) PROVE IInv'
  <2> DEFINE text == IF row.yjsState # NoState THEN row.yjsState ELSE row.json
             fresh == row.yjsState = NoState /\ row.json # {}
             f == [entry[i] EXCEPT !.phase = "read", !.doc = text, !.dirty = fresh]
  <2>1. entry' = [entry EXCEPT ![i] = f]
    BY <1>4 DEF LoadReads
  <2>2. Sound(i, entry[i]) /\ entry[i].phase = "reading"
    BY <1>0, <1>4 DEF EntriesSound, LoadReads
  <2>3. text \in Texts /\ text = row.json /\ fresh \in BOOLEAN
    BY <1>0 DEF OthersOK, Row, StateMatchesJson
  <2> HIDE DEF text, fresh
  <2>4. /\ f \in Entry /\ f.phase = "read" /\ f.chain = entry[i].chain
        /\ f.save = entry[i].save /\ f.doc = row.json
    BY <2>2, <2>3 DEF Sound, Entry, Phases
  <2> HIDE DEF f
  <2>5. PhaseShape(f) /\ Saved(f, TRUE, row.json)
    BY <2>2, <2>4 DEF Sound, PhaseShape, Saved
  <2>6. UNCHANGED <<row, current>> /\ rowSeenBy' = i
    BY <1>4 DEF LoadReads
  <2>7. EntriesOK' /\ EntriesSound'
    <3>1. f.phase \in InMemory <=> entry[i].phase \in InMemory
      BY <2>2, <2>4 DEF InMemory
    <3>2. Saved(f, TRUE, row'.json)
      BY <2>5, <2>6
    <3> QED
      BY <1>0, <2>1, <2>4, <2>5, <2>6, <3>1, <3>2, RowChanges
  <2> QED
    BY <1>0, <1>4, <2>7 DEF LoadReads, IInv, OthersOK, StateMatchesJson
<1>5. ASSUME NEW i \in Incarnations, LoadAnswered(i) PROVE IInv'
  <2>0. Sound(i, entry[i]) /\ entry[i].phase = "read" /\ i = current
    BY <1>0, <1>5 DEF EntriesSound, LoadAnswered, EntriesOK, InMemory
  <2>1. entry[i] \in Entry /\ entry[i].chain = <<>> /\ entry[i].save.stage = "none"
        /\ Saved(entry[i], rowSeenBy = i, row.json)
    BY <2>0 DEF Sound, PhaseShape
  <2>2. UNCHANGED <<row, rowSeenBy, current>>
    BY <1>5 DEF LoadAnswered
  <2>3. ASSUME NEW f, Sound(i, f), f.phase \in InMemory,
               entry' = [entry EXCEPT ![i] = f]
        PROVE  EntriesOK' /\ EntriesSound'
    <3>1. /\ current' \in Incarnations \cup {NoEntry}
          /\ i = current' <=> f.phase \in InMemory
          /\ \A j \in Incarnations \ {i} : j = current' <=> j = current
      BY <2>0, <2>2, <2>3
    <3> QED
      BY <1>0, <2>2, <2>3, <3>1, OneEntryChanges
  <2>4. CASE entry[i].dirty
    <3> DEFINE f == [Persist(entry[i]) EXCEPT !.phase = "seeding"]
    <3>1. entry' = [entry EXCEPT ![i] = f] /\ holder' = holder
      BY <1>5, <2>4 DEF LoadAnswered
    <3>2. /\ Persist(entry[i]) \in Entry /\ Persist(entry[i]).chain = <<>>
          /\ Persist(entry[i]).doc = entry[i].doc
          /\ Persist(entry[i]).save.stage = "sent"
          /\ Persist(entry[i]).save.doc = entry[i].doc
      BY <2>1, <2>4, PersistFacts
    <3>3. /\ f \in Entry /\ f.phase = "seeding" /\ f.chain = <<>>
          /\ f.save.stage = "sent" /\ f.save.doc = f.doc
      BY <3>2 DEF Entry, Phases
    <3> HIDE DEF f
    <3>4. Sound(i, f)
      BY <3>3 DEF Sound, PhaseShape, Saved
    <3>5. EntriesOK' /\ EntriesSound'
      BY <2>3, <3>1, <3>3, <3>4 DEF InMemory
    <3> QED
      BY <1>0, <1>5, <3>1, <3>5 DEF LoadAnswered, IInv, OthersOK, StateMatchesJson
  <2>5. CASE ~entry[i].dirty
    <3> DEFINE f == Opened(entry[i])
    <3>1. entry' = [entry EXCEPT ![i] = f] /\ holder' = OpenHolders
      BY <1>5, <2>5 DEF LoadAnswered
    <3>2. Cardinality(Opening) \in Nat
      <4>1. Opening \subseteq Holders
        BY DEF Opening
      <4> QED
        BY <4>1, HoldersAssumption, FS_Subset, FS_CardinalityType
    <3>3. /\ f \in Entry /\ f.phase = "live" /\ f.chain = <<>>
          /\ f.save = entry[i].save /\ f.doc = entry[i].doc
      BY <2>1, <3>2 DEF Opened, Entry, Phases
    <3> HIDE DEF f
    <3>4. Sound(i, f)
      BY <2>0, <2>1, <2>5, <3>3 DEF Sound, PhaseShape, ChainShape, Saved
    <3>5. EntriesOK' /\ EntriesSound'
      BY <2>3, <3>1, <3>3, <3>4 DEF InMemory
    <3>6. holder' \in [Holders -> {"out", "opening", "in", "closing"}]
      BY <1>0, <3>1 DEF OpenHolders, OthersOK
    <3> QED
      BY <1>0, <1>5, <3>5, <3>6 DEF LoadAnswered, IInv, OthersOK, StateMatchesJson
  <2> QED
    BY <2>4, <2>5
<1>6. ASSUME NEW i \in Incarnations, LoadFails(i) PROVE IInv'
  <2>1. entry' = [entry EXCEPT ![i] = Blank] /\ current' = NoEntry
        /\ UNCHANGED <<row, rowSeenBy>> /\ i = current
    BY <1>0, <1>6 DEF LoadFails, EntriesOK, InMemory
  <2>2. Blank.phase = "free" /\ Blank.chain = <<>> /\ Blank.save.stage = "none"
    BY DEF Blank, NoSave
  <2>3. Sound(i, Blank)
    BY <2>2, BlankType DEF Sound, PhaseShape, Saved
  <2>4. /\ i = current' <=> Blank.phase \in InMemory
        /\ \A j \in Incarnations \ {i} : j = current' <=> j = current
    BY <2>1, <2>2, NamesAssumption DEF InMemory
  <2>5. EntriesOK' /\ EntriesSound'
    BY <1>0, <2>1, <2>3, <2>4, OneEntryChanges
  <2>6. failures' \in 0..MaxFailures
    BY <1>0, <1>6, BoundsAssumption DEF LoadFails, OthersOK
  <2>7. holder' \in [Holders -> {"out", "opening", "in", "closing"}]
    BY <1>0, <1>6 DEF LoadFails, OthersOK
  <2> QED
    BY <1>0, <1>6, <2>5, <2>6, <2>7 DEF LoadFails, IInv, OthersOK, StateMatchesJson
<1> QED
  BY <1>1, <1>2, <1>3, <1>4, <1>5, <1>6 DEF Acquire, Load

\* Using the open page: an edit, a release, the timer.
LEMMA UseKeeps ==
  ASSUME IInv,
         \/ \E c \in Holders : Edit(c) \/ Release(c)
         \/ TimerFires
  PROVE  IInv'
<1>0. OthersOK /\ EntriesOK /\ EntriesSound /\ StateMatchesJson
  BY DEF IInv
<1> DEFINE old == entry[current]
<1>1. Live => /\ current \in Incarnations /\ old \in Entry /\ old.phase = "live"
              /\ ChainShape(old) /\ Saved(old, rowSeenBy = current, row.json)
  BY <1>0, LiveEntry
<1>2. ASSUME NEW f, Live, f \in Entry, f.phase = "live", ChainShape(f),
             Saved(f, rowSeenBy = current, row.json),
             UNCHANGED <<row, rowSeenBy, current>>,
             entry' = [entry EXCEPT ![current] = f]
      PROVE  EntriesOK' /\ EntriesSound'
  <2>1. Sound(current, f)
    BY <1>2 DEF Sound, PhaseShape
  <2>2. /\ current' \in Incarnations \cup {NoEntry}
        /\ current = current' <=> f.phase \in InMemory
        /\ \A j \in Incarnations \ {current} : j = current' <=> j = current
    BY <1>1, <1>2 DEF InMemory
  <2> QED
    BY <1>0, <1>1, <1>2, <2>1, <2>2, OneEntryChanges
<1>3. ASSUME NEW c \in Holders, Edit(c) PROVE IInv'
  <2>1. PICK x \in Edits :
          entry' = [entry EXCEPT ![current].doc = @ \cup {x},
                                 ![current].dirty = TRUE,
                                 ![current].byUser = TRUE,
                                 ![current].timer = TRUE]
          /\ accepted' = accepted \cup {x}
    BY <1>3 DEF Edit
  <2> DEFINE f == [old EXCEPT !.doc = @ \cup {x}, !.dirty = TRUE, !.byUser = TRUE,
                              !.timer = TRUE]
  <2>2. Live /\ UNCHANGED <<row, rowSeenBy, current>>
    BY <1>3 DEF Edit
  <2>3. entry' = [entry EXCEPT ![current] = f]
    BY <1>0, <1>1, <2>1, <2>2 DEF EntriesOK
  <2>4. old.doc \cup {x} \in Texts
    BY <1>1, <2>2, TextsAreTexts DEF Entry
  <2>5. /\ f \in Entry /\ f.phase = "live" /\ f.chain = old.chain /\ f.save = old.save
        /\ f.dirty
    BY <1>1, <2>2, <2>4 DEF Entry
  <2> HIDE DEF f
  <2>6. ChainShape(f) /\ Saved(f, rowSeenBy = current, row.json)
    BY <1>1, <2>2, <2>5 DEF ChainShape, Saved
  <2>7. EntriesOK' /\ EntriesSound'
    BY <1>2, <2>2, <2>3, <2>5, <2>6
  <2> QED
    BY <1>0, <1>3, <2>1, <2>7 DEF Edit, IInv, OthersOK, StateMatchesJson
<1>4. ASSUME NEW c \in Holders, ReleaseKeeps(c) PROVE IInv'
  <2>1. EntriesOK' /\ EntriesSound'
    <3>1. UNCHANGED <<row, rowSeenBy, current>>
      BY <1>4 DEF ReleaseKeeps
    <3>2. CASE ~Live
      BY <1>0, <1>4, <3>1, <3>2, EntriesStay DEF ReleaseKeeps
    <3>3. CASE Live
      <4> DEFINE f == [old EXCEPT !.refs = @ - 1]
      <4>1. entry' = [entry EXCEPT ![current] = f] /\ old.refs > 1
        BY <1>4, <3>3 DEF ReleaseKeeps
      <4>2. old.refs - 1 \in Nat
        BY <1>1, <3>3, <4>1 DEF Entry
      <4>3. /\ f \in Entry /\ f.phase = "live" /\ f.chain = old.chain
            /\ f.save = old.save /\ f.dirty = old.dirty /\ f.doc = old.doc
        BY <1>1, <3>3, <4>2 DEF Entry
      <4> HIDE DEF f
      <4>4. ChainShape(f) /\ Saved(f, rowSeenBy = current, row.json)
        BY <1>1, <3>3, <4>3 DEF ChainShape, Saved
      <4> QED
        BY <1>2, <3>1, <3>3, <4>1, <4>3, <4>4
    <3> QED
      BY <3>2, <3>3
  <2> QED
    BY <1>0, <1>4, <2>1 DEF ReleaseKeeps, IInv, OthersOK, StateMatchesJson
<1>5. ASSUME NEW c \in Holders, ReleaseLast(c) PROVE IInv'
  <2> DEFINE f == [old EXCEPT !.refs = 0]
             done == AtOnce(f, c)
  <2>1. Live /\ Settle(current, Flush(f, c), done)
        /\ UNCHANGED <<row, rowSeenBy>>
    BY <1>5 DEF ReleaseLast
  <2>2. /\ f \in Entry /\ f.phase = "live" /\ f.chain = old.chain
        /\ f.save = old.save /\ f.dirty = old.dirty /\ f.doc = old.doc
    BY <1>1, <2>1 DEF Entry
  <2> HIDE DEF f, done
  <2>3. ChainShape(f) /\ Saved(f, rowSeenBy = current, row.json)
    BY <1>1, <2>1, <2>2 DEF ChainShape, Saved
  <2>4. EntriesOK' /\ EntriesSound'
    BY <1>0, <2>1, <2>2, <2>3, FlushStep DEF Waiters
  <2>5. holder' \in [Holders -> {"out", "opening", "in", "closing"}]
    BY <1>0, <1>5 DEF ReleaseLast, OthersOK
  <2> QED
    BY <1>0, <1>5, <2>4, <2>5 DEF ReleaseLast, IInv, OthersOK, StateMatchesJson
<1>6. ASSUME TimerFires PROVE IInv'
  <2> DEFINE f == [old EXCEPT !.timer = FALSE]
             done == AtOnce(f, "timer")
  <2>1. Live /\ Settle(current, Flush(f, "timer"), done)
        /\ UNCHANGED <<row, rowSeenBy>>
    BY <1>6 DEF TimerFires
  <2>2. /\ f \in Entry /\ f.phase = "live" /\ f.chain = old.chain
        /\ f.save = old.save /\ f.dirty = old.dirty /\ f.doc = old.doc
    BY <1>1, <2>1 DEF Entry
  <2> HIDE DEF f, done
  <2>3. ChainShape(f) /\ Saved(f, rowSeenBy = current, row.json)
    BY <1>1, <2>1, <2>2 DEF ChainShape, Saved
  <2>4. EntriesOK' /\ EntriesSound'
    BY <1>0, <2>1, <2>2, <2>3, FlushStep DEF Waiters, Tails
  <2> QED
    BY <1>0, <1>6, <2>4 DEF TimerFires, IInv, OthersOK, StateMatchesJson
<1> QED
  BY <1>3, <1>4, <1>5, <1>6 DEF Release

\* A save: the commit, the answers, a failure.
LEMMA SaveKeeps ==
  ASSUME IInv, NEW i \in Incarnations, SaveStep(i)
  PROVE  IInv'
<1>0. OthersOK /\ EntriesOK /\ EntriesSound /\ StateMatchesJson
  BY DEF IInv
<1> DEFINE old == entry[i]
<1>1. Sound(i, old)
  BY <1>0 DEF EntriesSound
<1>2. old \in Entry /\ PhaseShape(old) /\ Saved(old, rowSeenBy = i, row.json)
  BY <1>1 DEF Sound
<1>3. old.save.stage # "none" => old.phase \in {"seeding", "live", "gone"}
  BY <1>2 DEF PhaseShape, Entry, Phases
<1>4. CASE SaveCommits(i)
  <2> DEFINE f == [old EXCEPT !.save.stage = "stored"]
  <2>1. /\ entry' = [entry EXCEPT ![i] = f] /\ old.save.stage = "sent"
        /\ row' = [json |-> old.save.doc, yjsState |-> old.save.doc]
        /\ rowSeenBy' = i /\ UNCHANGED current
    BY <1>4 DEF SaveCommits
  <2>2. /\ f \in Entry /\ f.phase = old.phase /\ f.chain = old.chain
        /\ f.doc = old.doc /\ f.dirty = old.dirty
        /\ f.save.stage = "stored" /\ f.save.doc = old.save.doc
    BY <1>2 DEF Entry, Save
  <2>3. old.save.doc \in Texts
    BY <1>2 DEF Entry, Save
  <2> HIDE DEF f
  <2>4. PhaseShape(f)
    BY <1>2, <2>1, <2>2 DEF PhaseShape, ChainShape
  <2>5. Saved(f, TRUE, row'.json)
    BY <1>2, <2>1, <2>2 DEF Saved
  <2>6. EntriesOK' /\ EntriesSound'
    BY <1>0, <2>1, <2>2, <2>4, <2>5, RowChanges
  <2>7. row' \in Row /\ StateMatchesJson'
    BY <2>1, <2>3 DEF Row, StateMatchesJson
  <2> QED
    BY <1>0, <1>4, <2>1, <2>6, <2>7 DEF SaveCommits, IInv, OthersOK
<1>5. ASSUME NEW e \in Entry, HeadEnds(i, e), e.phase = old.phase,
             e.phase \in {"seeding", "live", "gone"}, e.chain = old.chain,
             e.save.stage = "sent" => e.dirty, Saved(e, rowSeenBy = i, row.json),
             UNCHANGED <<row, rowSeenBy, versions, accepted, rest, crashes>>,
             failures' \in 0..MaxFailures
      PROVE  IInv'
  <2>1. /\ EntriesOK' /\ EntriesSound'
        /\ holder' \in [Holders -> {"out", "opening", "in", "closing"}]
        /\ restore' \in [pc : {"idle", "flushing", "tx", "committed", "replacing"},
                         text : Texts]
    BY <1>0, <1>5, HeadStep
  <2> QED
    BY <1>0, <1>5, <2>1 DEF IInv, OthersOK, StateMatchesJson
<1>6. CASE SaveAnswered(i)
  <2>1. /\ old.save.stage = "stored" /\ failures' \in 0..MaxFailures
        /\ UNCHANGED <<row, rowSeenBy, versions, accepted, rest, failures, crashes>>
    BY <1>0, <1>6 DEF SaveAnswered, OthersOK
  <2>2. CASE old.save.byUser
    <3> DEFINE f == [old EXCEPT !.save.stage = "queueing"]
    <3>1. entry' = [entry EXCEPT ![i] = f] /\ UNCHANGED <<current, holder, restore>>
      BY <1>6, <2>2 DEF SaveAnswered
    <3>2. /\ f \in Entry /\ f.phase = old.phase /\ f.chain = old.chain
          /\ f.doc = old.doc /\ f.dirty = old.dirty /\ f.save.stage = "queueing"
      BY <1>2 DEF Entry, Save
    <3> HIDE DEF f
    <3>3. PhaseShape(f)
      BY <1>2, <2>1, <3>2 DEF PhaseShape, ChainShape
    <3>4. Saved(f, rowSeenBy = i, row.json)
      BY <1>2, <2>1, <3>2 DEF Saved
    <3>5. EntriesOK' /\ EntriesSound'
      <4>1. Sound(i, f)
        BY <3>2, <3>3, <3>4 DEF Sound
      <4>2. /\ current' \in Incarnations \cup {NoEntry}
            /\ i = current' <=> f.phase \in InMemory
            /\ \A j \in Incarnations \ {i} : j = current' <=> j = current
        BY <1>0, <3>1, <3>2 DEF EntriesOK
      <4> QED
        BY <1>0, <2>1, <3>1, <4>1, <4>2, OneEntryChanges
    <3> QED
      BY <1>0, <2>1, <3>1, <3>5 DEF IInv, OthersOK, StateMatchesJson
  <2>3. CASE ~old.save.byUser
    <3>1. HeadEnds(i, old)
      BY <1>6, <2>3 DEF SaveAnswered
    <3> QED
      BY <1>2, <1>3, <1>5, <2>1, <3>1
  <2> QED
    BY <2>2, <2>3
<1>7. CASE SnapshotQueued(i)
  <2>1. /\ old.save.stage = "queueing" /\ failures' \in 0..MaxFailures
        /\ UNCHANGED <<row, rowSeenBy, versions, accepted, rest, failures, crashes>>
        /\ HeadEnds(i, old)
    BY <1>0, <1>7 DEF SnapshotQueued, OthersOK
  <2> QED
    BY <1>2, <1>3, <1>5, <2>1
<1>8. CASE SaveFails(i)
  <2> DEFINE f == [old EXCEPT !.dirty = TRUE]
  <2>1. /\ old.save.stage \in {"sent", "stored"} /\ failures' \in 0..MaxFailures
        /\ UNCHANGED <<row, rowSeenBy, versions, accepted, rest, crashes>>
        /\ HeadEnds(i, f)
    BY <1>0, <1>8, BoundsAssumption DEF SaveFails, OthersOK
  <2>2. f \in Entry /\ f.phase = old.phase /\ f.chain = old.chain /\ f.dirty
    BY <1>2 DEF Entry
  <2> HIDE DEF f
  <2>3. Saved(f, rowSeenBy = i, row.json)
    BY <2>2 DEF Saved
  <2> QED
    BY <1>3, <1>5, <2>1, <2>2, <2>3
<1> QED
  BY <1>4, <1>6, <1>7, <1>8 DEF SaveStep

\* The other writers of the row, and a crash.
LEMMA OthersKeep ==
  ASSUME IInv, RestStep \/ RestoreStep \/ Crash
  PROVE  IInv'
<1>0. OthersOK /\ EntriesOK /\ EntriesSound /\ StateMatchesJson
  BY DEF IInv
<1>1. ASSUME UNCHANGED <<entry, current>>,
             rowSeenBy' = NoEntry \/ UNCHANGED <<row, rowSeenBy>>
      PROVE  EntriesOK' /\ EntriesSound'
  BY <1>0, <1>1, EntriesStay
<1>2. CASE RestSends
  <2>1. EntriesOK' /\ EntriesSound'
    BY <1>1, <1>2 DEF RestSends
  <2>2. rest' \in [pc : {"idle", "sent"}, text : Texts]
    BY <1>2, TextsAreTexts DEF RestSends
  <2> QED
    BY <1>0, <1>2, <2>1, <2>2 DEF RestSends, IInv, OthersOK, StateMatchesJson
<1>3. CASE RestCommits
  <2>1. EntriesOK' /\ EntriesSound'
    BY <1>1, <1>3 DEF RestCommits
  <2>2. rest' \in [pc : {"idle", "sent"}, text : Texts]
    BY <1>3, TextsAreTexts DEF RestCommits, Idle
  <2>3. row' \in Row /\ StateMatchesJson'
    <3>1. rest.text \in Texts /\ row' = [json |-> rest.text, yjsState |-> NoState]
      BY <1>0, <1>3 DEF RestCommits, OthersOK
    <3> QED
      BY <3>1 DEF Row, StateMatchesJson
  <2> QED
    BY <1>0, <1>3, <2>1, <2>2, <2>3 DEF RestCommits, IInv, OthersOK
<1>4. CASE RestFails
  <2>1. EntriesOK' /\ EntriesSound'
    BY <1>1, <1>4 DEF RestFails
  <2>2. rest' \in [pc : {"idle", "sent"}, text : Texts]
    BY <1>4, TextsAreTexts DEF RestFails, Idle
  <2>3. failures' \in 0..MaxFailures
    BY <1>0, <1>4, BoundsAssumption DEF RestFails, OthersOK
  <2> QED
    BY <1>0, <1>4, <2>1, <2>2, <2>3 DEF RestFails, IInv, OthersOK, StateMatchesJson
<1>5. CASE RestoreBegins
  <2>1. PICK text \in versions :
          IF ~Live
          THEN /\ restore' = [pc |-> "tx", text |-> text]
               /\ UNCHANGED <<entry, current>>
          ELSE /\ Settle(current, Flush(entry[current], "restore"),
                         AtOnce(entry[current], "restore"))
               /\ restore' = [pc |-> IF FlushReturns(entry[current]) THEN "tx"
                                     ELSE "flushing",
                              text |-> text]
    BY <1>5 DEF RestoreBegins
  <2>2. text \in Texts
    BY <1>0 DEF OthersOK
  <2>3. restore' \in [pc : {"idle", "flushing", "tx", "committed", "replacing"},
                     text : Texts]
    BY <2>1, <2>2
  <2>4. UNCHANGED <<row, rowSeenBy>>
    BY <1>5 DEF RestoreBegins
  <2>5. ASSUME ~Live PROVE EntriesOK' /\ EntriesSound'
    BY <1>1, <2>1, <2>4, <2>5
  <2>6. ASSUME Live PROVE EntriesOK' /\ EntriesSound'
    <3>1. /\ entry[current] \in Entry
          /\ entry[current].phase = "live" /\ ChainShape(entry[current])
          /\ Saved(entry[current], rowSeenBy = current, row.json)
      BY <1>0, <2>6, LiveEntry
    <3>2. "restore" \in Waiters
      BY DEF Waiters, Tails
    <3> QED
      BY <1>0, <2>1, <2>4, <2>6, <3>1, <3>2, FlushStep
  <2>7. EntriesOK' /\ EntriesSound'
    BY <2>5, <2>6
  <2>8. StateMatchesJson'
    BY <1>0, <2>4 DEF StateMatchesJson
  <2> QED
    BY <1>0, <1>5, <2>3, <2>7, <2>8 DEF RestoreBegins, IInv, OthersOK
<1>6. CASE RestoreCommits
  <2>1. UNCHANGED <<entry, current>>
        /\ (rowSeenBy' = NoEntry \/ UNCHANGED <<row, rowSeenBy>>)
    BY <1>6 DEF RestoreCommits
  <2>2. EntriesOK' /\ EntriesSound'
    BY <1>1, <2>1
  <2>3. /\ row.json \in Texts /\ restore.text \in Texts
        /\ restore \in [pc : {"idle", "flushing", "tx", "committed", "replacing"},
                        text : Texts]
    BY <1>0 DEF OthersOK, Row
  <2>4. restore' \in [pc : {"idle", "flushing", "tx", "committed", "replacing"},
                     text : Texts]
    <3>1. restore' = Idle \/ restore' = [restore EXCEPT !.pc = "committed"]
      BY <1>6 DEF RestoreCommits
    <3>2. [restore EXCEPT !.pc = "committed"]
            \in [pc : {"idle", "flushing", "tx", "committed", "replacing"}, text : Texts]
      BY <2>3
    <3>3. Idle \in [pc : {"idle", "flushing", "tx", "committed", "replacing"}, text : Texts]
      BY TextsAreTexts DEF Idle
    <3> QED
      BY <3>1, <3>2, <3>3, Zenon
  <2>5. row' \in Row /\ StateMatchesJson'
    <3>1. CASE UNCHANGED row
      BY <1>0, <3>1 DEF OthersOK, StateMatchesJson
    <3>2. CASE row' = [json |-> restore.text, yjsState |-> NoState]
      BY <2>3, <3>2 DEF Row, StateMatchesJson
    <3> QED
      BY <1>6, <3>1, <3>2 DEF RestoreCommits
  <2>6. versions' \in SUBSET Texts
        /\ rowSeenBy' \in Incarnations \cup {NoEntry}
    BY <1>0, <1>6, <2>3 DEF RestoreCommits, OthersOK
  <2> QED
    BY <1>0, <1>6, <2>2, <2>4, <2>5, <2>6 DEF RestoreCommits, IInv, OthersOK
<1>7. CASE RestoreReplaces
  <2> DEFINE f == [entry[current] EXCEPT !.doc = restore.text, !.dirty = TRUE,
                                         !.byUser = FALSE]
  <2>1. UNCHANGED <<row, rowSeenBy>>
    BY <1>7 DEF RestoreReplaces
  <2>2. ASSUME ~Live PROVE EntriesOK' /\ EntriesSound'
    <3>1. UNCHANGED <<entry, current>>
      BY <1>7, <2>2 DEF RestoreReplaces
    <3> QED
      BY <1>1, <2>1, <3>1
  <2>3. ASSUME Live PROVE EntriesOK' /\ EntriesSound'
    <3>1. /\ entry[current] \in Entry
          /\ entry[current].phase = "live" /\ ChainShape(entry[current])
          /\ Saved(entry[current], rowSeenBy = current, row.json)
      BY <1>0, <2>3, LiveEntry
    <3>2. Settle(current, Flush(f, "replace"), AtOnce(f, "replace"))
      BY <1>7, <2>3 DEF RestoreReplaces
    <3>3. restore.text \in Texts
      BY <1>0 DEF OthersOK
    <3>4. /\ f \in Entry /\ f.phase = "live" /\ f.chain = entry[current].chain
          /\ f.save = entry[current].save /\ f.dirty
      BY <3>1, <3>3 DEF Entry
    <3> HIDE DEF f
    <3>5. ChainShape(f) /\ Saved(f, rowSeenBy = current, row.json)
      BY <3>1, <3>4 DEF ChainShape, Saved
    <3>6. "replace" \in Waiters
      BY DEF Waiters, Tails
    <3> QED
      BY <1>0, <2>1, <2>3, <3>2, <3>4, <3>5, <3>6, FlushStep
  <2>4. EntriesOK' /\ EntriesSound'
    BY <2>2, <2>3
  <2>5. restore' \in [pc : {"idle", "flushing", "tx", "committed", "replacing"},
                     text : Texts]
    <3>1. restore \in [pc : {"idle", "flushing", "tx", "committed", "replacing"},
                      text : Texts]
      BY <1>0 DEF OthersOK
    <3>2. restore' = Idle \/ restore' = [restore EXCEPT !.pc = "replacing"]
      BY <1>7 DEF RestoreReplaces
    <3>3. [restore EXCEPT !.pc = "replacing"]
            \in [pc : {"idle", "flushing", "tx", "committed", "replacing"}, text : Texts]
      BY <3>1
    <3>4. Idle \in [pc : {"idle", "flushing", "tx", "committed", "replacing"}, text : Texts]
      BY TextsAreTexts DEF Idle
    <3> QED
      BY <3>2, <3>3, <3>4, Zenon
  <2>6. StateMatchesJson'
    BY <1>0, <2>1 DEF StateMatchesJson
  <2> QED
    BY <1>0, <1>7, <2>4, <2>5, <2>6 DEF RestoreReplaces, IInv, OthersOK
<1>8. CASE RestoreFails
  <2>1. EntriesOK' /\ EntriesSound'
    BY <1>1, <1>8 DEF RestoreFails
  <2>2. restore' \in [pc : {"idle", "flushing", "tx", "committed", "replacing"},
                     text : Texts]
    BY <1>8, TextsAreTexts DEF RestoreFails, Idle
  <2>3. failures' \in 0..MaxFailures
    BY <1>0, <1>8, BoundsAssumption DEF RestoreFails, OthersOK
  <2> QED
    BY <1>0, <1>8, <2>1, <2>2, <2>3
       DEF RestoreFails, IInv, OthersOK, StateMatchesJson
<1>9. CASE Crash
  <2>1. /\ entry' = [i \in Incarnations |-> Blank] /\ current' = NoEntry
        /\ rowSeenBy' = NoEntry /\ row' = row
    BY <1>9 DEF Crash
  <2>2. Blank.phase = "free" /\ Blank.chain = <<>> /\ Blank.save.stage = "none"
    BY DEF Blank, NoSave
  <2>3. EntriesOK'
    BY <2>1, <2>2, BlankType, NamesAssumption DEF EntriesOK, InMemory
  <2>4. EntriesSound'
    BY <2>1, <2>2, BlankType DEF EntriesSound, Sound, PhaseShape, Saved
  <2>5. rest' \in [pc : {"idle", "sent"}, text : Texts]
        /\ restore' \in [pc : {"idle", "flushing", "tx", "committed", "replacing"},
                         text : Texts]
    BY <1>9, TextsAreTexts DEF Crash, Idle
  <2>6. crashes' \in 0..MaxCrashes
    BY <1>0, <1>9, BoundsAssumption DEF Crash, OthersOK
  <2>7. StateMatchesJson'
    BY <1>0, <2>1 DEF StateMatchesJson
  <2>8. OthersOK'
    BY <1>0, <1>9, <2>5, <2>6 DEF Crash, OthersOK
  <2> QED
    BY <2>3, <2>4, <2>7, <2>8 DEF IInv
<1> QED
  BY <1>2, <1>3, <1>4, <1>5, <1>6, <1>7, <1>8, <1>9 DEF RestStep, RestoreStep

-----------------------------------------------------------------------------
(* The theorems                                                             *)

\* What the invariant says of the properties: of the types, of clean entries.
LEMMA IInvImplies == IInv => TypeOK /\ StateMatchesJson /\ CleanMeansStored
<1> SUFFICES ASSUME IInv PROVE TypeOK /\ StateMatchesJson /\ CleanMeansStored
  OBVIOUS
<1>1. TypeOK
  BY DEF IInv, OthersOK, EntriesOK, InMemory, TypeOK
<1>2. CleanMeansStored
  BY DEF IInv, EntriesSound, Sound, Saved, CleanMeansStored
<1> QED
  BY <1>1, <1>2 DEF IInv

\* The inductive invariant holds in every state the program reaches.
THEOREM InvariantHolds == Spec => []IInv
<1>1. Init => IInv
  BY InitSound
<1>2. IInv /\ [Next]_vars => IInv'
  <2> SUFFICES ASSUME IInv, [Next]_vars PROVE IInv'
    OBVIOUS
  <2>1. CASE UNCHANGED vars
    <3>1. OthersOK' /\ StateMatchesJson'
      BY <2>1 DEF IInv, OthersOK, StateMatchesJson, vars
    <3>2. EntriesOK' /\ EntriesSound'
      BY <2>1, EntriesStay DEF IInv, vars
    <3> QED
      BY <3>1, <3>2 DEF IInv
  <2>2. CASE Next
    BY <2>2, OpeningKeeps, UseKeeps, SaveKeeps, OthersKeep DEF Next
  <2> QED
    BY <2>1, <2>2
<1> QED
  BY <1>1, <1>2, PTL DEF Spec

\* Every variable keeps its type, and the `entries` map names exactly the one
\* entry that is being read, seeded or used.
THEOREM TypesHold == Spec => []TypeOK
BY InvariantHolds, IInvImplies, PTL

\* Saves, REST writes and restores, in any order and whatever fails, leave a
\* row whose yjsState is null or is the state of its json.
THEOREM RowTellsOneStory == Spec => []StateMatchesJson
BY InvariantHolds, IInvImplies, PTL

\* No interleaving of edits, chained saves, failures, releases, unloads, other
\* writers and crashes makes the service take an unsaved edit for a saved one.
THEOREM CleanIsStored == Spec => []CleanMeansStored
BY InvariantHolds, IInvImplies, PTL

-----------------------------------------------------------------------------
(* Where no version is ever restored, an acknowledged edit that is not saved *)
(* has a save coming.  A restore's flush is the one that clears the timer    *)
(* without looking at the outcome; everybody else who waits for a save does. *)

\* Those who go on with unloadIfIdle, which arms the timer of a dirty entry.
Retriers == Holders \cup {"timer"}

Planned(e) == e.dirty /\ e.byUser => e.timer \/ Len(e.chain) > 1

\* Only such waiters in the chain, no user's edit before the page is open, and
\* a save coming for one made since.
Provided(e) ==
  /\ e.chain \in Seq(Retriers)
  /\ e.phase \in {"free", "reading", "read", "seeding"} => ~e.byUser
  /\ e.phase = "live" => Planned(e)

PInv ==
  /\ versions = {} /\ restore.pc = "idle"
  /\ \A i \in Incarnations : Provided(entry[i])

-----------------------------------------------------------------------------
(* The operations on one entry                                              *)

LEMMA BlankProvided == Provided(Blank)
<1>1. /\ Blank.chain = <<>> /\ Blank.phase = "free" /\ ~Blank.byUser
      /\ <<>> \in Seq(Retriers)
  BY EmptySeq DEF Blank
<1> QED
  BY <1>1 DEF Provided

\* After a flush the entry is clean or the flush is queued behind another.
LEMMA FlushPlans ==
  ASSUME NEW e \in Entry, e.chain \in Seq(Retriers), NEW w \in Retriers
  PROVE  Flush(e, w).chain \in Seq(Retriers) /\ Planned(Flush(e, w))
<1>1. w \in Waiters
  BY DEF Retriers, Waiters, Tails
<1>2. CASE e.chain # <<>>
  <2>1. Flush(e, w).chain = Append(e.chain, w)
    BY <1>1, <1>2, FlushFacts
  <2>2. Append(e.chain, w) \in Seq(Retriers) /\ Len(Append(e.chain, w)) = Len(e.chain) + 1
        /\ Len(e.chain) \in Nat
    BY AppendProperties, LenProperties
  <2>3. Len(e.chain) # 0
    BY <1>2, EmptySeq
  <2>4. Len(Append(e.chain, w)) > 1
    BY <2>2, <2>3
  <2> QED
    BY <2>1, <2>2, <2>4 DEF Planned
<1>3. CASE e.chain = <<>>
  <2>1. ~Flush(e, w).dirty /\ Flush(e, w).chain \in {<<>>, <<w>>}
    BY <1>1, <1>3, FlushFacts
  <2>2. <<>> \in Seq(Retriers) /\ <<w>> \in Seq(Retriers)
    OBVIOUS
  <2> QED
    BY <2>1, <2>2 DEF Planned
<1> QED
  BY <1>2, <1>3

\* The end of the head starts the next save, or lets everybody go.
LEMMA AdvancePlans ==
  ASSUME NEW e \in Entry, e.chain \in Seq(Retriers), e.chain # <<>>
  PROVE  /\ Advance(e).chain \in Seq(Retriers)
         /\ Planned(Advance(e)) \/ ChecksIdle(Returned(e))
<1>1. CASE StartsNext(e)
  <2>1. Advance(e).chain = Tail(e.chain) /\ ~Advance(e).dirty
    BY <1>1, AdvanceFacts
  <2>2. Tail(e.chain) \in Seq(Retriers)
    BY HeadTailProperties
  <2> QED
    BY <2>1, <2>2 DEF Planned
<1>2. CASE ~StartsNext(e)
  <2>1. Advance(e).chain = <<>> /\ Returned(e) = {e.chain[k] : k \in DOMAIN e.chain}
    BY <1>2, AdvanceFacts DEF Returned
  <2>2. 1 \in DOMAIN e.chain /\ e.chain[1] \in Retriers
    <3>1. Len(e.chain) \in Nat /\ Len(e.chain) # 0 /\ DOMAIN e.chain = 1..Len(e.chain)
      BY LenProperties, EmptySeq
    <3>2. 1 \in DOMAIN e.chain
      BY <3>1
    <3> QED
      BY <3>2, ElementOfSeq, <3>1
  <2>3. ChecksIdle(Returned(e))
    BY <2>1, <2>2 DEF ChecksIdle, Retriers
  <2>4. <<>> \in Seq(Retriers)
    OBVIOUS
  <2> QED
    BY <2>1, <2>3, <2>4
<1> QED
  BY <1>1, <1>2

\* Whoever looks at a dirty entry arms its timer.
LEMMA SettledPlans ==
  ASSUME NEW i, NEW e \in Entry, NEW done, e.chain \in Seq(Retriers),
         e.phase \in {"live", "gone"}, e.phase = "live" => current = i,
         Planned(e) \/ ChecksIdle(done)
  PROVE  Provided(Settled(i, e, done))
<1> DEFINE s == Settled(i, e, done)
<1> SUFFICES Provided(s)
  OBVIOUS
<1>1. CASE s = Blank
  BY <1>1, BlankProvided
<1>2. CASE s = [e EXCEPT !.phase = "gone", !.timer = FALSE]
  <2>1. s.phase = "gone" /\ s.chain = e.chain
    BY <1>2 DEF Entry
  <2> QED
    BY <2>1 DEF Provided
<1>3. CASE s = [e EXCEPT !.timer = TRUE]
  <2>1. s.phase = e.phase /\ s.chain = e.chain /\ s.timer
    BY <1>3 DEF Entry
  <2> QED
    BY <2>1 DEF Provided, Planned
<1>4. CASE s = e /\ s # [e EXCEPT !.timer = TRUE] /\ ~Unloads(i, e, done)
  <2>1. ~Reschedules(i, e, done)
    BY <1>4 DEF Settled
  <2>2. e.phase = "live" => Planned(e)
    BY <2>1 DEF Reschedules, Planned
  <2> HIDE DEF s
  <2> QED
    BY <1>4, <2>2 DEF Provided
<1> QED
  BY <1>1, <1>2, <1>3, <1>4 DEF Settled

-----------------------------------------------------------------------------
(* Steps                                                                    *)

\* One entry changes, and no version appears.
LEMMA PlanStep ==
  ASSUME PInv, EntriesOK, NEW i \in Incarnations, NEW f, Provided(f),
         entry' = [entry EXCEPT ![i] = f], UNCHANGED versions, restore'.pc = "idle"
  PROVE  PInv'
<1>1. \A j \in Incarnations : entry'[j] = f \/ entry'[j] = entry[j]
  BY DEF EntriesOK
<1>2. \A j \in Incarnations : Provided(entry'[j])
  BY <1>1 DEF PInv
<1> QED
  BY <1>2 DEF PInv

LEMMA PlanStays ==
  ASSUME PInv, UNCHANGED <<entry, versions>>, restore'.pc = "idle"
  PROVE  PInv'
BY DEF PInv

\* A flush of the live document by a holder or the timer.
LEMMA FlushPlanStep ==
  ASSUME PInv, EntriesOK, EntriesSound, Live, NEW e \in Entry, NEW w \in Retriers,
         NEW done, e.phase = "live", e.chain = entry[current].chain,
         Settle(current, Flush(e, w), done), UNCHANGED <<versions, restore>>
  PROVE  PInv'
<1>1. current \in Incarnations
  BY LiveEntry
<1>2. e.chain \in Seq(Retriers) /\ w \in Waiters
  BY <1>1 DEF PInv, Provided, Retriers, Waiters, Tails
<1>3. Flush(e, w) \in Entry /\ Flush(e, w).phase = "live"
  BY <1>2, FlushFacts
<1>4. Flush(e, w).chain \in Seq(Retriers) /\ Planned(Flush(e, w))
  BY <1>2, FlushPlans
<1> DEFINE s == Settled(current, Flush(e, w), done)
<1>5. Provided(s)
  BY <1>3, <1>4, SettledPlans
<1>6. entry' = [entry EXCEPT ![current] = s]
  BY DEF Settle
<1> HIDE DEF s
<1> QED
  BY <1>1, <1>5, <1>6, PlanStep DEF PInv

\* The head of a chain or a seeding save ends.
LEMMA HeadPlanStep ==
  ASSUME PInv, EntriesOK, EntriesSound, NEW i \in Incarnations, NEW e \in Entry,
         HeadEnds(i, e), e.phase = entry[i].phase, e.chain = entry[i].chain,
         e.byUser = entry[i].byUser, entry[i].save.stage # "none",
         UNCHANGED versions
  PROVE  PInv'
<1>1. /\ Provided(entry[i]) /\ PhaseShape(entry[i]) /\ entry[i] \in Entry
      /\ restore.pc = "idle"
  BY DEF PInv, EntriesSound, Sound
<1>2. CASE e.phase = "seeding"
  <2> DEFINE f == Opened([e EXCEPT !.save = NoSave])
  <2>1. entry' = [entry EXCEPT ![i] = f] /\ restore' = restore
    BY <1>2 DEF HeadEnds
  <2>2. f.chain = e.chain /\ f.phase = "live" /\ f.byUser = e.byUser
    BY DEF Opened, Entry
  <2> HIDE DEF f
  <2>3. Provided(f)
    BY <1>1, <1>2, <2>2 DEF Provided, Planned
  <2> QED
    BY <1>1, <2>1, <2>3, PlanStep
<1>3. CASE e.phase # "seeding"
  <2>1. e.phase \in {"live", "gone"} /\ e.chain # <<>>
    BY <1>1, <1>3 DEF PhaseShape, ChainShape, Entry, Phases
  <2>2. e.chain \in Seq(Retriers)
    BY <1>1 DEF Provided
  <2>3. Settle(i, Advance(e), Returned(e)) /\ restore' = RestoreAfter(Returned(e))
    BY <1>3 DEF HeadEnds
  <2>4. restore'.pc = "idle"
    <3>1. "restore" \notin Returned(e) /\ "replace" \notin Returned(e)
      <4>1. \A k \in DOMAIN e.chain : e.chain[k] \in Retriers
        BY <2>2, ElementOfSeq, LenProperties
      <4>2. Returned(e) \subseteq Retriers
        <5>1. e.chain[1] \in Retriers
          <6>1. 1 \in DOMAIN e.chain
            BY <2>1, <2>2, LenProperties, EmptySeq
          <6> QED
            BY <4>1, <6>1
        <5> QED
          BY <4>1, <5>1 DEF Returned
      <4>3. "restore" \notin Retriers /\ "replace" \notin Retriers
        BY NamesAssumption DEF Retriers, Tails
      <4> QED
        BY <4>2, <4>3
    <3> QED
      BY <1>1, <2>3, <3>1 DEF RestoreAfter
  <2>5. Advance(e) \in Entry /\ Advance(e).phase = e.phase
    BY AdvanceFacts
  <2>6. /\ Advance(e).chain \in Seq(Retriers)
        /\ Planned(Advance(e)) \/ ChecksIdle(Returned(e))
    BY <2>1, <2>2, AdvancePlans
  <2>7. e.phase = "live" => current = i
    BY DEF EntriesOK, InMemory
  <2> DEFINE s == Settled(i, Advance(e), Returned(e))
  <2>8. Provided(s)
    BY <2>1, <2>5, <2>6, <2>7, SettledPlans
  <2>9. entry' = [entry EXCEPT ![i] = s]
    BY <2>3 DEF Settle
  <2> HIDE DEF s
  <2> QED
    BY <2>4, <2>8, <2>9, PlanStep
<1> QED
  BY <1>2, <1>3

-----------------------------------------------------------------------------
(* The invariant is inductive                                               *)

\* A text that has just been read has no user's edit.
LEMMA OpeningPlans ==
  ASSUME IInv, PInv,
         \/ \E c \in Holders : Acquire(c)
         \/ \E i \in Incarnations : Load(i)
  PROVE  PInv'
<1>0. /\ EntriesOK /\ EntriesSound /\ restore.pc = "idle"
      /\ \A i \in Incarnations : entry[i] \in Entry /\ Provided(entry[i])
  BY DEF IInv, EntriesSound, Sound, PInv
<1>1. ASSUME NEW c \in Holders, AcquireLoaded(c) PROVE PInv'
  <2> DEFINE f == [entry[current] EXCEPT !.refs = @ + 1]
  <2>1. Live /\ entry' = [entry EXCEPT ![current] = f] /\ UNCHANGED <<versions, restore>>
    BY <1>1 DEF AcquireLoaded
  <2>2. current \in Incarnations /\ entry[current] \in Entry
    BY <1>0, <2>1, LiveEntry
  <2>3. /\ f.chain = entry[current].chain /\ f.phase = entry[current].phase
        /\ f.byUser = entry[current].byUser /\ f.dirty = entry[current].dirty
        /\ f.timer = entry[current].timer
    BY <2>2 DEF Entry
  <2> HIDE DEF f
  <2>4. Provided(f)
    BY <1>0, <2>2, <2>3 DEF Provided, Planned
  <2> QED
    BY <1>0, <2>1, <2>2, <2>4, PlanStep
<1>2. ASSUME NEW c \in Holders, AcquireShared(c) PROVE PInv'
  BY <1>0, <1>2, PlanStays DEF AcquireShared
<1>3. ASSUME NEW c \in Holders, AcquireLoads(c) PROVE PInv'
  <2>1. PICK i \in Incarnations :
          entry[i].phase = "free" /\ entry' = [entry EXCEPT ![i].phase = "reading"]
    BY <1>3 DEF AcquireLoads
  <2> DEFINE f == [entry[i] EXCEPT !.phase = "reading"]
  <2>2. entry' = [entry EXCEPT ![i] = f] /\ UNCHANGED <<versions, restore>>
    BY <1>3, <2>1 DEF AcquireLoads
  <2>3. /\ f.chain = entry[i].chain /\ f.phase = "reading"
        /\ f.byUser = entry[i].byUser
    BY <1>0 DEF Entry
  <2> HIDE DEF f
  <2>4. Provided(f)
    BY <1>0, <2>1, <2>3 DEF Provided
  <2> QED
    BY <1>0, <2>2, <2>4, PlanStep
<1>4. ASSUME NEW i \in Incarnations, LoadReads(i) PROVE PInv'
  <2> DEFINE f == [entry[i] EXCEPT
                     !.phase = "read",
                     !.doc = IF row.yjsState # NoState THEN row.yjsState ELSE row.json,
                     !.dirty = row.yjsState = NoState /\ row.json # {}]
  <2>1. /\ entry' = [entry EXCEPT ![i] = f] /\ UNCHANGED <<versions, restore>>
        /\ entry[i].phase = "reading"
    BY <1>4 DEF LoadReads
  <2>2. /\ f.chain = entry[i].chain /\ f.phase = "read" /\ f.byUser = entry[i].byUser
    BY <1>0 DEF Entry
  <2> HIDE DEF f
  <2>3. Provided(f)
    BY <1>0, <2>1, <2>2 DEF Provided
  <2> QED
    BY <1>0, <2>1, <2>3, PlanStep
<1>5. ASSUME NEW i \in Incarnations, LoadAnswered(i) PROVE PInv'
  <2> DEFINE seeding == [Persist(entry[i]) EXCEPT !.phase = "seeding"]
             opened == Opened(entry[i])
  <2>1. /\ entry[i].phase = "read" /\ UNCHANGED <<versions, restore>>
        /\ entry' = [entry EXCEPT ![i] = seeding] \/ entry' = [entry EXCEPT ![i] = opened]
    BY <1>5 DEF LoadAnswered
  <2>2. /\ Persist(entry[i]) \in Entry /\ Persist(entry[i]).chain = entry[i].chain
        /\ Persist(entry[i]).byUser = entry[i].byUser
    BY <1>0, PersistFacts
  <2>3. /\ seeding.chain = entry[i].chain /\ seeding.byUser = entry[i].byUser
        /\ seeding.phase = "seeding"
    BY <2>2 DEF Entry
  <2>4. opened.chain = entry[i].chain /\ opened.byUser = entry[i].byUser
    BY <1>0 DEF Opened, Entry
  <2> HIDE DEF seeding, opened
  <2>5. Provided(seeding) /\ Provided(opened)
    BY <1>0, <2>1, <2>3, <2>4 DEF Provided, Planned
  <2> QED
    BY <1>0, <2>1, <2>5, PlanStep
<1>6. ASSUME NEW i \in Incarnations, LoadFails(i) PROVE PInv'
  BY <1>0, <1>6, BlankProvided, PlanStep DEF LoadFails
<1> QED
  BY <1>1, <1>2, <1>3, <1>4, <1>5, <1>6 DEF Acquire, Load

\* An edit arms the timer; a flush that clears it saves or queues.
LEMMA UsePlans ==
  ASSUME IInv, PInv,
         \/ \E c \in Holders : Edit(c) \/ Release(c)
         \/ TimerFires
  PROVE  PInv'
<1>0. /\ EntriesOK /\ EntriesSound /\ restore.pc = "idle"
      /\ \A i \in Incarnations : entry[i] \in Entry /\ Provided(entry[i])
  BY DEF IInv, EntriesSound, Sound, PInv
<1> DEFINE old == entry[current]
<1>1. Live => current \in Incarnations /\ old \in Entry /\ old.phase = "live"
  BY <1>0, LiveEntry
<1>2. ASSUME NEW c \in Holders, Edit(c) PROVE PInv'
  <2>1. PICK x \in Edits :
          entry' = [entry EXCEPT ![current].doc = @ \cup {x},
                                 ![current].dirty = TRUE,
                                 ![current].byUser = TRUE,
                                 ![current].timer = TRUE]
    BY <1>2 DEF Edit
  <2> DEFINE f == [old EXCEPT !.doc = @ \cup {x}, !.dirty = TRUE, !.byUser = TRUE,
                              !.timer = TRUE]
  <2>2. Live /\ UNCHANGED <<versions, restore>>
    BY <1>2 DEF Edit
  <2>3. entry' = [entry EXCEPT ![current] = f]
    BY <1>0, <1>1, <2>1, <2>2 DEF EntriesOK
  <2>4. f.chain = old.chain /\ f.phase = "live" /\ f.timer
    BY <1>1, <2>2 DEF Entry
  <2> HIDE DEF f
  <2>5. Provided(f)
    BY <1>0, <1>1, <2>2, <2>4 DEF Provided, Planned
  <2> QED
    BY <1>0, <1>1, <2>2, <2>3, <2>5, PlanStep
<1>3. ASSUME NEW c \in Holders, ReleaseKeeps(c) PROVE PInv'
  <2>1. UNCHANGED <<versions, restore>>
    BY <1>3 DEF ReleaseKeeps
  <2>2. CASE ~Live
    BY <1>0, <1>3, <2>1, <2>2, PlanStays DEF ReleaseKeeps
  <2>3. CASE Live
    <3> DEFINE f == [old EXCEPT !.refs = @ - 1]
    <3>1. entry' = [entry EXCEPT ![current] = f]
      BY <1>3, <2>3 DEF ReleaseKeeps
    <3>2. /\ f.chain = old.chain /\ f.phase = "live" /\ f.timer = old.timer
          /\ f.dirty = old.dirty /\ f.byUser = old.byUser
      BY <1>1, <2>3 DEF Entry
    <3> HIDE DEF f
    <3>3. Provided(f)
      BY <1>0, <1>1, <2>3, <3>2 DEF Provided, Planned
    <3> QED
      BY <1>0, <1>1, <2>1, <2>3, <3>1, <3>3, PlanStep
  <2> QED
    BY <2>2, <2>3
<1>4. ASSUME NEW c \in Holders, ReleaseLast(c) PROVE PInv'
  <2> DEFINE f == [old EXCEPT !.refs = 0]
             done == AtOnce(f, c)
  <2>1. Live /\ Settle(current, Flush(f, c), done) /\ UNCHANGED <<versions, restore>>
    BY <1>4 DEF ReleaseLast
  <2>2. f \in Entry /\ f.phase = "live" /\ f.chain = old.chain
    BY <1>1, <2>1 DEF Entry
  <2> HIDE DEF f, done
  <2> QED
    BY <1>0, <2>1, <2>2, FlushPlanStep DEF Retriers
<1>5. ASSUME TimerFires PROVE PInv'
  <2> DEFINE f == [old EXCEPT !.timer = FALSE]
             done == AtOnce(f, "timer")
  <2>1. Live /\ Settle(current, Flush(f, "timer"), done) /\ UNCHANGED <<versions, restore>>
    BY <1>5 DEF TimerFires
  <2>2. f \in Entry /\ f.phase = "live" /\ f.chain = old.chain
    BY <1>1, <2>1 DEF Entry
  <2> HIDE DEF f, done
  <2> QED
    BY <1>0, <2>1, <2>2, FlushPlanStep DEF Retriers
<1> QED
  BY <1>2, <1>3, <1>4, <1>5 DEF Release

\* A save that fails is followed by the next of the chain or by a timer.
LEMMA SavePlans ==
  ASSUME IInv, PInv, NEW i \in Incarnations, SaveStep(i)
  PROVE  PInv'
<1>0. /\ EntriesOK /\ EntriesSound /\ restore.pc = "idle"
      /\ entry[i] \in Entry /\ Provided(entry[i])
  BY DEF IInv, EntriesSound, Sound, PInv
<1>1. ASSUME NEW stage, UNCHANGED <<versions, restore>>,
             entry' = [entry EXCEPT ![i].save.stage = stage]
      PROVE  PInv'
  <2> DEFINE f == [entry[i] EXCEPT !.save.stage = stage]
  <2>1. entry' = [entry EXCEPT ![i] = f]
    BY <1>1
  <2>2. /\ f.chain = entry[i].chain /\ f.phase = entry[i].phase
        /\ f.timer = entry[i].timer /\ f.dirty = entry[i].dirty
        /\ f.byUser = entry[i].byUser
    BY <1>0 DEF Entry
  <2> HIDE DEF f
  <2>3. Provided(f)
    BY <1>0, <2>2 DEF Provided, Planned
  <2> QED
    BY <1>0, <1>1, <2>1, <2>3, PlanStep
<1>2. CASE SaveCommits(i)
  BY <1>1, <1>2 DEF SaveCommits
<1>3. CASE SaveAnswered(i)
  <2>1. entry[i].save.stage = "stored" /\ UNCHANGED versions
    BY <1>3 DEF SaveAnswered
  <2>2. CASE entry[i].save.byUser
    BY <1>1, <1>3, <2>2 DEF SaveAnswered
  <2>3. CASE ~entry[i].save.byUser
    <3>1. HeadEnds(i, entry[i])
      BY <1>3, <2>3 DEF SaveAnswered
    <3> QED
      BY <1>0, <2>1, <3>1, HeadPlanStep
  <2> QED
    BY <2>2, <2>3
<1>4. CASE SnapshotQueued(i)
  BY <1>0, <1>4, HeadPlanStep DEF SnapshotQueued
<1>5. CASE SaveFails(i)
  <2> DEFINE f == [entry[i] EXCEPT !.dirty = TRUE]
  <2>1. HeadEnds(i, f) /\ entry[i].save.stage \in {"sent", "stored"} /\ UNCHANGED versions
    BY <1>5 DEF SaveFails
  <2>2. /\ f \in Entry /\ f.phase = entry[i].phase /\ f.chain = entry[i].chain
        /\ f.byUser = entry[i].byUser
    BY <1>0 DEF Entry
  <2> HIDE DEF f
  <2> QED
    BY <1>0, <2>1, <2>2, HeadPlanStep
<1> QED
  BY <1>2, <1>3, <1>4, <1>5 DEF SaveStep

\* REST writes and crashes take no edit's save away, and restores need a version.
LEMMA OthersPlan ==
  ASSUME IInv, PInv, RestStep \/ RestoreStep \/ Crash
  PROVE  PInv'
<1>1. versions = {} /\ restore.pc = "idle"
  BY DEF PInv
<1>2. CASE RestStep
  BY <1>1, <1>2, PlanStays DEF RestStep, RestSends, RestCommits, RestFails
<1>3. ~RestoreStep
  BY <1>1 DEF RestoreStep, RestoreBegins, RestoreCommits, RestoreReplaces, RestoreFails
<1>4. CASE Crash
  <2>1. /\ entry' = [i \in Incarnations |-> Blank] /\ restore' = Idle
        /\ UNCHANGED versions
    BY <1>4 DEF Crash
  <2> QED
    BY <1>1, <2>1, BlankProvided DEF PInv, Idle
<1> QED
  BY <1>2, <1>3, <1>4

-----------------------------------------------------------------------------
(* The theorem                                                              *)

LEMMA PlansHold ==
  ASSUME VersionBodies = {}
  PROVE  Spec => [](IInv /\ PInv)
<1>1. Init => PInv
  <2> SUFFICES ASSUME Init PROVE PInv
    OBVIOUS
  <2> QED
    BY BlankProvided DEF Init, PInv, Idle
<1>2. IInv /\ PInv /\ [Next]_vars => PInv'
  <2> SUFFICES ASSUME IInv, PInv, [Next]_vars PROVE PInv'
    OBVIOUS
  <2>1. CASE UNCHANGED vars
    BY <2>1, PlanStays DEF PInv, vars
  <2>2. CASE Next
    BY <2>2, OpeningPlans, UsePlans, SavePlans, OthersPlan DEF Next
  <2> QED
    BY <2>1, <2>2
<1> QED
  BY <1>1, <1>2, InvariantHolds, PTL DEF Spec

\* With no version to restore, an acknowledged edit that is not saved always has
\* a save coming (an armed timer, or a persist behind the one under way), for any
\* number of holders, REST writes, errors and restarts.
THEOREM EditIsPlanned ==
  ASSUME VersionBodies = {}
  PROVE  Spec => []AcceptedEditIsPlanned
<1>1. IInv /\ PInv => AcceptedEditIsPlanned
  <2> SUFFICES ASSUME IInv, PInv, Live PROVE Planned(entry[current])
    BY DEF AcceptedEditIsPlanned, Planned
  <2>1. current \in Incarnations /\ entry[current].phase = "live"
    BY LiveEntry DEF IInv
  <2> QED
    BY <2>1 DEF PInv, Provided
<1> QED
  BY <1>1, PlansHold, PTL

-----------------------------------------------------------------------------
(* The reference count.  HoldersAreCounted is not inductive: a save that     *)
(* ends lets holders go on, and those must be the ones that are leaving.     *)
(* From it follows that LiveDoc implements PageLease.                        *)

\* The holders waiting in a chain.
Waits(chain) == {chain[k] : k \in DOMAIN chain} \cap Holders

\* No holder waits twice in it.
Distinct(chain) ==
  \A k, l \in DOMAIN chain : chain[k] \in Holders /\ chain[k] = chain[l] => k = l

Closing == {c \in Holders : holder[c] = "closing"}

\* Whoever waits for a save is leaving the page, and waits in one place.
ChainsOK ==
  /\ \A i \in Incarnations : Distinct(entry[i].chain)
  /\ \A i \in Incarnations : Waits(entry[i].chain) \subseteq Closing
  /\ \A i, j \in Incarnations :
       i # j => Waits(entry[i].chain) \cap Waits(entry[j].chain) = {}

HInv == ChainsOK /\ HoldersAreCounted

-----------------------------------------------------------------------------
(* Chains                                                                   *)

LEMMA EmptyChain == Distinct(<<>>) /\ Waits(<<>>) = {}
BY DEF Distinct, Waits

LEMMA SingleChain ==
  ASSUME NEW w
  PROVE  Distinct(<<w>>) /\ Waits(<<w>>) = {w} \cap Holders
BY DEF Distinct, Waits

\* A waiter who is not in the chain yet joins it.
LEMMA LongerChain ==
  ASSUME NEW s \in Seq(Waiters), NEW w \in Waiters, Distinct(s), w \notin Waits(s)
  PROVE  /\ Distinct(Append(s, w))
         /\ Waits(Append(s, w)) = Waits(s) \cup ({w} \cap Holders)
<1> DEFINE t == Append(s, w)
<1>1. /\ Len(s) \in Nat /\ DOMAIN s = 1..Len(s) /\ DOMAIN t = 1..(Len(s) + 1)
      /\ \A k \in 1..Len(s) : t[k] = s[k]
      /\ t[Len(s) + 1] = w
  BY AppendProperties, LenProperties
<1> HIDE DEF t
<1>2. DOMAIN t = DOMAIN s \cup {Len(s) + 1} /\ Len(s) + 1 \notin DOMAIN s
  BY <1>1
<1>3. \A k \in DOMAIN s : t[k] = s[k]
  BY <1>1
<1>4. w \in Holders => \A k \in DOMAIN s : s[k] # w
  BY DEF Waits
<1>5. Distinct(t)
  <2> SUFFICES ASSUME NEW k \in DOMAIN t, NEW l \in DOMAIN t,
                      t[k] \in Holders, t[k] = t[l]
               PROVE  k = l
    BY DEF Distinct
  <2>1. CASE k \in DOMAIN s /\ l \in DOMAIN s
    BY <1>3, <2>1 DEF Distinct
  <2>2. CASE k = Len(s) + 1 \/ l = Len(s) + 1
    BY <1>1, <1>2, <1>3, <1>4, <2>2
  <2> QED
    BY <1>2, <2>1, <2>2
<1>6. Waits(t) = Waits(s) \cup ({w} \cap Holders)
  <2>1. ASSUME NEW c \in Waits(t) PROVE c \in Waits(s) \cup ({w} \cap Holders)
    <3>1. PICK k \in DOMAIN t : t[k] = c
      BY DEF Waits
    <3>2. CASE k \in DOMAIN s
      BY <1>3, <3>1, <3>2 DEF Waits
    <3>3. CASE k = Len(s) + 1
      BY <1>1, <3>1, <3>3 DEF Waits
    <3> QED
      BY <1>2, <3>2, <3>3
  <2>2. ASSUME NEW c \in Waits(s) PROVE c \in Waits(t)
    BY <1>2, <1>3 DEF Waits
  <2>3. w \in Holders => w \in Waits(t)
    BY <1>1, <1>2 DEF Waits
  <2> QED
    BY <2>1, <2>2, <2>3
<1> QED
  BY <1>5, <1>6 DEF t

\* The head of a chain of two or more leaves it.
LEMMA ShorterChain ==
  ASSUME NEW s \in Seq(Waiters), Len(s) > 1, Distinct(s)
  PROVE  Distinct(Tail(s)) /\ Waits(Tail(s)) = Waits(s) \ {s[1]}
<1> DEFINE t == Tail(s)
<1>1. s # <<>>
  BY EmptySeq
<1>2. t \in Seq(Waiters) /\ Len(t) = Len(s) - 1 /\ Len(s) \in Nat
  BY <1>1, HeadTailProperties, LenProperties
<1>3. DOMAIN s = 1..Len(s) /\ DOMAIN t = 1..Len(t)
  BY <1>2, LenProperties
<1>4. \A k \in 1..Len(t) : t[k] = s[k + 1]
  BY <1>1, HeadTailProperties
<1> HIDE DEF t
<1>5. Distinct(t)
  <2> SUFFICES ASSUME NEW k \in DOMAIN t, NEW l \in DOMAIN t,
                      t[k] \in Holders, t[k] = t[l]
               PROVE  k = l
    BY DEF Distinct
  <2>1. k + 1 \in DOMAIN s /\ l + 1 \in DOMAIN s /\ k \in Int /\ l \in Int
    BY <1>2, <1>3
  <2>2. s[k + 1] \in Holders /\ s[k + 1] = s[l + 1]
    BY <1>3, <1>4
  <2>3. k + 1 = l + 1
    BY <2>1, <2>2 DEF Distinct
  <2> QED
    BY <2>1, <2>3
<1>6. ASSUME NEW c \in Holders PROVE c \in Waits(t) <=> c \in Waits(s) /\ c # s[1]
  <2>1. ASSUME c \in Waits(t) PROVE c \in Waits(s) /\ c # s[1]
    <3>1. PICK k \in DOMAIN t : t[k] = c
      BY <2>1 DEF Waits
    <3>2. k + 1 \in DOMAIN s /\ s[k + 1] = c /\ 1 \in DOMAIN s /\ k + 1 # 1
      BY <1>2, <1>3, <1>4, <3>1
    <3>3. c # s[1]
      BY <3>2 DEF Distinct
    <3> QED
      BY <3>2, <3>3 DEF Waits
  <2>2. ASSUME c \in Waits(s), c # s[1] PROVE c \in Waits(t)
    <3>1. PICK k \in DOMAIN s : s[k] = c
      BY <2>2 DEF Waits
    <3>2. k - 1 \in DOMAIN t /\ (k - 1) + 1 = k
      BY <1>2, <1>3, <2>2, <3>1
    <3>3. t[k - 1] = c
      BY <1>3, <1>4, <3>1, <3>2
    <3> QED
      BY <3>2, <3>3 DEF Waits
  <2> QED
    BY <2>1, <2>2
<1>7. Waits(t) \subseteq Holders /\ Waits(s) \subseteq Holders
  BY DEF Waits
<1> QED
  BY <1>5, <1>6, <1>7 DEF t

-----------------------------------------------------------------------------
(* The operations on one entry                                              *)

\* A flush queues its caller unless there is nothing to wait for.
LEMMA FlushQueues ==
  ASSUME NEW e \in Entry, NEW w \in Waiters, Distinct(e.chain), w \notin Waits(e.chain)
  PROVE  /\ Distinct(Flush(e, w).chain)
         /\ FlushReturns(e) => Waits(Flush(e, w).chain) = Waits(e.chain)
         /\ ~FlushReturns(e) =>
              Waits(Flush(e, w).chain) = Waits(e.chain) \cup ({w} \cap Holders)
<1>1. e.chain \in Seq(Waiters)
  BY DEF Entry
<1>2. CASE e.chain # <<>>
  <2>1. Flush(e, w).chain = Append(e.chain, w) /\ ~FlushReturns(e)
    BY <1>2, FlushFacts DEF FlushReturns
  <2>2. /\ Distinct(Append(e.chain, w))
        /\ Waits(Append(e.chain, w)) = Waits(e.chain) \cup ({w} \cap Holders)
    BY <1>1, LongerChain
  <2> QED
    BY <2>1, <2>2
<1>3. CASE e.chain = <<>> /\ e.dirty
  <2>1. Flush(e, w).chain = <<w>> /\ ~FlushReturns(e)
    BY <1>3, FlushFacts DEF FlushReturns
  <2>2. Waits(e.chain) = {}
    BY <1>3, EmptyChain
  <2> QED
    BY <2>1, <2>2, SingleChain
<1>4. CASE e.chain = <<>> /\ ~e.dirty
  BY <1>4, FlushFacts, EmptyChain DEF FlushReturns
<1> QED
  BY <1>2, <1>3, <1>4

\* The end of the chain's head lets exactly the returned waiters go.
LEMMA AdvanceReturns ==
  ASSUME NEW e \in Entry, Distinct(e.chain)
  PROVE  /\ Distinct(Advance(e).chain)
         /\ Waits(Advance(e).chain) = Waits(e.chain) \ Returned(e)
<1>1. e.chain \in Seq(Waiters)
  BY DEF Entry
<1>2. CASE StartsNext(e)
  <2>1. Advance(e).chain = Tail(e.chain) /\ Len(e.chain) > 1
        /\ Returned(e) = {e.chain[1]}
    BY <1>2, AdvanceFacts DEF StartsNext, Returned
  <2> QED
    BY <1>1, <2>1, ShorterChain
<1>3. CASE ~StartsNext(e)
  <2>1. Advance(e).chain = <<>> /\ Waits(e.chain) \subseteq Returned(e)
    BY <1>3, AdvanceFacts DEF Returned, Waits
  <2> QED
    BY <2>1, EmptyChain
<1> QED
  BY <1>2, <1>3

\* Settling an entry leaves its chain alone, and its count unless it unloads.
LEMMA SettledQueues ==
  ASSUME NEW i, NEW e \in Entry, NEW done
  PROVE  /\ Settled(i, e, done).chain = e.chain
         /\ current = i /\ ~Unloads(i, e, done) =>
              /\ Settled(i, e, done).refs = e.refs
              /\ Settled(i, e, done).phase = e.phase
<1>1. Blank.chain = <<>>
  BY DEF Blank
<1>2. /\ [e EXCEPT !.timer = TRUE].chain = e.chain
      /\ [e EXCEPT !.timer = TRUE].refs = e.refs
      /\ [e EXCEPT !.timer = TRUE].phase = e.phase
      /\ [e EXCEPT !.phase = "gone", !.timer = FALSE].chain = e.chain
  BY DEF Entry
<1> QED
  BY <1>1, <1>2 DEF Settled

-----------------------------------------------------------------------------
(* Steps                                                                    *)

\* One entry's chain changes, and whoever still waits anywhere is leaving.
LEMMA ChainStep ==
  ASSUME ChainsOK, EntriesOK, NEW i \in Incarnations, NEW f,
         entry' = [entry EXCEPT ![i] = f], Distinct(f.chain),
         Waits(f.chain) \subseteq Closing',
         \A j \in Incarnations \ {i} :
           /\ Waits(entry[j].chain) \cap Waits(f.chain) = {}
           /\ Waits(entry[j].chain) \subseteq Closing'
  PROVE  ChainsOK'
<1>1. entry'[i] = f /\ \A j \in Incarnations \ {i} : entry'[j] = entry[j]
  BY DEF EntriesOK
<1>2. \A j \in Incarnations : Distinct(entry'[j].chain)
  BY <1>1 DEF ChainsOK
<1>3. \A j \in Incarnations : Waits(entry'[j].chain) \subseteq Closing'
  BY <1>1
<1>4. ASSUME NEW j \in Incarnations, NEW k \in Incarnations, j # k
      PROVE  Waits(entry'[j].chain) \cap Waits(entry'[k].chain) = {}
  BY <1>1, <1>4 DEF ChainsOK
<1> QED
  BY <1>2, <1>3, <1>4 DEF ChainsOK

\* The entry keeps its chain, and nobody stops leaving.
LEMMA ChainKept ==
  ASSUME ChainsOK, EntriesOK, NEW i \in Incarnations, NEW f,
         entry' = [entry EXCEPT ![i] = f], f.chain = entry[i].chain,
         Closing \subseteq Closing'
  PROVE  ChainsOK'
<1>1. Distinct(f.chain) /\ Waits(f.chain) \subseteq Closing'
  BY DEF ChainsOK
<1>2. \A j \in Incarnations \ {i} :
        /\ Waits(entry[j].chain) \cap Waits(f.chain) = {}
        /\ Waits(entry[j].chain) \subseteq Closing'
  BY DEF ChainsOK
<1> QED
  BY <1>1, <1>2, ChainStep

\* No entry changes, and nobody stops leaving.
LEMMA ChainsStay ==
  ASSUME ChainsOK, UNCHANGED entry, Closing \subseteq Closing'
  PROVE  ChainsOK'
BY DEF ChainsOK

LEMMA HeldFinite ==
  /\ IsFiniteSet(Held) /\ Cardinality(Held) \in Nat
  /\ IsFiniteSet(Held') /\ Cardinality(Held') \in Nat
<1>1. Held \subseteq Holders /\ Held' \subseteq Holders
  BY DEF Held
<1> QED
  BY <1>1, HoldersAssumption, FS_Subset, FS_CardinalityType

\* The live entry keeps its count, or takes a new one that is right, and the
\* page is unloaded only by settling.
LEMMA CountSettles ==
  ASSUME EntriesOK, HoldersAreCounted, NEW i \in Incarnations, NEW e \in Entry,
         NEW done, Settle(i, e, done),
         current = i => e.phase = "live" /\ e.refs = Cardinality(Held'),
         current # i => Held' = Held
  PROVE  HoldersAreCounted'
<1> DEFINE s == Settled(i, e, done)
<1>1. /\ entry' = [entry EXCEPT ![i] = s]
      /\ current' = IF Unloads(i, e, done) THEN NoEntry ELSE current
  BY DEF Settle
<1>2. /\ entry'[i] = s /\ \A j \in Incarnations \ {i} : entry'[j] = entry[j]
      /\ current \in Incarnations \cup {NoEntry}
  BY <1>1 DEF EntriesOK
<1>3. current = i /\ ~Unloads(i, e, done) => s.refs = e.refs /\ s.phase = e.phase
  BY SettledQueues
<1> HIDE DEF s
<1>4. CASE current # i
  <2>1. current' = current /\ Held' = Held
    BY <1>1, <1>4 DEF Unloads
  <2>2. current # NoEntry => entry'[current] = entry[current]
    BY <1>2, <1>4
  <2>3. Live' = Live
    BY <2>1, <2>2 DEF Live
  <2>4. Live => entry'[current'] = entry[current]
    BY <2>1, <2>2 DEF Live
  <2> QED
    BY <2>1, <2>3, <2>4 DEF HoldersAreCounted
<1>5. CASE current = i /\ Unloads(i, e, done)
  <2>1. current' = NoEntry /\ e.refs = 0
    BY <1>1, <1>5 DEF Unloads
  <2>2. Cardinality(Held') = 0
    BY <1>5, <2>1
  <2>3. Held' = {}
    BY <2>2, HeldFinite, FS_EmptySet
  <2>4. ~Live'
    BY <2>1 DEF Live
  <2> QED
    BY <2>3, <2>4 DEF HoldersAreCounted
<1>6. CASE current = i /\ ~Unloads(i, e, done)
  <2>1. current' = i /\ entry'[i].phase = "live" /\ entry'[i].refs = Cardinality(Held')
    BY <1>1, <1>2, <1>3, <1>6
  <2>2. i # NoEntry
    BY NamesAssumption
  <2>3. Live'
    BY <2>1, <2>2 DEF Live
  <2> QED
    BY <2>1, <2>3 DEF HoldersAreCounted
<1> QED
  BY <1>4, <1>5, <1>6

\* Nobody comes or goes, and the live entry stays with its count.
LEMMA CountStays ==
  ASSUME HoldersAreCounted, Held' = Held, Live' = Live,
         Live => entry'[current'].refs = entry[current].refs
  PROVE  HoldersAreCounted'
BY DEF HoldersAreCounted

\* A flush of the live document by w, who is not waiting yet; if w is a holder
\* and has to wait, he is leaving.
LEMMA FlushChains ==
  ASSUME ChainsOK, EntriesOK, EntriesSound, Live, NEW e \in Entry, NEW w \in Waiters,
         e.chain = entry[current].chain,
         \A i \in Incarnations : w \notin Waits(entry[i].chain),
         Settle(current, Flush(e, w), AtOnce(e, w)),
         Closing \subseteq Closing',
         w \in Holders /\ ~FlushReturns(e) => w \in Closing'
  PROVE  ChainsOK'
<1> DEFINE f == Flush(e, w)
           s == Settled(current, f, AtOnce(e, w))
<1>1. current \in Incarnations
  BY LiveEntry
<1>2. Distinct(e.chain) /\ w \notin Waits(e.chain)
  BY <1>1 DEF ChainsOK
<1>3. f \in Entry
  BY FlushFacts
<1>4. Distinct(f.chain) /\ Waits(f.chain) \subseteq Waits(e.chain) \cup ({w} \cap Holders)
      /\ (FlushReturns(e) => Waits(f.chain) = Waits(e.chain))
  BY <1>2, FlushQueues
<1>5. entry' = [entry EXCEPT ![current] = s]
  BY DEF Settle
<1> HIDE DEF f
<1>6. s.chain = f.chain
  BY <1>3, SettledQueues
<1> HIDE DEF s
<1>7. \A j \in Incarnations : Waits(entry[j].chain) \subseteq Closing'
  BY DEF ChainsOK
<1>8. Waits(s.chain) \subseteq Closing'
  BY <1>1, <1>4, <1>6, <1>7
<1>9. \A j \in Incarnations \ {current} : Waits(entry[j].chain) \cap Waits(s.chain) = {}
  <2> SUFFICES ASSUME NEW j \in Incarnations \ {current}
               PROVE  Waits(entry[j].chain) \cap Waits(s.chain) = {}
    OBVIOUS
  <2>1. Waits(entry[j].chain) \cap Waits(e.chain) = {}
    BY <1>1 DEF ChainsOK
  <2> QED
    BY <1>4, <1>6, <2>1
<1> QED
  BY <1>1, <1>4, <1>5, <1>6, <1>7, <1>8, <1>9, ChainStep

\* The live entry has no holder in its chain who stays: the ones let go by the
\* end of a save are leaving, and the count stands.
LEMMA HeadEndsKeepsCount ==
  ASSUME ChainsOK, EntriesOK, EntriesSound, OthersOK, HoldersAreCounted,
         NEW i \in Incarnations, NEW e \in Entry, HeadEnds(i, e),
         e.phase = entry[i].phase, e.phase \in {"seeding", "live", "gone"},
         e.chain = entry[i].chain, e.refs = entry[i].refs
  PROVE  HInv'
<1>1. holder \in [Holders -> {"out", "opening", "in", "closing"}]
  BY DEF OthersOK
<1>2. CASE e.phase = "seeding"
  <2> DEFINE f == Opened([e EXCEPT !.save = NoSave])
  <2>1. entry' = [entry EXCEPT ![i] = f] /\ holder' = OpenHolders /\ current' = current
    BY <1>2 DEF HeadEnds
  <2>2. f.chain = e.chain /\ f.phase = "live" /\ f.refs = Cardinality(Opening)
    BY DEF Opened, Entry
  <2> HIDE DEF f
  <2>3. i = current /\ ~Live /\ i # NoEntry
    BY <1>2, NamesAssumption DEF EntriesOK, InMemory, Live
  <2>4. Held = {}
    BY <2>3 DEF HoldersAreCounted
  <2>5. Held' = Opening /\ Closing' = Closing
    BY <1>1, <2>1, <2>4 DEF OpenHolders, Opening, Held, Closing
  <2>6. ChainsOK'
    BY <2>1, <2>2, <2>5, ChainKept
  <2>7. entry'[current'] = f /\ current' # NoEntry
    BY <2>1, <2>3 DEF EntriesOK
  <2>8. HoldersAreCounted'
    BY <2>2, <2>5, <2>7 DEF HoldersAreCounted, Live
  <2> QED
    BY <2>6, <2>8 DEF HInv
<1>3. CASE e.phase \in {"live", "gone"}
  <2> DEFINE a == Advance(e)
             done == Returned(e)
             s == Settled(i, a, done)
  <2>1. Settle(i, a, done) /\ holder' = HoldersAfter(done)
    BY <1>3 DEF HeadEnds
  <2>2. a \in Entry /\ a.phase = e.phase /\ a.refs = e.refs
    BY AdvanceFacts
  <2>3. Distinct(e.chain)
    BY DEF ChainsOK
  <2>4. Distinct(a.chain) /\ Waits(a.chain) = Waits(e.chain) \ done
    BY <2>3, AdvanceReturns
  <2>5. done \cap Holders \subseteq Waits(e.chain)
    <3>1. e.chain \in Seq(Waiters)
      BY DEF Entry
    <3>2. StartsNext(e) => 1 \in DOMAIN e.chain
      BY <3>1, LenProperties DEF StartsNext
    <3> QED
      BY <3>2 DEF Returned, Waits
  <2> HIDE DEF a, done
  <2>6. entry' = [entry EXCEPT ![i] = s] /\ s.chain = a.chain
    BY <2>1, <2>2, SettledQueues DEF Settle
  <2> HIDE DEF s
  <2>7. done \cap Holders \subseteq Closing
    BY <2>5 DEF ChainsOK
  <2>8. Held' = Held /\ Closing' = Closing \ done
    BY <1>1, <2>1, <2>7 DEF HoldersAfter, Held, Closing
  <2>9. ChainsOK'
    <3>1. Waits(s.chain) \subseteq Closing'
      BY <2>4, <2>6, <2>8 DEF ChainsOK
    <3>2. ASSUME NEW j \in Incarnations \ {i}
          PROVE  /\ Waits(entry[j].chain) \cap Waits(s.chain) = {}
                 /\ Waits(entry[j].chain) \subseteq Closing'
      <4>1. Waits(entry[j].chain) \cap Waits(e.chain) = {}
            /\ Waits(entry[j].chain) \subseteq Closing
        BY DEF ChainsOK
      <4>2. Waits(entry[j].chain) \subseteq Holders
        BY DEF Waits
      <4> QED
        BY <2>4, <2>5, <2>6, <2>8, <4>1, <4>2
    <3> QED
      BY <2>4, <2>6, <3>1, <3>2, ChainStep
  <2>10. HoldersAreCounted'
    <3>1. ASSUME current = i PROVE a.phase = "live" /\ a.refs = Cardinality(Held')
      <4>1. a.phase = "live" /\ Live
        BY <1>3, <2>2, <3>1, NamesAssumption DEF EntriesOK, InMemory, Live
      <4> QED
        BY <2>2, <2>8, <3>1, <4>1 DEF HoldersAreCounted
    <3> QED
      BY <2>1, <2>2, <2>8, <3>1, CountSettles
  <2> QED
    BY <2>9, <2>10 DEF HInv
<1> QED
  BY <1>2, <1>3

-----------------------------------------------------------------------------
(* The invariant is inductive                                               *)

\* Opening the page: the holders who waited for a load are counted together.
LEMMA OpeningCounts ==
  ASSUME IInv, HInv,
         \/ \E c \in Holders : Acquire(c)
         \/ \E i \in Incarnations : Load(i)
  PROVE  HInv'
<1>0. /\ OthersOK /\ EntriesOK /\ EntriesSound /\ ChainsOK /\ HoldersAreCounted
      /\ holder \in [Holders -> {"out", "opening", "in", "closing"}]
  BY DEF IInv, HInv, OthersOK
<1>1. ASSUME NEW i \in Incarnations, entry[i].phase \in {"reading", "read", "seeding"}
      PROVE  i = current /\ ~Live /\ Held = {} /\ i # NoEntry /\ entry[i] \in Entry
  <2>1. i = current /\ entry[i] \in Entry
    BY <1>0, <1>1 DEF EntriesOK, InMemory
  <2>2. ~Live
    BY <1>1, <2>1 DEF Live
  <2> QED
    BY <1>0, <2>1, <2>2, NamesAssumption DEF HoldersAreCounted
<1>2. ASSUME NEW c \in Holders, AcquireLoaded(c) PROVE HInv'
  <2> DEFINE f == [entry[current] EXCEPT !.refs = @ + 1]
  <2>1. /\ Live /\ holder[c] = "out" /\ UNCHANGED current
        /\ entry' = [entry EXCEPT ![current] = f]
        /\ holder' = [holder EXCEPT ![c] = "in"]
    BY <1>2 DEF AcquireLoaded
  <2>2. /\ current \in Incarnations /\ entry[current] \in Entry
        /\ entry[current].phase = "live"
    BY <1>0, <2>1, LiveEntry
  <2>3. f.chain = entry[current].chain /\ f.phase = "live" /\ f.refs = entry[current].refs + 1
    BY <2>2 DEF Entry
  <2> HIDE DEF f
  <2>4. Held' = Held \cup {c} /\ c \notin Held /\ Closing' = Closing
    BY <1>0, <2>1 DEF Held, Closing
  <2>5. ChainsOK'
    BY <1>0, <2>1, <2>2, <2>3, <2>4, ChainKept
  <2>6. entry'[current'] = f /\ current' # NoEntry
    BY <1>0, <2>1, <2>2, NamesAssumption DEF EntriesOK
  <2>7. Cardinality(Held') = Cardinality(Held) + 1
    BY <2>4, HeldFinite, FS_AddElement
  <2>8. entry[current].refs = Cardinality(Held)
    BY <1>0, <2>1 DEF HoldersAreCounted
  <2>9. entry'[current'].refs = Cardinality(Held') /\ Live'
    BY <2>3, <2>6, <2>7, <2>8 DEF Live
  <2> QED
    BY <2>5, <2>9 DEF HoldersAreCounted, HInv
<1>3. ASSUME NEW c \in Holders, AcquireShared(c) PROVE HInv'
  <2>1. /\ UNCHANGED <<entry, current>> /\ holder[c] = "out"
        /\ holder' = [holder EXCEPT ![c] = "opening"]
    BY <1>3 DEF AcquireShared
  <2>2. Held' = Held /\ Closing' = Closing
    BY <1>0, <2>1 DEF Held, Closing
  <2>3. ChainsOK'
    BY <1>0, <2>1, <2>2, ChainsStay
  <2>4. Live' = Live
    BY <2>1 DEF Live
  <2>5. HoldersAreCounted'
    BY <1>0, <2>1, <2>2, <2>4, CountStays
  <2> QED
    BY <2>3, <2>5 DEF HInv
<1>4. ASSUME NEW c \in Holders, AcquireLoads(c) PROVE HInv'
  <2>1. PICK i \in Incarnations :
          /\ entry[i].phase = "free"
          /\ entry' = [entry EXCEPT ![i].phase = "reading"]
          /\ current' = i
    BY <1>4 DEF AcquireLoads
  <2> DEFINE f == [entry[i] EXCEPT !.phase = "reading"]
  <2>2. entry' = [entry EXCEPT ![i] = f]
    BY <2>1
  <2>3. entry[i] \in Entry
    BY <1>0 DEF EntriesOK
  <2>4. f.chain = entry[i].chain /\ f.phase = "reading"
    BY <2>3 DEF Entry
  <2> HIDE DEF f
  <2>5. current = NoEntry /\ holder[c] = "out"
        /\ holder' = [holder EXCEPT ![c] = "opening"]
    BY <1>4 DEF AcquireLoads
  <2>6. Held' = Held /\ Closing' = Closing
    BY <1>0, <2>5 DEF Held, Closing
  <2>7. Held = {}
    BY <1>0, <2>5 DEF HoldersAreCounted, Live
  <2>8. entry'[current'] = f
    BY <1>0, <2>1, <2>2 DEF EntriesOK
  <2>9. ~Live'
    BY <2>4, <2>8 DEF Live
  <2>10. ChainsOK'
    BY <1>0, <2>2, <2>4, <2>6, ChainKept
  <2> QED
    BY <2>6, <2>7, <2>9, <2>10 DEF HoldersAreCounted, HInv
<1>5. ASSUME NEW i \in Incarnations, LoadReads(i) PROVE HInv'
  <2> DEFINE f == [entry[i] EXCEPT
                     !.phase = "read",
                     !.doc = IF row.yjsState # NoState THEN row.yjsState ELSE row.json,
                     !.dirty = row.yjsState = NoState /\ row.json # {}]
  <2>1. /\ entry' = [entry EXCEPT ![i] = f] /\ UNCHANGED <<current, holder>>
        /\ entry[i].phase = "reading"
    BY <1>5 DEF LoadReads
  <2>2. i = current /\ Held = {} /\ entry[i] \in Entry
    BY <1>1, <2>1
  <2>3. f.chain = entry[i].chain /\ f.phase = "read"
    BY <2>2 DEF Entry
  <2> HIDE DEF f
  <2>4. Held' = Held /\ Closing' = Closing
    BY <2>1 DEF Held, Closing
  <2>5. entry'[current'] = f
    BY <1>0, <2>1, <2>2 DEF EntriesOK
  <2>6. ~Live'
    BY <2>3, <2>5 DEF Live
  <2>7. ChainsOK'
    BY <1>0, <2>1, <2>3, <2>4, ChainKept
  <2> QED
    BY <2>2, <2>4, <2>6, <2>7 DEF HoldersAreCounted, HInv
<1>6. ASSUME NEW i \in Incarnations, LoadAnswered(i) PROVE HInv'
  <2>1. entry[i].phase = "read" /\ UNCHANGED current
    BY <1>6 DEF LoadAnswered
  <2>2. i = current /\ Held = {} /\ entry[i] \in Entry /\ i # NoEntry
    BY <1>1, <2>1
  <2>3. CASE entry[i].dirty
    <3> DEFINE f == [Persist(entry[i]) EXCEPT !.phase = "seeding"]
    <3>1. entry' = [entry EXCEPT ![i] = f] /\ holder' = holder
      BY <1>6, <2>3 DEF LoadAnswered
    <3>2. Persist(entry[i]) \in Entry /\ Persist(entry[i]).chain = entry[i].chain
      BY <2>2, PersistFacts
    <3>3. f.chain = entry[i].chain /\ f.phase = "seeding"
      BY <3>2 DEF Entry
    <3> HIDE DEF f
    <3>4. Held' = Held /\ Closing' = Closing
      BY <3>1 DEF Held, Closing
    <3>5. entry'[current'] = f
      BY <1>0, <2>1, <2>2, <3>1 DEF EntriesOK
    <3>6. ~Live'
      BY <3>3, <3>5 DEF Live
    <3>7. ChainsOK'
      BY <1>0, <3>1, <3>3, <3>4, ChainKept
    <3> QED
      BY <2>2, <3>4, <3>6, <3>7 DEF HoldersAreCounted, HInv
  <2>4. CASE ~entry[i].dirty
    <3> DEFINE f == Opened(entry[i])
    <3>1. entry' = [entry EXCEPT ![i] = f] /\ holder' = OpenHolders
      BY <1>6, <2>4 DEF LoadAnswered
    <3>2. f.chain = entry[i].chain /\ f.phase = "live" /\ f.refs = Cardinality(Opening)
      BY <2>2 DEF Opened, Entry
    <3> HIDE DEF f
    <3>3. Held' = Opening /\ Closing' = Closing
      BY <1>0, <2>2, <3>1 DEF OpenHolders, Opening, Held, Closing
    <3>4. entry'[current'] = f /\ current' # NoEntry
      BY <1>0, <2>1, <2>2, <3>1 DEF EntriesOK
    <3>5. ChainsOK'
      BY <1>0, <3>1, <3>2, <3>3, ChainKept
    <3>6. HoldersAreCounted'
      BY <3>2, <3>3, <3>4 DEF HoldersAreCounted, Live
    <3> QED
      BY <3>5, <3>6 DEF HInv
  <2> QED
    BY <2>3, <2>4
<1>7. ASSUME NEW i \in Incarnations, LoadFails(i) PROVE HInv'
  <2>1. /\ entry[i].phase \in {"reading", "read"} /\ current' = NoEntry
        /\ entry' = [entry EXCEPT ![i] = Blank]
        /\ holder' = [c \in Holders |-> IF c \in Opening THEN "out" ELSE holder[c]]
    BY <1>7 DEF LoadFails
  <2>2. Held = {}
    BY <1>1, <2>1
  <2>3. Blank.chain = entry[i].chain
    BY <1>0, <2>1 DEF Blank, EntriesSound, Sound, PhaseShape
  <2>4. Held' = Held /\ Closing' = Closing
    BY <1>0, <2>1 DEF Held, Closing, Opening
  <2>5. ~Live'
    BY <2>1 DEF Live
  <2>6. ChainsOK'
    BY <1>0, <2>1, <2>3, <2>4, ChainKept
  <2> QED
    BY <2>2, <2>4, <2>5, <2>6 DEF HoldersAreCounted, HInv
<1> QED
  BY <1>2, <1>3, <1>4, <1>5, <1>6, <1>7 DEF Acquire, Load

\* Using the open page: only a release changes the count, and the last one
\* leaves with nobody behind.
LEMMA UseCounts ==
  ASSUME IInv, HInv,
         \/ \E c \in Holders : Edit(c) \/ Release(c)
         \/ TimerFires
  PROVE  HInv'
<1>0. /\ OthersOK /\ EntriesOK /\ EntriesSound /\ ChainsOK /\ HoldersAreCounted
      /\ holder \in [Holders -> {"out", "opening", "in", "closing"}]
  BY DEF IInv, HInv, OthersOK
<1> DEFINE old == entry[current]
<1>1. Live => /\ current \in Incarnations /\ current # NoEntry
              /\ old \in Entry /\ old.phase = "live"
              /\ old.refs = Cardinality(Held)
  BY <1>0, LiveEntry, NamesAssumption DEF HoldersAreCounted
<1>2. ASSUME NEW c \in Holders, Edit(c) PROVE HInv'
  <2>1. PICK x \in Edits :
          entry' = [entry EXCEPT ![current].doc = @ \cup {x},
                                 ![current].dirty = TRUE,
                                 ![current].byUser = TRUE,
                                 ![current].timer = TRUE]
    BY <1>2 DEF Edit
  <2> DEFINE f == [old EXCEPT !.doc = @ \cup {x}, !.dirty = TRUE, !.byUser = TRUE,
                              !.timer = TRUE]
  <2>2. Live /\ UNCHANGED <<current, holder>>
    BY <1>2 DEF Edit
  <2>3. entry' = [entry EXCEPT ![current] = f]
    BY <1>0, <1>1, <2>1, <2>2 DEF EntriesOK
  <2>4. f.chain = old.chain /\ f.phase = "live" /\ f.refs = old.refs
    BY <1>1, <2>2 DEF Entry
  <2> HIDE DEF f
  <2>5. Held' = Held /\ Closing' = Closing
    BY <2>2 DEF Held, Closing
  <2>6. entry'[current'] = f
    BY <1>0, <1>1, <2>2, <2>3 DEF EntriesOK
  <2>7. ChainsOK'
    BY <1>0, <1>1, <2>2, <2>3, <2>4, <2>5, ChainKept
  <2>8. HoldersAreCounted'
    BY <1>1, <2>2, <2>4, <2>5, <2>6 DEF HoldersAreCounted, Live
  <2> QED
    BY <2>7, <2>8 DEF HInv
<1>3. ASSUME NEW c \in Holders, ReleaseKeeps(c) PROVE HInv'
  <2>1. /\ holder[c] = "in" /\ UNCHANGED current
        /\ holder' = [holder EXCEPT ![c] = "out"]
    BY <1>3 DEF ReleaseKeeps
  <2>2. Live
    <3>1. c \in Held
      BY <2>1 DEF Held
    <3> QED
      BY <1>0, <3>1 DEF HoldersAreCounted
  <2> DEFINE f == [old EXCEPT !.refs = @ - 1]
  <2>3. entry' = [entry EXCEPT ![current] = f]
    BY <1>3, <2>2 DEF ReleaseKeeps
  <2>4. f.chain = old.chain /\ f.phase = "live" /\ f.refs = old.refs - 1
    BY <1>1, <2>2 DEF Entry
  <2> HIDE DEF f
  <2>5. Held' = Held \ {c} /\ c \in Held /\ Closing' = Closing
    BY <1>0, <2>1 DEF Held, Closing
  <2>6. Cardinality(Held') = Cardinality(Held) - 1
    BY <2>5, HeldFinite, FS_RemoveElement
  <2>7. entry'[current'] = f
    BY <1>0, <1>1, <2>1, <2>2, <2>3 DEF EntriesOK
  <2>8. ChainsOK'
    BY <1>0, <1>1, <2>2, <2>3, <2>4, <2>5, ChainKept
  <2>9. entry'[current'].refs = Cardinality(Held')
    BY <1>1, <2>2, <2>4, <2>6, <2>7
  <2>10. Live'
    BY <1>1, <2>1, <2>2, <2>4, <2>7 DEF Live
  <2> QED
    BY <2>8, <2>9, <2>10 DEF HoldersAreCounted, HInv
<1>4. ASSUME NEW c \in Holders, ReleaseLast(c) PROVE HInv'
  <2> DEFINE f == [old EXCEPT !.refs = 0]
             done == AtOnce(f, c)
  <2>1. /\ Live /\ old.refs <= 1 /\ holder[c] = "in"
        /\ Settle(current, Flush(f, c), done)
        /\ holder' = [holder EXCEPT ![c] = IF done = {} THEN "closing" ELSE "out"]
    BY <1>4 DEF ReleaseLast
  <2>2. f \in Entry /\ f.phase = "live" /\ f.chain = old.chain /\ f.refs = 0
    BY <1>1, <2>1 DEF Entry
  <2>3. FlushReturns(f) <=> done # {}
    BY DEF AtOnce
  <2>4. c \in Held /\ Held' = Held \ {c} /\ Closing \subseteq Closing'
        /\ (done = {} => c \in Closing')
    BY <1>0, <2>1 DEF Held, Closing
  <2> HIDE DEF f
  <2>5. \A i \in Incarnations : c \notin Waits(entry[i].chain)
    BY <1>0, <2>1 DEF ChainsOK, Closing
  <2>6. ChainsOK'
    BY <1>0, <2>1, <2>2, <2>3, <2>4, <2>5, FlushChains DEF Waiters
  <2>7. Cardinality(Held') = 0
    <3>1. Cardinality(Held') = Cardinality(Held) - 1
      BY <2>4, HeldFinite, FS_RemoveElement
    <3>2. Cardinality(Held) <= 1 /\ Cardinality(Held) \in Nat /\ Cardinality(Held') \in Nat
      BY <1>1, <2>1, HeldFinite
    <3> QED
      BY <3>1, <3>2
  <2>8. Flush(f, c) \in Entry /\ Flush(f, c).phase = "live" /\ Flush(f, c).refs = 0
    BY <2>2, FlushFacts DEF Waiters
  <2>9. HoldersAreCounted'
    BY <1>0, <1>1, <2>1, <2>7, <2>8, CountSettles
  <2> QED
    BY <2>6, <2>9 DEF HInv
<1>5. ASSUME TimerFires PROVE HInv'
  <2> DEFINE f == [old EXCEPT !.timer = FALSE]
  <2>1. Live /\ Settle(current, Flush(f, "timer"), AtOnce(f, "timer"))
        /\ UNCHANGED holder
    BY <1>5 DEF TimerFires
  <2>2. f \in Entry /\ f.phase = "live" /\ f.chain = old.chain /\ f.refs = old.refs
    BY <1>1, <2>1 DEF Entry
  <2>3. Held' = Held /\ Closing' = Closing
    BY <2>1 DEF Held, Closing
  <2>4. "timer" \in Waiters /\ "timer" \notin Holders
    BY NamesAssumption DEF Waiters, Tails
  <2> HIDE DEF f
  <2>5. \A i \in Incarnations : "timer" \notin Waits(entry[i].chain)
    BY <2>4 DEF Waits
  <2>6. ChainsOK'
    BY <1>0, <2>1, <2>2, <2>3, <2>4, <2>5, FlushChains
  <2>7. Flush(f, "timer") \in Entry /\ Flush(f, "timer").phase = "live"
        /\ Flush(f, "timer").refs = old.refs
    BY <2>2, <2>4, FlushFacts
  <2>8. HoldersAreCounted'
    BY <1>0, <1>1, <2>1, <2>3, <2>7, CountSettles
  <2> QED
    BY <2>6, <2>8 DEF HInv
<1> QED
  BY <1>2, <1>3, <1>4, <1>5 DEF Release

\* A save: its end lets go only holders who are leaving.
LEMMA SaveCounts ==
  ASSUME IInv, HInv, NEW i \in Incarnations, SaveStep(i)
  PROVE  HInv'
<1>0. /\ OthersOK /\ EntriesOK /\ EntriesSound /\ ChainsOK /\ HoldersAreCounted
  BY DEF IInv, HInv
<1>1. entry[i] \in Entry /\ PhaseShape(entry[i])
  BY <1>0 DEF EntriesSound, Sound
<1>2. entry[i].save.stage # "none" => entry[i].phase \in {"seeding", "live", "gone"}
  BY <1>1 DEF PhaseShape, Entry, Phases
<1>3. ASSUME NEW stage, UNCHANGED <<current, holder>>,
             entry' = [entry EXCEPT ![i].save.stage = stage]
      PROVE  HInv'
  <2> DEFINE f == [entry[i] EXCEPT !.save.stage = stage]
  <2>1. entry' = [entry EXCEPT ![i] = f]
    BY <1>3
  <2>2. f.chain = entry[i].chain /\ f.phase = entry[i].phase /\ f.refs = entry[i].refs
    BY <1>1 DEF Entry
  <2> HIDE DEF f
  <2>3. Held' = Held /\ Closing' = Closing
    BY <1>3 DEF Held, Closing
  <2>4. ChainsOK'
    BY <1>0, <2>1, <2>2, <2>3, ChainKept
  <2>5. current # NoEntry => /\ entry'[current].phase = entry[current].phase
                             /\ entry'[current].refs = entry[current].refs
    BY <1>0, <2>1, <2>2 DEF EntriesOK
  <2>6. HoldersAreCounted'
    BY <1>0, <1>3, <2>3, <2>5 DEF HoldersAreCounted, Live
  <2> QED
    BY <2>4, <2>6 DEF HInv
<1>4. CASE SaveCommits(i)
  BY <1>3, <1>4 DEF SaveCommits
<1>5. CASE SaveAnswered(i)
  <2>1. entry[i].save.stage = "stored"
    BY <1>5 DEF SaveAnswered
  <2>2. CASE entry[i].save.byUser
    BY <1>3, <1>5, <2>2 DEF SaveAnswered
  <2>3. CASE ~entry[i].save.byUser
    <3>1. HeadEnds(i, entry[i])
      BY <1>5, <2>3 DEF SaveAnswered
    <3> QED
      BY <1>0, <1>1, <1>2, <2>1, <3>1, HeadEndsKeepsCount
  <2> QED
    BY <2>2, <2>3
<1>6. CASE SnapshotQueued(i)
  <2>1. HeadEnds(i, entry[i]) /\ entry[i].save.stage = "queueing"
    BY <1>6 DEF SnapshotQueued
  <2> QED
    BY <1>0, <1>1, <1>2, <2>1, HeadEndsKeepsCount
<1>7. CASE SaveFails(i)
  <2> DEFINE f == [entry[i] EXCEPT !.dirty = TRUE]
  <2>1. HeadEnds(i, f) /\ entry[i].save.stage \in {"sent", "stored"}
    BY <1>7 DEF SaveFails
  <2>2. /\ f \in Entry /\ f.phase = entry[i].phase /\ f.chain = entry[i].chain
        /\ f.refs = entry[i].refs
    BY <1>1 DEF Entry
  <2> HIDE DEF f
  <2> QED
    BY <1>0, <1>2, <2>1, <2>2, HeadEndsKeepsCount
<1> QED
  BY <1>4, <1>5, <1>6, <1>7 DEF SaveStep

\* The other writers hold nothing, and a crash forgets everybody.
LEMMA OthersCount ==
  ASSUME IInv, HInv, RestStep \/ RestoreStep \/ Crash
  PROVE  HInv'
<1>0. /\ OthersOK /\ EntriesOK /\ EntriesSound /\ ChainsOK /\ HoldersAreCounted
  BY DEF IInv, HInv
<1>1. ASSUME UNCHANGED <<entry, current, holder>> PROVE HInv'
  <2>1. Held' = Held /\ Closing' = Closing /\ Live' = Live
    BY <1>1 DEF Held, Closing, Live
  <2>2. ChainsOK'
    BY <1>0, <1>1, <2>1, ChainsStay
  <2>3. HoldersAreCounted'
    BY <1>0, <1>1, <2>1, CountStays
  <2> QED
    BY <2>2, <2>3 DEF HInv
<1>2. ASSUME NEW e \in Entry, NEW w \in {"restore", "replace"}, Live, UNCHANGED holder,
             e.phase = "live", e.chain = entry[current].chain,
             e.refs = entry[current].refs,
             Settle(current, Flush(e, w), AtOnce(e, w))
      PROVE  HInv'
  <2>1. w \in Waiters /\ w \notin Holders /\ current \in Incarnations
    BY <1>0, <1>2, LiveEntry, NamesAssumption DEF Waiters, Tails
  <2>2. Held' = Held /\ Closing' = Closing
    BY <1>2 DEF Held, Closing
  <2>3. \A i \in Incarnations : w \notin Waits(entry[i].chain)
    BY <2>1 DEF Waits
  <2>4. ChainsOK'
    BY <1>0, <1>2, <2>1, <2>2, <2>3, FlushChains
  <2>5. Flush(e, w) \in Entry /\ Flush(e, w).phase = "live"
        /\ Flush(e, w).refs = entry[current].refs
    BY <1>2, <2>1, FlushFacts
  <2>6. entry[current].refs = Cardinality(Held)
    BY <1>0, <1>2 DEF HoldersAreCounted
  <2>7. HoldersAreCounted'
    BY <1>0, <1>2, <2>1, <2>2, <2>5, <2>6, CountSettles
  <2> QED
    BY <2>4, <2>7 DEF HInv
<1>3. CASE RestStep
  BY <1>1, <1>3 DEF RestStep, RestSends, RestCommits, RestFails
<1>4. CASE RestoreBegins
  <2>1. CASE ~Live
    BY <1>1, <1>4, <2>1 DEF RestoreBegins
  <2>2. CASE Live
    <3>1. entry[current] \in Entry /\ entry[current].phase = "live"
      BY <1>0, <2>2, LiveEntry
    <3>2. Settle(current, Flush(entry[current], "restore"),
                 AtOnce(entry[current], "restore")) /\ UNCHANGED holder
      BY <1>4, <2>2 DEF RestoreBegins
    <3> QED
      BY <1>2, <2>2, <3>1, <3>2
  <2> QED
    BY <2>1, <2>2
<1>5. CASE RestoreCommits \/ RestoreFails
  BY <1>1, <1>5 DEF RestoreCommits, RestoreFails
<1>6. CASE RestoreReplaces
  <2>1. CASE ~Live
    BY <1>1, <1>6, <2>1 DEF RestoreReplaces
  <2>2. CASE Live
    <3> DEFINE f == [entry[current] EXCEPT !.doc = restore.text, !.dirty = TRUE,
                                           !.byUser = FALSE]
    <3>1. entry[current] \in Entry /\ entry[current].phase = "live"
      BY <1>0, <2>2, LiveEntry
    <3>2. restore.text \in Texts
      BY <1>0 DEF OthersOK
    <3>3. /\ f \in Entry /\ f.phase = "live" /\ f.chain = entry[current].chain
          /\ f.refs = entry[current].refs
      BY <3>1, <3>2 DEF Entry
    <3>4. Settle(current, Flush(f, "replace"), AtOnce(f, "replace")) /\ UNCHANGED holder
      BY <1>6, <2>2 DEF RestoreReplaces
    <3> HIDE DEF f
    <3> QED
      BY <1>2, <2>2, <3>3, <3>4
  <2> QED
    BY <2>1, <2>2
<1>7. CASE Crash
  <2>1. /\ entry' = [i \in Incarnations |-> Blank] /\ current' = NoEntry
        /\ holder' = [c \in Holders |-> "out"]
    BY <1>7 DEF Crash
  <2>2. Distinct(Blank.chain) /\ Waits(Blank.chain) = {}
    BY EmptyChain DEF Blank
  <2>3. ChainsOK'
    BY <2>1, <2>2 DEF ChainsOK
  <2>4. Held' = {} /\ ~Live'
    BY <2>1 DEF Held, Live
  <2> QED
    BY <2>3, <2>4 DEF HoldersAreCounted, HInv
<1> QED
  BY <1>3, <1>4, <1>5, <1>6, <1>7 DEF RestoreStep

-----------------------------------------------------------------------------
(* The theorems                                                             *)

\* The inductive invariant holds in every state the program reaches.
THEOREM HoldersInvariant == Spec => []HInv
<1>1. Init => HInv
  <2> SUFFICES ASSUME Init PROVE HInv
    OBVIOUS
  <2>1. Distinct(Blank.chain) /\ Waits(Blank.chain) = {}
    BY EmptyChain DEF Blank
  <2>2. ChainsOK
    BY <2>1 DEF Init, ChainsOK
  <2>3. Held = {} /\ ~Live
    BY DEF Init, Held, Live
  <2> QED
    BY <2>2, <2>3 DEF HInv, HoldersAreCounted
<1>2. IInv /\ HInv /\ [Next]_vars => HInv'
  <2> SUFFICES ASSUME IInv, HInv, [Next]_vars PROVE HInv'
    OBVIOUS
  <2>1. CASE UNCHANGED vars
    <3>1. Held' = Held /\ Closing' = Closing /\ Live' = Live
      BY <2>1 DEF Held, Closing, Live, vars
    <3>2. ChainsOK'
      BY <2>1, <3>1, ChainsStay DEF HInv, vars
    <3>3. HoldersAreCounted'
      BY <2>1, <3>1, CountStays DEF HInv, vars
    <3> QED
      BY <3>2, <3>3 DEF HInv
  <2>2. CASE Next
    BY <2>2, OpeningCounts, UseCounts, SaveCounts, OthersCount DEF Next
  <2> QED
    BY <2>1, <2>2
<1> QED
  BY <1>1, <1>2, InvariantHolds, PTL DEF Spec

\* In every state the program reaches, with any number of holders, entries,
\* errors and restarts, the reference count of the live document is the number
\* of joins that hold the page, and nobody holds a page that is not in
\* `loaded`: unloadIfIdle never takes the document from under a holder.
THEOREM CountIsHolders == Spec => []HoldersAreCounted
<1>1. HInv => HoldersAreCounted
  BY DEF HInv
<1> QED
  BY <1>1, HoldersInvariant, PTL

-----------------------------------------------------------------------------
(* LiveDoc implements PageLease: each step of acquire, release, a load, a   *)
(* save, a timer, another writer or a crash is a step of the lease or        *)
(* changes nothing its holders see.                                          *)

LEMMA LeaseView ==
  ASSUME IInv, HInv
  PROVE  /\ OthersOK /\ EntriesOK /\ EntriesSound /\ ChainsOK
         /\ holder \in [Holders -> {"out", "opening", "in", "closing"}]
         /\ Lease!Lessees("in") = Held
         /\ Lease!Lessees("opening") = Opening
         /\ Lease!Lessees("closing") = Closing
         /\ ~Live => Held = {}
         /\ Live \in BOOLEAN
BY DEF IInv, HInv, OthersOK, Lease!Lessees, Held, Opening, Closing,
       HoldersAreCounted, Live

\* Nobody comes or goes, and the page is not loaded anew.
LEMMA QuietStep ==
  ASSUME IInv, HInv, HInv', UNCHANGED holder, Live' => Live
  PROVE  Lease!Settles
<1>1. Lease!Move({}, "out")
  <2>1. holder = [h \in Holders |-> holder[h]]
    BY LeaseView
  <2> QED
    BY <2>1 DEF Lease!Move
<1>2. Lease!MayUnload(Lease!Lessees("in"))
  <2>1. CASE Live' = Live
    BY <2>1 DEF Lease!MayUnload
  <2>2. CASE Live' # Live
    <3>1. ~Live'
      BY <2>2 DEF Live
    <3>2. Held' = {} /\ Held' = Held
      BY <3>1 DEF HInv, HoldersAreCounted, Held
    <3>3. Lease!Lessees("in") = {}
      BY <3>2, LeaseView
    <3>4. Live' = FALSE
      BY <3>1 DEF Live
    <3> QED
      BY <3>3, <3>4 DEF Lease!MayUnload
  <2> QED
    BY <2>1, <2>2
<1> QED
  BY <1>1, <1>2 DEF Lease!Settles

\* A holder leaves, at once or after a save.
LEMMA ReleaseStep ==
  ASSUME IInv, HInv, HInv', NEW c \in Holders, NEW state \in {"out", "closing"},
         holder[c] = "in", holder' = [holder EXCEPT ![c] = state]
  PROVE  Lease!Releases(c)
<1>1. holder \in [Holders -> {"out", "opening", "in", "closing"}]
  BY LeaseView
<1>2. Lease!Move({c}, state)
  BY <1>1 DEF Lease!Move
<1>3. Held' = Held \ {c} /\ c \in Held
  BY <1>1 DEF Held
<1>4. Live
  BY <1>3, LeaseView
<1>5. Lease!MayUnload(Lease!Lessees("in") \ {c})
  <2>1. CASE Live'
    <3>1. Live' = Live
      BY <1>4, <2>1 DEF Live
    <3> QED
      BY <3>1 DEF Lease!MayUnload
  <2>2. CASE ~Live'
    <3>1. Held' = {}
      BY <2>2 DEF HInv, HoldersAreCounted
    <3>2. Lease!Lessees("in") \ {c} = {}
      BY <1>3, <3>1, LeaseView
    <3>3. Live' = FALSE
      BY <2>2 DEF Live
    <3> QED
      BY <3>2, <3>3 DEF Lease!MayUnload
  <2> QED
    BY <2>1, <2>2
<1> QED
  BY <1>2, <1>5 DEF Lease!Releases

\* The joins that waited for a load come in.
LEMMA OpeningStep ==
  ASSUME IInv, HInv, ~Live, Live', holder' = OpenHolders
  PROVE  Lease!Opens
<1>1. Lease!Lessees("in") = {} /\ Lease!Lessees("opening") = Opening
  BY LeaseView
<1>2. Lease!Move(Lease!Lessees("opening"), "in")
  BY <1>1 DEF Lease!Move, OpenHolders
<1>3. Live' = TRUE
  BY DEF Live
<1> QED
  BY <1>1, <1>2, <1>3 DEF Lease!Opens

\* A settled entry is not loaded anew.
LEMMA SettleLoadsNothing ==
  ASSUME EntriesOK, NEW i \in Incarnations, NEW e, NEW done, Settle(i, e, done),
         current = i => Live
  PROVE  Live' => Live
<1> SUFFICES ASSUME Live' PROVE Live
  OBVIOUS
<1>1. current' = current
  BY DEF Settle, Live
<1>2. CASE current = i
  BY <1>2
<1>3. CASE current # i
  <2>1. current \in Incarnations
    BY <1>1 DEF Live, EntriesOK
  <2>2. entry'[current] = entry[current]
    BY <1>3, <2>1 DEF Settle, EntriesOK
  <2> QED
    BY <1>1, <2>2 DEF Live
<1> QED
  BY <1>2, <1>3

\* The head of a chain ends: the page opens, or those who were leaving go.
LEMMA HeadEndsLease ==
  ASSUME IInv, HInv, HInv', NEW i \in Incarnations, NEW e \in Entry, HeadEnds(i, e),
         e.phase = entry[i].phase, e.phase \in {"seeding", "live", "gone"},
         e.chain = entry[i].chain
  PROVE  Lease!Opens \/ Lease!Settles
<1>0. EntriesOK /\ ChainsOK
      /\ holder \in [Holders -> {"out", "opening", "in", "closing"}]
  BY LeaseView
<1>1. CASE e.phase = "seeding"
  <2> DEFINE f == Opened([e EXCEPT !.save = NoSave])
  <2>1. entry' = [entry EXCEPT ![i] = f] /\ holder' = OpenHolders /\ current' = current
    BY <1>1 DEF HeadEnds
  <2>2. f.phase = "live"
    BY DEF Opened, Entry
  <2> HIDE DEF f
  <2>3. i = current /\ ~Live /\ i # NoEntry
    BY <1>0, <1>1, NamesAssumption DEF EntriesOK, InMemory, Live
  <2>4. Live'
    BY <1>0, <2>1, <2>2, <2>3 DEF EntriesOK, Live
  <2> QED
    BY <2>1, <2>3, <2>4, OpeningStep
<1>2. CASE e.phase \in {"live", "gone"}
  <2> DEFINE done == Returned(e)
  <2>1. Settle(i, Advance(e), done) /\ holder' = HoldersAfter(done)
    BY <1>2 DEF HeadEnds
  <2>2. done \cap Holders \subseteq Waits(e.chain)
    <3>1. e.chain \in Seq(Waiters)
      BY DEF Entry
    <3>2. StartsNext(e) => 1 \in DOMAIN e.chain
      BY <3>1, LenProperties DEF StartsNext
    <3> QED
      BY <3>2 DEF Returned, Waits
  <2> HIDE DEF done
  <2>3. done \cap Holders \subseteq Closing
    BY <1>0, <2>2 DEF ChainsOK
  <2>4. current = i => Live
    BY <1>0, <1>2, NamesAssumption DEF EntriesOK, InMemory, Live
  <2>5. Live' => Live
    BY <1>0, <2>1, <2>4, SettleLoadsNothing
  <2>6. Lease!Move(done \cap Holders, "out")
    BY <2>1 DEF Lease!Move, HoldersAfter
  <2>7. Held' = Held
    BY <1>0, <2>1, <2>3 DEF HoldersAfter, Held, Closing
  <2>8. Lease!MayUnload(Lease!Lessees("in"))
    <3>1. CASE Live' = Live
      BY <3>1 DEF Lease!MayUnload
    <3>2. CASE Live' # Live
      <4>1. ~Live' /\ Live' = FALSE
        BY <2>5, <3>2 DEF Live
      <4>2. Lease!Lessees("in") = {}
        BY <2>7, <4>1, LeaseView DEF HInv, HoldersAreCounted
      <4> QED
        BY <4>1, <4>2 DEF Lease!MayUnload
    <3> QED
      BY <3>1, <3>2
  <2>9. done \cap Holders \in SUBSET Lease!Lessees("closing")
    BY <2>3, LeaseView
  <2> QED
    BY <2>6, <2>8, <2>9 DEF Lease!Settles
<1> QED
  BY <1>1, <1>2

-----------------------------------------------------------------------------
(* Every step is a step of the lease                                        *)

LEMMA OpeningIsLease ==
  ASSUME IInv, HInv, HInv',
         \/ \E c \in Holders : Acquire(c)
         \/ \E i \in Incarnations : Load(i)
  PROVE  Lease!Next
<1>0. /\ EntriesOK
      /\ holder \in [Holders -> {"out", "opening", "in", "closing"}]
  BY LeaseView
<1>1. ASSUME NEW i \in Incarnations, entry[i].phase \in {"reading", "read"}
      PROVE  i = current /\ ~Live /\ entry[i] \in Entry
  BY <1>0, <1>1 DEF EntriesOK, InMemory, Live
<1>2. ASSUME NEW c \in Holders, AcquireLoaded(c) PROVE Lease!Acquires(c)
  <2>1. Live /\ holder[c] = "out" /\ holder' = [holder EXCEPT ![c] = "in"]
    BY <1>2 DEF AcquireLoaded
  <2>2. c \in Held'
    BY <1>0, <2>1 DEF Held
  <2>3. Live'
    BY <2>2 DEF HInv, HoldersAreCounted
  <2>4. UNCHANGED Live
    BY <2>1, <2>3 DEF Live
  <2>5. Lease!Move({c}, "in")
    BY <1>0, <2>1 DEF Lease!Move
  <2> QED
    BY <2>1, <2>4, <2>5 DEF Lease!Acquires
<1>3. ASSUME NEW c \in Holders, AcquireShared(c) \/ AcquireLoads(c)
      PROVE  Lease!Acquires(c)
  <2>1. ~Live /\ holder[c] = "out" /\ holder' = [holder EXCEPT ![c] = "opening"]
    BY <1>3 DEF AcquireShared, AcquireLoads, Live
  <2>2. ~Live'
    <3>1. CASE AcquireShared(c)
      BY <2>1, <3>1 DEF AcquireShared, Live
    <3>2. CASE AcquireLoads(c)
      <4>1. PICK i \in Incarnations :
              /\ entry' = [entry EXCEPT ![i].phase = "reading"]
              /\ current' = i
        BY <3>2 DEF AcquireLoads
      <4>2. entry[i] \in Entry
        BY <1>0 DEF EntriesOK
      <4>3. [entry[i] EXCEPT !.phase = "reading"].phase = "reading"
        BY <4>2 DEF Entry
      <4>4. entry'[i].phase = "reading"
        BY <1>0, <4>1, <4>3 DEF EntriesOK
      <4> QED
        BY <4>1, <4>4 DEF Live
    <3> QED
      BY <1>3, <3>1, <3>2
  <2>3. UNCHANGED Live
    BY <2>1, <2>2 DEF Live
  <2>4. Lease!Move({c}, "opening")
    BY <1>0, <2>1 DEF Lease!Move
  <2> QED
    BY <2>1, <2>3, <2>4 DEF Lease!Acquires
<1>4. ASSUME NEW i \in Incarnations, LoadReads(i) PROVE Lease!Settles
  <2>1. entry[i].phase = "reading" /\ UNCHANGED <<current, holder>>
        /\ entry' = [entry EXCEPT
             ![i].phase = "read",
             ![i].doc = IF row.yjsState # NoState THEN row.yjsState ELSE row.json,
             ![i].dirty = row.yjsState = NoState /\ row.json # {}]
    BY <1>4 DEF LoadReads
  <2>2. i = current /\ entry[i] \in Entry
    BY <1>1, <2>1
  <2>3. entry'[i].phase = "read"
    BY <1>0, <2>1, <2>2 DEF EntriesOK, Entry
  <2>4. ~Live'
    BY <2>1, <2>2, <2>3 DEF Live
  <2> QED
    BY <2>1, <2>4, QuietStep
<1>5. ASSUME NEW i \in Incarnations, LoadAnswered(i)
      PROVE  Lease!Opens \/ Lease!Settles
  <2>1. entry[i].phase = "read" /\ UNCHANGED current
    BY <1>5 DEF LoadAnswered
  <2>2. i = current /\ ~Live /\ entry[i] \in Entry /\ i # NoEntry
    BY <1>1, <2>1, NamesAssumption
  <2>3. CASE entry[i].dirty
    <3> DEFINE f == [Persist(entry[i]) EXCEPT !.phase = "seeding"]
    <3>1. entry' = [entry EXCEPT ![i] = f] /\ UNCHANGED holder
      BY <1>5, <2>3 DEF LoadAnswered
    <3>2. Persist(entry[i]) \in Entry
      BY <2>2, PersistFacts
    <3>3. f.phase = "seeding"
      BY <3>2 DEF Entry
    <3> HIDE DEF f
    <3>4. ~Live'
      BY <1>0, <2>1, <2>2, <3>1, <3>3 DEF EntriesOK, Live
    <3> QED
      BY <3>1, <3>4, QuietStep
  <2>4. CASE ~entry[i].dirty
    <3> DEFINE f == Opened(entry[i])
    <3>1. entry' = [entry EXCEPT ![i] = f] /\ holder' = OpenHolders
      BY <1>5, <2>4 DEF LoadAnswered
    <3>2. f.phase = "live"
      BY <2>2 DEF Opened, Entry
    <3> HIDE DEF f
    <3>3. Live'
      BY <1>0, <2>1, <2>2, <3>1, <3>2 DEF EntriesOK, Live
    <3> QED
      BY <2>2, <3>1, <3>3, OpeningStep
  <2> QED
    BY <2>3, <2>4
<1>6. ASSUME NEW i \in Incarnations, LoadFails(i) PROVE Lease!Refuses
  <2>1. /\ entry[i].phase \in {"reading", "read"} /\ current' = NoEntry
        /\ holder' = [c \in Holders |-> IF c \in Opening THEN "out" ELSE holder[c]]
    BY <1>6 DEF LoadFails
  <2>2. ~Live /\ UNCHANGED Live
    BY <1>1, <2>1 DEF Live
  <2>3. Lease!Move(Lease!Lessees("opening"), "out")
    BY <2>1, LeaseView DEF Lease!Move
  <2> QED
    BY <2>2, <2>3 DEF Lease!Refuses
<1> QED
  BY <1>2, <1>3, <1>4, <1>5, <1>6 DEF Acquire, Load, Lease!Next

LEMMA UseIsLease ==
  ASSUME IInv, HInv, HInv',
         \/ \E c \in Holders : Edit(c) \/ Release(c)
         \/ TimerFires
  PROVE  Lease!Next
<1>1. ASSUME NEW c \in Holders, Edit(c) PROVE Lease!Settles
  <2>1. Live /\ UNCHANGED holder
    BY <1>1 DEF Edit
  <2> QED
    BY <2>1, QuietStep
<1>2. ASSUME NEW c \in Holders, Release(c) PROVE Lease!Releases(c)
  <2>1. holder[c] = "in"
    BY <1>2 DEF Release, ReleaseKeeps, ReleaseLast
  <2>2. PICK state \in {"out", "closing"} : holder' = [holder EXCEPT ![c] = state]
    <3>1. CASE ReleaseKeeps(c)
      BY <3>1 DEF ReleaseKeeps
    <3>2. CASE ReleaseLast(c)
      <4>1. PICK done :
              holder' = [holder EXCEPT ![c] = IF done = {} THEN "closing" ELSE "out"]
        BY <3>2 DEF ReleaseLast
      <4>2. CASE done = {}
        BY <4>1, <4>2
      <4>3. CASE done # {}
        BY <4>1, <4>3
      <4> QED
        BY <4>2, <4>3
    <3> QED
      BY <1>2, <3>1, <3>2 DEF Release
  <2> QED
    BY <2>1, <2>2, ReleaseStep
<1>3. ASSUME TimerFires PROVE Lease!Settles
  <2>1. Live /\ UNCHANGED holder
    BY <1>3 DEF TimerFires
  <2> QED
    BY <2>1, QuietStep
<1> QED
  BY <1>1, <1>2, <1>3 DEF Lease!Next

LEMMA SaveIsLease ==
  ASSUME IInv, HInv, HInv', NEW i \in Incarnations, SaveStep(i)
  PROVE  Lease!Next
<1>0. EntriesOK /\ EntriesSound
  BY LeaseView
<1>1. entry[i] \in Entry /\ PhaseShape(entry[i])
  BY <1>0 DEF EntriesSound, Sound
<1>2. entry[i].save.stage # "none" => entry[i].phase \in {"seeding", "live", "gone"}
  BY <1>1 DEF PhaseShape, Entry, Phases
<1>3. ASSUME NEW stage, UNCHANGED <<current, holder>>,
             entry' = [entry EXCEPT ![i].save.stage = stage]
      PROVE  Lease!Settles
  <2>1. \A j \in Incarnations : entry'[j].phase = entry[j].phase
    BY <1>0, <1>1, <1>3 DEF EntriesOK, Entry
  <2>2. Live' => Live
    BY <1>0, <1>3, <2>1 DEF EntriesOK, Live
  <2> QED
    BY <1>3, <2>2, QuietStep
<1>4. CASE SaveCommits(i)
  BY <1>3, <1>4 DEF SaveCommits, Lease!Next
<1>5. CASE SaveAnswered(i)
  <2>1. CASE entry[i].save.byUser
    BY <1>3, <1>5, <2>1 DEF SaveAnswered, Lease!Next
  <2>2. CASE ~entry[i].save.byUser
    <3>1. HeadEnds(i, entry[i]) /\ entry[i].save.stage = "stored"
      BY <1>5, <2>2 DEF SaveAnswered
    <3> QED
      BY <1>1, <1>2, <3>1, HeadEndsLease DEF Lease!Next
  <2> QED
    BY <2>1, <2>2
<1>6. CASE SnapshotQueued(i)
  <2>1. HeadEnds(i, entry[i]) /\ entry[i].save.stage = "queueing"
    BY <1>6 DEF SnapshotQueued
  <2> QED
    BY <1>1, <1>2, <2>1, HeadEndsLease DEF Lease!Next
<1>7. CASE SaveFails(i)
  <2> DEFINE f == [entry[i] EXCEPT !.dirty = TRUE]
  <2>1. HeadEnds(i, f) /\ entry[i].save.stage \in {"sent", "stored"}
    BY <1>7 DEF SaveFails
  <2>2. f \in Entry /\ f.phase = entry[i].phase /\ f.chain = entry[i].chain
    BY <1>1 DEF Entry
  <2> HIDE DEF f
  <2> QED
    BY <1>2, <2>1, <2>2, HeadEndsLease DEF Lease!Next
<1> QED
  BY <1>4, <1>5, <1>6, <1>7 DEF SaveStep

LEMMA OthersAreLease ==
  ASSUME IInv, HInv, HInv', RestStep \/ RestoreStep \/ Crash
  PROVE  Lease!Next
<1>1. CASE RestStep \/ RestoreCommits \/ RestoreFails
  <2>1. UNCHANGED <<entry, current, holder>>
    BY <1>1 DEF RestStep, RestSends, RestCommits, RestFails, RestoreCommits, RestoreFails
  <2>2. Live' = Live
    BY <2>1 DEF Live
  <2> QED
    BY <2>1, <2>2, QuietStep DEF Lease!Next
<1>2. CASE RestoreBegins \/ RestoreReplaces
  <2>1. UNCHANGED holder
    BY <1>2 DEF RestoreBegins, RestoreReplaces
  <2>2. CASE Live
    BY <2>1, <2>2, QuietStep DEF Lease!Next
  <2>3. CASE ~Live
    <3>1. UNCHANGED <<entry, current>>
      BY <1>2, <2>3 DEF RestoreBegins, RestoreReplaces
    <3>2. Live' = Live
      BY <3>1 DEF Live
    <3> QED
      BY <2>1, <3>2, QuietStep DEF Lease!Next
  <2> QED
    BY <2>2, <2>3
<1>3. CASE Crash
  <2>1. current' = NoEntry /\ holder' = [c \in Holders |-> "out"]
    BY <1>3 DEF Crash
  <2>2. Live' = FALSE
    BY <2>1 DEF Live
  <2>3. Lease!Move(Holders, "out")
    BY <2>1 DEF Lease!Move
  <2> QED
    BY <2>2, <2>3 DEF Lease!Restarts, Lease!Next
<1> QED
  BY <1>1, <1>2, <1>3 DEF RestoreStep

-----------------------------------------------------------------------------
(* The theorem                                                              *)

\* YjsDocService keeps what PageLease promises to the holders of a page, with
\* any number of holders, edits, entries, errors and restarts: a page in use is
\* never dropped, joins that wait for one load come in together, and the end of
\* a save lets only those go who are leaving.
THEOREM ImplementsLease == Spec => HoldsAsLease
<1>1. Init => Lease!Init
  <2> SUFFICES ASSUME Init PROVE Lease!Init
    OBVIOUS
  <2>1. Live = FALSE /\ holder = [c \in Holders |-> "out"]
    BY DEF Init, Live
  <2> QED
    BY <2>1 DEF Lease!Init
<1>2. IInv /\ HInv /\ HInv' /\ [Next]_vars => [Lease!Next]_Lease!leaseVars
  <2> SUFFICES ASSUME IInv, HInv, HInv', [Next]_vars
               PROVE  [Lease!Next]_Lease!leaseVars
    OBVIOUS
  <2>1. CASE UNCHANGED vars
    <3>1. UNCHANGED holder /\ Live' = Live
      BY <2>1 DEF vars, Live
    <3> QED
      BY <3>1, QuietStep DEF Lease!Next
  <2>2. CASE Next
    <3>1. Lease!Next
      BY <2>2, OpeningIsLease, UseIsLease, SaveIsLease, OthersAreLease DEF Next
    <3> QED
      BY <3>1
  <2> QED
    BY <2>1, <2>2
<1> QED
  BY <1>1, <1>2, InvariantHolds, HoldersInvariant, PTL
     DEF Spec, HoldsAsLease, Lease!Spec

-----------------------------------------------------------------------------
(* What an unload leaves behind                                             *)

LEMMA SettleUnloads ==
  ASSUME IInv, Live, current' = NoEntry, NEW i \in Incarnations, NEW e \in Entry, NEW done,
         Settle(i, e, done)
  PROVE  /\ i = current /\ ChecksIdle(done) /\ ~e.dirty
         /\ e.chain # <<>> => /\ entry'[i].phase = "gone" /\ entry'[i].doc = e.doc
                              /\ entry'[i].save = e.save
<1>1. current \in Incarnations /\ entry \in [Incarnations -> Entry]
  BY LiveEntry DEF IInv, EntriesOK
<1>2. Unloads(i, e, done)
  BY <1>1, NamesAssumption DEF Settle
<1>3. e.chain # <<>> => entry' = [entry EXCEPT ![i] = [e EXCEPT !.phase = "gone",
                                                              !.timer = FALSE]]
  BY <1>2 DEF Settle, Settled
<1>4. /\ [e EXCEPT !.phase = "gone", !.timer = FALSE].phase = "gone"
      /\ [e EXCEPT !.phase = "gone", !.timer = FALSE].doc = e.doc
      /\ [e EXCEPT !.phase = "gone", !.timer = FALSE].save = e.save
  BY DEF Entry
<1> QED
  BY <1>1, <1>2, <1>3, <1>4 DEF Unloads

\* A flush unloads in its own turn only an entry with nothing to save.
LEMMA FlushUnloads ==
  ASSUME IInv, Live, current' = NoEntry, NEW f \in Entry, NEW w \in Waiters,
         Settle(current, Flush(f, w), AtOnce(f, w)),
         f.chain = entry[current].chain, f.save = entry[current].save,
         f.dirty \/ f.dirty = entry[current].dirty
  PROVE  rowSeenBy = current => row.json = entry[current].doc
<1>1. /\ current \in Incarnations /\ entry[current] \in Entry
      /\ entry[current].phase = "live" /\ ChainShape(entry[current])
      /\ Saved(entry[current], rowSeenBy = current, row.json)
  BY LiveEntry DEF IInv
<1>2. Flush(f, w) \in Entry
  BY FlushFacts
<1>3. ChecksIdle(AtOnce(f, w))
  BY <1>1, <1>2, SettleUnloads
<1>4. f.chain = <<>> /\ ~f.dirty
  BY <1>3 DEF ChecksIdle, AtOnce, FlushReturns
<1>5. entry[current].save.stage = "none" /\ ~entry[current].dirty
  BY <1>1, <1>4 DEF ChainShape
<1> QED
  BY <1>1, <1>5 DEF Saved

\* The end of a save unloads an entry whose text that save, or an earlier one,
\* has brought to the row, or the next one has just taken with it.
LEMMA HeadUnloads ==
  ASSUME IInv, Live, current' = NoEntry, NEW i \in Incarnations, NEW e \in Entry,
         HeadEnds(i, e), e.doc = entry[i].doc, e.phase = entry[i].phase,
         e.dirty \/ (e.dirty = entry[i].dirty /\ entry[i].save.stage # "sent")
  PROVE  \/ rowSeenBy = current => row.json = entry[current].doc
         \/ /\ entry'[current].phase = "gone" /\ entry'[current].save.stage = "sent"
            /\ entry'[current].save.doc = entry[current].doc
<1>1. /\ current \in Incarnations /\ entry[current] \in Entry
      /\ entry[current].phase = "live"
      /\ Saved(entry[current], rowSeenBy = current, row.json)
  BY LiveEntry DEF IInv
<1>2. current # NoEntry
  BY DEF Live
<1>3. Settle(i, Advance(e), Returned(e))
  BY <1>2 DEF HeadEnds
<1>4. Advance(e) \in Entry
  BY AdvanceFacts
<1>5. /\ i = current /\ ~Advance(e).dirty
      /\ Advance(e).chain # <<>> =>
           /\ entry'[i].phase = "gone" /\ entry'[i].save = Advance(e).save
  BY <1>3, <1>4, SettleUnloads
<1>6. CASE StartsNext(e)
  <2>1. Advance(e).chain # <<>> /\ Advance(e).save.stage = "sent"
        /\ Advance(e).save.doc = e.doc
    BY <1>6, AdvanceFacts
  <2> QED
    BY <1>5, <2>1
<1>7. CASE ~StartsNext(e)
  <2>1. ~e.dirty
    BY <1>5, <1>7, AdvanceFacts
  <2> QED
    BY <1>1, <1>5, <2>1 DEF Saved
<1> QED
  BY <1>6, <1>7

\* Whoever leaves, and whatever saves end or fail on the way: an unload that is no
\* crash leaves the text in the row or in a save on the wire, with any other
\* writers of the row beside it.
THEOREM UnloadsAreSaved == Spec => UnloadIsSavedOrSaving
<1>1. IInv /\ [Next]_vars => [UnloadKeepsText]_vars
  <2> SUFFICES ASSUME IInv, Next, Live, current' = NoEntry, crashes' = crashes
               PROVE  \/ rowSeenBy = current => row.json = entry[current].doc
                      \/ /\ entry'[current].phase = "gone"
                         /\ entry'[current].save.stage = "sent"
                         /\ entry'[current].save.doc = entry[current].doc
    BY DEF UnloadKeepsText
  <2>1. /\ current \in Incarnations /\ entry[current] \in Entry
        /\ entry[current].phase = "live" /\ current # NoEntry
    BY LiveEntry DEF IInv, Live
  <2>2. ASSUME NEW c \in Holders, ReleaseLast(c)
        PROVE  rowSeenBy = current => row.json = entry[current].doc
    <3> DEFINE f == [entry[current] EXCEPT !.refs = 0]
    <3>1. Settle(current, Flush(f, c), AtOnce(f, c))
      BY <2>2 DEF ReleaseLast
    <3>2. /\ f \in Entry /\ f.chain = entry[current].chain /\ f.save = entry[current].save
          /\ f.dirty = entry[current].dirty
      BY <2>1 DEF Entry
    <3> HIDE DEF f
    <3> QED
      BY <3>1, <3>2, FlushUnloads DEF Waiters
  <2>3. ASSUME TimerFires PROVE rowSeenBy = current => row.json = entry[current].doc
    <3> DEFINE f == [entry[current] EXCEPT !.timer = FALSE]
    <3>1. Settle(current, Flush(f, "timer"), AtOnce(f, "timer"))
      BY <2>3 DEF TimerFires
    <3>2. /\ f \in Entry /\ f.chain = entry[current].chain /\ f.save = entry[current].save
          /\ f.dirty = entry[current].dirty
      BY <2>1 DEF Entry
    <3> HIDE DEF f
    <3> QED
      BY <3>1, <3>2, FlushUnloads DEF Waiters, Tails
  <2>4. ASSUME RestoreBegins PROVE rowSeenBy = current => row.json = entry[current].doc
    <3>1. Settle(current, Flush(entry[current], "restore"), AtOnce(entry[current], "restore"))
      BY <2>4 DEF RestoreBegins
    <3> QED
      BY <2>1, <3>1, FlushUnloads DEF Waiters, Tails
  <2>5. ASSUME RestoreReplaces PROVE rowSeenBy = current => row.json = entry[current].doc
    <3> DEFINE f == [entry[current] EXCEPT !.doc = restore.text, !.dirty = TRUE,
                                           !.byUser = FALSE]
    <3>1. Settle(current, Flush(f, "replace"), AtOnce(f, "replace"))
      BY <2>5 DEF RestoreReplaces
    <3>2. restore.text \in Texts
      BY DEF IInv, OthersOK
    <3>3. /\ f \in Entry /\ f.chain = entry[current].chain /\ f.save = entry[current].save
          /\ f.dirty
      BY <2>1, <3>2 DEF Entry
    <3> HIDE DEF f
    <3> QED
      BY <3>1, <3>3, FlushUnloads DEF Waiters, Tails
  <2>6. ASSUME NEW i \in Incarnations, SaveStep(i)
        PROVE  \/ rowSeenBy = current => row.json = entry[current].doc
               \/ /\ entry'[current].phase = "gone"
                  /\ entry'[current].save.stage = "sent"
                  /\ entry'[current].save.doc = entry[current].doc
    <3>1. entry[i] \in Entry
      BY DEF IInv, EntriesOK
    <3>2. CASE SaveFails(i)
      <4> DEFINE f == [entry[i] EXCEPT !.dirty = TRUE]
      <4>1. HeadEnds(i, f)
        BY <3>2 DEF SaveFails
      <4>2. f \in Entry /\ f.dirty /\ f.doc = entry[i].doc /\ f.phase = entry[i].phase
        BY <3>1 DEF Entry
      <4> HIDE DEF f
      <4> QED
        BY <4>1, <4>2, HeadUnloads
    <3>3. CASE SaveCommits(i) \/ (SaveAnswered(i) /\ entry[i].save.byUser)
      BY <2>1, <3>3 DEF SaveCommits, SaveAnswered
    <3>4. CASE SnapshotQueued(i) \/ (SaveAnswered(i) /\ ~entry[i].save.byUser)
      <4>1. HeadEnds(i, entry[i]) /\ entry[i].save.stage # "sent"
        BY <3>4 DEF SnapshotQueued, SaveAnswered
      <4> QED
        BY <3>1, <4>1, HeadUnloads
    <3> QED
      BY <2>6, <3>2, <3>3, <3>4 DEF SaveStep
  <2>7. ~ \E i \in Incarnations : Load(i)
    <3>1. \A i \in Incarnations : i # current => entry[i].phase \notin InMemory
      BY DEF IInv, EntriesOK
    <3> QED
      BY <2>1, <3>1 DEF Load, LoadReads, LoadAnswered, LoadFails, InMemory
  <2>8. ~ \E c \in Holders : Acquire(c) \/ Edit(c) \/ ReleaseKeeps(c)
    BY <2>1, NamesAssumption
       DEF Acquire, AcquireLoaded, AcquireShared, AcquireLoads, Edit, ReleaseKeeps
  <2>9. ~(RestStep \/ RestoreCommits \/ RestoreFails)
    BY <2>1 DEF RestStep, RestSends, RestCommits, RestFails, RestoreCommits, RestoreFails
  <2>10. ~Crash
    <3>1. crashes \in Nat
      BY BoundsAssumption DEF IInv, OthersOK
    <3> QED
      BY <3>1 DEF Crash
  <2> QED
    BY <2>2, <2>3, <2>4, <2>5, <2>6, <2>7, <2>8, <2>9, <2>10
       DEF Next, Release, RestoreStep
<1> QED
  BY <1>1, InvariantHolds, PTL DEF Spec, UnloadIsSavedOrSaving

-----------------------------------------------------------------------------
(* Text only comes to the row of an entry that has seen it                  *)

\* What the row, the save under way and the document of an entry have of each
\* other; `mine` as in Saved.
Grown(e, mine, json) ==
  e.phase \notin {"free", "reading"} =>
    /\ e.save.stage # "none" => e.save.doc \subseteq e.doc
    /\ mine => json \subseteq e.doc
    /\ mine /\ e.save.stage = "sent" => json \subseteq e.save.doc

GInv == \A i \in Incarnations : Grown(entry[i], rowSeenBy = i, row.json)

\* Changes of an entry that keep it so.
LEMMA GrownOn ==
  ASSUME NEW e, NEW f, NEW mine, NEW json, Grown(e, mine, json),
         e.phase \notin {"free", "reading"}, e.doc \subseteq f.doc,
         \/ f.save = e.save
         \/ f.save.stage = "none"
         \/ f.save.doc = f.doc
         \/ f.save.doc = e.save.doc /\ e.save.stage # "none" /\ f.save.stage # "sent"
  PROVE  Grown(f, mine, json)
BY DEF Grown

LEMMA BlankGrown == ASSUME NEW mine, NEW json PROVE Grown(Blank, mine, json)
BY DEF Grown, Blank

\* One entry changes, and not the row.
LEMMA GrowthStep ==
  ASSUME EntriesOK, GInv, UNCHANGED <<row, rowSeenBy>>, NEW i \in Incarnations, NEW f,
         Grown(f, rowSeenBy = i, row.json), entry' = [entry EXCEPT ![i] = f]
  PROVE  GInv'
<1>1. entry'[i] = f /\ \A j \in Incarnations \ {i} : entry'[j] = entry[j]
  BY DEF EntriesOK
<1> SUFFICES ASSUME NEW j \in Incarnations
             PROVE  Grown(entry'[j], rowSeenBy' = j, row'.json)
  BY DEF GInv, Grown
<1>2. CASE j = i
  BY <1>1, <1>2
<1>3. CASE j # i
  BY <1>1, <1>3 DEF GInv
<1> QED
  BY <1>2, <1>3

\* Entry i reads or writes the row: the others have no say in it any more.
LEMMA GrowthOfReader ==
  ASSUME EntriesOK, GInv, NEW i \in Incarnations, NEW f, Grown(f, TRUE, row'.json),
         rowSeenBy' = i, entry' = [entry EXCEPT ![i] = f]
  PROVE  GInv'
<1>1. entry'[i] = f /\ \A j \in Incarnations \ {i} : entry'[j] = entry[j]
  BY DEF EntriesOK
<1> SUFFICES ASSUME NEW j \in Incarnations
             PROVE  Grown(entry'[j], rowSeenBy' = j, row'.json)
  BY DEF GInv, Grown
<1>2. CASE j = i
  BY <1>1, <1>2 DEF Grown
<1>3. CASE j # i
  BY <1>1, <1>3 DEF GInv, Grown
<1> QED
  BY <1>2, <1>3

LEMMA GrowthStays ==
  ASSUME GInv, UNCHANGED entry, rowSeenBy' = NoEntry \/ UNCHANGED <<row, rowSeenBy>>
  PROVE  GInv'
<1> SUFFICES ASSUME NEW j \in Incarnations
             PROVE  Grown(entry'[j], rowSeenBy' = j, row'.json)
  BY DEF GInv, Grown
<1> QED
  BY NamesAssumption DEF GInv, Grown

LEMMA SettledGrown ==
  ASSUME NEW i, NEW e \in Entry, NEW done, NEW mine, NEW json, Grown(e, mine, json),
         e.phase \notin {"free", "reading"}
  PROVE  Grown(Settled(i, e, done), mine, json)
<1> DEFINE s == Settled(i, e, done)
<1>1. \/ s = Blank \/ s = e \/ s = [e EXCEPT !.timer = TRUE]
      \/ s = [e EXCEPT !.phase = "gone", !.timer = FALSE]
  BY DEF Settled
<1>2. s = Blank \/ (s.doc = e.doc /\ s.save = e.save)
  BY <1>1 DEF Entry
<1> HIDE DEF s
<1>3. Grown(s, mine, json)
  BY <1>2, BlankGrown, GrownOn
<1> QED
  BY <1>3 DEF s

LEMMA SettleGrows ==
  ASSUME EntriesOK, GInv, UNCHANGED <<row, rowSeenBy>>, NEW i \in Incarnations,
         NEW e \in Entry, NEW done, Settle(i, e, done), Grown(e, rowSeenBy = i, row.json),
         e.phase \notin {"free", "reading"}
  PROVE  GInv'
<1>1. Grown(Settled(i, e, done), rowSeenBy = i, row.json)
  BY SettledGrown
<1> QED
  BY <1>1, GrowthStep DEF Settle

\* A flush of the live document takes all of it.
LEMMA FlushGrows ==
  ASSUME IInv, GInv, UNCHANGED <<row, rowSeenBy>>, Live, NEW f \in Entry, NEW w \in Waiters,
         NEW done, Settle(current, Flush(f, w), done),
         f.doc = entry[current].doc, f.save = entry[current].save, f.phase = "live"
  PROVE  GInv'
<1>0. EntriesOK /\ EntriesSound
  BY DEF IInv
<1>1. current \in Incarnations /\ entry[current].phase = "live"
  BY <1>0, LiveEntry
<1>2. Grown(entry[current], rowSeenBy = current, row.json)
  BY <1>1 DEF GInv
<1> DEFINE g == Flush(f, w)
<1>3. /\ g \in Entry /\ g.doc = entry[current].doc /\ g.phase = "live"
      /\ g.save = entry[current].save \/ g.save.doc = g.doc
  BY FlushFacts
<1> HIDE DEF g
<1>4. Grown(g, rowSeenBy = current, row.json)
  BY <1>1, <1>2, <1>3, GrownOn
<1> QED
  BY <1>0, <1>1, <1>3, <1>4, SettleGrows DEF g

LEMMA HeadGrows ==
  ASSUME IInv, GInv, UNCHANGED <<row, rowSeenBy>>, NEW i \in Incarnations, NEW e \in Entry,
         HeadEnds(i, e), e.doc = entry[i].doc, e.phase = entry[i].phase,
         e.phase \in {"seeding", "live", "gone"}
  PROVE  GInv'
<1>0. EntriesOK /\ Grown(entry[i], rowSeenBy = i, row.json) /\ NoSave.stage = "none"
  BY DEF IInv, GInv, NoSave
<1>1. CASE e.phase = "seeding"
  <2> DEFINE f == Opened([e EXCEPT !.save = NoSave])
  <2>1. entry' = [entry EXCEPT ![i] = f]
    BY <1>1 DEF HeadEnds
  <2>2. f.doc = e.doc /\ f.save = NoSave
    BY DEF Opened, Entry
  <2> HIDE DEF f
  <2>3. Grown(f, rowSeenBy = i, row.json)
    BY <1>0, <1>1, <2>2, GrownOn
  <2> QED
    BY <1>0, <2>1, <2>3, GrowthStep
<1>2. CASE e.phase \in {"live", "gone"}
  <2> DEFINE f == Advance(e)
  <2>1. Settle(i, f, Returned(e))
    BY <1>2 DEF HeadEnds
  <2>2. /\ f \in Entry /\ f.doc = e.doc /\ f.phase = e.phase
        /\ f.save.stage = "none" \/ f.save.doc = f.doc
    BY <1>0, AdvanceFacts
  <2> HIDE DEF f
  <2>3. Grown(f, rowSeenBy = i, row.json)
    BY <1>0, <1>2, <2>2, GrownOn
  <2> QED
    BY <1>0, <1>2, <2>1, <2>2, <2>3, SettleGrows
<1> QED
  BY <1>1, <1>2

LEMMA OpeningGrows ==
  ASSUME IInv, GInv,
         \/ \E c \in Holders : Acquire(c)
         \/ \E i \in Incarnations : Load(i)
  PROVE  GInv'
<1>0. /\ EntriesOK /\ EntriesSound /\ StateMatchesJson
      /\ \A i \in Incarnations : entry[i] \in Entry /\ PhaseShape(entry[i])
                               /\ Grown(entry[i], rowSeenBy = i, row.json)
  BY DEF IInv, EntriesSound, Sound, GInv
<1>1. ASSUME NEW c \in Holders, AcquireLoaded(c) PROVE GInv'
  <2>1. current \in Incarnations /\ entry[current].phase = "live"
    BY <1>0, <1>1, LiveEntry DEF AcquireLoaded
  <2> DEFINE f == [entry[current] EXCEPT !.refs = @ + 1]
  <2>2. entry' = [entry EXCEPT ![current] = f] /\ UNCHANGED <<row, rowSeenBy>>
    BY <1>1 DEF AcquireLoaded
  <2>3. f.doc = entry[current].doc /\ f.save = entry[current].save
    BY <1>0, <2>1 DEF Entry
  <2> HIDE DEF f
  <2>4. Grown(f, rowSeenBy = current, row.json)
    BY <1>0, <2>1, <2>3, GrownOn
  <2> QED
    BY <1>0, <2>1, <2>2, <2>4, GrowthStep
<1>2. ASSUME NEW c \in Holders, AcquireShared(c) PROVE GInv'
  BY <1>2, GrowthStays DEF AcquireShared
<1>3. ASSUME NEW c \in Holders, AcquireLoads(c) PROVE GInv'
  <2>1. PICK i \in Incarnations : entry' = [entry EXCEPT ![i].phase = "reading"]
    BY <1>3 DEF AcquireLoads
  <2> DEFINE f == [entry[i] EXCEPT !.phase = "reading"]
  <2>2. entry' = [entry EXCEPT ![i] = f] /\ UNCHANGED <<row, rowSeenBy>>
    BY <1>3, <2>1 DEF AcquireLoads
  <2>3. f.phase = "reading"
    BY <1>0 DEF Entry
  <2> HIDE DEF f
  <2>4. Grown(f, rowSeenBy = i, row.json)
    BY <2>3 DEF Grown
  <2> QED
    BY <1>0, <2>2, <2>4, GrowthStep
<1>4. ASSUME NEW i \in Incarnations, LoadReads(i) PROVE GInv'
  <2> DEFINE text == IF row.yjsState # NoState THEN row.yjsState ELSE row.json
             fresh == row.yjsState = NoState /\ row.json # {}
             f == [entry[i] EXCEPT !.phase = "read", !.doc = text, !.dirty = fresh]
  <2>1. entry' = [entry EXCEPT ![i] = f] /\ UNCHANGED row /\ rowSeenBy' = i
    BY <1>4 DEF LoadReads
  <2>2. text = row.json /\ entry[i].save.stage = "none"
    BY <1>0, <1>4 DEF StateMatchesJson, LoadReads, PhaseShape
  <2> HIDE DEF text, fresh
  <2>3. f.doc = row.json /\ f.save = entry[i].save
    BY <1>0, <2>2 DEF Entry
  <2> HIDE DEF f
  <2>4. Grown(f, TRUE, row'.json)
    BY <2>1, <2>2, <2>3 DEF Grown
  <2> QED
    BY <1>0, <2>1, <2>4, GrowthOfReader
<1>5. ASSUME NEW i \in Incarnations, LoadAnswered(i) PROVE GInv'
  <2>1. UNCHANGED <<row, rowSeenBy>> /\ entry[i].phase = "read"
    BY <1>5 DEF LoadAnswered
  <2>2. CASE entry[i].dirty
    <3> DEFINE f == [Persist(entry[i]) EXCEPT !.phase = "seeding"]
    <3>1. entry' = [entry EXCEPT ![i] = f]
      BY <1>5, <2>2 DEF LoadAnswered
    <3>2. Persist(entry[i]) \in Entry /\ Persist(entry[i]).doc = entry[i].doc
          /\ Persist(entry[i]).save.doc = entry[i].doc
      BY <1>0, <2>2, PersistFacts
    <3>3. f.doc = entry[i].doc /\ f.save.doc = f.doc
      BY <3>2 DEF Entry
    <3> HIDE DEF f
    <3>4. Grown(f, rowSeenBy = i, row.json)
      BY <1>0, <2>1, <3>3, GrownOn
    <3> QED
      BY <1>0, <2>1, <3>1, <3>4, GrowthStep
  <2>3. CASE ~entry[i].dirty
    <3> DEFINE f == Opened(entry[i])
    <3>1. entry' = [entry EXCEPT ![i] = f]
      BY <1>5, <2>3 DEF LoadAnswered
    <3>2. f.doc = entry[i].doc /\ f.save = entry[i].save
      BY <1>0 DEF Opened, Entry
    <3> HIDE DEF f
    <3>3. Grown(f, rowSeenBy = i, row.json)
      BY <1>0, <2>1, <3>2, GrownOn
    <3> QED
      BY <1>0, <2>1, <3>1, <3>3, GrowthStep
  <2> QED
    BY <2>2, <2>3
<1>6. ASSUME NEW i \in Incarnations, LoadFails(i) PROVE GInv'
  BY <1>0, <1>6, BlankGrown, GrowthStep DEF LoadFails
<1> QED
  BY <1>1, <1>2, <1>3, <1>4, <1>5, <1>6 DEF Acquire, Load

LEMMA UseGrows ==
  ASSUME IInv, GInv,
         \/ \E c \in Holders : Edit(c) \/ Release(c)
         \/ TimerFires
  PROVE  GInv'
<1> DEFINE old == entry[current]
<1>0. EntriesOK /\ EntriesSound
  BY DEF IInv
<1>1. Live => /\ current \in Incarnations /\ old \in Entry /\ old.phase = "live"
              /\ Grown(old, rowSeenBy = current, row.json)
  BY <1>0, LiveEntry DEF GInv
<1>2. ASSUME NEW f, Live, old.doc \subseteq f.doc, f.save = old.save,
             entry' = [entry EXCEPT ![current] = f], UNCHANGED <<row, rowSeenBy>>
      PROVE  GInv'
  <2>1. Grown(f, rowSeenBy = current, row.json)
    BY <1>1, <1>2, GrownOn
  <2> QED
    BY <1>0, <1>1, <1>2, <2>1, GrowthStep
<1>3. ASSUME NEW c \in Holders, Edit(c) PROVE GInv'
  <2>1. PICK x \in Edits :
          entry' = [entry EXCEPT ![current].doc = @ \cup {x},
                                 ![current].dirty = TRUE,
                                 ![current].byUser = TRUE,
                                 ![current].timer = TRUE]
    BY <1>3 DEF Edit
  <2> DEFINE f == [old EXCEPT !.doc = @ \cup {x}, !.dirty = TRUE, !.byUser = TRUE,
                              !.timer = TRUE]
  <2>2. Live /\ UNCHANGED <<row, rowSeenBy>>
    BY <1>3 DEF Edit
  <2>3. entry' = [entry EXCEPT ![current] = f]
    BY <1>0, <1>1, <2>1, <2>2 DEF EntriesOK
  <2>4. f.doc = old.doc \cup {x} /\ f.save = old.save
    BY <1>1, <2>2 DEF Entry
  <2> HIDE DEF f
  <2> QED
    BY <1>2, <2>2, <2>3, <2>4
<1>4. ASSUME NEW c \in Holders, ReleaseKeeps(c) PROVE GInv'
  <2>1. UNCHANGED <<row, rowSeenBy>>
    BY <1>4 DEF ReleaseKeeps
  <2>2. CASE ~Live
    BY <1>4, <2>1, <2>2, GrowthStays DEF ReleaseKeeps
  <2>3. CASE Live
    <3> DEFINE f == [old EXCEPT !.refs = @ - 1]
    <3>1. entry' = [entry EXCEPT ![current] = f]
      BY <1>4, <2>3 DEF ReleaseKeeps
    <3>2. f.doc = old.doc /\ f.save = old.save
      BY <1>1, <2>3 DEF Entry
    <3> HIDE DEF f
    <3> QED
      BY <1>2, <2>1, <2>3, <3>1, <3>2
  <2> QED
    BY <2>2, <2>3
<1>5. ASSUME NEW c \in Holders, ReleaseLast(c) PROVE GInv'
  <2> DEFINE f == [old EXCEPT !.refs = 0]
             done == AtOnce(f, c)
  <2>1. Live /\ Settle(current, Flush(f, c), done) /\ UNCHANGED <<row, rowSeenBy>>
    BY <1>5 DEF ReleaseLast
  <2>2. f \in Entry /\ f.phase = "live" /\ f.doc = old.doc /\ f.save = old.save
    BY <1>1, <2>1 DEF Entry
  <2> HIDE DEF f, done
  <2> QED
    BY <2>1, <2>2, FlushGrows DEF Waiters
<1>6. ASSUME TimerFires PROVE GInv'
  <2> DEFINE f == [old EXCEPT !.timer = FALSE]
             done == AtOnce(f, "timer")
  <2>1. Live /\ Settle(current, Flush(f, "timer"), done) /\ UNCHANGED <<row, rowSeenBy>>
    BY <1>6 DEF TimerFires
  <2>2. f \in Entry /\ f.phase = "live" /\ f.doc = old.doc /\ f.save = old.save
    BY <1>1, <2>1 DEF Entry
  <2> HIDE DEF f, done
  <2> QED
    BY <2>1, <2>2, FlushGrows DEF Waiters, Tails
<1> QED
  BY <1>3, <1>4, <1>5, <1>6 DEF Release

LEMMA SaveGrows ==
  ASSUME IInv, GInv, NEW i \in Incarnations, SaveStep(i)
  PROVE  GInv'
<1> DEFINE old == entry[i]
<1>0. /\ EntriesOK /\ old \in Entry /\ PhaseShape(old)
      /\ Grown(old, rowSeenBy = i, row.json)
  BY DEF IInv, EntriesSound, Sound, GInv
<1>1. old.save.stage # "none" => old.phase \in {"seeding", "live", "gone"}
  BY <1>0 DEF PhaseShape, Entry, Phases
<1>2. CASE SaveCommits(i)
  <2> DEFINE f == [old EXCEPT !.save.stage = "stored"]
  <2>1. /\ entry' = [entry EXCEPT ![i] = f] /\ old.save.stage = "sent"
        /\ row'.json = old.save.doc /\ rowSeenBy' = i
    BY <1>2 DEF SaveCommits
  <2>2. f.doc = old.doc /\ f.save.doc = old.save.doc /\ f.save.stage = "stored"
        /\ f.phase = old.phase
    BY <1>0 DEF Entry, Save
  <2> HIDE DEF f
  <2>3. Grown(f, TRUE, row'.json)
    BY <1>0, <1>1, <2>1, <2>2 DEF Grown
  <2> QED
    BY <1>0, <2>1, <2>3, GrowthOfReader
<1>3. CASE SaveAnswered(i) /\ old.save.byUser
  <2> DEFINE f == [old EXCEPT !.save.stage = "queueing"]
  <2>1. /\ entry' = [entry EXCEPT ![i] = f] /\ old.save.stage = "stored"
        /\ UNCHANGED <<row, rowSeenBy>>
    BY <1>3 DEF SaveAnswered
  <2>2. f.doc = old.doc /\ f.save.doc = old.save.doc /\ f.save.stage = "queueing"
    BY <1>0 DEF Entry, Save
  <2> HIDE DEF f
  <2>3. Grown(f, rowSeenBy = i, row.json)
    BY <1>0, <1>1, <2>1, <2>2, GrownOn
  <2> QED
    BY <1>0, <2>1, <2>3, GrowthStep
<1>4. CASE SnapshotQueued(i) \/ (SaveAnswered(i) /\ ~old.save.byUser)
  <2>1. HeadEnds(i, old) /\ old.save.stage # "none" /\ UNCHANGED <<row, rowSeenBy>>
    BY <1>4 DEF SnapshotQueued, SaveAnswered
  <2> QED
    BY <1>0, <1>1, <2>1, HeadGrows
<1>5. CASE SaveFails(i)
  <2> DEFINE f == [old EXCEPT !.dirty = TRUE]
  <2>1. HeadEnds(i, f) /\ old.save.stage # "none" /\ UNCHANGED <<row, rowSeenBy>>
    BY <1>5 DEF SaveFails
  <2>2. f \in Entry /\ f.doc = old.doc /\ f.phase = old.phase
    BY <1>0 DEF Entry
  <2> HIDE DEF f
  <2> QED
    BY <1>1, <2>1, <2>2, HeadGrows
<1> QED
  BY <1>2, <1>3, <1>4, <1>5 DEF SaveStep

LEMMA OthersGrow ==
  ASSUME IInv, PInv, GInv, RestStep \/ RestoreStep \/ Crash
  PROVE  GInv'
<1>1. CASE RestStep
  BY <1>1, GrowthStays DEF RestStep, RestSends, RestCommits, RestFails
<1>2. ~RestoreStep
  BY DEF PInv, RestoreStep, RestoreBegins, RestoreCommits, RestoreReplaces, RestoreFails
<1>3. CASE Crash
  <2> SUFFICES ASSUME NEW i \in Incarnations
               PROVE  Grown(entry'[i], rowSeenBy' = i, row'.json)
    BY DEF GInv, Grown
  <2> QED
    BY <1>3, BlankGrown DEF Crash
<1> QED
  BY <1>1, <1>2, <1>3

\* With no version to restore, an entry takes nothing out of a row that it was
\* the last to read or write: no save, first or repeated, of the entry or of one
\* that was seeded, is without what the row had.  Text leaves a row only by a
\* writer that has not seen it.
SaveOnlyAdds ==
  [][ \A i \in Incarnations :
        rowSeenBy = i /\ rowSeenBy' = i => row.json \subseteq row'.json ]_vars

\* No save of an entry, not even a late one after a failure or an unload, takes
\* text out of a row that nobody else has written since the entry last saw it.
THEOREM SavesOnlyAdd == ASSUME VersionBodies = {} PROVE Spec => SaveOnlyAdds
<1>1. Init => GInv
  BY BlankGrown DEF Init, GInv
<1>2. IInv /\ PInv /\ GInv /\ [Next]_vars => GInv'
  <2> SUFFICES ASSUME IInv, PInv, GInv, [Next]_vars PROVE GInv'
    OBVIOUS
  <2>1. CASE UNCHANGED vars
    BY <2>1, GrowthStays DEF vars
  <2>2. CASE Next
    BY <2>2, OpeningGrows, UseGrows, SaveGrows, OthersGrow DEF Next
  <2> QED
    BY <2>1, <2>2
<1>3. IInv /\ GInv /\ [Next]_vars => [\A i \in Incarnations :
        rowSeenBy = i /\ rowSeenBy' = i => row.json \subseteq row'.json]_vars
  <2> SUFFICES ASSUME GInv, IInv, Next, NEW i \in Incarnations, rowSeenBy = i, rowSeenBy' = i
               PROVE  row.json \subseteq row'.json
    OBVIOUS
  <2>1. UNCHANGED row \/ \E j \in Incarnations : SaveCommits(j)
    BY NamesAssumption
       DEF Next, Acquire, AcquireLoaded, AcquireShared, AcquireLoads, Load, LoadReads,
           LoadAnswered, LoadFails, Edit, Release, ReleaseKeeps, ReleaseLast, TimerFires,
           SaveStep, SaveAnswered, SnapshotQueued, SaveFails, RestStep, RestSends,
           RestCommits, RestFails, RestoreStep, RestoreBegins, RestoreCommits,
           RestoreReplaces, RestoreFails, Crash
  <2>2. ASSUME NEW j \in Incarnations, SaveCommits(j) PROVE row.json \subseteq row'.json
    <3>1. j = i /\ entry[i].save.stage = "sent" /\ row'.json = entry[i].save.doc
      BY <2>2 DEF SaveCommits
    <3>2. PhaseShape(entry[i]) /\ Grown(entry[i], TRUE, row.json)
      BY DEF IInv, EntriesSound, Sound, GInv, Grown
    <3>3. entry[i].phase \notin {"free", "reading"}
      BY <3>1, <3>2 DEF PhaseShape
    <3> QED
      BY <3>1, <3>2, <3>3 DEF Grown
  <2> QED
    BY <2>1, <2>2
<1> QED
  BY <1>1, <1>2, <1>3, PlansHold, PTL DEF Spec, SaveOnlyAdds
=============================================================================
