--------------------------- MODULE LedgersProofs ---------------------------
(***************************************************************************)
(* Proofs about Ledgers, for any prices, inputs and number of writes and   *)
(* faults, and that it implements AppendLog.  The argument is about what a *)
(* failed write leaves on disk: nothing, one event that the next start     *)
(* adopts, or something that no later write repairs.                       *)
(***************************************************************************)
EXTENDS Ledgers, SequenceTheorems, FiniteSetTheorems, WellFoundedInduction, TLAPS

-----------------------------------------------------------------------------
(* The inductive invariant.                                                *)

\* The lines d are those of a chain, one event each.
Holds(d, chain) ==
    /\ Len(d) = Len(chain)
    /\ \A i \in 1..Len(d) : d[i].parts = <<chain[i]>>

\* Some line is damaged for good: two writes are on it, or it does not begin
\* with the event that belongs there.
Damaged(d) ==
    \E i \in 1..Len(d) : Len(d[i].parts) > 1 \/ d[i].parts[1].index # i

\* The lines d are those of a chain and of one event after it.
Ahead(d, chain) ==
    /\ Len(d) = Len(chain) + 1
    /\ \A i \in 1..Len(chain) : d[i].parts = <<chain[i]>>
    /\ Len(d[Len(d)].parts) = 1 /\ d[Len(d)].parts[1].index = Len(d)

\* The disk holds the chain that was shown last, at most one event more, or
\* something that no start will accept.
DiskOK ==
    /\ \A i \in 1..Len(disk) : Len(disk[i].parts) > 0
    /\ Damaged(disk) \/ Holds(disk, published) \/ Ahead(disk, published)

\* With SQLite there is no damage, and an event more only after a crash.
SqliteOK ==
    kind = "settlement_sqlite" =>
        /\ \A i \in 1..Len(disk) : disk[i].ended
        /\ \/ Holds(disk, published)
           \/ state = "down" /\ Ahead(disk, published) /\ Verify(chainOf(disk))

\* What is in memory is what was shown.
MemoryOK ==
    /\ Verify(published)
    /\ state = "up" => events = published /\ lastHash = lastHashOf(published)

LedgersInv == TypeOK /\ DiskOK /\ SqliteOK /\ MemoryOK /\ SqliteRestarts

-----------------------------------------------------------------------------
(* Events and lines.                                                       *)

\* The sets of events and lines depend on the kind of ledger only.
LEMMA TypesSame ==
    ASSUME UNCHANGED kind
    PROVE  /\ Bodies' = Bodies /\ Hashes' = Hashes /\ EventRecords' = EventRecords
           /\ Lines' = Lines
<1>1. Bodies' = Bodies
  BY DEF Bodies
<1>2. Hashes' = Hashes
  BY <1>1 DEF Hashes
<1>3. EventRecords' = EventRecords
  BY <1>1, <1>2 DEF EventRecords
<1> QED
  BY <1>1, <1>2, <1>3 DEF Lines

\* A line that was written in part is no event.
LEMMA CutIsNoEvent == Cut.index = 0 /\ Cut \notin EventRecords
<1>1. Cut.index = 0
  BY DEF Cut
<1>2. \A e \in EventRecords : e.index # 0
  BY DEF EventRecords
<1> QED
  BY <1>1, <1>2

\* The event that Record makes next.
LEMMA NextEvent ==
    ASSUME TypeOK, MemoryOK, state = "up", NEW body \in Bodies
    PROVE  /\ nextEvent(body) \in EventRecords
           /\ nextEvent(body).index = Len(published) + 1
           /\ nextEvent(body).body = body
           /\ nextEvent(body).prev = lastHashOf(published)
           /\ nextEvent(body).hash = hashEvent(nextEvent(body))
<1>1. events = published /\ lastHash = lastHashOf(published)
  BY DEF MemoryOK
<1>2. published \in Seq(EventRecords) /\ Len(published) \in Nat
  BY DEF TypeOK
<1>3. lastHashOf(published) \in Hashes
  <2>1. CASE published = <<>>
    BY <2>1 DEF lastHashOf, genesisHash, Hashes
  <2>2. CASE published # <<>>
    <3>1. published[Len(published)] \in EventRecords
      BY <1>2, <2>2
    <3> QED
      BY <2>2, <3>1 DEF lastHashOf, Last, EventRecords
  <2> QED
    BY <2>1, <2>2
<1> DEFINE e == [index |-> Len(published) + 1, body |-> body, prev |-> lastHashOf(published)]
           x == [index |-> e.index, body |-> e.body]
<1>4. hashEvent(e) = Append(lastHashOf(published), x)
  BY DEF hashEvent
<1>5. x \in [index : Nat, body : Bodies]
  BY <1>2
<1>6. hashEvent(e) \in Hashes
  <2>1. \A S, t, y : t \in Seq(S) /\ y \in S => Append(t, y) \in Seq(S)
    OBVIOUS
  <2> HIDE DEF e, x
  <2> QED
    BY <1>3, <1>4, <1>5, <2>1 DEF Hashes
<1>7. nextEvent(body) = [index |-> Len(published) + 1, body |-> body,
                         prev |-> lastHashOf(published), hash |-> hashEvent(e)]
  BY <1>1 DEF nextEvent
<1>8. hashEvent(nextEvent(body)) = hashEvent(e)
  BY <1>7 DEF hashEvent
<1> HIDE DEF e, x
<1>9. Len(published) + 1 \in Nat \ {0}
  BY <1>2
<1> QED
  BY <1>3, <1>6, <1>7, <1>8, <1>9 DEF EventRecords

\* One more event that follows makes a longer valid chain.
LEMMA VerifyAppend ==
    ASSUME NEW chain \in Seq(EventRecords), Verify(chain), NEW e \in EventRecords,
           e.index = Len(chain) + 1, e.prev = lastHashOf(chain), e.hash = hashEvent(e)
    PROVE  Verify(Append(chain, e))
<1> DEFINE c == Append(chain, e)
           n == Len(chain)
<1>1. /\ n \in Nat /\ Len(c) = n + 1 /\ c[n + 1] = e
      /\ \A i \in 1..n : c[i] = chain[i]
  OBVIOUS
<1>2. e.prev = IF n + 1 = 1 THEN genesisHash ELSE chain[n].hash
  BY <1>1 DEF lastHashOf, Last
<1> HIDE DEF c
<1> SUFFICES ASSUME NEW i \in 1..(n + 1)
             PROVE  /\ c[i].index = i
                    /\ c[i].prev = IF i = 1 THEN genesisHash ELSE c[i - 1].hash
                    /\ c[i].hash = hashEvent(c[i])
  BY <1>1 DEF Verify, c
<1>3. CASE i = n + 1
  <2>1. i # 1 => c[i - 1] = chain[n]
    BY <1>1, <1>3
  <2> QED
    BY <1>1, <1>2, <1>3, <2>1
<1>4. CASE i \in 1..n
  <2>1. /\ chain[i].index = i
        /\ chain[i].prev = IF i = 1 THEN genesisHash ELSE chain[i - 1].hash
        /\ chain[i].hash = hashEvent(chain[i])
    BY <1>4 DEF Verify
  <2>2. c[i] = chain[i] /\ (i # 1 => c[i - 1] = chain[i - 1])
    BY <1>1, <1>4
  <2> QED
    BY <2>1, <2>2
<1> QED
  BY <1>1, <1>3, <1>4

\* What file.Write leaves: a new line, or a longer last one.
LEMMA Written ==
    ASSUME disk \in Seq(Lines), NEW part \in EventRecords \cup {Cut}, NEW ended \in BOOLEAN
    PROVE  LET w == written(part, ended)
               n == Len(disk)
           IN  /\ w \in Seq(Lines) /\ n \in Nat
               /\ \/ /\ Len(w) = n + 1
                     /\ \A i \in 1..n : w[i] = disk[i]
                     /\ w[n + 1].parts = <<part>> /\ w[n + 1].ended = ended
                  \/ /\ n > 0 /\ ~disk[n].ended /\ Len(w) = n
                     /\ \A i \in 1..(n - 1) : w[i] = disk[i]
                     /\ w[n].parts = Append(disk[n].parts, part)
<1> DEFINE n == Len(disk)
<1>1. n \in Nat
  OBVIOUS
<1>2. CASE disk # <<>> /\ ~Last(disk).ended
  <2>1. n > 0 /\ disk[n] \in Lines /\ Last(disk) = disk[n]
    BY <1>1, <1>2 DEF Last
  <2> DEFINE l == Line(Append(disk[n].parts, part), ended)
             f == SubSeq(disk, 1, n - 1)
  <2>2. l \in Lines /\ l.parts = Append(disk[n].parts, part)
    BY <2>1 DEF Line, Lines
  <2>3. f \in Seq(Lines) /\ Len(f) = n - 1 /\ \A i \in 1..(n - 1) : f[i] = disk[i]
    <3>1. n - 1 \in Int /\ 1 \in Int /\ \A i \in 1..(n - 1) : disk[i] \in Lines
      BY <1>1, <2>1
    <3> HIDE DEF n
    <3>2. /\ f \in Seq(Lines)
          /\ Len(f) = IF 1 <= n - 1 THEN (n - 1) - 1 + 1 ELSE 0
          /\ \A i \in 1..((n - 1) - 1 + 1) : f[i] = disk[1 + i - 1]
      BY <3>1, SubSeqProperties
    <3> HIDE DEF f
    <3> QED
      BY <1>1, <2>1, <3>2
  <2>4. written(part, ended) = Append(f, l)
    BY <1>2, <2>1 DEF written, Front
  <2> HIDE DEF l, f
  <2>5. /\ Append(f, l) \in Seq(Lines) /\ Len(Append(f, l)) = n
        /\ \A i \in 1..(n - 1) : Append(f, l)[i] = disk[i]
        /\ Append(f, l)[n] = l
    BY <1>1, <2>1, <2>2, <2>3
  <2> QED
    BY <1>1, <1>2, <2>1, <2>2, <2>4, <2>5
<1>3. CASE ~(disk # <<>> /\ ~Last(disk).ended)
  <2> DEFINE l == Line(<<part>>, ended)
  <2>1. l \in Lines /\ l.parts = <<part>> /\ l.ended = ended
    BY DEF Line, Lines
  <2>2. written(part, ended) = Append(disk, l)
    BY <1>3 DEF written
  <2> HIDE DEF l
  <2>3. /\ Append(disk, l) \in Seq(Lines) /\ Len(Append(disk, l)) = n + 1
        /\ \A i \in 1..n : Append(disk, l)[i] = disk[i]
        /\ Append(disk, l)[n + 1] = l
    BY <1>1, <2>1
  <2> QED
    BY <1>1, <2>1, <2>2, <2>3
<1> QED
  BY <1>2, <1>3

\* A write damages the disk for good, unless it puts the next event on a line
\* of its own after the chain that was shown.
LEMMA WriteKeeps ==
    ASSUME TypeOK, DiskOK, NEW part \in EventRecords \cup {Cut}, NEW ended \in BOOLEAN,
           part.index \in {0, Len(published) + 1}
    PROVE  LET w == written(part, ended)
           IN  /\ \A i \in 1..Len(w) : Len(w[i].parts) > 0
               /\ \/ Damaged(w)
                  \/ Ahead(w, published) /\ Holds(w, Append(published, part))
<1> DEFINE w == written(part, ended)
           n == Len(disk)
<1>1. n \in Nat /\ published \in Seq(EventRecords) /\ Len(published) \in Nat
  BY DEF TypeOK
<1>2. ASSUME NEW i \in 1..n
      PROVE  disk[i].parts \in Seq(EventRecords \cup {Cut}) /\ Len(disk[i].parts) \in Nat \ {0}
  <2>1. disk[i] \in Lines
    BY DEF TypeOK
  <2>2. disk[i].parts \in Seq(EventRecords \cup {Cut})
    BY <2>1 DEF Lines
  <2> QED
    BY <2>2 DEF DiskOK
<1>3. \/ /\ Len(w) = n + 1
         /\ \A i \in 1..n : w[i] = disk[i]
         /\ w[n + 1].parts = <<part>>
      \/ /\ n > 0 /\ Len(w) = n
         /\ \A i \in 1..(n - 1) : w[i] = disk[i]
         /\ w[n].parts = Append(disk[n].parts, part)
  BY Written DEF TypeOK
<1> HIDE DEF w
<1>4. CASE /\ Len(w) = n + 1
           /\ \A i \in 1..n : w[i] = disk[i]
           /\ w[n + 1].parts = <<part>>
  <2>1. \A i \in 1..Len(w) : Len(w[i].parts) > 0
    <3> SUFFICES ASSUME NEW i \in 1..(n + 1) PROVE Len(w[i].parts) > 0
      BY <1>4
    <3>1. CASE i = n + 1
      <4>1. Len(<<part>>) = 1 /\ w[i].parts = <<part>>
        BY <1>4, <3>1
      <4> QED
        BY <4>1
    <3>2. CASE i \in 1..n
      BY <1>2, <1>4, <3>2
    <3> QED
      BY <1>1, <3>1, <3>2
  <2>2. n + 1 \in 1..Len(w) /\ w[n + 1].parts[1] = part /\ Len(w[n + 1].parts) = 1
    BY <1>1, <1>4
  <2>3. CASE Damaged(disk)
    BY <1>1, <1>4, <2>1, <2>3 DEF Damaged, w
  <2>4. CASE part.index # n + 1
    BY <2>1, <2>2, <2>4 DEF Damaged, w
  <2>5. CASE Holds(disk, published) /\ part.index = n + 1
    <3>1. n = Len(published) /\ \A i \in 1..n : w[i].parts = <<published[i]>>
      BY <1>4, <2>5 DEF Holds
    <3>2. Ahead(w, published)
      BY <1>1, <1>4, <2>2, <2>5, <3>1 DEF Ahead
    <3> DEFINE c == Append(published, part)
    <3>3. Len(c) = n + 1 /\ c[n + 1] = part /\ \A i \in 1..n : c[i] = published[i]
      BY <1>1, <3>1
    <3> HIDE DEF c
    <3>4. Holds(w, c)
      <4> SUFFICES ASSUME NEW i \in 1..Len(w) PROVE w[i].parts = <<c[i]>>
        BY <1>4, <3>3 DEF Holds
      <4>1. CASE i = n + 1
        BY <1>4, <3>3, <4>1
      <4>2. CASE i \in 1..n
        BY <3>1, <3>3, <4>2
      <4> QED
        BY <1>1, <1>4, <4>1, <4>2
    <3> QED
      BY <2>1, <3>2, <3>4 DEF w, c
  <2>6. CASE Ahead(disk, published) /\ part.index = n + 1
    BY <1>1, <2>6 DEF Ahead
  <2> QED
    BY <2>3, <2>4, <2>5, <2>6 DEF DiskOK
<1>5. CASE /\ n > 0 /\ Len(w) = n
           /\ \A i \in 1..(n - 1) : w[i] = disk[i]
           /\ w[n].parts = Append(disk[n].parts, part)
  <2>1. n \in 1..n /\ n \in 1..Len(w)
    BY <1>1, <1>5
  <2>2. Len(w[n].parts) > 1
    BY <1>2, <1>5, <2>1
  <2>3. \A i \in 1..Len(w) : Len(w[i].parts) > 0
    <3> SUFFICES ASSUME NEW i \in 1..n PROVE Len(w[i].parts) > 0
      BY <1>5
    <3>1. CASE i = n
      BY <1>2, <1>5, <3>1
    <3>2. CASE i # n
      <4>1. w[i] = disk[i]
        BY <1>1, <1>5, <3>2
      <4> QED
        BY <1>2, <4>1
    <3> QED
      BY <3>1, <3>2
  <2>4. Damaged(w)
    BY <2>1, <2>2 DEF Damaged
  <2> QED
    BY <2>3, <2>4 DEF w
<1> QED
  BY <1>3, <1>4, <1>5

\* With every line ended a write starts a new one.
LEMMA WriteOnCleanDisk ==
    ASSUME TypeOK, DiskOK, Verify(published), Holds(disk, published),
           \A i \in 1..Len(disk) : disk[i].ended,
           NEW e \in EventRecords, e.index = Len(published) + 1
    PROVE  /\ \A i \in 1..Len(written(e, TRUE)) : written(e, TRUE)[i].ended
           /\ Ahead(written(e, TRUE), published)
           /\ Holds(written(e, TRUE), Append(published, e))
<1> DEFINE w == written(e, TRUE)
           n == Len(disk)
<1>1. n \in Nat /\ published \in Seq(EventRecords)
  BY DEF TypeOK
<1>2. /\ Len(w) = n + 1
      /\ \A i \in 1..n : w[i] = disk[i]
      /\ w[n + 1].parts = <<e>> /\ w[n + 1].ended = TRUE
  <2>1. ~(n > 0 /\ ~disk[n].ended)
    BY <1>1
  <2> QED
    BY <2>1, Written DEF TypeOK
<1> HIDE DEF w
<1>3. \A i \in 1..Len(w) : w[i].ended
  BY <1>1, <1>2
<1>4. ~Damaged(w)
  <2> SUFFICES ASSUME NEW i \in 1..Len(w), Len(w[i].parts) > 1 \/ w[i].parts[1].index # i
               PROVE  FALSE
    BY DEF Damaged
  <2>1. CASE i = n + 1
    <3>1. Len(<<e>>) = 1 /\ <<e>>[1] = e /\ w[i].parts = <<e>>
      BY <1>2, <2>1
    <3>2. e.index = i
      BY <2>1 DEF Holds
    <3> QED
      BY <3>1, <3>2
  <2>2. CASE i \in 1..n
    <3>1. w[i].parts = <<published[i]>>
      BY <1>2, <2>2 DEF Holds
    <3>2. published[i].index = i
      BY <2>2 DEF Holds, Verify
    <3>3. Len(w[i].parts) = 1 /\ w[i].parts[1] = published[i]
      BY <3>1
    <3> QED
      BY <3>2, <3>3
  <2> QED
    BY <1>1, <1>2, <2>1, <2>2
<1> QED
  BY <1>3, <1>4, WriteKeeps DEF w

\* What New makes of the lines.
LEMMA LoadHeld ==
    ASSUME NEW d \in Seq(Lines), NEW chain \in Seq(EventRecords), Holds(d, chain)
    PROVE  readable(d) /\ chainOf(d) = chain
<1>1. Len(d) \in Nat /\ Len(d) = Len(chain)
  BY DEF Holds
<1>2. \A i \in 1..Len(d) : d[i].parts = <<chain[i]>> /\ chain[i] \in EventRecords
  <2>1. \A i \in 1..Len(chain) : chain[i] \in EventRecords
    OBVIOUS
  <2> QED
    BY <1>1, <2>1 DEF Holds
<1>3. ASSUME NEW i \in 1..Len(d)
      PROVE  Len(d[i].parts) = 1 /\ d[i].parts[1] = chain[i]
  <2>1. d[i].parts = <<chain[i]>>
    BY <1>2
  <2> QED
    BY <2>1
<1>4. readable(d)
  BY <1>2, <1>3, CutIsNoEvent DEF readable
<1>5. chainOf(d) = [i \in 1..Len(d) |-> chain[i]]
  BY <1>3 DEF chainOf
<1>6. chain = [i \in 1..Len(chain) |-> chain[i]]
  OBVIOUS
<1> QED
  BY <1>1, <1>4, <1>5, <1>6

\* A file one event ahead of memory holds the chain with that event.
LEMMA LoadAhead ==
    ASSUME NEW d \in Seq(Lines), NEW chain \in Seq(EventRecords), Ahead(d, chain)
    PROVE  /\ d[Len(d)].parts[1] \in EventRecords
           /\ Holds(d, Append(chain, d[Len(d)].parts[1]))
<1> DEFINE n == Len(chain)
           e == d[Len(d)].parts[1]
           c == Append(chain, e)
<1>1. n \in Nat /\ Len(d) = n + 1 /\ e.index = n + 1 /\ Len(d[n + 1].parts) = 1
  BY DEF Ahead
<1>2. d[n + 1] \in Lines
  BY <1>1
<1>3. d[n + 1].parts \in Seq(EventRecords \cup {Cut})
  BY <1>2 DEF Lines
<1>4. e \in EventRecords \cup {Cut} /\ d[n + 1].parts = <<e>>
  BY <1>1, <1>3
<1>5. e \in EventRecords
  BY <1>1, <1>4, CutIsNoEvent
<1>6. Len(c) = n + 1 /\ c[n + 1] = e /\ \A i \in 1..n : c[i] = chain[i]
  BY <1>1, <1>5
<1> HIDE DEF c, e
<1>7. Holds(d, c)
  <2> SUFFICES ASSUME NEW i \in 1..Len(d) PROVE d[i].parts = <<c[i]>>
    BY <1>1, <1>6 DEF Holds
  <2>1. CASE i = n + 1
    BY <1>4, <1>6, <2>1
  <2>2. CASE i \in 1..n
    BY <1>6, <2>2 DEF Ahead
  <2> QED
    BY <1>1, <2>1, <2>2
<1> QED
  BY <1>5, <1>7 DEF c, e

\* load or Verify refuses a damaged file.
LEMMA LoadDamaged ==
    ASSUME NEW d \in Seq(Lines), Damaged(d)
    PROVE  ~(readable(d) /\ Verify(chainOf(d)))
<1> SUFFICES ASSUME readable(d), Verify(chainOf(d)) PROVE FALSE
  OBVIOUS
<1>1. PICK i \in 1..Len(d) : Len(d[i].parts) > 1 \/ d[i].parts[1].index # i
  BY DEF Damaged
<1>2. Len(d[i].parts) = 1
  BY DEF readable
<1>3. chainOf(d)[i] = d[i].parts[1]
  BY DEF chainOf
<1>4. Len(chainOf(d)) = Len(d)
  BY DEF chainOf
<1> QED
  BY <1>1, <1>2, <1>3, <1>4 DEF Verify

-----------------------------------------------------------------------------
(* The steps.                                                              *)

\* An empty ledger is valid.
LEMMA LedgersInit == Init => LedgersInv
<1> SUFFICES ASSUME Init PROVE LedgersInv
  OBVIOUS
<1>1. TypeOK
  BY LedgersAssumption DEF Init, TypeOK
<1>2. disk = <<>> /\ published = <<>> /\ events = <<>> /\ state = "up"
  BY DEF Init
<1>3. Holds(disk, published)
  BY <1>2 DEF Holds
<1>4. DiskOK /\ SqliteOK /\ SqliteRestarts
  BY <1>2, <1>3 DEF DiskOK, SqliteOK, SqliteRestarts
<1>5. MemoryOK
  BY <1>2 DEF Init, MemoryOK, Verify, lastHashOf
<1> QED
  BY <1>1, <1>4, <1>5 DEF LedgersInv

\* A complete write, whether or not the caller hears of it.
LEMMA CompleteWrite ==
    ASSUME LedgersInv, state = "up", NEW body \in Bodies, NEW ended \in BOOLEAN
    PROVE  LET e == nextEvent(body)
               w == written(e, ended)
           IN  /\ w \in Seq(Lines)
               /\ \A i \in 1..Len(w) : Len(w[i].parts) > 0
               /\ \/ Damaged(w)
                  \/ Ahead(w, published) /\ Holds(w, Append(published, e))
<1> DEFINE e == nextEvent(body)
<1>1. e \in EventRecords /\ e.index = Len(published) + 1
  BY NextEvent DEF LedgersInv
<1> HIDE DEF e
<1>2. written(e, ended) \in Seq(Lines)
  BY <1>1, Written DEF LedgersInv, TypeOK
<1> QED
  BY <1>1, <1>2, WriteKeeps DEF LedgersInv, e

\* The same with SQLite.
LEMMA CompleteInsert ==
    ASSUME LedgersInv, state = "up", kind = "settlement_sqlite", NEW body \in Bodies
    PROVE  LET e == nextEvent(body)
               w == written(e, TRUE)
           IN  /\ \A i \in 1..Len(w) : w[i].ended
               /\ Ahead(w, published) /\ Holds(w, Append(published, e))
<1> DEFINE e == nextEvent(body)
<1>1. e \in EventRecords /\ e.index = Len(published) + 1
  BY NextEvent DEF LedgersInv
<1> HIDE DEF e
<1>2. /\ Verify(published) /\ Holds(disk, published)
      /\ \A i \in 1..Len(disk) : disk[i].ended
  BY DEF LedgersInv, MemoryOK, SqliteOK
<1> QED
  BY <1>1, <1>2, WriteOnCleanDisk DEF LedgersInv, e

\* The chain with the next event is valid, and typed.
LEMMA NextChain ==
    ASSUME LedgersInv, state = "up", NEW body \in Bodies
    PROVE  LET e == nextEvent(body)
               c == Append(published, e)
           IN  /\ e \in EventRecords /\ c \in Seq(EventRecords)
               /\ Verify(c) /\ lastHashOf(c) = e.hash
<1> DEFINE e == nextEvent(body)
           c == Append(published, e)
<1>1. /\ e \in EventRecords /\ e.index = Len(published) + 1
      /\ e.prev = lastHashOf(published) /\ e.hash = hashEvent(e)
  BY NextEvent DEF LedgersInv
<1>2. published \in Seq(EventRecords) /\ Verify(published)
  BY DEF LedgersInv, TypeOK, MemoryOK
<1> HIDE DEF e
<1>3. Verify(c)
  BY <1>1, <1>2, VerifyAppend
<1>4. c \in Seq(EventRecords) /\ c # <<>> /\ c[Len(c)] = e
  BY <1>1, <1>2
<1>5. lastHashOf(c) = e.hash
  BY <1>4 DEF lastHashOf, Last
<1> QED
  BY <1>1, <1>3, <1>4, <1>5 DEF e

\* A write that fails or is cut short leaves what DiskOK allows, and with
\* SQLite nothing or the whole row.
LEMMA FaultyWrite ==
    ASSUME LedgersInv, state = "up", NEW body \in Bodies,
           NEW w \in damaged(nextEvent(body)) \cup {written(nextEvent(body), TRUE)}
    PROVE  /\ w \in Seq(Lines)
           /\ \A i \in 1..Len(w) : Len(w[i].parts) > 0
           /\ Damaged(w) \/ Holds(w, published) \/ Ahead(w, published)
           /\ kind = "settlement_sqlite" =>
                 /\ \A i \in 1..Len(w) : w[i].ended
                 /\ \/ w = disk
                    \/ Ahead(w, published) /\ Verify(chainOf(w))
<1> DEFINE e == nextEvent(body)
<1>1. CASE w = disk
  BY <1>1 DEF LedgersInv, TypeOK, DiskOK, SqliteOK
<1>2. CASE w = written(e, TRUE)
  <2>1. /\ w \in Seq(Lines)
        /\ \A i \in 1..Len(w) : Len(w[i].parts) > 0
        /\ Damaged(w) \/ Ahead(w, published)
    BY <1>2, CompleteWrite
  <2>2. ASSUME kind = "settlement_sqlite"
        PROVE  /\ \A i \in 1..Len(w) : w[i].ended
               /\ Ahead(w, published) /\ Verify(chainOf(w))
    <3>1. /\ \A i \in 1..Len(w) : w[i].ended
          /\ Ahead(w, published) /\ Holds(w, Append(published, e))
      BY <1>2, <2>2, CompleteInsert
    <3>2. Append(published, e) \in Seq(EventRecords) /\ Verify(Append(published, e))
      BY NextChain
    <3> HIDE DEF e
    <3>3. chainOf(w) = Append(published, e)
      BY <2>1, <3>1, <3>2, LoadHeld
    <3> QED
      BY <3>1, <3>2, <3>3
  <2> QED
    BY <2>1, <2>2
<1>3. CASE kind # "settlement_sqlite" /\ w = written(e, FALSE)
  BY <1>3, CompleteWrite
<1>4. CASE kind # "settlement_sqlite" /\ w = written(Cut, FALSE)
  <2>1. Cut \in EventRecords \cup {Cut} /\ Cut.index = 0 /\ FALSE \in BOOLEAN
    BY CutIsNoEvent
  <2>2. w \in Seq(Lines)
    BY <1>4, <2>1, Written DEF LedgersInv, TypeOK
  <2> QED
    BY <1>4, <2>1, <2>2, WriteKeeps DEF LedgersInv
<1> QED
  BY <1>1, <1>2, <1>3, <1>4 DEF damaged

\* Record: the event is stored, chained and published.
LEMMA RecordStep ==
    ASSUME LedgersInv, NEW body \in Bodies, Record(body)
    PROVE  LedgersInv' /\ published' = Append(published, nextEvent(body))
<1> DEFINE e == nextEvent(body)
<1>1. /\ state = "up" /\ writes < MaxWrites /\ disk' = written(e, TRUE)
      /\ events' = Append(events, e) /\ lastHash' = e.hash /\ published' = events'
      /\ writes' = writes + 1 /\ UNCHANGED <<kind, state, faults>>
  BY DEF Record
<1>2. published' = Append(published, e) /\ events' = published'
  BY <1>1 DEF LedgersInv, MemoryOK
<1>3. /\ published' \in Seq(EventRecords) /\ Verify(published')
      /\ lastHashOf(published') = e.hash
  BY <1>1, <1>2, NextChain
<1>4. /\ disk' \in Seq(Lines)
      /\ \A i \in 1..Len(disk') : Len(disk'[i].parts) > 0
      /\ Damaged(disk') \/ Holds(disk', published')
  BY <1>1, <1>2, CompleteWrite
<1>5. ASSUME kind = "settlement_sqlite"
      PROVE  (\A i \in 1..Len(disk') : disk'[i].ended) /\ Holds(disk', published')
  BY <1>1, <1>2, <1>5, CompleteInsert
<1> HIDE DEF e
<1>6. TypeOK'
  <2>1. writes' \in 0..MaxWrites
    BY <1>1, LedgersAssumption DEF LedgersInv, TypeOK
  <2> QED
    BY <1>1, <1>2, <1>3, <1>4, <2>1, TypesSame DEF LedgersInv, TypeOK
<1>7. DiskOK'
  BY <1>4 DEF DiskOK
<1>8. SqliteOK'
  BY <1>1, <1>5 DEF SqliteOK
<1>9. MemoryOK'
  BY <1>1, <1>2, <1>3 DEF MemoryOK, Verify, lastHashOf
<1>10. SqliteRestarts'
  BY <1>1 DEF LedgersInv, SqliteRestarts
<1> QED
  BY <1>2, <1>6, <1>7, <1>8, <1>9, <1>10 DEF LedgersInv, e

\* Faults leave what was shown as it is.
LEMMA FaultSteps ==
    ASSUME LedgersInv,
           \/ \E body \in Bodies : RecordFails(body) \/ CrashInRecord(body)
           \/ Crash
    PROVE  /\ LedgersInv' /\ published' = published
           /\ state = "up" /\ state' \in {"up", "down"}
<1>1. /\ state = "up" /\ UNCHANGED <<kind, published>>
      /\ \/ state' = "up" /\ UNCHANGED <<events, lastHash>>
         \/ state' = "down" /\ events' = <<>>
  BY DEF RecordFails, CrashInRecord, Crash
<1>2. \/ UNCHANGED disk
      \/ \E body \in Bodies :
            /\ disk' \in damaged(nextEvent(body)) \cup {written(nextEvent(body), TRUE)}
            /\ state' = "down" \/ disk' \in damaged(nextEvent(body))
  BY DEF RecordFails, CrashInRecord, Crash
<1>3. writes' \in 0..MaxWrites /\ faults' \in 0..MaxFaults
  <2>1. /\ \/ writes' = writes
           \/ writes' = writes + 1 /\ writes < MaxWrites
        /\ faults' = faults + 1 /\ faults < MaxFaults
    BY DEF RecordFails, CrashInRecord, Crash
  <2>2. writes \in 0..MaxWrites /\ faults \in 0..MaxFaults
    BY DEF LedgersInv, TypeOK
  <2> QED
    BY <2>1, <2>2, LedgersAssumption
<1>4. /\ disk' \in Seq(Lines)
      /\ \A i \in 1..Len(disk') : Len(disk'[i].parts) > 0
      /\ Damaged(disk') \/ Holds(disk', published) \/ Ahead(disk', published)
      /\ kind = "settlement_sqlite" =>
            /\ \A i \in 1..Len(disk') : disk'[i].ended
            /\ \/ disk' = disk
               \/ state' = "down" /\ Ahead(disk', published) /\ Verify(chainOf(disk'))
  <2>1. CASE UNCHANGED disk
    BY <2>1 DEF LedgersInv, TypeOK, DiskOK, SqliteOK
  <2>2. ASSUME NEW body \in Bodies,
               disk' \in damaged(nextEvent(body)) \cup {written(nextEvent(body), TRUE)},
               state' = "down" \/ disk' \in damaged(nextEvent(body))
        PROVE  <1>4!1 /\ <1>4!2 /\ <1>4!3 /\ <1>4!4
    <3>1. kind = "settlement_sqlite" /\ state' # "down" => disk' = disk
      BY <2>2 DEF damaged
    <3> QED
      BY <1>1, <2>2, <3>1, FaultyWrite
  <2> QED
    BY <1>2, <2>1, <2>2
<1>5. TypeOK'
  <2>1. events' \in Seq(EventRecords) /\ (state' # "up" => events' = <<>>)
    <3>1. events \in Seq(EventRecords) /\ <<>> \in Seq(EventRecords)
      BY DEF LedgersInv, TypeOK
    <3> QED
      BY <1>1, <3>1
  <2>2. kind' \in Kinds /\ published' \in Seq(EventRecords)
    BY <1>1 DEF LedgersInv, TypeOK
  <2>3. EventRecords' = EventRecords /\ Lines' = Lines
    BY <1>1, TypesSame
  <2> QED
    BY <1>1, <1>3, <1>4, <2>1, <2>2, <2>3 DEF TypeOK
<1>6. DiskOK'
  BY <1>1, <1>4 DEF DiskOK
<1>7. SqliteOK'
  <2>1. kind = "settlement_sqlite" => Holds(disk, published)
    BY <1>1 DEF LedgersInv, SqliteOK
  <2> QED
    BY <1>1, <1>4, <2>1 DEF SqliteOK, Verify, chainOf
<1>8. MemoryOK'
  BY <1>1 DEF LedgersInv, MemoryOK, Verify, lastHashOf
<1>9. SqliteRestarts'
  BY <1>1 DEF SqliteRestarts
<1> QED
  BY <1>1, <1>5, <1>6, <1>7, <1>8, <1>9 DEF LedgersInv

\* A start shows what was shown before and at most one event more, or nothing.
LEMMA NewStep ==
    ASSUME LedgersInv, New
    PROVE  /\ LedgersInv' /\ state = "down"
           /\ \/ state' = "refused" /\ UNCHANGED published
              \/ /\ state' = "up"
                 /\ \/ UNCHANGED published
                    \/ \E e \in EventRecords : published' = Append(published, e)
<1> DEFINE good == readable(disk) /\ Verify(chainOf(disk))
<1>1. /\ state = "down" /\ UNCHANGED <<kind, disk, writes, faults>>
      /\ good => /\ state' = "up" /\ events' = chainOf(disk)
                 /\ lastHash' = lastHashOf(chainOf(disk)) /\ published' = chainOf(disk)
      /\ ~good => state' = "refused" /\ UNCHANGED <<events, lastHash, published>>
  BY DEF New
<1>2. disk \in Seq(Lines) /\ published \in Seq(EventRecords)
  BY DEF LedgersInv, TypeOK
<1>3. CASE good
  <2>1. PICK chain \in Seq(EventRecords) :
          /\ Holds(disk, chain)
          /\ chain = published \/ \E e \in EventRecords : chain = Append(published, e)
    <3>1. CASE Damaged(disk)
      BY <1>2, <1>3, <3>1, LoadDamaged
    <3>2. CASE Holds(disk, published)
      BY <1>2, <3>2
    <3>3. CASE Ahead(disk, published)
      <4> DEFINE e == disk[Len(disk)].parts[1]
      <4>1. e \in EventRecords /\ Holds(disk, Append(published, e))
        BY <1>2, <3>3, LoadAhead
      <4> HIDE DEF e
      <4>2. Append(published, e) \in Seq(EventRecords)
        BY <1>2, <4>1
      <4> QED
        BY <4>1, <4>2
    <3> QED
      BY <3>1, <3>2, <3>3 DEF LedgersInv, DiskOK
  <2>2. chainOf(disk) = chain
    BY <1>2, <2>1, LoadHeld
  <2>3. /\ state' = "up" /\ events' = chain /\ published' = chain
        /\ lastHash' = lastHashOf(chain) /\ Verify(chain)
    BY <1>1, <1>3, <2>2
  <2>4. TypeOK'
    BY <1>1, <2>1, <2>3, TypesSame DEF LedgersInv, TypeOK
  <2>5. DiskOK'
    BY <1>1, <2>1, <2>3 DEF LedgersInv, DiskOK
  <2>6. SqliteOK' /\ SqliteRestarts'
    BY <1>1, <2>1, <2>3 DEF LedgersInv, SqliteOK, SqliteRestarts
  <2>7. MemoryOK'
    BY <2>3 DEF MemoryOK, Verify, lastHashOf
  <2> QED
    BY <1>1, <2>1, <2>3, <2>4, <2>5, <2>6, <2>7 DEF LedgersInv
<1>4. CASE ~good
  <2>1. kind # "settlement_sqlite"
    <3> SUFFICES ASSUME kind = "settlement_sqlite" PROVE good
      BY <1>4
    <3>1. CASE Holds(disk, published)
      <4>1. readable(disk) /\ chainOf(disk) = published
        BY <1>2, <3>1, LoadHeld
      <4> QED
        BY <4>1 DEF LedgersInv, MemoryOK
    <3>2. CASE Ahead(disk, published) /\ Verify(chainOf(disk))
      <4> DEFINE e == disk[Len(disk)].parts[1]
      <4>1. e \in EventRecords /\ Holds(disk, Append(published, e))
        BY <1>2, <3>2, LoadAhead
      <4> HIDE DEF e
      <4>2. Append(published, e) \in Seq(EventRecords)
        BY <1>2, <4>1
      <4>3. readable(disk)
        BY <1>2, <4>1, <4>2, LoadHeld
      <4> QED
        BY <3>2, <4>3
    <3> QED
      BY <3>1, <3>2 DEF LedgersInv, SqliteOK
  <2>2. state' = "refused" /\ UNCHANGED <<kind, disk, writes, faults, events, lastHash, published>>
    BY <1>1, <1>4
  <2>3. TypeOK' /\ DiskOK' /\ SqliteOK' /\ SqliteRestarts'
    BY <1>1, <2>1, <2>2, TypesSame DEF LedgersInv, TypeOK, DiskOK, SqliteOK, SqliteRestarts
  <2>4. MemoryOK'
    BY <2>2 DEF LedgersInv, MemoryOK, Verify, lastHashOf
  <2> QED
    BY <1>1, <2>2, <2>3, <2>4 DEF LedgersInv
<1> QED
  BY <1>3, <1>4

\* Every step keeps the invariant.
LEMMA LedgersStep ==
    ASSUME LedgersInv, [Next]_vars
    PROVE  LedgersInv'
<1>1. CASE UNCHANGED vars
  <2>1. UNCHANGED <<kind, state, events, lastHash, disk, published, writes, faults>>
    BY <1>1 DEF vars
  <2> QED
    BY <2>1, TypesSame
    DEF LedgersInv, TypeOK, DiskOK, SqliteOK, MemoryOK, SqliteRestarts, Verify, lastHashOf
<1> QED
  BY <1>1, RecordStep, FaultSteps, NewStep DEF Next

\* The inductive invariant of the chain in memory and on disk holds always.
THEOREM LedgersInvariant == Spec => []LedgersInv
<1>1. LedgersInv /\ [Next]_vars => LedgersInv'
  BY LedgersStep
<1> QED
  BY <1>1, LedgersInit, PTL DEF Spec

\* Whatever Record's writes leave on disk, Verify finds the chain in memory
\* valid while the coordinator runs.
THEOREM ChainStaysValid == Spec => []ChainValid
<1>1. LedgersInv => ChainValid
  BY DEF LedgersInv, TypeOK, MemoryOK, ChainValid, Verify
<1> QED
  BY <1>1, LedgersInvariant, PTL

\* A settlement ledger in SQLite never keeps the coordinator from starting.
THEOREM SqliteAlwaysRestarts == Spec => []SqliteRestarts
<1>1. LedgersInv => SqliteRestarts
  BY DEF LedgersInv
<1> QED
  BY <1>1, LedgersInvariant, PTL

-----------------------------------------------------------------------------
(* The ledgers implement a log that only grows.                            *)

\* The abstract log grows with the chain.
LEMMA BodiesAppend ==
    ASSUME NEW chain \in Seq(EventRecords), NEW e
    PROVE  bodiesOf(Append(chain, e)) = Append(bodiesOf(chain), e.body)
<1> DEFINE n == Len(chain)
           c == Append(chain, e)
<1>1. n \in Nat /\ Len(c) = n + 1 /\ c[n + 1] = e /\ \A i \in 1..n : c[i] = chain[i]
  OBVIOUS
<1>2. bodiesOf(c) = [i \in 1..(n + 1) |-> c[i].body]
  BY <1>1 DEF bodiesOf
<1>3. bodiesOf(chain) = [i \in 1..n |-> chain[i].body]
  BY DEF bodiesOf
<1> DEFINE b == [i \in 1..n |-> chain[i].body]
<1>4. Len(b) = n /\ \A i \in 1..n : b[i] = chain[i].body
  BY <1>1
<1> HIDE DEF c
<1>5. Append(b, e.body) = [i \in 1..(n + 1) |-> IF i \in 1..n THEN b[i] ELSE e.body]
  BY <1>1, <1>4
<1>6. \A i \in 1..(n + 1) : c[i].body = IF i \in 1..n THEN b[i] ELSE e.body
  BY <1>1, <1>4
<1> HIDE DEF b
<1>7. bodiesOf(c) = Append(b, e.body)
  BY <1>2, <1>5, <1>6
<1> QED
  BY <1>3, <1>7 DEF b, c

\* What events carry is what the abstract log may hold.
LEMMA BodiesAreEntries ==
    ASSUME NEW e \in EventRecords
    PROVE  e.body \in SettlementBodies \cup ChallengeBodies
  BY DEF EventRecords, Bodies

\* Every step is a step of the abstract log or leaves it alone.
LEMMA LogStep ==
    ASSUME LedgersInv, [Next]_vars
    PROVE  [Log!Next]_Log!vars
<1>1. published \in Seq(EventRecords)
  BY DEF LedgersInv, TypeOK
<1>2. ASSUME UNCHANGED published PROVE bodiesOf(published') = bodiesOf(published)
  BY <1>2
<1>3. ASSUME NEW e \in EventRecords, published' = Append(published, e)
      PROVE  \E x \in SettlementBodies \cup ChallengeBodies :
                bodiesOf(published') = Append(bodiesOf(published), x)
  BY <1>1, <1>3, BodiesAppend, BodiesAreEntries
<1>4. bodiesOf(published)' = bodiesOf(published')
  BY DEF bodiesOf
<1>5. CASE \E body \in Bodies : Record(body)
  <2>1. PICK body \in Bodies : Record(body)
    BY <1>5
  <2>2. state = "up" /\ state' = state
    BY <2>1 DEF Record
  <2>3. published' = Append(published, nextEvent(body)) /\ nextEvent(body) \in EventRecords
    BY <2>1, <2>2, RecordStep, NextChain
  <2> QED
    BY <1>3, <1>4, <2>2, <2>3 DEF Log!Next, Log!Add, Log!vars
<1>6. CASE \/ \E body \in Bodies : RecordFails(body) \/ CrashInRecord(body)
           \/ Crash
  <2>1. UNCHANGED published /\ state = "up" /\ state' \in {"up", "down"}
    BY <1>6, FaultSteps
  <2> QED
    BY <1>2, <1>4, <2>1 DEF Log!Next, Log!Stop, Log!vars
<1>7. CASE New
  <2>1. /\ state = "down"
        /\ \/ state' = "refused" /\ UNCHANGED published
           \/ /\ state' = "up"
              /\ \/ UNCHANGED published
                 \/ \E e \in EventRecords : published' = Append(published, e)
    BY <1>7, NewStep
  <2> QED
    BY <1>2, <1>3, <1>4, <2>1 DEF Log!Next, Log!Start, Log!Refuse, Log!vars
<1>8. CASE UNCHANGED vars
  <2>1. UNCHANGED published /\ UNCHANGED state
    BY <1>8 DEF vars
  <2> QED
    BY <1>2, <1>4, <2>1 DEF Log!vars
<1> QED
  BY <1>5, <1>6, <1>7, <1>8 DEF Next

\* Record and New, with their lines, indices and hashes and whatever faults,
\* implement AppendLog: what a ledger has once shown it shows for ever, and a
\* start brings back at most one event that nobody was shown.
THEOREM LedgersAppendOnly == Spec => ImplementsLog
<1>1. Init => Log!Init
  <2> SUFFICES ASSUME Init PROVE Log!Init
    OBVIOUS
  <2>1. published = <<>> /\ state = "up"
    BY DEF Init
  <2>2. bodiesOf(published) = <<>>
    BY <2>1 DEF bodiesOf
  <2> QED
    BY <2>1, <2>2 DEF Log!Init
<1>2. LedgersInv /\ [Next]_vars => [Log!Next]_Log!vars
  BY LogStep
<1> QED
  BY <1>1, <1>2, LedgersInvariant, PTL DEF Spec, ImplementsLog, Log!Spec

-----------------------------------------------------------------------------
(* Induction over sets of numbers, sets and sequences.                     *)

\* Induction up to n, on membership in a set.
LEMMA UpTo ==
    ASSUME NEW n \in Nat, NEW good, 0 \in good,
           \A k \in 0..(n - 1) : k \in good => k + 1 \in good
    PROVE  n \in good
<1> DEFINE bad == {k \in Nat : k <= n /\ k \notin good}
<1> SUFFICES ASSUME n \notin good PROVE FALSE
  OBVIOUS
<1>1. bad \subseteq Nat /\ bad # {}
  OBVIOUS
<1>2. PICK m \in bad : \A k \in bad : ~(<<k, m>> \in OpToRel(<, Nat))
  BY <1>1, NatLessThanWellFounded, WFMin, Zenon
<1>3. m \in Nat /\ m <= n /\ m # 0 /\ m \notin good
  OBVIOUS
<1>4. m - 1 \in Nat /\ m - 1 < m
  BY <1>3
<1>5. <<m - 1, m>> \in OpToRel(<, Nat)
  BY <1>3, <1>4 DEF OpToRel
<1>6. m - 1 \notin bad
  BY <1>2, <1>5
<1>7. m - 1 \in good /\ m - 1 \in 0..(n - 1)
  BY <1>3, <1>4, <1>6
<1> QED
  BY <1>3, <1>7

\* The same on finite sets, one element at a time.
LEMMA UpToSet ==
    ASSUME NEW S, IsFiniteSet(S), NEW good, {} \in good,
           \A s \in SUBSET S : s # {} /\ (\A x \in s : s \ {x} \in good) => s \in good
    PROVE  \A s \in SUBSET S : s \in good
<1> DEFINE sized == {k \in Nat : \A s \in SUBSET S : Cardinality(s) = k => s \in good}
<1>1. ASSUME NEW s \in SUBSET S
      PROVE  IsFiniteSet(s) /\ Cardinality(s) \in Nat
  BY FS_Subset, FS_CardinalityType
<1>2. 0 \in sized
  BY <1>1, FS_EmptySet
<1>3. ASSUME NEW k \in Nat, k \in sized PROVE k + 1 \in sized
  <2> SUFFICES ASSUME NEW s \in SUBSET S, Cardinality(s) = k + 1 PROVE s \in good
    OBVIOUS
  <2>1. IsFiniteSet(s) /\ s # {}
    BY <1>1, FS_EmptySet
  <2>2. ASSUME NEW x \in s PROVE s \ {x} \in good
    <3>1. s \ {x} \in SUBSET S
      OBVIOUS
    <3>2. Cardinality(s \ {x}) = Cardinality(s) - 1
      BY <2>1, FS_RemoveElement
    <3>3. Cardinality(s \ {x}) = k
      BY <3>2
    <3> QED
      BY <1>3, <3>1, <3>3
  <2> QED
    BY <2>1, <2>2
<1> HIDE DEF sized
<1>4. ASSUME NEW k \in Nat PROVE k \in sized
  BY <1>2, <1>3, UpTo
<1> QED
  BY <1>1, <1>4 DEF sized

\* A sequence that is not empty is a shorter one and its last element.
LEMMA SplitLast ==
    ASSUME NEW B, NEW s \in Seq(B), NEW k \in Nat, k + 1 = Len(s)
    PROVE  /\ SubSeq(s, 1, k) \in Seq(B) /\ Len(SubSeq(s, 1, k)) = k
           /\ s[k + 1] \in B /\ s = Append(SubSeq(s, 1, k), s[k + 1])
<1> DEFINE r == SubSeq(s, 1, k)
<1>1. r \in Seq(B) /\ Len(r) = k /\ \A i \in 1..k : r[i] = s[i]
  OBVIOUS
<1>2. s[k + 1] \in B
  OBVIOUS
<1> HIDE DEF r
<1>3. s = Append(r, s[k + 1])
  BY <1>1
<1> QED
  BY <1>1, <1>2, <1>3 DEF r

\* A prefix and the next element make the next prefix.
LEMMA SubSeqGrows ==
    ASSUME NEW B, NEW s \in Seq(B), NEW i \in 1..Len(s)
    PROVE  /\ SubSeq(s, 1, i - 1) \in Seq(B) /\ s[i] \in B
           /\ SubSeq(s, 1, i) = Append(SubSeq(s, 1, i - 1), s[i])
<1> DEFINE r == SubSeq(s, 1, i - 1)
           t == SubSeq(s, 1, i)
<1>1. r \in Seq(B) /\ Len(r) = i - 1 /\ \A j \in 1..(i - 1) : r[j] = s[j]
  OBVIOUS
<1>2. t \in Seq(B) /\ Len(t) = i /\ \A j \in 1..i : t[j] = s[j]
  OBVIOUS
<1>3. s[i] \in B
  OBVIOUS
<1> HIDE DEF r, t
<1>4. t = Append(r, s[i])
  BY <1>1, <1>2, <1>3
<1> QED
  BY <1>1, <1>3, <1>4 DEF r, t

\* The same on sequences: what holds of no event and of one event more
\* holds of all sequences of events.
LEMMA EventByEvent ==
    ASSUME NEW B, NEW good, <<>> \in good,
           \A s \in good, b \in B : Append(s, b) \in good,
           NEW bodies \in Seq(B)
    PROVE  bodies \in good
<1> DEFINE long == {k \in Nat : \A s \in Seq(B) : Len(s) = k => s \in good}
<1>1. 0 \in long
  <2>1. \A s \in Seq(B) : Len(s) = 0 => s = <<>>
    OBVIOUS
  <2> QED
    BY <2>1
<1>2. ASSUME NEW k \in Nat, k \in long PROVE k + 1 \in long
  <2> SUFFICES ASSUME NEW s \in Seq(B), Len(s) = k + 1 PROVE s \in good
    OBVIOUS
  <2>1. /\ SubSeq(s, 1, k) \in Seq(B) /\ Len(SubSeq(s, 1, k)) = k
        /\ s[k + 1] \in B /\ s = Append(SubSeq(s, 1, k), s[k + 1])
    BY SplitLast
  <2>2. SubSeq(s, 1, k) \in good
    BY <1>2, <2>1
  <2> QED
    BY <2>1, <2>2
<1>3. Len(bodies) \in Nat
  OBVIOUS
<1> HIDE DEF long
<1>4. Len(bodies) \in long
  BY <1>1, <1>2, <1>3, UpTo
<1> QED
  BY <1>4 DEF long

-----------------------------------------------------------------------------
(* Integer division and running means.                                     *)

\* What integer division computes.
LEMMA DivDef ==
    ASSUME NEW a \in Int, NEW n \in Nat, n > 0
    PROVE  a \div n \in Int /\ n * (a \div n) <= a /\ a < n * (a \div n) + n
  OBVIOUS

\* Multiplying by a natural number keeps the order.
LEMMA MulMono ==
    ASSUME NEW a \in Int, NEW b \in Int, NEW n \in Nat, a <= b
    PROVE  a * n <= b * n
  OBVIOUS

\* Dividing by a positive factor keeps the strict order.
LEMMA MulStrict ==
    ASSUME NEW a \in Int, NEW b \in Int, NEW n \in Nat, n > 0, a * n < b * n
    PROVE  a < b
  OBVIOUS

\* The running mean after one value more lies between the mean before it and
\* the value.
LEMMA MeanBetween ==
    ASSUME NEW a \in Int, NEW x \in Int, NEW n \in Nat
    PROVE  LET m == (a * n + x) \div (n + 1)
           IN  /\ m \in Int
               /\ a <= x => a <= m /\ m <= x
               /\ x <= a => x <= m /\ m <= a
               /\ n = 0 => m = x
<1> DEFINE t == a * n + x
           k == n + 1
           m == t \div k
<1>1. t \in Int /\ k \in Nat /\ k > 0
  OBVIOUS
<1>2. m \in Int /\ k * m <= t /\ t < k * m + k
  <2> HIDE DEF t, k
  <2> QED
    BY <1>1, DivDef
<1> HIDE DEF m
<1>3. a <= x => a * k <= t /\ t <= x * k
  <2>1. a <= x => a * n <= x * n
    BY MulMono
  <2> QED
    BY <2>1
<1>4. x <= a => x * k <= t /\ t <= a * k
  <2>1. x <= a => x * n <= a * n
    BY MulMono
  <2> QED
    BY <2>1
<1> HIDE DEF t, k
<1>5. ASSUME NEW lo \in Int, lo * k <= t PROVE lo <= m
  <2>1. lo * k < (m + 1) * k
    BY <1>1, <1>2, <1>5
  <2>2. lo < m + 1
    BY <1>1, <1>2, <2>1, MulStrict
  <2> QED
    BY <1>2, <2>2
<1>6. ASSUME NEW hi \in Int, t <= hi * k PROVE m <= hi
  <2>1. m * k < (hi + 1) * k
    BY <1>1, <1>2, <1>6
  <2>2. m < hi + 1
    BY <1>1, <1>2, <2>1, MulStrict
  <2> QED
    BY <1>2, <2>2
<1>7. (a <= x => a <= m /\ m <= x) /\ (x <= a => x <= m /\ m <= a)
  BY <1>3, <1>4, <1>5, <1>6
<1>8. n = 0 => m = x
  <2> SUFFICES ASSUME n = 0 PROVE m = x
    OBVIOUS
  <2>1. t = x /\ k = 1
    BY DEF t, k
  <2>2. x * k <= t /\ t <= x * k
    BY <2>1
  <2> QED
    BY <1>2, <1>5, <1>6, <2>2
<1> QED
  BY <1>2, <1>7, <1>8 DEF m, t, k

\* The running mean stays within what was seen when a value is added.
LEMMA WithinStep ==
    ASSUME NEW seen \in SUBSET Int, NEW a \in Int, NEW x \in Int, NEW n \in Nat,
           Within(a, seen), seen = {} => n = 0
    PROVE  Within((a * n + x) \div (n + 1), seen \cup {x})
<1>1. PICK m : m = (a * n + x) \div (n + 1)
  OBVIOUS
<1>2. /\ m \in Int
      /\ a <= x => a <= m /\ m <= x
      /\ x <= a => x <= m /\ m <= a
      /\ n = 0 => m = x
  BY <1>1, MeanBetween
<1>3. CASE seen = {}
  <2>1. m = x
    BY <1>2, <1>3
  <2> QED
    BY <1>1, <2>1 DEF Within
<1>4. CASE seen # {}
  <2>1. PICK lo \in seen : lo <= a
    BY <1>4 DEF Within
  <2>2. PICK hi \in seen : a <= hi
    BY <1>4 DEF Within
  <2>3. lo <= m \/ x <= m
    BY <1>2, <2>1
  <2>4. m <= hi \/ m <= x
    BY <1>2, <2>2
  <2>5. \E y \in seen \cup {x} : y <= m
    BY <2>1, <2>3
  <2>6. \E y \in seen \cup {x} : m <= y
    BY <2>2, <2>4
  <2> QED
    BY <1>1, <2>5, <2>6 DEF Within
<1> QED
  BY <1>3, <1>4

\* Dividing by more gives no more.
LEMMA DivByMore ==
    ASSUME NEW a \in Nat, NEW n \in Nat, n > 0
    PROVE  a \div (n + 1) <= a \div n
<1>1. PICK q : q = a \div n
  OBVIOUS
<1>2. PICK r : r = a \div (n + 1)
  OBVIOUS
<1>3. n + 1 \in Nat /\ n + 1 > 0 /\ a \in Int
  OBVIOUS
<1>4. q \in Int /\ n * q <= a /\ a < n * q + n
  BY <1>1, <1>3, DivDef
<1>5. r \in Int /\ (n + 1) * r <= a /\ a < (n + 1) * r + (n + 1)
  BY <1>2, <1>3, DivDef
<1>6. 0 < r + 1
  <2>1. 0 * (n + 1) < (r + 1) * (n + 1)
    BY <1>5
  <2> QED
    BY <1>3, <1>5, <2>1, MulStrict
<1>7. r < q + 1
  <2>1. (n + 1) * r = r * n + r /\ n * q + n = (q + 1) * n
    BY <1>4, <1>5
  <2>2. r * n \in Int /\ (q + 1) * n \in Int
    BY <1>4, <1>5
  <2>3. r * n < (q + 1) * n
    BY <1>4, <1>5, <1>6, <2>1, <2>2
  <2> QED
    BY <1>4, <1>5, <2>3, MulStrict
<1> QED
  BY <1>1, <1>2, <1>4, <1>5, <1>7

-----------------------------------------------------------------------------
(* FoldLeft, unfolded one element at a time.                               *)

\* A set of positions that is not empty has a largest one.
LEMMA LargestOf ==
    ASSUME NEW n \in Nat, NEW s \in SUBSET (1..n), s # {}
    PROVE  Max(s) \in s /\ \A y \in s : y <= Max(s)
<1> SUFFICES \E x \in s : \A y \in s : x >= y
  <2>1. Max(s) \in s /\ \A y \in s : Max(s) >= y
    BY Zenon DEF Max
  <2> QED
    BY <2>1
<1> SUFFICES ASSUME \A x \in s : \E y \in s : ~(x >= y) PROVE FALSE
  BY Zenon
<1> DEFINE good == {k \in Nat : \E x \in s : x > k}
<1>1. 0 \in good
  <2>1. PICK x : x \in s
    BY Zenon
  <2> QED
    BY <2>1
<1>2. ASSUME NEW k \in 0..(n - 1), k \in good PROVE k + 1 \in good
  <2>1. PICK x \in s : x > k
    BY <1>2
  <2>2. PICK y \in s : ~(x >= y)
    BY Zenon
  <2> QED
    BY <2>1, <2>2
<1> HIDE DEF good
<1>3. n \in good
  BY <1>1, <1>2, UpTo
<1> QED
  BY <1>3 DEF good

\* The largest of the first k + 1 positions.
LEMMA LargestUpTo ==
    ASSUME NEW k \in Nat
    PROVE  1..(k + 1) # {} /\ Max(1..(k + 1)) = k + 1 /\ (1..(k + 1)) \ {k + 1} = 1..k
<1> DEFINE m == Max(1..(k + 1))
<1>1. k + 1 \in Nat /\ k + 1 \in 1..(k + 1)
  OBVIOUS
<1>2. 1..(k + 1) \in SUBSET (1..(k + 1)) /\ 1..(k + 1) # {}
  BY <1>1
<1>3. m \in 1..(k + 1) /\ \A y \in 1..(k + 1) : y <= m
  BY <1>1, <1>2, LargestOf
<1> HIDE DEF m
<1>4. m = k + 1
  BY <1>1, <1>3
<1>5. (1..(k + 1)) \ {k + 1} = 1..k
  OBVIOUS
<1> QED
  BY <1>2, <1>4, <1>5 DEF m

\* g[s] is what the elements of s make of base, in increasing order, where
\* st[i] is what element i does.
Folds(g, n, V, base, st) ==
    /\ g \in [SUBSET (1..n) -> V]
    /\ \A s \in SUBSET (1..n) :
          g[s] = IF s = {} THEN base ELSE st[Max(s)][g[s \ {Max(s)}]]

\* There is such a function for every step that stays in V.
LEMMA FoldExists ==
    ASSUME NEW n \in Nat, NEW V, NEW base \in V, NEW st \in [1..n -> [V -> V]]
    PROVE  \E g : Folds(g, n, V, base, st)
<1> DEFINE good == {k \in Nat : k <= n => \E g : Folds(g, k, V, base, st)}
<1>1. 0 \in good
  <2> DEFINE g == [s \in SUBSET (1..0) |-> base]
  <2>1. \A s \in SUBSET (1..0) : s = {}
    OBVIOUS
  <2>2. g \in [SUBSET (1..0) -> V]
    OBVIOUS
  <2>3. \A s \in SUBSET (1..0) : g[s] = base
    OBVIOUS
  <2> HIDE DEF g
  <2>4. Folds(g, 0, V, base, st)
    BY <2>1, <2>2, <2>3, Zenon DEF Folds
  <2> QED
    BY <2>4
<1>2. ASSUME NEW k \in 0..(n - 1), k \in good PROVE k + 1 \in good
  <2>1. PICK g : Folds(g, k, V, base, st)
    BY <1>2
  <2> DEFINE h == [s \in SUBSET (1..(k + 1)) |->
                     IF s \in SUBSET (1..k) THEN g[s] ELSE st[k + 1][g[s \ {k + 1}]]]
  <2>2. ASSUME NEW s \in SUBSET (1..(k + 1)), s \notin SUBSET (1..k)
        PROVE  /\ s # {} /\ Max(s) = k + 1 /\ s \ {k + 1} \in SUBSET (1..k)
               /\ s \ {k + 1} \in SUBSET (1..(k + 1))
    <3>1. k + 1 \in s /\ s # {}
      BY <2>2
    <3>2. k + 1 \in Nat
      OBVIOUS
    <3>3. Max(s) \in s /\ \A y \in s : y <= Max(s)
      BY <3>1, <3>2, LargestOf
    <3> DEFINE m == Max(s)
    <3> HIDE DEF m
    <3>4. m \in 1..(k + 1) /\ k + 1 <= m
      BY <3>1, <3>3 DEF m
    <3>5. m = k + 1
      BY <3>4
    <3> QED
      BY <3>1, <3>5 DEF m
  <2>3. ASSUME NEW s \in SUBSET (1..k), s # {}
        PROVE  /\ s \in SUBSET (1..(k + 1)) /\ s \ {Max(s)} \in SUBSET (1..k)
               /\ s \ {Max(s)} \in SUBSET (1..(k + 1))
    <3>1. 1..k \subseteq 1..(k + 1)
      OBVIOUS
    <3>2. s \ {Max(s)} \subseteq s
      BY Zenon
    <3> QED
      BY <3>1, <3>2, Zenon
  <2>4. k + 1 \in 1..n
    OBVIOUS
  <2>5. g \in [SUBSET (1..k) -> V]
    BY <2>1 DEF Folds
  <2>6. ASSUME NEW s \in SUBSET (1..(k + 1)) PROVE h[s] \in V
    <3>1. CASE s \in SUBSET (1..k)
      BY <2>5, <3>1
    <3>2. CASE s \notin SUBSET (1..k)
      <4>1. g[s \ {k + 1}] \in V
        BY <2>2, <2>5, <3>2
      <4>2. st[k + 1] \in [V -> V]
        BY <2>4
      <4> QED
        BY <3>2, <4>1, <4>2
    <3> QED
      BY <3>1, <3>2
  <2>7. h \in [SUBSET (1..(k + 1)) -> V]
    BY <2>6
  <2>8. ASSUME NEW s \in SUBSET (1..(k + 1))
        PROVE  h[s] = IF s = {} THEN base ELSE st[Max(s)][h[s \ {Max(s)}]]
    <3>1. CASE s \in SUBSET (1..k)
      <4>1. h[s] = g[s]
        BY <3>1
      <4>2. g[s] = IF s = {} THEN base ELSE st[Max(s)][g[s \ {Max(s)}]]
        BY <2>1, <3>1 DEF Folds
      <4>3. s # {} => h[s \ {Max(s)}] = g[s \ {Max(s)}]
        BY <2>3, <3>1
      <4> QED
        BY <4>1, <4>2, <4>3
    <3>2. CASE s \notin SUBSET (1..k)
      <4>1. h[s] = st[k + 1][g[s \ {k + 1}]]
        BY <3>2
      <4>2. s # {} /\ Max(s) = k + 1 /\ h[s \ {k + 1}] = g[s \ {k + 1}]
        BY <2>2, <3>2
      <4> QED
        BY <4>1, <4>2
    <3> QED
      BY <3>1, <3>2
  <2> HIDE DEF h
  <2>9. Folds(h, k + 1, V, base, st)
    BY <2>7, <2>8 DEF Folds
  <2> QED
    BY <2>9
<1> HIDE DEF good
<1>3. n \in good
  BY <1>1, <1>2, UpTo
<1> QED
  BY <1>3 DEF good

\* A fold over an interval, one step at a time.
LEMMA FoldUnfold ==
    ASSUME NEW n \in Nat, NEW V, NEW base, NEW st, NEW g, Folds(g, n, V, base, st)
    PROVE  /\ g[1..0] = base
           /\ \A k \in 0..n : g[1..k] \in V
           /\ \A k \in 0..(n - 1) : g[1..(k + 1)] = st[k + 1][g[1..k]]
<1>1. 1..0 = {} /\ {} \in SUBSET (1..n)
  OBVIOUS
<1>2. g[1..0] = base
  BY <1>1 DEF Folds
<1>3. ASSUME NEW k \in 0..n PROVE g[1..k] \in V
  <2>1. 1..k \in SUBSET (1..n)
    OBVIOUS
  <2> QED
    BY <2>1 DEF Folds
<1>4. ASSUME NEW k \in 0..(n - 1) PROVE g[1..(k + 1)] = st[k + 1][g[1..k]]
  <2> DEFINE s == 1..(k + 1)
  <2>1. k \in Nat /\ s \in SUBSET (1..n)
    OBVIOUS
  <2>2. s # {} /\ Max(s) = k + 1 /\ s \ {k + 1} = 1..k
    BY <2>1, LargestUpTo
  <2> HIDE DEF s
  <2>3. g[s] = st[Max(s)][g[s \ {Max(s)}]]
    BY <2>1, <2>2, Zenon DEF Folds
  <2> QED
    BY <2>2, <2>3 DEF s
<1> QED
  BY <1>2, <1>3, <1>4

\* What is computed step by step like a fold is the fold.
LEMMA FoldIs ==
    ASSUME NEW n \in Nat, NEW V, NEW base, NEW st, NEW g, Folds(g, n, V, base, st),
           NEW it, it[1..0] = base,
           \A k \in 0..(n - 1) : it[1..k] \in V => it[1..(k + 1)] = st[k + 1][it[1..k]]
    PROVE  it[1..n] = g[1..n] /\ it[1..n] \in V
<1> DEFINE good == {k \in Nat : k <= n => it[1..k] = g[1..k]}
<1>1. /\ g[1..0] = base
      /\ \A k \in 0..n : g[1..k] \in V
      /\ \A k \in 0..(n - 1) : g[1..(k + 1)] = st[k + 1][g[1..k]]
  BY FoldUnfold
<1>2. 0 \in good
  BY <1>1
<1>3. ASSUME NEW k \in 0..(n - 1), k \in good PROVE k + 1 \in good
  <2>1. it[1..k] = g[1..k] /\ k \in 0..n
    BY <1>3
  <2>2. it[1..(k + 1)] = st[k + 1][it[1..k]]
    BY <1>1, <2>1
  <2>3. it[1..(k + 1)] = g[1..(k + 1)]
    BY <1>1, <2>1, <2>2
  <2> QED
    BY <2>3
<1> HIDE DEF good
<1>4. n \in good
  BY <1>2, <1>3, UpTo
<1> QED
  BY <1>1, <1>4 DEF good

\* A fold over one element more.
LEMMA FoldOneMore ==
    ASSUME NEW n \in Nat, NEW V, NEW base, NEW st, NEW st2, NEW g, NEW h,
           Folds(g, n, V, base, st), Folds(h, n + 1, V, base, st2),
           \A i \in 1..n : st2[i] = st[i]
    PROVE  h[1..(n + 1)] = st2[n + 1][g[1..n]] /\ g[1..n] \in V
<1>1. n + 1 \in Nat /\ n \in 0..((n + 1) - 1) /\ n \in 0..n
  OBVIOUS
<1>2. /\ h[1..0] = base
      /\ \A k \in 0..((n + 1) - 1) : h[1..(k + 1)] = st2[k + 1][h[1..k]]
  BY <1>1, FoldUnfold
<1>3. \A k \in 0..(n - 1) : h[1..(k + 1)] = st[k + 1][h[1..k]]
  <2> SUFFICES ASSUME NEW k \in 0..(n - 1) PROVE h[1..(k + 1)] = st[k + 1][h[1..k]]
    OBVIOUS
  <2>1. k \in 0..((n + 1) - 1) /\ k + 1 \in 1..n
    OBVIOUS
  <2> QED
    BY <1>2, <2>1
<1>4. h[1..n] = g[1..n] /\ h[1..n] \in V
  BY <1>2, <1>3, FoldIs
<1> QED
  BY <1>1, <1>2, <1>4

-----------------------------------------------------------------------------
(* SumFunction over a finite set.                                          *)

\* g[s] is the sum of f over s, whatever the order it is added up in.
Sums(g, f, S) ==
    /\ g \in [SUBSET S -> Int]
    /\ g[{}] = 0
    /\ \A s \in SUBSET S : \A x \in s : g[s] = f[x] + g[s \ {x}]

\* Such sums exist.
LEMMA SumsExist ==
    ASSUME NEW S, IsFiniteSet(S), NEW f \in [S -> Int]
    PROVE  \E g : Sums(g, f, S)
<1> DEFINE good == {t \in SUBSET S : \E g : Sums(g, f, t)}
<1>1. {} \in good
  <2> DEFINE g == [t \in SUBSET {} |-> 0]
  <2>1. Sums(g, f, {})
    BY DEF Sums
  <2> QED
    BY <2>1
<1>2. ASSUME NEW t \in SUBSET S, t # {}, \A x \in t : t \ {x} \in good PROVE t \in good
  <2>1. PICK x \in t : TRUE
    BY <1>2
  <2> DEFINE r == t \ {x}
  <2>2. PICK g : Sums(g, f, r)
    BY <1>2, <2>1
  <2> DEFINE h == [s \in SUBSET t |-> IF x \in s THEN f[x] + g[s \ {x}] ELSE g[s]]
  <2>3. g \in [SUBSET r -> Int] /\ g[{}] = 0 /\ x \in S
    BY <2>1, <2>2 DEF Sums
  <2>4. ASSUME NEW s \in SUBSET r, NEW y \in s PROVE g[s] = f[y] + g[s \ {y}]
    BY <2>2 DEF Sums
  <2>5. ASSUME NEW s \in SUBSET t PROVE s \ {x} \in SUBSET r
    BY DEF r
  <2>6. ASSUME NEW s \in SUBSET t, x \notin s PROVE s \in SUBSET r
    BY <2>6 DEF r
  <2>7. h \in [SUBSET t -> Int]
    <3> SUFFICES ASSUME NEW s \in SUBSET t
                 PROVE  (IF x \in s THEN f[x] + g[s \ {x}] ELSE g[s]) \in Int
      OBVIOUS
    <3>1. f[x] \in Int /\ g[s \ {x}] \in Int
      BY <2>3, <2>5
    <3>2. x \notin s => g[s] \in Int
      BY <2>3, <2>6
    <3> QED
      BY <3>1, <3>2
  <2>8. h[{}] = 0
    BY <2>3
  <2>9. ASSUME NEW s \in SUBSET t, NEW y \in s PROVE h[s] = f[y] + h[s \ {y}]
    <3>1. s \ {y} \in SUBSET t /\ y \in S /\ f[y] \in Int /\ f[x] \in Int
      BY <2>3
    <3>2. CASE x \notin s
      <4>1. h[s] = g[s] /\ h[s \ {y}] = g[s \ {y}]
        BY <3>1, <3>2
      <4> QED
        BY <2>4, <2>6, <3>2, <4>1
    <3>3. CASE x = y
      <4>1. h[s] = f[x] + g[s \ {x}] /\ h[s \ {x}] = g[s \ {x}]
        BY <3>1, <3>3
      <4> QED
        BY <3>3, <4>1
    <3>4. CASE x \in s /\ x # y
      <4>1. h[s] = f[x] + g[s \ {x}] /\ h[s \ {y}] = f[x] + g[(s \ {y}) \ {x}]
        BY <3>1, <3>4
      <4>2. y \in s \ {x} /\ s \ {x} \in SUBSET r /\ (s \ {y}) \ {x} = (s \ {x}) \ {y}
        BY <2>5, <3>4, Zenon
      <4>3. g[s \ {x}] = f[y] + g[(s \ {x}) \ {y}]
        BY <2>4, <4>2
      <4>4. (s \ {x}) \ {y} \in SUBSET r
        BY <4>2, Zenon
      <4>5. g[(s \ {x}) \ {y}] \in Int
        BY <2>3, <4>4
      <4> DEFINE z == g[(s \ {x}) \ {y}]
      <4>6. h[s \ {y}] = f[x] + z
        BY <4>1, <4>2
      <4> HIDE DEF z
      <4> QED
        BY <3>1, <4>1, <4>3, <4>5, <4>6 DEF z
    <3> QED
      BY <3>2, <3>3, <3>4
  <2> HIDE DEF h
  <2>10. Sums(h, f, t)
    BY <2>7, <2>8, <2>9 DEF Sums
  <2> QED
    BY <2>10
<1> HIDE DEF good
<1>3. S \in good
  BY <1>1, <1>2, UpToSet
<1> QED
  BY <1>3 DEF good

\* SumFunction is such a sum.
LEMMA SumIs ==
    ASSUME NEW S, IsFiniteSet(S), NEW f \in [S -> Int], NEW g, Sums(g, f, S)
    PROVE  SumFunction(f) = g[S]
<1> DEFINE F(h) == [s \in SUBSET S |->
                      IF s = {} THEN 0
                      ELSE f[CHOOSE x \in s : TRUE] + h[s \ {CHOOSE x \in s : TRUE}]]
           it == CHOOSE h : h = F(h)
<1>1. DOMAIN f = S
  OBVIOUS
<1>2. SumFunction(f) = it[S]
  BY <1>1, Zenon DEF SumFunction, SumFunctionOnSet, FoldFunctionOnSet, MapThenFoldSet
<1>3. ASSUME NEW s \in SUBSET S, s # {} PROVE (CHOOSE x \in s : TRUE) \in s
  BY <1>3, Zenon
<1>4. g = F(g)
  BY <1>3 DEF Sums
<1>5. it = F(it)
  BY <1>4, Zenon
<1> DEFINE good == {s \in SUBSET S : it[s] = g[s]}
<1> HIDE DEF it
<1>6. {} \in good
  BY <1>5 DEF Sums
<1>7. ASSUME NEW s \in SUBSET S, s # {}, \A x \in s : s \ {x} \in good PROVE s \in good
  <2>1. PICK x \in s : x = CHOOSE y \in s : TRUE
    BY <1>3, <1>7
  <2>2. it[s] = f[x] + it[s \ {x}]
    BY <1>5, <1>7, <2>1
  <2>3. g[s] = f[x] + g[s \ {x}]
    BY DEF Sums
  <2>4. it[s \ {x}] = g[s \ {x}]
    BY <1>7
  <2>5. it[s] = g[s]
    BY <2>2, <2>3, <2>4
  <2> QED
    BY <2>5
<1> HIDE DEF good
<1>8. S \in good
  BY <1>6, <1>7, UpToSet
<1> QED
  BY <1>2, <1>8 DEF good

\* When the value at one point changes, the sum changes by as much.
LEMMA SumChanges ==
    ASSUME NEW S, IsFiniteSet(S), NEW f \in [S -> Int], NEW h \in [S -> Int],
           NEW c \in S, \A x \in S \ {c} : h[x] = f[x]
    PROVE  /\ SumFunction(f) \in Int /\ SumFunction(h) \in Int
           /\ SumFunction(h) - SumFunction(f) = h[c] - f[c]
<1>1. PICK g : Sums(g, f, S)
  BY SumsExist
<1>2. PICK k : Sums(k, h, S)
  BY SumsExist
<1>3. SumFunction(f) = g[S] /\ SumFunction(h) = k[S]
  BY <1>1, <1>2, SumIs
<1> DEFINE R == S \ {c}
           good == {s \in SUBSET R : k[s] = g[s]}
<1>4. IsFiniteSet(R)
  BY FS_RemoveElement
<1>5. {} \in good
  BY <1>1, <1>2 DEF Sums
<1>6. ASSUME NEW s \in SUBSET R, s # {}, \A x \in s : s \ {x} \in good PROVE s \in good
  <2>1. PICK x \in s : TRUE
    BY <1>6
  <2>2. s \in SUBSET S /\ h[x] = f[x]
    OBVIOUS
  <2>3. k[s] = h[x] + k[s \ {x}] /\ g[s] = f[x] + g[s \ {x}]
    BY <1>1, <1>2, <2>2 DEF Sums
  <2>4. k[s \ {x}] = g[s \ {x}]
    BY <1>6
  <2>5. k[s] = g[s]
    BY <2>2, <2>3, <2>4
  <2> QED
    BY <2>5
<1> HIDE DEF good, R
<1>7. R \in good
  <2>1. \A s \in SUBSET R : s \in good
    BY <1>4, <1>5, <1>6, UpToSet, Zenon
  <2> QED
    BY <2>1, Zenon
<1>8. k[R] = g[R] /\ R \in SUBSET S /\ S \in SUBSET S
  BY <1>7 DEF good, R
<1>9. k[S] = h[c] + k[R] /\ g[S] = f[c] + g[R] /\ g[R] \in Int
  BY <1>1, <1>2, <1>8 DEF Sums, R
<1>10. f[c] \in Int /\ h[c] \in Int
  OBVIOUS
<1> QED
  BY <1>3, <1>8, <1>9, <1>10

\* Nothing adds up to nothing.
LEMMA SumOfNothing ==
    ASSUME NEW S, IsFiniteSet(S), NEW f \in [S -> Int], \A x \in S : f[x] = 0
    PROVE  SumFunction(f) = 0
<1>1. PICK g : Sums(g, f, S)
  BY SumsExist
<1>2. SumFunction(f) = g[S]
  BY <1>1, SumIs
<1> DEFINE good == {s \in SUBSET S : g[s] = 0}
<1>3. {} \in good
  BY <1>1 DEF Sums
<1>4. ASSUME NEW s \in SUBSET S, s # {}, \A x \in s : s \ {x} \in good PROVE s \in good
  <2>1. PICK x \in s : TRUE
    BY <1>4
  <2>2. g[s] = f[x] + g[s \ {x}] /\ g[s \ {x}] = 0 /\ f[x] = 0
    BY <1>1, <1>4, <2>1 DEF Sums
  <2>3. g[s] = 0
    BY <2>2
  <2> QED
    BY <2>3
<1> HIDE DEF good
<1>5. S \in good
  BY <1>3, <1>4, UpToSet
<1> QED
  BY <1>2, <1>5 DEF good

-----------------------------------------------------------------------------
(* The summaries of the challenge ledger.                                  *)

\* The summary of a provider.
Summary == [challenges : Nat, passed : Int, score : Int, latency : Int]

\* What event i does to the summaries.
summaryStep(bodies) ==
    [i \in 1..Len(bodies) |->
        [ss \in [Challenged -> Summary] |->
            [ss EXCEPT ![bodies[i].provider] = addChallenge(@, bodies[i])]]]

\* What Record keeps of a challenge: the score is clamped.
LEMMA ChallengeBodyType ==
    ASSUME NEW b \in ChallengeBodies
    PROVE  /\ b \in [provider : Challenged, passed : BOOLEAN, score : 0..100, latency : Nat]
  BY ChallengeEventsAssumption DEF ChallengeBodies, challengeBody, ChallengeInputs, clampScore

\* One challenge more keeps the summary a summary.
LEMMA AddChallengeType ==
    ASSUME NEW s \in Summary, NEW b \in ChallengeBodies
    PROVE  addChallenge(s, b) \in Summary
<1>1. b.score \in Int /\ b.latency \in Int /\ b.passed \in BOOLEAN
  BY ChallengeBodyType
<1>2. /\ s.challenges \in Nat /\ s.passed \in Int /\ s.score \in Int /\ s.latency \in Int
  BY DEF Summary
<1> DEFINE n == s.challenges + 1
<1>3. n \in Nat /\ n > 0
  BY <1>2
<1>4. s.score * (n - 1) + b.score \in Int /\ s.latency * (n - 1) + b.latency \in Int
  BY <1>1, <1>2, <1>3
<1>5. s.passed + (IF b.passed THEN 1 ELSE 0) \in Int
  BY <1>2
<1> HIDE DEF n
<1>6. /\ (s.score * (n - 1) + b.score) \div n \in Int
      /\ (s.latency * (n - 1) + b.latency) \div n \in Int
  BY <1>3, <1>4, DivDef
<1> QED
  BY <1>3, <1>5, <1>6 DEF addChallenge, Summary, n

\* Every event takes summaries to summaries.
LEMMA SummaryStepType ==
    ASSUME NEW bodies \in Seq(ChallengeBodies)
    PROVE  summaryStep(bodies) \in [1..Len(bodies) -> [[Challenged -> Summary] -> [Challenged -> Summary]]]
<1> SUFFICES ASSUME NEW i \in 1..Len(bodies), NEW ss \in [Challenged -> Summary]
             PROVE  [ss EXCEPT ![bodies[i].provider] = addChallenge(@, bodies[i])]
                       \in [Challenged -> Summary]
  BY DEF summaryStep
<1>1. bodies[i] \in ChallengeBodies
  OBVIOUS
<1>2. bodies[i].provider \in Challenged
  BY <1>1, ChallengeBodyType
<1>3. addChallenge(ss[bodies[i].provider], bodies[i]) \in Summary
  BY <1>1, <1>2, AddChallengeType
<1> QED
  BY <1>2, <1>3

\* summaries is a fold over the events.
LEMMA SummariesFold ==
    ASSUME NEW bodies \in Seq(ChallengeBodies)
    PROVE  \E g : /\ Folds(g, Len(bodies), [Challenged -> Summary],
                            [p \in Challenged |-> NoSummary], summaryStep(bodies))
                  /\ summaries(bodies) = g[1..Len(bodies)]
<1> DEFINE n == Len(bodies)
           base == [p \in Challenged |-> NoSummary]
           V == [Challenged -> Summary]
           F(g) == [s \in SUBSET (DOMAIN bodies) |->
                      IF s = {} THEN base
                      ELSE [g[s \ {Max(s)}] EXCEPT ![bodies[Max(s)].provider] =
                                addChallenge(@, bodies[Max(s)])]]
           it == CHOOSE g : g = F(g)
<1>1. n \in Nat /\ DOMAIN bodies = 1..n
  OBVIOUS
<1>2. base \in V
  BY DEF NoSummary, Summary
<1>3. PICK g : Folds(g, n, V, base, summaryStep(bodies))
  BY <1>1, <1>2, SummaryStepType, FoldExists
<1>4. summaries(bodies) = it[DOMAIN bodies]
  BY Zenon DEF summaries, FoldLeft, MapThenFoldSet
<1>5. g = F(g)
  <2>1. g \in [SUBSET (1..n) -> V]
    BY <1>3 DEF Folds
  <2>2. ASSUME NEW s \in SUBSET (1..n)
        PROVE  g[s] = IF s = {} THEN base
                      ELSE [g[s \ {Max(s)}] EXCEPT ![bodies[Max(s)].provider] =
                                addChallenge(@, bodies[Max(s)])]
    <3>1. CASE s = {}
      BY <1>3, <3>1 DEF Folds
    <3>2. CASE s # {}
      <4>1. Max(s) \in 1..n
        BY <1>1, <3>2, LargestOf
      <4>2. g[s \ {Max(s)}] \in V
        BY <2>1
      <4>3. g[s] = summaryStep(bodies)[Max(s)][g[s \ {Max(s)}]]
        BY <1>3, <3>2 DEF Folds
      <4> QED
        BY <3>2, <4>1, <4>2, <4>3 DEF summaryStep
    <3> QED
      BY <3>1, <3>2
  <2> QED
    BY <1>1, <2>1, <2>2
<1>6. it = F(it)
  BY <1>5, Zenon
<1>7. it[1..0] = base
  <2>1. 1..0 = {} /\ {} \in SUBSET (1..n)
    OBVIOUS
  <2> HIDE DEF it, base
  <2> QED
    BY <1>1, <1>6, <2>1
<1>8. ASSUME NEW k \in 0..(n - 1), it[1..k] \in V
      PROVE  it[1..(k + 1)] = summaryStep(bodies)[k + 1][it[1..k]]
  <2> DEFINE s == 1..(k + 1)
  <2>1. k \in Nat /\ s \in SUBSET (1..n) /\ k + 1 \in 1..n
    BY <1>1
  <2>2. s # {} /\ Max(s) = k + 1 /\ s \ {k + 1} = 1..k
    BY <2>1, LargestUpTo
  <2> HIDE DEF s, it, base
  <2>3. it[s] = [it[s \ {Max(s)}] EXCEPT ![bodies[Max(s)].provider] =
                                addChallenge(@, bodies[Max(s)])]
    BY <1>1, <1>6, <2>1, <2>2
  <2>4. it[s] = [it[1..k] EXCEPT ![bodies[k + 1].provider] = addChallenge(@, bodies[k + 1])]
    BY <2>2, <2>3
  <2>5. summaryStep(bodies)[k + 1][it[1..k]] =
           [it[1..k] EXCEPT ![bodies[k + 1].provider] = addChallenge(@, bodies[k + 1])]
    BY <1>8, <2>1 DEF summaryStep
  <2> QED
    BY <2>4, <2>5 DEF s
<1> HIDE DEF it, base, V
<1>9. it[1..n] = g[1..n]
  BY <1>1, <1>3, <1>7, <1>8, FoldIs
<1> QED
  BY <1>1, <1>3, <1>4, <1>9 DEF base, V

\* Every provider that is challenged has a summary.
LEMMA SummariesType ==
    ASSUME NEW bodies \in Seq(ChallengeBodies), NEW p \in Challenged
    PROVE  summaries(bodies)[p] \in Summary
<1>1. PICK g : /\ Folds(g, Len(bodies), [Challenged -> Summary],
                        [q \in Challenged |-> NoSummary], summaryStep(bodies))
               /\ summaries(bodies) = g[1..Len(bodies)]
  BY SummariesFold
<1>2. Len(bodies) \in Nat /\ Len(bodies) \in 0..Len(bodies)
  OBVIOUS
<1>3. summaries(bodies) \in [Challenged -> Summary]
  BY <1>1, <1>2, FoldUnfold
<1> QED
  BY <1>3

\* What one event more does to the summaries.
LEMMA SummariesAppend ==
    ASSUME NEW bodies \in Seq(ChallengeBodies), NEW b \in ChallengeBodies
    PROVE  /\ summaries(bodies) \in [Challenged -> Summary]
           /\ summaries(Append(bodies, b)) =
                 [summaries(bodies) EXCEPT ![b.provider] = addChallenge(@, b)]
<1> DEFINE n == Len(bodies)
           longer == Append(bodies, b)
           base == [p \in Challenged |-> NoSummary]
           V == [Challenged -> Summary]
<1>1. n \in Nat /\ longer \in Seq(ChallengeBodies) /\ Len(longer) = n + 1 /\ longer[n + 1] = b
  OBVIOUS
<1>2. \A i \in 1..n : longer[i] = bodies[i] /\ i \in 1..(n + 1)
  OBVIOUS
<1> HIDE DEF longer
<1>3. \A i \in 1..n : summaryStep(longer)[i] = summaryStep(bodies)[i]
  BY <1>1, <1>2 DEF summaryStep
<1>4. PICK g : Folds(g, n, V, base, summaryStep(bodies)) /\ summaries(bodies) = g[1..n]
  BY SummariesFold
<1>5. PICK h : /\ Folds(h, n + 1, V, base, summaryStep(longer))
               /\ summaries(longer) = h[1..(n + 1)]
  <2>1. \E h : /\ Folds(h, Len(longer), V, base, summaryStep(longer))
               /\ summaries(longer) = h[1..Len(longer)]
    BY <1>1, SummariesFold
  <2> QED
    BY <1>1, <2>1
<1>6. summaries(longer) = summaryStep(longer)[n + 1][summaries(bodies)] /\ summaries(bodies) \in V
  <2> HIDE DEF n, base, V
  <2> QED
    BY <1>1, <1>3, <1>4, <1>5, FoldOneMore
<1>7. n + 1 \in 1..Len(longer)
  BY <1>1
<1>8. summaryStep(longer)[n + 1][summaries(bodies)] =
         [summaries(bodies) EXCEPT ![longer[n + 1].provider] = addChallenge(@, longer[n + 1])]
  BY <1>6, <1>7 DEF summaryStep
<1> QED
  BY <1>1, <1>6, <1>8 DEF longer

\* Without events every provider has the empty summary.
LEMMA SummariesEmpty == summaries(<<>>) = [p \in Challenged |-> NoSummary]
<1>1. <<>> \in Seq(ChallengeBodies) /\ Len(<<>>) = 0 /\ 0 \in Nat
  OBVIOUS
<1> DEFINE e == <<>>
<1> HIDE DEF e
<1>2. PICK g : /\ Folds(g, Len(e), [Challenged -> Summary],
                            [p \in Challenged |-> NoSummary], summaryStep(e))
               /\ summaries(e) = g[1..Len(e)]
  BY <1>1, SummariesFold DEF e
<1> QED
  BY <1>1, <1>2, FoldUnfold DEF e

-----------------------------------------------------------------------------
(* The balances of the settlement ledger.                                  *)

\* The balance of a consumer or a provider.
Balance == [events : Nat, tokens : Int, latency : Int, debit : Int, reward : Int,
            penalty : Int]

\* The balances of all of them.
Books == [consumers : [Consumers -> Balance], providers : [Providers -> Balance]]

\* Before the first event.
EmptyBooks == [consumers |-> [c \in Consumers |-> NoBalance],
               providers |-> [p \in Providers |-> NoBalance]]

\* priceFor is not negative.
LEMMA PriceType == ASSUME NEW tokens \in Nat PROVE priceFor(tokens) \in Nat
<1> DEFINE m == tokens * price
<1>1. m \in Nat
  BY SettlementAssumption
<1> HIDE DEF m
<1>2. m \div 1000 \in Nat
  BY <1>1
<1> QED
  BY <1>2 DEF m, priceFor

\* The reward is a part of the price.
LEMMA RewardBounded ==
    ASSUME NEW cost \in Nat
    PROVE  (cost * shareBPS) \div 10000 \in Nat /\ (cost * shareBPS) \div 10000 <= cost
<1> DEFINE m == cost * shareBPS
<1>1. m \in Nat /\ m <= cost * 10000
  BY SettlementAssumption
<1> HIDE DEF m
<1>2. m \div 10000 \in Nat /\ m \div 10000 <= cost
  BY <1>1
<1> QED
  BY <1>2 DEF m

\* The penalty is a part of the reward.
LEMMA PenaltyBounded ==
    ASSUME NEW reward \in Nat, NEW latency
    PROVE  penaltyFor(reward, latency) \in Nat /\ penaltyFor(reward, latency) <= reward
<1> DEFINE m == reward * latencyPenaltyBPS
<1>1. m \in Nat /\ m <= reward * 10000
  BY SettlementAssumption
<1>2. penaltyFor(reward, latency) = 0 \/ penaltyFor(reward, latency) = m \div 10000
  BY DEF penaltyFor
<1> HIDE DEF m
<1>3. m \div 10000 \in Nat /\ m \div 10000 <= reward
  BY <1>1
<1> QED
  BY <1>2, <1>3

\* What Record computes: reward and penalty are parts of the price.
LEMMA SettlementBodyType ==
    ASSUME NEW b \in SettlementBodies
    PROVE  /\ b.consumer \in Consumers /\ b.provider \in Providers
           /\ b.tokens \in Nat /\ b.latency \in Nat
           /\ b.price \in Nat /\ b.reward \in Nat /\ b.penalty \in Nat
           /\ b.reward + b.penalty <= b.price
<1>1. PICK in \in SettlementInputs : b = settlementBody(in)
  BY DEF SettlementBodies
<1>2. /\ in.consumer \in Consumers /\ in.provider \in Providers
      /\ in.tokens \in Nat /\ in.latency \in Nat
  <2>1. /\ in.consumer \in Consumers /\ in.provider \in Providers
        /\ in.tokens \in Tokens /\ in.latency \in Latencies
    BY DEF SettlementInputs
  <2>2. Tokens \subseteq Nat /\ Latencies \subseteq Nat
    BY SettlementAssumption
  <2> QED
    BY <2>1, <2>2
<1>3. PICK cost : cost = priceFor(in.tokens)
  OBVIOUS
<1>4. PICK reward : reward = (cost * shareBPS) \div 10000
  OBVIOUS
<1>5. PICK penalty : penalty = penaltyFor(reward, in.latency)
  OBVIOUS
<1>6. cost \in Nat
  BY <1>2, <1>3, PriceType
<1>7. reward \in Nat /\ reward <= cost
  BY <1>4, <1>6, RewardBounded
<1>8. penalty \in Nat /\ penalty <= reward
  BY <1>5, <1>7, PenaltyBounded
<1>9. b = [consumer |-> in.consumer, provider |-> in.provider,
           tokens |-> in.tokens, latency |-> in.latency, price |-> cost,
           reward |-> reward - penalty, penalty |-> penalty]
  BY <1>1, <1>3, <1>4, <1>5 DEF settlementBody
<1> QED
  BY <1>2, <1>6, <1>7, <1>8, <1>9

\* One event more keeps a balance a balance.
LEMMA AddToType ==
    ASSUME NEW bal \in Balance, NEW b \in SettlementBodies,
           NEW debit \in Int, NEW reward \in Int, NEW penalty \in Int
    PROVE  addTo(bal, b, debit, reward, penalty) \in Balance
<1>1. b.tokens \in Int /\ b.latency \in Int
  BY SettlementBodyType
<1>2. /\ bal.events \in Nat /\ bal.tokens \in Int /\ bal.latency \in Int /\ bal.debit \in Int
      /\ bal.reward \in Int /\ bal.penalty \in Int
  BY DEF Balance
<1>3. /\ bal.latency * bal.events + b.latency \in Int
      /\ bal.events + 1 \in Nat /\ bal.events + 1 > 0
  BY <1>1, <1>2
<1>4. (bal.latency * bal.events + b.latency) \div (bal.events + 1) \in Int
  BY <1>3, DivDef
<1>5. /\ bal.tokens + b.tokens \in Int /\ bal.debit + debit \in Int
      /\ bal.reward + reward \in Int /\ bal.penalty + penalty \in Int
  BY <1>1, <1>2
<1> QED
  BY <1>3, <1>4, <1>5 DEF addTo, Balance

\* An event takes balances to balances.
LEMMA SettleType ==
    ASSUME NEW bs \in Books, NEW b \in SettlementBodies
    PROVE  settle(bs, b) \in Books
<1>1. /\ bs.consumers \in [Consumers -> Balance] /\ bs.providers \in [Providers -> Balance]
      /\ b.consumer \in Consumers /\ b.provider \in Providers
      /\ b.price \in Int /\ b.reward \in Int /\ b.penalty \in Int /\ 0 \in Int
  BY SettlementBodyType DEF Books
<1>2. addTo(bs.consumers[b.consumer], b, b.price, 0, 0) \in Balance
  BY <1>1, AddToType
<1>3. addTo(bs.providers[b.provider], b, 0, b.reward, b.penalty) \in Balance
  BY <1>1, AddToType
<1>4. [bs.consumers EXCEPT ![b.consumer] = addTo(@, b, b.price, 0, 0)] \in [Consumers -> Balance]
  BY <1>1, <1>2
<1>5. [bs.providers EXCEPT ![b.provider] = addTo(@, b, 0, b.reward, b.penalty)]
         \in [Providers -> Balance]
  BY <1>1, <1>3
<1> QED
  BY <1>4, <1>5 DEF settle, Books

\* What event i does to the balances.
settleStep(bodies) == [i \in 1..Len(bodies) |-> [bs \in Books |-> settle(bs, bodies[i])]]

\* balances is a fold over the events.
LEMMA BalancesFold ==
    ASSUME NEW bodies \in Seq(SettlementBodies)
    PROVE  \E g : /\ Folds(g, Len(bodies), Books, EmptyBooks, settleStep(bodies))
                  /\ balances(bodies) = g[1..Len(bodies)]
<1> DEFINE n == Len(bodies)
           F(g) == [s \in SUBSET (DOMAIN bodies) |->
                      IF s = {} THEN EmptyBooks
                      ELSE settle(g[s \ {Max(s)}], bodies[Max(s)])]
           it == CHOOSE g : g = F(g)
<1>1. n \in Nat /\ DOMAIN bodies = 1..n /\ \A i \in 1..n : bodies[i] \in SettlementBodies
  OBVIOUS
<1>2. EmptyBooks \in Books
  BY DEF EmptyBooks, Books, Balance, NoBalance
<1>3. settleStep(bodies) \in [1..n -> [Books -> Books]]
  BY <1>1, SettleType DEF settleStep
<1>4. PICK g : Folds(g, n, Books, EmptyBooks, settleStep(bodies))
  BY <1>1, <1>2, <1>3, FoldExists
<1>5. balances(bodies) = it[DOMAIN bodies]
  BY Zenon DEF balances, FoldLeft, MapThenFoldSet, EmptyBooks
<1>6. g = F(g)
  <2>1. g \in [SUBSET (1..n) -> Books]
    BY <1>4 DEF Folds
  <2>2. ASSUME NEW s \in SUBSET (1..n)
        PROVE  g[s] = IF s = {} THEN EmptyBooks
                      ELSE settle(g[s \ {Max(s)}], bodies[Max(s)])
    <3>1. CASE s = {}
      BY <1>4, <3>1 DEF Folds
    <3>2. CASE s # {}
      <4>1. Max(s) \in 1..n
        BY <1>1, <3>2, LargestOf
      <4>2. g[s \ {Max(s)}] \in Books
        BY <2>1
      <4>3. g[s] = settleStep(bodies)[Max(s)][g[s \ {Max(s)}]]
        BY <1>4, <3>2 DEF Folds
      <4> QED
        BY <3>2, <4>1, <4>2, <4>3 DEF settleStep
    <3> QED
      BY <3>1, <3>2
  <2> QED
    BY <1>1, <2>1, <2>2
<1>7. it = F(it)
  BY <1>6, Zenon
<1>8. it[1..0] = EmptyBooks
  <2>1. 1..0 = {} /\ {} \in SUBSET (1..n)
    OBVIOUS
  <2> HIDE DEF it
  <2> QED
    BY <1>1, <1>7, <2>1
<1>9. ASSUME NEW k \in 0..(n - 1), it[1..k] \in Books
      PROVE  it[1..(k + 1)] = settleStep(bodies)[k + 1][it[1..k]]
  <2> DEFINE s == 1..(k + 1)
  <2>1. k \in Nat /\ s \in SUBSET (1..n) /\ k + 1 \in 1..n
    BY <1>1
  <2>2. s # {} /\ Max(s) = k + 1 /\ s \ {k + 1} = 1..k
    BY <2>1, LargestUpTo
  <2> HIDE DEF s, it
  <2>3. it[s] = settle(it[s \ {Max(s)}], bodies[Max(s)])
    BY <1>1, <1>7, <2>1, <2>2
  <2>4. settleStep(bodies)[k + 1][it[1..k]] = settle(it[1..k], bodies[k + 1])
    BY <1>9, <2>1 DEF settleStep
  <2> QED
    BY <2>2, <2>3, <2>4 DEF s
<1> HIDE DEF it
<1>10. it[1..n] = g[1..n]
  BY <1>1, <1>4, <1>8, <1>9, FoldIs
<1> QED
  BY <1>1, <1>4, <1>5, <1>10

\* What one event more does to the balances.
LEMMA BalancesAppend ==
    ASSUME NEW bodies \in Seq(SettlementBodies), NEW b \in SettlementBodies
    PROVE  /\ balances(bodies) \in Books
           /\ balances(Append(bodies, b)) = settle(balances(bodies), b)
<1> DEFINE n == Len(bodies)
           longer == Append(bodies, b)
<1>1. n \in Nat /\ longer \in Seq(SettlementBodies) /\ Len(longer) = n + 1 /\ longer[n + 1] = b
  OBVIOUS
<1>2. \A i \in 1..n : longer[i] = bodies[i] /\ i \in 1..(n + 1)
  OBVIOUS
<1> HIDE DEF longer
<1>3. \A i \in 1..n : settleStep(longer)[i] = settleStep(bodies)[i]
  BY <1>1, <1>2 DEF settleStep
<1>4. PICK g : Folds(g, n, Books, EmptyBooks, settleStep(bodies)) /\ balances(bodies) = g[1..n]
  BY BalancesFold
<1>5. PICK h : /\ Folds(h, n + 1, Books, EmptyBooks, settleStep(longer))
               /\ balances(longer) = h[1..(n + 1)]
  <2>1. \E h : /\ Folds(h, Len(longer), Books, EmptyBooks, settleStep(longer))
               /\ balances(longer) = h[1..Len(longer)]
    BY <1>1, BalancesFold
  <2> QED
    BY <1>1, <2>1
<1>6. balances(longer) = settleStep(longer)[n + 1][balances(bodies)] /\ balances(bodies) \in Books
  <2> HIDE DEF n
  <2> QED
    BY <1>1, <1>3, <1>4, <1>5, FoldOneMore
<1>7. n + 1 \in 1..Len(longer)
  BY <1>1
<1>8. settleStep(longer)[n + 1][balances(bodies)] = settle(balances(bodies), longer[n + 1])
  BY <1>6, <1>7 DEF settleStep
<1> QED
  BY <1>1, <1>6, <1>8 DEF longer

\* Without events all balances are empty.
LEMMA BalancesEmpty == balances(<<>>) = EmptyBooks
<1>1. <<>> \in Seq(SettlementBodies) /\ Len(<<>>) = 0 /\ 0 \in Nat
  OBVIOUS
<1> DEFINE e == <<>>
<1> HIDE DEF e
<1>2. PICK g : /\ Folds(g, Len(e), Books, EmptyBooks, settleStep(e))
               /\ balances(e) = g[1..Len(e)]
  BY <1>1, BalancesFold DEF e
<1> QED
  BY <1>1, <1>2, FoldUnfold DEF e

-----------------------------------------------------------------------------
(* Rounding never creates money.                                           *)

\* DebitsCoverRewards of any sequence of settlement events.
Covered(bodies) ==
    LET cs == balances(bodies).consumers
        ps == balances(bodies).providers
    IN  /\ SumFunction([p \in Providers |-> ps[p].reward + ps[p].penalty])
              <= SumFunction([c \in Consumers |-> cs[c].debit])
        /\ \A p \in Providers : ps[p].reward >= 0 /\ ps[p].penalty >= 0
        /\ SumFunction([c \in Consumers |-> cs[c].tokens])
              = SumFunction([p \in Providers |-> ps[p].tokens])

\* Without events nothing is owed and nothing is paid.
LEMMA CoveredEmpty == Covered(<<>>)
<1>1. IsFiniteSet(Consumers) /\ IsFiniteSet(Providers)
  BY SettlementAssumption
<1>2. /\ \A c \in Consumers : balances(<<>>).consumers[c] = NoBalance
      /\ \A p \in Providers : balances(<<>>).providers[p] = NoBalance
  BY BalancesEmpty DEF EmptyBooks
<1> DEFINE cs == balances(<<>>).consumers
           ps == balances(<<>>).providers
           owed == [p \in Providers |-> ps[p].reward + ps[p].penalty]
           paid == [c \in Consumers |-> cs[c].debit]
           used == [c \in Consumers |-> cs[c].tokens]
           served == [p \in Providers |-> ps[p].tokens]
<1>3. /\ owed \in [Providers -> Int] /\ \A p \in Providers : owed[p] = 0
      /\ paid \in [Consumers -> Int] /\ \A c \in Consumers : paid[c] = 0
      /\ used \in [Consumers -> Int] /\ \A c \in Consumers : used[c] = 0
      /\ served \in [Providers -> Int] /\ \A p \in Providers : served[p] = 0
  BY <1>2 DEF NoBalance
<1>4. \A p \in Providers : ps[p].reward >= 0 /\ ps[p].penalty >= 0
  BY <1>2 DEF NoBalance
<1> HIDE DEF owed, paid, used, served
<1>5. SumFunction(owed) = 0 /\ SumFunction(paid) = 0 /\ SumFunction(used) = 0 /\ SumFunction(served) = 0
  BY <1>1, <1>3, SumOfNothing
<1>6. SumFunction(owed) <= SumFunction(paid) /\ SumFunction(used) = SumFunction(served)
  BY <1>5
<1> QED
  BY <1>4, <1>6 DEF Covered, owed, paid, used, served

\* An event adds its price to what is paid and no more than that to what
\* is owed or held back, and as many tokens on either side.
LEMMA CoveredAppend ==
    ASSUME NEW bodies \in Seq(SettlementBodies), NEW b \in SettlementBodies, Covered(bodies)
    PROVE  Covered(Append(bodies, b))
<1>1. IsFiniteSet(Consumers) /\ IsFiniteSet(Providers)
  BY SettlementAssumption
<1>2. PICK bs : bs = balances(bodies)
  OBVIOUS
<1>3. PICK nx : nx = balances(Append(bodies, b))
  OBVIOUS
<1>4. bs \in Books /\ nx = settle(bs, b)
  BY <1>2, <1>3, BalancesAppend
<1>5. nx \in Books
  BY <1>4, SettleType
<1>6. /\ b.consumer \in Consumers /\ b.provider \in Providers /\ b.tokens \in Nat
      /\ b.price \in Nat /\ b.reward \in Nat /\ b.penalty \in Nat
      /\ b.reward + b.penalty <= b.price
  BY SettlementBodyType
<1> DEFINE cs == bs.consumers
           ps == bs.providers
           cn == nx.consumers
           pn == nx.providers
<1>23. PICK c \in Consumers, p \in Providers : c = b.consumer /\ p = b.provider
  BY <1>6
<1>7. /\ cs \in [Consumers -> Balance] /\ ps \in [Providers -> Balance]
      /\ cn \in [Consumers -> Balance] /\ pn \in [Providers -> Balance]
  BY <1>4, <1>5 DEF Books
<1>8. /\ cn[c] = addTo(cs[c], b, b.price, 0, 0) /\ \A x \in Consumers \ {c} : cn[x] = cs[x]
      /\ pn[p] = addTo(ps[p], b, 0, b.reward, b.penalty)
      /\ \A x \in Providers \ {p} : pn[x] = ps[x]
  <2>1. /\ nx.consumers = [cs EXCEPT ![c] = addTo(@, b, b.price, 0, 0)]
        /\ nx.providers = [ps EXCEPT ![p] = addTo(@, b, 0, b.reward, b.penalty)]
    BY <1>4, <1>23 DEF settle
  <2> HIDE DEF cs, ps, cn, pn
  <2>3. /\ cn = [cs EXCEPT ![c] = addTo(@, b, b.price, 0, 0)]
        /\ pn = [ps EXCEPT ![p] = addTo(@, b, 0, b.reward, b.penalty)]
    BY <2>1 DEF cn, pn
  <2> QED
    BY <1>7, <2>3
<1> HIDE DEF cs, ps, cn, pn
<1>9. /\ \A x \in Consumers : cs[x].debit \in Int /\ cs[x].tokens \in Int
      /\ \A x \in Consumers : cn[x].debit \in Int /\ cn[x].tokens \in Int
      /\ \A x \in Providers : ps[x].reward \in Int /\ ps[x].penalty \in Int /\ ps[x].tokens \in Int
      /\ \A x \in Providers : pn[x].reward \in Int /\ pn[x].penalty \in Int /\ pn[x].tokens \in Int
  BY <1>7 DEF Balance
<1>10. /\ cn[c].debit = cs[c].debit + b.price /\ cn[c].tokens = cs[c].tokens + b.tokens
       /\ pn[p].reward = ps[p].reward + b.reward /\ pn[p].penalty = ps[p].penalty + b.penalty
       /\ pn[p].tokens = ps[p].tokens + b.tokens
  BY <1>8 DEF addTo
<1>12. PICK o, o2 : /\ o = [x \in Providers |-> ps[x].reward + ps[x].penalty]
                    /\ o2 = [x \in Providers |-> pn[x].reward + pn[x].penalty]
  OBVIOUS
<1>13. SumFunction(o) \in Int /\ SumFunction(o2) = SumFunction(o) + (b.reward + b.penalty)
  <2>1. o \in [Providers -> Int] /\ o2 \in [Providers -> Int]
    BY <1>9, <1>12
  <2>2. o[p] = ps[p].reward + ps[p].penalty /\ o2[p] = pn[p].reward + pn[p].penalty
    BY <1>12
  <2>3. o2[p] = o[p] + (b.reward + b.penalty)
    <3>1. ps[p].reward \in Int /\ ps[p].penalty \in Int
      BY <1>9
    <3>2. o2[p] = (ps[p].reward + b.reward) + (ps[p].penalty + b.penalty)
      BY <1>10, <2>2
    <3> QED
      BY <1>6, <2>2, <3>1, <3>2
  <2>4. \A x \in Providers \ {p} : o2[x] = o[x]
    BY <1>8, <1>12
  <2>5. b.reward + b.penalty \in Int
    BY <1>6
  <2> QED
    <3>1. /\ SumFunction(o) \in Int /\ SumFunction(o2) \in Int
          /\ SumFunction(o2) - SumFunction(o) = o2[p] - o[p]
      BY <1>1, <2>1, <2>4, SumChanges
    <3> QED
      BY <2>1, <2>3, <2>5, <3>1
<1>14. PICK d, d2 : /\ d = [x \in Consumers |-> cs[x].debit]
                    /\ d2 = [x \in Consumers |-> cn[x].debit]
  OBVIOUS
<1>15. SumFunction(d) \in Int /\ SumFunction(d2) = SumFunction(d) + b.price
  <2>1. /\ d \in [Consumers -> Int] /\ d2 \in [Consumers -> Int]
        /\ d2[c] = d[c] + b.price /\ \A x \in Consumers \ {c} : d2[x] = d[x]
    BY <1>8, <1>9, <1>10, <1>14
  <2>2. b.price \in Int
    BY <1>6
  <2> QED
    <3>1. /\ SumFunction(d) \in Int /\ SumFunction(d2) \in Int
          /\ SumFunction(d2) - SumFunction(d) = d2[c] - d[c]
      BY <1>1, <2>1, SumChanges
    <3> QED
      BY <2>1, <2>2, <3>1
<1>16. PICK u, u2 : /\ u = [x \in Consumers |-> cs[x].tokens]
                    /\ u2 = [x \in Consumers |-> cn[x].tokens]
  OBVIOUS
<1>17. SumFunction(u) \in Int /\ SumFunction(u2) = SumFunction(u) + b.tokens
  <2>1. /\ u \in [Consumers -> Int] /\ u2 \in [Consumers -> Int]
        /\ u2[c] = u[c] + b.tokens /\ \A x \in Consumers \ {c} : u2[x] = u[x]
    BY <1>8, <1>9, <1>10, <1>16
  <2>2. b.tokens \in Int
    BY <1>6
  <2> QED
    <3>1. /\ SumFunction(u) \in Int /\ SumFunction(u2) \in Int
          /\ SumFunction(u2) - SumFunction(u) = u2[c] - u[c]
      BY <1>1, <2>1, SumChanges
    <3> QED
      BY <2>1, <2>2, <3>1
<1>18. PICK v, v2 : /\ v = [x \in Providers |-> ps[x].tokens]
                    /\ v2 = [x \in Providers |-> pn[x].tokens]
  OBVIOUS
<1>19. SumFunction(v) \in Int /\ SumFunction(v2) = SumFunction(v) + b.tokens
  <2>1. /\ v \in [Providers -> Int] /\ v2 \in [Providers -> Int]
        /\ v2[p] = v[p] + b.tokens /\ \A x \in Providers \ {p} : v2[x] = v[x]
    BY <1>8, <1>9, <1>10, <1>18
  <2>2. b.tokens \in Int
    BY <1>6
  <2> QED
    <3>1. /\ SumFunction(v) \in Int /\ SumFunction(v2) \in Int
          /\ SumFunction(v2) - SumFunction(v) = v2[p] - v[p]
      BY <1>1, <2>1, SumChanges
    <3> QED
      BY <2>1, <2>2, <3>1
<1>20. /\ SumFunction(o) <= SumFunction(d) /\ SumFunction(u) = SumFunction(v)
       /\ \A x \in Providers : ps[x].reward >= 0 /\ ps[x].penalty >= 0
  BY <1>2, <1>12, <1>14, <1>16, <1>18 DEF Covered, cs, ps
<1>21. ASSUME NEW x \in Providers PROVE pn[x].reward >= 0 /\ pn[x].penalty >= 0
  <2>1. ps[p].reward >= 0 /\ ps[p].penalty >= 0 /\ ps[p].reward \in Int /\ ps[p].penalty \in Int
    BY <1>9, <1>20
  <2>2. pn[p].reward >= 0 /\ pn[p].penalty >= 0
    BY <1>6, <1>10, <2>1
  <2>3. x # p => pn[x] = ps[x]
    BY <1>8
  <2>4. x # p => pn[x].reward >= 0 /\ pn[x].penalty >= 0
    BY <1>20, <2>3
  <2> QED
    BY <2>2, <2>4
<1>22. SumFunction(o2) <= SumFunction(d2) /\ SumFunction(u2) = SumFunction(v2)
  BY <1>6, <1>13, <1>15, <1>17, <1>19, <1>20
<1> QED
  BY <1>3, <1>12, <1>14, <1>16, <1>18, <1>21, <1>22 DEF Covered, cn, pn

\* Every sequence of settlement events is covered.
LEMMA AlwaysCovered ==
    ASSUME NEW bodies \in Seq(SettlementBodies)
    PROVE  Covered(bodies)
<1> DEFINE good == {s \in Seq(SettlementBodies) : Covered(s)}
<1>1. <<>> \in good
  BY CoveredEmpty
<1>2. ASSUME NEW s \in good, NEW b \in SettlementBodies PROVE Append(s, b) \in good
  <2>1. s \in Seq(SettlementBodies) /\ Covered(s)
    OBVIOUS
  <2>2. Append(s, b) \in Seq(SettlementBodies) /\ Covered(Append(s, b))
    BY <2>1, CoveredAppend
  <2> QED
    BY <2>2
<1> HIDE DEF good
<1>3. bodies \in good
  BY <1>1, <1>2, EventByEvent
<1> QED
  BY <1>3 DEF good

\* The bodies of a chain are bodies of its kind.
LEMMA BodiesByKind ==
    ASSUME TypeOK, NEW chain \in Seq(EventRecords)
    PROVE  /\ kind = "challenge_jsonl" => bodiesOf(chain) \in Seq(ChallengeBodies)
           /\ kind # "challenge_jsonl" => bodiesOf(chain) \in Seq(SettlementBodies)
<1>1. \A i \in 1..Len(chain) : chain[i].body \in Bodies
  <2> SUFFICES ASSUME NEW i \in 1..Len(chain) PROVE chain[i].body \in Bodies
    OBVIOUS
  <2>1. chain[i] \in EventRecords
    OBVIOUS
  <2> QED
    BY <2>1 DEF EventRecords
<1>2. bodiesOf(chain) \in Seq(Bodies)
  BY <1>1 DEF bodiesOf
<1> QED
  BY <1>2 DEF Bodies

\* Whatever the prices, shares, penalties and latencies, and however often
\* integer division rounds, providers are never owed more than consumers were
\* debited: the balances of Snapshot and of the payout report are covered.
THEOREM DebitsAreCovered == Spec => []DebitsCoverRewards
<1>1. LedgersInv => DebitsCoverRewards
  <2> SUFFICES ASSUME LedgersInv, kind # "challenge_jsonl" PROVE Covered(bodiesOf(events))
    BY DEF DebitsCoverRewards, Covered
  <2>1. TypeOK /\ events \in Seq(EventRecords)
    BY DEF LedgersInv, TypeOK
  <2>2. bodiesOf(events) \in Seq(SettlementBodies)
    BY <2>1, BodiesByKind
  <2> QED
    BY <2>2, AlwaysCovered
<1> QED
  BY <1>1, LedgersInvariant, PTL

-----------------------------------------------------------------------------
(* Means stay within what was recorded.                                    *)

\* The events recorded for a provider, one event later.
LEMMA RecordedAppend ==
    ASSUME NEW B, NEW bodies \in Seq(B), NEW b \in B, NEW p
    PROVE  recordedFor(p, Append(bodies, b)) =
             recordedFor(p, bodies) \cup (IF b.provider = p THEN {b} ELSE {})
<1> DEFINE n == Len(bodies)
           l == Append(bodies, b)
<1>1. n \in Nat /\ DOMAIN bodies = 1..n /\ DOMAIN l = 1..(n + 1)
  OBVIOUS
<1>2. l[n + 1] = b /\ \A i \in 1..n : l[i] = bodies[i]
  OBVIOUS
<1> HIDE DEF l
<1>3. Range(l) = {l[i] : i \in 1..(n + 1)} /\ Range(bodies) = {bodies[i] : i \in 1..n}
  BY <1>1 DEF Range
<1>4. 1..(n + 1) = (1..n) \cup {n + 1}
  BY <1>1
<1>5. Range(l) = Range(bodies) \cup {b}
  BY <1>2, <1>3, <1>4
<1> QED
  BY <1>5 DEF recordedFor, l

\* Nothing is recorded for anyone in an empty chain.
LEMMA RecordedEmpty == ASSUME NEW p PROVE recordedFor(p, <<>>) = {}
  BY DEF recordedFor, Range

\* What the summary of one provider keeps to, given the bodies recorded for it.
SummaryInRange(s, mine) ==
    /\ mine = {} => s.challenges = 0
    /\ 0 <= s.passed /\ s.passed <= s.challenges
    /\ s.score \in 0..100
    /\ Within(s.score, {b.score : b \in mine})
    /\ Within(s.latency, {b.latency : b \in mine})

\* The same for all providers.
SummariesInRange(bodies) ==
    \A p \in Challenged : SummaryInRange(summaries(bodies)[p], recordedFor(p, bodies))

\* Without challenges there is nothing to keep to.
LEMMA SummariesInRangeEmpty == SummariesInRange(<<>>)
<1> SUFFICES ASSUME NEW p \in Challenged
             PROVE  SummaryInRange(summaries(<<>>)[p], recordedFor(p, <<>>))
  BY DEF SummariesInRange
<1>1. summaries(<<>>)[p] = NoSummary
  BY SummariesEmpty
<1>2. recordedFor(p, <<>>) = {}
  BY RecordedEmpty
<1> QED
  BY <1>1, <1>2 DEF SummaryInRange, NoSummary, Within

\* One challenge more keeps the summary in range.
LEMMA AddChallengeInRange ==
    ASSUME NEW s \in Summary, NEW mine \in SUBSET ChallengeBodies, NEW b \in ChallengeBodies,
           SummaryInRange(s, mine)
    PROVE  SummaryInRange(addChallenge(s, b), mine \cup {b})
<1>1. b.score \in 0..100 /\ b.latency \in Nat /\ b.passed \in BOOLEAN
  BY ChallengeBodyType
<1>2. /\ s.challenges \in Nat /\ s.passed \in Int /\ s.score \in Int /\ s.latency \in Int
      /\ 0 <= s.passed /\ s.passed <= s.challenges /\ 0 <= s.score /\ s.score <= 100
  BY DEF Summary, SummaryInRange
<1> DEFINE n == s.challenges
           z == addChallenge(s, b)
           scores == {x.score : x \in mine}
           latencies == {x.latency : x \in mine}
<1>3. /\ z.challenges = n + 1
      /\ z.passed = s.passed + (IF b.passed THEN 1 ELSE 0)
      /\ z.score = (s.score * n + b.score) \div (n + 1)
      /\ z.latency = (s.latency * n + b.latency) \div (n + 1)
  <2>1. (n + 1) - 1 = n
    BY <1>2
  <2> HIDE DEF n
  <2> QED
    BY <2>1 DEF addChallenge, n
<1>4. scores \in SUBSET Int /\ latencies \in SUBSET Int
  <2>1. \A x \in mine : x.score \in Int /\ x.latency \in Int
    BY ChallengeBodyType
  <2> QED
    BY <2>1
<1>5. {x.score : x \in mine \cup {b}} = scores \cup {b.score}
  OBVIOUS
<1>6. {x.latency : x \in mine \cup {b}} = latencies \cup {b.latency}
  OBVIOUS
<1>7. (scores = {} => n = 0) /\ (latencies = {} => n = 0)
  BY DEF SummaryInRange
<1>8. Within(s.score, scores) /\ Within(s.latency, latencies)
  BY DEF SummaryInRange
<1> HIDE DEF n, z, scores, latencies
<1>9. n \in Nat /\ b.score \in Int /\ b.latency \in Int
  BY <1>1, <1>2 DEF n
<1>10. Within(z.score, scores \cup {b.score})
  <2>1. s.score \in Int
    BY <1>2
  <2>2. Within((s.score * n + b.score) \div (n + 1), scores \cup {b.score})
    BY <1>4, <1>7, <1>8, <1>9, <2>1, WithinStep
  <2> QED
    BY <1>3, <2>2
<1>11. Within(z.latency, latencies \cup {b.latency})
  <2>1. s.latency \in Int
    BY <1>2
  <2>2. Within((s.latency * n + b.latency) \div (n + 1), latencies \cup {b.latency})
    BY <1>4, <1>7, <1>8, <1>9, <2>1, WithinStep
  <2> QED
    BY <1>3, <2>2
<1>12. z.score \in 0..100
  <2>1. /\ z.score \in Int
        /\ s.score <= b.score => s.score <= z.score /\ z.score <= b.score
        /\ b.score <= s.score => b.score <= z.score /\ z.score <= s.score
    BY <1>2, <1>3, <1>9, MeanBetween
  <2> QED
    BY <1>1, <1>2, <2>1
<1>13. 0 <= z.passed /\ z.passed <= z.challenges
  <2>1. z.passed = s.passed \/ z.passed = s.passed + 1
    BY <1>2, <1>3
  <2>2. z.challenges = s.challenges + 1
    BY <1>3 DEF n
  <2> QED
    BY <1>2, <2>1, <2>2
<1> QED
  BY <1>5, <1>6, <1>10, <1>11, <1>12, <1>13 DEF SummaryInRange, z

\* One event more keeps all summaries in range.
LEMMA SummariesInRangeAppend ==
    ASSUME NEW bodies \in Seq(ChallengeBodies), NEW b \in ChallengeBodies,
           SummariesInRange(bodies)
    PROVE  SummariesInRange(Append(bodies, b))
<1> SUFFICES ASSUME NEW p \in Challenged
             PROVE  SummaryInRange(summaries(Append(bodies, b))[p],
                                   recordedFor(p, Append(bodies, b)))
  BY DEF SummariesInRange
<1>1. PICK ss : ss = summaries(bodies)
  OBVIOUS
<1>2. PICK mine : mine = recordedFor(p, bodies)
  OBVIOUS
<1>3. ss \in [Challenged -> Summary]
  BY <1>1, SummariesAppend
<1>4. summaries(Append(bodies, b)) = [ss EXCEPT ![b.provider] = addChallenge(@, b)]
  BY <1>1, SummariesAppend
<1>5. SummaryInRange(ss[p], mine)
  BY <1>1, <1>2 DEF SummariesInRange
<1>6. recordedFor(p, Append(bodies, b)) = mine \cup (IF b.provider = p THEN {b} ELSE {})
  BY <1>2, RecordedAppend
<1>7. mine \in SUBSET ChallengeBodies
  BY <1>2 DEF recordedFor, Range
<1>8. CASE b.provider = p
  <2>1. summaries(Append(bodies, b))[p] = addChallenge(ss[p], b)
    BY <1>3, <1>4, <1>8
  <2>2. recordedFor(p, Append(bodies, b)) = mine \cup {b}
    BY <1>6, <1>8
  <2>3. ss[p] \in Summary
    BY <1>3
  <2> QED
    BY <1>5, <1>7, <2>1, <2>2, <2>3, AddChallengeInRange
<1>9. CASE b.provider # p
  <2>1. summaries(Append(bodies, b))[p] = ss[p]
    BY <1>3, <1>4, <1>9
  <2>2. recordedFor(p, Append(bodies, b)) = mine
    BY <1>6, <1>9
  <2> QED
    BY <1>5, <2>1, <2>2
<1> QED
  BY <1>8, <1>9

\* Every sequence of challenge events keeps the summaries in range.
LEMMA AlwaysInRange ==
    ASSUME NEW bodies \in Seq(ChallengeBodies)
    PROVE  SummariesInRange(bodies)
<1> DEFINE good == {s \in Seq(ChallengeBodies) : SummariesInRange(s)}
<1>1. <<>> \in good
  BY SummariesInRangeEmpty
<1>2. ASSUME NEW s \in good, NEW b \in ChallengeBodies PROVE Append(s, b) \in good
  <2>1. s \in Seq(ChallengeBodies) /\ SummariesInRange(s)
    OBVIOUS
  <2>2. Append(s, b) \in Seq(ChallengeBodies) /\ SummariesInRange(Append(s, b))
    BY <2>1, SummariesInRangeAppend
  <2> QED
    BY <2>2
<1> HIDE DEF good
<1>3. bodies \in good
  BY <1>1, <1>2, EventByEvent
<1> QED
  BY <1>3 DEF good

\* A pass rate is a rate.
LEMMA RateInRange ==
    ASSUME NEW s \in Summary, 0 <= s.passed, s.passed <= s.challenges
    PROVE  passRateBPS(s) \in Int /\ 0 <= passRateBPS(s) /\ passRateBPS(s) <= 10000
<1>1. s.challenges \in Nat /\ s.passed \in Int
  BY DEF Summary
<1>2. CASE s.challenges = 0
  BY <1>2 DEF passRateBPS
<1>3. CASE s.challenges > 0
  <2>1. PICK c : c = s.challenges
    OBVIOUS
  <2>2. PICK a : a = s.passed * 10000
    OBVIOUS
  <2>3. a \in Int /\ c \in Nat /\ c > 0 /\ 0 <= a /\ a <= 10000 * c
    BY <1>1, <1>3, <2>1, <2>2
  <2>4. PICK q : q = a \div c
    OBVIOUS
  <2>5. q \in Int /\ c * q <= a /\ a < c * q + c
    BY <2>3, <2>4, DivDef
  <2>6. q < 10001
    <3>1. q * c < 10001 * c
      BY <2>3, <2>5
    <3> QED
      BY <2>3, <2>5, <3>1, MulStrict
  <2>7. 0 < q + 1
    <3>1. 0 * c < (q + 1) * c
      BY <2>3, <2>5
    <3> QED
      BY <2>3, <2>5, <3>1, MulStrict
  <2>8. passRateBPS(s) = q
    BY <1>3, <2>1, <2>2, <2>4 DEF passRateBPS
  <2> QED
    BY <2>5, <2>6, <2>7, <2>8
<1> QED
  BY <1>1, <1>2, <1>3

\* What the induction keeps up is more than what is wanted.
LEMMA InRangeIsWithin ==
    ASSUME NEW s \in Summary, NEW mine, SummaryInRange(s, mine)
    PROVE  SummaryWithin(s, mine)
<1>1. 0 <= s.passed /\ s.passed <= s.challenges
  BY DEF SummaryInRange
<1>2. s.challenges \in Int /\ s.passed \in Int
  BY DEF Summary
<1>3. 0 <= passRateBPS(s) /\ passRateBPS(s) <= 10000
  BY <1>1, <1>2, RateInRange
<1>4. /\ Within(s.score, {b.score : b \in mine})
      /\ Within(s.latency, {b.latency : b \in mine})
      /\ s.score \in 0..100
  BY DEF SummaryInRange
<1> QED
  BY <1>3, <1>4 DEF SummaryWithin

\* What the latency in a provider's balance keeps to, given the bodies
\* recorded for it.
BalanceInRange(bal, mine) ==
    /\ mine = {} => bal.events = 0
    /\ Within(bal.latency, {b.latency : b \in mine})

\* The same for all providers.
BalancesInRange(bodies) ==
    \A p \in Providers : BalanceInRange(balances(bodies).providers[p], recordedFor(p, bodies))

\* Without events there is nothing to keep to.
LEMMA BalancesInRangeEmpty == BalancesInRange(<<>>)
<1> SUFFICES ASSUME NEW p \in Providers
             PROVE  BalanceInRange(balances(<<>>).providers[p], recordedFor(p, <<>>))
  BY DEF BalancesInRange
<1>1. balances(<<>>).providers[p] = NoBalance
  BY BalancesEmpty DEF EmptyBooks
<1>2. recordedFor(p, <<>>) = {}
  BY RecordedEmpty
<1> QED
  BY <1>1, <1>2 DEF BalanceInRange, NoBalance, Within

\* One event more keeps the average latency in range.
LEMMA AddToInRange ==
    ASSUME NEW bal \in Balance, NEW mine \in SUBSET SettlementBodies, NEW b \in SettlementBodies,
           BalanceInRange(bal, mine)
    PROVE  BalanceInRange(addTo(bal, b, 0, b.reward, b.penalty), mine \cup {b})
<1> DEFINE n == bal.events
           z == addTo(bal, b, 0, b.reward, b.penalty)
           latencies == {x.latency : x \in mine}
<1>1. n \in Nat /\ bal.latency \in Int /\ b.latency \in Int
  BY SettlementBodyType DEF Balance
<1>2. z.latency = (bal.latency * n + b.latency) \div (n + 1)
  BY DEF addTo
<1>3. latencies \in SUBSET Int
  <2>1. \A x \in mine : x.latency \in Int
    BY SettlementBodyType
  <2> QED
    BY <2>1
<1>4. {x.latency : x \in mine \cup {b}} = latencies \cup {b.latency}
  OBVIOUS
<1>5. latencies = {} => n = 0
  BY DEF BalanceInRange
<1>6. Within(bal.latency, latencies)
  BY DEF BalanceInRange
<1> HIDE DEF n, z, latencies
<1>7. Within((bal.latency * n + b.latency) \div (n + 1), latencies \cup {b.latency})
  BY <1>1, <1>3, <1>5, <1>6, WithinStep
<1> QED
  BY <1>2, <1>4, <1>7 DEF BalanceInRange, z

\* One event more keeps all average latencies in range.
LEMMA BalancesInRangeAppend ==
    ASSUME NEW bodies \in Seq(SettlementBodies), NEW b \in SettlementBodies,
           BalancesInRange(bodies)
    PROVE  BalancesInRange(Append(bodies, b))
<1> SUFFICES ASSUME NEW p \in Providers
             PROVE  BalanceInRange(balances(Append(bodies, b)).providers[p],
                                   recordedFor(p, Append(bodies, b)))
  BY DEF BalancesInRange
<1>1. PICK ps : ps = balances(bodies).providers
  OBVIOUS
<1>2. PICK mine : mine = recordedFor(p, bodies)
  OBVIOUS
<1>3. ps \in [Providers -> Balance]
  BY <1>1, BalancesAppend DEF Books
<1>4. balances(Append(bodies, b)).providers =
         [ps EXCEPT ![b.provider] = addTo(@, b, 0, b.reward, b.penalty)]
  BY <1>1, BalancesAppend DEF settle
<1>5. BalanceInRange(ps[p], mine)
  BY <1>1, <1>2 DEF BalancesInRange
<1>6. recordedFor(p, Append(bodies, b)) = mine \cup (IF b.provider = p THEN {b} ELSE {})
  BY <1>2, RecordedAppend
<1>7. mine \in SUBSET SettlementBodies
  BY <1>2 DEF recordedFor, Range
<1>8. CASE b.provider = p
  <2>1. balances(Append(bodies, b)).providers[p] = addTo(ps[p], b, 0, b.reward, b.penalty)
    BY <1>3, <1>4, <1>8
  <2>2. recordedFor(p, Append(bodies, b)) = mine \cup {b}
    BY <1>6, <1>8
  <2>3. ps[p] \in Balance
    BY <1>3
  <2> QED
    BY <1>5, <1>7, <2>1, <2>2, <2>3, AddToInRange
<1>9. CASE b.provider # p
  <2>1. balances(Append(bodies, b)).providers[p] = ps[p]
    BY <1>3, <1>4, <1>9
  <2>2. recordedFor(p, Append(bodies, b)) = mine
    BY <1>6, <1>9
  <2> QED
    BY <1>5, <2>1, <2>2
<1> QED
  BY <1>8, <1>9

\* Every sequence of settlement events keeps the latencies in range.
LEMMA BalancesAlwaysInRange ==
    ASSUME NEW bodies \in Seq(SettlementBodies)
    PROVE  BalancesInRange(bodies)
<1> DEFINE good == {s \in Seq(SettlementBodies) : BalancesInRange(s)}
<1>1. <<>> \in good
  BY BalancesInRangeEmpty
<1>2. ASSUME NEW s \in good, NEW b \in SettlementBodies PROVE Append(s, b) \in good
  <2>1. s \in Seq(SettlementBodies) /\ BalancesInRange(s)
    OBVIOUS
  <2>2. Append(s, b) \in Seq(SettlementBodies) /\ BalancesInRange(Append(s, b))
    BY <2>1, BalancesInRangeAppend
  <2> QED
    BY <2>2
<1> HIDE DEF good
<1>3. bodies \in good
  BY <1>1, <1>2, EventByEvent
<1> QED
  BY <1>3 DEF good

\* For any number of events the rounded running means that the summaries and
\* the balances keep stay within the values recorded, although the error of
\* every rounding is carried into the next mean.
THEOREM AveragesStayInRange == Spec => []AveragesInRange
<1>1. LedgersInv => AveragesInRange
  <2> SUFFICES ASSUME LedgersInv PROVE AveragesInRange
    OBVIOUS
  <2>1. TypeOK /\ events \in Seq(EventRecords)
    BY DEF LedgersInv, TypeOK
  <2>2. CASE kind = "challenge_jsonl"
    <3>1. PICK bodies \in Seq(ChallengeBodies) : bodies = bodiesOf(events)
      BY <2>1, <2>2, BodiesByKind
    <3> SUFFICES ASSUME NEW p \in Challenged, NEW s, s = summaries(bodies)[p]
                 PROVE  SummaryWithin(s, recordedFor(p, bodies))
      BY <2>2, <3>1 DEF AveragesInRange
    <3>2. SummaryInRange(s, recordedFor(p, bodies))
      BY AlwaysInRange DEF SummariesInRange
    <3>3. s \in Summary
      BY SummariesType
    <3> QED
      BY <3>2, <3>3, InRangeIsWithin
  <2>3. CASE kind # "challenge_jsonl"
    <3>1. PICK bodies \in Seq(SettlementBodies) : bodies = bodiesOf(events)
      BY <2>1, <2>3, BodiesByKind
    <3>2. BalancesInRange(bodies)
      BY BalancesAlwaysInRange
    <3> QED
      BY <2>3, <3>1, <3>2 DEF AveragesInRange, BalancesInRange, BalanceInRange
  <2> QED
    BY <2>2, <2>3
<1> QED
  BY <1>1, LedgersInvariant, PTL

-----------------------------------------------------------------------------
(* A failed challenge does not help.                                       *)

\* What challenges are worth grows with the score and with the pass rate.
LEMMA PointsGrow ==
    ASSUME NEW x \in 0..100, NEW y \in 0..100, NEW r \in Int, NEW q \in Int,
           x <= y, r <= q,
           NEW before, NEW after, before.challenges # 0, after.challenges # 0,
           before.score = y, before.passRate = q, after.score = x, after.passRate = r
    PROVE  challengePoints(after) <= challengePoints(before)
<1>1. challengePoints(after) =
         smaller(10, x \div 10) - (IF r < 8000 THEN smaller(25, (8000 - r) \div 400) ELSE 0)
  BY DEF challengePoints
<1>2. challengePoints(before) =
         smaller(10, y \div 10) - (IF q < 8000 THEN smaller(25, (8000 - q) \div 400) ELSE 0)
  BY DEF challengePoints
<1>3. x \div 10 <= y \div 10 /\ x \div 10 \in Int /\ y \div 10 \in Int
  OBVIOUS
<1>4. /\ (8000 - q) \div 400 <= (8000 - r) \div 400
      /\ (8000 - q) \div 400 \in Int /\ (8000 - r) \div 400 \in Int
      /\ r < 8000 => 0 <= (8000 - r) \div 400
  OBVIOUS
<1> DEFINE xx == x \div 10
           yy == y \div 10
           qq == (8000 - q) \div 400
           rr == (8000 - r) \div 400
<1> HIDE DEF xx, yy, qq, rr
<1>5. /\ xx <= yy /\ xx \in Int /\ yy \in Int /\ qq <= rr /\ qq \in Int /\ rr \in Int
      /\ r < 8000 => 0 <= rr
  BY <1>3, <1>4 DEF xx, yy, qq, rr
<1>6. smaller(10, xx) - (IF r < 8000 THEN smaller(25, rr) ELSE 0)
         <= smaller(10, yy) - (IF q < 8000 THEN smaller(25, qq) ELSE 0)
  BY <1>5 DEF smaller
<1> QED
  BY <1>1, <1>2, <1>6 DEF xx, yy, qq, rr

\* The rest of a provider's score is a number.
LEMMA StandingPoints ==
    ASSUME NEW st \in Standings, NEW s, NEW t
    PROVE  LET x == WithSummary(st, s)
               y == WithSummary(st, t)
           IN  /\ nodePoints(x) \in Int /\ settlementPoints(x) \in Int /\ errorPoints(x) \in Int
               /\ nodePoints(y) = nodePoints(x) /\ settlementPoints(y) = settlementPoints(x)
               /\ errorPoints(y) = errorPoints(x)
<1> DEFINE x == WithSummary(st, s)
           y == WithSummary(st, t)
<1>1. /\ st.total \in Nat /\ st.healthy \in Nat /\ st.cooldown \in Nat /\ st.streak \in Nat
      /\ st.events \in Nat /\ st.tokens \in Nat /\ st.penalty \in Nat
  BY LedgersAssumption
<1>2. /\ x.total = st.total /\ x.healthy = st.healthy /\ x.cooldown = st.cooldown
      /\ x.streak = st.streak /\ x.events = st.events /\ x.tokens = st.tokens
      /\ x.penalty = st.penalty
      /\ y.total = st.total /\ y.healthy = st.healthy /\ y.cooldown = st.cooldown
      /\ y.streak = st.streak /\ y.events = st.events /\ y.tokens = st.tokens
      /\ y.penalty = st.penalty
  BY DEF WithSummary
<1> HIDE DEF x, y
<1>3. nodePoints(x) \in Int
  <2>1. CASE st.total = 0
    BY <1>2, <2>1 DEF nodePoints
  <2>2. CASE st.total # 0
    <3>1. 30 * st.healthy \in Int /\ st.total > 0 /\ 10 * st.cooldown \in Int
      BY <1>1, <2>2
    <3>2. (30 * st.healthy) \div st.total \in Int
      BY <1>1, <3>1, DivDef
    <3> QED
      BY <1>2, <2>2, <3>1, <3>2 DEF nodePoints
  <2> QED
    BY <2>1, <2>2
<1>4. settlementPoints(x) \in Int /\ errorPoints(x) \in Int
  <2>1. st.tokens \div 1000 \in Int /\ st.penalty \div 100 \in Int
    BY <1>1
  <2> QED
    BY <1>1, <1>2, <2>1 DEF settlementPoints, errorPoints, smaller
<1>5. nodePoints(y) = nodePoints(x)
  BY <1>2 DEF nodePoints
<1>6. settlementPoints(y) = settlementPoints(x) /\ errorPoints(y) = errorPoints(x)
  BY <1>2 DEF settlementPoints, errorPoints
<1> QED
  BY <1>3, <1>4, <1>5, <1>6 DEF x, y

\* Points are numbers.
LEMMA PointsType ==
    ASSUME NEW item, item.score \in Int, item.passRate \in Int
    PROVE  challengePoints(item) \in Int
<1>1. item.score \div 10 \in Int /\ (8000 - item.passRate) \div 400 \in Int
  OBVIOUS
<1> DEFINE a == item.score \div 10
           b == (8000 - item.passRate) \div 400
<1> HIDE DEF a, b
<1>2. a \in Int /\ b \in Int
  BY <1>1 DEF a, b
<1>3. challengePoints(item) =
         IF item.challenges = 0 THEN 0
         ELSE smaller(10, a) - (IF item.passRate < 8000 THEN smaller(25, b) ELSE 0)
  BY DEF challengePoints, a, b
<1> QED
  BY <1>2, <1>3 DEF smaller

\* With the rest as it is, fewer points for challenges give no better score.
LEMMA ScoreFollowsPoints ==
    ASSUME NEW st \in Standings, NEW s, NEW t,
           challengePoints(WithSummary(st, s)) \in Int,
           challengePoints(WithSummary(st, t)) \in Int,
           challengePoints(WithSummary(st, t)) <= challengePoints(WithSummary(st, s))
    PROVE  score(WithSummary(st, t)) <= score(WithSummary(st, s))
<1> DEFINE x == WithSummary(st, s)
           y == WithSummary(st, t)
<1>1. /\ nodePoints(x) \in Int /\ settlementPoints(x) \in Int /\ errorPoints(x) \in Int
      /\ nodePoints(y) = nodePoints(x) /\ settlementPoints(y) = settlementPoints(x)
      /\ errorPoints(y) = errorPoints(x)
  BY StandingPoints
<1>2. x.disabled = FALSE /\ y.disabled = FALSE
  BY DEF WithSummary
<1> HIDE DEF x, y
<1>3. rawScore(y) <= rawScore(x) /\ rawScore(x) \in Int /\ rawScore(y) \in Int
  <2>1. /\ challengePoints(x) \in Int /\ challengePoints(y) \in Int
        /\ challengePoints(y) <= challengePoints(x)
    BY DEF x, y
  <2> QED
    BY <1>1, <2>1 DEF rawScore
<1>4. score(y) <= score(x)
  BY <1>2, <1>3 DEF score
<1> QED
  BY <1>4 DEF x, y

\* A failed challenge is worth nothing to the provider.
LEMMA FailureCosts ==
    ASSUME NEW s \in Summary, NEW mine, NEW b \in ChallengeBodies, SummaryInRange(s, mine),
           ~b.passed, s.challenges = 0 \/ b.score <= s.score,
           NEW st \in Standings
    PROVE  score(WithSummary(st, addChallenge(s, b))) <= score(WithSummary(st, s))
<1> DEFINE n == s.challenges
           t == addChallenge(s, b)
           x == WithSummary(st, s)
           y == WithSummary(st, t)
<1>1. b.score \in 0..100 /\ b.score \in Int
  BY ChallengeBodyType
<1>2. /\ n \in Nat /\ s.passed \in Int /\ s.score \in Int /\ s.score \in 0..100
      /\ 0 <= s.passed /\ s.passed <= n
  BY DEF Summary, SummaryInRange
<1>3. /\ t.challenges = n + 1
      /\ t.passed = s.passed
      /\ t.score = (s.score * n + b.score) \div (n + 1)
  <2>1. (n + 1) - 1 = n /\ s.passed + 0 = s.passed
    BY <1>2
  <2> HIDE DEF n
  <2> QED
    BY <2>1 DEF addChallenge, n
<1>4. t \in Summary
  BY AddChallengeType
<1>5. /\ x.challenges = n /\ x.passRate = passRateBPS(s) /\ x.score = s.score
      /\ y.challenges = n + 1 /\ y.passRate = passRateBPS(t) /\ y.score = t.score
  BY <1>3 DEF WithSummary
<1> HIDE DEF t, n
<1>6. /\ t.score \in Int
      /\ s.score <= b.score => s.score <= t.score /\ t.score <= b.score
      /\ b.score <= s.score => b.score <= t.score /\ t.score <= s.score
  <2>1. PICK a, c : a = s.score /\ c = b.score
    OBVIOUS
  <2>2. a \in Int /\ c \in Int /\ n \in Nat
    BY <1>1, <1>2, <2>1
  <2>3. t.score = (a * n + c) \div (n + 1)
    BY <1>3, <2>1
  <2>4. /\ t.score \in Int
        /\ a <= c => a <= t.score /\ t.score <= c
        /\ c <= a => c <= t.score /\ t.score <= a
    BY <2>2, <2>3, MeanBetween
  <2> QED
    BY <2>1, <2>4
<1>7. t.score \in 0..100
  BY <1>1, <1>2, <1>6
<1>8. passRateBPS(s) \in Int
  BY <1>2, RateInRange DEF n
<1>9. passRateBPS(t) \in Int
  <2>1. 0 <= t.passed /\ t.passed <= t.challenges
    BY <1>2, <1>3
  <2> QED
    BY <1>4, <2>1, RateInRange
<1> HIDE DEF x, y
<1>10. challengePoints(x) \in Int /\ challengePoints(y) \in Int
  <2>1. /\ x.score \in Int /\ x.passRate \in Int /\ y.score \in Int /\ y.passRate \in Int
    BY <1>2, <1>5, <1>6, <1>8, <1>9
  <2> QED
    BY <2>1, PointsType
<1>11. challengePoints(y) <= challengePoints(x)
  <2>1. CASE n = 0
    <3>1. challengePoints(x) = 0
      BY <1>5, <2>1 DEF challengePoints
    <3>2. passRateBPS(t) = 0
      <4>1. t.passed = 0 /\ t.challenges = 1
        BY <1>2, <1>3, <2>1
      <4> QED
        BY <4>1 DEF passRateBPS
    <3>3. challengePoints(y) = smaller(10, t.score \div 10) - smaller(25, (8000 - 0) \div 400)
      BY <1>5, <2>1, <3>2 DEF challengePoints
    <3>4. (8000 - 0) \div 400 = 20 /\ t.score \div 10 \in Int
      BY <1>6
    <3> QED
      BY <3>1, <3>3, <3>4 DEF smaller
  <2>2. CASE n # 0
    <3>1. t.score <= s.score
      BY <1>6, <2>2 DEF n
    <3>2. passRateBPS(t) <= passRateBPS(s)
      <4>1. PICK a : a = s.passed * 10000
        OBVIOUS
      <4>2. a \in Nat
        BY <1>2, <4>1
      <4>3. passRateBPS(s) = a \div n
        BY <2>2, <4>1 DEF passRateBPS, n
      <4>4. passRateBPS(t) = a \div (n + 1)
        BY <1>2, <1>3, <4>1 DEF passRateBPS
      <4>5. n \in Nat /\ n > 0
        BY <1>2, <2>2
      <4>6. a \div (n + 1) <= a \div n
        BY <4>2, <4>5, DivByMore
      <4> QED
        BY <4>3, <4>4, <4>6
    <3>3. x.challenges # 0 /\ y.challenges # 0
      BY <1>2, <1>5, <2>2
    <3> QED
      BY <1>2, <1>5, <1>7, <3>1, <3>2, <3>3, <1>8, <1>9, PointsGrow
  <2> QED
    BY <2>1, <2>2
<1> QED
  BY <1>10, <1>11, ScoreFollowsPoints DEF x, y, t

\* For any history of challenges and any nodes, settlements and errors, a
\* failed challenge does not raise the score that the reputation report gives.
THEOREM FailuresNeverHelp == Spec => []FailureNeverHelps
<1>1. LedgersInv => FailureNeverHelps
  <2> SUFFICES ASSUME LedgersInv, kind = "challenge_jsonl", NEW i \in 1..Len(events),
                      NEW before, NEW after, NEW b, b = events[i].body,
                      before = summaries(bodiesOf(SubSeq(events, 1, i - 1)))[b.provider],
                      after = summaries(bodiesOf(SubSeq(events, 1, i)))[b.provider],
                      ~b.passed, before.challenges = 0 \/ b.score <= before.score,
                      NEW st \in Standings
               PROVE  score(WithSummary(st, after)) <= score(WithSummary(st, before))
    BY DEF FailureNeverHelps
  <2>1. TypeOK /\ events \in Seq(EventRecords)
    BY DEF LedgersInv, TypeOK
  <2>2. /\ SubSeq(events, 1, i - 1) \in Seq(EventRecords) /\ events[i] \in EventRecords
        /\ SubSeq(events, 1, i) = Append(SubSeq(events, 1, i - 1), events[i])
    BY <2>1, SubSeqGrows
  <2>3. PICK bodies \in Seq(ChallengeBodies) : bodies = bodiesOf(SubSeq(events, 1, i - 1))
    BY <2>1, <2>2, BodiesByKind
  <2>4. bodiesOf(SubSeq(events, 1, i)) = Append(bodies, b)
    BY <2>2, <2>3, BodiesAppend
  <2>5. b \in ChallengeBodies
    BY <2>2 DEF EventRecords, Bodies
  <2>6. b.provider \in Challenged
    BY <2>5, ChallengeBodyType
  <2>7. before \in Summary /\ SummaryInRange(before, recordedFor(b.provider, bodies))
    BY <2>3, <2>6, SummariesType, AlwaysInRange DEF SummariesInRange
  <2>8. after = addChallenge(before, b)
    <3>1. PICK ss : ss = summaries(bodies)
      OBVIOUS
    <3>2. /\ ss \in [Challenged -> Summary]
          /\ summaries(Append(bodies, b)) = [ss EXCEPT ![b.provider] = addChallenge(@, b)]
      BY <2>5, <3>1, SummariesAppend
    <3> QED
      BY <2>3, <2>4, <2>6, <3>1, <3>2
  <2> QED
    BY <2>5, <2>7, <2>8, FailureCosts
<1> QED
  BY <1>1, LedgersInvariant, PTL

=============================================================================
