----------------------------- MODULE AuditProofs -----------------------------
(***************************************************************************)
(* Proofs about Audit, for every set of writers and events and with no     *)
(* bound on lines or edits that matters: the hash a line names covers what *)
(* was recorded before it, and a diary nothing happened to chains.         *)
(***************************************************************************)
EXTENDS Audit, TLAPS

USE LinesAssumption

(* Whatever a process, a full disk or an editor does to the diary. *)
AuditStep ==
    \/ \E w \in Writers, event \in Events : BeginAppend(w, event)
    \/ \E w \in Writers : WriteLine(w) \/ WriteIsCutShort(w) \/ AppendDies(w)
    \/ Edit

(* What a line behind n others may name: the hash of what was recorded in  *)
(* the last of them, or a hash that is too short, of an earlier one.       *)
Follows(previous, n) ==
    /\ previous \in Hashes /\ Len(previous) <= n
    /\ n > 0 => previous = Hash(written[n], log[n].previous) \/ Len(previous) < n

Short(i) == Len(log[i].previous) < i - 1
Gap(j) == j > 1 /\ Len(log[j].previous) # Len(log[j - 1].previous) + 1

(* An edit leaves alone the hash a line names.  So what follows a line     *)
(* covers what was recorded in it, and the last line has the hash of what  *)
(* was recorded; where a line names too short a hash, the chain is broken. *)
LastHashRecorded ==
    LET n == Len(log)
    IN log # <<>> => log[n].hash = Hash(written[n], log[n].previous)

CoversWhatWasRecorded ==
    Readable(log) =>
      /\ \A i \in DOMAIN log : Follows(log[i].previous, i - 1)
      /\ (\E i \in DOMAIN log : Short(i)) => \E j \in DOMAIN log : Gap(j)
      /\ LastHashRecorded
      /\ \A w \in Writers : append[w] # NoAppend => Follows(append[w].previous, Len(log))

(* Unless something happened to it, a diary verifies, at most one process  *)
(* is in Append, and the hash it read is still the last one.               *)
Undisturbed == ~shared /\ ~torn /\ edits = 0
OneAppends == \A v, w \in Writers : append[v] # NoAppend /\ append[w] # NoAppend => v = w
HasLastHash == \A w \in Writers : append[w] # NoAppend => append[w].previous = LastHash(log)
Chains == Undisturbed => Verify(log) /\ OneAppends /\ HasLastHash

AuditInv == AuditTypeOK /\ CoversWhatWasRecorded /\ Chains

-----------------------------------------------------------------------------
(* The hash of the last line is a hash. *)
LEMMA LastHashType ==
    ASSUME NEW lines \in Seq(Lines \cup {Torn})
    PROVE  LastHash(lines) \in Hashes
<1>1. Genesis \in Hashes
  BY DEF Genesis, Hashes
<1>2. CASE lines # <<>> /\ Readable(lines)
  <2>1. Len(lines) \in DOMAIN lines
    BY <1>2
  <2>2. lines[Len(lines)] \in Lines
    BY <1>2, <2>1 DEF Readable
  <2> QED
    BY <1>2, <2>2 DEF LastHash, Lines
<1> QED
  BY <1>1, <1>2 DEF LastHash

(* A line read back is a line. *)
LEMMA LineType ==
    ASSUME NEW event \in Events, NEW previous \in Hashes
    PROVE  Line(event, previous) \in Lines
BY DEF Line, Lines, Hash, Hashes

(* A line at the end is verified against the last hash, and what stood     *)
(* before it just as it was.                                               *)
LEMMA VerifyAppend ==
    ASSUME NEW lines \in Seq(Lines \cup {Torn}), NEW line \in Lines \cup {Torn}
    PROVE  Verify(Append(lines, line)) <=>
             /\ Verify(lines) /\ line # Torn
             /\ line.previous = LastHash(lines)
             /\ line.hash = Hash(line.event, line.previous)
<1> DEFINE longer == Append(lines, line)  n == Len(lines) + 1
<1>1. /\ n \in Nat /\ DOMAIN lines = 1..(n - 1) /\ DOMAIN longer = 1..n
      /\ longer[n] = line /\ \A i \in 1..(n - 1) : longer[i] = lines[i]
  OBVIOUS
<1>2. Readable(longer) <=> Readable(lines) /\ line # Torn
  BY <1>1 DEF Readable
<1>3. \A i \in 1..(n - 1) : HashBefore(longer, i) = HashBefore(lines, i)
  BY <1>1 DEF HashBefore
<1>4. Readable(lines) => HashBefore(longer, n) = LastHash(lines)
  <2>1. CASE lines = <<>>
    <3>1. n = 1
      BY <2>1
    <3> QED
      BY <2>1, <3>1 DEF HashBefore, LastHash
  <2>2. CASE lines # <<>>
    <3>1. n # 1 /\ n - 1 = Len(lines) /\ n - 1 \in 1..(n - 1)
      BY <2>2
    <3> QED
      BY <1>1, <2>2, <3>1 DEF HashBefore, LastHash
  <2> QED
    BY <2>1, <2>2
<1>5. DOMAIN longer = (1..(n - 1)) \cup {n} /\ n \notin 1..(n - 1)
  BY <1>1
<1> HIDE DEF longer, n
<1> DEFINE Sound(ls, i) == /\ ls[i].previous = HashBefore(ls, i)
                           /\ ls[i].hash = Hash(ls[i].event, ls[i].previous)
<1>6. \A i \in 1..(n - 1) : Sound(longer, i) <=> Sound(lines, i)
  BY <1>1, <1>3
<1>7. Readable(lines) =>
        (Sound(longer, n) <=> line.previous = LastHash(lines)
                              /\ line.hash = Hash(line.event, line.previous))
  BY <1>1, <1>4
<1>8. Verify(longer) <=> Readable(longer) /\ \A i \in DOMAIN longer : Sound(longer, i)
  BY DEF Verify
<1>9. Verify(lines) <=> Readable(lines) /\ \A i \in 1..(n - 1) : Sound(lines, i)
  BY <1>1 DEF Verify
<1> HIDE DEF Sound
<1>10. Verify(longer) <=> /\ Verify(lines) /\ line # Torn
                          /\ line.previous = LastHash(lines)
                          /\ line.hash = Hash(line.event, line.previous)
  BY <1>2, <1>5, <1>6, <1>7, <1>8, <1>9
<1> QED
  BY <1>10 DEF longer

(* A hash covers one event. *)
LEMMA HashCovers ==
    ASSUME NEW previous \in Hashes, NEW a \in Events, NEW b \in Events,
           Hash(a, previous) = Hash(b, previous)
    PROVE  a = b
<1>1. Append(previous, a)[Len(previous) + 1] = a /\ Append(previous, b)[Len(previous) + 1] = b
  BY DEF Hashes
<1> QED
  BY <1>1 DEF Hash

(* It is one longer than the hash it was made from. *)
LEMMA HashLength ==
    ASSUME NEW previous \in Hashes, NEW event \in Events
    PROVE  Hash(event, previous) \in Hashes /\ Len(Hash(event, previous)) = Len(previous) + 1
BY DEF Hashes, Hash

(* A line that was not cut short, and what was recorded in it. *)
LEMMA Parts ==
    ASSUME AuditTypeOK, NEW i \in DOMAIN log, log[i] # Torn
    PROVE  /\ log[i] \in Lines /\ log[i].event \in Events /\ log[i].previous \in Hashes
           /\ log[i].hash \in Hashes /\ written[i] \in Events
BY DEF AuditTypeOK, Lines

(* What is read for the last hash. *)
LEMMA LastFollows ==
    ASSUME AuditTypeOK, CoversWhatWasRecorded, Readable(log)
    PROVE  Follows(LastHash(log), Len(log))
<1>1. log \in Seq(Lines \cup {Torn}) /\ Len(log) \in Nat
  BY DEF AuditTypeOK
<1>2. CASE log = <<>>
  <2>1. Len(log) = 0 /\ LastHash(log) = <<>>
    BY <1>2 DEF LastHash, Genesis
  <2> QED
    BY <2>1 DEF Follows, Hashes
<1>3. CASE log # <<>>
  <2> DEFINE n == Len(log)
             before == log[n].previous
             said == written[n]
  <2>1. n \in DOMAIN log /\ n > 0
    BY <1>1, <1>3
  <2>2. log[n] # Torn
    BY <2>1 DEF Readable
  <2>3. before \in Hashes /\ said \in Events
    BY <2>1, <2>2, Parts
  <2>4. Len(before) <= n - 1
    BY <2>1 DEF CoversWhatWasRecorded, Follows
  <2>5. LastHash(log) = Hash(said, before)
    BY <1>3 DEF CoversWhatWasRecorded, LastHashRecorded, LastHash
  <2>6. Hash(said, before) \in Hashes /\ Len(Hash(said, before)) = Len(before) + 1
    BY <2>3, HashLength
  <2>7. Len(before) \in Nat /\ n \in Nat
    BY <1>1, <2>3 DEF Hashes
  <2> DEFINE last == Hash(said, before)
  <2>8. Len(last) <= n
    BY <2>4, <2>6, <2>7
  <2> QED
    BY <2>5, <2>6, <2>8 DEF Follows
<1> QED
  BY <1>2, <1>3

-----------------------------------------------------------------------------
(* A new diary is in order. *)
LEMMA AuditInitInv == AuditInit => AuditInv
<1> SUFFICES ASSUME AuditInit PROVE AuditInv
  OBVIOUS
<1>1. AuditTypeOK
  <2>1. log \in Seq(Lines \cup {Torn}) /\ written \in Seq(Events) /\ Len(log) = Len(written)
    BY DEF AuditInit
  <2>2. append \in [Writers -> Appends \cup {NoAppend}]
    BY DEF AuditInit
  <2> QED
    BY <2>1, <2>2 DEF AuditInit, AuditTypeOK
<1>2. CoversWhatWasRecorded
  BY DEF AuditInit, CoversWhatWasRecorded, LastHashRecorded
<1>3. Verify(log) /\ OneAppends /\ HasLastHash
  BY DEF AuditInit, Verify, Readable, OneAppends, HasLastHash
<1> QED
  BY <1>1, <1>2, <1>3 DEF AuditInv, Chains

(* What Append has read is an append. *)
LEMMA BeginKeeps ==
    ASSUME AuditInv, NEW w \in Writers, NEW event \in Events, BeginAppend(w, event)
    PROVE  AuditInv'
<1> DEFINE a == [event |-> event, previous |-> LastHash(log)]
<1>1. a \in Appends
  BY LastHashType DEF AuditInv, AuditTypeOK, Appends
<1>2. /\ append' = [append EXCEPT ![w] = a]
      /\ UNCHANGED <<log, written, torn, edits>>
      /\ shared' = (shared \/ \E v \in Writers \ {w} : append[v] # NoAppend)
  BY DEF BeginAppend
<1>3. append \in [Writers -> Appends \cup {NoAppend}]
  BY DEF AuditInv, AuditTypeOK
<1>4. AuditTypeOK'
  <2>1. append' \in [Writers -> Appends \cup {NoAppend}]
    BY <1>1, <1>2, <1>3
  <2> QED
    BY <1>2, <2>1 DEF AuditInv, AuditTypeOK
<1>5. CoversWhatWasRecorded'
  <2>1. \A v \in Writers : append'[v] # NoAppend =>
          append'[v].previous = LastHash(log) \/ append'[v] = append[v]
    BY <1>2, <1>3
  <2>2. Readable(log) => Follows(LastHash(log), Len(log))
    BY LastFollows DEF AuditInv
  <2>3. CoversWhatWasRecorded /\ log' = log /\ written' = written
    BY <1>2 DEF AuditInv
  <2>4. Readable(log) => \A v \in Writers : append'[v] # NoAppend =>
          Follows(append'[v].previous, Len(log))
    BY <2>1, <2>2, <2>3 DEF CoversWhatWasRecorded
  <2> QED
    BY <2>3, <2>4 DEF CoversWhatWasRecorded, Follows, Short, Gap, LastHashRecorded
<1>6. Chains'
  <2> SUFFICES ASSUME Undisturbed' PROVE (Verify(log) /\ OneAppends /\ HasLastHash)'
    BY DEF Chains
  <2>1. Undisturbed /\ \A v \in Writers \ {w} : append'[v] = NoAppend
    BY <1>2, <1>3 DEF Undisturbed
  <2>2. append'[w].previous = LastHash(log)
    BY <1>2, <1>3
  <2>3. Verify(log)
    BY <2>1 DEF AuditInv, Chains
  <2>4. OneAppends'
    BY <2>1 DEF OneAppends
  <2>5. HasLastHash'
    BY <1>2, <2>1, <2>2 DEF HasLastHash
  <2> QED
    BY <1>2, <2>3, <2>4, <2>5
<1> QED
  BY <1>4, <1>5, <1>6 DEF AuditInv

(* A line, whole or cut short, at the end. *)
LEMMA PutKeeps ==
    ASSUME AuditInv, NEW w \in Writers, NEW line \in Lines \cup {Torn}, PutLine(w, line),
           torn' = (torn \/ line = Torn),
           line # Torn => line = Line(append[w].event, append[w].previous)
    PROVE  AuditInv'
<1>1. append[w] \in Appends
  BY DEF AuditInv, AuditTypeOK, PutLine
<1> DEFINE event == append[w].event  n == Len(log) + 1
<1>2. event \in Events /\ append[w].previous \in Hashes
  BY <1>1 DEF Appends
<1>3. /\ log' = Append(log, line) /\ written' = Append(written, event)
      /\ append' = [append EXCEPT ![w] = NoAppend]
      /\ UNCHANGED <<shared, edits>>
  BY DEF PutLine
<1>4. /\ log \in Seq(Lines \cup {Torn}) /\ written \in Seq(Events) /\ Len(log) = Len(written)
      /\ append \in [Writers -> Appends \cup {NoAppend}]
      /\ shared \in BOOLEAN /\ torn \in BOOLEAN /\ edits \in Nat
  BY DEF AuditInv, AuditTypeOK
<1> HIDE DEF event
<1>5. AuditTypeOK'
  <2>1. /\ Append(log, line) \in Seq(Lines \cup {Torn}) /\ Append(written, event) \in Seq(Events)
        /\ Len(Append(log, line)) = Len(Append(written, event))
    BY <1>2, <1>4
  <2>2. append' \in [Writers -> Appends \cup {NoAppend}]
    BY <1>3, <1>4
  <2>3. torn' \in BOOLEAN
    BY <1>4
  <2> QED
    BY <1>3, <1>4, <2>1, <2>2, <2>3 DEF AuditTypeOK
<1>6. CoversWhatWasRecorded'
  <2> SUFFICES ASSUME Readable(log)' PROVE
                 /\ \A i \in DOMAIN log' : Follows(log[i].previous, i - 1)'
                 /\ (\E i \in DOMAIN log' : Short(i)') => \E j \in DOMAIN log' : Gap(j)'
                 /\ LastHashRecorded'
                 /\ \A v \in Writers : append'[v] # NoAppend => Follows(append[v].previous, Len(log))'
    BY DEF CoversWhatWasRecorded
  <2>1. /\ Len(log') = n /\ DOMAIN log' = 1..n /\ DOMAIN log = 1..(n - 1) /\ n \in Nat /\ n > 0
        /\ log'[n] = line /\ written'[n] = event
        /\ \A i \in 1..(n - 1) : log'[i] = log[i] /\ written'[i] = written[i]
    BY <1>2, <1>3, <1>4
  <2>2. Readable(log) /\ line # Torn
    BY <2>1 DEF Readable
  <2> DEFINE before == append[w].previous
  <2>3. line.previous = before /\ line.hash = Hash(event, before)
    BY <2>2 DEF Line, event
  <2>4. append[w] # NoAppend
    BY DEF PutLine
  <2>5. Len(log) = n - 1
    BY <1>4
  <2>6. Follows(before, n - 1)
    BY <2>2, <2>4, <2>5 DEF AuditInv, CoversWhatWasRecorded
  <2>7. /\ before \in Hashes /\ Len(before) \in Nat /\ Len(before) <= n - 1
        /\ n - 1 > 0 => before = Hash(written[n - 1], log[n - 1].previous) \/ Len(before) < n - 1
    BY <2>6 DEF Follows, Hashes
  <2>8. /\ \A i \in 1..(n - 1) : Follows(log[i].previous, i - 1)
        /\ (\E i \in 1..(n - 1) : Short(i)) => \E j \in 1..(n - 1) : Gap(j)
        /\ \A v \in Writers : append[v] # NoAppend => Follows(append[v].previous, n - 1)
    BY <2>1, <2>2, <2>5 DEF AuditInv, CoversWhatWasRecorded
  <2> HIDE DEF n, before
  <2>9. ASSUME NEW i \in 1..n PROVE Follows(log[i].previous, i - 1)'
    <3>1. i - 1 > 0 => /\ i - 1 \in 1..(n - 1) /\ log'[i - 1] = log[i - 1]
                       /\ written'[i - 1] = written[i - 1]
      BY <2>1
    <3>2. Follows(log'[i].previous, i - 1)
      <4>1. CASE i = n
        BY <2>1, <2>3, <2>6, <4>1
      <4>2. CASE i # n
        BY <2>1, <2>8, <4>2
      <4> QED
        BY <4>1, <4>2
    <3> QED
      BY <3>1, <3>2 DEF Follows
  <2>10. ASSUME NEW i \in 1..n, Short(i)' PROVE \E j \in 1..n : Gap(j)'
    <3>1. ASSUME NEW j \in 1..(n - 1), Gap(j) PROVE j \in 1..n /\ Gap(j)'
      <4>1. j \in 1..n /\ (j > 1 => j - 1 \in 1..(n - 1))
        BY <2>1
      <4> QED
        BY <2>1, <3>1, <4>1 DEF Gap
    <3>2. CASE \E k \in 1..(n - 1) : Short(k)
      BY <2>8, <3>1, <3>2
    <3>3. CASE ~\E k \in 1..(n - 1) : Short(k)
      <4>1. i = n
        <5>1. ASSUME i # n PROVE FALSE
          <6>1. i \in 1..(n - 1) /\ log'[i] = log[i]
            BY <2>1, <5>1
          <6>2. Short(i)
            BY <2>10, <6>1 DEF Short
          <6> QED
            BY <3>3, <6>1, <6>2
        <5> QED
          BY <5>1
      <4>2. Len(before) < n - 1
        BY <2>1, <2>3, <2>10, <4>1 DEF Short
      <4> DEFINE m == n - 1
      <4>3. m \in 1..(n - 1) /\ n > 1 /\ m \in Nat
        BY <2>1, <2>7, <4>2
      <4>4. log'[m].previous = log[m].previous /\ ~Short(m)
        BY <2>1, <3>3, <4>3
      <4>5. Len(log[m].previous) \in Nat /\ Len(log[m].previous) >= m - 1
        <5>1. log[m].previous \in Hashes
          BY <2>8, <4>3 DEF Follows
        <5>2. Len(log[m].previous) \in Nat
          BY <5>1 DEF Hashes
        <5> QED
          BY <4>3, <4>4, <5>2 DEF Short
      <4>6. Len(before) # Len(log[m].previous) + 1
        BY <2>7, <4>2, <4>3, <4>5
      <4>7. \A j : j = n => Gap(j)'
        BY <2>1, <2>3, <4>3, <4>4, <4>6 DEF Gap
      <4>8. n \in 1..n
        BY <2>1
      <4> QED
        BY <4>7, <4>8
    <3> QED
      BY <3>2, <3>3
  <2>11. LastHashRecorded'
    BY <2>1, <2>3 DEF LastHashRecorded
  <2>12. ASSUME NEW v \in Writers, append'[v] # NoAppend
         PROVE  Follows(append[v].previous, Len(log))'
    <3>1. append'[v] = append[v]
      BY <1>3, <1>4, <2>12
    <3>2. append[v].previous \in Hashes /\ Len(append[v].previous) <= n - 1
      BY <2>8, <2>12, <3>1 DEF Follows
    <3>3. Len(append[v].previous) \in Nat
      BY <3>2 DEF Hashes
    <3>4. Len(append[v].previous) < n
      BY <2>1, <3>2, <3>3
    <3> QED
      BY <2>1, <3>1, <3>2, <3>3, <3>4 DEF Follows
  <2> QED
    BY <2>1, <2>9, <2>10, <2>11, <2>12
<1>7. Chains'
  <2> SUFFICES ASSUME Undisturbed' PROVE (Verify(log) /\ OneAppends /\ HasLastHash)'
    BY DEF Chains
  <2>1. line # Torn /\ Undisturbed
    BY <1>3 DEF Undisturbed
  <2>2. Verify(log) /\ OneAppends /\ HasLastHash
    BY <2>1 DEF AuditInv, Chains
  <2>3. append[w] # NoAppend
    BY DEF PutLine
  <2>4. \A v \in Writers : append'[v] = NoAppend
    BY <1>3, <1>4, <2>2, <2>3 DEF OneAppends
  <2>5. line = Line(append[w].event, append[w].previous) /\ append[w].previous = LastHash(log)
    BY <2>1, <2>2, <2>3 DEF HasLastHash
  <2>6. line.previous = LastHash(log) /\ line.hash = Hash(line.event, line.previous)
    BY <2>5 DEF Line
  <2>7. Verify(Append(log, line))
    BY <1>4, <2>1, <2>2, <2>6, VerifyAppend
  <2> QED
    BY <1>3, <2>4, <2>7 DEF OneAppends, HasLastHash
<1> QED
  BY <1>5, <1>6, <1>7 DEF AuditInv

(* Giving up an Append, and a hand-edited line. *)
LEMMA DiesKeeps ==
    ASSUME AuditInv, NEW w \in Writers, AppendDies(w)
    PROVE  AuditInv'
<1>1. /\ append' = [append EXCEPT ![w] = NoAppend]
      /\ UNCHANGED <<log, written, shared, torn, edits>>
  BY DEF AppendDies
<1>2. append \in [Writers -> Appends \cup {NoAppend}]
  BY DEF AuditInv, AuditTypeOK
<1>3. \A v \in Writers : append'[v] # NoAppend => append'[v] = append[v]
  BY <1>1, <1>2
<1>4. AuditTypeOK'
  BY <1>1, <1>2 DEF AuditInv, AuditTypeOK
<1>5. CoversWhatWasRecorded'
  BY <1>1, <1>3 DEF AuditInv, CoversWhatWasRecorded, Follows, Short, Gap, LastHashRecorded
<1>6. Chains'
  BY <1>1, <1>3 DEF AuditInv, Chains, Undisturbed, OneAppends, HasLastHash
<1> QED
  BY <1>4, <1>5, <1>6 DEF AuditInv

(* An edit changes what a line says, and its hash if others follow it. *)
LEMMA EditKeeps ==
    ASSUME AuditInv, NEW i \in DOMAIN log, NEW event \in Events, EditLine(i, event)
    PROVE  AuditInv'
<1>1. /\ log[i] # Torn /\ edits' = edits + 1 /\ UNCHANGED <<append, written, shared, torn>>
      /\ \/ log' = [log EXCEPT ![i] = Reworded(log[i], event)]
         \/ i < Len(log) /\ log' = [log EXCEPT ![i] = Line(event, log[i].previous)]
  BY DEF EditLine
<1>2. log \in Seq(Lines \cup {Torn}) /\ edits \in Nat
  BY DEF AuditInv, AuditTypeOK
<1>3. log[i] \in Lines /\ log[i].previous \in Hashes
  BY <1>1, Parts DEF AuditInv
<1>4. /\ Reworded(log[i], event) \in Lines
      /\ Reworded(log[i], event).previous = log[i].previous
      /\ Reworded(log[i], event).hash = log[i].hash
  BY <1>3 DEF Lines, Reworded
<1>5. Line(event, log[i].previous) \in Lines
  BY <1>3, LineType
<1>6. Line(event, log[i].previous).previous = log[i].previous
  BY DEF Line
<1>7. PICK line \in Lines : /\ log' = [log EXCEPT ![i] = line]
                            /\ line.previous = log[i].previous
                            /\ i = Len(log) => line.hash = log[i].hash
  <2>1. CASE log' = [log EXCEPT ![i] = Reworded(log[i], event)]
    BY <1>4, <2>1
  <2>2. CASE i < Len(log) /\ log' = [log EXCEPT ![i] = Line(event, log[i].previous)]
    <3>1. i # Len(log)
      BY <1>2, <2>2
    <3> QED
      BY <1>5, <1>6, <2>2, <3>1
  <2> QED
    BY <1>1, <2>1, <2>2
<1>8. /\ log' \in Seq(Lines \cup {Torn}) /\ Len(log') = Len(log) /\ DOMAIN log' = DOMAIN log
      /\ log'[i] = line /\ \A j \in DOMAIN log : j # i => log'[j] = log[j]
  BY <1>2, <1>7
<1>9. \A j \in DOMAIN log : log'[j].previous = log[j].previous
  BY <1>7, <1>8
<1>10. AuditTypeOK'
  BY <1>1, <1>2, <1>8 DEF AuditInv, AuditTypeOK
<1>11. CoversWhatWasRecorded'
  <2> SUFFICES ASSUME Readable(log)' PROVE
                 /\ \A j \in DOMAIN log' : Follows(log[j].previous, j - 1)'
                 /\ (\E j \in DOMAIN log' : Short(j)') => \E j \in DOMAIN log' : Gap(j)'
                 /\ LastHashRecorded'
                 /\ \A v \in Writers : append'[v] # NoAppend => Follows(append[v].previous, Len(log))'
    BY DEF CoversWhatWasRecorded
  <2>1. Readable(log)
    BY <1>1, <1>8 DEF Readable
  <2>2. CoversWhatWasRecorded /\ DOMAIN log = 1..Len(log) /\ Len(log) \in Nat
    BY <1>2 DEF AuditInv
  <2>3. ASSUME NEW previous, NEW k \in 0..Len(log), Follows(previous, k)
        PROVE  Follows(previous, k)'
    <3>1. k > 0 => k \in DOMAIN log
      BY <2>2
    <3> QED
      BY <1>1, <1>9, <2>3, <3>1 DEF Follows
  <2>4. ASSUME NEW j \in DOMAIN log' PROVE Follows(log[j].previous, j - 1)'
    <3>1. j \in DOMAIN log /\ j - 1 \in 0..Len(log)
      BY <1>8, <2>2
    <3>2. Follows(log[j].previous, j - 1)
      BY <2>1, <2>2, <3>1 DEF CoversWhatWasRecorded
    <3> DEFINE before == log[j].previous
               k == j - 1
    <3>3. \A p : Follows(p, j - 1) => Follows(p, j - 1)'
      BY <2>3, <3>1
    <3>4. log'[j].previous = log[j].previous
      BY <1>9, <3>1
    <3> QED
      BY <3>2, <3>3, <3>4 DEF Follows
  <2>5. ASSUME NEW j \in DOMAIN log' PROVE (Short(j)' <=> Short(j)) /\ (Gap(j)' <=> Gap(j))
    <3>1. j \in DOMAIN log /\ (j > 1 => j - 1 \in DOMAIN log)
      BY <1>8, <2>2
    <3> QED
      BY <1>9, <3>1 DEF Short, Gap
  <2>6. LastHashRecorded'
    <3>1. LastHashRecorded
      BY <2>1, <2>2 DEF CoversWhatWasRecorded
    <3>2. Len(log) \in DOMAIN log
      BY <2>2
    <3>3. log'[Len(log)].hash = log[Len(log)].hash
      BY <1>7, <1>8, <3>2
    <3> QED
      BY <1>1, <1>8, <1>9, <3>1, <3>2, <3>3 DEF LastHashRecorded
  <2>7. ASSUME NEW v \in Writers, append'[v] # NoAppend
        PROVE  Follows(append[v].previous, Len(log))'
    <3>1. Follows(append[v].previous, Len(log))
      BY <1>1, <2>1, <2>2, <2>7 DEF CoversWhatWasRecorded
    <3>2. Len(log) \in 0..Len(log)
      BY <2>2
    <3>3. \A p : Follows(p, Len(log)) =>
               /\ p \in Hashes
               /\ Len(p) <= Len(log)
               /\ \/ Len(log) = 0
                  \/ p = Hash(written'[Len(log)], log'[Len(log)].previous)
                  \/ Len(p) < Len(log)
      BY <1>1, <1>9, <2>2 DEF Follows
    <3> QED
      BY <1>1, <1>8, <3>1, <3>3 DEF Follows
  <2> QED
    BY <1>8, <2>1, <2>2, <2>4, <2>5, <2>6, <2>7 DEF CoversWhatWasRecorded
<1>12. Chains'
  BY <1>1, <1>2 DEF Chains, Undisturbed
<1> QED
  BY <1>10, <1>11, <1>12 DEF AuditInv

(* Every step of the diary keeps it in order, as does any step beside it.  *)
LEMMA AuditStepInv == AuditInv /\ (AuditStep \/ UNCHANGED auditVars) => AuditInv'
<1> SUFFICES ASSUME AuditInv, AuditStep \/ UNCHANGED auditVars PROVE AuditInv'
  OBVIOUS
<1>1. ASSUME NEW w \in Writers, NEW event \in Events, BeginAppend(w, event) PROVE AuditInv'
  BY <1>1, BeginKeeps
<1>2. ASSUME NEW w \in Writers, WriteLine(w) PROVE AuditInv'
  <2>1. append[w] \in Appends
    BY <1>2 DEF AuditInv, AuditTypeOK, WriteLine, PutLine
  <2> DEFINE line == Line(append[w].event, append[w].previous)
  <2>2. line \in Lines
    BY <2>1, LineType DEF Appends
  <2>3. PutLine(w, line) /\ torn' = torn /\ torn \in BOOLEAN
    BY <1>2 DEF WriteLine, AuditInv, AuditTypeOK
  <2>4. line # Torn
    BY <2>2 DEF Lines, Torn
  <2> HIDE DEF line
  <2>5. torn' = (torn \/ line = Torn)
    BY <2>3, <2>4
  <2> QED
    BY <2>2, <2>3, <2>5, PutKeeps DEF line
<1>3. ASSUME NEW w \in Writers, WriteIsCutShort(w) PROVE AuditInv'
  <2>1. PutLine(w, Torn) /\ torn' = (torn \/ Torn = Torn)
    BY <1>3 DEF WriteIsCutShort
  <2> QED
    BY <2>1, PutKeeps
<1>4. ASSUME NEW w \in Writers, AppendDies(w) PROVE AuditInv'
  BY <1>4, DiesKeeps
<1>5. CASE Edit
  BY <1>5, EditKeeps DEF Edit
<1>6. CASE UNCHANGED auditVars
  BY <1>6 DEF auditVars, AuditInv, AuditTypeOK, CoversWhatWasRecorded, Follows, Short, Gap,
              LastHashRecorded, Chains, Undisturbed, OneAppends, HasLastHash
<1> QED
  BY <1>1, <1>2, <1>3, <1>4, <1>5, <1>6 DEF AuditStep

-----------------------------------------------------------------------------
(* What follows of the properties of Audit. *)

(* A diary that verifies says what was recorded: no line names too short a *)
(* hash, so each names the hash of what was recorded before it, and that   *)
(* is the hash of what the line before it says.                            *)
LEMMA InvVerifiedIsRecorded == AuditInv => VerifiedIsWhatWasRecorded
<1> SUFFICES ASSUME AuditInv, Verify(log), NEW i \in DOMAIN log
             PROVE  log[i].event = written[i]
  BY DEF VerifiedIsWhatWasRecorded
<1>1. AuditTypeOK /\ CoversWhatWasRecorded /\ Readable(log)
      /\ DOMAIN log = 1..Len(log) /\ Len(log) \in Nat
  BY DEF AuditInv, AuditTypeOK, Verify
<1>2. \A k \in DOMAIN log : /\ log[k] # Torn
                            /\ log[k].previous = HashBefore(log, k)
                            /\ log[k].hash = Hash(log[k].event, log[k].previous)
  BY <1>1 DEF Verify, Readable
<1>3. \A k \in DOMAIN log : /\ log[k].event \in Events /\ log[k].previous \in Hashes
                            /\ written[k] \in Events
  BY <1>1, <1>2, Parts
<1>4. ASSUME NEW k \in DOMAIN log, k > 1
      PROVE  /\ k - 1 \in DOMAIN log
             /\ log[k].previous = Hash(log[k - 1].event, log[k - 1].previous)
  <2>1. k - 1 \in DOMAIN log
    BY <1>1, <1>4
  <2> QED
    BY <1>2, <1>4, <2>1 DEF HashBefore
<1>5. ~\E k \in DOMAIN log : Gap(k)
  <2> SUFFICES ASSUME NEW k \in DOMAIN log, Gap(k) PROVE FALSE
    OBVIOUS
  <2>1. k > 1
    BY DEF Gap
  <2> DEFINE m == k - 1
             before == log[m].previous
             said == log[m].event
  <2>2. m \in DOMAIN log /\ log[k].previous = Hash(said, before)
    BY <1>4, <2>1
  <2>3. said \in Events /\ before \in Hashes
    BY <1>3, <2>2
  <2>4. Len(Hash(said, before)) = Len(before) + 1
    BY <2>3, HashLength
  <2> QED
    BY <2>2, <2>4 DEF Gap
<1>6. ~\E k \in DOMAIN log : Short(k)
  BY <1>1, <1>5 DEF CoversWhatWasRecorded
<1>7. CASE i = Len(log)
  <2>1. log # <<>>
    BY <1>1
  <2>2. log[i].hash = Hash(written[i], log[i].previous)
    BY <1>1, <1>7, <2>1 DEF CoversWhatWasRecorded, LastHashRecorded
  <2> QED
    BY <1>2, <1>3, <2>2, HashCovers
<1>8. CASE i # Len(log)
  <2> DEFINE k == i + 1
  <2>1. k \in DOMAIN log /\ k > 1 /\ k - 1 = i /\ i > 0
    BY <1>1, <1>8
  <2>2. log[k].previous = Hash(log[i].event, log[i].previous)
    BY <1>4, <2>1
  <2>3. Follows(log[k].previous, i) /\ ~(Len(log[k].previous) < i)
    BY <1>1, <1>6, <2>1 DEF CoversWhatWasRecorded, Short
  <2>4. log[k].previous = Hash(written[i], log[i].previous)
    BY <2>1, <2>3 DEF Follows
  <2> QED
    BY <1>3, <2>2, <2>4, HashCovers
<1> QED
  BY <1>7, <1>8

(* A diary nothing happened to verifies. *)
LEMMA InvBreaksForAReason == AuditInv => BreaksForAReason
BY DEF AuditInv, AuditTypeOK, Chains, Undisturbed, BreaksForAReason

(* Only an edit mends a broken chain. *)
LEMMA BrokenStays ==
    AuditInv /\ (AuditStep \/ UNCHANGED auditVars) => (Verify(log)' => Verify(log) \/ edits' > edits)
<1> SUFFICES ASSUME AuditInv, AuditStep \/ UNCHANGED auditVars, Verify(log)'
             PROVE  Verify(log) \/ edits' > edits
  OBVIOUS
<1>1. log \in Seq(Lines \cup {Torn}) /\ edits \in Nat
  BY DEF AuditInv, AuditTypeOK
<1>2. CASE log' = log
  BY <1>2
<1>3. ASSUME NEW w \in Writers, NEW line \in Lines \cup {Torn}, PutLine(w, line)
      PROVE  Verify(log)
  <2>1. log' = Append(log, line)
    BY <1>3 DEF PutLine
  <2> QED
    BY <1>1, <2>1, VerifyAppend
<1>4. ASSUME NEW w \in Writers, WriteLine(w) PROVE Verify(log)
  <2>1. append[w] \in Appends
    BY <1>4 DEF AuditInv, AuditTypeOK, WriteLine, PutLine
  <2>2. Line(append[w].event, append[w].previous) \in Lines
    BY <2>1, LineType DEF Appends
  <2> QED
    BY <1>3, <1>4, <2>2 DEF WriteLine
<1>5. ASSUME NEW w \in Writers, WriteIsCutShort(w) PROVE Verify(log)
  BY <1>3, <1>5 DEF WriteIsCutShort
<1>6. CASE Edit
  <2>1. edits' = edits + 1
    BY <1>6 DEF Edit, EditLine
  <2> QED
    BY <1>1, <2>1
<1> QED
  BY <1>2, <1>4, <1>5, <1>6 DEF AuditStep, BeginAppend, AppendDies, auditVars
=============================================================================
